------------------------- MODULE ReturnQueueProofs -------------------------
(***************************************************************************)
(* Theorems about ReturnQueue, for any requests, users and bounds.         *)
(***************************************************************************)
EXTENDS ReturnQueue, SequenceLemmas

Sent(r) == wire[r] \in {"unacked", "acked"}

\* Nothing is asked of the nodes before its request is made.
NothingUnasked == \A r \in Requests : phase[r] = "new" => wire[r] = "none"

\* The answers a modules list gets; and without faults a list comes into the cache
\* once, and leaves it as it is answered.
ListOf(l) ==
  /\ result[l] \in {"none", "list", "404", "problem"}
  /\ result[l] = "problem" => faults > 0
  /\ faults = 0 =>
       /\ Len(CachedOf({l})) <= 1
       /\ ~Sent(l) => CachedOf({l}) = <<>> /\ phase[l] # "found" /\ result[l] # "list"
       /\ result[l] = "list" => CachedOf({l}) = <<>>

ListsComeOnce == \A l \in ListReqs : ListOf(l)

\* A GET picks its picture once.
PickedWhenFound == \A r \in Shots : picked[r] # None => phase[r] \in {"found", "over"}

\* PictureLostToAnother, from the moment the picture is in the cache.
PictureOf(s) ==
  Sent(s) => \/ s \in Cached \/ \E r \in Shots : picked[r] = s
             \/ \E r \in Shots : result[r] = "picture" /\ picked[r] # s
             \/ faults > 0

PicturesKept == \A s \in Shots : PictureOf(s)

\* The inductive invariant.
ReturnInv ==
  TypeOK /\ NothingUnasked /\ ListsComeOnce /\ PickedWhenFound /\ PicturesKept

-----------------------------------------------------------------------------
(* The cache.                                                              *)

\* A message is in the cache if it can be selected from it.
LEMMA CachedFacts ==
  ASSUME cache \in Seq(Requests)
  PROVE  /\ Cached \subseteq Requests
         /\ \A x : x \in Cached <=> CachedOf({x}) # <<>>
<1>1. Cached \subseteq Requests
  BY DEF Cached
<1>2. ASSUME NEW x PROVE x \in Cached <=> CachedOf({x}) # <<>>
  <2> DEFINE r == Filter(cache, {x})
  <2>1. Elements(r) = Elements(cache) \cap {x}
    BY FilterElements
  <2>2. r \in Seq(Requests \cap {x})
    BY FilterType
  <2> HIDE DEF r
  <2>3. r # <<>> <=> Elements(r) # {}
    <3>1. DOMAIN r = 1..Len(r) /\ Len(r) \in Nat /\ (r = <<>> <=> Len(r) = 0)
      BY <2>2
    <3>2. DOMAIN r # {} <=> Len(r) # 0
      <4> DEFINE n == Len(r)
      <4>1. n \in Nat /\ DOMAIN r = 1..n
        BY <3>1
      <4> HIDE DEF n
      <4>2. n # 0 => 1 \in 1..n
        BY <4>1
      <4>3. n = 0 => 1..n = {}
        BY <4>1
      <4>4. QED
        BY <4>1, <4>2, <4>3 DEF n
    <3>3. QED
      BY <3>1, <3>2 DEF Elements
  <2>4. QED
    BY <2>1, <2>3 DEF Cached, CachedOf, Elements, r
<1>3. QED
  BY <1>1, <1>2

\* What is left of the cache when some messages are rejected.
LEMMA RejectFacts ==
  ASSUME cache \in Seq(Requests), NEW reqs, RejectFromCache(reqs)
  PROVE  /\ cache' \in Seq(Requests)
         /\ \A x \in Requests : x \in Cached' <=> x \in Cached /\ x \notin reqs
         /\ \A x \in Requests : CachedOf({x})' = IF x \in reqs THEN <<>> ELSE CachedOf({x})
<1> DEFINE kept == Requests \ reqs
<1>1. cache' = Filter(cache, kept) /\ cache' \in Seq(Requests \cap kept)
  BY FilterType DEF RejectFromCache, CachedOf
<1>2. cache' \in Seq(Requests)
  BY <1>1
<1>3. ASSUME NEW x \in Requests PROVE x \in Cached' <=> x \in Cached /\ x \notin reqs
  <2>1. Elements(cache') = Elements(cache) \cap kept
    BY <1>1, FilterElements
  <2>2. QED
    BY <2>1 DEF Cached, Elements
<1>4. ASSUME NEW x \in Requests
      PROVE  CachedOf({x})' = IF x \in reqs THEN <<>> ELSE CachedOf({x})
  <2>1. CachedOf({x})' = Filter(cache, kept \cap {x})
    BY <1>1, FilterTwice DEF CachedOf
  <2>2. CASE x \in reqs
    <3>1. kept \cap {x} = {}
      BY <2>2
    <3>2. Filter(cache, {}) \in Seq(Requests \cap {})
      BY FilterType
    <3>3. Filter(cache, {}) = <<>>
      BY <3>2
    <3>4. QED
      BY <2>1, <2>2, <3>1, <3>3
  <2>3. CASE x \notin reqs
    <3>1. kept \cap {x} = {x}
      BY <2>3
    <3>2. QED
      BY <2>1, <2>3, <3>1 DEF CachedOf
  <2>4. QED
    BY <2>2, <2>3
<1>5. QED
  BY <1>2, <1>3, <1>4

\* A message comes into the cache.
LEMMA AppendCacheFacts ==
  ASSUME cache \in Seq(Requests), NEW r \in Requests, cache' = Append(cache, r)
  PROVE  /\ cache' \in Seq(Requests)
         /\ \A x : x \in Cached' <=> x \in Cached \/ x = r
         /\ \A x : x # r => CachedOf({x})' = CachedOf({x})
         /\ CachedOf({r})' = Append(CachedOf({r}), r)
<1>1. /\ cache' \in Seq(Requests) /\ Len(cache) \in Nat
      /\ DOMAIN cache = 1..Len(cache) /\ DOMAIN cache' = 1..(Len(cache) + 1)
      /\ cache'[Len(cache) + 1] = r /\ \A i \in 1..Len(cache) : cache'[i] = cache[i]
  OBVIOUS
<1>2. ASSUME NEW x PROVE x \in Cached' <=> x \in Cached \/ x = r
  <2>1. \A i \in DOMAIN cache' : i \in DOMAIN cache \/ i = Len(cache) + 1
    BY <1>1
  <2>2. Len(cache) + 1 \in DOMAIN cache' /\ \A i \in DOMAIN cache : i \in DOMAIN cache'
    BY <1>1
  <2>3. QED
    BY <1>1, <2>1, <2>2 DEF Cached
<1>3. ASSUME NEW x
      PROVE  CachedOf({x})' = IF r \in {x} THEN Append(CachedOf({x}), r) ELSE CachedOf({x})
  BY FilterAppend DEF CachedOf
<1>4. QED
  BY <1>1, <1>2, <1>3

-----------------------------------------------------------------------------
(* TypeOK, in four parts.                                                  *)

Phased ==
  /\ phase \in [Requests -> {"new", "waiting", "found", "over"}]
  /\ result \in [Requests -> {"none", "list", "404", "picture", "exhausted", "problem"}]
  /\ \A r \in Requests : phase[r] = "over" <=> result[r] # "none"

Looked ==
  /\ looks \in [Requests -> Nat]
  /\ \A r \in Requests : looks[r] <= (IF r \in Shots THEN MaxTries ELSE MaxPolls)

Picked ==
  /\ picked \in [Shots -> Shots \cup {None}]
  /\ \A r \in Shots : phase[r] = "found" => picked[r] # None

Stored ==
  /\ wire \in [Requests -> {"none", "asked", "queued", "unacked", "acked"}]
  /\ cache \in Seq(Requests)
  /\ login \in [Users -> Shots \cup {None}]
  /\ pic \in [Users -> Shots \cup {None}]
  /\ faults \in 0..MaxFaults

LEMMA TypeParts == TypeOK <=> Phased /\ Looked /\ Picked /\ Stored
  BY DEF TypeOK, Phased, Looked, Picked, Stored

\* A request ends with a result.
LEMMA FinishFacts ==
  ASSUME Phased, NEW r \in Requests, phase[r] # "over",
         NEW re \in {"list", "404", "picture", "exhausted", "problem"}, Finish(r, re)
  PROVE  /\ Phased'
         /\ phase'[r] = "over" /\ result'[r] = re
         /\ \A x \in Requests : x # r => phase'[x] = phase[x] /\ result'[x] = result[x]
  BY DEF Phased, Finish, Goto

\* A request goes on, without one.
LEMMA GotoFacts ==
  ASSUME Phased, NEW r \in Requests, phase[r] # "over", NEW p \in {"waiting", "found"},
         Goto(r, p), result' = result
  PROVE  /\ Phased'
         /\ phase'[r] = p
         /\ \A x \in Requests : x # r => phase'[x] = phase[x]
  BY DEF Phased, Goto

\* A request has looked into the cache once more.
LEMMA LookFacts ==
  ASSUME Looked, NEW r \in Requests, looks[r] < (IF r \in Shots THEN MaxTries ELSE MaxPolls),
         looks' = [looks EXCEPT ![r] = @ + 1]
  PROVE  Looked'
<1>1. looks[r] \in Nat /\ MaxTries \in Nat /\ MaxPolls \in Nat
  BY ReturnAssumption DEF Looked
<1>2. looks' \in [Requests -> Nat] /\ looks'[r] = looks[r] + 1
      /\ \A x \in Requests : x # r => looks'[x] = looks[x]
  BY <1>1 DEF Looked
<1>3. looks'[r] <= (IF r \in Shots THEN MaxTries ELSE MaxPolls)
  BY <1>1, <1>2
<1>4. QED
  BY <1>2, <1>3 DEF Looked

\* No screenshot has been found that was not before.
LEMMA PickedFacts ==
  ASSUME Picked, picked' = picked, \A r \in Shots : phase'[r] = "found" => phase[r] = "found"
  PROVE  Picked'
  BY DEF Picked

\* A modules list is not a screenshot.
LEMMA ListFacts ==
  ASSUME NEW l \in ListReqs
  PROVE  l \in Requests /\ l \notin Shots /\ \A r \in Shots : r \in Requests /\ r # l
  BY ReturnAssumption DEF Requests

\* What a GET selects is a screenshot.
LEMMA SelectFacts ==
  ASSUME cache \in Seq(Requests), CachedOf(Shots) # <<>>
  PROVE  Last(CachedOf(Shots)) \in Shots
<1> DEFINE r == CachedOf(Shots)
<1>1. r \in Seq(Requests \cap Shots)
  BY FilterType DEF CachedOf
<1> HIDE DEF r
<1>2. r # <<>> => Len(r) \in 1..Len(r) /\ r[Len(r)] \in Requests \cap Shots
  BY <1>1
<1>3. QED
  BY <1>2 DEF Last, r

-----------------------------------------------------------------------------
(* The invariant holds at first, and is preserved.                         *)

\* At first there is nothing.
LEMMA InitCorrect == Init => ReturnInv
<1> SUFFICES ASSUME Init PROVE ReturnInv
  OBVIOUS
<1>1. TypeOK
  <2>1. <<>> \in Seq(Requests)
    OBVIOUS
  <2>2. QED
    BY <2>1, ReturnAssumption DEF Init, TypeOK, Requests
<1>2. \A l : CachedOf({l}) = <<>>
  BY FilterEmpty DEF Init, CachedOf
<1>3. Len(<<>>) <= 1
  OBVIOUS
<1>4. \A l \in ListReqs : result[l] = "none" /\ phase[l] = "new"
  BY DEF Init, Requests
<1>6. ListsComeOnce
  BY <1>2, <1>3, <1>4 DEF ListsComeOnce, ListOf
<1>7. PickedWhenFound /\ PicturesKept /\ NothingUnasked
  BY ReturnAssumption DEF Init, PickedWhenFound, PicturesKept, PictureOf, NothingUnasked, Sent, Requests
<1>8. QED
  BY <1>1, <1>6, <1>7 DEF ReturnInv

\* Every step keeps the types.
LEMMA TypeStep == TypeOK /\ Next => TypeOK'
<1> SUFFICES ASSUME TypeOK, Next PROVE Phased' /\ Looked' /\ Picked' /\ Stored'
  BY DEF TypeOK, Phased, Looked, Picked, Stored
<1>0. Phased /\ Looked /\ Picked /\ Stored
  BY TypeParts
<1>1. ASSUME NEW r \in Requests, Answer(r) \/ AckMsg(r)
      PROVE  Phased' /\ Looked' /\ Picked' /\ Stored'
  BY <1>0, <1>1 DEF Answer, AckMsg, Phased, Looked, Picked, Stored
<1>2. ASSUME NEW r \in Requests, CacheMsg(r)
      PROVE  Phased' /\ Looked' /\ Picked' /\ Stored'
  BY <1>0, <1>2, AppendCacheFacts DEF CacheMsg, Phased, Looked, Picked, Stored
<1>3. ASSUME LoseConnection
      PROVE  Phased' /\ Looked' /\ Picked' /\ Stored'
  BY <1>0, <1>3, ReturnAssumption DEF LoseConnection, Fault, Requeue, Phased, Looked, Picked, Stored
<1>4. ASSUME RestRestart
      PROVE  Phased' /\ Looked' /\ Picked' /\ Stored'
  <2>1. Phased' /\ \A r \in Requests : phase'[r] = "found" => phase[r] = "found"
    BY <1>0, <1>4 DEF RestRestart, Phased, Waiting
  <2>2. Looked' /\ Picked'
    BY <1>0, <1>4, <2>1, PickedFacts DEF RestRestart, Looked, Requests
  <2>3. <<>> \in Seq(Requests)
    OBVIOUS
  <2>4. Stored'
    BY <1>0, <1>4, <2>3, ReturnAssumption DEF RestRestart, Fault, Requeue, Stored
  <2>5. QED
    BY <2>1, <2>2, <2>4
<1>5. ASSUME NEW l \in Requests, RequestList(l)
      PROVE  Phased' /\ Looked' /\ Picked' /\ Stored'
  <2>1. Phased' /\ phase'[l] = "waiting" /\ \A x \in Requests : x # l => phase'[x] = phase[x]
    BY <1>0, <1>5, GotoFacts DEF RequestList
  <2>2. Looked' /\ Picked'
    BY <1>0, <1>5, <2>1, PickedFacts, ListFacts DEF RequestList, Looked
  <2>3. Stored'
    BY <1>0, <1>5 DEF RequestList, Stored
  <2>4. QED
    BY <2>1, <2>2, <2>3
<1>6. ASSUME NEW l \in Requests, PollList(l)
      PROVE  Phased' /\ Looked' /\ Picked' /\ Stored'
  <2>1. l \in ListReqs /\ phase[l] = "waiting"
    BY <1>6 DEF PollList, Waiting
  <2>2. Phased' /\ \A x \in Requests : x # l => phase'[x] = phase[x]
    BY <1>0, <1>6, <2>1, GotoFacts DEF PollList, Phased
  <2>3. Looked'
    BY <1>0, <1>6, <2>1, LookFacts, ListFacts DEF PollList
  <2>4. Picked' /\ Stored'
    BY <1>0, <1>6, <2>1, <2>2, PickedFacts, ListFacts DEF PollList, Stored
  <2>5. QED
    BY <2>2, <2>3, <2>4
<1>7. ASSUME NEW l \in Requests, GiveUpList(l)
      PROVE  Phased' /\ Looked' /\ Picked' /\ Stored'
  <2>1. Phased' /\ phase'[l] = "over" /\ \A x \in Requests : x # l => phase'[x] = phase[x]
    BY <1>0, <1>7, FinishFacts DEF GiveUpList, Waiting
  <2>2. QED
    BY <1>0, <1>7, <2>1, PickedFacts, ListFacts DEF GiveUpList, Looked, Stored
<1>8. ASSUME NEW l \in Requests, AnswerList(l)
      PROVE  Phased' /\ Looked' /\ Picked' /\ Stored'
  <2>1. Phased' /\ phase'[l] = "over" /\ \A x \in Requests : x # l => phase'[x] = phase[x]
    BY <1>0, <1>8, FinishFacts DEF AnswerList
  <2>2. cache' \in Seq(Requests)
    BY <1>0, <1>8, RejectFacts DEF AnswerList, Stored
  <2>3. QED
    BY <1>0, <1>8, <2>1, <2>2, PickedFacts, ListFacts DEF AnswerList, Looked, Stored
<1>9. ASSUME NEW r \in Requests, RequestShot(r)
      PROVE  Phased' /\ Looked' /\ Picked' /\ Stored'
  <2>1. Phased' /\ phase'[r] = "waiting" /\ \A x \in Requests : x # r => phase'[x] = phase[x]
    BY <1>0, <1>9, GotoFacts DEF RequestShot
  <2>2. Looked' /\ Picked'
    BY <1>0, <1>9, <2>1, PickedFacts DEF RequestShot, Looked, Requests
  <2>3. Stored'
    BY <1>0, <1>9, ReturnAssumption DEF RequestShot, Stored
  <2>4. QED
    BY <2>1, <2>2, <2>3
<1>10. ASSUME NEW r \in Requests, SelectShot(r)
       PROVE  Phased' /\ Looked' /\ Picked' /\ Stored'
  <2>1. r \in Shots /\ phase[r] = "waiting" /\ Looked' /\ Stored'
    BY <1>0, <1>10, LookFacts DEF SelectShot, Waiting, Stored
  <2>2. CASE CachedOf(Shots) = <<>>
    BY <1>0, <1>10, <2>1, <2>2, PickedFacts DEF SelectShot, Phased
  <2>3. CASE CachedOf(Shots) # <<>>
    <3>1. Phased' /\ \A x \in Requests : x # r => phase'[x] = phase[x]
      BY <1>0, <1>10, <2>1, <2>3, GotoFacts DEF SelectShot
    <3>2. picked' = [picked EXCEPT ![r] = Last(CachedOf(Shots))] /\ Last(CachedOf(Shots)) \in Shots
      BY <1>0, <1>10, <2>3, SelectFacts DEF SelectShot, Stored
    <3>3. Picked'
      BY <1>0, <2>1, <3>1, <3>2, ReturnAssumption DEF Picked, Requests
    <3>4. QED
      BY <2>1, <3>1, <3>3
  <2>4. QED
    BY <2>1, <2>2, <2>3
<1>11. ASSUME NEW r \in Requests, AnswerShot(r)
       PROVE  Phased' /\ Looked' /\ Picked' /\ Stored'
  <2>1. Phased' /\ phase'[r] = "over" /\ \A x \in Requests : x # r => phase'[x] = phase[x]
    BY <1>0, <1>11, FinishFacts DEF AnswerShot
  <2>2. cache' \in Seq(Requests)
    BY <1>0, <1>11, RejectFacts DEF AnswerShot, Stored
  <2>3. Picked' /\ Looked'
    BY <1>0, <1>11, <2>1, PickedFacts DEF AnswerShot, Looked, Requests
  <2>4. Stored'
    BY <1>0, <1>11, <2>2, ReturnAssumption DEF AnswerShot, Stored, Picked
  <2>5. QED
    BY <2>1, <2>3, <2>4
<1>12. ASSUME NEW r \in Requests, Exhausted(r)
       PROVE  Phased' /\ Looked' /\ Picked' /\ Stored'
  <2>1. Phased' /\ phase'[r] = "over" /\ \A x \in Requests : x # r => phase'[x] = phase[x]
    BY <1>0, <1>12, FinishFacts DEF Exhausted, Waiting
  <2>2. Picked'
    BY <1>0, <1>12, <2>1, PickedFacts DEF Exhausted, Requests
  <2>3. QED
    BY <1>0, <1>12, <2>1, <2>2 DEF Exhausted, Looked, Stored
<1>13. QED
  BY <1>1, <1>2, <1>3, <1>4, <1>5, <1>6, <1>7, <1>8, <1>9, <1>10, <1>11, <1>12 DEF Next, Thread

\* ListOf, for a list of which nothing changes but its phase.
LEMMA SameList ==
  ASSUME ListsComeOnce, NEW l \in ListReqs, faults' = faults,
         result'[l] = result[l], CachedOf({l})' = CachedOf({l}), Sent(l)' = Sent(l),
         phase'[l] = "found" => phase[l] = "found" \/ Sent(l)
  PROVE  ListOf(l)'
  BY DEF ListsComeOnce, ListOf

LEMMA ListStep == ReturnInv /\ Next => ListsComeOnce'
<1> SUFFICES ASSUME ReturnInv, Next, NEW l \in ListReqs PROVE ListOf(l)'
  BY DEF ListsComeOnce, ListOf
<1>0. TypeOK /\ NothingUnasked /\ ListsComeOnce /\ Phased /\ Stored /\ l \in Requests /\ l \notin Shots
  BY TypeParts, ListFacts DEF ReturnInv
<1>1. ASSUME UNCHANGED <<cache, phase, result, faults>>, Sent(l)' = Sent(l)
      PROVE  ListOf(l)'
  BY <1>0, <1>1, SameList DEF CachedOf
<1>2. ASSUME NEW r \in Requests, Answer(r) \/ AckMsg(r)
      PROVE  ListOf(l)'
  <2>1. Sent(l)' = Sent(l)
    BY <1>0, <1>2 DEF Answer, AckMsg, Sent, Stored
  <2>2. QED
    BY <1>1, <1>2, <2>1 DEF Answer, AckMsg
<1>3. ASSUME NEW r \in Requests, CacheMsg(r)
      PROVE  ListOf(l)'
  <2>1. /\ wire[r] = "queued" /\ wire' = [wire EXCEPT ![r] = "unacked"]
        /\ cache' = Append(cache, r) /\ UNCHANGED <<phase, result, faults>>
    BY <1>3 DEF CacheMsg
  <2>2. CASE r = l
    <3>1. ~Sent(l) /\ Sent(l)'
      BY <1>0, <2>1, <2>2 DEF Sent, Stored
    <3>2. CachedOf({l})' = Append(CachedOf({l}), l)
      BY <1>0, <2>1, <2>2, AppendCacheFacts DEF Stored
    <3>3. Len(Append(<<>>, l)) <= 1
      OBVIOUS
    <3>4. faults = 0 => CachedOf({l}) = <<>> /\ phase[l] # "found" /\ result[l] # "list"
      BY <1>0, <3>1 DEF ListsComeOnce, ListOf
    <3>5. faults = 0 => Len(CachedOf({l})') <= 1
      BY <3>2, <3>3, <3>4
    <3>6. QED
      BY <1>0, <2>1, <3>1, <3>4, <3>5 DEF ListsComeOnce, ListOf
  <2>3. CASE r # l
    <3>1. CachedOf({l})' = CachedOf({l})
      BY <1>0, <2>1, <2>3, AppendCacheFacts DEF Stored
    <3>2. Sent(l)' = Sent(l)
      BY <1>0, <2>1, <2>3 DEF Sent, Stored
    <3>3. QED
      BY <1>0, <2>1, <3>1, <3>2, SameList
  <2>4. QED
    BY <2>2, <2>3
<1>4. ASSUME LoseConnection
      PROVE  ListOf(l)'
  <2>1. faults' # 0 /\ faults' > 0 /\ result' = result
    BY <1>0, <1>4 DEF LoseConnection, Fault, Stored
  <2>2. QED
    BY <1>0, <2>1 DEF ListsComeOnce, ListOf
<1>5. ASSUME RestRestart
      PROVE  ListOf(l)'
  <2>1. faults' # 0 /\ faults' > 0
    BY <1>0, <1>5 DEF RestRestart, Fault, Stored
  <2>2. result'[l] \in {result[l], "problem"}
    BY <1>0, <1>5 DEF RestRestart
  <2>3. QED
    BY <1>0, <2>1, <2>2 DEF ListsComeOnce, ListOf
<1>6. ASSUME NEW r \in Requests, RequestList(r) \/ RequestShot(r)
      PROVE  ListOf(l)'
  <2>1. phase[r] = "new" /\ Goto(r, "waiting") /\ UNCHANGED <<cache, result, faults>>
        /\ wire' \in {wire, [wire EXCEPT ![r] = "asked"]}
    BY <1>6 DEF RequestList, RequestShot
  <2>2. phase'[l] = "found" => phase[l] = "found"
    BY <1>0, <2>1, GotoFacts
  <2>3. CachedOf({l})' = CachedOf({l})
    BY <2>1 DEF CachedOf
  <2>4. Sent(l)' = Sent(l)
    BY <1>0, <2>1 DEF NothingUnasked, Sent, Stored
  <2>5. QED
    BY <1>0, <2>1, <2>2, <2>3, <2>4, SameList
<1>7. ASSUME NEW r \in Requests, PollList(r) \/ SelectShot(r)
      PROVE  ListOf(l)'
  <2>1. UNCHANGED <<cache, result, faults, wire>> /\ phase[r] = "waiting"
    BY <1>7 DEF PollList, SelectShot, Waiting
  <2>2. phase' = phase \/ Goto(r, "found")
    BY <1>7 DEF PollList, SelectShot
  <2>3. r = l => phase' = phase \/ l \in Cached
    BY <1>0, <1>7 DEF PollList, SelectShot
  <2>4. CachedOf({l})' = CachedOf({l}) /\ Sent(l)' = Sent(l)
    BY <2>1 DEF CachedOf, Sent
  <2>5. faults = 0 /\ l \in Cached => Sent(l)
    BY <1>0, CachedFacts DEF Stored, ListsComeOnce, ListOf
  <2>6. faults = 0 /\ phase'[l] = "found" => phase[l] = "found" \/ Sent(l)
    BY <1>0, <2>1, <2>2, <2>3, <2>5, GotoFacts
  <2>7. QED
    BY <1>0, <2>1, <2>4, <2>6 DEF ListsComeOnce, ListOf
<1>8. ASSUME NEW r \in Requests, GiveUpList(r) \/ Exhausted(r)
      PROVE  ListOf(l)'
  <2>1. UNCHANGED <<cache, faults, wire>> /\ phase[r] = "waiting"
    BY <1>8 DEF GiveUpList, Exhausted, Waiting
  <2>2. CachedOf({l})' = CachedOf({l}) /\ Sent(l)' = Sent(l)
    BY <2>1 DEF CachedOf, Sent
  <2>3. \E re \in {"404", "exhausted"} : Finish(r, re) /\ (r = l => re = "404")
    BY <1>0, <1>8 DEF GiveUpList, Exhausted
  <2>4. \/ r # l /\ phase'[l] = phase[l] /\ result'[l] = result[l]
        \/ r = l /\ phase'[l] = "over" /\ result'[l] = "404"
    BY <1>0, <2>1, <2>3, FinishFacts
  <2>5. QED
    BY <1>0, <2>1, <2>2, <2>4, SameList DEF ListsComeOnce, ListOf
<1>9. ASSUME NEW r \in Requests, AnswerList(r)
      PROVE  ListOf(l)'
  <2>1. /\ r \in ListReqs /\ phase[r] = "found" /\ RejectFromCache({r}) /\ Finish(r, "list")
        /\ UNCHANGED <<wire, faults>>
    BY <1>9 DEF AnswerList
  <2>2. CachedOf({l})' = IF l \in {r} THEN <<>> ELSE CachedOf({l})
    BY <1>0, <2>1, RejectFacts DEF Stored
  <2>3. Phased' /\ phase'[r] = "over" /\ result'[r] = "list"
        /\ \A x \in Requests : x # r => phase'[x] = phase[x] /\ result'[x] = result[x]
    BY <1>0, <2>1, FinishFacts
  <2>4. Sent(l)' = Sent(l)
    BY <2>1 DEF Sent
  <2>5. CASE r = l
    <3>1. faults = 0 => Sent(l)
      BY <1>0, <2>1, <2>5 DEF ListsComeOnce, ListOf
    <3>2. Len(<<>>) <= 1
      OBVIOUS
    <3>3. QED
      BY <2>1, <2>2, <2>3, <2>4, <2>5, <3>1, <3>2 DEF ListOf
  <2>6. CASE r # l
    BY <1>0, <2>1, <2>2, <2>3, <2>4, <2>6, SameList
  <2>7. QED
    BY <2>5, <2>6
<1>10. ASSUME NEW r \in Requests, AnswerShot(r)
       PROVE  ListOf(l)'
  <2>1. /\ r # l /\ phase[r] = "found" /\ RejectFromCache(Shots) /\ Finish(r, "picture")
        /\ UNCHANGED <<wire, faults>>
    BY <1>0, <1>10 DEF AnswerShot
  <2>2. CachedOf({l})' = CachedOf({l})
    BY <1>0, <2>1, RejectFacts DEF Stored
  <2>3. phase'[l] = phase[l] /\ result'[l] = result[l]
    BY <1>0, <2>1, FinishFacts
  <2>4. Sent(l)' = Sent(l)
    BY <2>1 DEF Sent
  <2>5. QED
    BY <1>0, <2>1, <2>2, <2>3, <2>4, SameList
<1>11. QED
  BY <1>2, <1>3, <1>4, <1>5, <1>6, <1>7, <1>8, <1>9, <1>10 DEF Next, Thread

\* What is asked, and what a GET picks.
LEMMA PickStep == ReturnInv /\ Next => NothingUnasked' /\ PickedWhenFound'
<1> SUFFICES ASSUME ReturnInv, Next PROVE NothingUnasked' /\ PickedWhenFound'
  OBVIOUS
<1>0. NothingUnasked /\ PickedWhenFound /\ Phased /\ Picked /\ Stored
      /\ \A r \in Shots : r \in Requests
  BY TypeParts DEF ReturnInv, Requests
<1>1. ASSUME \A r \in Requests : phase'[r] = "new" => phase[r] = "new" /\ wire'[r] = wire[r]
      PROVE  NothingUnasked'
  BY <1>0, <1>1 DEF NothingUnasked
<1>2. ASSUME picked' = picked,
             \A r \in Requests : phase[r] \in {"found", "over"} => phase'[r] \in {"found", "over"}
      PROVE  PickedWhenFound'
  BY <1>0, <1>2 DEF PickedWhenFound
<1>3. ASSUME NEW r \in Requests, Answer(r) \/ CacheMsg(r) \/ AckMsg(r)
      PROVE  NothingUnasked' /\ PickedWhenFound'
  <2>1. UNCHANGED <<phase, picked>> /\ wire[r] # "none" /\ \A x \in Requests : x # r => wire'[x] = wire[x]
    BY <1>0, <1>3 DEF Answer, CacheMsg, AckMsg, Stored
  <2>2. QED
    BY <1>0, <2>1 DEF NothingUnasked, PickedWhenFound
<1>4. ASSUME LoseConnection
      PROVE  NothingUnasked' /\ PickedWhenFound'
  <2>1. UNCHANGED <<phase, picked>> /\ \A x \in Requests : wire[x] = "none" => wire'[x] = "none"
    BY <1>4 DEF LoseConnection, Requeue
  <2>2. QED
    BY <1>0, <2>1 DEF NothingUnasked, PickedWhenFound
<1>5. ASSUME RestRestart
      PROVE  NothingUnasked' /\ PickedWhenFound'
  <2>1. picked' = picked /\ \A x \in Requests : wire[x] = "none" => wire'[x] = "none"
    BY <1>5 DEF RestRestart, Requeue
  <2>2. \A x \in Requests : phase'[x] = phase[x] \/ phase'[x] = "over"
    BY <1>5 DEF RestRestart
  <2>3. QED
    BY <1>0, <2>1, <2>2 DEF NothingUnasked, PickedWhenFound
<1>6. ASSUME NEW r \in Requests, RequestList(r) \/ RequestShot(r)
      PROVE  NothingUnasked' /\ PickedWhenFound'
  <2>1. phase[r] = "new" /\ Goto(r, "waiting") /\ UNCHANGED <<picked, result>>
        /\ wire' \in {wire, [wire EXCEPT ![r] = "asked"]}
    BY <1>6 DEF RequestList, RequestShot
  <2>2. phase'[r] = "waiting" /\ \A x \in Requests : x # r => phase'[x] = phase[x]
    BY <1>0, <2>1, GotoFacts
  <2>3. QED
    BY <1>0, <2>1, <2>2 DEF NothingUnasked, PickedWhenFound, Stored
<1>7. ASSUME NEW r \in Requests, PollList(r) \/ SelectShot(r)
      PROVE  NothingUnasked' /\ PickedWhenFound'
  <2>1. UNCHANGED <<wire, result>> /\ phase[r] = "waiting" /\ (phase' = phase \/ Goto(r, "found"))
    BY <1>7 DEF PollList, SelectShot, Waiting
  <2>2. phase'[r] \in {"waiting", "found"} /\ \A x \in Requests : x # r => phase'[x] = phase[x]
    BY <1>0, <2>1, GotoFacts
  <2>3. \/ picked' = picked
        \/ r \in Shots /\ picked' = [picked EXCEPT ![r] = Last(CachedOf(Shots))] /\ phase'[r] = "found"
    <3>1. CASE PollList(r)
      BY <3>1 DEF PollList
    <3>2. CASE SelectShot(r)
      <4>1. \/ picked' = picked
            \/ r \in Shots /\ Goto(r, "found") /\ picked' = [picked EXCEPT ![r] = Last(CachedOf(Shots))]
        BY <3>2 DEF SelectShot
      <4>2. QED
        BY <1>0, <4>1 DEF Goto, Phased
    <3>3. QED
      BY <1>7, <3>1, <3>2
  <2>4. QED
    BY <1>0, <2>1, <2>2, <2>3 DEF NothingUnasked, PickedWhenFound, Picked
<1>8. ASSUME NEW r \in Requests, GiveUpList(r) \/ Exhausted(r) \/ AnswerList(r) \/ AnswerShot(r)
      PROVE  NothingUnasked' /\ PickedWhenFound'
  <2>1. UNCHANGED <<wire, picked>> /\ phase[r] \in {"waiting", "found"}
        /\ \E re \in {"404", "exhausted", "list", "picture"} : Finish(r, re)
    BY <1>8 DEF GiveUpList, Exhausted, AnswerList, AnswerShot, Waiting
  <2>2. phase'[r] = "over" /\ \A x \in Requests : x # r => phase'[x] = phase[x]
    BY <1>0, <2>1, FinishFacts
  <2>3. QED
    BY <1>0, <2>1, <2>2 DEF NothingUnasked, PickedWhenFound
<1>9. QED
  BY <1>3, <1>4, <1>5, <1>6, <1>7, <1>8 DEF Next, Thread

\* A picture in the cache stays there until it is picked or another one is answered.
LEMMA PictureStep == ReturnInv /\ Next => PicturesKept'
<1> SUFFICES ASSUME ReturnInv, Next, NEW s \in Shots PROVE PictureOf(s)'
  BY DEF PictureOf, PicturesKept
<1>0. PickedWhenFound /\ Phased /\ Picked /\ Stored /\ PictureOf(s) /\ s \in Requests
      /\ \A r \in Shots : r \in Requests
  BY TypeParts DEF ReturnInv, PicturesKept, PictureOf, Requests
<1>1. ASSUME NEW r \in Requests, Answer(r) \/ AckMsg(r)
      PROVE  PictureOf(s)'
  <2>1. UNCHANGED <<cache, picked, result, faults>> /\ Sent(s)' = Sent(s)
    BY <1>0, <1>1 DEF Answer, AckMsg, Sent, Stored
  <2>2. QED
    BY <1>0, <2>1 DEF PictureOf, Cached
<1>2. ASSUME NEW r \in Requests, CacheMsg(r)
      PROVE  PictureOf(s)'
  <2>1. UNCHANGED <<picked, result, faults>> /\ (r # s => Sent(s)' = Sent(s))
    BY <1>0, <1>2 DEF CacheMsg, Sent, Stored
  <2>2. s \in Cached' <=> s \in Cached \/ s = r
    BY <1>0, <1>2, AppendCacheFacts DEF CacheMsg, Stored
  <2>3. QED
    BY <1>0, <2>1, <2>2 DEF PictureOf
<1>3. ASSUME LoseConnection \/ RestRestart
      PROVE  PictureOf(s)'
  <2>1. faults' > 0
    BY <1>0, <1>3 DEF LoseConnection, RestRestart, Fault, Stored
  <2>2. QED
    BY <2>1 DEF PictureOf
<1>4. ASSUME NEW r \in Requests, RequestList(r) \/ RequestShot(r)
      PROVE  PictureOf(s)'
  <2>1. UNCHANGED <<cache, picked, result, faults>> /\ wire' \in {wire, [wire EXCEPT ![r] = "asked"]}
    BY <1>4 DEF RequestList, RequestShot
  <2>2. Sent(s)' => Sent(s)
    BY <1>0, <2>1 DEF Sent, Stored
  <2>3. QED
    BY <1>0, <2>1, <2>2 DEF PictureOf, Cached
<1>5. ASSUME NEW r \in Requests, PollList(r)
      PROVE  PictureOf(s)'
  BY <1>0, <1>5 DEF PollList, PictureOf, Cached, Sent
<1>6. ASSUME NEW r \in Requests, SelectShot(r)
      PROVE  PictureOf(s)'
  <2>1. r \in Shots /\ phase[r] = "waiting" /\ UNCHANGED <<cache, result, faults, wire>>
    BY <1>6 DEF SelectShot, Waiting
  <2>2. picked[r] = None /\ result[r] = "none"
    BY <1>0, <2>1 DEF PickedWhenFound, Phased
  <2>3. \A x \in Shots : x # r => picked'[x] = picked[x]
    BY <1>0, <1>6 DEF SelectShot, Picked
  <2>4. s # None
    BY <1>0, ReturnAssumption
  <2>5. QED
    BY <1>0, <2>1, <2>2, <2>3, <2>4 DEF PictureOf, Cached, Sent
<1>7. ASSUME NEW r \in Requests, GiveUpList(r) \/ Exhausted(r)
      PROVE  PictureOf(s)'
  <2>1. UNCHANGED <<cache, picked, faults, wire>> /\ phase[r] = "waiting"
        /\ \E re \in {"404", "exhausted"} : Finish(r, re)
    BY <1>7 DEF GiveUpList, Exhausted, Waiting
  <2>2. result[r] = "none" /\ \A x \in Requests : x # r => result'[x] = result[x]
    BY <1>0, <2>1, FinishFacts DEF Phased
  <2>3. QED
    BY <1>0, <2>1, <2>2 DEF PictureOf, Cached, Sent
<1>8. ASSUME NEW r \in Requests, AnswerList(r)
      PROVE  PictureOf(s)'
  <2>1. r \in ListReqs /\ RejectFromCache({r}) /\ phase[r] = "found" /\ Finish(r, "list")
        /\ UNCHANGED <<wire, picked, faults>>
    BY <1>8 DEF AnswerList
  <2>2. r # s /\ \A x \in Shots : x # r
    BY <2>1, ListFacts
  <2>3. s \in Cached' <=> s \in Cached
    BY <1>0, <2>1, <2>2, RejectFacts DEF Stored
  <2>4. \A x \in Shots : result'[x] = result[x]
    BY <1>0, <2>1, <2>2, FinishFacts
  <2>5. QED
    BY <1>0, <2>1, <2>3, <2>4 DEF PictureOf, Sent
<1>9. ASSUME NEW r \in Requests, AnswerShot(r)
      PROVE  PictureOf(s)'
  <2>1. r \in Shots /\ result'[r] = "picture" /\ picked' = picked
    BY <1>0, <1>9 DEF AnswerShot, Finish, Phased
  <2>2. CASE picked[r] = s
    BY <2>1, <2>2 DEF PictureOf
  <2>3. CASE picked[r] # s
    BY <2>1, <2>3 DEF PictureOf
  <2>4. QED
    BY <2>2, <2>3
<1>10. QED
  BY <1>1, <1>2, <1>3, <1>4, <1>5, <1>6, <1>7, <1>8, <1>9 DEF Next, Thread

\* Every step preserves the invariant.
LEMMA StepCorrect == ReturnInv /\ [Next]_vars => ReturnInv'
<1> SUFFICES ASSUME ReturnInv, [Next]_vars PROVE ReturnInv'
  OBVIOUS
<1>1. CASE Next
  BY <1>1, TypeStep, ListStep, PickStep, PictureStep DEF ReturnInv
<1>2. CASE UNCHANGED vars
  BY <1>2 DEF vars, ReturnInv, TypeOK, NothingUnasked, ListsComeOnce, ListOf, PickedWhenFound,
              PicturesKept, PictureOf, Sent, Cached, CachedOf
<1>3. QED
  BY <1>1, <1>2

-----------------------------------------------------------------------------
\* The invariant of the return queue.
THEOREM ReturnCorrect == Spec => []ReturnInv
<1>1. QED
  BY InitCorrect, StepCorrect, PTL DEF Spec

\* Requests, answers and pictures are what TypeOK says; no request looks more often
\* into the cache than it may, and none ends without a result.
THEOREM ReturnTypeCorrect == Spec => []TypeOK
<1>1. ReturnInv => TypeOK
  BY DEF ReturnInv
<1>2. QED
  BY <1>1, ReturnCorrect, PTL

\* rest.rb, get_modules_list: however many lists and screenshots are asked for at
\* once, without faults only late lists stay in the cache.
THEOREM OnlyLateListsStay == Spec => []CachedListIsLate
<1>1. ReturnInv => CachedListIsLate
  <2> SUFFICES ASSUME ReturnInv, faults = 0, NEW l \in ListReqs
               PROVE  Len(CachedOf({l})) <= 1 /\ (l \in Cached => result[l] \in {"none", "404"})
    BY DEF CachedListIsLate
  <2>1. l \in Cached <=> CachedOf({l}) # <<>>
    BY CachedFacts DEF ReturnInv, TypeOK
  <2>2. QED
    BY <2>1 DEF ReturnInv, ListsComeOnce, ListOf
<1>2. QED
  BY <1>1, ReturnCorrect, PTL

\* rest.rb, get_screenshot: a picture that has arrived is lost only to a GET that
\* answers with another one, or to a restart.
THEOREM PictureLost == Spec => []PictureLostToAnother
<1>1. ReturnInv => PictureLostToAnother
  BY DEF ReturnInv, PicturesKept, PictureOf, PictureLostToAnother, Sent
<1>2. QED
  BY <1>1, ReturnCorrect, PTL
=============================================================================
