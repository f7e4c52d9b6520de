---------------------------- MODULE ReturnQueue ----------------------------
(***************************************************************************)
(* The way back: what the Caroline nodes send to the return queue reaches  *)
(* the browsers through a cache in the REST server.  rest/activemq.rb      *)
(* (handle_msg, received_msg), rest/rest.rb (get_modules_list and          *)
(* get_screenshot, one WEBrick thread per HTTP request, all on one cache), *)
(* webconsole/config.ru (/modules_list, /screenshot) and the polling loop  *)
(* of webconsole/public/js/controllers/graphic.js.                         *)
(***************************************************************************)
EXTENDS Filtering, FiniteSets, SequencesExt

CONSTANTS
  ListReqs,   \* requests for the modules list
  Shots,      \* requests for a screenshot of a login page, each of another page
  Users,
  UserOf,     \* the user who makes a screenshot request
  MaxPolls,   \* looks of get_modules_list into the cache (6 in the code)
  MaxTries,   \* attempts of graphic.js before it gives up (31 in the code)
  MaxFaults,  \* bound on broken connections and restarts of the REST server
  None

Requests == ListReqs \cup Shots

ASSUME ReturnAssumption ==
  /\ ListReqs \cap Shots = {} /\ None \notin Requests
  /\ UserOf \in [Shots -> Users]
  /\ MaxPolls \in Nat \ {0} /\ MaxTries \in Nat \ {0} /\ MaxFaults \in Nat

VARIABLES
  wire,     \* the request in the work queue, its answer in the return queue
  cache,    \* received_msg: the answers, in the order of arrival
  phase,    \* the HTTP request, or the polling loop, of each request
  looks,    \* how often it has looked into the cache
  picked,   \* shot: the last picture its GET found in the cache
  result,   \* what the console has got for it
  login,    \* user: the login page of the wizard, as the shot made of it
  pic,      \* user: the picture on display
  faults

vars == <<wire, cache, phase, looks, picked, result, login, pic, faults>>

Cached   == {cache[i] : i \in DOMAIN cache}
Waiting  == {r \in Requests : phase[r] = "waiting"}
Fault    == faults < MaxFaults /\ faults' = faults + 1
Goto(r, p)    == phase' = [phase EXCEPT ![r] = p]
Finish(r, re) == Goto(r, "over") /\ result' = [result EXCEPT ![r] = re]
CachedOf(reqs) == Filter(cache, reqs)
RejectFromCache(reqs) == cache' = CachedOf(Requests \ reqs)

Init ==
  /\ wire   = [r \in Requests |-> "none"]
  /\ cache  = <<>>
  /\ phase  = [r \in Requests |-> "new"]
  /\ looks  = [r \in Requests |-> 0]
  /\ picked = [r \in Shots |-> None]
  /\ result = [r \in Requests |-> "none"]
  /\ login  = [u \in Users |-> None]
  /\ pic    = [u \in Users |-> None]
  /\ faults = 0

-----------------------------------------------------------------------------
(* Nodes, broker and the subscription of the REST server.                  *)

\* A node answers a request, sooner or later.
Answer(r) ==
  /\ wire[r] = "asked"
  /\ wire' = [wire EXCEPT ![r] = "queued"]
  /\ UNCHANGED <<cache, phase, looks, picked, result, login, pic, faults>>

\* handle_msg, first half.
CacheMsg(r) ==
  /\ wire[r] = "queued"
  /\ wire'  = [wire EXCEPT ![r] = "unacked"]
  /\ cache' = Append(cache, r)
  /\ UNCHANGED <<phase, looks, picked, result, login, pic, faults>>

\* handle_msg, second half.
AckMsg(r) ==
  /\ wire[r] = "unacked"
  /\ wire' = [wire EXCEPT ![r] = "acked"]
  /\ UNCHANGED <<cache, phase, looks, picked, result, login, pic, faults>>

Requeue == wire' = [r \in Requests |-> IF wire[r] = "unacked" THEN "queued" ELSE wire[r]]

\* The STOMP client connects and subscribes again, and gets again what it had
\* not acknowledged.
LoseConnection ==
  /\ Fault /\ Requeue
  /\ UNCHANGED <<cache, phase, looks, picked, result, login, pic>>

\* The cache is gone, and so are the threads.
RestRestart ==
  /\ Fault /\ Requeue
  /\ cache' = <<>>
  /\ LET cut == (Waiting \cap ListReqs) \cup {r \in Requests : phase[r] = "found"}
     IN /\ phase'  = [r \in Requests |-> IF r \in cut THEN "over" ELSE phase[r]]
        /\ result' = [r \in Requests |-> IF r \in cut THEN "problem" ELSE result[r]]
  /\ UNCHANGED <<looks, picked, login, pic>>

-----------------------------------------------------------------------------
(* get_modules_list.                                                       *)

\* Whether the request could be published is not looked at.
RequestList(l) ==
  /\ l \in ListReqs /\ phase[l] = "new"
  /\ Goto(l, "waiting")
  /\ wire' \in {wire, [wire EXCEPT ![l] = "asked"]}
  /\ UNCHANGED <<cache, looks, picked, result, login, pic, faults>>

\* A mistake: for i in 0..6.
PollListOnceMore(l) ==
  /\ l \in ListReqs \cap Waiting /\ looks[l] <= MaxPolls
  /\ looks' = [looks EXCEPT ![l] = @ + 1]
  /\ IF l \in Cached THEN Goto(l, "found") ELSE UNCHANGED phase
  /\ UNCHANGED <<wire, cache, picked, result, login, pic, faults>>

\* received_msg.select, then sleep(2) if there is nothing.
PollList(l) ==
  /\ l \in ListReqs \cap Waiting /\ looks[l] < MaxPolls
  /\ looks' = [looks EXCEPT ![l] = @ + 1]
  /\ IF l \in Cached THEN Goto(l, "found") ELSE UNCHANGED phase
  /\ UNCHANGED <<wire, cache, picked, result, login, pic, faults>>

\* The loop is over: 404.
GiveUpList(l) ==
  /\ l \in ListReqs \cap Waiting /\ looks[l] = MaxPolls
  /\ Finish(l, "404")
  /\ UNCHANGED <<wire, cache, looks, picked, login, pic, faults>>

\* A mistake: nothing is taken out of the cache.
AnswerListOnly(l) ==
  /\ l \in ListReqs /\ phase[l] = "found"
  /\ Finish(l, "list")
  /\ UNCHANGED <<wire, cache, looks, picked, login, pic, faults>>

\* A mistake: the cache is emptied.
AnswerListAndClear(l) ==
  /\ l \in ListReqs /\ phase[l] = "found"
  /\ RejectFromCache(Requests)
  /\ Finish(l, "list")
  /\ UNCHANGED <<wire, looks, picked, login, pic, faults>>

\* received_msg.reject!, then the list of the selected message is the answer.
AnswerList(l) ==
  /\ l \in ListReqs /\ phase[l] = "found"
  /\ RejectFromCache({l})
  /\ Finish(l, "list")
  /\ UNCHANGED <<wire, looks, picked, login, pic, faults>>

-----------------------------------------------------------------------------
(* Screenshots.                                                            *)

\* graphicController: the wizard cannot be left while it waits for a picture.
\* For a new page it shows "Examining login page..." in place of a picture.  If
\* the PUT fails, uid is '' and the polling begins all the same.
RequestShot(r) ==
  /\ r \in Shots /\ phase[r] = "new"
  /\ \A s \in Shots : UserOf[s] = UserOf[r] => phase[s] \in {"new", "over"}
  /\ Goto(r, "waiting")
  /\ login' = [login EXCEPT ![UserOf[r]] = r]
  /\ pic'   = [pic EXCEPT ![UserOf[r]] = None]
  /\ wire' \in {wire, [wire EXCEPT ![r] = "asked"]}
  /\ UNCHANGED <<cache, looks, picked, result, faults>>

\* get_screenshot: its pattern does not match the path, so id is nil, and so is
\* the 'id' of every screenshot message: all of them are selected.
SelectShot(r) ==
  /\ r \in Shots \cap Waiting /\ looks[r] < MaxTries
  /\ looks' = [looks EXCEPT ![r] = @ + 1]
  /\ IF CachedOf(Shots) = <<>> THEN UNCHANGED <<phase, picked>>
     ELSE Goto(r, "found") /\ picked' = [picked EXCEPT ![r] = Last(CachedOf(Shots))]
  /\ UNCHANGED <<wire, cache, result, login, pic, faults>>

\* A mistake: the modules lists are rejected, too.
AnswerShotAndClear(r) ==
  /\ r \in Shots /\ phase[r] = "found"
  /\ RejectFromCache(Requests)
  /\ Finish(r, "picture")
  /\ pic' = [pic EXCEPT ![UserOf[r]] = picked[r]]
  /\ UNCHANGED <<wire, looks, picked, login, faults>>

\* Then all of them are rejected, and those that have come in meanwhile.
AnswerShot(r) ==
  /\ r \in Shots /\ phase[r] = "found"
  /\ RejectFromCache(Shots)
  /\ Finish(r, "picture")
  /\ pic' = [pic EXCEPT ![UserOf[r]] = picked[r]]
  /\ UNCHANGED <<wire, looks, picked, login, faults>>

Exhausted(r) ==
  /\ r \in Shots \cap Waiting /\ looks[r] = MaxTries
  /\ Finish(r, "exhausted")
  /\ UNCHANGED <<wire, cache, looks, picked, login, pic, faults>>

-----------------------------------------------------------------------------
Thread(r) ==
  \/ PollList(r) \/ GiveUpList(r) \/ AnswerList(r)
  \/ SelectShot(r) \/ AnswerShot(r) \/ Exhausted(r)

Next ==
  \/ \E r \in Requests : Answer(r) \/ CacheMsg(r) \/ AckMsg(r)
  \/ \E r \in Requests : RequestList(r) \/ RequestShot(r) \/ Thread(r)
  \/ LoseConnection \/ RestRestart

Spec == Init /\ [][Next]_vars

\* The threads of WEBrick and the timers of the browser go on.
FairSpec == Spec /\ \A r \in Requests : WF_vars(Thread(r))

-----------------------------------------------------------------------------
TypeOK ==
  /\ wire \in [Requests -> {"none", "asked", "queued", "unacked", "acked"}]
  /\ cache \in Seq(Requests)
  /\ phase \in [Requests -> {"new", "waiting", "found", "over"}]
  /\ looks \in [Requests -> Nat]
  /\ \A r \in Requests : looks[r] <= (IF r \in Shots THEN MaxTries ELSE MaxPolls)
  /\ picked \in [Shots -> Shots \cup {None}]
  /\ \A r \in Shots : phase[r] = "found" => picked[r] # None
  /\ result \in [Requests -> {"none", "list", "404", "picture", "exhausted", "problem"}]
  /\ \A r \in Requests : phase[r] = "over" <=> result[r] # "none"
  /\ login \in [Users -> Shots \cup {None}]
  /\ pic \in [Users -> Shots \cup {None}]
  /\ faults \in 0..MaxFaults

\* A modules list is in the cache at most once, and stays in it only if it came
\* too late for the request it answers -- unless a connection broke between
\* append and acknowledgement.  (Nothing ever removes the late ones.)
CachedListIsLate ==
  faults = 0 => \A l \in ListReqs :
    /\ Len(CachedOf({l})) <= 1
    /\ l \in Cached => result[l] \in {"none", "404"}

\* A picture that has arrived and that no request has picked is still in the
\* cache, unless a GET has answered with another one or the server restarted.
PictureLostToAnother ==
  \A s \in Shots :
    wire[s] = "acked" => \/ s \in Cached \/ \E r \in Shots : picked[r] = s
                         \/ \E r \in Shots : result[r] = "picture" /\ picked[r] # s
                         \/ faults > 0

\* A modules list that is in the cache while get_modules_list has still to look
\* there is the answer, whatever the other threads take out of the cache.
ListInTimeIsDelivered ==
  \A l \in ListReqs :
    (l \in Cached /\ phase[l] = "waiting" /\ looks[l] < MaxPolls)
      ~> (result[l] = "list" \/ faults > 0)

\* graphic.js:255: "An initial scan of this login page is being performed."
\* The picture on display is of the login page the user has entered, not the
\* late picture of a page he entered before, nor the one of another user.
PictureIsOfLoginPage == \A u \in Users : pic[u] \in {None, login[u]}
=============================================================================
