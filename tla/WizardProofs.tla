---------------------------- MODULE WizardProofs ----------------------------
(***************************************************************************)
(* Theorems about Wizard: for any hosts, any texts the user may type, and  *)
(* any number of attempts to get a picture.                                *)
(***************************************************************************)
EXTENDS Wizard, TLAPS

Asks  == [kind : {"detect", "fill"}, site : Sites]
Polls == [asked : Texts, tries : 0..MaxTries, posted : BOOLEAN]

\* TypeOK, with the records and sequences in full.
Typed ==
  /\ page \in Pages /\ walks \in 0..MaxWalks /\ confirm \in BOOLEAN
  /\ target \in Texts /\ login \in Texts
  /\ logtype \in {"none", "basic", "normal"} /\ auto_detect \in BOOLEAN
  /\ whitelist \in Sites \cup {NoSite}
  /\ account \in BOOLEAN /\ valid \in BOOLEAN /\ refused \in BOOLEAN
  /\ getting_pic \in BOOLEAN
  /\ pic \in [url : Texts \cup {NoPic}, asked : Texts \cup {NoPic}]
  /\ working \in BOOLEAN
  /\ suggest \in [need : BOOLEAN, text : Texts]
  /\ late \in {"no", "set", "up"}
  /\ asks \in Seq(Asks) /\ polls \in Seq(Polls)
  /\ working => page = "welcome"

-----------------------------------------------------------------------------
(* The inductive invariant: what the wizard knows on each page, as long as *)
(* only its buttons are used.                                              *)

\* A detection is under way only on /, for the host on the whitelist, and with the
\* target that was sent, except for a list of suggestions that came up late.
Detecting ==
  /\ working => login = Empty /\ (target = Url(whitelist) \/ late = "up")
  /\ asks # <<>> => working /\ Len(asks) = 1 /\ asks[1].site = whitelist

\* The suggestions over a whole address would not change it, except for such a list.
Suggesting ==
  page = "welcome" /\ suggest.need /\ late # "up" => suggest.text = target \/ target.form # "url"

\* Behind /, the target is settled.
Settled == page # "welcome" => late # "set" /\ (target = Url(whitelist) \/ late = "up")

\* What has been found out about the login.
LoginKnown ==
  /\ page = "basic"  => auto_detect
  /\ page \in {"normal", "getpic"} => ~auto_detect
  /\ page = "normal" => logtype # "basic"
  /\ page = "getpic" => logtype = "normal"
  /\ page # "welcome" =>
       IF auto_detect THEN login = Url(whitelist) /\ logtype # "none" ELSE logtype # "basic"

\* What has been checked before the page could be entered.
LoginChecked ==
  /\ page = "getpic" => login.form = "url" /\ account
  /\ page \in {"confirm", "scan"} /\ logtype # "none" => login.form = "url" /\ account
  /\ valid => page = "normal" \/ (page \in {"confirm", "scan"} /\ ~auto_detect /\ logtype = "none")

\* Pictures are asked for, and awaited, on one page, for the login that is shown.
PictureKnown ==
  /\ polls # <<>> =>
       /\ page = "getpic" /\ getting_pic /\ pic.url # login
       /\ Len(polls) = 1 /\ polls[1].asked = login
  /\ pic.url # NoPic => pic.asked = pic.url
  /\ page \in {"confirm", "scan"} /\ logtype = "normal" /\ ~auto_detect => pic.url = login

Known == Detecting /\ Suggesting /\ Settled /\ LoginKnown /\ LoginChecked /\ PictureKnown

WizardInv == Typed /\ (ByButtons => Known)

-----------------------------------------------------------------------------
(* Texts, and sequences with one element less.                             *)

\* What texts there are; the picture that there is not is no text.
LEMMA TextFacts ==
  /\ Empty \in Texts /\ Prefix \in Texts /\ NoPic \notin Texts
  /\ \A s \in Sites : Bare(s) \in Texts /\ Url(s) \in Texts
  /\ \A t \in Texts : t.form = "url" => t = Url(t.site) /\ t.site \in Sites
  /\ \A t \in Texts : t.form = "bare" => t.site \in Sites
  /\ \A s : Url(s).form = "url" /\ Url(s).site = s
  /\ Empty.form = "empty"
<1>1. Empty \in Texts /\ Prefix \in Texts
  BY DEF Texts
<1>2. \A s \in Sites : Bare(s) \in Texts /\ Url(s) \in Texts
  BY DEF Texts
<1>3. \A s : Url(s).form = "url" /\ Url(s).site = s /\ Bare(s).form = "bare" /\ Bare(s).site = s
  BY DEF Url, Bare
<1>4. Empty.form = "empty" /\ Prefix.form = "prefix" /\ NoPic.form = "none"
  BY DEF Empty, Prefix, NoPic
<1>5. \A t \in Texts : t \in {Empty, Prefix} \/ \E s \in Sites : t = Bare(s) \/ t = Url(s)
  BY DEF Texts
<1>6. \A t \in Texts : t.form = "url" => t = Url(t.site) /\ t.site \in Sites
  BY <1>3, <1>4, <1>5
<1>7. \A t \in Texts : t.form = "bare" => t.site \in Sites
  BY <1>3, <1>4, <1>5
<1>8. NoPic \notin Texts
  BY <1>3, <1>4, <1>5
<1>9. QED
  BY <1>1, <1>2, <1>3, <1>4, <1>6, <1>7, <1>8

\* Removing an element keeps the type, and the only element leaves nothing.
LEMMA RemoveFacts ==
  ASSUME NEW S, NEW s \in Seq(S), NEW i \in DOMAIN s
  PROVE  /\ RemoveAt(s, i) \in Seq(S)
         /\ Len(s) = 1 => RemoveAt(s, i) = <<>>
<1>1. i \in 1..Len(s) /\ Len(s) \in Nat
  OBVIOUS
<1>2. SubSeq(s, 1, i-1) \in Seq(S) /\ SubSeq(s, i+1, Len(s)) \in Seq(S)
  BY <1>1
<1>3. RemoveAt(s, i) \in Seq(S)
  BY <1>2 DEF RemoveAt
<1>4. ASSUME Len(s) = 1 PROVE RemoveAt(s, i) = <<>>
  <2>1. i = 1
    BY <1>1, <1>4
  <2>2. SubSeq(s, 1, 0) = <<>> /\ SubSeq(s, 2, 1) = <<>>
    BY <1>4
  <2>3. QED
    BY <1>4, <2>1, <2>2 DEF RemoveAt
<1>5. QED
  BY <1>3, <1>4

\* What is suggested for a text.
LEMMA CheckedFacts ==
  ASSUME Typed, NEW t \in Texts
  PROVE  /\ Checked(t) \in [need : BOOLEAN, text : Texts]
         /\ Checked(t).need => t.form # "url"
  BY TextFacts DEF Typed, Checked

-----------------------------------------------------------------------------
(* Type correctness.                                                       *)

\* Every step that goes to a page keeps the types of what the router changes.
LEMMA EnterTyped ==
  ASSUME Typed, NEW q \in Pages, Enter(q)
  PROVE  /\ page' \in Pages /\ confirm' \in BOOLEAN
         /\ working' \in BOOLEAN /\ suggest' \in [need : BOOLEAN, text : Texts]
         /\ late' \in {"no", "set", "up"}
         /\ getting_pic' \in BOOLEAN
         /\ pic' \in [url : Texts \cup {NoPic}, asked : Texts \cup {NoPic}]
         /\ polls' \in Seq(Polls)
         /\ working' => page' = "welcome"
<1>1. NoSuggestion(q) \in [need : BOOLEAN, text : Texts]
  BY TextFacts DEF NoSuggestion
<1>2. CASE q = page
  BY <1>2 DEF Typed, Enter, control, picture
<1>3. CASE q # page
  <2>1. [asked |-> login, tries |-> 0, posted |-> FALSE] \in Polls
    BY WizardAssumption DEF Typed, Polls
  <2>2. polls \in Seq(Polls)
    BY DEF Typed
  <2>3. polls' \in {polls, Append(polls, [asked |-> login, tries |-> 0, posted |-> FALSE])}
    BY <1>3 DEF Enter, EnterGetpic, picture
  <2>4. polls' \in Seq(Polls)
    BY <2>1, <2>2, <2>3
  <2>5. QED
    BY <1>1, <1>3, <2>4 DEF Typed, Enter, EnterGetpic, picture
<1>4. QED
  BY <1>2, <1>3

\* The steps of the user on / keep the types.
LEMMA WelcomeTyped ==
  ASSUME Typed, \/ TypeTarget \/ SelectTarget \/ SendRequest
                \/ SuggestionAppear \/ SuggestionDisappear
  PROVE  Typed'
<1>1. CASE TypeTarget
  <2>1. PICK t \in Inputs : target' = t /\ suggest' = Checked(t)
    BY <1>1 DEF TypeTarget
  <2>2. t \in Texts
    BY WizardAssumption
  <2>3. suggest' \in [need : BOOLEAN, text : Texts]
    BY <2>1, <2>2, CheckedFacts
  <2>4. QED
    BY <1>1, <2>1, <2>2, <2>3 DEF TypeTarget, Typed, place, flags, picture
<1>2. CASE SelectTarget
  <2>1. suggest.text \in Texts
    BY DEF Typed
  <2>2. suggest' \in [need : BOOLEAN, text : Texts]
    BY <1>2, <2>1, CheckedFacts DEF SelectTarget, Typed
  <2>3. QED
    BY <1>2, <2>1, <2>2 DEF SelectTarget, Typed, place, flags, picture
<1>3. CASE SendRequest
  <2>0. login' \in Texts
    BY <1>3, TextFacts DEF SendRequest
  <2>1. CASE target.form = "url"
    <3>1. target.site \in Sites
      BY <2>1, TextFacts DEF Typed
    <3>2. [kind |-> "detect", site |-> target.site] \in Asks
      BY <3>1 DEF Asks
    <3>3. asks' \in Seq(Asks)
      BY <1>3, <2>1, <3>2 DEF SendRequest, Typed
    <3>4. QED
      BY <1>3, <2>0, <2>1, <3>1, <3>3 DEF SendRequest, Typed, place, flags, picture
  <2>2. CASE target.form # "url"
    <3>1. late' \in {"no", "set", "up"}
      BY <1>3, <2>2 DEF SendRequest, Typed
    <3>2. QED
      BY <1>3, <2>0, <2>2, <3>1 DEF SendRequest, Typed, place, flags, picture
  <2>3. QED
    BY <2>1, <2>2
<1>4. CASE SuggestionAppear
  <2>1. suggest' \in [need : BOOLEAN, text : Texts]
    BY <1>4 DEF SuggestionAppear, Typed
  <2>2. QED
    BY <1>4, <2>1 DEF SuggestionAppear, Typed, place, shown, flags, picture
<1>5. CASE SuggestionDisappear
  <2>1. suggest' \in [need : BOOLEAN, text : Texts]
    BY <1>5 DEF SuggestionDisappear, Typed
  <2>2. QED
    BY <1>5, <2>1 DEF SuggestionDisappear, Typed, place, shown, flags, picture
<1>6. QED
  BY <1>1, <1>2, <1>3, <1>4, <1>5

\* What an answer says keeps the types.
LEMMA DetectedTyped ==
  ASSUME Typed, NEW lg \in Texts, NEW type \in {"none", "basic", "normal"}, NEW auto \in BOOLEAN,
         NEW q \in Pages, Detected(lg, type, auto, q), asks' \in Seq(Asks)
  PROVE  Typed'
  BY EnterTyped DEF Detected, Typed, flags

\* The answers to /login_detect and /login_fill keep the types.
LEMMA AnswersTyped ==
  ASSUME Typed, NEW i \in DOMAIN asks, Answered(i)
  PROVE  Typed'
<1>1. asks \in Seq(Asks) /\ asks[i] \in Asks
  BY DEF Typed
<1>2. RemoveAt(asks, i) \in Seq(Asks)
  BY <1>1, RemoveFacts
<1>3. Url(asks[i].site) \in Texts /\ login \in Texts
  BY <1>1, TextFacts DEF Asks, Typed
<1>4. {"basic", "normal"} \subseteq Pages
  BY DEF Pages
<1>5. CASE DetectAnswered(i)
  <2>1. CASE Detected(Url(asks[i].site), "basic", TRUE, "basic") /\ asks' = RemoveAt(asks, i)
    BY <1>2, <1>3, <1>4, <2>1, DetectedTyped
  <2>2. CASE /\ asks' = [asks EXCEPT ![i].kind = "fill"]
             /\ UNCHANGED <<place, shown, account, flags, picture, control>>
    <3>1. asks' \in Seq(Asks)
      BY <1>1, <2>2 DEF Asks
    <3>2. QED
      BY <2>2, <3>1 DEF Typed, place, shown, flags, picture, control
  <2>3. CASE Detected(login, "none", NothingDetected, "normal") /\ asks' = RemoveAt(asks, i)
    BY <1>2, <1>3, <1>4, <2>3, DetectedTyped DEF NothingDetected
  <2>4. QED
    BY <1>5, <2>1, <2>2, <2>3 DEF DetectAnswered
<1>6. CASE FillAnswered(i)
  BY <1>2, <1>3, <1>4, <1>6, DetectedTyped DEF FillAnswered
<1>7. CASE AskFails(i)
  BY <1>2, <1>7 DEF AskFails, Typed, place, shown, flags, picture, control
<1>8. QED
  BY <1>5, <1>6, <1>7 DEF Answered

\* A step that only goes to a page keeps the types, whatever it does to the flags.
LEMMA NavTyped ==
  ASSUME Typed, NEW q \in Pages, Enter(q), walks' \in 0..MaxWalks,
         UNCHANGED <<shown, account, asks>>, valid' \in BOOLEAN, refused' \in BOOLEAN
  PROVE  Typed'
  BY EnterTyped DEF Typed, shown

\* The steps of the user from page to page keep the types.
LEMMA NavigationTyped ==
  ASSUME Typed, Walk \/ Prev \/ PicPrev \/ PicNext \/ Cancel \/ Submit
  PROVE  Typed'
<1>1. Pages = {"welcome", "basic", "normal", "getpic", "confirm", "scan"}
  BY DEF Pages
<1>2. CASE Walk
  <2>1. PICK q \in Pages : Enter(q)
    BY <1>2 DEF Walk
  <2>2. walks' \in 0..MaxWalks
    BY <1>2, WizardAssumption DEF Walk, Typed
  <2>3. QED
    BY <1>2, <2>1, <2>2, NavTyped DEF Walk, Typed, flags
<1>3. CASE Prev
  BY <1>1, <1>3, NavTyped DEF Prev, ValidAfterPrev, Typed
<1>4. CASE PicPrev
  BY <1>1, <1>4, NavTyped DEF PicPrev, Typed, flags
<1>5. CASE PicNext
  BY <1>1, <1>5, NavTyped DEF PicNext, Typed, flags
<1>6. CASE Cancel
  <2>1. BackPage \in Pages
    BY <1>1 DEF BackPage, Typed
  <2>2. QED
    BY <1>6, <2>1, NavTyped DEF Cancel, Typed
<1>7. CASE Submit
  BY <1>1, <1>7, NavTyped DEF Submit, Typed, flags
<1>8. QED
  BY <1>2, <1>3, <1>4, <1>5, <1>6, <1>7

\* What is in the input for the login, and what is suggested for it, is typed.
LEMMA LoginTyped ==
  ASSUME Typed, TypeLogin \/ SelectLogin
  PROVE  Typed'
<1>1. ASSUME NEW t \in Texts PROVE CheckedLogin(t) \in [need : BOOLEAN, text : Texts]
  BY <1>1, CheckedFacts DEF CheckedLogin, Typed
<1>2. suggest.text \in Texts /\ suggest \in [need : BOOLEAN, text : Texts]
  BY DEF Typed
<1>3. login' \in Texts /\ suggest' \in [need : BOOLEAN, text : Texts] /\ valid' \in BOOLEAN
  <2>1. CASE TypeLogin
    BY <1>1, <2>1, WizardAssumption DEF TypeLogin
  <2>2. CASE SelectLogin
    BY <1>1, <1>2, <2>2 DEF SelectLogin, Typed
  <2>3. QED
    BY <2>1, <2>2
<1>4. UNCHANGED <<place, target, logtype, auto_detect, whitelist, account, refused, picture,
                  working, late, asks>>
  BY DEF TypeLogin, SelectLogin
<1>5. QED
  BY <1>3, <1>4 DEF Typed, place, picture

\* The other steps of the user keep the types.
LEMMA FormsTyped ==
  ASSUME Typed, EditAccount \/ BasicNext \/ ChooseLogtype \/ NormalNext \/ Tick
  PROVE  Typed'
<1>1. Pages = {"welcome", "basic", "normal", "getpic", "confirm", "scan"}
  BY DEF Pages
<1>2. CASE EditAccount
  BY <1>2 DEF EditAccount, Typed, place, shown, flags, picture, control
<1>3. CASE ChooseLogtype
  BY <1>3 DEF ChooseLogtype, Typed, place, flags, picture, control
<1>4. CASE Tick
  BY <1>4 DEF Tick, Typed, shown, flags, picture, control
<1>5. CASE BasicNext
  <2>1. refused' \in BOOLEAN /\ valid' \in BOOLEAN
    BY <1>5 DEF BasicNext, Wrong, Typed
  <2>2. CASE Enter("confirm") /\ UNCHANGED walks
    BY <1>1, <1>5, <2>1, <2>2, NavTyped DEF BasicNext, Typed
  <2>3. CASE UNCHANGED <<place, picture, control>>
    BY <1>5, <2>1, <2>3 DEF BasicNext, Typed, place, shown, picture, control
  <2>4. QED
    BY <1>5, <2>2, <2>3 DEF BasicNext
<1>6. CASE NormalNext
  <2>1. refused' \in BOOLEAN /\ valid' \in BOOLEAN
    BY <1>6 DEF NormalNext, Wrong, Typed, flags
  <2>2. ASSUME NEW q \in {"confirm", "getpic"}, Enter(q), UNCHANGED walks PROVE Typed'
    BY <1>1, <1>6, <2>1, <2>2, NavTyped DEF NormalNext, Typed
  <2>3. CASE UNCHANGED <<place, picture, control>>
    BY <1>6, <2>1, <2>3 DEF NormalNext, Typed, place, shown, picture, control
  <2>4. QED
    BY <1>6, <2>2, <2>3 DEF NormalNext
<1>7. QED
  BY <1>2, <1>3, <1>4, <1>5, <1>6

\* The results that come to /getpic keep the types.
LEMMA PollsTyped ==
  ASSUME Typed, NEW i \in DOMAIN polls, Polled(i)
  PROVE  Typed'
<1>1. polls \in Seq(Polls) /\ polls[i] \in Polls
  BY DEF Typed
<1>2. RemoveAt(polls, i) \in Seq(Polls)
  BY <1>1, RemoveFacts
<1>3. [polls EXCEPT ![i].posted = TRUE] \in Seq(Polls)
  <2>1. [polls[i] EXCEPT !.posted = TRUE] \in Polls
    BY <1>1 DEF Polls
  <2>2. QED
    BY <1>1, <2>1
<1>4. ASSUME ~Spent(polls[i].tries) PROVE [polls EXCEPT ![i].tries = @ + 1] \in Seq(Polls)
  <2>1. polls[i].tries + 1 \in 0..MaxTries
    BY <1>1, <1>4, WizardAssumption DEF Polls, Spent
  <2>2. [polls[i] EXCEPT !.tries = @ + 1] \in Polls
    BY <1>1, <2>1 DEF Polls
  <2>3. QED
    BY <1>1, <2>2
<1>5. polls' \in Seq(Polls)
  BY <1>2, <1>3, <1>4
     DEF Polled, Posted, Attempt, Exhausted, Problem, NoPicture, Gone
<1>6. pic' \in [url : Texts \cup {NoPic}, asked : Texts \cup {NoPic}]
  <2>1. pic' \in {pic, [pic EXCEPT !.url = NoPic], [url |-> login, asked |-> polls[i].asked]}
    BY DEF Polled, Posted, Attempt, Exhausted, Problem, NoPicture
  <2>2. login \in Texts /\ polls[i].asked \in Texts
    BY <1>1 DEF Typed, Polls
  <2>3. QED
    BY <2>1, <2>2 DEF Typed
<1>7. getting_pic' \in BOOLEAN
  BY DEF Polled, Posted, Attempt, Exhausted, Problem, NoPicture, Typed
<1>8. UNCHANGED <<place, shown, account, flags, control, asks>>
  BY DEF Polled, Posted, Attempt
<1>9. QED
  BY <1>5, <1>6, <1>7, <1>8 DEF Typed, place, shown, flags, control

\* The initial state, to which Reload goes back, has the types.
LEMMA InitTyped ==
  /\ Init => Typed
  /\ Reload => Typed'
<1>1. NoSuggestion("welcome") \in [need : BOOLEAN, text : Texts]
  BY TextFacts DEF NoSuggestion
<1>2. <<>> \in Seq(Asks) /\ <<>> \in Seq(Polls)
  OBVIOUS
<1>3. [url |-> NoPic, asked |-> NoPic] \in [url : Texts \cup {NoPic}, asked : Texts \cup {NoPic}]
  OBVIOUS
<1>4. 0 \in 0..MaxWalks /\ "welcome" \in Pages
  BY WizardAssumption DEF Pages
<1>5. Init => Typed
  BY <1>1, <1>2, <1>3, <1>4, TextFacts DEF Init, Typed
<1>6. Reload => Typed'
  BY <1>1, <1>2, <1>3, <1>4, TextFacts DEF Reload, Typed
<1>7. QED
  BY <1>5, <1>6

\* Every step keeps the types.
LEMMA NextTyped == Typed /\ [Next]_vars => Typed'
<1> SUFFICES ASSUME Typed, [Next]_vars PROVE Typed'
  OBVIOUS
<1>1. CASE UNCHANGED vars
  BY <1>1 DEF Typed, vars, place, shown, flags, picture, control
<1>2. ASSUME NEW i \in DOMAIN asks, Answered(i) PROVE Typed'
  BY <1>2, AnswersTyped
<1>3. ASSUME NEW i \in DOMAIN polls, Polled(i) PROVE Typed'
  BY <1>3, PollsTyped
<1>4. CASE User \/ Timer
  BY <1>4, InitTyped, WelcomeTyped, NavigationTyped, LoginTyped, FormsTyped DEF User, Timer
<1>5. QED
  BY <1>1, <1>2, <1>3, <1>4 DEF Next

-----------------------------------------------------------------------------
(* The invariant.                                                          *)

\* Going to another page ends what the old one has begun.
LEMMA EnterFacts ==
  ASSUME Typed, NEW q \in Pages, q # page, Enter(q)
  PROVE  /\ page' = q /\ working' = FALSE /\ suggest'.need = FALSE
         /\ late' = IF q # "welcome" /\ late = "up" THEN "up" ELSE "no"
         /\ q # "getpic" => UNCHANGED picture
         /\ q = "getpic" /\ polls = <<>> =>
              /\ pic' = pic
              /\ \/ polls' = <<>>
                 \/ /\ getting_pic' = TRUE /\ pic.url # login
                    /\ Len(polls') = 1 /\ polls'[1].asked = login
<1>1. suggest'.need = FALSE
  BY DEF Enter, NoSuggestion
<1>2. ASSUME q = "getpic", polls = <<>>
      PROVE  /\ pic' = pic
             /\ \/ polls' = <<>>
                \/ /\ getting_pic' = TRUE /\ pic.url # login
                   /\ Len(polls') = 1 /\ polls'[1].asked = login
  BY <1>2 DEF Enter, EnterGetpic
<1>3. QED
  BY <1>1, <1>2 DEF Enter

\* From / the invariant comes along with whatever the answers say.
LEMMA DetectedKnown ==
  ASSUME Typed, Known, page = "welcome", asks' = <<>>,
         NEW lg, NEW type, NEW auto \in BOOLEAN, NEW q \in {"basic", "normal"},
         Detected(lg, type, auto, q),
         q = "basic" => auto /\ lg = Url(whitelist) /\ type # "none",
         q = "normal" => ~auto /\ type # "basic",
         working
  PROVE  Known'
<1>1. q \in Pages /\ q # page
  BY DEF Pages
<1>2. Enter(q) /\ UNCHANGED <<target, whitelist, account, valid, refused>>
      /\ login' = lg /\ logtype' = type /\ auto_detect' = auto
  BY DEF Detected, flags
<1>3. /\ page' = q /\ working' = FALSE /\ suggest'.need = FALSE
      /\ late' = IF q # "welcome" /\ late = "up" THEN "up" ELSE "no"
      /\ UNCHANGED <<getting_pic, pic, polls>>
  BY <1>1, <1>2, EnterFacts DEF picture
<1>4. Detecting' /\ Suggesting'
  BY <1>2, <1>3 DEF Detecting, Suggesting
<1>5. Settled'
  BY <1>2, <1>3 DEF Known, Detecting, Settled, Url
<1>6. LoginKnown'
  BY <1>2, <1>3 DEF LoginKnown, Url
<1>7. LoginChecked'
  BY <1>2, <1>3 DEF Known, LoginChecked
<1>8. PictureKnown'
  BY <1>2, <1>3 DEF Known, PictureKnown
<1>9. QED
  BY <1>4, <1>5, <1>6, <1>7, <1>8 DEF Known

\* Answers come only on /, and there is only one to come.
LEMMA AnswersKnown ==
  ASSUME Typed, Known, NEW i \in DOMAIN asks, Answered(i)
  PROVE  Known'
<1>1. working /\ page = "welcome" /\ Len(asks) = 1 /\ asks[1].site = whitelist
  BY DEF Known, Detecting, Typed
<1>2. i = 1 /\ asks \in Seq(Asks) /\ asks[i] \in Asks
  <2>1. asks \in Seq(Asks)
    BY DEF Typed
  <2>2. DOMAIN asks = 1..1
    BY <1>1, <2>1
  <2>3. QED
    BY <2>1, <2>2
<1>3. RemoveAt(asks, i) = <<>>
  BY <1>1, <1>2, RemoveFacts
<1>4. login = Empty
  BY <1>1 DEF Known, Detecting
<1>5. CASE DetectAnswered(i)
  <2>1. CASE Detected(Url(asks[i].site), "basic", TRUE, "basic") /\ asks' = RemoveAt(asks, i)
    BY <1>1, <1>2, <1>3, <2>1, DetectedKnown
  <2>2. CASE /\ asks' = [asks EXCEPT ![i].kind = "fill"]
             /\ UNCHANGED <<place, shown, account, flags, picture, control>>
    <3>1. Len(asks') = 1 /\ asks'[1].site = asks[1].site
      BY <1>1, <1>2, <2>2 DEF Asks
    <3>2. QED
      BY <1>1, <2>2, <3>1
         DEF Known, Detecting, Suggesting, Settled, LoginKnown, LoginChecked, PictureKnown,
             place, shown, flags, picture, control
  <2>3. CASE Detected(login, "none", NothingDetected, "normal") /\ asks' = RemoveAt(asks, i)
    BY <1>1, <1>3, <2>3, DetectedKnown DEF NothingDetected
  <2>4. QED
    BY <1>5, <2>1, <2>2, <2>3 DEF DetectAnswered
<1>6. CASE FillAnswered(i)
  BY <1>1, <1>2, <1>3, <1>6, DetectedKnown DEF FillAnswered
<1>7. CASE AskFails(i)
  BY <1>3, <1>7
     DEF AskFails, Known, Detecting, Suggesting, Settled, LoginKnown, LoginChecked, PictureKnown,
         place, shown, flags, picture, control
<1>8. QED
  BY <1>5, <1>6, <1>7 DEF Answered

\* What the user does on /, and its timers.
LEMMA WelcomeKnown ==
  ASSUME Typed, Known, \/ TypeTarget \/ SelectTarget \/ SendRequest
                       \/ SuggestionAppear \/ SuggestionDisappear
  PROVE  Known'
<1> USE DEF Known
<1>1. CASE TypeTarget
  <2>1. PICK t \in Inputs : target' = t /\ suggest' = Checked(t)
    BY <1>1 DEF TypeTarget
  <2>2. suggest'.need => t.form # "url"
    BY <2>1, CheckedFacts, WizardAssumption
  <2>3. UNCHANGED <<page, login, logtype, auto_detect, whitelist, account, valid, refused,
                    getting_pic, pic, polls, working, asks>> /\ page = "welcome" /\ ~working
    BY <1>1 DEF TypeTarget, Writable, place, flags, picture
  <2>4. QED
    BY <2>1, <2>2, <2>3 DEF Detecting, Suggesting, Settled, LoginKnown, LoginChecked, PictureKnown
<1>2. CASE SelectTarget
  <2>1. UNCHANGED <<page, login, logtype, auto_detect, whitelist, account, valid, refused,
                    getting_pic, pic, polls, working, late, asks>>
        /\ page = "welcome" /\ target' = suggest.text /\ suggest.need
    BY <1>2 DEF SelectTarget, place, flags, picture
  <2>2. suggest'.need => suggest'.text = suggest.text \/ target'.form # "url"
    <3>1. suggest.text \in Texts
      BY DEF Typed
    <3>2. QED
      BY <1>2, <2>1, <3>1, CheckedFacts DEF SelectTarget
  <2>3. Suggesting'
    BY <2>1, <2>2 DEF Suggesting
  <2>4. Detecting'
    BY <2>1, TextFacts DEF Detecting, Suggesting
  <2>5. QED
    BY <2>1, <2>3, <2>4 DEF Settled, LoginKnown, LoginChecked, PictureKnown
<1>3. CASE SendRequest
  <2>1. UNCHANGED <<page, target, logtype, auto_detect, valid, refused,
                    getting_pic, pic, polls, suggest>>
        /\ page = "welcome" /\ ~working /\ login' = Empty
    BY <1>3 DEF SendRequest, place, flags, picture
  <2>2. asks = <<>> /\ polls = <<>>
    BY <2>1 DEF Detecting, PictureKnown
  <2>3. CASE target.form = "url"
    <3>1. target = Url(target.site)
      BY <2>3, TextFacts DEF Typed
    <3>2. /\ working' = TRUE /\ whitelist' = target.site /\ late' = late
          /\ Len(asks') = 1 /\ asks'[1].site = whitelist'
      BY <1>3, <2>2, <2>3 DEF SendRequest
    <3>3. QED
      BY <2>1, <2>2, <3>1, <3>2
         DEF Detecting, Suggesting, Settled, LoginKnown, LoginChecked, PictureKnown
  <2>4. CASE target.form # "url"
    BY <1>3, <2>1, <2>2, <2>4
       DEF SendRequest, Detecting, Suggesting, Settled, LoginKnown, LoginChecked, PictureKnown
  <2>5. QED
    BY <2>3, <2>4
<1>4. CASE SuggestionAppear
  BY <1>4
     DEF SuggestionAppear, Detecting, Suggesting, Settled, LoginKnown, LoginChecked, PictureKnown,
         place, shown, flags, picture
<1>5. CASE SuggestionDisappear
  BY <1>5
     DEF SuggestionDisappear, Detecting, Suggesting, Settled, LoginKnown, LoginChecked, PictureKnown,
         place, shown, flags, picture
<1>6. QED
  BY <1>1, <1>2, <1>3, <1>4, <1>5

\* The inputs of /basic, /normal and /confirm.
LEMMA InputsKnown ==
  ASSUME Typed, Known, EditAccount \/ ChooseLogtype \/ TypeLogin \/ SelectLogin \/ Tick
  PROVE  Known'
<1>1. page \in {"basic", "normal", "confirm"} /\ ~working /\ asks = <<>> /\ polls = <<>>
      /\ (page = "normal" => ~auto_detect)
  BY DEF Known, Detecting, PictureKnown, LoginKnown, Typed,
         EditAccount, ChooseLogtype, TypeLogin, SelectLogin, Tick
<1>2. UNCHANGED <<page, target, auto_detect, whitelist, getting_pic, pic, polls, working, late, asks>>
  BY DEF EditAccount, ChooseLogtype, TypeLogin, SelectLogin, Tick, place, shown, picture, control
<1>3. CASE EditAccount
  BY <1>1, <1>2, <1>3
     DEF EditAccount, Known, Detecting, Suggesting, Settled, LoginKnown, LoginChecked, PictureKnown,
         shown, flags
<1>4. CASE ChooseLogtype
  BY <1>1, <1>2, <1>4
     DEF ChooseLogtype, Known, Detecting, Suggesting, Settled, LoginKnown, LoginChecked, PictureKnown,
         flags
<1>5. CASE TypeLogin \/ SelectLogin
  <2>1. page = "normal" /\ logtype' = logtype /\ (valid' => valid)
    BY <1>5 DEF TypeLogin, SelectLogin
  <2>2. QED
    BY <1>1, <1>2, <2>1
       DEF Known, Detecting, Suggesting, Settled, LoginKnown, LoginChecked, PictureKnown
<1>6. CASE Tick
  BY <1>1, <1>2, <1>6
     DEF Tick, Known, Detecting, Suggesting, Settled, LoginKnown, LoginChecked, PictureKnown,
         shown, flags
<1>7. QED
  BY <1>3, <1>4, <1>5, <1>6

\* Behind /, a step to another page leaves the invariant to that page.
LEMMA NavKnown ==
  ASSUME Typed, Known, page # "welcome", NEW q \in Pages, q # page, Enter(q),
         UNCHANGED <<shown, account, asks>>,
         q = "basic"  => auto_detect,
         q \in {"normal", "getpic"} => ~auto_detect,
         q = "normal" => logtype # "basic",
         q = "getpic" => logtype = "normal" /\ login.form = "url" /\ account,
         q \in {"confirm", "scan"} => (logtype # "none" => login.form = "url" /\ account),
         q \in {"confirm", "scan"} => (logtype = "normal" /\ ~auto_detect => pic.url = login),
         valid' \in BOOLEAN,
         valid' => q \in {"confirm", "scan"} /\ ~auto_detect /\ logtype = "none",
         q # "getpic" => polls = <<>>,
         polls # <<>> => page = "getpic"
  PROVE  Known'
<1>1. /\ page' = q /\ working' = FALSE /\ suggest'.need = FALSE
      /\ late' = IF q # "welcome" /\ late = "up" THEN "up" ELSE "no"
      /\ q # "getpic" => UNCHANGED <<getting_pic, pic, polls>>
  BY EnterFacts DEF picture
<1>2. UNCHANGED <<target, login, logtype, auto_detect, whitelist, account, asks>>
  BY DEF shown
<1>3. asks = <<>>
  BY DEF Known, Detecting, Typed
<1>4. Detecting' /\ Suggesting'
  BY <1>1, <1>2, <1>3 DEF Detecting, Suggesting
<1>5. Settled'
  BY <1>1, <1>2 DEF Known, Settled, Url
<1>6. LoginKnown'
  BY <1>1, <1>2 DEF Known, LoginKnown, Url
<1>7. LoginChecked'
  BY <1>1, <1>2 DEF LoginChecked
<1>8. PictureKnown'
  <2>1. CASE q # "getpic"
    BY <1>1, <1>2, <2>1 DEF Known, PictureKnown
  <2>2. CASE q = "getpic"
    <3>1. polls = <<>>
      BY <2>2
    <3>2. /\ pic' = pic
          /\ \/ polls' = <<>>
             \/ /\ getting_pic' = TRUE /\ pic.url # login
                /\ Len(polls') = 1 /\ polls'[1].asked = login
      BY <2>2, <3>1, EnterFacts
    <3>3. QED
      BY <1>1, <1>2, <2>2, <3>2 DEF Known, PictureKnown
  <2>3. QED
    BY <2>1, <2>2
<1>9. QED
  BY <1>4, <1>5, <1>6, <1>7, <1>8 DEF Known

\* The buttons of the pages behind /.
LEMMA NavigationKnown ==
  ASSUME Typed, Known, BasicNext \/ Prev \/ NormalNext \/ PicPrev \/ PicNext \/ Cancel \/ Submit
  PROVE  Known'
<1> USE DEF Known
<1>1. Pages = {"welcome", "basic", "normal", "getpic", "confirm", "scan"}
  BY DEF Pages
<1>2. CASE BasicNext
  <2>1. UNCHANGED <<shown, account, asks, valid>> /\ page = "basic" /\ polls = <<>> /\ ~valid
    BY <1>2 DEF BasicNext, LoginChecked, PictureKnown
  <2>2. CASE refused'
    BY <1>2, <2>1, <2>2
       DEF BasicNext, Detecting, Suggesting, Settled, LoginKnown, LoginChecked, PictureKnown,
           place, shown, picture, control
  <2>3. CASE ~refused'
    <3>1. Enter("confirm") /\ account
      BY <1>2, <2>1, <2>3 DEF BasicNext, Wrong
    <3>2. auto_detect /\ login.form = "url"
      BY <2>1, TextFacts DEF LoginKnown
    <3>3. QED
      BY <1>1, <2>1, <3>1, <3>2, NavKnown DEF Typed
  <2>4. QED
    BY <2>2, <2>3
<1>3. CASE Prev
  <2>1. /\ UNCHANGED <<shown, account, asks>> /\ page \in {"basic", "normal"} /\ polls = <<>>
        /\ valid' = FALSE /\ Enter("welcome")
    BY <1>3 DEF Prev, ValidAfterPrev, LoginChecked, PictureKnown, Typed
  <2>2. QED
    BY <1>1, <2>1, NavKnown
<1>4. CASE NormalNext
  <2>1. UNCHANGED <<shown, account, asks>> /\ page = "normal" /\ polls = <<>> /\ ~auto_detect
    BY <1>4 DEF NormalNext, LoginKnown, PictureKnown
  <2>2. CASE logtype = "none"
    <3>1. Enter("confirm") /\ valid' = valid
      BY <1>4, <2>2 DEF NormalNext, flags
    <3>2. QED
      BY <1>1, <2>1, <2>2, <3>1, NavKnown DEF Typed
  <2>3. CASE logtype # "none" /\ UNCHANGED <<place, picture, control>>
    BY <2>1, <2>3
       DEF Detecting, Suggesting, Settled, LoginKnown, LoginChecked, PictureKnown,
           place, shown, picture, control
  <2>4. CASE logtype # "none" /\ ~UNCHANGED <<place, picture, control>>
    <3>1. Enter("getpic") /\ valid' = FALSE /\ login.form = "url" /\ account
      BY <1>4, <2>4 DEF NormalNext, Wrong
    <3>2. logtype = "normal"
      BY <2>1, <2>4 DEF LoginKnown, Typed
    <3>3. QED
      BY <1>1, <2>1, <3>1, <3>2, NavKnown
  <2>5. QED
    BY <2>2, <2>3, <2>4
<1>5. CASE PicPrev
  <2>1. /\ UNCHANGED <<shown, account, asks, valid>> /\ page = "getpic" /\ Enter("normal")
        /\ polls = <<>> /\ ~auto_detect /\ logtype = "normal" /\ ~valid
    BY <1>5 DEF PicPrev, MayGoBack, PictureKnown, LoginKnown, LoginChecked, flags
  <2>2. QED
    BY <1>1, <2>1, NavKnown DEF Typed
<1>6. CASE PicNext
  <2>1. /\ UNCHANGED <<shown, account, asks, valid>> /\ page = "getpic" /\ Enter("confirm")
        /\ pic.url = login /\ ~valid /\ login.form = "url" /\ account /\ polls = <<>>
    BY <1>6 DEF PicNext, LoginChecked, PictureKnown, flags
  <2>2. QED
    BY <1>1, <2>1, NavKnown DEF Typed
<1>7. CASE Cancel
  <2>1. /\ UNCHANGED <<shown, account, asks>> /\ page = "confirm" /\ polls = <<>>
        /\ valid' = FALSE /\ Enter(BackPage)
    BY <1>7 DEF Cancel, PictureKnown
  <2>2. /\ BackPage \in {"basic", "normal", "getpic"}
        /\ BackPage = "basic" => auto_detect
        /\ BackPage = "getpic" => ~auto_detect /\ logtype = "normal"
        /\ BackPage = "normal" => ~auto_detect /\ logtype # "basic"
    <3>1. /\ auto_detect => BackPage = "basic"
          /\ ~auto_detect => logtype # "basic"
      BY <2>1 DEF BackPage, LoginKnown
    <3>2. CASE auto_detect
      BY <3>1, <3>2
    <3>3. CASE ~auto_detect /\ logtype = "normal"
      BY <3>3 DEF BackPage
    <3>4. CASE ~auto_detect /\ logtype = "none"
      BY <3>4 DEF BackPage
    <3>5. QED
      BY <3>1, <3>2, <3>3, <3>4 DEF Typed
  <2>3. BackPage = "getpic" => login.form = "url" /\ account
    BY <2>1, <2>2 DEF LoginChecked
  <2>4. QED
    BY <1>1, <2>1, <2>2, <2>3, NavKnown
<1>8. CASE Submit
  <2>1. UNCHANGED <<shown, account, asks, valid>> /\ page = "confirm" /\ Enter("scan") /\ polls = <<>>
    BY <1>8 DEF Submit, PictureKnown, flags
  <2>2. /\ logtype # "none" => login.form = "url" /\ account
        /\ valid => ~auto_detect /\ logtype = "none"
        /\ logtype = "normal" /\ ~auto_detect => pic.url = login
    BY <2>1 DEF LoginChecked, PictureKnown
  <2>3. QED
    BY <1>1, <2>1, <2>2, NavKnown DEF Typed
<1>9. QED
  BY <1>2, <1>3, <1>4, <1>5, <1>6, <1>7, <1>8

\* The requests for pictures end on the page that has asked, with its login.
LEMMA PollsKnown ==
  ASSUME Typed, Known, NEW i \in DOMAIN polls, Polled(i)
  PROVE  Known'
<1>1. polls \in Seq(Polls)
  BY DEF Typed
<1>2. /\ page = "getpic" /\ getting_pic /\ pic.url # login
      /\ Len(polls) = 1 /\ polls[1].asked = login
  BY <1>1 DEF Known, PictureKnown
<1>3. DOMAIN polls = 1..1
  BY <1>1, <1>2
<1>4. i = 1 /\ polls[i] \in Polls
  BY <1>1, <1>3
<1>5. UNCHANGED <<place, shown, account, flags, control, asks>>
  BY DEF Polled, Posted, Attempt
<1>6. PictureKnown'
  <2>1. CASE polls' = RemoveAt(polls, i)
    <3>1. polls' = <<>>
      BY <1>1, <1>2, <2>1, RemoveFacts
    <3>2. /\ login \in Texts
          /\ \/ pic' = pic \/ pic' = [pic EXCEPT !.url = NoPic]
             \/ pic' = [url |-> login, asked |-> polls[i].asked]
      BY DEF Polled, Posted, Attempt, Exhausted, Problem, NoPicture, Typed
    <3>3. pic'.url # NoPic => pic'.asked = pic'.url
      BY <1>2, <1>4, <3>2 DEF Known, PictureKnown, Typed
    <3>4. QED
      BY <1>2, <1>5, <3>1, <3>3 DEF PictureKnown, place
  <2>2. CASE polls' # RemoveAt(polls, i)
    <3>1. /\ UNCHANGED <<getting_pic, pic>>
          /\ \/ polls' = [polls EXCEPT ![i].posted = TRUE]
             \/ polls' = [polls EXCEPT ![i].tries = @ + 1]
      BY <2>2 DEF Polled, Posted, Attempt, Exhausted, Problem, NoPicture, Gone
    <3>2. Len(polls') = 1 /\ polls'[1].asked = polls[1].asked
      BY <1>1, <1>2, <1>4, <3>1 DEF Polls
    <3>3. QED
      BY <1>2, <1>5, <3>1, <3>2 DEF Known, PictureKnown, place, shown
  <2>3. QED
    BY <2>1, <2>2
<1>7. Detecting' /\ Suggesting' /\ Settled' /\ LoginKnown' /\ LoginChecked'
  BY <1>5
     DEF Known, Detecting, Suggesting, Settled, LoginKnown, LoginChecked,
         place, shown, flags, control, Url
<1>8. QED
  BY <1>6, <1>7 DEF Known

\* The pages start in the invariant, and every step keeps it: a step past the
\* buttons leaves nothing to keep until the document is loaded anew.
LEMMA InitKnown ==
  /\ Init => Known
  /\ Reload => Known'
<1>1. NoSuggestion("welcome").need = FALSE
  BY DEF NoSuggestion
<1>2. Init => Known
  BY <1>1
     DEF Init, Known, Detecting, Suggesting, Settled, LoginKnown, LoginChecked, PictureKnown
<1>3. Reload => Known'
  BY <1>1
     DEF Reload, Known, Detecting, Suggesting, Settled, LoginKnown, LoginChecked, PictureKnown
<1>4. QED
  BY <1>2, <1>3

\* A step by the buttons.
LEMMA NextKnown ==
  ASSUME Typed, ByButtons => Known, [Next]_vars, ByButtons'
  PROVE  Known'
<1>1. CASE Reload
  BY <1>1, InitKnown
<1>2. CASE Walk
  BY <1>2 DEF Walk, ByButtons, Typed
<1>3. CASE UNCHANGED vars
  BY <1>3
     DEF ByButtons, Known, Detecting, Suggesting, Settled, LoginKnown, LoginChecked, PictureKnown,
         vars, place, shown, flags, picture, control
<1>4. CASE \/ TypeTarget \/ SelectTarget \/ SendRequest \/ SuggestionAppear \/ SuggestionDisappear
  <2>1. UNCHANGED walks
    BY <1>4
       DEF TypeTarget, SelectTarget, SendRequest, SuggestionAppear, SuggestionDisappear, place
  <2>2. QED
    BY <1>4, <2>1, WelcomeKnown DEF ByButtons
<1>5. CASE EditAccount \/ ChooseLogtype \/ TypeLogin \/ SelectLogin \/ Tick
  <2>1. UNCHANGED walks
    BY <1>5 DEF EditAccount, ChooseLogtype, TypeLogin, SelectLogin, Tick, place
  <2>2. QED
    BY <1>5, <2>1, InputsKnown DEF ByButtons
<1>6. CASE BasicNext \/ Prev \/ NormalNext \/ PicPrev \/ PicNext \/ Cancel \/ Submit
  <2>1. UNCHANGED walks
    BY <1>6 DEF BasicNext, Prev, NormalNext, PicPrev, PicNext, Cancel, Submit, place
  <2>2. QED
    BY <1>6, <2>1, NavigationKnown DEF ByButtons
<1>7. ASSUME NEW i \in DOMAIN asks, Answered(i) PROVE Known'
  <2>1. UNCHANGED walks
    BY <1>7 DEF Answered, DetectAnswered, FillAnswered, AskFails, Detected, place
  <2>2. QED
    BY <1>7, <2>1, AnswersKnown DEF ByButtons
<1>8. ASSUME NEW i \in DOMAIN polls, Polled(i) PROVE Known'
  <2>1. UNCHANGED walks
    BY <1>8 DEF Polled, Posted, Attempt, place
  <2>2. QED
    BY <1>8, <2>1, PollsKnown DEF ByButtons
<1>9. QED
  BY <1>1, <1>2, <1>3, <1>4, <1>5, <1>6, <1>7, <1>8 DEF Next, User, Timer

-----------------------------------------------------------------------------
(* The theorems.                                                           *)

\* The inductive invariant holds: what each page of the wizard may rely on.
THEOREM WizardCorrect == Spec => []WizardInv
<1>1. Init => WizardInv
  BY InitTyped, InitKnown DEF WizardInv
<1>2. WizardInv /\ [Next]_vars => WizardInv'
  BY NextTyped, NextKnown DEF WizardInv
<1>3. QED
  BY <1>1, <1>2, PTL DEF Spec

\* The shared state of the pages always has its type, whatever answers arrive and
\* wherever the browser takes the user.
THEOREM WizardTypeCorrect == Spec => []TypeOK
<1>1. Typed => TypeOK
  <2> SUFFICES ASSUME Typed PROVE TypeOK
    OBVIOUS
  <2>1. \A i \in DOMAIN asks : asks[i] \in Asks
    BY DEF Typed
  <2>2. \A i \in DOMAIN polls : polls[i] \in Polls
    BY DEF Typed
  <2>3. QED
    BY <2>1, <2>2 DEF Typed, TypeOK, Asks, Polls
<1>2. QED
  BY <1>1, WizardCorrect, PTL DEF WizardInv

\* normal_next and basic_next together let nobody submit an incomplete login.
THEOREM Complete == Spec => []SubmittedIsComplete
<1>1. WizardInv => SubmittedIsComplete
  BY DEF WizardInv, Known, LoginChecked, SubmittedIsComplete
<1>2. QED
  BY <1>1, WizardCorrect, PTL

\* However many detections there were, a detected login is that of the last one.
THEOREM OwnLogin == Spec => []LoginIsOfTarget
<1>1. WizardInv => LoginIsOfTarget
  BY DEF WizardInv, Known, LoginKnown, LoginIsOfTarget
<1>2. QED
  BY <1>1, WizardCorrect, PTL

\* The target is on its whitelist on every page behind /, unless the suggestions
\* that come up late were used.
THEOREM Whitelisted == Spec => []TargetIsWhitelisted
<1>1. WizardInv => TargetIsWhitelisted
  BY DEF WizardInv, Known, Settled, TargetIsWhitelisted
<1>2. QED
  BY <1>1, WizardCorrect, PTL

\* However late an answer arrives, what is filed under a manual login was asked for
\* that login (which does not say that it shows that login's page).
THEOREM AskedPicture == Spec => []PictureAskedForLogin
<1>1. WizardInv => PictureAskedForLogin
  <2> SUFFICES ASSUME WizardInv, ByButtons, logtype = "normal", ~auto_detect
               PROVE  /\ page = "getpic" /\ pic.url = login => pic.asked = login
                      /\ page \in {"confirm", "scan"} => pic = [url |-> login, asked |-> login]
    BY DEF PictureAskedForLogin
  <2>1. login # NoPic /\ pic.url # NoPic => pic.asked = pic.url
    BY TextFacts DEF WizardInv, Typed, Known, PictureKnown
  <2>2. login # NoPic
    BY TextFacts DEF WizardInv, Typed
  <2>3. pic = [url |-> pic.url, asked |-> pic.asked]
    BY DEF WizardInv, Typed
  <2>4. page \in {"confirm", "scan"} => pic.url = login
    BY DEF WizardInv, Known, PictureKnown
  <2>5. QED
    BY <2>1, <2>2, <2>3, <2>4
<1>2. QED
  BY <1>1, WizardCorrect, PTL

\* The flag of /normal never blocks /basic.
THEOREM BasicIsFree == Spec => []BasicNextWorks
<1>1. WizardInv => BasicNextWorks
  BY DEF WizardInv, Known, LoginChecked, BasicNextWorks
<1>2. QED
  BY <1>1, WizardCorrect, PTL

\* Nothing changes between the tick and the submission: an answer that changes
\* something takes the user away from the page, wherever the answer comes from.
THEOREM Consent == Spec => ConsentIsForThis
<1>1. [Next]_vars => [page = "confirm" /\ confirm /\ page' \in {"confirm", "scan"}
                        => UNCHANGED <<shown, account>>]_vars
  <2> SUFFICES ASSUME Next, page = "confirm", page' \in {"confirm", "scan"}
               PROVE  UNCHANGED <<shown, account>>
    OBVIOUS
  <2>1. ASSUME NEW i \in DOMAIN asks, Answered(i) PROVE UNCHANGED <<shown, account>>
    <3>1. ASSUME NEW lg, NEW type, NEW auto, NEW q \in {"basic", "normal"},
                 Detected(lg, type, auto, q)
          PROVE  FALSE
      BY <3>1 DEF Detected, Enter
    <3>2. QED
      BY <2>1, <3>1 DEF Answered, DetectAnswered, FillAnswered, AskFails
  <2>2. ASSUME NEW i \in DOMAIN polls, Polled(i) PROVE UNCHANGED <<shown, account>>
    BY <2>2 DEF Polled, Posted, Attempt
  <2>3. CASE User \/ Timer
    <3>1. ~Reload
      BY DEF Reload
    <3>2. QED
      BY <2>3, <3>1
         DEF User, Timer, Walk, TypeTarget, SelectTarget, SendRequest, EditAccount, BasicNext, Prev,
             ChooseLogtype, TypeLogin, SelectLogin, NormalNext, PicPrev, PicNext, Tick, Cancel, Submit,
             SuggestionAppear, SuggestionDisappear
  <2>4. QED
    BY <2>1, <2>2, <2>3 DEF Next
<1>2. QED
  BY <1>1, PTL DEF Spec, ConsentIsForThis
=============================================================================
