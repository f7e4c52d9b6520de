------------------------------- MODULE Wizard -------------------------------
(***************************************************************************)
(* webconsole/public/js/controllers: the pages that lead from an address   *)
(* to a scan.  All of them share $scope.state; a page has a controller,    *)
(* which is made anew whenever the page is entered, but whose pending      *)
(* requests and timers outlive it and write into the shared state.  The    *)
(* server (config.ru and what is behind it) is what answers requests, in   *)
(* any order; the user does what the pages let him do, and may go past the *)
(* buttons and their checks, by the browser's history or address bar.      *)
(***************************************************************************)
EXTENDS Integers, SequencesExt

CONSTANTS
  Sites,     \* the hosts the user may want to scan
  NoSite,
  Inputs,    \* the texts the user types
  MaxTries,  \* attempts to fetch the screenshot, 31 in the code
  MaxWalks   \* bound on the steps past the buttons

(* A text is what is in an input for an address: nothing, a beginning of   *)
(* "http://", a host without a scheme, or a whole address.                 *)
Empty     == [form |-> "empty", site |-> NoSite]
Prefix    == [form |-> "prefix", site |-> NoSite]
Bare(s)   == [form |-> "bare", site |-> s]
Url(s)    == [form |-> "url", site |-> s]
Texts     == {Empty, Prefix} \cup {Bare(s) : s \in Sites} \cup {Url(s) : s \in Sites}
NoPic     == [form |-> "none", site |-> NoSite]     \* url:'d5244fa09c0f'
Pages     == {"welcome", "basic", "normal", "getpic", "confirm", "scan"}

ASSUME WizardAssumption ==
  /\ NoSite \notin Sites /\ Inputs \subseteq Texts
  /\ MaxTries \in Nat /\ MaxWalks \in Nat

VARIABLES
  page, walks,           \* $location, and how often it was changed past the buttons
  target, login,         \* state.target, state.login
  logtype, auto_detect, whitelist,
  account,               \* whether there is a user name, and the password twice
  valid,                 \* TRUE after the login has been found wrong
  refused,               \* state.valid_user or state.valid_pass
  getting_pic, pic,      \* pic.asked: for which login pic.data was asked for
  confirm,
  working,               \* working_flag
  suggest,               \* need_suggest, suggestion1 and suggestion2
  late,                  \* the timer of suggestion_appear: "no", "set", or "up"
                         \*   once it has put up the list, until text is typed
  asks,                  \* /login_detect and /login_fill, not yet answered
  polls                  \* the requests for screenshots

shown   == <<target, login, logtype, auto_detect, whitelist>>
flags   == <<valid, refused>>
picture == <<getting_pic, pic, polls>>
control == <<working, suggest, late>>
place   == <<page, walks, confirm>>
vars    == <<place, shown, account, flags, picture, control, asks>>

\* Each controller has suggestions of its own.
NoSuggestion(p) == [need |-> FALSE, text |-> IF p = "normal" THEN Prefix ELSE Empty]

Init ==
  /\ page = "welcome" /\ walks = 0 /\ confirm = FALSE
  /\ target = Empty /\ login = Empty /\ logtype = "none" /\ auto_detect = FALSE /\ whitelist = NoSite
  /\ account = FALSE
  /\ valid = FALSE /\ refused = FALSE
  /\ getting_pic = TRUE /\ pic = [url |-> NoPic, asked |-> NoPic] /\ polls = <<>>
  /\ working = FALSE /\ suggest = NoSuggestion("welcome") /\ late = "no"
  /\ asks = <<>>

-----------------------------------------------------------------------------
(* Going to a page: action.nav, the router, and the first run of the       *)
(* page's controller.                                                      *)

\* graphicController: a picture is asked for unless there is one.  (No step into the
\* page changes the login.)
EnterGetpic ==
  IF pic.url = login
  THEN getting_pic' = FALSE /\ UNCHANGED <<pic, polls>>
  ELSE /\ getting_pic' = TRUE
       /\ polls' = Append(polls, [asked |-> login, tries |-> 0, posted |-> FALSE])
       /\ UNCHANGED pic

\* Going where one is already does nothing.
Enter(q) ==
  /\ page' = q
  /\ IF q = page THEN UNCHANGED <<confirm, control, picture>>
     ELSE /\ confirm' = (confirm /\ q = "scan")      \* nothing else reads it
          /\ working' = FALSE
          /\ suggest' = NoSuggestion(q)
          /\ late' = IF q # "welcome" /\ late = "up" THEN "up" ELSE "no"
          /\ IF q = "getpic" THEN EnterGetpic ELSE UNCHANGED picture

\* Back, Forward, or another "#/..." in the address bar.  Leaving /scan is turned
\* into a reload.
Walk ==
  /\ page # "scan" /\ walks < MaxWalks
  /\ walks' = walks + 1
  /\ \E q \in Pages \ {page} : Enter(q)
  /\ UNCHANGED <<shown, account, flags, asks>>

\* The document is loaded anew: by the user, the logo, or for leaving /scan
\* ($locationChangeStart), and once more if its path is not "/".
Reload ==
  /\ page' = "welcome" /\ walks' = 0 /\ confirm' = FALSE
  /\ target' = Empty /\ login' = Empty /\ logtype' = "none" /\ auto_detect' = FALSE /\ whitelist' = NoSite
  /\ account' = FALSE
  /\ valid' = FALSE /\ refused' = FALSE
  /\ getting_pic' = TRUE /\ pic' = [url |-> NoPic, asked |-> NoPic] /\ polls' = <<>>
  /\ working' = FALSE /\ suggest' = NoSuggestion("welcome") /\ late' = "no"
  /\ asks' = <<>>

-----------------------------------------------------------------------------
(* welcome.html and detect.js.                                             *)

\* check_input on the text t.
Checked(t) ==
  IF t.form = "bare" THEN [need |-> TRUE, text |-> Url(t.site)] ELSE [suggest EXCEPT !.need = FALSE]
\* A mistake: the input stays writable during the detection.
AlwaysWritable == TRUE

\* $('input').attr('readonly', true)
Writable == ~working

TypeTarget ==
  /\ page = "welcome" /\ Writable
  /\ \E t \in Inputs : target' = t /\ suggest' = Checked(t)
  /\ late' = IF late = "up" THEN "no" ELSE late
  /\ UNCHANGED <<place, login, logtype, auto_detect, whitelist, account, flags, picture, working, asks>>

\* select_http and select_https, and the arrow keys, which do not check the input.
SelectTarget ==
  /\ page = "welcome" /\ suggest.need
  /\ target' = suggest.text
  /\ \/ target # Empty /\ suggest' = Checked(suggest.text)
     \/ UNCHANGED suggest
  /\ UNCHANGED <<place, login, logtype, auto_detect, whitelist, account, flags, picture, working, late, asks>>

\* suggestion_disappear, a moment after the input has lost the focus.
SuggestionDisappear ==
  /\ suggest.need
  /\ suggest' = [suggest EXCEPT !.need = FALSE]
  /\ UNCHANGED <<place, shown, account, flags, picture, working, late, asks>>

\* suggestion_appear, 150 ms after a request that was refused.
SuggestionAppear ==
  /\ page = "welcome" /\ late = "set"
  /\ suggest' = [suggest EXCEPT !.need = TRUE]
  /\ late' = "up"
  /\ UNCHANGED <<place, shown, account, flags, picture, working, asks>>

SendRequest ==
  /\ page = "welcome" /\ ~working
  /\ login' = Empty /\ account' = FALSE              \* clear_userinfo
  /\ IF target.form = "url"
     THEN /\ working' = TRUE
          /\ whitelist' = target.site
          /\ asks' = Append(asks, [kind |-> "detect", site |-> target.site])
          /\ UNCHANGED late
     ELSE /\ late' = IF target = Empty THEN late ELSE "set"
          /\ UNCHANGED <<working, whitelist, asks>>
  /\ UNCHANGED <<place, target, logtype, auto_detect, flags, picture, suggest>>

\* A mistake: the answer is kept, but the page is not left.
DetectedQuietly(lg, type, auto, q) ==
  /\ login' = lg /\ logtype' = type /\ auto_detect' = auto
  /\ Enter(page)
  /\ UNCHANGED <<walks, target, whitelist, account, flags>>

\* What an answer says is kept, and the next page is q.
Detected(lg, type, auto, q) ==
  /\ login' = lg /\ logtype' = type /\ auto_detect' = auto
  /\ Enter(q)
  /\ UNCHANGED <<walks, target, whitelist, account, flags>>

\* A mistake: auto_detect is not reset.
StillDetected == auto_detect

\* state.auto_detect after a detection that has found nothing.
NothingDetected == FALSE

\* /login_detect: basic authentication, a form with a password, or neither.  What
\* the server answers if the target cannot be reached is no JSON and is taken for
\* "neither", so that "valid" is never seen to be "false".  As a login, Url(s) is the
\* address that was found for s, to which a redirect may have led.
DetectAnswered(i) ==
  /\ asks[i].kind = "detect" /\ page # "scan"
  /\ \/ Detected(Url(asks[i].site), "basic", TRUE, "basic") /\ asks' = RemoveAt(asks, i)
     \/ asks' = [asks EXCEPT ![i].kind = "fill"] /\ UNCHANGED <<place, shown, account, flags, picture, control>>
     \/ Detected(login, "none", NothingDetected, "normal") /\ asks' = RemoveAt(asks, i)

\* /login_fill
FillAnswered(i) ==
  /\ asks[i].kind = "fill" /\ page # "scan"
  /\ \/ Detected(Url(asks[i].site), "normal", TRUE, "basic")
     \/ Detected(Url(asks[i].site), "normal", FALSE, "normal")
  /\ asks' = RemoveAt(asks, i)

\* Either of them fails: nothing is undone, not even working_flag.
AskFails(i) ==
  /\ page # "scan"
  /\ asks' = RemoveAt(asks, i)
  /\ UNCHANGED <<place, shown, account, flags, picture, control>>

-----------------------------------------------------------------------------
(* basic.html and loginfo.js, normal.html and manuallogin.js.              *)

EditAccount ==
  /\ page = "basic" \/ (page = "normal" /\ logtype # "none")
  /\ account' \in BOOLEAN
  /\ UNCHANGED <<place, shown, flags, picture, control, asks>>

\* A mistake: a wrong account is refused only the first time.
WrongOnce == ~refused /\ ~account

\* The checks of the user name and the passwords.
Wrong == ~account

BasicNext ==
  /\ page = "basic"
  /\ refused' = Wrong
  /\ IF valid \/ refused' THEN UNCHANGED <<place, picture, control>> ELSE Enter("confirm") /\ UNCHANGED walks
  /\ UNCHANGED <<shown, account, valid, asks>>

\* A mistake: valid is not among the flags the button resets.
StillValid == valid

\* What "Prev" leaves of state.valid: basic.html does not reset it.
ValidAfterPrev == IF page = "basic" THEN valid ELSE FALSE

Prev ==
  /\ page \in {"basic", "normal"}
  /\ refused' = FALSE /\ valid' = ValidAfterPrev
  /\ Enter("welcome")
  /\ UNCHANGED <<walks, shown, account, asks>>

ChooseLogtype ==
  /\ page = "normal"
  /\ logtype' \in {"none", "normal"}
  /\ UNCHANGED <<place, target, login, auto_detect, whitelist, account, flags, picture, control, asks>>

\* check_input of manuallogin.js: no suggestions while errors are shown.
CheckedLogin(t) == IF refused THEN [suggest EXCEPT !.need = FALSE] ELSE Checked(t)

TypeLogin ==
  /\ page = "normal" /\ logtype # "none"
  /\ \E t \in Inputs : login' = t /\ suggest' = CheckedLogin(t)
  /\ valid' = FALSE
  /\ UNCHANGED <<place, target, logtype, auto_detect, whitelist, account, refused, picture, working, late, asks>>

SelectLogin ==
  /\ page = "normal" /\ suggest.need
  /\ login' = suggest.text
  /\ \/ suggest' = CheckedLogin(suggest.text) /\ valid' = FALSE
     \/ UNCHANGED <<suggest, valid>>
  /\ UNCHANGED <<place, target, logtype, auto_detect, whitelist, account, refused, picture, working, late, asks>>

NormalNext ==
  /\ page = "normal"
  /\ IF logtype = "none" THEN Enter("confirm") /\ UNCHANGED <<walks, flags>>
     ELSE /\ valid' = (login.form # "url")
          /\ refused' = Wrong
          /\ IF valid' \/ refused' THEN UNCHANGED <<place, picture, control>>
             ELSE Enter("getpic") /\ UNCHANGED walks
  /\ UNCHANGED <<shown, account, asks>>

-----------------------------------------------------------------------------
(* getpic.html and graphic.js.  The results come to the controller that    *)
(* has asked, wherever the user is by then.                                *)

Gone(i) == polls' = RemoveAt(polls, i)

\* What problem and exhausted have in common.
NoPicture(i, p) == getting_pic' = FALSE /\ pic' = p /\ Gone(i)
Problem(i)      == NoPicture(i, [pic EXCEPT !.url = NoPic])

\* POST /screenshot.
Posted(i) ==
  /\ ~polls[i].posted
  /\ \/ polls' = [polls EXCEPT ![i].posted = TRUE] /\ UNCHANGED <<getting_pic, pic>>
     \/ Problem(i)
  /\ UNCHANGED <<place, shown, account, flags, control, asks>>

\* A mistake: one attempt more.
SpentLate(n) == n > MaxTries

Spent(n) == n >= MaxTries

\* A mistake: getting_pic is left alone.
ExhaustedWaiting(i) == UNCHANGED <<getting_pic, pic>> /\ Gone(i)

Exhausted(i) == NoPicture(i, pic)

\* attempt: a picture, or 404 for "not yet", or anything else; or the end.  The picture
\* is filed under the login of now.  What it shows is up to get_screenshot, which does
\* not look at the id and may answer with the picture of another page (ReturnQueue,
\* PictureIsOfLoginPage): here it is only known whose request was answered.
Attempt(i) ==
  /\ polls[i].posted
  /\ IF Spent(polls[i].tries) THEN Exhausted(i)
     ELSE \/ getting_pic' = FALSE /\ pic' = [url |-> login, asked |-> polls[i].asked] /\ Gone(i)
          \/ polls' = [polls EXCEPT ![i].tries = @ + 1] /\ UNCHANGED <<getting_pic, pic>>
          \/ Problem(i)
  /\ UNCHANGED <<place, shown, account, flags, control, asks>>

\* A mistake: the page can be left before the picture is there.
PrevAlways == TRUE

MayGoBack == ~getting_pic

PicPrev ==
  /\ page = "getpic" /\ MayGoBack
  /\ Enter("normal")
  /\ UNCHANGED <<walks, shown, account, flags, asks>>

PicNext ==
  /\ page = "getpic" /\ pic.url = login
  /\ Enter("confirm")
  /\ UNCHANGED <<walks, shown, account, flags, asks>>

-----------------------------------------------------------------------------
(* confirm.html and confirm.js.                                            *)

Tick ==
  /\ page = "confirm" /\ confirm' = ~confirm
  /\ UNCHANGED <<page, walks, shown, account, flags, picture, control, asks>>

\* action.back
BackPage ==
  IF auto_detect THEN "basic"
  ELSE CASE logtype = "basic"  -> "basic"
         [] logtype = "normal" -> "getpic"
         [] logtype = "none"   -> "normal"

Cancel ==
  /\ page = "confirm"
  /\ refused' = FALSE /\ valid' = FALSE
  /\ Enter(BackPage)
  /\ UNCHANGED <<walks, shown, account, asks>>

\* Next, with an e-mail address that is one; scanController sends the state.
Submit ==
  /\ page = "confirm" /\ confirm
  /\ Enter("scan")
  /\ UNCHANGED <<walks, shown, account, flags, asks>>

-----------------------------------------------------------------------------
User ==
  \/ Walk \/ Reload
  \/ TypeTarget \/ SelectTarget \/ SendRequest
  \/ EditAccount \/ BasicNext \/ Prev
  \/ ChooseLogtype \/ TypeLogin \/ SelectLogin \/ NormalNext
  \/ PicPrev \/ PicNext \/ Tick \/ Cancel \/ Submit
Answered(i)    == DetectAnswered(i) \/ FillAnswered(i) \/ AskFails(i)
Polled(i)      == Posted(i) \/ Attempt(i)
Timer          == SuggestionAppear \/ SuggestionDisappear

Next ==
  \/ User \/ Timer
  \/ \E i \in DOMAIN asks : Answered(i)
  \/ \E i \in DOMAIN polls : Polled(i)

Spec == Init /\ [][Next]_vars

\* Requests are answered, be it with an error, and timers fire.
FairSpec == Spec /\ WF_vars(polls # <<>> /\ Polled(1))

-----------------------------------------------------------------------------
TypeOK ==
  /\ page \in Pages /\ walks \in 0..MaxWalks
  /\ {target, login, suggest.text} \subseteq Texts
  /\ logtype \in {"none", "basic", "normal"}
  /\ whitelist \in Sites \cup {NoSite}
  /\ {auto_detect, account, valid, refused, getting_pic, confirm, working, suggest.need} \subseteq BOOLEAN
  /\ {pic.url, pic.asked} \subseteq Texts \cup {NoPic}
  /\ late \in {"no", "set", "up"}
  /\ working => page = "welcome"
  /\ \A i \in DOMAIN asks : asks[i].kind \in {"detect", "fill"} /\ asks[i].site \in Sites
  /\ \A i \in DOMAIN polls : polls[i].asked \in Texts /\ polls[i].tries \in 0..MaxTries

\* What the pages promise is promised to a user who uses their buttons.
ByButtons == walks = 0

\* A scan with a login is submitted with an address to log in at, a user name, and
\* the password twice.
SubmittedIsComplete ==
  ByButtons /\ page = "scan" /\ logtype # "none" => login.form = "url" /\ account

\* A login that was detected is that of the host whose detection was asked for
\* last, however many detections there were and in whatever order they ended.
LoginIsOfTarget ==
  ByButtons /\ auto_detect /\ page # "welcome" => login = Url(whitelist)

\* The target of a scan is on its whitelist; unless the list of suggestions came up
\* late, over a newer text, and was used during the detection.
TargetIsWhitelisted ==
  ByButtons /\ page # "welcome" => target = Url(whitelist) \/ late = "up"

\* Answers are not filed under a wrong login: the picture that is kept for a manual
\* login came as the answer to a request made for that login, and not to one for a
\* login that was there before.  (Whether the server answered with the page that it
\* was asked for is another question, and it need not.)
PictureAskedForLogin ==
  ByButtons /\ logtype = "normal" /\ ~auto_detect =>
    /\ page = "getpic" /\ pic.url = login => pic.asked = login
    /\ page \in {"confirm", "scan"} => pic = [url |-> login, asked |-> login]

\* An error of another page does not block "Next" on /basic, which does not show it.
BasicNextWorks == ByButtons /\ page = "basic" => ~valid

\* Between the tick and the submission, nothing the page shows changes, not even
\* by the answer to an old request.
ConsentIsForThis ==
  [][page = "confirm" /\ confirm /\ page' \in {"confirm", "scan"} => UNCHANGED <<shown, account>>]_vars

\* The page with the picture does not wait forever: it has buttons again.
PictureIsNotAwaitedForever ==
  (page = "getpic" /\ getting_pic) ~> (page # "getpic" \/ ~getting_pic)
=============================================================================
