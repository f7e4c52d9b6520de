---------------------------- MODULE ScanModules ----------------------------
(***************************************************************************)
(* What happens inside one Caroline node between run_scan and the mail:    *)
(* core/module_executor.rb (gen_exec_list, execute), core/module.rb (the   *)
(* report every module writes to), the run method of every test module,    *)
(* modules/render.rb and core/postman.rb (send_report).                    *)
(*                                                                         *)
(* Framework creates one instance of every module per process, and all     *)
(* scans share it: what a run leaves in its instance variables             *)
(* (@session_data, @seen_before, @lists, @session_id) the next scan finds. *)
(* A run is atomic here; it is given by the set of its possible outcomes.  *)
(***************************************************************************)
EXTENDS Naturals, FiniteSets

CONSTANTS
  Checks,       \* the test modules a user may select, by file name
  MaxScans,     \* bound: scans taken up by this node
  MaxSelected,  \* bound: modules selected for one scan
  MaxCrashes    \* bound: exits of the process in the middle of a scan

AllChecks ==
  {"access_admin", "anti_reflection", "bruteforce", "cookie_attr_check",
   "corss", "frame_busting", "method_check", "mime_type_check",
   "passwd_auto_complete", "path_traversal", "redir", "reverse_cookie",
   "session_exposed_in_url", "session_fixation", "sqli", "ssl_check", "xssi"}

System  == {"autologin", "crawler", "snks", "setup", "sitemap"}
Modules == AllChecks \cup System
Keepers == Modules \ {"autologin", "crawler", "setup"}  \* the others keep nothing
Scans   == 1..MaxScans
Choices == {choice \in SUBSET Checks : Cardinality(choice) <= MaxSelected}

ASSUME ModulesAssumption ==
  /\ Checks \subseteq AllChecks
  /\ MaxScans \in Nat \ {0} /\ MaxSelected \in Nat /\ MaxCrashes \in Nat

\* Session data: the scan whose crawl it holds, and whether it has a 'sitemap'.
Sessions == [of : 0..MaxScans, map : BOOLEAN]
Nil      == [of |-> 0, map |-> FALSE]

Calls    == {"list", "advise", "warn", "abstain", "error"}
Findings == Modules \X {"advise", "warn"} \X (0..MaxScans)

VARIABLES
  pc,       \* "idle", "modules", "zip", "deliver", "remove"
  scan,     \* number of the scan in progress, or of the last one
  selected, \* modules the user selected for it
  todo,     \* modules of its execute list that have not run yet
  store,    \* @datastore: session, crawler output, target
  report,   \* @datastore['advice_report']
  page,     \* what Renderer made of it
  sess,     \* @session_data of each module instance
  seen,     \* @seen_before of each module instance
  lists,    \* @lists of each instance: the scans its list items come from
  sid,      \* the scan @session_id of SessionExposedInUrl was found in
  zip,      \* files in report/report.zip
  mail,     \* the report mail of the scan: subject and attached files
  failed,   \* history: Keepers whose last run raised or reported an error
  doubt,    \* history: failed, as it was when the scan began
  unsent,   \* history: scans whose send_report did not come to its end
  crashes   \* number of crashes so far

instances == <<sess, seen, lists, sid, failed>>
dataVars  == <<selected, todo, store, report, page, doubt>>
mailVars  == <<zip, mail, unsent>>
vars == <<pc, scan, dataVars, instances, mailVars, crashes>>

FreshStore == [session |-> Nil, crawl |-> FALSE, target |-> FALSE]
NoReport   == [on |-> FALSE, modules |-> {}, findings |-> {}, lists |-> {}, errors |-> {}]
NoPage     == [state |-> "none", html |-> FALSE, shown |-> {}, counted |-> {}]
NoMail     == [subject |-> "none", files |-> {}]

Init ==
  /\ pc = "idle" /\ scan = 0 /\ selected = {} /\ todo = {} /\ doubt = {}
  /\ store = FreshStore /\ report = NoReport /\ page = NoPage
  /\ sess  = [m \in Modules |-> Nil]
  /\ seen  = [m \in Modules |-> FALSE]
  /\ lists = [m \in Modules |-> {}]
  /\ sid = 0 /\ zip = {} /\ mail = NoMail
  /\ failed = {} /\ unsent = {} /\ crashes = 0

\* The executor of a scan, its @datastore and its mail are forgotten.
Forget ==
  /\ pc' = "idle"
  /\ selected' = {} /\ todo' = {} /\ doubt' = {}
  /\ store' = FreshStore /\ report' = NoReport /\ page' = NoPage /\ mail' = NoMail

-----------------------------------------------------------------------------
(* The outcomes of a module's run: its calls of the report, the session it *)
(* leaves in @session_data, whether it raised (the executor then skips     *)
(* clean), and @datastore and @session_id afterwards.                      *)

Done(calls, left) ==
  [calls |-> calls, left |-> left, raised |-> FALSE, store |-> store, sid |-> sid]
Raised(left)   == [Done({}, left) EXCEPT !.raised = TRUE]
Writing(o, s)  == [o EXCEPT !.store = s]
AllOf(S, left) == {Done(calls, left) : calls \in S}

\* @session_data = @datastore['session'] if @session_data == nil
Loaded(m) == IF sess[m] = Nil THEN store.session ELSE sess[m]

\* It overwrites the config with another valid one, which is no matter here.
Autologin == {Done({}, Nil), Raised(Nil)}

\* Without mitmdump or phantomjs it returns, without output of both merge fails.
Crawler ==
  {Raised(Nil)} \cup {Writing(Done({}, Nil), [store EXCEPT !.crawl = c]) : c \in BOOLEAN}

\* The run keeps what it parsed until the end.  If the merge failed it goes on
\* with what an earlier run has left, but not to the end.
Snks ==
  LET own == [of |-> scan, map |-> FALSE]
  IN IF store.crawl
     THEN {Raised(own), Writing(Done({}, Nil), [store EXCEPT !.session = own])}
     ELSE {Raised(sess["snks"])}

Setup ==
  IF store.session = Nil THEN {Raised(Nil)}
  ELSE {Writing(Done({}, Nil), [store EXCEPT !.target = TRUE])}

\* A mistake: no reset of @session_data at the end.
SitemapKeepingSession(L) ==
  {Raised(L)} \cup
  (IF L = Nil \/ ~ store.target THEN {}
   ELSE {Done({}, L),
         Writing(Done({"list"}, L), [store EXCEPT !.session = [L EXCEPT !.map = TRUE]])})

\* Writes back the session it works on, which may be one it has kept.
Sitemap(L) ==
  {Raised(L)} \cup
  (IF L = Nil \/ ~ store.target THEN {}
   ELSE {Done({}, Nil),
         Writing(Done({"list"}, Nil), [store EXCEPT !.session = [L EXCEPT !.map = TRUE]])})

AccessAdmin(L) ==
  IF L = Nil THEN {Done({}, Nil)}
  ELSE AllOf({{"abstain"}, {"list", "warn"}}, Nil) \cup {Raised(L)}

AntiReflection(L) ==
  IF L = Nil THEN {Done({"abstain", "error"}, Nil)}
  ELSE AllOf({{"abstain"}, {"abstain", "advise"}, {"abstain", "error"}}, Nil)

Bruteforce(L) ==
  IF L = Nil THEN {Done({"abstain", "error"}, Nil)}
  ELSE AllOf({{"abstain"}, {"abstain", "advise"}, {"abstain", "error"}}, Nil)

CookieAttrCheck(L) ==
  IF L = Nil THEN {Done({}, Nil)}
  ELSE AllOf({{"abstain"}, {"advise"}, {"error", "abstain"}}, Nil)

\* A mistake: it lists the plain URLs before it raises.
CorssListingFirst(L) ==
  {Raised(L)} \cup
  (IF L = Nil THEN {}
   ELSE AllOf({{"abstain"}, {"list", "warn"}, {"error"}}, Nil)
          \cup {[Raised(L) EXCEPT !.calls = {"list"}]})

\* allow_oth holds arrays, which have no split: it raises on the first of them.
Corss(L) ==
  {Raised(L)} \cup
  (IF L = Nil THEN {}
   ELSE AllOf({{"abstain"}, {"list", "warn"}, {"error"}}, Nil))

\* After an error it returns without the reset.
FrameBusting(L) ==
  {Done({"error"}, L)} \cup
  (IF L = Nil THEN {} ELSE AllOf({{"abstain"}, {"list", "advise"}}, Nil))

\* Likewise; a session without 'sitemap' is always an error.
MethodCheck(L) ==
  {Done({"error"}, L)} \cup
  (IF ~ L.map THEN {} ELSE AllOf({{"abstain"}, {"list", "advise"}}, Nil))

MimeTypeCheck(L) ==
  {Done({"error", "abstain"}, Nil)} \cup
  (IF L = Nil THEN {} ELSE AllOf({{"abstain"}, {"list", "advise"}}, Nil))

PasswdAutoComplete == AllOf({{"abstain"}, {"error"}, {"advise"}}, Nil)

PathTraversal(L) ==
  {Raised(L)} \cup
  (IF L = Nil THEN {} ELSE AllOf({{"abstain"}, {"list", "warn"}, {"error"}}, Nil))

\* A mistake: no abstain to begin with.
RedirWithoutAbstain(L) ==
  {Done({"error"}, Nil)} \cup (IF L = Nil THEN {} ELSE AllOf({{}, {"warn"}}, Nil))

Redir(L) ==
  {Done({"abstain", "error"}, Nil)} \cup
  (IF L = Nil THEN {} ELSE AllOf({{"abstain"}, {"abstain", "warn"}}, Nil))

ReverseCookie(L) ==
  IF L = Nil THEN {Done({"error"}, Nil)}
  ELSE AllOf({{"abstain"}, {"advise"}, {"error", "abstain"}, {"error", "advise"}}, Nil)

\* @session_id is set when it is detected and never reset.
SessionExposedInUrl(L) ==
  {Raised(L)} \cup
  (IF L = Nil THEN {}
   ELSE UNION {
     {[Done(calls, Nil) EXCEPT !.sid = id] :
        calls \in {{"abstain"}} \cup
          (IF id = 0 THEN {}
           ELSE {{"list", "warn"}, {"error", "abstain"}, {"error", "list", "warn"}})} :
     id \in {sid, L.of}})

\* result is still nil if the session cannot be parsed, and that is no "true".
SessionFixation(L) ==
  IF L = Nil THEN {Done({"error", "warn"}, Nil)}
  ELSE AllOf({{"abstain"}, {"warn"}, {"error", "abstain"}}, Nil)

Sqli(L) ==
  {Done({"error"}, Nil)} \cup
  (IF L = Nil THEN {} ELSE AllOf({{"abstain"}, {"list", "warn"}}, Nil))

SslCheck == AllOf({{"abstain"}, {"advise"}, {"error", "abstain"}}, Nil)

Xssi ==
  IF ~ store.target THEN {Done({"error"}, Nil)}
  ELSE AllOf({{"abstain"}, {"list", "warn"}, {"error", "abstain"},
              {"error", "list", "warn"}}, Nil)

Outcomes(m) ==
  CASE m = "autologin"              -> Autologin
    [] m = "crawler"                -> Crawler
    [] m = "snks"                   -> Snks
    [] m = "setup"                  -> Setup
    [] m = "sitemap"                -> Sitemap(Loaded(m))
    [] m = "access_admin"           -> AccessAdmin(Loaded(m))
    [] m = "anti_reflection"        -> AntiReflection(Loaded(m))
    [] m = "bruteforce"             -> Bruteforce(Loaded(m))
    [] m = "cookie_attr_check"      -> CookieAttrCheck(Loaded(m))
    [] m = "corss"                  -> Corss(Loaded(m))
    [] m = "frame_busting"          -> FrameBusting(Loaded(m))
    [] m = "method_check"           -> MethodCheck(Loaded(m))
    [] m = "mime_type_check"        -> MimeTypeCheck(Loaded(m))
    [] m = "passwd_auto_complete"   -> PasswdAutoComplete
    [] m = "path_traversal"         -> PathTraversal(Loaded(m))
    [] m = "redir"                  -> Redir(Loaded(m))
    [] m = "reverse_cookie"         -> ReverseCookie(Loaded(m))
    [] m = "session_exposed_in_url" -> SessionExposedInUrl(Loaded(m))
    [] m = "session_fixation"       -> SessionFixation(Loaded(m))
    [] m = "sqli"                   -> Sqli(Loaded(m))
    [] m = "ssl_check"              -> SslCheck
    [] m = "xssi"                   -> Xssi

\* The scans a finding of m with outcome o is about.
Origins(m, o) ==
  CASE m \in {"passwd_auto_complete", "ssl_check"} -> {scan}
    [] m = "xssi"                                  -> {store.session.of}
    [] m = "session_exposed_in_url"                -> {Loaded(m).of, o.sid}
    [] OTHER                                       -> {Loaded(m).of}

-----------------------------------------------------------------------------
(* core/module.rb: register_if_needed, create_or_fetch_list, advise, warn, *)
(* list, abstain and error, for all calls of one run.                      *)

Register(m, o) ==
  LET first == o.calls # {} /\ ~ seen[m]
      old   == IF first THEN {} ELSE lists[m]
      needs == o.calls \cap {"list", "advise", "warn"} # {}
      new   == IF "list" \in o.calls THEN old \cup Origins(m, o) ELSE old
  IN /\ seen' = [seen EXCEPT ![m] = o.raised /\ (@ \/ first)]
     /\ lists' = [lists EXCEPT ![m] = new]
     /\ report' =
          IF o.calls = {} THEN report
          ELSE [on |-> TRUE,
                modules  |-> IF first THEN report.modules \cup {m} ELSE report.modules,
                findings |-> report.findings \cup
                             ({m} \X (o.calls \cap {"advise", "warn"}) \X Origins(m, o)),
                lists    |-> IF first /\ needs THEN report.lists \cup {m} ELSE report.lists,
                errors   |-> IF "error" \in o.calls THEN report.errors \cup {m}
                                                    ELSE report.errors]

\* group_priority and priority; the order of equal ones is left open.
Rank(m) ==
  CASE m = "autologin" -> 0 [] m = "crawler" -> 1 [] m = "snks" -> 2
    [] m = "setup" -> 3 [] m = "sitemap" -> 4 [] OTHER -> 10

\* gen_exec_list (a selection of everything is gen_exec_list_all) and the
\* beginning of execute: a new @datastore, no report.
StartScan(choice) ==
  /\ pc = "idle" /\ scan < MaxScans
  /\ pc' = "modules" /\ scan' = scan + 1
  /\ selected' = choice /\ todo' = choice \cup System
  /\ doubt' = failed
  /\ UNCHANGED <<store, report, page, instances, mailVars, crashes>>

\* modules[name].datastore = @datastore; run; clean -- which is skipped on raise.
RunModule(m) ==
  /\ pc = "modules" /\ m \in todo
  /\ \A x \in todo : Rank(m) <= Rank(x)
  /\ \E o \in Outcomes(m) :
       /\ Register(m, o)
       /\ sess'   = [sess EXCEPT ![m] = o.left]
       /\ store'  = o.store
       /\ sid'    = o.sid
       /\ failed' = IF o.raised \/ "error" \in o.calls
                    THEN failed \cup ({m} \cap Keepers) ELSE failed \ {m}
  /\ todo' = todo \ {m}
  /\ UNCHANGED <<pc, scan, selected, page, doubt, mailVars, crashes>>

\* A finding is shown if its directory has a template named after its file.
Templates ==
  ({"anti_reflection", "bruteforce", "cookie_attr_check", "corss", "frame_busting",
    "method_check", "mime_type_check", "reverse_cookie", "ssl_check"} \X {"advise"})
  \cup
  ({"access_admin", "corss", "path_traversal", "session_exposed_in_url",
    "session_fixation", "sqli", "xssi"} \X {"warn"})

\* Renderer is the last of the list.  A template may raise, and the file may
\* not be written, which is rescued.
Render ==
  /\ pc = "modules" /\ todo = {}
  /\ pc' = "zip"
  /\ IF ~ report.on THEN UNCHANGED page
     ELSE \/ page' = [NoPage EXCEPT !.state = "raised"]
          \/ \E written \in BOOLEAN :
               page' = [state   |-> "rendered",
                        html    |-> written,
                        shown   |-> {f \in report.findings : <<f[1], f[2]>> \in Templates},
                        counted |-> report.findings]
  /\ UNCHANGED <<scan, selected, todo, store, report, doubt, instances, mailVars, crashes>>

-----------------------------------------------------------------------------
(* Postman.send_report.                                                    *)

OwnFiles == {<<scan, "log">>} \cup (IF page.html THEN {<<scan, "html">>} ELSE {})

\* zip -qj adds to the archive if there is one; it may fail.
Zip ==
  /\ pc = "zip" /\ pc' = "deliver"
  /\ zip' \in {zip, zip \cup OwnFiles}
  /\ unsent' = unsent \cup {scan}
  /\ UNCHANGED <<scan, dataVars, instances, mail, crashes>>

Deliver ==
  /\ pc = "deliver" /\ pc' = "remove"
  /\ zip # {}
  /\ mail' = [subject |-> IF report.on THEN "ready" ELSE "problem", files |-> zip]
  /\ UNCHANGED <<scan, dataVars, instances, zip, unsent, crashes>>

\* add_file raises without an archive, delivery may raise: rescued by execute.
DeliverFails ==
  /\ pc = "deliver" /\ Forget
  /\ UNCHANGED <<scan, instances, zip, unsent, crashes>>

\* A mistake: the archive is taken for removed.
RemoveNothing ==
  /\ pc = "remove" /\ Forget
  /\ unsent' = unsent \ {scan}
  /\ UNCHANGED <<scan, instances, zip, crashes>>

\* FileUtils.rm; its error is rescued too.
Remove ==
  /\ pc = "remove" /\ Forget
  /\ \/ zip' = {} /\ unsent' = unsent \ {scan}
     \/ UNCHANGED <<zip, unsent>>
  /\ UNCHANGED <<scan, instances, crashes>>

\* The process ends; carolined starts another one, with new module instances.
Crash ==
  /\ pc # "idle" /\ crashes < MaxCrashes
  /\ crashes' = crashes + 1
  /\ Forget
  /\ sess'  = [m \in Modules |-> Nil]
  /\ seen'  = [m \in Modules |-> FALSE]
  /\ lists' = [m \in Modules |-> {}]
  /\ sid' = 0 /\ failed' = {}
  /\ UNCHANGED <<scan, zip, unsent>>

Next ==
  \/ \E choice \in Choices : StartScan(choice)
  \/ \E m \in Modules : RunModule(m)
  \/ Render \/ Zip \/ Deliver \/ DeliverFails \/ Remove \/ Crash

Spec == Init /\ [][Next]_vars

-----------------------------------------------------------------------------
TypeOK ==
  /\ pc \in {"idle", "modules", "zip", "deliver", "remove"}
  /\ scan \in 0..MaxScans
  /\ selected \in SUBSET Checks /\ todo \in SUBSET Modules
  /\ store \in [session : Sessions, crawl : BOOLEAN, target : BOOLEAN]
  /\ report \in [on : BOOLEAN, modules : SUBSET Modules, findings : SUBSET Findings,
                 lists : SUBSET Modules, errors : SUBSET Modules]
  /\ report.lists \cup report.errors \cup {f[1] : f \in report.findings} \subseteq report.modules
  /\ page \in [state : {"none", "raised", "rendered"}, html : BOOLEAN,
               shown : SUBSET Findings, counted : SUBSET Findings]
  /\ sess \in [Modules -> Sessions]
  /\ seen \in [Modules -> BOOLEAN]
  /\ lists \in [Modules -> SUBSET (0..MaxScans)]
  /\ sid \in 0..MaxScans
  /\ zip \in SUBSET (Scans \X {"html", "log"})
  /\ mail \in [subject : {"none", "ready", "problem"},
               files : SUBSET (Scans \X {"html", "log"})]
  /\ failed \in SUBSET Modules /\ doubt \in SUBSET Modules
  /\ unsent \in SUBSET Scans /\ crashes \in 0..MaxCrashes

\* A session survives a run only in the instance of a module whose run raised
\* or reported an error: every regular way out of a run resets @session_data.
SessionKeptOnlyAfterFailure == \A m \in Modules : sess[m] # Nil => m \in failed

\* No module raises once it has registered in the report: @seen_before, which
\* clean resets and a raise does not, never survives a run.
EveryRunRegistersAfresh == \A m \in Modules : ~ seen[m]

\* A report is about its own scan.  A finding or a list item of another scan
\* gets into it in three ways only: the module failed in its previous run and
\* kept that session, Sitemap did and wrote it back, or it is
\* SessionExposedInUrl, which never forgets a session id.  (A finding of scan 0
\* is about no scan: the warning of a check of session fixation that had nothing
\* to check.)
Foreign(m) == \/ \E f \in report.findings : f[1] = m /\ f[3] \notin {0, scan}
              \/ m \in report.modules /\ lists[m] \ {0, scan} # {}

ForeignFindingsExplained ==
  \A m \in Modules : Foreign(m) => {m, "sitemap"} \cap doubt # {}
                                   \/ m = "session_exposed_in_url"

\* A selected module is missing from the "Tested modules" of the report only
\* if it raised, or is one of the two that give up silently without a session.
OmittedOnlyIfFailed ==
  pc = "zip" => \A m \in selected \ report.modules :
    m \in failed \/ (m \in {"access_admin", "cookie_attr_check"} /\ store.session = Nil)

\* A mail contains files of another scan only if sending that scan's own report
\* did not come to its end: delivery raised, rm failed, or the process died.
AttachmentsExplained ==
  \A f \in zip \cup mail.files : f[1] \in unsent

-----------------------------------------------------------------------------
(* What the texts of the repository say of a report.                       *)

\* docs/FEATURES.md:19 and :28 list "URL Redirection" and "Password
\* Auto-complete" among the checks.  A finding that is counted is shown.
FindingsAreShown == page.state = "rendered" => page.shown = page.counted
=============================================================================
