------------------------- MODULE ScanModulesProofs -------------------------
(***************************************************************************)
(* Theorems about ScanModules: for every set of checks, any number of      *)
(* scans and any number of exits of the process.                           *)
(***************************************************************************)
EXTENDS ScanModules, TLAPS

StoreType == [session : Sessions, crawl : BOOLEAN, target : BOOLEAN]

OutcomeType ==
  [calls : SUBSET Calls, left : Sessions, raised : BOOLEAN, store : StoreType, sid : 0..MaxScans]

\* What all modules have in common: a run that raises has made no report call
\* before, and a session is left only by a run that raised or reported an error.
Orderly(o) ==
  /\ o.raised => o.calls = {}
  /\ o.left # Nil => o.raised \/ "error" \in o.calls

-----------------------------------------------------------------------------
\* The empty session is one of the sessions.
LEMMA NilType == Nil \in Sessions
  BY ModulesAssumption DEF Nil, Sessions

\* The constructors of outcomes.
LEMMA DoneFacts ==
  ASSUME store \in StoreType, sid \in 0..MaxScans,
         NEW calls \in SUBSET Calls, NEW left \in Sessions
  PROVE  /\ Done(calls, left) \in OutcomeType
         /\ left = Nil \/ "error" \in calls => Orderly(Done(calls, left))
         /\ Done(calls, left).calls = calls /\ Done(calls, left).left = left
         /\ Done(calls, left).raised = FALSE
  BY DEF Done, OutcomeType, Orderly

\* A run that raises leaves its session and calls nothing.
LEMMA RaisedFacts ==
  ASSUME store \in StoreType, sid \in 0..MaxScans, NEW left \in Sessions
  PROVE  /\ Raised(left) \in OutcomeType /\ Orderly(Raised(left))
         /\ Raised(left).left = left
  BY DEF Raised, Done, OutcomeType, Orderly, Calls

\* Changing @datastore alone does not disturb what an outcome promises.
LEMMA WritingFacts ==
  ASSUME NEW o \in OutcomeType, Orderly(o), NEW s \in StoreType
  PROVE  Writing(o, s) \in OutcomeType /\ Orderly(Writing(o, s))
  BY DEF Writing, OutcomeType, Orderly

-----------------------------------------------------------------------------
(* The modules that get their outcomes from AllOf, Done and Raised only.   *)

\* The system modules before the checks.
LEMMA SystemOutcomes ==
  ASSUME store \in StoreType, sid \in 0..MaxScans, scan \in 0..MaxScans,
         sess \in [Modules -> Sessions], NEW L \in Sessions,
         NEW o \in Autologin \cup Crawler \cup Snks \cup Setup \cup Sitemap(L)
  PROVE  o \in OutcomeType /\ Orderly(o)
<1>0. /\ Done({}, Nil) \in OutcomeType /\ Orderly(Done({}, Nil))
      /\ Raised(Nil) \in OutcomeType /\ Orderly(Raised(Nil))
      /\ Raised(L) \in OutcomeType /\ Orderly(Raised(L))
  BY DoneFacts, RaisedFacts, NilType
<1>1. CASE o \in Autologin
  BY <1>0, <1>1 DEF Autologin
<1>2. CASE o \in Crawler
  <2>1. ASSUME NEW c \in BOOLEAN
        PROVE  LET w == Writing(Done({}, Nil), [store EXCEPT !.crawl = c])
               IN  w \in OutcomeType /\ Orderly(w)
    BY DoneFacts, WritingFacts, NilType DEF StoreType
  <2>2. QED
    BY <1>2, <2>1, RaisedFacts, NilType DEF Crawler
<1>3. CASE o \in Snks
  <2> DEFINE own == [of |-> scan, map |-> FALSE]
  <2>1. own \in Sessions
    BY DEF Sessions
  <2>2. sess["snks"] \in Sessions
    BY DEF Modules, System
  <2>3. [store EXCEPT !.session = own] \in StoreType
    BY <2>1 DEF StoreType
  <2>4. Writing(Done({}, Nil), [store EXCEPT !.session = own]) \in OutcomeType
        /\ Orderly(Writing(Done({}, Nil), [store EXCEPT !.session = own]))
    BY <2>3, DoneFacts, WritingFacts, NilType
  <2> HIDE DEF own
  <2>5. o \in {Raised(own), Raised(sess["snks"]),
               Writing(Done({}, Nil), [store EXCEPT !.session = own])}
    BY <1>3 DEF Snks, own
  <2>6. QED
    BY <2>1, <2>2, <2>4, <2>5, RaisedFacts
<1>4. CASE o \in Setup
  <2>1. LET w == Writing(Done({}, Nil), [store EXCEPT !.target = TRUE])
        IN  w \in OutcomeType /\ Orderly(w)
    BY DoneFacts, WritingFacts, NilType DEF StoreType
  <2>2. QED
    BY <1>4, <2>1, RaisedFacts, NilType DEF Setup
<1>5. CASE o \in Sitemap(L)
  <2> DEFINE s == [store EXCEPT !.session = [L EXCEPT !.map = TRUE]]
  <2>1. s \in StoreType
    BY DEF StoreType, Sessions
  <2>2. Writing(Done({"list"}, Nil), s) \in OutcomeType
        /\ Orderly(Writing(Done({"list"}, Nil), s))
    BY <2>1, DoneFacts, WritingFacts, NilType DEF Calls
  <2> HIDE DEF s
  <2>3. o \in {Raised(L), Done({}, Nil), Writing(Done({"list"}, Nil), s)}
    BY <1>5 DEF Sitemap, s
  <2>4. QED
    BY <1>0, <2>2, <2>3
<1>6. QED
  BY <1>1, <1>2, <1>3, <1>4, <1>5

\* SessionExposedInUrl, which alone sets @session_id.
LEMMA SessionExposedOutcomes ==
  ASSUME store \in StoreType, sid \in 0..MaxScans, NEW L \in Sessions,
         NEW o \in SessionExposedInUrl(L)
  PROVE  o \in OutcomeType /\ Orderly(o)
<1>1. CASE o = Raised(L)
  BY <1>1, RaisedFacts
<1>2. CASE o # Raised(L)
  <2>1. PICK id \in {sid, L.of}, calls \in SUBSET Calls :
          o = [Done(calls, Nil) EXCEPT !.sid = id]
    BY <1>2 DEF SessionExposedInUrl, Calls
  <2>2. id \in 0..MaxScans
    BY DEF Sessions
  <2>3. Done(calls, Nil) \in OutcomeType /\ Orderly(Done(calls, Nil))
    BY DoneFacts, NilType
  <2>4. QED
    BY <2>1, <2>2, <2>3 DEF OutcomeType, Orderly
<1>3. QED
  BY <1>1, <1>2

\* The other checks.
LEMMA CheckOutcomes ==
  ASSUME store \in StoreType, sid \in 0..MaxScans, NEW L \in Sessions,
         NEW o \in AccessAdmin(L) \cup AntiReflection(L) \cup Bruteforce(L)
                   \cup CookieAttrCheck(L) \cup Corss(L) \cup FrameBusting(L)
                   \cup MethodCheck(L) \cup MimeTypeCheck(L) \cup PasswdAutoComplete
                   \cup PathTraversal(L) \cup Redir(L) \cup ReverseCookie(L)
                   \cup SessionFixation(L) \cup Sqli(L) \cup SslCheck \cup Xssi
  PROVE  o \in OutcomeType /\ Orderly(o)
<1>1. \A calls \in SUBSET Calls : Done(calls, Nil) \in OutcomeType /\ Orderly(Done(calls, Nil))
  BY DoneFacts, NilType
<1>2. Raised(L) \in OutcomeType /\ Orderly(Raised(L))
  BY RaisedFacts
<1>3. Done({"error"}, L) \in OutcomeType /\ Orderly(Done({"error"}, L))
  BY DoneFacts DEF Calls
<1>4. \/ o = Raised(L) \/ o = Done({"error"}, L)
      \/ \E calls \in SUBSET Calls : o = Done(calls, Nil)
  <2>1. CASE o \in AccessAdmin(L) \cup AntiReflection(L) \cup Bruteforce(L) \cup CookieAttrCheck(L)
    BY <2>1 DEF AccessAdmin, AntiReflection, Bruteforce, CookieAttrCheck, AllOf, Calls
  <2>2. CASE o \in Corss(L) \cup FrameBusting(L) \cup MethodCheck(L) \cup MimeTypeCheck(L)
    BY <2>2 DEF Corss, FrameBusting, MethodCheck, MimeTypeCheck, AllOf, Calls
  <2>3. CASE o \in PasswdAutoComplete \cup PathTraversal(L) \cup Redir(L) \cup ReverseCookie(L)
    BY <2>3 DEF PasswdAutoComplete, PathTraversal, Redir, ReverseCookie, AllOf, Calls
  <2>4. CASE o \in SessionFixation(L) \cup Sqli(L) \cup SslCheck \cup Xssi
    BY <2>4 DEF SessionFixation, Sqli, SslCheck, Xssi, AllOf, Calls
  <2>5. QED
    BY <2>1, <2>2, <2>3, <2>4
<1>5. QED
  BY <1>1, <1>2, <1>3, <1>4

\* What a module loads is a session, its own or that of @datastore.
LEMMA LoadedType ==
  ASSUME store \in StoreType, sess \in [Modules -> Sessions], NEW m \in Modules
  PROVE  Loaded(m) \in Sessions
  BY DEF Loaded, StoreType

\* Every outcome of every module is of the right type and orderly, and only
\* Keepers leave a session.
LEMMA OutcomeFacts ==
  ASSUME store \in StoreType, sid \in 0..MaxScans, scan \in 0..MaxScans,
         sess \in [Modules -> Sessions], NEW m \in Modules, NEW o \in Outcomes(m)
  PROVE  /\ o \in OutcomeType /\ Orderly(o)
         /\ m \notin Keepers => o.left = Nil
<1> DEFINE L == Loaded(m)
<1>0. L \in Sessions
  BY LoadedType
<1>1. \/ o \in Autologin \cup Crawler \cup Snks \cup Setup \cup Sitemap(L)
      \/ o \in SessionExposedInUrl(L)
      \/ o \in AccessAdmin(L) \cup AntiReflection(L) \cup Bruteforce(L)
               \cup CookieAttrCheck(L) \cup Corss(L) \cup FrameBusting(L)
               \cup MethodCheck(L) \cup MimeTypeCheck(L) \cup PasswdAutoComplete
               \cup PathTraversal(L) \cup Redir(L) \cup ReverseCookie(L)
               \cup SessionFixation(L) \cup Sqli(L) \cup SslCheck \cup Xssi
  BY DEF Outcomes, Modules, AllChecks, System
<1>2. o \in OutcomeType /\ Orderly(o)
  <2> HIDE DEF L
  <2>1. QED
    BY <1>0, <1>1, SystemOutcomes, SessionExposedOutcomes, CheckOutcomes
<1>3. ASSUME m \notin Keepers PROVE o.left = Nil
  <2>1. m \in {"autologin", "crawler", "setup"}
    BY <1>3 DEF Keepers
  <2>2. o \in Autologin \cup Crawler \cup Setup
    BY <2>1 DEF Outcomes
  <2>3. \A calls \in SUBSET Calls : Done(calls, Nil).left = Nil
    BY DoneFacts, NilType
  <2>4. Raised(Nil).left = Nil
    BY RaisedFacts, NilType
  <2>5. CASE o = Raised(Nil) \/ o = Done({}, Nil)
    BY <2>3, <2>4, <2>5
  <2>6. CASE \E s : o = Writing(Done({}, Nil), s)
    BY <2>6 DEF Writing, Done
  <2>7. QED
    BY <2>2, <2>5, <2>6 DEF Autologin, Crawler, Setup
<1>4. QED
  BY <1>2, <1>3

\* What a run says is about scans this node has taken up.
LEMMA OriginsType ==
  ASSUME store \in StoreType, scan \in 0..MaxScans, sess \in [Modules -> Sessions],
         NEW m \in Modules, NEW o \in OutcomeType
  PROVE  Origins(m, o) \subseteq 0..MaxScans
<1>1. Loaded(m).of \in 0..MaxScans
  BY LoadedType DEF Sessions
<1>2. store.session.of \in 0..MaxScans /\ o.sid \in 0..MaxScans
  BY DEF StoreType, Sessions, OutcomeType
<1>3. QED
  BY <1>1, <1>2 DEF Origins

-----------------------------------------------------------------------------
(* The inductive invariant.  The three conjuncts need one another: that a  *)
(* report call of m registers m (the last part of TypeOK on report) holds  *)
(* because @seen_before is clear when the run begins, and that is so       *)
(* because no run raises after it has called the report.                   *)

\* Scans are numbered from 1: without it what Zip adds could be of scan 0.
Underway == pc # "idle" => scan \in Scans

Inv == TypeOK /\ Underway /\ EveryRunRegistersAfresh /\ SessionKeptOnlyAfterFailure

\* The initial states satisfy it.
LEMMA InitInv == Init => Inv
BY ModulesAssumption, NilType
   DEF Init, Inv, TypeOK, Underway, EveryRunRegistersAfresh, SessionKeptOnlyAfterFailure,
       FreshStore, NoReport, NoPage, NoMail

\* The report calls of one run: @seen_before is clear again afterwards, and
\* whatever entered the report is under a registered module.
LEMMA RegisterFacts ==
  ASSUME Inv, NEW m \in Modules, NEW o \in OutcomeType, Orderly(o), Register(m, o)
  PROVE  /\ seen' \in [Modules -> BOOLEAN] /\ \A x \in Modules : ~ seen'[x]
         /\ lists' \in [Modules -> SUBSET (0..MaxScans)]
         /\ report' \in [on : BOOLEAN, modules : SUBSET Modules, findings : SUBSET Findings,
                         lists : SUBSET Modules, errors : SUBSET Modules]
         /\ report'.lists \cup report'.errors \cup {f[1] : f \in report'.findings}
              \subseteq report'.modules
<1>1. /\ seen \in [Modules -> BOOLEAN] /\ \A x \in Modules : ~ seen[x]
      /\ lists \in [Modules -> SUBSET (0..MaxScans)]
  BY DEF Inv, TypeOK, EveryRunRegistersAfresh
<1>2. Origins(m, o) \subseteq 0..MaxScans
  BY OriginsType DEF Inv, TypeOK, StoreType
<1>3. seen' = [seen EXCEPT ![m] = o.raised /\ (@ \/ (o.calls # {} /\ ~ seen[m]))]
  BY DEF Register
<1>4. ~ (o.raised /\ (seen[m] \/ (o.calls # {} /\ ~ seen[m])))
  BY <1>1 DEF Orderly
<1>5. seen' \in [Modules -> BOOLEAN] /\ \A x \in Modules : ~ seen'[x]
  BY <1>1, <1>3, <1>4
<1>6. lists' \in [Modules -> SUBSET (0..MaxScans)]
  BY <1>1, <1>2 DEF Register
<1>7. CASE o.calls = {}
  BY <1>5, <1>6, <1>7 DEF Register, Inv, TypeOK
<1>8. CASE o.calls # {}
  <2> DEFINE fresh == {m} \X (o.calls \cap {"advise", "warn"}) \X Origins(m, o)
             L     == IF o.calls \cap {"list", "advise", "warn"} # {}
                      THEN report.lists \cup {m} ELSE report.lists
             E     == IF "error" \in o.calls THEN report.errors \cup {m} ELSE report.errors
  <2>1. ~ seen[m]
    BY <1>1
  <2>2. report' = [on |-> TRUE, modules |-> report.modules \cup {m},
                   findings |-> report.findings \cup fresh, lists |-> L, errors |-> E]
    BY <1>8, <2>1 DEF Register
  <2>3. fresh \subseteq Findings /\ \A f \in fresh : f[1] = m
    BY <1>2 DEF Findings
  <2>4. /\ report.modules \subseteq Modules /\ report.findings \subseteq Findings
        /\ report.lists \subseteq report.modules /\ report.errors \subseteq report.modules
        /\ \A f \in report.findings : f[1] \in report.modules
    BY DEF Inv, TypeOK
  <2>5. L \subseteq report.modules \cup {m} /\ E \subseteq report.modules \cup {m}
    BY <2>4
  <2> HIDE DEF fresh, L, E
  <2>6. /\ report'.modules = report.modules \cup {m} /\ report'.lists = L
        /\ report'.errors = E /\ report'.findings = report.findings \cup fresh
    BY <2>2
  <2>7. report' \in [on : BOOLEAN, modules : SUBSET Modules, findings : SUBSET Findings,
                     lists : SUBSET Modules, errors : SUBSET Modules]
    BY <2>2, <2>3, <2>4, <2>5
  <2>8. report'.lists \cup report'.errors \cup {f[1] : f \in report'.findings}
          \subseteq report'.modules
    BY <2>3, <2>4, <2>5, <2>6
  <2>9. QED
    BY <1>5, <1>6, <2>7, <2>8
<1>9. QED
  BY <1>7, <1>8

\* The run of one module, whatever its outcome.
LEMMA RunModuleInv ==
  ASSUME Inv, NEW m \in Modules, RunModule(m)
  PROVE  Inv'
<1>1. PICK o \in Outcomes(m) :
        /\ Register(m, o)
        /\ sess' = [sess EXCEPT ![m] = o.left] /\ store' = o.store /\ sid' = o.sid
        /\ failed' = IF o.raised \/ "error" \in o.calls
                     THEN failed \cup ({m} \cap Keepers) ELSE failed \ {m}
  BY DEF RunModule
<1>2. o \in OutcomeType /\ Orderly(o) /\ (m \notin Keepers => o.left = Nil)
  BY OutcomeFacts DEF Inv, TypeOK, StoreType
<1>3. /\ seen' \in [Modules -> BOOLEAN] /\ \A x \in Modules : ~ seen'[x]
      /\ lists' \in [Modules -> SUBSET (0..MaxScans)]
      /\ report' \in [on : BOOLEAN, modules : SUBSET Modules, findings : SUBSET Findings,
                      lists : SUBSET Modules, errors : SUBSET Modules]
      /\ report'.lists \cup report'.errors \cup {f[1] : f \in report'.findings}
           \subseteq report'.modules
  BY <1>1, <1>2, RegisterFacts
<1>4. TypeOK'
  <2>1. /\ sess' \in [Modules -> Sessions] /\ store' \in StoreType /\ sid' \in 0..MaxScans
    BY <1>1, <1>2 DEF Inv, TypeOK, OutcomeType
  <2>2. failed' \in SUBSET Modules /\ todo' \in SUBSET Modules
    BY <1>1 DEF Inv, TypeOK, RunModule
  <2>3. QED
    BY <1>3, <2>1, <2>2 DEF Inv, TypeOK, RunModule, mailVars, StoreType
<1>5. EveryRunRegistersAfresh'
  BY <1>3 DEF EveryRunRegistersAfresh
<1>6. SessionKeptOnlyAfterFailure'
  <2> SUFFICES ASSUME NEW x \in Modules, sess'[x] # Nil
               PROVE  x \in failed'
    BY DEF SessionKeptOnlyAfterFailure
  <2>1. CASE x = m
    <3>1. o.left # Nil
      BY <1>1, <2>1 DEF Inv, TypeOK
    <3>2. m \in Keepers /\ (o.raised \/ "error" \in o.calls)
      BY <1>2, <3>1 DEF Orderly
    <3>3. QED
      BY <1>1, <2>1, <3>2
  <2>2. CASE x # m
    <3>1. sess[x] # Nil
      BY <1>1, <2>2 DEF Inv, TypeOK
    <3>2. x \in failed
      BY <3>1 DEF Inv, SessionKeptOnlyAfterFailure
    <3>3. QED
      BY <1>1, <2>2, <3>2
  <2>3. QED
    BY <2>1, <2>2
<1>7. Underway'
  BY DEF RunModule, Inv, Underway
<1>8. QED
  BY <1>4, <1>5, <1>6, <1>7 DEF Inv

\* Every other step: most of them leave the instances alone, and an exit of
\* the process replaces them all.
LEMMA OtherStepsInv ==
  ASSUME Inv,
         \/ \E choice \in Choices : StartScan(choice)
         \/ Render \/ Zip \/ Deliver \/ DeliverFails \/ Remove \/ Crash
  PROVE  Inv'
<1> USE ModulesAssumption DEF Inv, Underway, EveryRunRegistersAfresh, SessionKeptOnlyAfterFailure
<1>1. ASSUME NEW choice \in Choices, StartScan(choice) PROVE Inv'
  <2>1. choice \in SUBSET Checks /\ choice \cup System \in SUBSET Modules
    BY DEF Choices, Modules
  <2>2. scan + 1 \in Scans
    BY <1>1 DEF StartScan, TypeOK, Scans
  <2>3. QED
    BY <1>1, <2>1, <2>2 DEF StartScan, TypeOK, Scans, instances, mailVars
<1>2. CASE Render
  <2>1. page' \in [state : {"none", "raised", "rendered"}, html : BOOLEAN,
                   shown : SUBSET Findings, counted : SUBSET Findings]
    <3>1. CASE UNCHANGED page
      BY <3>1 DEF TypeOK
    <3>2. CASE page' = [NoPage EXCEPT !.state = "raised"]
      BY <3>2 DEF NoPage
    <3>3. CASE \E written \in BOOLEAN :
                 page' = [state   |-> "rendered",
                          html    |-> written,
                          shown   |-> {f \in report.findings : <<f[1], f[2]>> \in Templates},
                          counted |-> report.findings]
      <4>1. report.findings \in SUBSET Findings
        BY DEF TypeOK
      <4>2. {f \in report.findings : <<f[1], f[2]>> \in Templates} \in SUBSET Findings
        BY <4>1
      <4>3. QED
        BY <3>3, <4>1, <4>2
    <3>4. QED
      BY <1>2, <3>1, <3>2, <3>3 DEF Render
  <2>2. QED
    BY <1>2, <2>1 DEF Render, TypeOK, instances, mailVars
<1>3. CASE Zip
  <2>1. scan \in Scans /\ OwnFiles \subseteq Scans \X {"html", "log"}
    BY <1>3 DEF Zip, TypeOK, OwnFiles
  <2>2. QED
    BY <1>3, <2>1 DEF Zip, TypeOK, dataVars, instances
<1>4. CASE Deliver
  BY <1>4 DEF Deliver, TypeOK, dataVars, instances
<1>5. CASE DeliverFails
  BY <1>5, NilType
     DEF DeliverFails, Forget, TypeOK, instances, FreshStore, NoReport, NoPage, NoMail
<1>6. CASE Remove
  BY <1>6, NilType
     DEF Remove, Forget, TypeOK, instances, FreshStore, NoReport, NoPage, NoMail
<1>7. CASE Crash
  BY <1>7, NilType DEF Crash, Forget, TypeOK, FreshStore, NoReport, NoPage, NoMail
<1>8. QED
  BY <1>1, <1>2, <1>3, <1>4, <1>5, <1>6, <1>7

\* The invariant is inductive.
LEMMA NextInv == Inv /\ [Next]_vars => Inv'
<1> SUFFICES ASSUME Inv, [Next]_vars PROVE Inv'
  OBVIOUS
<1>1. ASSUME NEW m \in Modules, RunModule(m) PROVE Inv'
  BY <1>1, RunModuleInv
<1>2. CASE \/ \E choice \in Choices : StartScan(choice)
           \/ Render \/ Zip \/ Deliver \/ DeliverFails \/ Remove \/ Crash
  BY <1>2, OtherStepsInv
<1>3. CASE UNCHANGED vars
  BY <1>3 DEF vars, dataVars, instances, mailVars, Inv, TypeOK, Underway,
              EveryRunRegistersAfresh, SessionKeptOnlyAfterFailure
<1>4. QED
  BY <1>1, <1>2, <1>3 DEF Next

-----------------------------------------------------------------------------
\* The state of a Caroline node keeps its type, and nothing is in the report
\* of a scan under a module that is not among its registered modules.
THEOREM ModulesTypeCorrect == Spec => []TypeOK
<1>1. Inv => TypeOK
  BY DEF Inv
<1>2. QED
  BY <1>1, InitInv, NextInv, PTL DEF Spec

\* No module raises once it has registered: @seen_before never survives a run,
\* so that every run of every scan registers its module afresh.
THEOREM RegistersAfresh == Spec => []EveryRunRegistersAfresh
<1>1. Inv => EveryRunRegistersAfresh
  BY DEF Inv
<1>2. QED
  BY <1>1, InitInv, NextInv, PTL DEF Spec

\* A session survives a run only in the instance of a module whose run raised
\* or reported an error.
THEOREM KeptOnlyAfterFailure == Spec => []SessionKeptOnlyAfterFailure
<1>1. Inv => SessionKeptOnlyAfterFailure
  BY DEF Inv
<1>2. QED
  BY <1>1, InitInv, NextInv, PTL DEF Spec

-----------------------------------------------------------------------------
(* The archive of the reports, which outlives the scans and the process.   *)

\* A mail, or the archive the next mail is made of, holds files of another
\* scan only if sending that scan's own report did not come to its end.
THEOREM Attachments == Spec => []AttachmentsExplained
<1>1. Init => AttachmentsExplained
  BY DEF Init, AttachmentsExplained, NoMail
<1>2. ASSUME AttachmentsExplained, [Next]_vars PROVE AttachmentsExplained'
  <2> USE <1>2 DEF AttachmentsExplained
  <2>1. ASSUME NEW choice \in Choices, StartScan(choice) PROVE AttachmentsExplained'
    BY <2>1 DEF StartScan, mailVars
  <2>2. ASSUME NEW m \in Modules, RunModule(m) PROVE AttachmentsExplained'
    BY <2>2 DEF RunModule, mailVars
  <2>3. CASE Render
    BY <2>3 DEF Render, mailVars
  <2>4. CASE Zip
    BY <2>4 DEF Zip, OwnFiles
  <2>5. CASE Deliver
    <3>1. mail'.files = zip /\ UNCHANGED <<zip, unsent>>
      BY <2>5 DEF Deliver
    <3>2. QED
      BY <3>1
  <2>6. CASE DeliverFails
    BY <2>6 DEF DeliverFails, Forget, NoMail
  <2>7. CASE Remove
    BY <2>7 DEF Remove, Forget, NoMail
  <2>8. CASE Crash
    BY <2>8 DEF Crash, Forget, NoMail
  <2>9. CASE UNCHANGED vars
    BY <2>9 DEF vars, mailVars
  <2>10. QED
    BY <2>1, <2>2, <2>3, <2>4, <2>5, <2>6, <2>7, <2>8, <2>9 DEF Next
<1>3. QED
  BY <1>1, <1>2, PTL DEF Spec

-----------------------------------------------------------------------------
(* The modules missing from the report.                                    *)

Silent == {"access_admin", "cookie_attr_check"}

\* The run of a check leaves @datastore alone, and calls the report unless it
\* raises or is one of the two that give up silently without a session.
LEMMA CheckFacts ==
  ASSUME NEW m \in AllChecks, NEW o \in Outcomes(m)
  PROVE  /\ o.store = store
         /\ o.calls = {} => o.raised \/ (m \in Silent /\ Loaded(m) = Nil)
<1> DEFINE L == Loaded(m)
<1>1. \A calls, left : /\ Done(calls, left).store = store
                       /\ Done(calls, left).calls = calls
  BY DEF Done
<1>2. \A left : Raised(left).store = store /\ Raised(left).raised
  BY DEF Raised, Done
<1>3. \/ o = Raised(L)
      \/ \E calls, left : o = Done(calls, left) /\ (calls = {} => m \in Silent /\ L = Nil)
      \/ m = "session_exposed_in_url"
  <2> HIDE DEF L
  <2> USE DEF AllOf, Silent
  <2>1. CASE m \in {"access_admin", "anti_reflection", "bruteforce", "cookie_attr_check"}
    <3>1. (o \in AccessAdmin(L) /\ m = "access_admin") \/ o \in AntiReflection(L)
          \/ o \in Bruteforce(L) \/ (o \in CookieAttrCheck(L) /\ m = "cookie_attr_check")
      BY <2>1 DEF Outcomes, L
    <3>2. QED
      BY <3>1 DEF AccessAdmin, AntiReflection, Bruteforce, CookieAttrCheck
  <2>2. CASE m \in {"corss", "frame_busting", "method_check", "mime_type_check"}
    <3>1. o \in Corss(L) \cup FrameBusting(L) \cup MethodCheck(L) \cup MimeTypeCheck(L)
      BY <2>2 DEF Outcomes, L
    <3>2. QED
      BY <3>1 DEF Corss, FrameBusting, MethodCheck, MimeTypeCheck
  <2>3. CASE m \in {"passwd_auto_complete", "path_traversal", "redir", "reverse_cookie"}
    <3>1. o \in PasswdAutoComplete \cup PathTraversal(L) \cup Redir(L) \cup ReverseCookie(L)
      BY <2>3 DEF Outcomes, L
    <3>2. QED
      BY <3>1 DEF PasswdAutoComplete, PathTraversal, Redir, ReverseCookie
  <2>4. CASE m \in {"session_fixation", "sqli", "ssl_check", "xssi"}
    <3>1. o \in SessionFixation(L) \cup Sqli(L) \cup SslCheck \cup Xssi
      BY <2>4 DEF Outcomes, L
    <3>2. QED
      BY <3>1 DEF SessionFixation, Sqli, SslCheck, Xssi
  <2>5. QED
    BY <2>1, <2>2, <2>3, <2>4 DEF AllChecks
<1>4. ASSUME m = "session_exposed_in_url", o # Raised(L)
      PROVE  o.store = store /\ o.calls # {}
  <2>1. o \in SessionExposedInUrl(L)
    BY <1>4 DEF Outcomes
  <2> DEFINE Told(id) == {{"abstain"}} \cup
               (IF id = 0 THEN {}
                ELSE {{"list", "warn"}, {"error", "abstain"}, {"error", "list", "warn"}})
  <2>2. \E id \in {sid, L.of} : \E calls \in Told(id) :
          o = [Done(calls, Nil) EXCEPT !.sid = id]
    <3> HIDE DEF L
    <3>1. QED
      BY <1>4, <2>1 DEF SessionExposedInUrl
  <2>3. \A id : \A calls \in Told(id) : calls # {}
    OBVIOUS
  <2> HIDE DEF Told
  <2>4. PICK id : \E calls \in Told(id) : o = [Done(calls, Nil) EXCEPT !.sid = id]
    BY <2>2
  <2>5. PICK calls \in Told(id) : o = [Done(calls, Nil) EXCEPT !.sid = id]
    BY <2>4
  <2>6. o.store = store /\ o.calls = calls
    BY <2>5 DEF Done
  <2>7. QED
    BY <2>3, <2>5, <2>6
<1>5. QED
  BY <1>1, <1>2, <1>3, <1>4

\* Checks run after all system modules, and each that has run is registered,
\* has failed or has given up.
Accounted ==
  pc \in {"modules", "zip"} =>
    /\ todo \subseteq selected \cup System
    /\ \A m \in selected \ todo :
         /\ todo \cap System = {}
         /\ m \in report.modules \/ m \in failed \/ (m \in Silent /\ store.session = Nil)
    /\ pc = "zip" => todo = {}

\* A run keeps the account of the modules.
LEMMA RunModuleAccounted ==
  ASSUME Inv, Accounted, NEW m \in Modules, RunModule(m)
  PROVE  Accounted'
<1>1. PICK o \in Outcomes(m) :
        /\ Register(m, o) /\ store' = o.store
        /\ failed' = IF o.raised \/ "error" \in o.calls
                     THEN failed \cup ({m} \cap Keepers) ELSE failed \ {m}
  BY DEF RunModule
<1>2. /\ pc = "modules" /\ pc' = "modules" /\ selected' = selected
      /\ m \in todo /\ todo' = todo \ {m} /\ \A x \in todo : Rank(m) <= Rank(x)
  BY DEF RunModule
<1>3. selected \subseteq AllChecks /\ AllChecks \cap System = {} /\ ~ seen[m]
  BY ModulesAssumption DEF Inv, TypeOK, EveryRunRegistersAfresh, AllChecks, System
<1>4. CASE m \in System
  <2>1. selected \ todo = {}
    BY <1>2, <1>4 DEF Accounted
  <2>2. selected' \ todo' = {}
    BY <1>2, <1>3, <1>4, <2>1
  <2>3. QED
    BY <1>2, <2>2 DEF Accounted
<1>5. CASE m \in AllChecks
  <2>1. todo \cap System = {}
    <3>1. Rank(m) = 10
      BY <1>5 DEF Rank, AllChecks
    <3>2. \A x \in System : Rank(x) < 10
      BY DEF Rank, System
    <3>3. ASSUME NEW x \in todo \cap System PROVE FALSE
      <4>1. Rank(m) <= Rank(x) /\ Rank(x) < 10
        BY <1>2, <3>2
      <4>2. Rank(x) \in Nat
        BY DEF Rank
      <4>3. QED
        BY <3>1, <4>1, <4>2
    <3>4. QED
      BY <3>3
  <2>2. /\ o.store = store
        /\ o.calls = {} => o.raised \/ (m \in Silent /\ Loaded(m) = Nil)
    BY <1>5, CheckFacts
  <2>3. report.modules \subseteq report'.modules /\ (o.calls # {} => m \in report'.modules)
    BY <1>1, <1>3 DEF Register
  <2>4. m \in Keepers
    BY <1>5 DEF Keepers, Modules, AllChecks
  <2>5. m \in report'.modules \/ m \in failed' \/ (m \in Silent /\ store'.session = Nil)
    <3>1. CASE o.calls # {}
      BY <2>3, <3>1
    <3>2. CASE o.raised
      BY <1>1, <2>4, <3>2
    <3>3. CASE m \in Silent /\ Loaded(m) = Nil
      BY <1>1, <2>2, <3>3 DEF Loaded
    <3>4. QED
      BY <2>2, <3>1, <3>2, <3>3
  <2>6. ASSUME NEW x \in selected \ todo, x # m
        PROVE  x \in report'.modules \/ x \in failed' \/ (x \in Silent /\ store'.session = Nil)
    <3>1. x \in report.modules \/ x \in failed \/ (x \in Silent /\ store.session = Nil)
      BY <1>2 DEF Accounted
    <3>2. QED
      BY <1>1, <2>2, <2>3, <2>6, <3>1
  <2>7. todo' \subseteq selected' \cup System /\ todo' \cap System = {}
    BY <1>2, <2>1 DEF Accounted
  <2>8. QED
    BY <1>2, <2>5, <2>6, <2>7 DEF Accounted
<1>6. QED
  BY <1>4, <1>5 DEF Modules

\* A selected module is missing from the "Tested modules" only if it failed, or
\* is one of the two that give up silently without a session.
THEOREM OmittedExplained == Spec => []OmittedOnlyIfFailed
<1>1. Init => Accounted
  BY DEF Init, Accounted
<1>2. ASSUME Inv, Accounted, [Next]_vars PROVE Accounted'
  <2> USE <1>2
  <2>1. ASSUME NEW choice \in Choices, StartScan(choice) PROVE Accounted'
    BY <2>1 DEF StartScan, Accounted
  <2>2. ASSUME NEW m \in Modules, RunModule(m) PROVE Accounted'
    BY <2>2, RunModuleAccounted
  <2>3. CASE Render
    BY <2>3 DEF Render, Accounted, instances
  <2>4. CASE Zip \/ Deliver
    BY <2>4 DEF Zip, Deliver, Accounted
  <2>5. CASE DeliverFails \/ Remove \/ Crash
    BY <2>5 DEF DeliverFails, Remove, Crash, Forget, Accounted
  <2>6. CASE UNCHANGED vars
    BY <2>6 DEF vars, dataVars, instances, Accounted
  <2>7. QED
    BY <2>1, <2>2, <2>3, <2>4, <2>5, <2>6 DEF Next
<1>3. Accounted => OmittedOnlyIfFailed
  BY DEF Accounted, OmittedOnlyIfFailed, Silent
<1>4. QED
  BY <1>1, <1>2, <1>3, InitInv, NextInv, PTL DEF Spec

-----------------------------------------------------------------------------
(* What the report of a scan may say of another scan.                      *)

\* A scan begins with an empty @datastore and report.  As long as its modules
\* run, a module still to run has kept a session only if it is in doubt, and
\* the session of @datastore is of this scan unless Sitemap is in doubt.
Separate ==
  /\ pc = "idle" => store = FreshStore /\ report = NoReport
  /\ pc = "modules" =>
       /\ \A m \in todo : sess[m] # Nil => m \in doubt
       /\ store.session.of \in {0, scan} \/ "sitemap" \in doubt
  /\ ForeignFindingsExplained

\* The session in @datastore is replaced by Snks, with one of this scan, and by
\* Sitemap, with the one it works on.
LEMMA SessionWritten ==
  ASSUME store \in StoreType, sess \in [Modules -> Sessions],
         NEW m \in Modules, NEW o \in Outcomes(m)
  PROVE  \/ o.store.session.of \in {store.session.of, scan}
         \/ m = "sitemap" /\ o.store.session.of = Loaded(m).of
<1> DEFINE L == Loaded(m)
<1>1. \A calls, left : Done(calls, left).store = store
  BY DEF Done
<1>2. \A left : Raised(left).store = store
  BY DEF Raised, Done
<1>3. \A calls, left, s : Writing(Done(calls, left), s).store = s
  BY DEF Writing, Done
<1>4. CASE m \in AllChecks
  BY <1>4, CheckFacts
<1>5. CASE m = "autologin"
  BY <1>1, <1>2, <1>5 DEF Outcomes, Autologin
<1>6. CASE m = "crawler"
  <2>1. PICK c \in BOOLEAN :
          o = Raised(Nil) \/ o = Writing(Done({}, Nil), [store EXCEPT !.crawl = c])
    BY <1>6 DEF Outcomes, Crawler
  <2>2. o.store = store \/ o.store = [store EXCEPT !.crawl = c]
    BY <1>2, <1>3, <2>1
  <2>3. QED
    BY <2>2 DEF StoreType
<1>7. CASE m = "setup"
  <2>1. o = Raised(Nil) \/ o = Writing(Done({}, Nil), [store EXCEPT !.target = TRUE])
    BY <1>7 DEF Outcomes, Setup
  <2>2. o.store = store \/ o.store = [store EXCEPT !.target = TRUE]
    BY <1>2, <1>3, <2>1
  <2>3. QED
    BY <2>2 DEF StoreType
<1>8. CASE m = "snks"
  <2> DEFINE own == [of |-> scan, map |-> FALSE]
  <2>1. [store EXCEPT !.session = own].session.of = scan
    BY DEF StoreType
  <2>2. \/ o = Raised(own) \/ o = Raised(sess["snks"])
        \/ o = Writing(Done({}, Nil), [store EXCEPT !.session = own])
    BY <1>8 DEF Outcomes, Snks
  <2> HIDE DEF own
  <2>3. o.store = store \/ o.store = [store EXCEPT !.session = own]
    BY <1>2, <1>3, <2>2
  <2>4. QED
    BY <2>1, <2>3
<1>9. CASE m = "sitemap"
  <2> DEFINE s == [store EXCEPT !.session = [L EXCEPT !.map = TRUE]]
  <2>1. s.session.of = L.of
    BY LoadedType DEF StoreType, Sessions
  <2>2. \/ o = Raised(L) \/ o = Done({}, Nil)
        \/ o = Writing(Done({"list"}, Nil), s)
    BY <1>9 DEF Outcomes, Sitemap
  <2> HIDE DEF s, L
  <2>3. o.store = store \/ o.store = s
    BY <1>1, <1>2, <1>3, <2>2
  <2>4. QED
    BY <1>9, <2>1, <2>3 DEF L
<1>10. QED
  BY <1>4, <1>5, <1>6, <1>7, <1>8, <1>9 DEF Modules, System

\* In a scan a module loads a session of that scan, or none, unless it or
\* Sitemap is in doubt.
LEMMA LoadedOwn ==
  ASSUME Separate, pc = "modules", NEW m \in todo, {m, "sitemap"} \cap doubt = {}
  PROVE  Loaded(m).of \in {0, scan} /\ store.session.of \in {0, scan}
BY DEF Separate, Loaded

\* One run: what it writes is about the session it loads, and what it finds in
\* its instance from before counts only if that is in doubt.
LEMMA RunModuleSeparate ==
  ASSUME Inv, Separate, NEW m \in Modules, RunModule(m)
  PROVE  Separate'
<1>1. PICK o \in Outcomes(m) :
        Register(m, o) /\ sess' = [sess EXCEPT ![m] = o.left] /\ store' = o.store
  BY DEF RunModule
<1>2. /\ pc = "modules" /\ pc' = "modules" /\ m \in todo /\ todo' = todo \ {m}
      /\ scan' = scan /\ doubt' = doubt
  BY DEF RunModule
<1>3. /\ store \in StoreType /\ sess \in [Modules -> Sessions] /\ todo \subseteq Modules
      /\ lists \in [Modules -> SUBSET (0..MaxScans)] /\ ~ seen[m]
  BY DEF Inv, TypeOK, StoreType, EveryRunRegistersAfresh
<1>4. \A x \in todo' : sess'[x] # Nil => x \in doubt'
  BY <1>1, <1>2, <1>3 DEF Separate
<1>5. store'.session.of \in {0, scan'} \/ "sitemap" \in doubt'
  <2>1. SUFFICES ASSUME "sitemap" \notin doubt PROVE store'.session.of \in {0, scan}
    BY <1>2
  <2>2. store.session.of \in {0, scan}
    BY <1>2, <2>1 DEF Separate
  <2>3. m = "sitemap" => Loaded(m).of \in {0, scan}
    BY <1>2, <2>1, LoadedOwn
  <2>4. QED
    BY <1>1, <1>3, <2>2, <2>3, SessionWritten
<1>6. ForeignFindingsExplained'
  <2> SUFFICES ASSUME NEW x \in Modules, Foreign(x)', {x, "sitemap"} \cap doubt = {},
                      x # "session_exposed_in_url"
               PROVE  FALSE
    BY <1>2 DEF ForeignFindingsExplained
  <2>1. ~ Foreign(x)
    BY DEF Separate, ForeignFindingsExplained
  <2>2. CASE x = m
    <3>1. Origins(m, o) \subseteq {0, scan}
      BY <1>2, <2>2, LoadedOwn DEF Origins
    <3>2. CASE o.calls = {}
      <4>1. report' = report /\ lists' = lists
        BY <1>1, <1>3, <3>2 DEF Register
      <4>2. QED
        BY <1>2, <2>1, <4>1 DEF Foreign
    <3>3. CASE o.calls # {}
      <4>1. lists'[m] \subseteq Origins(m, o)
        BY <1>1, <1>3, <3>3 DEF Register
      <4>2. report'.findings = report.findings \cup
              ({m} \X (o.calls \cap {"advise", "warn"}) \X Origins(m, o))
        BY <1>1, <3>3 DEF Register
      <4>3. \A f \in report'.findings : f[1] = m => f[3] \in {0, scan}
        BY <2>1, <2>2, <3>1, <4>2 DEF Foreign
      <4>4. QED
        BY <1>2, <2>2, <3>1, <4>1, <4>3 DEF Foreign
    <3>4. QED
      BY <3>2, <3>3
  <2>3. CASE x # m
    <3>1. lists'[x] = lists[x]
      BY <1>1, <1>3, <2>3 DEF Register
    <3>2. x \in report'.modules => x \in report.modules
      BY <1>1, <2>3 DEF Register
    <3>3. \A f \in report'.findings : f[1] = x => f \in report.findings
      BY <1>1, <2>3 DEF Register
    <3>4. QED
      BY <1>2, <2>1, <3>1, <3>2, <3>3 DEF Foreign
  <2>4. QED
    BY <2>2, <2>3
<1>7. QED
  BY <1>2, <1>4, <1>5, <1>6 DEF Separate

\* Every other step: a scan begins with what the failed modules have kept, and
\* its report is forgotten with it.
LEMMA OtherStepsSeparate ==
  ASSUME Inv, Separate,
         \/ \E choice \in Choices : StartScan(choice)
         \/ Render \/ Zip \/ Deliver \/ DeliverFails \/ Remove \/ Crash
  PROVE  Separate'
<1>1. ASSUME NEW choice \in Choices, StartScan(choice) PROVE Separate'
  <2>1. /\ pc' = "modules" /\ todo' = choice \cup System /\ doubt' = failed
        /\ sess' = sess /\ store' = FreshStore /\ report' = NoReport
    BY <1>1 DEF StartScan, Separate, instances
  <2>2. todo' \subseteq Modules
    BY <2>1, ModulesAssumption DEF Choices, Modules
  <2>3. \A m \in todo' : sess'[m] # Nil => m \in doubt'
    BY <2>1, <2>2 DEF Inv, SessionKeptOnlyAfterFailure
  <2>4. store'.session.of = 0
    BY <2>1 DEF FreshStore, Nil
  <2>5. ForeignFindingsExplained'
    BY <2>1 DEF NoReport, Foreign, ForeignFindingsExplained
  <2>6. QED
    BY <2>1, <2>3, <2>4, <2>5 DEF Separate
<1>2. CASE Render \/ Zip \/ Deliver
  <2>1. pc' \notin {"idle", "modules"} /\ UNCHANGED <<scan, report, lists, doubt>>
    BY <1>2 DEF Render, Zip, Deliver, dataVars, instances
  <2>2. QED
    BY <2>1 DEF Separate, ForeignFindingsExplained, Foreign
<1>3. CASE DeliverFails \/ Remove \/ Crash
  <2>1. pc' = "idle" /\ store' = FreshStore /\ report' = NoReport
    BY <1>3 DEF DeliverFails, Remove, Crash, Forget
  <2>2. ForeignFindingsExplained'
    BY <2>1 DEF NoReport, Foreign, ForeignFindingsExplained
  <2>3. QED
    BY <2>1, <2>2 DEF Separate
<1>4. QED
  BY <1>1, <1>2, <1>3

\* The report of a scan says something of another scan only under a module that
\* failed the last time it ran, in every module if Sitemap did, and under
\* SessionExposedInUrl.
THEOREM ForeignExplained == Spec => []ForeignFindingsExplained
<1>1. Init => Separate
  BY DEF Init, Separate, NoReport, Foreign, ForeignFindingsExplained
<1>2. ASSUME Inv, Separate, [Next]_vars PROVE Separate'
  <2>1. ASSUME NEW m \in Modules, RunModule(m) PROVE Separate'
    BY <1>2, <2>1, RunModuleSeparate
  <2>2. CASE \/ \E choice \in Choices : StartScan(choice)
             \/ Render \/ Zip \/ Deliver \/ DeliverFails \/ Remove \/ Crash
    BY <1>2, <2>2, OtherStepsSeparate
  <2>3. CASE UNCHANGED vars
    BY <1>2, <2>3 DEF vars, dataVars, instances, Separate, ForeignFindingsExplained, Foreign
  <2>4. QED
    BY <1>2, <2>1, <2>2, <2>3 DEF Next
<1>3. Separate => ForeignFindingsExplained
  BY DEF Separate
<1>4. QED
  BY <1>1, <1>2, <1>3, InitInv, NextInv, PTL DEF Spec

=============================================================================
