# Revok: TLA+ models and proofs

Revok scans web applications.  A browser wizard submits a scan to a console
server, which PUTs it to a REST server, which publishes it to a message queue,
from which one of several *Caroline* nodes takes it, runs its test modules one
after the other and mails a report.  Two smaller services go the same way and
come back by a second queue: the list of test modules, and a screenshot of a
login page.

This directory holds models of the parts of that path which are hard to test,
from the wizard in the browser to the crawler on a node, the TLC configurations
that check them, and machine-checked proofs about the wizard, the dispatch of
requests, the return queue, what one scan leaves behind for the next, and the
crawler.

## Inventory

| component | source | state | operations | why it is hard |
|---|---|---|---|---|
| console server | `webconsole/config.ru` | none between requests | `/scan`, `/screenshot`, `/modules_list`, `/login_detect`, `/login_fill` | an HTTP PUT whose answer is lost is sent again |
| wizard | `webconsole/public/js/controllers/*.js` | `$scope.state`, shared by six pages | buttons, inputs, suggestions, answers, polling for the picture | a late answer or timer meets a user who has gone on |
| REST server | `rest/rest.rb`, `rest/activemq.rb` | `received_msg`, one array for all threads | `put_scan`, `get_modules_list`, `get_screenshot`, `handle_msg` | a thread per request, select and reject! apart, nothing ever expires |
| broker (external) | ActiveMQ | two queues, not persistent | dispatch, redelivery, expiry | lost and repeated messages |
| node loop | `caroline/core/runserver.rb`, `activemq.rb`, `dbms.rb` | `to_run`, table `run` | `get_run`, `save_run2db`, `run_scan`, `send_modules_list` | ack before save, look-up before insert, crash at any point |
| Photographer | `caroline/modules/screenshot.rb` | a STOMP connection of its own | `run` | it subscribes to the work queue too |
| executor, report, mail | `caroline/core/module_executor.rb`, `module.rb`, `postman.rb`, `modules/render.rb` | `@datastore`, the report, `report/report.zip` | `gen_exec_list`, `execute`, report calls, `send_report` | a module that raises is not cleaned; the archive may be left over |
| test modules | `caroline/modules/*.rb` | `@session_data`, `@seen_before`, `@lists`, `@session_id` of one instance per process | `run` | what one scan leaves behind, the next one finds |
| crawler | `creep/webcrawler.js` | one object per page, the lists of requested, visited, posted and injected addresses | handlers of a page, timers, the arithmetic on addresses | the handlers of all pages share the lists; an address is recognized by its text |
| crawler module | `crawler.rb`, `creep/creep.py` | two output files | crawl, merge | the outcome of a crawl is what the other modules work on |
| framework, daemon scripts, helpers, loggers | `framework.rb`, `carolined`, `lib/*` | module table, pid files | load, start, stop | start twice, stop while starting |

What makes the components correct, and the property that says so:

* dispatch: a request is executed at most once by all nodes together
  (`ScannedAtMostOnce`), by one node at a time (`OneWorkerPerRun`); its row says
  the truth (`EndedMeansScanned`, `OpenRowHasWorker`); it does not vanish
  between queue and table (`NoSilentLoss`), and a fault there costs one request
  (`EachFaultLosesOne`); a bad one does not block the rest (`ExitsAreBounded`); and it is scanned in the end (`AcceptedIsScanned`,
  `ListIsSent`);
* executor and test modules: a report is about its own scan
  (`ForeignFindingsExplained`, `SessionKeptOnlyAfterFailure`), it names every module that was run
  (`EveryRunRegistersAfresh`, `OmittedOnlyIfFailed`), and a mail carries nothing
  of another scan (`AttachmentsExplained`);
* return queue: every answer reaches the one who asked
  (`ListInTimeIsDelivered`, `PictureLostToAnother`), and the cache keeps only
  what came too late (`CachedListIsLate`);
* crawler: it goes where a browser would (`LinksResolved`), to every page once
  (`CrawledOnce`); what it injects can be recognized afterwards (`TagsKnown`,
  `PostedTagsKnown`); a form is posted once (`PostedOnce`); the login does not
  spread (`LoginScannedOnce`), and pages are closed (`ScannedPageIsClosed`);
* wizard: what is submitted is complete (`SubmittedIsComplete`), of one target
  (`LoginIsOfTarget`, `TargetIsWhitelisted`, `PictureAskedForLogin`) and what the user
  has ticked (`ConsentIsForThis`), and no page gets stuck (`BasicNextWorks`,
  `PictureIsNotAwaitedForever`).

Several of these hold only with an exception, which the formula names: the
exception is what the code really does.  Such a property bounds a hazard and does
not exclude it: it says that nothing but the exception goes wrong, and not that the
exception is harmless.

## The modules

* `ScanDispatch` -- the core: REST server, broker, nodes and table `run`.
* `ScanService` -- the abstract promise: accept, start, leave.  `ScanDispatch`
  implements it under the mapping at its end (`job` from messages, rows and
  program counters; `worker` from program counters).
* `ScanDispatchProofs`, `ScanDispatchExits` -- the theorems about
  `ScanDispatch`; the second one holds those that count, exits and losses.
* `ScanModules` -- one node between `run_scan` and the mail, scan after scan.
* `ScanModulesProofs` -- the theorems about `ScanModules`.
* `ReturnQueue` -- the return queue, the cache of the REST server, the threads
  that read it and the polling loop of the wizard.
* `ReturnQueueProofs` -- the theorems about `ReturnQueue`.
* `Filtering` -- selection from a sequence, for the cache and for links.
* `SequenceLemmas` -- induction over numbers and sequences, recursive functions,
  and what follows for `Filter`.
* `Urls` -- the addresses of `webcrawler.js`, and what a browser makes of a link.
* `Crawl` -- the engine of `webcrawler.js` and its pages, over `Urls`.
* `CrawlProofs`, `CrawlLists` -- the theorems about `Crawl`; the second one has those
  in which addresses matter.
* `Wizard` -- the pages of the console and the state they share.
* `WizardProofs` -- the theorems about `Wizard`.
* `MCScanDispatch`, `MCScanModules`, `MCReturnQueue`, `MCCrawl`, `MCWizard` -- the
  small instances.

The models meet at named steps.  `Submit` of `Wizard` is what makes a request of
`ScanDispatch`; `ExecuteModules` of `ScanDispatch` is a whole scan of `ScanModules`;
`Crawler` of `ScanModules` is the outcome of a run of `Crawl`; the `replies` of
`ScanDispatch` are what `Answer` of `ReturnQueue` puts on the return queue, and the
picture that `ReturnQueue` delivers is what ends an `Attempt` of `Wizard`.  That
picture may be of any page (`get_screenshot` ignores the id, rest.rb:174):
`ReturnQueuePicture` shows it, with the buttons alone.  `Wizard` keeps of a picture only
for which login it was asked (`pic.asked`), and `PictureAskedForLogin` says no more than
that an answer is not filed under another login than the one it was asked for
(graphic.js:79 files it under the login of the moment).

### ScanDispatch

| in the model | in the code |
|---|---|
| `where[m]`, `inbox[n]` | the queue or subscription that holds a message; what is in a node's socket |
| `pc[n]` | the place of `RunServer.start`: idle, `got` (received, not acknowledged), `check` and `insert` (the two halves of `save_run2db`), `start`, `scan`, `end` (`run_scan`), `list`, and `connect`, `shoot` (Photographer) |
| `cur[n]` | the received message, then the run in `to_run` |
| `photo[r]` | the second connection of a Photographer |
| `db[r]`, `info[r]` | row of table `run`, its `target_info` |
| `starts`, `exits`, `replies` | history |

`put_scan` is one action per HTTP attempt: published or not, answered or not.
`KindOf` gives each request what the code distinguishes: a scan, a screenshot, a
list request, and three kinds `put_scan` accepts although `save_run2db` or
`run_scan` fails on them.  `Dispatch` may choose any queued message and any open
subscription with room: a redelivery makes every order possible.  The node's
STOMP connection is a reliable one, so `LoseConnection` brings it back at once;
what was not acknowledged is queued again while the run goes on, and an
acknowledgement that comes too late changes nothing.  `StartUp` may leave a node
`deaf`: `connect` rescues an exception and then `get_run` fails for ever.

`PutRun` holds the fact that keeps duplicates harmless: `db_init.rb` makes the id
the primary key of table `run`, an insert that fails is rescued, and the run is
dropped.  `CheckRunExists`, the look-up before it, is not needed for safety.

### ScanModules

`Framework` makes one instance of each test module per process, and a scan only
gives it a new `@datastore`; `Module#clean` resets two variables and is skipped
if `run` raises.  So the state is `sess` (`@session_data`), `seen`
(`@seen_before`), `lists` (`@lists`) per instance, `sid` (`@session_id` of
SessionExposedInUrl), and per scan `store`, `report`, `page`, `zip`, `mail`.  A
session is abstracted to the scan whose crawl it holds and whether it has a
`sitemap`.

A run of a test module is one step, given by the set of its outcomes: the
report calls it makes, the session it leaves in its instance, whether it
raised, the datastore afterwards.  Every outcome is a path through the module's
`run`; which path is taken depends on the target and is left open.  `Register`
is what `core/module.rb` makes of the calls.  The order of modules is that of
`[group_priority, priority]`, equal ones in any order.

### ReturnQueue

One cache for all threads.  `PollList`/`AnswerList` and
`SelectShot`/`AnswerShot` are the two halves of one look: between `select` and
`reject!` other threads and `handle_msg` go on.  `handle_msg` too is two steps,
append and acknowledge.  `get_screenshot` looks for its id behind `/reports/`,
a path it is never called with, and compares the resulting `nil` with the `id` of
messages that have none: all pictures are selected, and all are removed.  A user
of the wizard has one screenshot request at a time (`graphic.js` disables its
buttons).

### Urls and Crawl

`Urls` abstracts an address to a record of origin, path segments, a "/" at the end
and parameters, as far as `webcrawler.js` tells addresses apart.  `ReBuildURL`
follows the patterns of `reBuildURL`: one, two or three "../" at the beginning, the
last "./" anywhere, and cuts that go on into the host name above the root.
`Target` is the reference, the address a browser follows, and `Awkward` names the
links for which the two differ.  `Browsed` is what a browser makes of the address it
is given: it resolves "." and "..", so that no page asks for, or shows, an address
with dots in it, although the crawler may have opened it by one.

| in the model | in the code |
|---|---|
| `phase` | `WebCrawler.init`, `start` after `START_DELAY`, `stop` after `WEB_CRAWLER_TIME_OUT`; `hung` if `printLog` raises in `stop` |
| `pages[p]` | one `Crawler` and its PhantomJS page; `st` is which handler comes next, `next` the address it has been told to go to, `doc` what it has loaded, `timer` the one of `CRAWLER_TIME_OUT` |
| `requests`, `visited` | `all_http_requests`, `all_http_visited` |
| `all_form_post`, `injected_list`, `tags_list` | the same; a tag is abstracted to the page and the address or form it was put into |
| `todo` | the loop of `scanLink`, one link per step, with nothing in between |
| `RefuseNavigation`, `FollowNavigation`, `PostForm` | `onNavigationRequested` |
| `Redirect`, `Initialized`, `Load`, `Move` | what the browser does, with `onInitialized` and `onLoadFinished` |
| `FinishScan` | `scanForm` and the rest of `onLoadFinished` |

The site is a constant of the behaviour, `web`: tables of links, forms, further
moves and redirects, and the paths on which `scanForm` raises.  Pages of type
login are not entered in `all_http_requests`, pages of type inject have no
handlers: both come out of `NewCrawler` as they do out of the constructor.
`CrawlAssumption` says that such a web consists of addresses and links (`IsWeb`), and
nothing else about it.

### Wizard

Every page has a controller that is made anew when the page is entered; what it
has started, requests and timers, outlives it and writes into the shared state.
So `Enter` resets what belongs to a controller, and `asks`, `polls` and `late` stay.

| in the model | in the code |
|---|---|
| `page`, `walks` | `$location`; how often the user has gone past the buttons |
| `target`, `login`, `logtype`, `auto_detect`, `whitelist` | the fields of `$scope.state` |
| `account`, `valid`, `refused` | user name and passwords, and the flags of their errors |
| `working`, `suggest`, `late` | `working_flag`, the suggestions, the timer of 150 ms that puts them up (`detect.js`) |
| `asks`, `polls` | requests to `/login_detect` and `/login_fill`; the polling loop of `graphic.js` |

A text in an input is nothing, a beginning of "http://", a host, or an address:
that is what the checks distinguish.  `Walk` is Back, Forward or the address bar,
`Reload` a new document; a property that speaks of what pages promise to a user
of their buttons says `ByButtons`.  `Enter` is one step, although the change of
`$location`, the loading of the template and the first run of the controller are
three: see "Not modelled".  An answer of the server may be any the
controllers handle, or a failure, after which nothing is undone.

## Runs

| run | instance | asks |
|---|---|---|
| `ScanDispatchFaults` | 2 nodes, a scan and a screenshot, PUTs repeated once, 1 fault of any kind | the safety properties and the inductive invariant |
| `ScanDispatchBad` | 2 nodes, prefetch 2, an undecodable request, one without modules, a good one, 1 fault | the restart loop; what a fault may cost; `ImplementsService` |
| `ScanDispatchLive` | fair broker and nodes, no fault | liveness |
| `ScanDispatchKept` | as above, 1 node, without the exception | *violated*: a failed screenshot swallows a request |
| `ScanDispatchCredentials` | one scan | *violated*: the row keeps the credentials |
| `ScanModulesAll` | all 17 test modules, 2 scans of at most one, 1 exit of the process | instance variables, omissions, data and files of another scan |
| `ScanModulesShown` | all test modules, one scan of at most one | *violated*: findings counted and never shown |
| `ReturnQueue` | a list, screenshots of two users, 2 looks, 1 fault, fair threads | cache and pictures; a list in time is delivered |
| `ReturnQueuePicture` | 2 screenshots of one user | *violated*: the late picture of another page |
| `Crawl` | 357 webs: every short link in documents of four depths; redirects, loops, parameters, forms in two documents, logins, dots in the config and in forms, the crawler's marker used by the site | where the crawler goes, and what it can recognize |
| `CrawlStops` | one link with a malformed escape | *violated*: the engine does not stop |
| `Wizard` | 2 hosts, one step past the buttons | what is submitted, and that no page gets stuck |

Bounds.  Two nodes are enough for every race, which is between two holders of
one id; one request repeated once gives two messages, and one fault a
redelivery of each.  One fault suffices for every exception the properties name;
the proofs are for any number.  Prefetch 2 puts a second request into a socket, which is
what `EachFaultLosesOne` is about.  Two scans show everything an instance variable
can carry over from one run to the next; that a session may pass a scan (kept by
Sitemap in the first, written back in the second, used in the third) is beyond
the run and within the proof of `ForeignFindingsExplained`.  `ReturnQueue` has one list:
two lists take longer than a run should, and the theorems hold for any number of them,
but `ListInTimeIsDelivered` is checked for one only.  Looks are bounded by 2
instead of 6 (`MaxPolls`) and 1 or 2 attempts instead of 31 (`MaxTries`): more of
them repeat the same step.  `Crawl` has no bound on pages: its webs are finite,
and a page moves once after its first load (`MaxMoves`), which is enough for a
form, a script or a login to lead elsewhere; `MaxPages` only says for which pages
`ScannedPageIsClosed` is stated, and no later one than the seventh is loaded in these webs.
The links of `MCCrawl` have up to three segments, and four with three "../",
which is one more than the longest pattern of `reBuildURL` needs; the depths of
the documents go beyond, to, and below the number of "../".  In `Wizard` two hosts
give an old and a new target, and one step past the buttons (`MaxWalks`) takes
the user to any page from any other.  `MaxFaults`, `MaxCrashes`, `MaxScans`,
`MaxSelected`, `MaxPolls`, `MaxTries`, `MaxMoves`, `MaxPages`, `MaxWalks` and `Retry`
are all the bounds there are.  `NodeSymmetry` is used for the two runs with faults
only; the nodes are interchangeable there.  Deadlock is checked in `Wizard`: a page
can always be left or reloaded.  In the other runs a system with bounded
requests, scans or webs comes to its end.

Fairness.  `ScanDispatch!Fairness`: the broker goes on dispatching a message while
it can, and the loop of a node goes on while it can; the process of a node is
started again by `carolined` in a loop.  No user must submit anything, no fault
must happen, and nothing makes Ruby collect an abandoned connection -- the run
`ScanDispatchKept` depends on that, and so does the exception of
`AcceptedIsScanned`.  That a scan ends rests on the time limits in the modules.
That a screenshot ends rests on `longshot.js`, which gives every resource 60
seconds and exits 25 seconds after the page has loaded; `screenshot.rb` itself waits for it
without a limit.  `ReturnQueue!FairSpec`: the thread of a request and the timer of
the browser go on; neither nodes nor broker must.  `Crawl!FairSpec`: a handler runs
to its end and a timer fires, as JavaScript has it; the browser need not get on
with any page, and the engine need not be stopped.  `Wizard!FairSpec`: the oldest
request for a picture gets some answer and its timer fires; `/screenshot` of
`config.ru` looks once, and answers with the picture, a 404 or an error.  No user must click anything,
and a detection need not be answered.

Every property of a passing run has an operator named like the definition it
would replace (`PutRunWithoutKey`, `RemoveNothing`, `UpsTwice`, ...): the model with
that mistake in it violates the property.

## What the violated runs show

1. `ScanDispatchKept`.  README.md:21 says a request is kept until a node consumes
   it.  `Photographer` disconnects only after a successful shot
   (`screenshot.rb:45-59`); the subscription of a failed one takes the next
   message and never reads it.
2. `ScanDispatchCredentials`.  docs/CHANGELOG.md:68 says credentials are
   discarded; `save_run2db` strips a copy and inserts the original
   (`runserver.rb:115-125`).
3. `ScanModulesShown`.  The templates of `redir.rb` and `passwd_auto_complete.rb` are
   called `redirs.erb` and `password_auto_complete.erb`: `render.rb:39` skips
   their findings, which docs/FEATURES.md:19 and :28 advertise.
4. `ReturnQueuePicture`.  The page that says this login page is being examined
   (`graphic.js:255`) may then show the late picture of another one, because
   `get_screenshot` ignores the id (`rest.rb:174-181`).
5. `CrawlStops`.  webcrawler.js:99 says that `stop` closes all pages and stops the
   engine.  It prints the log first, which decodes every requested address
   (webcrawler.js:131); `decodeURI` raises on a malformed escape, which any link may
   have, and what follows in `stop` is not reached.

## What is proved

`ScanDispatchProofs`, by TLAPS, for every finite set of nodes and requests, every
`KindOf`, every prefetch, with or without repeated PUTs and for any number of
faults (`DispatchAssumption` states no more than that):

* `TypeCorrect`: `[]TypeOK`;
* `InvCorrect`: the inductive invariant `Inv`;
* `AtMostOnce`, `OneWorker`, `ClosedAfterScan`, `NoRequestIsLost`: the four
  safety properties of the same content;
* `OpenRowExplained`: who leaves an open row behind;
* `Implements`: `Spec => Service!Spec`, every step of the dispatch protocol is a
  step or a stutter of `ScanService`.

The argument.  None of the safety properties is inductive.  `RunInv` says why at
most one node works on a run: a node is past the insert only if the row is there
and open (`RowOfWorker`), and the insert succeeds only if it is not; so two
workers would have needed two successful inserts.  `StartsMatchRow` ties the number of
executions to the row and the place of its worker.  `HoldInv` is about messages:
what a node holds was published, an attempt that has not been made has left no
message, and without faults a message in a socket or received is the one the
broker believes to be unacknowledged there; `AckedIsTakenUp` is then
`NoSilentLoss` message by message.  `Inv` is checked by TLC in `ScanDispatchFaults`
and proved with one lemma per action.  The refinement needs `RunInv` in both
states of a step: `JobOf` and `WorkerOf` are functions of the state only because
there is one worker.

`ScanDispatchExits` proves `ExitsBounded` and `LossesBounded` under the same assumptions.
The first counts the copies of a request that can still be executed: queued (or kept by a Photographer
connection, which may give it back), in the socket of a node, or received and not
inserted yet.  `ExitBudget` is the invariant: exits and copies together are no more
than messages published and faults.  A step that ends a process uses up a copy, a
step that moves a message does not make one, and a step that makes one is a
fault.  `UnackedIsThere` is what it needs besides: a message the broker gives back
was in the socket or the hand of that node, so its copy moves and is not new.
The second counts the requests that are `Adrift`: no row, everything published is
acknowledged, and no node is about to insert it.  A message is acknowledged only by
the step that takes its request in hand (`Ack`), and a hand is emptied without a row
only by a fault, which strikes one node, or for a request that is not counted
(`DriftDrop`); that is inductive.  A request that has vanished is adrift by
`UnackedIsThere` again: what the broker still waits for is with some node.

`ScanModulesProofs`, for every choice of test modules, any number of scans, of
selected modules and of exits of the process:

* `ModulesTypeCorrect`: `[]TypeOK`;
* `RegistersAfresh`, `KeptOnlyAfterFailure`: what a run may leave in its instance;
* `OmittedExplained`: which selected modules a report can miss;
* `Attachments`: how a file of another scan gets into a mail;
* `ForeignExplained`: how data of another scan gets into a report.

The argument.  `OutcomeFacts` goes through the outcomes of all 22 modules and
shows what they have in common (`Orderly`): a run that raises has made no report
call before, a run that leaves a session has raised or reported an error.  That
makes `Inv` inductive: `TypeOK` with `EveryRunRegistersAfresh` (the last part of
`TypeOK` on the report, that whatever is in it is under a registered module,
needs a clear `@seen_before` at the beginning of a run), with
`SessionKeptOnlyAfterFailure`, and with `Underway` (a scan in progress has a
number).  `OmittedExplained` needs `Accounted` besides: the checks run after all
system modules, so that a session that was missing when a check gave up is still
missing when the report is made.
`ForeignExplained` needs `Separate`: a module still to run has kept a session only
if it failed before, and the session in `@datastore` is of this scan unless
Sitemap, the only one to write back what it has loaded, did.

`WizardProofs`, for any hosts, any inputs and any number of attempts and of steps
past the buttons: `WizardTypeCorrect`, `Complete`, `OwnLogin`, `Whitelisted`,
`AskedPicture`, `BasicIsFree` and the action property `Consent`, all of them from `WizardCorrect`.
The argument.  `WizardInv` says what the wizard knows as long as only buttons are
used, page by page: a detection is under way only on the first page, one at a
time, for the host on the whitelist (`Detecting`); behind it the target is settled
(`Settled`); whether the login was detected decides which pages can come
(`LoginKnown`); what a page lets through has been checked on it (`LoginChecked`); and
a picture is awaited on one page only, for the login it shows (`PictureKnown`).
None of these is inductive alone: that an old answer cannot change a login on the
confirmation page holds because the first page has no button that leaves it before
its request is answered; that the target is the one on the whitelist, because the
input stays read-only until then.

`CrawlProofs`, for any web, finite or not, and any number of moves: `CrawlTypeCorrect`
and `PostedByOne`, from `CrawlCorrect`.  The argument: the action a page has been let
go to is in `all_form_post` (`PostsListed`), `onNavigationRequested` refuses what is in
there, and nothing but that handler lets a page go to the action of a form --
redirects ask again, pages made by links or injection are new and have not asked,
and those of type login or inject are none of the pages the property is about.

`ReturnQueueProofs`, for any lists, screenshots and users, any number of looks,
attempts and faults: `ReturnTypeCorrect`, `OnlyLateListsStay` and `PictureLost`, all from
`ReturnCorrect`.  The argument.  Of the lists: without faults an answer is put into the
cache once, by the first half of `handle_msg`, and only the thread that asked for it
takes it out (`ListOf`); a `reject!` goes by the id, so the one for a list leaves the
other lists as they were (`RejectFacts`).  Of the pictures (`PictureOf`): from the
moment one is sent to the REST server it is in the cache, or some GET has picked it,
or a GET has emptied the cache of pictures and answered with another.  That is
inductive only together with `PickedWhenFound`: a GET picks once, so a picture that is
found in the cache is never un-picked by a later look.  The invariants speak of what
is selected from the cache, not of places in it, so all that is needed of the cache is
what `Filter` does to a sequence that grows at its end or is filtered again.

`CrawlLists`, for any web that consists of addresses:

* `CrawlAddressed`: what the crawlers have opened, are told to go to and have loaded
  are addresses (`Addressed`), and those a browser has dealt with are without dots;
* `LinksFollowed`: `[]LinksResolved`, for links and documents of any depth;
* `NoneCrawledTwice`, `OpenedTagsKnown`, `LoginSearchedOnce`, `PostedFormsKnown`: the lists
  that the handlers of all pages share are kept as they should be.

The argument.  `Addressed` carries everything else: it needs that a page is scanned
only if it has loaded something, and that the browser has resolved the dots of it.
Behind `LinksFollowed` is an induction over paths (`LinkResolved`): what a path resolves
to is what its last segment makes of what the ones before it resolve to, so only the
beginning of a link may climb, `Ups` counts these segments up to three, and what is
behind the last dots is appended to what is left of the directory -- unless the link
is `Awkward`, each of whose cases some step of this proof has to leave out.  `Requested`
is the reason for `NoneCrawledTwice`: every page has an entry of its own in
`all_http_requests`, and a page is made only if there is none with its `uniqueUrlStr`;
`PostForm` adds to that list but makes no page.  `InjectedKnown` ties `injected_list`,
which decides whether tags are listed, to the tags of an opened page; that the same
list holds the actions of forms as well does no harm because a `uniqueUrlStr` is never
equal to one of them (`UniqueFacts`).  `LoginBound` counts the login pages and the links of the login
page that are still to be opened: there are such links for one document only, the one that was
loaded before `LOGIN_LOAD` was set.  `FormsKnown` follows the tags of a form from
the scan of a document through the page that asks for its action to the page
that has been let go there: a form `scanForm` leaves out is in `injected_list`, hence in
`all_form_post`, and is refused.  For that no link, redirect or move of the site may
have the marker itself (`UsesMarker`), and no scan of a form may raise.

Every safety property of every passing run is stated by one of these theorems.
Two things made them possible.  The prover has no induction over
data, but a set of numbers with no least element is a set like any other:
`SequenceLemmas` derives induction over numbers and sequences in terms of sets, and the
value of a function that is defined by recursion (`Recursion`).  And what
`SelectSeq` does is hidden from the prover; `Filter` is the same selection by a recursive
function.

Only model-checked.  All liveness, as fairness and ENABLED are beyond the prover:
`AcceptedIsScanned`, `ListIsSent`, `ListInTimeIsDelivered`, `ScannedPageIsClosed` and
`PictureIsNotAwaitedForever`.  And the five violated properties, which need a behaviour
and not a proof.

## Not modelled

* Vendored code (jQuery, AngularJS, ngDialog, checklist-model and other
  libraries), which is most of the JavaScript in the repository.
* `autologin.js` and `longshot.js`: each drives one page in one process; only their
  outcomes are modelled.
* In the wizard: the choice of single modules (the dialog of `confirm.js`), drawing
  and dragging the markers and their positions, the two text pages, and what is
  shown after the submission.  Also the moment in which a page has been left and the
  template of the next one is still being fetched: the old page is live then, and can
  be edited after its checks.  `SubmittedIsComplete` and `ConsentIsForThis` do not
  cover that moment.
* In `config.ru`: following redirects and finding a login form (any answer may
  come), and the request capture, whose hook is never installed.
* `creep.py`, and the merge of its output with that of `webcrawler.js` in
  `crawler.rb`: text handling.  In `webcrawler.js` the headers of a page, which
  button or image is clicked, and the log.
* What a test module sends and how it judges answers; `PathTree` and the other
  helpers.
* Loading errors of the framework; lock and pid files of the daemon scripts; the
  local mode without SMTP; loggers and configuration; the disabled routes
  `get_scan` and `get_status`; two threads inside one `reject!`.

`PROJECT.json` lists them as components with the reason, and the hazards no
property covers with a note.

## What is left

`PathTree` against a reference definition; the daemon scripts, if a model of pid
files reused by other processes is wanted; the choice of modules in `confirm.js`; and a
composition of `ScanDispatch` and `ReturnQueue` in one specification, which now meet
at `replies` only.
