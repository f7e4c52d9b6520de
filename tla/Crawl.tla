-------------------------------- MODULE Crawl --------------------------------
(***************************************************************************)
(* caroline/modules/creep/webcrawler.js: one PhantomJS process opens the   *)
(* login page and, a minute later, the target, and from there a page of    *)
(* its own for every link and every navigation it has not seen, until the  *)
(* engine is stopped after three minutes.                                  *)
(*                                                                         *)
(* JavaScript runs a handler to its end, so a handler is an action; the    *)
(* loop over the links of a document (scanLink) is one action per link,    *)
(* and nothing else happens while todo has links.  The browser (which of   *)
(* the pages gets on, where a document moves to) is external.              *)
(***************************************************************************)
EXTENDS Urls, Filtering, FiniteSets

CONSTANTS
  Webs,      \* what the crawler may be given: the config, and the site
  MaxMoves,  \* bound on the navigations a page makes after its first load
  MaxPages,  \* pages ScannedPageIsClosed is stated for
  NoUrl

(* A web is a record: target and login (NoUrl if the login is not of type  *)
(* "normal") of the config; and, by path, the links of the documents, the  *)
(* actions of their POST forms, where else they may move (scripts, clicks, *)
(* GET forms, the login), the redirects of the server; weird is the set of *)
(* the paths on whose forms scanForm raises an exception.                  *)

IsWeb(w) ==
  /\ w.target \in Addresses /\ w.login \in Addresses \cup {NoUrl}
  /\ \A path \in DOMAIN w.links : w.links[path] \in Seq(Links)
  /\ \A path \in DOMAIN w.forms : w.forms[path] \subseteq Addresses
  /\ \A path \in DOMAIN w.moves : w.moves[path] \subseteq Addresses
  /\ \A path \in DOMAIN w.redirect : w.redirect[path] \in Addresses

ASSUME CrawlAssumption ==
  /\ MaxMoves \in Nat /\ NoUrl \notin Addresses
  /\ \A w \in Webs : IsWeb(w)

VARIABLES
  web,            \* config, and what the browser will find
  phase,          \* the engine: "init", "delay", "crawling", "exited", or "hung"
  HOSTNAME,       \* <<>> until the first page is initialized
  LOGIN_LOAD,
  pages,          \* every page in the order of its creation
  requests,       \* all_http_requests
  visited,        \* all_http_visited
  all_form_post,
  injected_list,
  tags_list,      \* what the tags of tags_list are in: an address, or a form
  todo            \* the page whose links are being scanned, and those left

vars == <<web, phase, HOSTNAME, LOGIN_LOAD, pages, requests, visited,
          all_form_post, injected_list, tags_list, todo>>
lists == <<requests, injected_list, tags_list>>

Marker   == <<"crawlerforminject", "true">>
IsPost(u) == Marker \in u.args
Has(u, seg) == seg \in ToSet(u.path)
Malformed(u) == Has(u, "%")             \* decodeURI raises an exception

Content(table, doc, none) ==
  IF doc # NoUrl /\ doc.path \in DOMAIN table THEN table[doc.path] ELSE none
LinksOf(doc)  == Content(web.links, doc, <<>>)
ActionsOf(doc) ==
  {[f EXCEPT !.args = @ \cup {Marker}] : f \in {g \in Content(web.forms, doc, {}) : ~IsPost(g)}}
MovesOf(doc)  == ActionsOf(doc) \cup Content(web.moves, doc, {})
Weird(doc)    == doc # NoUrl /\ doc.path \in web.weird

Idle == [page |-> 0, links |-> <<>>]
Up   == phase \notin {"init", "exited"}

Init ==
  /\ web \in Webs
  /\ phase = "init"
  /\ HOSTNAME = <<>> /\ LOGIN_LOAD = FALSE
  /\ pages = <<>>
  /\ requests = {} /\ visited = {} /\ all_form_post = {} /\ injected_list = {} /\ tags_list = {}
  /\ todo = Idle

-----------------------------------------------------------------------------
(* function Crawler.                                                       *)

\* A mistake: addresses are compared with their values.
KnownExactly(u) == \E r \in requests : r.normal /\ r.url = u

\* crawlerCheck; the requests of injected addresses have no uniqueUrlStr.
Known(u) == \E r \in requests : r.normal /\ Unique(r.url) = Unique(u)

\* A mistake: injected_list.push before HttpURL makes the tags.
InjectedTooEarly(u) == Names(u) # {}

\* crawlerCheckInjected(uniqueUrlStr).
Injected(u) == Unique(u) \in injected_list \/ Marker[1] \in Names(u)

Page(u, type, st) ==
  [url |-> u, type |-> type, st |-> st, doc |-> NoUrl, next |-> Browsed(u), timer |-> FALSE, moves |-> 0]

\* new Crawler(u, type) behind the pages ps.  An address with parameters is opened
\* a second time with tags in place of the values; that page has no handlers.
\* HttpURL has listed the tags, unless the address was injected before.
NewCrawler(ps, u, type) ==
  IF Known(u) THEN pages' = ps /\ UNCHANGED lists
  ELSE LET own    == Page(u, type, IF type = "login" THEN "loading" ELSE "asking")
           inject == Page(InjectUrl(u), "inject", "open")
           tagged == Names(u) # {}
       IN  /\ pages' = ps \o (IF tagged THEN <<own, inject>> ELSE <<own>>)
           /\ requests' = requests
                \cup (IF type = "login" THEN {} ELSE {[url |-> u, normal |-> TRUE]})
                \cup (IF tagged THEN {[url |-> inject.url, normal |-> FALSE]} ELSE {})
           /\ injected_list' = IF tagged THEN injected_list \cup {Unique(u)} ELSE injected_list
           /\ tags_list' = IF tagged /\ ~Injected(u)
                           THEN tags_list \cup {[page |-> Len(ps) + 2, url |-> inject.url]}
                           ELSE tags_list

\* WebCrawler.init; the two timers start.
WebCrawlerInit ==
  /\ phase = "init"
  /\ phase' = "delay"
  /\ IF web.login = NoUrl THEN UNCHANGED <<pages, lists>>
     ELSE NewCrawler(pages, FixURL(web.login), "login")
  /\ UNCHANGED <<web, HOSTNAME, LOGIN_LOAD, visited, all_form_post, todo>>

\* WebCrawler.start, after START_DELAY.
Start ==
  /\ phase = "delay" /\ todo = Idle
  /\ phase' = "crawling"
  /\ NewCrawler(pages, FixURL(web.target), "normal")
  /\ UNCHANGED <<web, HOSTNAME, LOGIN_LOAD, visited, all_form_post, todo>>

-----------------------------------------------------------------------------
(* page.onNavigationRequested.                                             *)

OnSite(u) == HOSTNAME = <<>> \/ IsPrefix(Site(web.target.origin[1], HOSTNAME), u.origin)

\* A mistake: a form is refused only if its address has been opened by a crawler.
RefusedIfVisited(page, u) ==
  \/ Has(page.next, "logout") \/ ~OnSite(u)
  \/ (u = page.url \/ Known(FixURL(u))) /\ u \in visited

Refused(page, u) ==
  \/ Has(page.next, "logout")
  \/ ~OnSite(u)
  \/ ~IsPost(u) /\ (u = page.url \/ Known(FixURL(u))) /\ u \in visited
  \/ IsPost(u) /\ u \in all_form_post

Asking(p) == Up /\ todo = Idle /\ p \in DOMAIN pages /\ pages[p].st = "asking"
Asked(p)  == FixUrlEnd(pages[p].next)
Set(p, st) == [pages EXCEPT ![p].st = st]

RefuseNavigation(p) ==
  /\ Asking(p) /\ Refused(pages[p], Asked(p))
  /\ pages' = Set(p, "closed")
  /\ UNCHANGED <<web, phase, HOSTNAME, LOGIN_LOAD, lists, visited, all_form_post, todo>>

\* A new address gets a crawler of its own; the page that asked goes there too.
FollowNavigation(p) ==
  /\ Asking(p) /\ ~IsPost(Asked(p)) /\ ~Refused(pages[p], Asked(p))
  /\ IF Asked(p) = pages[p].url THEN pages' = Set(p, "loading") /\ UNCHANGED lists
     ELSE NewCrawler(Set(p, "loading"), FixURL(Asked(p)), "normal")
  /\ UNCHANGED <<web, phase, HOSTNAME, LOGIN_LOAD, visited, all_form_post, todo>>

PostForm(p) ==
  /\ Asking(p) /\ IsPost(Asked(p)) /\ ~Refused(pages[p], Asked(p))
  /\ pages' = Set(p, "loading")
  /\ all_form_post' = all_form_post \cup {Asked(p)}
  /\ injected_list' = injected_list \cup {Asked(p)}
  /\ requests' = requests \cup {[url |-> FixURL(Asked(p)), normal |-> TRUE]}
  /\ UNCHANGED <<web, phase, HOSTNAME, LOGIN_LOAD, visited, tags_list, todo>>

-----------------------------------------------------------------------------
(* The browser, and the handlers it calls on the way.                      *)

Redirects(page) == page.next.path \in DOMAIN web.redirect
Loading(p) == Up /\ todo = Idle /\ p \in DOMAIN pages /\ pages[p].st = "loading"

\* The server redirects; the browser asks again.
Redirect(p) ==
  /\ Loading(p) /\ Redirects(pages[p])
  /\ pages' = [pages EXCEPT ![p].next = Browsed(web.redirect[@.path]),
                            ![p].st = IF pages[p].type = "login" THEN "loading" ELSE "asking"]
  /\ UNCHANGED <<web, phase, HOSTNAME, LOGIN_LOAD, lists, visited, all_form_post, todo>>

\* page.onInitialized.  Whether "this" is the page there, and close has an effect,
\* is left to the browser.
Initialized(p) ==
  /\ Loading(p) /\ ~Redirects(pages[p])
  /\ HOSTNAME' = IF HOSTNAME = <<>> THEN Host(pages[p].next) ELSE HOSTNAME
  /\ \E st \in {"ready"} \cup (IF HOSTNAME' # Host(pages[p].next) THEN {"closed"} ELSE {}) :
       pages' = [pages EXCEPT ![p].st = st, ![p].doc = pages[p].next]
  /\ UNCHANGED <<web, phase, LOGIN_LOAD, lists, visited, all_form_post, todo>>

\* The links that scanLink takes out of a document.
Wanted(doc) == Filter(LinksOf(doc), {h \in ToSet(LinksOf(doc)) :
  /\ ~Has(h.url, "logout")
  /\ h.kind = "abs"  => IsPrefix(Site(doc.origin[1], HOSTNAME), h.url.origin)
  /\ h.kind = "root" => IsPrefix(Site(doc.origin[1], HOSTNAME), doc.origin)})

\* A mistake: LOGIN_LOAD is never set.
NeverLoggedIn(page) == FALSE

\* LOGIN_LOAD once page has been loaded.
LoginLoaded(page) == LOGIN_LOAD \/ page.type = "login"

\* page.onLoadFinished, up to the scan, and the callback of page.open, which
\* comes after the scan (nothing reads all_http_visited in between).
LoadFinished(p, doc) ==
  /\ pages' = [pages EXCEPT ![p].st = "loaded", ![p].doc = doc]
  /\ visited' = IF pages[p].type = "login" THEN visited ELSE visited \cup {pages[p].url}
  /\ LOGIN_LOAD' = LoginLoaded(pages[p])
  /\ todo' = [page |-> p,
              links |-> IF pages[p].type = "login" /\ LOGIN_LOAD THEN <<>> ELSE Wanted(doc)]

Load(p) ==
  /\ Up /\ todo = Idle /\ p \in DOMAIN pages
  /\ \/ pages[p].st = "ready" /\ LoadFinished(p, pages[p].doc)
     \/ pages[p].st = "loading" /\ LoadFinished(p, NoUrl)     \* status "fail"
  /\ UNCHANGED <<web, phase, HOSTNAME, lists, all_form_post>>

\* One turn of the loop of scanLink.
ScanLink ==
  /\ todo.links # <<>>
  /\ LET page == pages[todo.page]
     IN  NewCrawler(pages, FixURL(ReBuildURL(page.doc, page.url, Head(todo.links))), page.type)
  /\ todo' = [todo EXCEPT !.links = Tail(@)]
  /\ UNCHANGED <<web, phase, HOSTNAME, LOGIN_LOAD, visited, all_form_post>>

\* A mistake: a form is taken for tested as soon as it has tags anywhere.
UntaggedForms(doc) == ActionsOf(doc) \ (injected_list \cup {tag.url : tag \in tags_list})

\* The POST forms of which scanForm returns the tags.
NewForms(doc) == ActionsOf(doc) \ injected_list

\* A mistake: the timer is set only if the page could be loaded.
ScannedDocument(page) == page.type = "normal" /\ page.doc # NoUrl /\ ~Weird(page.doc)

\* A mistake: the login page gets a timer, too.
ScannedOrLoggedIn(page) == ~Weird(page.doc)

\* scanPage has come to its end without an exception.
Scanned(page) == page.type = "normal" /\ ~Weird(page.doc)

\* The rest of onLoadFinished: the login form is filled in, or scanForm lists the
\* tags it has put into the forms and the page gets its timer.
FinishScan ==
  /\ todo # Idle /\ todo.links = <<>>
  /\ LET page == pages[todo.page]
     IN IF ~Scanned(page) THEN UNCHANGED <<pages, tags_list>>
        ELSE /\ pages' = [pages EXCEPT ![todo.page].timer = TRUE]
             /\ tags_list' = tags_list \cup
                  {[page |-> todo.page, url |-> f] : f \in NewForms(page.doc)}
  /\ todo' = Idle
  /\ UNCHANGED <<web, phase, HOSTNAME, LOGIN_LOAD, requests, visited, all_form_post, injected_list>>

\* A loaded document goes elsewhere: a form that was submitted, a script, a click.
Move(p) ==
  /\ Up /\ todo = Idle /\ p \in DOMAIN pages
  /\ pages[p].st = "loaded" /\ pages[p].moves < MaxMoves
  /\ \E u \in MovesOf(pages[p].doc) :
       pages' = [pages EXCEPT ![p].next = Browsed(u), ![p].moves = @ + 1,
                              ![p].st = IF pages[p].type = "login" THEN "loading" ELSE "asking"]
  /\ UNCHANGED <<web, phase, HOSTNAME, LOGIN_LOAD, lists, visited, all_form_post, todo>>

\* CRAWLER_TIME_OUT.
CloseTimer(p) ==
  /\ Up /\ todo = Idle /\ p \in DOMAIN pages
  /\ pages[p].timer /\ pages[p].st # "closed"
  /\ pages' = Set(p, "closed")
  /\ UNCHANGED <<web, phase, HOSTNAME, LOGIN_LOAD, lists, visited, all_form_post, todo>>

\* WebCrawler.stop, after WEB_CRAWLER_TIME_OUT: printLog decodes every request.
Stop ==
  /\ phase = "crawling" /\ todo = Idle
  /\ IF \E r \in requests : Malformed(r.url) THEN phase' = "hung" /\ UNCHANGED pages
     ELSE phase' = "exited" /\ pages' = [p \in DOMAIN pages |-> [pages[p] EXCEPT !.st = "closed"]]
  /\ UNCHANGED <<web, HOSTNAME, LOGIN_LOAD, lists, visited, all_form_post, todo>>

-----------------------------------------------------------------------------
Handler(p) == RefuseNavigation(p) \/ FollowNavigation(p) \/ PostForm(p)
Browser(p) == Redirect(p) \/ Initialized(p) \/ Load(p) \/ Move(p)

Next ==
  \/ WebCrawlerInit \/ Start \/ Stop \/ ScanLink \/ FinishScan
  \/ \E p \in DOMAIN pages : Handler(p) \/ Browser(p) \/ CloseTimer(p)

Spec == Init /\ [][Next]_vars

\* Handlers run to their end and timers fire.  The engine need not be stopped,
\* and the browser need not get on with any page.
FairSpec ==
  /\ Spec
  /\ WF_vars(ScanLink \/ FinishScan)
  /\ WF_vars(\E p \in DOMAIN pages : CloseTimer(p))

-----------------------------------------------------------------------------
TypeOK ==
  /\ web \in Webs
  /\ phase \in {"init", "delay", "crawling", "hung", "exited"}
  /\ LOGIN_LOAD \in BOOLEAN
  /\ \A p \in DOMAIN pages :
       /\ pages[p].type \in {"login", "normal", "inject"}
       /\ pages[p].st \in {"asking", "loading", "ready", "loaded", "open", "closed"}
       /\ pages[p].st = "open" => pages[p].type = "inject"
       /\ pages[p].st = "asking" => pages[p].type = "normal"
       /\ pages[p].st \in {"ready", "loaded"} => pages[p].type # "inject"
       /\ pages[p].timer => pages[p].type = "normal"
       /\ pages[p].moves \in 0..MaxMoves
  /\ todo = Idle \/ todo.page \in DOMAIN pages

Normal == {p \in DOMAIN pages : pages[p].type = "normal"}

\* No page of the site is crawled twice, whatever values its parameters have and
\* however it was found -- unless one of the two addresses has a "/" in front of
\* its parameters or a "." or ".." in its path, which the crawler does not see to
\* be the same.
CrawledOnce ==
  \A p, q \in Normal :
    LET u == pages[p].url  v == pages[q].url
    IN  p # q /\ u.origin = v.origin /\ Resolved(u.path) = Resolved(v.path) /\ Names(u) = Names(v)
          => \E w \in {u, v} : w.slash \/ ToSet(w.path) \cap Dots # {}

\* The address a link is crawled by is the one a browser would follow, except for
\* the links named in Awkward.
LinksResolved ==
  todo.links # <<>> =>
    LET page == pages[todo.page]  h == Head(todo.links)
    IN  Resource(FixURL(ReBuildURL(page.doc, page.url, h))) = Target(page.doc, h)
          \/ Awkward(page.doc, page.url, h)

\* Whatever was injected can be recognized: the tags in an opened address are in
\* tags_list, or those of an earlier page of the same address with the same names
\* are (pages linked from the login page are not counted as requested, and are
\* injected again) -- unless the site has a parameter of the crawler's name.
TagsKnown ==
  \A p \in DOMAIN pages : pages[p].type = "inject" =>
    \/ \E q \in 1..p : pages[q].url = pages[p].url /\ [page |-> q, url |-> pages[q].url] \in tags_list
    \/ Marker[1] \in Names(pages[p].url)

\* p has been let go to the action of a POST form.
Posted(p) == /\ p \in Normal /\ pages[p].st \in {"loading", "ready", "loaded"}
             /\ IsPost(FixUrlEnd(pages[p].next))

\* The site has the marker of the crawler in an address of its own, as when it
\* redirects a posted form and keeps the query.
UsesMarker ==
  \/ \E u \in {web.target, web.login} \ {NoUrl} : IsPost(u)
  \/ \E path \in DOMAIN web.links : \E h \in ToSet(web.links[path]) : IsPost(h.url)
  \/ \E path \in DOMAIN web.moves : \E u \in web.moves[path] : IsPost(u)
  \/ \E path \in DOMAIN web.redirect : IsPost(web.redirect[path])

\* The tags in a posted form are in tags_list, even if another document has the
\* same form and was tagged before -- unless scanForm raises on some form.
PostedTagsKnown ==
  \A p \in Normal : Posted(p) =>
    \/ \E tag \in tags_list : tag.page = p /\ FixUrlEnd(Browsed(tag.url)) = FixUrlEnd(pages[p].next)
    \/ web.weird # {} \/ UsesMarker

\* A form is posted by one page only, however many documents have it.
PostedOnce ==
  \A p, q \in Normal :
    Posted(p) /\ Posted(q) /\ FixUrlEnd(pages[p].next) = FixUrlEnd(pages[q].next) => p = q

\* Only one login page is searched for links, so that the login does not spread
\* over the site.
LoginScannedOnce ==
  LET logins == {p \in DOMAIN pages : pages[p].type = "login"}
  IN  \/ Cardinality(logins) <= 1
      \/ \E path \in DOMAIN web.links : Cardinality(logins) <= 1 + Len(web.links[path])

\* A page that was loaded, even in vain, is closed after a while, unless the scan
\* of its document has raised an exception.
ScannedPageIsClosed ==
  \A p \in 1..MaxPages :
    (p \in Normal /\ pages[p].st = "loaded" /\ ~Weird(pages[p].doc))
      ~> (p \in Normal /\ pages[p].st = "closed")

-----------------------------------------------------------------------------
\* webcrawler.js:99: "close/release all pages and stop PhantomJS engine."
EngineStops == phase # "hung"
=============================================================================
