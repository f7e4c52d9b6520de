----------------------------- MODULE CrawlProofs -----------------------------
(***************************************************************************)
(* Theorems about Crawl: for any web, and any number of pages and of       *)
(* navigations.  What the addresses are does not matter for them.          *)
(***************************************************************************)
EXTENDS Crawl, SequenceLemmas

\* TypeOK for one page, and what it leaves open: that pages with tags in their
\* addresses have no handlers.
IsPage(page) ==
  /\ DOMAIN page = {"url", "type", "st", "doc", "next", "timer", "moves"}
  /\ page.type \in {"login", "normal", "inject"}
  /\ page.st \in {"asking", "loading", "ready", "loaded", "open", "closed"}
  /\ page.st = "open" => page.type = "inject"
  /\ page.type = "inject" => page.st \in {"open", "closed"}
  /\ page.st = "asking" => page.type = "normal"
  /\ page.timer \in BOOLEAN
  /\ page.timer => page.type = "normal"
  /\ page.moves \in 0..MaxMoves

\* ps is a list of pages.
ArePages(ps) == ps \in Seq(Elements(ps)) /\ \A p \in DOMAIN ps : IsPage(ps[p])

Typed ==
  /\ web \in Webs
  /\ phase \in {"init", "delay", "crawling", "hung", "exited"}
  /\ LOGIN_LOAD \in BOOLEAN
  /\ ArePages(pages)
  /\ DOMAIN todo = {"page", "links"}
  /\ todo = Idle \/ (todo.page \in DOMAIN pages /\ pages[todo.page].type # "inject")

\* The action a page has been let go to is in all_form_post.
IsPosted(page) ==
  page.type = "normal" /\ page.st \in {"loading", "ready", "loaded"} /\ IsPost(FixUrlEnd(page.next))

PostsListed ==
  \A p \in DOMAIN pages : IsPosted(pages[p]) => FixUrlEnd(pages[p].next) \in all_form_post

\* The inductive invariant.
CrawlInv == Typed /\ PostsListed /\ PostedOnce

-----------------------------------------------------------------------------
(* Sequences of pages.                                                     *)

\* A sequence is one of its elements.
LEMMA ElementsFacts ==
  ASSUME NEW T, NEW t \in Seq(T)
  PROVE  t \in Seq(Elements(t))
<1>1. \A i \in 1..Len(t) : t[i] \in Elements(t)
  BY DEF Elements
<1>2. QED
  BY <1>1

\* Appending to a sequence of anything.
LEMMA AppendFacts ==
  ASSUME NEW s, s \in Seq(Elements(s)), NEW a
  PROVE  LET t == Append(s, a)
         IN  /\ t \in Seq(Elements(t)) /\ Len(t) = Len(s) + 1
             /\ DOMAIN t = 1..(Len(s) + 1) /\ DOMAIN s = 1..Len(s)
             /\ \A i \in DOMAIN s : t[i] = s[i]
             /\ t[Len(s) + 1] = a
<1> DEFINE T == Elements(s) \cup {a}
           t == Append(s, a)
<1>1. s \in Seq(T) /\ a \in T
  OBVIOUS
<1>2. /\ t \in Seq(T) /\ Len(t) = Len(s) + 1 /\ t[Len(s) + 1] = a
      /\ \A i \in 1..Len(s) : t[i] = s[i]
  BY <1>1
<1>3. DOMAIN s = 1..Len(s) /\ Len(s) \in Nat
  BY <1>1
<1>4. DOMAIN t = 1..(Len(s) + 1)
  BY <1>2
<1>5. t \in Seq(Elements(t))
  BY <1>2, ElementsFacts
<1>6. QED
  BY <1>2, <1>3, <1>4, <1>5

\* One page, or two of them, behind a list of pages.
LEMMA GrowFacts ==
  ASSUME NEW ps, ArePages(ps), NEW a, NEW b, IsPage(a), IsPage(b),
         NEW t, t = ps \o <<a>> \/ t = ps \o <<a, b>>
  PROVE  /\ ArePages(t)
         /\ \A i \in DOMAIN ps : i \in DOMAIN t /\ t[i] = ps[i]
         /\ \A i \in DOMAIN t : i \in DOMAIN ps \/ t[i] = a \/ t[i] = b
<1> DEFINE one == Append(ps, a)
           two == Append(one, b)
<1>1. /\ one \in Seq(Elements(one)) /\ Len(one) = Len(ps) + 1
      /\ DOMAIN one = 1..(Len(ps) + 1) /\ DOMAIN ps = 1..Len(ps)
      /\ \A i \in DOMAIN ps : one[i] = ps[i]
      /\ one[Len(ps) + 1] = a
  BY AppendFacts DEF ArePages
<1>2. /\ two \in Seq(Elements(two)) /\ Len(two) = Len(one) + 1
      /\ DOMAIN two = 1..(Len(one) + 1)
      /\ \A i \in DOMAIN one : two[i] = one[i]
      /\ two[Len(one) + 1] = b
  BY <1>1, AppendFacts
<1>3. ps \in Seq(Elements(ps)) /\ Len(ps) \in Nat
  BY DEF ArePages
<1>4. ps \o <<a>> = one /\ ps \o <<a, b>> = two
  <2> DEFINE T == Elements(ps) \cup {a, b}
  <2>1. ps \in Seq(T) /\ a \in T /\ b \in T
    BY <1>3
  <2>2. QED
    BY <2>1
<1> HIDE DEF one, two
<1>5. CASE t = one
  <2>1. \A i \in DOMAIN one : i \in DOMAIN ps \/ i = Len(ps) + 1
    BY <1>1, <1>3
  <2>2. \A i \in DOMAIN one : i \in DOMAIN ps \/ one[i] = a
    BY <1>1, <2>1
  <2>3. \A i \in DOMAIN ps : i \in DOMAIN one
    BY <1>1, <1>3
  <2>4. QED
    BY <1>1, <1>5, <2>2, <2>3 DEF ArePages
<1>6. CASE t = two
  <2>1. \A i \in DOMAIN two : i \in DOMAIN ps \/ i = Len(ps) + 1 \/ i = Len(one) + 1
    BY <1>1, <1>2, <1>3
  <2>2. Len(ps) + 1 \in DOMAIN one
    BY <1>1, <1>3
  <2>3. \A i \in DOMAIN two : i \in DOMAIN ps \/ two[i] = a \/ two[i] = b
    BY <1>1, <1>2, <2>1, <2>2
  <2>4. \A i \in DOMAIN ps : i \in DOMAIN one /\ i \in DOMAIN two
    BY <1>1, <1>2, <1>3
  <2>5. \A i \in DOMAIN ps : two[i] = ps[i]
    BY <1>1, <1>2, <2>4
  <2>6. QED
    BY <1>2, <1>6, <2>3, <2>4, <2>5 DEF ArePages
<1>7. QED
  BY <1>4, <1>5, <1>6

\* A new page is one, and has not been let go to a form's action.
LEMMA PageFacts ==
  ASSUME NEW u, NEW type \in {"login", "normal", "inject"},
         NEW st \in {"asking", "loading", "open"},
         st = "open" <=> type = "inject", st = "asking" <=> type = "normal"
  PROVE  IsPage(Page(u, type, st)) /\ ~IsPosted(Page(u, type, st))
  BY CrawlAssumption DEF IsPage, IsPosted, Page

\* A new crawler leaves the pages before it alone.
LEMMA NewCrawlerFacts ==
  ASSUME NEW ps, ArePages(ps), NEW u, NEW type \in {"login", "normal"}, NewCrawler(ps, u, type)
  PROVE  /\ ArePages(pages')
         /\ \A i \in DOMAIN ps : i \in DOMAIN pages' /\ pages'[i] = ps[i]
         /\ \A i \in DOMAIN pages' : i \in DOMAIN ps \/ ~IsPosted(pages'[i])
<1> DEFINE own == Page(u, type, IF type = "login" THEN "loading" ELSE "asking")
           inject == Page(InjectUrl(u), "inject", "open")
<1>1. IsPage(own) /\ ~IsPosted(own) /\ IsPage(inject) /\ ~IsPosted(inject)
  BY PageFacts
<1>2. pages' \in {ps, ps \o <<own>>, ps \o <<own, inject>>}
  BY DEF NewCrawler
<1> HIDE DEF own, inject
<1>3. CASE pages' = ps
  BY <1>3
<1>4. CASE pages' = ps \o <<own>> \/ pages' = ps \o <<own, inject>>
  <2>1. /\ ArePages(pages')
        /\ \A i \in DOMAIN ps : i \in DOMAIN pages' /\ pages'[i] = ps[i]
        /\ \A i \in DOMAIN pages' : i \in DOMAIN ps \/ pages'[i] = own \/ pages'[i] = inject
    BY <1>1, <1>4, GrowFacts
  <2>2. QED
    BY <1>1, <2>1
<1>5. QED
  BY <1>2, <1>3, <1>4

\* One page changes.
LEMMA ChangeFacts ==
  ASSUME NEW ps, ArePages(ps), NEW p \in DOMAIN ps, NEW page, IsPage(page)
  PROVE  LET t == [ps EXCEPT ![p] = page]
         IN  /\ ArePages(t) /\ DOMAIN t = DOMAIN ps /\ t[p] = page
             /\ \A i \in DOMAIN ps : i # p => t[i] = ps[i]
<1> DEFINE t == [ps EXCEPT ![p] = page]
           T == Elements(ps) \cup {page}
<1>1. ps \in Seq(Elements(ps)) /\ \A i \in DOMAIN ps : IsPage(ps[i])
  BY DEF ArePages
<1>2. ps \in Seq(T) /\ page \in T
  BY <1>1
<1>3. t \in Seq(T) /\ DOMAIN t = DOMAIN ps /\ t[p] = page
      /\ \A i \in DOMAIN ps : i # p => t[i] = ps[i]
  BY <1>2
<1>4. \A i \in DOMAIN t : IsPage(t[i])
  BY <1>1, <1>3
<1>5. t \in Seq(Elements(t))
  BY <1>3, ElementsFacts
<1>6. QED
  BY <1>3, <1>4, <1>5 DEF ArePages

-----------------------------------------------------------------------------
(* Steps that let no page go to the action of a form.                      *)

\* If no page begins to be posted, the forms are still posted once.
LEMMA QuietStep ==
  ASSUME PostsListed, PostedOnce, all_form_post' = all_form_post,
         \A p \in DOMAIN pages' : IsPosted(pages'[p]) =>
           p \in DOMAIN pages /\ IsPosted(pages[p]) /\ pages'[p].next = pages[p].next
  PROVE  PostsListed' /\ PostedOnce'
<1>1. PostsListed'
  BY DEF PostsListed
<1>2. PostedOnce'
  <2> SUFFICES ASSUME NEW p \in Normal', NEW q \in Normal', Posted(p)', Posted(q)',
                      FixUrlEnd(pages[p].next)' = FixUrlEnd(pages[q].next)'
               PROVE  p = q
    BY DEF PostedOnce
  <2>1. p \in DOMAIN pages' /\ q \in DOMAIN pages' /\ IsPosted(pages'[p]) /\ IsPosted(pages'[q])
    BY DEF Normal, Posted, IsPosted
  <2>2. /\ p \in DOMAIN pages /\ IsPosted(pages[p]) /\ pages'[p].next = pages[p].next
        /\ q \in DOMAIN pages /\ IsPosted(pages[q]) /\ pages'[q].next = pages[q].next
    BY <2>1
  <2>3. p \in Normal /\ q \in Normal /\ Posted(p) /\ Posted(q)
    BY <2>2 DEF Normal, Posted, IsPosted
  <2>4. FixUrlEnd(pages[p].next) = FixUrlEnd(pages[q].next)
    BY <2>2
  <2>5. QED
    BY <2>3, <2>4 DEF PostedOnce
<1>3. QED
  BY <1>1, <1>2

\* One page changes, and does not begin to be posted.
LEMMA ChangeStep ==
  ASSUME CrawlInv, NEW p \in DOMAIN pages, NEW page, IsPage(page),
         pages' = [pages EXCEPT ![p] = page],
         IsPosted(page) => IsPosted(pages[p]) /\ page.next = pages[p].next,
         all_form_post' = all_form_post
  PROVE  /\ ArePages(pages') /\ PostsListed' /\ PostedOnce'
         /\ DOMAIN pages' = DOMAIN pages /\ pages'[p] = page
<1>1. /\ ArePages(pages') /\ DOMAIN pages' = DOMAIN pages /\ pages'[p] = page
      /\ \A i \in DOMAIN pages : i # p => pages'[i] = pages[i]
  BY ChangeFacts DEF CrawlInv, Typed
<1>2. \A i \in DOMAIN pages' : IsPosted(pages'[i]) =>
        i \in DOMAIN pages /\ IsPosted(pages[i]) /\ pages'[i].next = pages[i].next
  BY <1>1
<1>3. PostsListed' /\ PostedOnce'
  BY <1>2, QuietStep DEF CrawlInv
<1>4. QED
  BY <1>1, <1>3

\* A page with nothing but another st, which is not one of a posted page unless it
\* was posted.
LEMMA StateFacts ==
  ASSUME NEW page, IsPage(page), NEW st \in {"asking", "loading", "ready", "loaded", "open", "closed"},
         st = "open" => page.type = "inject",
         page.type = "inject" => st \in {"open", "closed"},
         st = "asking" => page.type = "normal"
  PROVE  LET new == [page EXCEPT !.st = st]
         IN  IsPage(new) /\ new.st = st /\ new.type = page.type /\ new.next = page.next
<1> DEFINE new == [page EXCEPT !.st = st]
<1>1. DOMAIN page = {"url", "type", "st", "doc", "next", "timer", "moves"}
  BY DEF IsPage
<1>2. /\ new.st = st /\ new.type = page.type /\ new.next = page.next
      /\ new.timer = page.timer /\ new.moves = page.moves
  BY <1>1
<1>3. DOMAIN new = DOMAIN page
  BY <1>1
<1> HIDE DEF new
<1>4. IsPage(new)
  BY <1>1, <1>2, <1>3 DEF IsPage
<1>5. QED
  BY <1>2, <1>4 DEF new

\* A crawler is created, and nothing else happens to the pages.
LEMMA GrowStep ==
  ASSUME CrawlInv, NEW u, NEW type \in {"login", "normal"}, NewCrawler(pages, u, type),
         all_form_post' = all_form_post
  PROVE  /\ ArePages(pages') /\ PostsListed' /\ PostedOnce'
         /\ \A i \in DOMAIN pages : i \in DOMAIN pages' /\ pages'[i] = pages[i]
<1>1. /\ ArePages(pages')
      /\ \A i \in DOMAIN pages : i \in DOMAIN pages' /\ pages'[i] = pages[i]
      /\ \A i \in DOMAIN pages' : i \in DOMAIN pages \/ ~IsPosted(pages'[i])
  BY NewCrawlerFacts DEF CrawlInv, Typed
<1>2. \A i \in DOMAIN pages' : IsPosted(pages'[i]) =>
        i \in DOMAIN pages /\ IsPosted(pages[i]) /\ pages'[i].next = pages[i].next
  BY <1>1
<1>3. PostsListed' /\ PostedOnce'
  BY <1>2, QuietStep DEF CrawlInv
<1>4. QED
  BY <1>1, <1>3

-----------------------------------------------------------------------------
(* The invariant holds at first, and is preserved.                         *)

\* At first there are no pages.
LEMMA InitCorrect == Init => CrawlInv
<1> SUFFICES ASSUME Init PROVE CrawlInv
  OBVIOUS
<1>1. pages = <<>> /\ DOMAIN pages = {}
  BY DEF Init
<1>2. pages \in Seq(Elements(pages))
  BY <1>1 DEF Elements
<1>3. ArePages(pages)
  BY <1>1, <1>2 DEF ArePages
<1>4. DOMAIN todo = {"page", "links"} /\ todo = Idle
  BY DEF Init, Idle
<1>5. Typed
  BY <1>3, <1>4 DEF Init, Typed
<1>6. PostsListed /\ PostedOnce
  BY <1>1 DEF PostsListed, PostedOnce, Normal
<1>7. QED
  BY <1>5, <1>6 DEF CrawlInv

\* What is left of Typed when the pages before are still there.
LEMMA StillTyped ==
  ASSUME Typed, ArePages(pages'), web' = web, phase' \in {"init", "delay", "crawling", "hung", "exited"},
         LOGIN_LOAD' \in BOOLEAN, todo' = todo,
         todo = Idle \/ \A i \in DOMAIN pages : i \in DOMAIN pages' /\ pages'[i].type = pages[i].type
  PROVE  Typed'
  BY DEF Typed, Idle

\* The steps that create a crawler.
LEMMA InitStep == CrawlInv /\ WebCrawlerInit => CrawlInv'
<1> SUFFICES ASSUME CrawlInv, WebCrawlerInit PROVE CrawlInv'
  OBVIOUS
<1>1. /\ phase' = "delay" /\ all_form_post' = all_form_post
      /\ UNCHANGED <<web, LOGIN_LOAD, todo>>
  BY DEF WebCrawlerInit
<1>2. CASE web.login = NoUrl
  <2>1. pages' = pages
    BY <1>2 DEF WebCrawlerInit
  <2>2. Typed'
    BY <1>1, <2>1, StillTyped DEF CrawlInv, Typed
  <2>3. PostsListed' /\ PostedOnce'
    BY <1>1, <2>1, QuietStep DEF CrawlInv
  <2>4. QED
    BY <2>2, <2>3 DEF CrawlInv
<1>3. CASE web.login # NoUrl
  <2>1. NewCrawler(pages, FixURL(web.login), "login")
    BY <1>3 DEF WebCrawlerInit
  <2>2. /\ ArePages(pages') /\ PostsListed' /\ PostedOnce'
        /\ \A i \in DOMAIN pages : i \in DOMAIN pages' /\ pages'[i] = pages[i]
    BY <1>1, <2>1, GrowStep
  <2>3. Typed'
    BY <1>1, <2>2, StillTyped DEF CrawlInv, Typed
  <2>4. QED
    BY <2>2, <2>3 DEF CrawlInv
<1>4. QED
  BY <1>2, <1>3

LEMMA StartStep == CrawlInv /\ Start => CrawlInv'
<1> SUFFICES ASSUME CrawlInv, Start PROVE CrawlInv'
  OBVIOUS
<1>1. /\ phase' = "crawling" /\ all_form_post' = all_form_post
      /\ UNCHANGED <<web, LOGIN_LOAD, todo>>
      /\ NewCrawler(pages, FixURL(web.target), "normal")
  BY DEF Start
<1>2. /\ ArePages(pages') /\ PostsListed' /\ PostedOnce'
      /\ \A i \in DOMAIN pages : i \in DOMAIN pages' /\ pages'[i] = pages[i]
  BY <1>1, GrowStep
<1>3. Typed'
  BY <1>1, <1>2, StillTyped DEF CrawlInv, Typed
<1>4. QED
  BY <1>2, <1>3 DEF CrawlInv

LEMMA ScanLinkStep == CrawlInv /\ ScanLink => CrawlInv'
<1> SUFFICES ASSUME CrawlInv, ScanLink PROVE CrawlInv'
  OBVIOUS
<1> DEFINE page == pages[todo.page]
           u == FixURL(ReBuildURL(page.doc, page.url, Head(todo.links)))
<1>1. /\ NewCrawler(pages, u, page.type)
      /\ todo' = [todo EXCEPT !.links = Tail(todo.links)]
      /\ all_form_post' = all_form_post /\ UNCHANGED <<web, phase, LOGIN_LOAD>>
  BY DEF ScanLink
<1>2. todo # Idle
  BY DEF ScanLink, Idle
<1>3. todo.page \in DOMAIN pages /\ page.type \in {"login", "normal"}
  BY <1>2 DEF CrawlInv, Typed, ArePages, IsPage
<1> HIDE DEF u
<1>4. /\ ArePages(pages') /\ PostsListed' /\ PostedOnce'
      /\ \A i \in DOMAIN pages : i \in DOMAIN pages' /\ pages'[i] = pages[i]
  BY <1>1, <1>3, GrowStep
<1>5. DOMAIN todo' = {"page", "links"} /\ todo'.page = todo.page
  BY <1>1 DEF CrawlInv, Typed
<1>6. todo'.page \in DOMAIN pages' /\ pages'[todo'.page].type # "inject"
  BY <1>3, <1>4, <1>5
<1>7. Typed'
  BY <1>1, <1>4, <1>5, <1>6 DEF CrawlInv, Typed
<1>8. QED
  BY <1>4, <1>7 DEF CrawlInv

-----------------------------------------------------------------------------
(* The steps in which one page changes.                                    *)

\* A page gets a new state while no links are being scanned.
LEMMA SetStep ==
  ASSUME CrawlInv, todo = Idle, NEW p \in DOMAIN pages,
         NEW st \in {"asking", "loading", "ready", "loaded", "open", "closed"},
         pages' = [pages EXCEPT ![p].st = st],
         st = "open" => pages[p].type = "inject",
         pages[p].type = "inject" => st \in {"open", "closed"},
         st = "asking" => pages[p].type = "normal",
         IsPosted([pages[p] EXCEPT !.st = st]) => IsPosted(pages[p]),
         UNCHANGED <<web, all_form_post, todo, LOGIN_LOAD>>,
         phase' \in {"init", "delay", "crawling", "hung", "exited"}
  PROVE  CrawlInv'
<1> DEFINE new == [pages[p] EXCEPT !.st = st]
<1>1. IsPage(pages[p])
  BY DEF CrawlInv, Typed, ArePages
<1>2. IsPage(new) /\ new.next = pages[p].next
  BY <1>1, StateFacts
<1>3. pages' = [pages EXCEPT ![p] = new] /\ (IsPosted(new) => IsPosted(pages[p]))
  OBVIOUS
<1> HIDE DEF new
<1>4. ArePages(pages') /\ PostsListed' /\ PostedOnce'
  BY <1>2, <1>3, ChangeStep
<1>5. Typed'
  BY <1>4, StillTyped DEF CrawlInv, Typed
<1>6. QED
  BY <1>4, <1>5 DEF CrawlInv

LEMMA RefuseStep ==
  ASSUME CrawlInv, NEW p \in DOMAIN pages, RefuseNavigation(p) PROVE CrawlInv'
<1>1. /\ todo = Idle /\ pages' = [pages EXCEPT ![p].st = "closed"]
      /\ UNCHANGED <<web, phase, all_form_post, todo, LOGIN_LOAD>>
  BY DEF RefuseNavigation, Asking, Set
<1>2. ~IsPosted([pages[p] EXCEPT !.st = "closed"])
  BY DEF IsPosted, CrawlInv, Typed, ArePages, IsPage
<1>3. phase \in {"init", "delay", "crawling", "hung", "exited"}
  BY DEF CrawlInv, Typed
<1>4. QED
  BY <1>1, <1>2, <1>3, SetStep

LEMMA CloseStep ==
  ASSUME CrawlInv, NEW p \in DOMAIN pages, CloseTimer(p) PROVE CrawlInv'
<1>1. /\ todo = Idle /\ pages' = [pages EXCEPT ![p].st = "closed"]
      /\ UNCHANGED <<web, phase, all_form_post, todo, LOGIN_LOAD>>
  BY DEF CloseTimer, Set
<1>2. ~IsPosted([pages[p] EXCEPT !.st = "closed"])
  BY DEF IsPosted, CrawlInv, Typed, ArePages, IsPage
<1>3. phase \in {"init", "delay", "crawling", "hung", "exited"}
  BY DEF CrawlInv, Typed
<1>4. QED
  BY <1>1, <1>2, <1>3, SetStep

\* The page that asked goes on to an address that is not a form's.
LEMMA FollowStep ==
  ASSUME CrawlInv, NEW p \in DOMAIN pages, FollowNavigation(p) PROVE CrawlInv'
<1> DEFINE new == [pages[p] EXCEPT !.st = "loading"]
           ps == Set(p, "loading")
<1>1. /\ todo = Idle /\ pages[p].st = "asking" /\ ~IsPost(FixUrlEnd(pages[p].next))
      /\ UNCHANGED <<web, phase, all_form_post, todo, LOGIN_LOAD>>
  BY DEF FollowNavigation, Asking, Asked
<1>2. IsPage(pages[p]) /\ pages[p].type = "normal" /\ ArePages(pages)
  BY <1>1 DEF CrawlInv, Typed, ArePages, IsPage
<1>3. IsPage(new) /\ new.next = pages[p].next
  BY <1>2, StateFacts
<1>4. ~IsPosted(new) /\ ps = [pages EXCEPT ![p] = new]
  BY <1>1, <1>3 DEF IsPosted, Set
<1> HIDE DEF new, ps
<1>5. /\ ArePages(ps) /\ DOMAIN ps = DOMAIN pages /\ ps[p] = new
      /\ \A i \in DOMAIN pages : i # p => ps[i] = pages[i]
  BY <1>2, <1>3, <1>4, ChangeFacts
<1>6. /\ ArePages(pages')
      /\ \A i \in DOMAIN pages' : (i \in DOMAIN ps /\ pages'[i] = ps[i]) \/ ~IsPosted(pages'[i])
  <2>1. CASE pages' = ps
    BY <1>5, <2>1
  <2>2. CASE NewCrawler(ps, FixURL(Asked(p)), "normal")
    <3>1. /\ ArePages(pages')
          /\ \A i \in DOMAIN ps : i \in DOMAIN pages' /\ pages'[i] = ps[i]
          /\ \A i \in DOMAIN pages' : i \in DOMAIN ps \/ ~IsPosted(pages'[i])
      BY <1>5, <2>2, NewCrawlerFacts
    <3>2. QED
      BY <3>1
  <2>3. QED
    BY <2>1, <2>2 DEF FollowNavigation, ps
<1>7. \A i \in DOMAIN pages' : IsPosted(pages'[i]) =>
        i \in DOMAIN pages /\ IsPosted(pages[i]) /\ pages'[i].next = pages[i].next
  <2> SUFFICES ASSUME NEW i \in DOMAIN pages', IsPosted(pages'[i])
               PROVE  i \in DOMAIN pages /\ IsPosted(pages[i]) /\ pages'[i].next = pages[i].next
    OBVIOUS
  <2>1. i \in DOMAIN ps /\ pages'[i] = ps[i]
    BY <1>6
  <2>2. i # p
    BY <1>4, <1>5, <2>1
  <2>3. QED
    BY <1>5, <2>1, <2>2
<1>8. PostsListed' /\ PostedOnce'
  BY <1>1, <1>7, QuietStep DEF CrawlInv
<1>9. Typed'
  BY <1>1, <1>6, StillTyped DEF CrawlInv, Typed
<1>10. QED
  BY <1>8, <1>9 DEF CrawlInv

\* No page has been let go to the action yet, or it would be in all_form_post.
LEMMA PostStep ==
  ASSUME CrawlInv, NEW p \in DOMAIN pages, PostForm(p) PROVE CrawlInv'
<1> DEFINE new == [pages[p] EXCEPT !.st = "loading"]
           action == FixUrlEnd(pages[p].next)
<1>1. /\ todo = Idle /\ pages[p].st = "asking" /\ action \notin all_form_post
      /\ pages' = [pages EXCEPT ![p] = new] /\ all_form_post' = all_form_post \cup {action}
      /\ UNCHANGED <<web, phase, todo, LOGIN_LOAD>>
  BY DEF PostForm, Asking, Asked, Refused, Set
<1>2. IsPage(pages[p]) /\ pages[p].type = "normal" /\ ArePages(pages)
  BY <1>1 DEF CrawlInv, Typed, ArePages, IsPage
<1>3. IsPage(new) /\ new.next = pages[p].next
  BY <1>2, StateFacts
<1> HIDE DEF new
<1>4. /\ ArePages(pages') /\ DOMAIN pages' = DOMAIN pages /\ pages'[p] = new
      /\ \A i \in DOMAIN pages : i # p => pages'[i] = pages[i]
  BY <1>1, <1>2, <1>3, ChangeFacts
<1>5. \A i \in DOMAIN pages' : i # p /\ IsPosted(pages'[i]) =>
        FixUrlEnd(pages'[i].next) \in all_form_post
  BY <1>4 DEF CrawlInv, PostsListed
<1>6. FixUrlEnd(pages'[p].next) = action
  BY <1>3, <1>4
<1> HIDE DEF action
<1>7. PostsListed'
  BY <1>1, <1>5, <1>6 DEF PostsListed
<1>8. PostedOnce'
  <2> SUFFICES ASSUME NEW i \in Normal', NEW j \in Normal', Posted(i)', Posted(j)',
                      FixUrlEnd(pages[i].next)' = FixUrlEnd(pages[j].next)'
               PROVE  i = j
    BY DEF PostedOnce
  <2>1. /\ i \in DOMAIN pages' /\ j \in DOMAIN pages' /\ IsPosted(pages'[i]) /\ IsPosted(pages'[j])
        /\ FixUrlEnd(pages'[i].next) = FixUrlEnd(pages'[j].next)
    BY DEF Normal, Posted, IsPosted
  <2>2. CASE i = p \/ j = p
    BY <1>1, <1>5, <1>6, <2>1, <2>2
  <2>3. CASE i # p /\ j # p
    <3>1. /\ i \in DOMAIN pages /\ j \in DOMAIN pages /\ IsPosted(pages[i]) /\ IsPosted(pages[j])
          /\ FixUrlEnd(pages[i].next) = FixUrlEnd(pages[j].next)
      BY <1>4, <2>1, <2>3
    <3>2. i \in Normal /\ j \in Normal /\ Posted(i) /\ Posted(j)
      BY <3>1 DEF Normal, Posted, IsPosted
    <3>3. QED
      BY <3>1, <3>2 DEF CrawlInv, PostedOnce
  <2>4. QED
    BY <2>2, <2>3
<1>9. Typed'
  BY <1>1, <1>4, StillTyped DEF CrawlInv, Typed
<1>10. QED
  BY <1>7, <1>8, <1>9 DEF CrawlInv

-----------------------------------------------------------------------------
(* The browser, the end of a scan, and the end of the engine.              *)

\* What a browser's step makes of a page that is not posted afterwards, or goes
\* on to the address it was let go to.
LEMMA BrowserStep ==
  ASSUME CrawlInv, todo = Idle, NEW p \in DOMAIN pages, NEW new, IsPage(new),
         pages' = [pages EXCEPT ![p] = new],
         IsPosted(new) => IsPosted(pages[p]) /\ new.next = pages[p].next,
         UNCHANGED <<web, phase, all_form_post, todo, LOGIN_LOAD>>
  PROVE  CrawlInv'
<1>1. ArePages(pages') /\ PostsListed' /\ PostedOnce'
  BY ChangeStep
<1>2. Typed'
  BY <1>1, StillTyped DEF CrawlInv, Typed
<1>3. QED
  BY <1>1, <1>2 DEF CrawlInv

LEMMA RedirectStep ==
  ASSUME CrawlInv, NEW p \in DOMAIN pages, Redirect(p) PROVE CrawlInv'
<1> DEFINE page == pages[p]
           st == IF page.type = "login" THEN "loading" ELSE "asking"
           new == [[page EXCEPT !.next = Browsed(web.redirect[page.next.path])] EXCEPT !.st = st]
<1>1. /\ todo = Idle /\ page.st = "loading"
      /\ UNCHANGED <<web, phase, all_form_post, todo, LOGIN_LOAD>>
  BY DEF Redirect, Loading
<1>2. IsPage(page)
  BY DEF CrawlInv, Typed, ArePages
<1>3. pages' = [pages EXCEPT ![p] = new]
  BY DEF Redirect
<1>4. DOMAIN page = {"url", "type", "st", "doc", "next", "timer", "moves"}
  BY <1>2 DEF IsPage
<1>5. /\ new.st = st /\ new.type = page.type /\ new.timer = page.timer
      /\ new.moves = page.moves /\ DOMAIN new = DOMAIN page
  BY <1>4
<1> HIDE DEF new
<1>6. IsPage(new) /\ ~IsPosted(new)
  BY <1>1, <1>2, <1>4, <1>5 DEF IsPage, IsPosted
<1>7. QED
  BY <1>1, <1>3, <1>6, BrowserStep

LEMMA InitializedStep ==
  ASSUME CrawlInv, NEW p \in DOMAIN pages, Initialized(p) PROVE CrawlInv'
<1> DEFINE page == pages[p]
           new(st) == [[page EXCEPT !.st = st] EXCEPT !.doc = page.next]
<1>1. /\ todo = Idle /\ page.st = "loading"
      /\ UNCHANGED <<web, phase, all_form_post, todo, LOGIN_LOAD>>
  BY DEF Initialized, Loading
<1>2. IsPage(page)
  BY DEF CrawlInv, Typed, ArePages
<1>3. PICK st \in {"ready", "closed"} : pages' = [pages EXCEPT ![p] = new(st)]
  BY DEF Initialized
<1>4. DOMAIN page = {"url", "type", "st", "doc", "next", "timer", "moves"}
  BY <1>2 DEF IsPage
<1>5. /\ new(st).st = st /\ new(st).type = page.type /\ new(st).timer = page.timer
      /\ new(st).moves = page.moves /\ DOMAIN new(st) = DOMAIN page /\ new(st).next = page.next
  BY <1>4
<1> HIDE DEF new
<1>6. IsPage(new(st))
  BY <1>1, <1>2, <1>4, <1>5 DEF IsPage
<1>7. IsPosted(new(st)) => IsPosted(page) /\ new(st).next = page.next
  BY <1>1, <1>3, <1>5 DEF IsPosted
<1>8. QED
  BY <1>1, <1>3, <1>6, <1>7, BrowserStep

LEMMA MoveStep ==
  ASSUME CrawlInv, NEW p \in DOMAIN pages, Move(p) PROVE CrawlInv'
<1> DEFINE page == pages[p]
           st == IF page.type = "login" THEN "loading" ELSE "asking"
           new(u) == [[[page EXCEPT !.next = Browsed(u)] EXCEPT !.moves = page.moves + 1] EXCEPT !.st = st]
<1>1. /\ todo = Idle /\ page.st = "loaded" /\ page.moves < MaxMoves
      /\ UNCHANGED <<web, phase, all_form_post, todo, LOGIN_LOAD>>
  BY DEF Move
<1>2. IsPage(page)
  BY DEF CrawlInv, Typed, ArePages
<1>3. PICK u : pages' = [pages EXCEPT ![p] = new(u)]
  BY DEF Move
<1>4. DOMAIN page = {"url", "type", "st", "doc", "next", "timer", "moves"}
  BY <1>2 DEF IsPage
<1>5. /\ new(u).st = st /\ new(u).type = page.type /\ new(u).timer = page.timer
      /\ new(u).moves = page.moves + 1 /\ DOMAIN new(u) = DOMAIN page
  BY <1>4
<1> HIDE DEF new
<1>6. new(u).moves \in 0..MaxMoves
  BY <1>1, <1>2, <1>5, CrawlAssumption DEF IsPage
<1>7. IsPage(new(u)) /\ ~IsPosted(new(u))
  BY <1>1, <1>2, <1>4, <1>5, <1>6 DEF IsPage, IsPosted
<1>8. QED
  BY <1>1, <1>3, <1>7, BrowserStep

\* The page whose links are scanned next is not one with tags in its address.
LEMMA LoadStep ==
  ASSUME CrawlInv, NEW p \in DOMAIN pages, Load(p) PROVE CrawlInv'
<1> DEFINE page == pages[p]
           new(doc) == [[page EXCEPT !.st = "loaded"] EXCEPT !.doc = doc]
<1>1. PICK doc : page.st \in {"ready", "loading"} /\ LoadFinished(p, doc)
  BY DEF Load
<1>2. UNCHANGED <<web, phase, all_form_post>>
  BY DEF Load
<1>3. IsPage(page)
  BY DEF CrawlInv, Typed, ArePages
<1>4. DOMAIN page = {"url", "type", "st", "doc", "next", "timer", "moves"}
  BY <1>3 DEF IsPage
<1>5. /\ new(doc).st = "loaded" /\ new(doc).type = page.type /\ new(doc).timer = page.timer
      /\ new(doc).moves = page.moves /\ DOMAIN new(doc) = DOMAIN page /\ new(doc).next = page.next
  BY <1>4
<1>6. pages' = [pages EXCEPT ![p] = new(doc)]
  BY <1>1 DEF LoadFinished
<1> HIDE DEF new
<1>7. IsPage(new(doc))
  BY <1>1, <1>3, <1>4, <1>5 DEF IsPage
<1>8. IsPosted(new(doc)) => IsPosted(page) /\ new(doc).next = page.next
  BY <1>1, <1>5 DEF IsPosted
<1>9. /\ ArePages(pages') /\ PostsListed' /\ PostedOnce'
      /\ DOMAIN pages' = DOMAIN pages /\ pages'[p] = new(doc)
  BY <1>2, <1>6, <1>7, <1>8, ChangeStep
<1>10. LOGIN_LOAD' \in BOOLEAN
  BY <1>1 DEF LoadFinished, LoginLoaded, CrawlInv, Typed
<1>11. DOMAIN todo' = {"page", "links"} /\ todo'.page = p
  BY <1>1 DEF LoadFinished
<1>12. pages'[p].type # "inject"
  BY <1>1, <1>3, <1>5, <1>9 DEF IsPage
<1>13. Typed'
  BY <1>2, <1>9, <1>10, <1>11, <1>12 DEF CrawlInv, Typed
<1>14. QED
  BY <1>9, <1>13 DEF CrawlInv

LEMMA FinishScanStep == CrawlInv /\ FinishScan => CrawlInv'
<1> SUFFICES ASSUME CrawlInv, FinishScan PROVE CrawlInv'
  OBVIOUS
<1> DEFINE page == pages[todo.page]
           new == [page EXCEPT !.timer = TRUE]
<1>1. todo.page \in DOMAIN pages /\ IsPage(page)
  BY DEF FinishScan, CrawlInv, Typed, ArePages
<1>2. todo' = Idle /\ DOMAIN todo' = {"page", "links"}
  BY DEF FinishScan, Idle
<1>3. UNCHANGED <<web, phase, all_form_post, LOGIN_LOAD>>
  BY DEF FinishScan
<1>4. ArePages(pages') /\ PostsListed' /\ PostedOnce'
  <2>1. CASE ~Scanned(page)
    <3>1. pages' = pages
      BY <2>1 DEF FinishScan
    <3>2. PostsListed' /\ PostedOnce'
      BY <1>3, <3>1, QuietStep DEF CrawlInv
    <3>3. QED
      BY <3>1, <3>2 DEF CrawlInv, Typed
  <2>2. CASE Scanned(page)
    <3>1. pages' = [pages EXCEPT ![todo.page] = new]
      BY <2>2 DEF FinishScan
    <3>2. page.type = "normal"
      BY <2>2 DEF Scanned
    <3>3. DOMAIN page = {"url", "type", "st", "doc", "next", "timer", "moves"}
      BY <1>1 DEF IsPage
    <3>4. /\ new.st = page.st /\ new.type = page.type /\ new.timer = TRUE
          /\ new.moves = page.moves /\ DOMAIN new = DOMAIN page /\ new.next = page.next
      BY <3>3
    <3> HIDE DEF new
    <3>5. IsPage(new)
      BY <1>1, <3>2, <3>3, <3>4 DEF IsPage
    <3>6. IsPosted(new) => IsPosted(page) /\ new.next = page.next
      BY <3>4 DEF IsPosted
    <3>7. QED
      BY <1>1, <1>3, <3>1, <3>5, <3>6, ChangeStep
  <2>3. QED
    BY <2>1, <2>2
<1>5. Typed'
  BY <1>2, <1>3, <1>4 DEF CrawlInv, Typed
<1>6. QED
  BY <1>4, <1>5 DEF CrawlInv

LEMMA StopStep == CrawlInv /\ Stop => CrawlInv'
<1> SUFFICES ASSUME CrawlInv, Stop PROVE CrawlInv'
  OBVIOUS
<1> DEFINE new(i) == [pages[i] EXCEPT !.st = "closed"]
           closed == [i \in DOMAIN pages |-> new(i)]
<1>1. /\ todo = Idle /\ phase' \in {"hung", "exited"}
      /\ UNCHANGED <<web, all_form_post, todo, LOGIN_LOAD>>
  BY DEF Stop
<1>2. pages' = pages \/ pages' = closed
  BY DEF Stop
<1>3. pages \in Seq(Elements(pages)) /\ \A i \in DOMAIN pages : IsPage(pages[i])
  BY DEF CrawlInv, Typed, ArePages
<1>4. \A i \in DOMAIN pages : IsPage(new(i)) /\ ~IsPosted(new(i))
  <2> SUFFICES ASSUME NEW i \in DOMAIN pages PROVE IsPage(new(i)) /\ ~IsPosted(new(i))
    OBVIOUS
  <2>1. IsPage(new(i)) /\ new(i).st = "closed"
    BY <1>3, StateFacts
  <2> HIDE DEF new
  <2>2. QED
    BY <2>1 DEF IsPosted
<1> HIDE DEF new
<1>5. ArePages(closed) /\ \A i \in DOMAIN closed : ~IsPosted(closed[i])
  <2>1. \A i \in DOMAIN closed : closed[i] = new(i) /\ i \in DOMAIN pages
    OBVIOUS
  <2>2. DOMAIN pages = 1..Len(pages) /\ Len(pages) \in Nat
    BY <1>3
  <2>3. closed \in Seq({new(i) : i \in DOMAIN pages})
    BY <2>2
  <2> HIDE DEF closed
  <2>4. closed \in Seq(Elements(closed))
    BY <2>3, ElementsFacts
  <2>5. QED
    BY <1>4, <2>1, <2>4 DEF ArePages
<1> HIDE DEF closed
<1>6. ArePages(pages') /\ PostsListed' /\ PostedOnce'
  <2>1. CASE pages' = pages
    <3>1. PostsListed' /\ PostedOnce'
      BY <1>1, <2>1, QuietStep DEF CrawlInv
    <3>2. QED
      BY <2>1, <3>1 DEF CrawlInv, Typed
  <2>2. CASE pages' = closed
    <3>1. PostsListed' /\ PostedOnce'
      BY <1>1, <1>5, <2>2, QuietStep DEF CrawlInv
    <3>2. QED
      BY <1>5, <2>2, <3>1
  <2>3. QED
    BY <1>2, <2>1, <2>2
<1>7. Typed'
  BY <1>1, <1>6, StillTyped DEF CrawlInv, Typed
<1>8. QED
  BY <1>6, <1>7 DEF CrawlInv

-----------------------------------------------------------------------------
\* Every step of the crawler, and of the browser, preserves the invariant.
LEMMA StepCorrect == CrawlInv /\ [Next]_vars => CrawlInv'
<1> SUFFICES ASSUME CrawlInv, [Next]_vars PROVE CrawlInv'
  OBVIOUS
<1>1. CASE WebCrawlerInit \/ Start \/ Stop \/ ScanLink \/ FinishScan
  BY <1>1, InitStep, StartStep, StopStep, ScanLinkStep, FinishScanStep
<1>2. ASSUME NEW p \in DOMAIN pages, Handler(p) \/ Browser(p) \/ CloseTimer(p)
      PROVE  CrawlInv'
  <2>1. CASE Handler(p)
    BY <2>1, RefuseStep, FollowStep, PostStep DEF Handler
  <2>2. CASE Browser(p)
    BY <2>2, RedirectStep, InitializedStep, LoadStep, MoveStep DEF Browser
  <2>3. QED
    BY <1>2, <2>1, <2>2, CloseStep
<1>3. CASE UNCHANGED vars
  <2>1. UNCHANGED <<web, phase, LOGIN_LOAD, pages, all_form_post, todo>>
    BY <1>3 DEF vars
  <2>2. Typed'
    BY <2>1 DEF CrawlInv, Typed
  <2>3. PostsListed' /\ PostedOnce'
    BY <2>1, QuietStep DEF CrawlInv
  <2>4. QED
    BY <2>2, <2>3 DEF CrawlInv
<1>4. QED
  BY <1>1, <1>2, <1>3 DEF Next

\* The inductive invariant holds of every web, and of crawls of any length.
THEOREM CrawlCorrect == Spec => []CrawlInv
<1>1. QED
  BY InitCorrect, StepCorrect, PTL DEF Spec

\* Type correctness; above all, a page with tags in its address is never scanned
\* for links, and asks for no navigation, because it has no handlers.
THEOREM CrawlTypeCorrect == Spec => []TypeOK
<1>1. CrawlInv => TypeOK
  <2> SUFFICES ASSUME CrawlInv PROVE TypeOK
    OBVIOUS
  <2>1. \A p \in DOMAIN pages : IsPage(pages[p])
    BY DEF CrawlInv, Typed, ArePages
  <2>2. \A p \in DOMAIN pages : pages[p].st \in {"ready", "loaded"} => pages[p].type # "inject"
    BY <2>1 DEF IsPage
  <2>3. QED
    BY <2>1, <2>2 DEF CrawlInv, Typed, IsPage, TypeOK
<1>2. QED
  BY <1>1, CrawlCorrect, PTL

\* onNavigationRequested lets one page go to the action of a form, and no other
\* while that one stays there: however many documents have the form, and whatever
\* the redirects and the timers do.
THEOREM PostedByOne == Spec => []PostedOnce
<1>1. CrawlInv => PostedOnce
  BY DEF CrawlInv
<1>2. QED
  BY <1>1, CrawlCorrect, PTL
=============================================================================
