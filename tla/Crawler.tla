------------------------------ MODULE Crawler ------------------------------
(***************************************************************************)
(* One crawl of a site for brand research: the home page first, then the   *)
(* pages its links and the sitemap lead to, by two lanes that share a      *)
(* queue.  A lane's steps are what runs between two awaits.                *)
(*                                                                         *)
(* A page stands for its key (pageKey): scheme, www and a closing slash    *)
(* make no difference.  Delays and the content of pages are left out.      *)
(***************************************************************************)
EXTENDS Naturals, FiniteSets, SequencesExt

CONSTANTS
  Pages,      \* keys of pages, the home page among them
  Home,       \* where the crawl starts
  Sites,      \* the sites considered: what links where, and how each page answers
  Lanes,      \* the two workers of the crawl
  Caps,       \* values of maxPages considered
  MaxQueued,  \* MAX_QUEUED
  MaxHops     \* MAX_REDIRECTS

\* What a configuration must give them.
CrawlerParameters ==
  /\ Home \in Pages /\ Caps \subseteq Nat \ {0} /\ MaxQueued \in Nat /\ MaxHops \in Nat
  /\ \A s \in Sites :
       /\ DOMAIN s = {"links", "to", "sitemap", "answer", "crawlable"}
       /\ s.links \in [Pages -> Seq(Pages)] /\ s.sitemap \in Seq(Pages)
       /\ s.to \in [Pages -> Pages] /\ s.crawlable \subseteq Pages
       /\ s.answer \in [Pages -> {"page", "missing", "file"}]

VARIABLES
  site,       \* the site, which does not change during the crawl
  maxPages,
  phase,      \* "home", "links", "pages", "done", or "failed" once the promise was rejected
  pages,      \* the pages recorded, in order
  seen,       \* keys ever queued or landed on
  crawled,    \* keys of the pages read
  queue,
  lane,       \* of each lane: where it is and its page
  aborted,    \* the crawl's time is up
  mapped,     \* history: the sitemap was read
  requested,  \* history: pages asked for
  broken      \* history: pages whose request or body failed

crvars == <<site, maxPages, phase, pages, seen, crawled, queue, lane, aborted, mapped, requested, broken>>
given  == <<site, maxPages>>

At(l, pc) == lane[l].pc = pc
Crawlable(p) == p \in site.crawlable

-----------------------------------------------------------------------------
(* fetchFollowing *)

\* The pages asked for from p on: every hop is allowed before it is requested, but for those of
\* the home page, which may lead anywhere.
Hops(p) ==
  LET Chain[n \in 0..MaxHops] ==
        IF n = 0 THEN <<p>>
        ELSE LET c == Chain[n - 1]
                 next == site.to[Last(c)]
             IN IF next # Last(c) /\ (p = Home \/ Crawlable(next)) THEN Append(c, next) ELSE c
  IN Chain[MaxHops]

\* The page that answers with something else than a redirect, unless a hop was refused or there
\* were too many.
Landed(p) == {f \in {Last(Hops(p))} : site.to[f] = f}

\* enqueue, link after link: the new crawlable ones, while there is room.
Enqueue(state, links) ==
  FoldLeft(LAMBDA s, p :
             IF p \in s.seen \/ ~ Crawlable(p) \/ Cardinality(s.seen) >= MaxQueued THEN s
             ELSE [seen |-> s.seen \cup {p}, queue |-> Append(s.queue, p)],
           state, links)

-----------------------------------------------------------------------------
(* The home page, its links and the sitemap *)

\* What the home page lands on must be allowed and be a page, or there is no crawl.
FetchHome ==
  /\ phase = "home"
  /\ requested' = IF Crawlable(Home) THEN ToSet(Hops(Home)) ELSE {}
  /\ \/ \E f \in Landed(Home) :
          /\ Crawlable(Home) /\ Crawlable(f) /\ site.answer[f] = "page"
          /\ pages' = <<f>>
          /\ crawled' = {f}
          /\ seen' = {Home, f}
          /\ phase' = "links"
     \/ phase' = "failed" /\ UNCHANGED <<pages, crawled, seen>>
  /\ UNCHANGED <<given, queue, lane, aborted, mapped, broken>>

\* The home page's links go first, then those of the sitemap, if it can be read.
SeedQueue ==
  LET linked == Enqueue([seen |-> seen, queue |-> queue], site.links[Last(pages)])
  IN /\ phase = "links"
     /\ mapped' \in {FALSE, maxPages > 1}
     /\ LET all == IF mapped' THEN Enqueue(linked, site.sitemap) ELSE linked
        IN seen' = all.seen /\ queue' = all.queue
     /\ phase' = "pages"
     /\ UNCHANGED <<given, pages, crawled, lane, aborted, requested, broken>>

-----------------------------------------------------------------------------
(* The lanes *)

\* The lane is at the head of its loop, with n pages recorded and this queue: it takes the next
\* page, or returns.
Loops(l, n, q) ==
  IF n < maxPages /\ q # <<>>
  THEN lane' = [lane EXCEPT ![l] = [pc |-> "fetch", page |-> Head(q)]] /\ queue' = Tail(q)
  ELSE lane' = [lane EXCEPT ![l].pc = "gone"] /\ queue' = q
Continues(l) == Loops(l, Len(pages), queue)

\* The lane's promise is rejected, and the crawl's with it: the other lane goes on.
Throws(l) ==
  /\ lane' = [lane EXCEPT ![l].pc = "gone"]
  /\ phase' = "failed"
  /\ UNCHANGED queue

StartLane(l) ==
  /\ phase = "pages" /\ At(l, "start")
  /\ Continues(l)
  /\ UNCHANGED <<given, phase, pages, seen, crawled, aborted, mapped, requested, broken>>

\* The request fails: one bad page never fails the crawl, the end of its time does.
FetchFails(l) ==
  /\ At(l, "fetch")
  /\ broken' = broken \cup {lane[l].page}
  /\ IF aborted THEN Throws(l) ELSE Continues(l) /\ UNCHANGED phase
  /\ UNCHANGED <<given, pages, seen, crawled, aborted, mapped, requested>>

\* The answer arrives: nothing to read if it is no page, or one that was read before.
Fetched(l) ==
  /\ At(l, "fetch") /\ ~ aborted
  /\ requested' = requested \cup ToSet(Hops(lane[l].page))
  /\ LET new == Landed(lane[l].page) \ crawled
         html == {f \in new : site.answer[f] # "file"}
     IN /\ seen' = seen \cup new
        /\ crawled' = crawled \cup html
        /\ IF html = {} THEN Continues(l)
           ELSE /\ lane' = [lane EXCEPT ![l] = [pc |-> "read", page |-> Last(Hops(lane[l].page))]]
                /\ UNCHANGED queue
  /\ UNCHANGED <<given, phase, pages, aborted, mapped, broken>>

BodyFails(l) ==
  /\ At(l, "read") /\ site.answer[lane[l].page] = "page"
  /\ broken' = broken \cup {lane[l].page}
  /\ IF aborted THEN Throws(l) ELSE Continues(l) /\ UNCHANGED phase
  /\ UNCHANGED <<given, pages, seen, crawled, aborted, mapped, requested>>

\* Mutant of Recorded: the cap is not looked at again after the await.
RecordedUncapped(l) ==
  /\ At(l, "read")
  /\ pages' = Append(pages, lane[l].page)
  /\ lane' = [lane EXCEPT ![l].pc = "record"]
  /\ UNCHANGED <<given, phase, seen, crawled, queue, aborted, mapped, requested, broken>>

\* The body has been read: the page is recorded, and onPage called, unless the cap was reached
\* meanwhile.
Recorded(l) ==
  /\ At(l, "read")
  /\ IF Len(pages) >= maxPages THEN Continues(l) /\ UNCHANGED pages
     ELSE /\ pages' = Append(pages, lane[l].page)
          /\ lane' = [lane EXCEPT ![l].pc = "record"]
          /\ UNCHANGED queue
  /\ UNCHANGED <<given, phase, seen, crawled, aborted, mapped, requested, broken>>

\* onPage is done, and the links of the page are queued; or it throws.
Stored(l) ==
  /\ At(l, "record")
  /\ \/ LET links == IF site.answer[lane[l].page] = "page" THEN site.links[lane[l].page] ELSE <<>>
            all == Enqueue([seen |-> seen, queue |-> queue], links)
        IN seen' = all.seen /\ Loops(l, Len(pages), all.queue) /\ UNCHANGED phase
     \/ Throws(l) /\ UNCHANGED seen
  /\ UNCHANGED <<given, pages, crawled, aborted, mapped, requested, broken>>

\* Both lanes have returned: once more, if there is anything left to do.
LanesReturn ==
  /\ phase = "pages"
  /\ \A l \in Lanes : At(l, "gone")
  /\ IF Len(pages) < maxPages /\ queue # <<>>
     THEN lane' = [l \in Lanes |-> [lane[l] EXCEPT !.pc = "start"]] /\ UNCHANGED phase
     ELSE phase' = "done" /\ UNCHANGED lane
  /\ UNCHANGED <<given, pages, seen, crawled, queue, aborted, mapped, requested, broken>>

\* AbortSignal.timeout
TimeIsUp ==
  /\ phase = "pages" /\ ~ aborted
  /\ aborted' = TRUE
  /\ UNCHANGED <<given, phase, pages, seen, crawled, queue, lane, mapped, requested, broken>>

-----------------------------------------------------------------------------
CrawlerInit ==
  /\ site \in Sites /\ maxPages \in Caps
  /\ phase = "home" /\ pages = <<>> /\ queue = <<>>
  /\ seen = {Home} /\ crawled = {} /\ requested = {} /\ broken = {}
  /\ lane = [l \in Lanes |-> [pc |-> "start", page |-> Home]]
  /\ aborted = FALSE /\ mapped = FALSE

CrawlerNext ==
  \/ FetchHome \/ SeedQueue \/ LanesReturn \/ TimeIsUp
  \/ \E l \in Lanes :
       \/ StartLane(l) \/ FetchFails(l) \/ Fetched(l) \/ BodyFails(l) \/ Recorded(l) \/ Stored(l)

CrawlerSpec == CrawlerInit /\ [][CrawlerNext]_crvars

-----------------------------------------------------------------------------
CrawlerTypeOK ==
  /\ site \in Sites /\ maxPages \in Caps
  /\ phase \in {"home", "links", "pages", "done", "failed"}
  /\ pages \in Seq(Pages) /\ queue \in Seq(Pages)
  /\ seen \subseteq Pages /\ crawled \subseteq Pages
  /\ requested \subseteq Pages /\ broken \subseteq Pages
  /\ lane \in [Lanes -> [pc : {"start", "fetch", "read", "record", "gone"}, page : Pages]]
  /\ aborted \in BOOLEAN /\ mapped \in BOOLEAN

\* A link is dealt with: what it leads to was recorded or failed, is no page, or is not to be
\* crawled; or there was no room for it.
Dealt(p) ==
  \/ ~ Crawlable(p) \/ p \in broken
  \/ \A f \in Landed(p) : site.answer[f] = "file" \/ f \in broken \/ f \in ToSet(pages)
  \/ p \notin seen /\ Cardinality(seen) >= MaxQueued

\* A crawl that ends well records no page twice and no more than its cap; and unless it reached
\* the cap, it has dealt with every link of every page it recorded and with the sitemap, whatever
\* the order in which the two lanes were answered (crawler.ts, BFS).  No page is asked for that
\* robots.txt or the site's borders exclude, but for where the start address redirects.
CrawlComplete ==
  /\ IsInjective(pages) /\ Len(pages) <= maxPages
  /\ \A p \in requested : Crawlable(p) \/ p \in ToSet(Hops(Home))
  /\ phase = "done" /\ Len(pages) < maxPages =>
       /\ \A f \in ToSet(pages) : site.answer[f] = "page" =>
            \A p \in ToSet(site.links[f]) : Dealt(p)
       /\ mapped => \A p \in ToSet(site.sitemap) : Dealt(p)
=============================================================================
