---------------------------- MODULE MCServices ----------------------------
(***************************************************************************)
(* The safety of the sign-in sessions, of the creation of an ad campaign   *)
(* call by call, of the paid AI work, of the crawler, of the saved         *)
(* searches, and of three more instances of Publishing.  A behaviour takes *)
(* the steps of one part, chosen at the start; the others stay in an       *)
(* initial state.                                                          *)
(***************************************************************************)
EXTENDS ServicesProofs, TLC

CONSTANTS
  target1, target2, ch1, w1, w2, session1, session2, tab1, tab2, browser1, browser2, link,
  \* AdCreation's and Listening's second instances
  RetriedPlatforms, RetriedAds, Retries, RetriedAttempts, RetriedMoves,
  TwoPlatforms, OneQuery, OneCall, OneText, FewMoves

\* The variables of PublishingState, of whichever instance of Publishing the behaviour is.
VARIABLES postStatus, deleted, status, version, attempts, pending, channel, queue, pc, task,
  local, held, api, due, stuck, ops, faults, live, confirmed, slips, asked

VARIABLES
  part,
  \* Sessions
  sUser, sRow, sLink, sJar, sCall, sLeft, sMade, sSpared, sLapsed, sReused, sResets

gVars == <<gStatus, gKind, gPaid, gMedia, gLibrary, gObjects, gJob, gSerial, gWorker, gRequest,
           gFaults, gSpent, gMissed, gTwice, gUnsure, gOverwritten>>
rVars == <<rStatus, rCost, rLedger, rJob, rWorker, rRequest, rFaults, rSpent, rMissed, rExcused, rSwept>>
cVars == <<cTask, cDone, cLedger, cRun, cLane, cFaults, cSpent, cMissed, cLate>>
tVars == <<tTriaged, tLedger, tRun, tFaults, tSpent, tMissed, tAsked, tExcused>>
wVars == <<wSite, wMaxPages, wPhase, wPages, wSeen, wCrawled, wQueue, wLane, wAborted, wMapped,
           wRequested, wBroken>>
lVars == <<lClock, query, lCall, lRun, lLeft, heard, excused, slipped, blurred>>
aiVars == <<gVars, rVars, cVars, tVars, wVars, lVars>>
sVars == <<sUser, sRow, sLink, sJar, sCall, sLeft, sMade, sSpared, sLapsed, sReused, sResets>>
dVars == <<dDraft, dPhase, dJob, dExists, dActive, dUndo, dLost, dError, dRecord, dLeft, dDoubt,
           dStray, dAsked, dUnverified>>
pVars == <<postStatus, deleted, status, version, attempts, pending, channel, queue, pc, task,
  local, held, api, due, stuck, ops, faults, live, confirmed, slips, asked>>

\* Two rows, edits and a channel that is disconnected; and a platform that publishes in a later
\* status check, with retries, and with two workers.
Edits == INSTANCE PublishingProofs WITH
  Targets <- {target1, target2}, Channels <- {ch1}, ChannelOf <- [t \in {target1, target2} |-> ch1],
  Containers <- {}, Workers <- {"worker"}, Calls <- {"first", "second"},
  Operations <- {"create", "edit", "remove", "disconnect"},
  MaxAttempts <- 1, MaxChecks <- 1, MaxTries <- 1, MaxOps <- 3, MaxFaults <- 0
Later == INSTANCE PublishingProofs WITH
  Targets <- {target1}, Channels <- {ch1}, ChannelOf <- [t \in {target1} |-> ch1],
  Containers <- {ch1}, Workers <- {"worker"}, Calls <- {"first"},
  Operations <- {"create", "schedule", "retry", "reconnect"},
  MaxAttempts <- 1, MaxChecks <- 1, MaxTries <- 2, MaxOps <- 2, MaxFaults <- 1
Twins == INSTANCE PublishingProofs WITH
  Targets <- {target1}, Channels <- {ch1}, ChannelOf <- [t \in {target1} |-> ch1],
  Containers <- {ch1}, Workers <- {w1, w2}, Calls <- {"first"},
  Operations <- {"create"},
  MaxAttempts <- 1, MaxChecks <- 1, MaxTries <- 2, MaxOps <- 1, MaxFaults <- 1

\* Two tabs of one browser, and one tab in each of two.
OneBrowser == INSTANCE SessionsProofs WITH
  Sessions <- {session1, session2}, Browsers <- {browser1}, Tabs <- {tab1, tab2},
  BrowserOf <- [t \in {tab1, tab2} |-> browser1], Links <- {link}, MaxMoves <- 3,
  user <- sUser, row <- sRow, link <- sLink, jar <- sJar, call <- sCall, left <- sLeft,
  made <- sMade, spared <- sSpared, lapsed <- sLapsed, reused <- sReused, resets <- sResets
TwoBrowsers == INSTANCE SessionsProofs WITH
  Sessions <- {session1, session2}, Browsers <- {browser1, browser2}, Tabs <- {browser1, browser2},
  BrowserOf <- [t \in {browser1, browser2} |-> t], Links <- {link}, MaxMoves <- 3,
  user <- sUser, row <- sRow, link <- sLink, jar <- sJar, call <- sCall, left <- sLeft,
  made <- sMade, spared <- sSpared, lapsed <- sLapsed, reused <- sReused, resets <- sResets

\* Beside those of ServicesProofs, whose creation has every ad platform, once, and whose saved
\* searches are two of which one may be active: three platforms with retries, and one search of
\* two platforms.
Others == INSTANCE ServicesProofs WITH
  AdPlatforms <- RetriedPlatforms, MaxAds <- RetriedAds, MaxTries <- Retries,
  AdAttempts <- RetriedAttempts, AdMoves <- RetriedMoves,
  Queries <- OneQuery, Searchable <- TwoPlatforms, Callers <- OneCall,
  MaxText <- OneText, ListeningMoves <- FewMoves

\* Sites of four pages: what the home page links to, redirects, an answer that is no page or
\* missing, and a page that robots.txt excludes.
SitePages == {"home", "about", "blog", "jobs"}
FourPageSites ==
  {[links |-> [home |-> linked, about |-> <<"blog", "jobs">>, blog |-> <<"home", "about">>,
               jobs |-> <<>>],
    to |-> [p \in SitePages |-> IF p \in DOMAIN moved THEN moved[p] ELSE p],
    sitemap |-> <<"jobs">>,
    answer |-> [p \in SitePages |-> IF p = "blog" THEN blog ELSE "page"],
    crawlable |-> SitePages \ hidden] :
     linked \in {<<"about">>, <<"about", "blog">>},
     moved \in {<<>>, [blog |-> "about"], [about |-> "jobs"], [jobs |-> "blog", blog |-> "jobs"],
               [home |-> "about"]},
     blog \in {"page", "missing", "file"}, hidden \in {{}, {"jobs"}}}

\* What those modules ask of their constants.
ASSUME PartsParameters ==
  /\ Generation!GenerationsAssumption /\ Generation!GenerationBounds
  /\ Research!ResearchBounds
  /\ Checks!ChecksAssumption /\ Checks!ChecksBounds
  /\ Scores!TriageParameters
  /\ Crawl!CrawlerParameters
  /\ Searches!ListeningParameters /\ Others!Searches!ListeningParameters
  /\ Creation!AdCreationParameters /\ Others!Creation!AdCreationParameters
  /\ {AdAttempts, RetriedAttempts} \subseteq Nat \ {0}
  /\ Edits!TargetsAssumption /\ Edits!FiniteAssumption /\ Edits!BoundsAssumption
  /\ Later!TargetsAssumption /\ Later!FiniteAssumption /\ Later!BoundsAssumption
  /\ Twins!TargetsAssumption /\ Twins!FiniteAssumption /\ Twins!BoundsAssumption
  /\ OneBrowser!SessionsParameters /\ TwoBrowsers!SessionsParameters

Init ==
  /\ part \in {"tabs", "browsers", "creation", "retries", "edits", "later", "twins",
               "generation", "research", "checks", "scores", "crawl",
               "searches", "platforms"}
  /\ Generation!GenerationsInit /\ Research!ResearchInit
  /\ Checks!ChecksInit /\ (part # "checks" => cTask = "seo")
  /\ Scores!TriageInit
  /\ Crawl!CrawlerInit /\ (part # "crawl" => wSite = (CHOOSE s \in Sites : TRUE) /\ wMaxPages = 2)
  /\ IF part = "platforms" THEN Others!Searches!ListeningInit ELSE Searches!ListeningInit
  /\ IF part = "edits" THEN Edits!Init ELSE IF part = "twins" THEN Twins!Init ELSE Later!Init
  /\ IF part = "browsers" THEN TwoBrowsers!SessionsInit
     ELSE OneBrowser!SessionsInit
  /\ sRow[session1].status = "live"   \* one session's id is as good as another's
  /\ IF part = "retries" THEN Others!Creation!AdCreationInit
     ELSE /\ Creation!AdCreationInit
          /\ part # "creation" => dDraft = [platform |-> "x", ads |-> 1, video |-> FALSE]

Next ==
  /\ UNCHANGED part
  /\ \/ part = "tabs" /\ OneBrowser!SessionsNext /\ UNCHANGED <<dVars, pVars, aiVars>>
     \/ part = "browsers" /\ TwoBrowsers!SessionsNext /\ UNCHANGED <<dVars, pVars, aiVars>>
     \/ part = "creation" /\ Creation!AdCreationNext /\ UNCHANGED <<sVars, pVars, aiVars>>
     \/ part = "retries" /\ Others!Creation!AdCreationNext /\ UNCHANGED <<sVars, pVars, aiVars>>
     \/ part = "generation" /\ Generation!GenerationsNext /\ UNCHANGED <<sVars, dVars, pVars, rVars, cVars, tVars, wVars, lVars>>
     \/ part = "research" /\ Research!ResearchNext /\ UNCHANGED <<sVars, dVars, pVars, gVars, cVars, tVars, wVars, lVars>>
     \/ part = "checks" /\ Checks!ChecksNext /\ UNCHANGED <<sVars, dVars, pVars, gVars, rVars, tVars, wVars, lVars>>
     \/ part = "scores" /\ Scores!TriageNext /\ UNCHANGED <<sVars, dVars, pVars, gVars, rVars, cVars, wVars, lVars>>
     \/ part = "crawl" /\ Crawl!CrawlerNext /\ UNCHANGED <<sVars, dVars, pVars, gVars, rVars, cVars, tVars, lVars>>
     \/ part = "searches" /\ Searches!ListeningNext
          /\ UNCHANGED <<sVars, dVars, pVars, gVars, rVars, cVars, tVars, wVars>>
     \/ part = "platforms" /\ Others!Searches!ListeningNext
          /\ UNCHANGED <<sVars, dVars, pVars, gVars, rVars, cVars, tVars, wVars>>
     \/ part = "edits" /\ Edits!Next /\ UNCHANGED <<sVars, dVars, aiVars>>
     \/ part = "later" /\ Later!Next /\ UNCHANGED <<sVars, dVars, aiVars>>
     \/ part = "twins" /\ Twins!Next /\ UNCHANGED <<sVars, dVars, aiVars>>
     \/ part \notin {"edits", "later", "twins"} /\ UNCHANGED <<sVars, dVars, pVars, aiVars>>  \* all is done

Spec == Init /\ [][Next]_<<sVars, dVars, pVars, aiVars, part>>

Symmetric == Permutations({w1, w2})

-----------------------------------------------------------------------------
(* The properties of each component, stated and explained in its module. *)

\* Every variable of every component keeps its type, whichever part the behaviour is of.
TypesOK ==
  /\ part = "tabs" => OneBrowser!SessionsTypeOK
  /\ part = "browsers" => TwoBrowsers!SessionsTypeOK
  /\ part = "creation" => Creation!AdCreationTypeOK
  /\ part = "retries" => Others!Creation!AdCreationTypeOK
  /\ part = "edits" => Edits!TypeOK
  /\ part = "later" => Later!TypeOK
  /\ part = "twins" => Twins!TypeOK
  /\ part = "generation" => Generation!GenerationsTypeOK
  /\ part = "research" => Research!ResearchTypeOK
  /\ part = "checks" => Checks!ChecksTypeOK
  /\ part = "scores" => Scores!TriageTypeOK
  /\ part = "crawl" => Crawl!CrawlerTypeOK
  /\ part = "searches" => Searches!ListeningTypeOK
  /\ part = "platforms" => Others!Searches!ListeningTypeOK

\* Reuse detection fires only after the grace; a changed password, a reset or a disabled account
\* signs every other session out; and a reset link sets the password once (auth.service.ts).
SessionsKept ==
  /\ part = "tabs" =>
       OneBrowser!ReuseMeansLapse /\ OneBrowser!SignedOutEverywhere /\ OneBrowser!LinkResetsOnce
  /\ part = "browsers" =>
       TwoBrowsers!ReuseMeansLapse /\ TwoBrowsers!SignedOutEverywhere /\ TwoBrowsers!LinkResetsOnce
\* A browser's cookies never go back to an older token of their session, and a refused refresh
\* clears the cookies of no session that could go on.
CookiesSpared ==
  [][IF part = "browsers" THEN TwoBrowsers!JarStep /\ TwoBrowsers!RefusalStep
                          ELSE OneBrowser!JarStep /\ OneBrowser!RefusalStep]_sVars

\* What a failed creation leaves on the platform is reported (ads/common.ts), and nothing delivers
\* unless all of it was meant to (ads/*.ts, setStatus).
CreationHonest ==
  /\ part = "creation" => Creation!LeftoversReported /\ Creation!DeliversWhole
  /\ part = "retries" => Others!Creation!LeftoversReported /\ Others!Creation!DeliversWhole

\* What a channel shows and what may still appear on it stay within what was asked for,
\* confirmed and slipped, and the post's status follows from its targets', also when rows are
\* deleted by an edit, channels are disconnected, or status checks publish (posts.service.ts,
\* publishing-engine.ts, packages/db/src/queries/posts.ts).
PostsKept ==
  /\ part = "edits" => Edits!Accounting /\ Edits!PostAgreesUnlessCanceled
  /\ part = "later" => Later!Accounting /\ Later!PostAgreesUnlessCanceled
  /\ part = "twins" => Twins!Accounting /\ Twins!PostAgreesUnlessCanceled

\* A generation's media appear once, with their files, if and only if it succeeded (ai-media.ts).
OneResult == part = "generation" => Generation!OneResult
\* An organization has one active research run (research.service.ts, crawl.ts).
OneActiveRun == part = "research" => Research!OneActiveRun
\* What the providers of AI work and of search data charge is on the ledger that the budget adds
\* up, but for what each module names (ai-media.ts, crawl.ts, seo.ts, visibility.ts,
\* engagement-processor.ts).
LedgerTrue ==
  /\ part = "generation" => Generation!Ledger
  /\ part = "research" => Research!ResearchLedger
  /\ part = "checks" => Checks!ChecksLedger
  /\ part = "scores" => Scores!TriageLedger

\* A crawl that ends well has dealt with all there was to crawl (crawler.ts).
CrawlComplete == part = "crawl" => Crawl!CrawlComplete
\* A saved search passes over nothing, and no more than the limit are active (inbox.service.ts,
\* updateQuery; engagement-processor.ts, listen).
SearchesKept ==
  (part = "searches" => Searches!SearchesKept) /\ (part = "platforms" => Others!Searches!SearchesKept)
=============================================================================
