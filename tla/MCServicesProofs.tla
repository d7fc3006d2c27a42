-------------------------- MODULE MCServicesProofs --------------------------
(***************************************************************************)
(* What ServicesProofs, SessionsProofs and PublishingProofs show of the    *)
(* parts, concluded for MCServices: a behaviour of it is, of each part,    *)
(* one of the part's own; of the two or three instances of a module that   *)
(* share their variables, it is the one it began as, to its end.           *)
(***************************************************************************)
EXTENDS MCServices

allVars == <<sVars, dVars, pVars, aiVars, part>>

LEMMA GenerationBehaves == Spec => Generation!GenerationsSpec
<1>1. Init => Generation!GenerationsInit
  BY DEF Init
<1>2. [Next]_allVars => [Generation!GenerationsNext]_Generation!gvars
  BY DEF Next, allVars, aiVars, gVars, Generation!gvars, Generation!rows, Generation!history
<1> QED
  BY <1>1, <1>2, PTL DEF Spec, allVars, Generation!GenerationsSpec

LEMMA ResearchBehaves == Spec => Research!ResearchSpec
<1>1. Init => Research!ResearchInit
  BY DEF Init
<1>2. [Next]_allVars => [Research!ResearchNext]_Research!rrvars
  BY DEF Next, allVars, aiVars, rVars, Research!rrvars, Research!rrows, Research!money
<1> QED
  BY <1>1, <1>2, PTL DEF Spec, allVars, Research!ResearchSpec

LEMMA ChecksBehave == Spec => Checks!ChecksSpec
<1>1. Init => Checks!ChecksInit
  BY DEF Init
<1>2. [Next]_allVars => [Checks!ChecksNext]_Checks!pvars
  BY DEF Next, allVars, aiVars, cVars, Checks!pvars
<1> QED
  BY <1>1, <1>2, PTL DEF Spec, allVars, Checks!ChecksSpec

LEMMA ScoresBehave == Spec => Scores!TriageSpec
<1>1. Init => Scores!TriageInit
  BY DEF Init
<1>2. [Next]_allVars => [Scores!TriageNext]_Scores!tvars
  BY DEF Next, allVars, aiVars, tVars, Scores!tvars
<1> QED
  BY <1>1, <1>2, PTL DEF Spec, allVars, Scores!TriageSpec

LEMMA CrawlBehaves == Spec => Crawl!CrawlerSpec
<1>1. Init => Crawl!CrawlerInit
  BY DEF Init
<1>2. [Next]_allVars => [Crawl!CrawlerNext]_Crawl!crvars
  BY DEF Next, allVars, aiVars, wVars, Crawl!crvars
<1> QED
  BY <1>1, <1>2, PTL DEF Spec, allVars, Crawl!CrawlerSpec

LEMMA SearchesBehave ==
  Spec => \/ Searches!ListeningSpec /\ [](part # "platforms")
          \/ Others!Searches!ListeningSpec /\ [](part = "platforms")
<1>1. Init /\ part # "platforms" => Searches!ListeningInit
  BY DEF Init
<1>2. Init /\ part = "platforms" => Others!Searches!ListeningInit
  BY DEF Init
<1>3. part # "platforms" /\ [Next]_allVars
      => [Searches!ListeningNext]_Searches!lvars /\ (part # "platforms")'
  BY DEF Next, allVars, aiVars, lVars, Searches!lvars
<1>4. part = "platforms" /\ [Next]_allVars
      => [Others!Searches!ListeningNext]_Others!Searches!lvars /\ (part = "platforms")'
  BY DEF Next, allVars, aiVars, lVars, Others!Searches!lvars
<1>5. part # "platforms" \/ part = "platforms"
  OBVIOUS
<1> QED
  BY <1>1, <1>2, <1>3, <1>4, <1>5, PTL
  DEF Spec, allVars, Searches!ListeningSpec, Others!Searches!ListeningSpec

LEMMA CreationBehaves ==
  Spec => \/ Creation!Spec /\ [](part # "retries")
          \/ Others!Creation!Spec /\ [](part = "retries")
<1>1. Init /\ part # "retries" => Creation!AdCreationInit
  BY DEF Init
<1>2. Init /\ part = "retries" => Others!Creation!AdCreationInit
  BY DEF Init
<1>3. part # "retries" /\ [Next]_allVars => [Creation!AdCreationNext]_Creation!avars /\ (part # "retries")'
  BY DEF Next, allVars, dVars, Creation!avars
<1>4. part = "retries" /\ [Next]_allVars
      => [Others!Creation!AdCreationNext]_Others!Creation!avars /\ (part = "retries")'
  BY DEF Next, allVars, dVars, Others!Creation!avars
<1>5. part # "retries" \/ part = "retries"
  OBVIOUS
<1> QED
  BY <1>1, <1>2, <1>3, <1>4, <1>5, PTL DEF Spec, allVars, Creation!Spec, Others!Creation!Spec

LEMMA SessionsBehave ==
  Spec => \/ OneBrowser!Spec /\ [](part # "browsers")
          \/ TwoBrowsers!Spec /\ [](part = "browsers")
<1>1. Init /\ part # "browsers" => OneBrowser!SessionsInit
  BY DEF Init
<1>2. Init /\ part = "browsers" => TwoBrowsers!SessionsInit
  BY DEF Init
<1>3. part # "browsers" /\ [Next]_allVars
      => [OneBrowser!SessionsNext]_OneBrowser!svars /\ (part # "browsers")'
  BY DEF Next, allVars, sVars, OneBrowser!svars
<1>4. part = "browsers" /\ [Next]_allVars
      => [TwoBrowsers!SessionsNext]_TwoBrowsers!svars /\ (part = "browsers")'
  BY DEF Next, allVars, sVars, TwoBrowsers!svars
<1>5. part # "browsers" \/ part = "browsers"
  OBVIOUS
<1> QED
  BY <1>1, <1>2, <1>3, <1>4, <1>5, PTL DEF Spec, allVars, OneBrowser!Spec, TwoBrowsers!Spec

LEMMA PostsBehave ==
  Spec => \/ Edits!Spec /\ [](part = "edits")
          \/ Twins!Spec /\ [](part = "twins")
          \/ Later!Spec /\ [](part \notin {"edits", "twins"})
<1>1. Init /\ part = "edits" => Edits!Init
  BY DEF Init
<1>2. Init /\ part = "twins" => Twins!Init
  BY DEF Init
<1>3. Init /\ part \notin {"edits", "twins"} => Later!Init
  BY DEF Init
<1>4. part = "edits" /\ [Next]_allVars => [Edits!Next]_Edits!vars /\ (part = "edits")'
  BY DEF Next, allVars, pVars, Edits!vars, Edits!postVars, Edits!rowVars, Edits!workerVars, Edits!maintVars,
         Edits!bounds, Edits!history
<1>5. part = "twins" /\ [Next]_allVars => [Twins!Next]_Twins!vars /\ (part = "twins")'
  BY DEF Next, allVars, pVars, Twins!vars, Twins!postVars, Twins!rowVars, Twins!workerVars, Twins!maintVars,
         Twins!bounds, Twins!history
<1>6. part \notin {"edits", "twins"} /\ [Next]_allVars
      => [Later!Next]_Later!vars /\ (part \notin {"edits", "twins"})'
  BY DEF Next, allVars, pVars, Later!vars, Later!postVars, Later!rowVars, Later!workerVars, Later!maintVars,
         Later!bounds, Later!history
<1>7. part = "edits" \/ part = "twins" \/ part \notin {"edits", "twins"}
  OBVIOUS
<1> QED
  BY <1>1, <1>2, <1>3, <1>4, <1>5, <1>6, <1>7, PTL
  DEF Spec, allVars, Edits!Spec, Twins!Spec, Later!Spec

-----------------------------------------------------------------------------
\* What a channel shows stays within what was asked for, confirmed and slipped, and a post's
\* status follows from its targets', also when rows are deleted by an edit, channels are
\* disconnected, or status checks publish (posts.service.ts, publishing-engine.ts, posts.ts).
THEOREM PostsKeptAlways == Spec => []PostsKept
<1>1. Edits!Spec => []Edits!Accounting /\ []Edits!PostAgreesUnlessCanceled
  BY PartsParameters, Edits!PostsAccounted, Edits!PostInAgreement
<1>2. Twins!Spec => []Twins!Accounting /\ []Twins!PostAgreesUnlessCanceled
  BY PartsParameters, Twins!PostsAccounted, Twins!PostInAgreement
<1>3. Later!Spec => []Later!Accounting /\ []Later!PostAgreesUnlessCanceled
  BY PartsParameters, Later!PostsAccounted, Later!PostInAgreement
<1>4. part = "edits" /\ Edits!Accounting /\ Edits!PostAgreesUnlessCanceled => PostsKept
  BY DEF PostsKept
<1>5. part = "twins" /\ Twins!Accounting /\ Twins!PostAgreesUnlessCanceled => PostsKept
  BY DEF PostsKept
<1>6. part \notin {"edits", "twins"} /\ Later!Accounting /\ Later!PostAgreesUnlessCanceled => PostsKept
  BY DEF PostsKept
<1> QED
  BY <1>1, <1>2, <1>3, <1>4, <1>5, <1>6, PostsBehave, PTL

\* A generation's media appear once, with their files, if and only if it succeeded (ai-media.ts).
THEOREM OneResultEach == Spec => []OneResult
<1>1. Generation!GenerationsSpec => []Generation!OneResult
  BY PartsParameters, OneResultAlways
<1>2. Generation!OneResult => OneResult
  BY DEF OneResult
<1> QED
  BY <1>1, <1>2, GenerationBehaves, PTL

\* An organization has one active research run (research.service.ts, crawl.ts).
THEOREM OneRunAtATime == Spec => []OneActiveRun
<1>1. Research!ResearchSpec => []Research!OneActiveRun
  BY PartsParameters, OneActiveRunAlways
<1>2. Research!OneActiveRun => OneActiveRun
  BY DEF OneActiveRun
<1> QED
  BY <1>1, <1>2, ResearchBehaves, PTL

\* What the providers of AI work and of search data charge is on the ledger that the budget adds
\* up, but for what each module names (ai-media.ts, crawl.ts, seo.ts, visibility.ts,
\* engagement-processor.ts).
THEOREM LedgerAlwaysTrue == Spec => []LedgerTrue
<1>1. Generation!GenerationsSpec => []Generation!Ledger
  BY PartsParameters, MediaLedgerAlways
<1>2. Research!ResearchSpec => []Research!ResearchLedger
  BY PartsParameters, ResearchLedgerAlways
<1>3. Checks!ChecksSpec => []Checks!ChecksLedger
  BY PartsParameters, ChecksLedgerAlways
<1>4. Scores!TriageSpec => []Scores!TriageLedger
  BY PartsParameters, ScoresPaidAlways
<1>5. Generation!Ledger /\ Research!ResearchLedger /\ Checks!ChecksLedger /\ Scores!TriageLedger
      => LedgerTrue
  BY DEF LedgerTrue
<1> QED
  BY <1>1, <1>2, <1>3, <1>4, <1>5, GenerationBehaves, ResearchBehaves, ChecksBehave, ScoresBehave, PTL

\* A crawl that ends well has dealt with all there was to crawl (crawler.ts).
THEOREM CrawlsComplete == Spec => []CrawlComplete
<1>1. Crawl!CrawlerSpec => []Crawl!CrawlComplete
  BY PartsParameters, CrawlCompleteAlways
<1>2. Crawl!CrawlComplete => CrawlComplete
  BY DEF CrawlComplete
<1> QED
  BY <1>1, <1>2, CrawlBehaves, PTL

\* A saved search passes over nothing, and no more than the limit are active (inbox.service.ts,
\* updateQuery; engagement-processor.ts, listen).
THEOREM AllSearchesKept == Spec => []SearchesKept
<1>1. Searches!ListeningSpec => []Searches!SearchesKept
  BY PartsParameters, SearchesKeptAlways
<1>2. Others!Searches!ListeningSpec => []Others!Searches!SearchesKept
  BY PartsParameters, Others!SearchesKeptAlways
<1>3. part # "platforms" /\ Searches!SearchesKept => SearchesKept
  BY DEF SearchesKept
<1>4. part = "platforms" /\ Others!Searches!SearchesKept => SearchesKept
  BY DEF SearchesKept
<1> QED
  BY <1>1, <1>2, <1>3, <1>4, SearchesBehave, PTL

\* Reuse detection fires only after the grace; a changed password, a reset or a disabled account
\* signs every other session out; and a reset link sets the password once (auth.service.ts).
THEOREM SessionsKeptAlways == Spec => []SessionsKept
<1>1. OneBrowser!Spec
      => []OneBrowser!ReuseMeansLapse /\ []OneBrowser!SignedOutEverywhere /\ []OneBrowser!LinkResetsOnce
  BY PartsParameters, OneBrowser!ReuseOnlyAfterLapse, OneBrowser!SignedOutAlways, OneBrowser!LinksResetOnce
<1>2. TwoBrowsers!Spec
      => []TwoBrowsers!ReuseMeansLapse /\ []TwoBrowsers!SignedOutEverywhere /\ []TwoBrowsers!LinkResetsOnce
  BY PartsParameters, TwoBrowsers!ReuseOnlyAfterLapse, TwoBrowsers!SignedOutAlways, TwoBrowsers!LinksResetOnce
<1>3. part # "browsers" /\ OneBrowser!ReuseMeansLapse /\ OneBrowser!SignedOutEverywhere /\ OneBrowser!LinkResetsOnce
      => SessionsKept
  BY DEF SessionsKept
<1>4. part = "browsers" /\ TwoBrowsers!ReuseMeansLapse /\ TwoBrowsers!SignedOutEverywhere /\ TwoBrowsers!LinkResetsOnce
      => SessionsKept
  BY DEF SessionsKept
<1> QED
  BY <1>1, <1>2, <1>3, <1>4, SessionsBehave, PTL

\* A browser's cookies never go back to an older token of their session, and a refused refresh
\* clears the cookies of no session that could go on.
THEOREM CookiesAlwaysSpared == Spec => CookiesSpared
<1>1. OneBrowser!Spec => [][OneBrowser!JarStep]_OneBrowser!svars /\ [][OneBrowser!RefusalStep]_OneBrowser!svars
  <2>1. OneBrowser!SessionsParameters
    BY PartsParameters
  <2> QED
    BY <2>1, OneBrowser!JarsNeverGoBack, OneBrowser!RefusalsSpareLive
    DEF OneBrowser!JarNeverGoesBack, OneBrowser!RefusalSparesLiveSession
<1>2. TwoBrowsers!Spec => [][TwoBrowsers!JarStep]_TwoBrowsers!svars /\ [][TwoBrowsers!RefusalStep]_TwoBrowsers!svars
  <2>1. TwoBrowsers!SessionsParameters
    BY PartsParameters
  <2> QED
    BY <2>1, TwoBrowsers!JarsNeverGoBack, TwoBrowsers!RefusalsSpareLive
    DEF TwoBrowsers!JarNeverGoesBack, TwoBrowsers!RefusalSparesLiveSession
<1> DEFINE Spares == IF part = "browsers" THEN TwoBrowsers!JarStep /\ TwoBrowsers!RefusalStep
                                          ELSE OneBrowser!JarStep /\ OneBrowser!RefusalStep
<1>3. /\ part # "browsers" /\ [OneBrowser!JarStep]_OneBrowser!svars /\ [OneBrowser!RefusalStep]_OneBrowser!svars
      => [Spares]_sVars
  BY DEF OneBrowser!svars, sVars
<1>4. /\ part = "browsers" /\ [TwoBrowsers!JarStep]_TwoBrowsers!svars /\ [TwoBrowsers!RefusalStep]_TwoBrowsers!svars
      => [Spares]_sVars
  BY DEF TwoBrowsers!svars, sVars
<1> QED
  BY <1>1, <1>2, <1>3, <1>4, SessionsBehave, PTL DEF CookiesSpared

\* What a failed creation leaves on the platform is reported (ads/common.ts), and nothing delivers
\* unless all of it was meant to (ads/*.ts, setStatus).
THEOREM CreationsHonest == Spec => []CreationHonest
<1>1. Creation!Spec => [](Creation!LeftoversReported /\ Creation!DeliversWhole)
  BY PartsParameters, CreationHonestAlways
<1>2. Others!Creation!Spec => [](Others!Creation!LeftoversReported /\ Others!Creation!DeliversWhole)
  BY PartsParameters, Others!CreationHonestAlways
<1>3. part # "retries" /\ Creation!LeftoversReported /\ Creation!DeliversWhole => CreationHonest
  BY DEF CreationHonest
<1>4. part = "retries" /\ Others!Creation!LeftoversReported /\ Others!Creation!DeliversWhole => CreationHonest
  BY DEF CreationHonest
<1> QED
  BY <1>1, <1>2, <1>3, <1>4, CreationBehaves, PTL

=============================================================================
