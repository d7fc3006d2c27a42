SPECIFICATION Spec
CONSTANTS
  target1 = target1
  target2 = target2
  ch1 = ch1
  w1 = w1
  w2 = w2
  session1 = session1
  session2 = session2
  tab1 = tab1
  tab2 = tab2
  browser1 = browser1
  browser2 = browser2
  link = link
  Workers = {w1, w2}
  MaxAttempts = 2
  AdPlatforms = {"meta", "tiktok", "pinterest", "linkedin", "google", "x"}
  MaxAds = 2
  MaxTries = 1
  AdAttempts = 1
  AdMoves = 2
  RetriedPlatforms = {"tiktok", "linkedin", "google"}
  RetriedAds = 1
  Retries = 2
  RetriedAttempts = 2
  RetriedMoves = 1
  Generations = {g1}
  Kinds = {"image", "carousel", "video"}
  MaxCalls = 2
  MediaFaults = 2
  RunIds = {r1, r2}
  ResearchFaults = 1
  Tasks = {"visibility", "seo"}
  Batches = {m1}
  Items = {i1, i2}
  CheckJobs = {"weekly"}
  Budget = 6
  CheckFaults = 1
  Inbox = {"x", "y", "z"}
  BatchSize = 2
  ScoreBudget = 3
  ScoreFaults = 2
  Pages <- SitePages
  Home = "home"
  Sites <- FourPageSites
  Crawlers = {w1, w2}
  Caps = {2, 4}
  MaxQueued = 3
  MaxHops = 2
  Queries = {"brand", "rival"}
  Searchable = {"reddit"}
  Callers = {w1, w2}
  Listeners = {"worker"}
  MaxActive = 1
  MaxText = 2
  MaxClock = 2
  ListeningMoves = 3
  OneQuery = {"brand"}
  TwoPlatforms = {"reddit", "x"}
  OneCall = {"call"}
  OneText = 1
  FewMoves = 2
SYMMETRY Symmetric
INVARIANTS
  TypesOK
  PostsKept OneResult OneActiveRun LedgerTrue CrawlComplete SearchesKept
  SessionsKept CreationHonest
PROPERTY CookiesSpared
