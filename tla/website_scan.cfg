SPECIFICATION FairScanSpec
CONSTANTS
  home = home
  about = about
  refund = refund
  blog = blog
  Urls = {home, about, refund, blog}
  Home = home
  Listed = {blog}
  Seeds = {about}
  score <- SiteScore
  category <- SiteCategory
  quota <- OneEach
  linksOf <- SiteLinks
  redirectsOf <- SiteRedirects
  botRules = {refund, blog}
  anyRules = {refund}
  fetchesOf <- SiteFetches
  MAX_PAGES_TO_CRAWL = 2
  CONCURRENCY_LIMIT = 2
  Scans = {1, 2}
  Runs = {1, 2}
  Polls = {1}
  ScanFaults = {"robots", "fatal", "database", "restart"}
INVARIANTS ScanTypeOK CompletedHasProfile TwoProfilesOnlyByClash CrawlIsComplete RobotsHold
PROPERTIES ScansSettle
CHECK_DEADLOCK FALSE
