------------------------------ MODULE SiteCrawl ------------------------------
(***************************************************************************)
(* The crawl of one website scan as operators on the record of its local   *)
(* variables: which URLs are discovered, how the page budget is spent, and *)
(* what one batch of fetches adds.  A URL stands for its normalised form   *)
(* (normalizer.py); its score and its category are the site's constants.   *)
(***************************************************************************)
EXTENDS Lists, SequencesExt

CONSTANTS
  Urls, Home,
  Listed,              \* URLs of the sitemaps
  Seeds,               \* PROACTIVE_HIGH_VALUE_PATHS, whether or not they exist
  score,               \* prioritize_url of each URL
  category,            \* the bucket stratify_urls puts each URL in
  quota,               \* how many URLs each bucket is guaranteed
  linksOf,             \* internal links of the page each fetch reads, in page order
  redirectsOf,         \* URLs a fetch of each URL is redirected to before it ends
  botRules, anyRules,  \* URLs robots.txt forbids to this bot, and to every bot
  fetchesOf,           \* how a fetch of each URL may end
  MAX_PAGES_TO_CRAWL, CONCURRENCY_LIMIT

\* The buckets in the order of the dict, which is also that of the tiers.
Categories == <<"HOME", "POLICIES", "ABOUT", "CONTACT", "FAQS", "PRICING",
                "COLLECTIONS", "PROOF", "DOCUMENTATION", "PRODUCTS", "OTHER">>

Fetches == {"page", "missing", "error"}

ASSUME SiteAssumption ==
  /\ Home \in Urls
  /\ Listed \subseteq Urls /\ Seeds \subseteq Urls
  /\ IsFiniteSet(Listed) /\ IsFiniteSet(Seeds)
  /\ score \in [Urls -> Nat]
  /\ category \in [Urls -> ToSet(Categories)]
  /\ quota \in [ToSet(Categories) -> Nat]
  /\ linksOf \in [Urls -> Seq(Urls)]
  /\ redirectsOf \in [Urls -> SUBSET Urls]
  /\ botRules \subseteq Urls /\ anyRules \subseteq Urls
  /\ fetchesOf \in [Urls -> (SUBSET Fetches) \ {{}}]
  /\ MAX_PAGES_TO_CRAWL \in Nat \ {0}
  /\ CONCURRENCY_LIMIT \in Nat \ {0}

Crawl == [queue : Seq(Urls), visited : SUBSET Urls, crawled : SUBSET Urls,
          redirected : SUBSET Urls, failed : Nat, rules : BOOLEAN]

NoCrawl == [queue |-> <<>>, visited |-> {}, crawled |-> {},
            redirected |-> {}, failed |-> 0, rules |-> FALSE]

\* A robots.txt that cannot be read allows everything, an empty path is always
\* allowed, and a rule must forbid a URL to this bot and to every bot.
EmptyPath(u) == category[u] = "HOME"
CanFetch(rules, u) == \/ EmptyPath(u)
                      \/ ~rules
                      \/ u \notin botRules
                      \/ u \notin anyRules
Permitted(rules) == {u \in Urls : CanFetch(rules, u)}

\* Every sitemap may be missing or broken; the seeds and the home page are
\* added without asking the site.
Discovered == {listed \cup Seeds \cup {Home} : listed \in SUBSET Listed}

\* list.sort(key=score, reverse=True), which is stable.
Before(q, j, i) == \/ score[q[j]] > score[q[i]]
                   \/ score[q[j]] = score[q[i]] /\ j <= i
Ahead(q, i) == {j \in DOMAIN q : Before(q, j, i)}
Position(q, i) == Cardinality(Ahead(q, i))
SortByScore[q \in Seq(Urls)] ==
  [n \in DOMAIN q |-> q[CHOOSE i \in DOMAIN q : Position(q, i) = n]]

\* discover_urls ranks a set, so URLs of one score come in any order.
Rankings(urls) == {SortByScore[q] : q \in SetToSeqs(urls)}

\* Each bucket's guaranteed share in the order of the tiers, then the rest by
\* score, cut at the budget.  The list arrives ranked, so a bucket is ranked.
Bucket(q, c) == Only(q, {u \in Urls : category[u] = c})
Share(q, c)      == Min({quota[c], Len(Bucket(q, c))})
Guaranteed(q, c) == SubSeq(Bucket(q, c), 1, Share(q, c))
Remaining(q, c)  == SubSeq(Bucket(q, c), Share(q, c) + 1, Len(Bucket(q, c)))
Stratify(q, budget) ==
  LET sure  == FlattenSeq([n \in DOMAIN Categories |-> Guaranteed(q, Categories[n])])
      rest  == FlattenSeq([n \in DOMAIN Categories |-> Remaining(q, Categories[n])])
      order == sure \o SortByScore[rest]
  IN  SubSeq(order, 1, Min({budget, Len(order)}))

HomeFirst[q \in Seq(Urls)] == <<Home>> \o Only(q, Urls \ {Home})

\* What a scan may set out with, when robots.txt was read and when it was not.
Ranked == UNION {Rankings(urls) : urls \in Discovered}
Allowed(rules) == {Only(ranked, Permitted(rules)) : ranked \in Ranked}
PlannedCrawl(allowed, rules) ==
  [NoCrawl EXCEPT !.queue = HomeFirst[Stratify(allowed, MAX_PAGES_TO_CRAWL)], !.rules = rules]
PlannedCrawls == {PlannedCrawl(allowed, TRUE) : allowed \in Allowed(TRUE)}
UnruledCrawls == {PlannedCrawl(allowed, FALSE) : allowed \in Allowed(FALSE)}

\* The pops of one turn of the loop end when the batch is full, when it would
\* fill the budget, or with the queue.
Room(c) == Min({CONCURRENCY_LIMIT, MAX_PAGES_TO_CRAWL - Cardinality(c.crawled)})
Fills(c, n) == Cardinality(ToSet(SubSeq(c.queue, 1, n)) \ c.visited) = Room(c)
Pops(c) == CHOOSE n \in 0 .. Len(c.queue) : /\ Fills(c, n) \/ n = Len(c.queue)
                                            /\ \A m \in 0 .. n - 1 : ~Fills(c, m)
Unvisited(c) == [q \in Seq(Urls) |-> Only(q, Urls \ c.visited)]
Batch(c) == Unvisited(c)[SubSeq(c.queue, 1, Pops(c))]
Popped(c) == [c EXCEPT !.queue = SubSeq(c.queue, Pops(c) + 1, Len(c.queue)),
                       !.visited = @ \cup ToSet(Batch(c))]

\* Lets failed fetches use the budget up.
AttemptsLeft(c) == c.queue # <<>> /\ Cardinality(c.visited) < MAX_PAGES_TO_CRAWL

CrawlGoesOn(c) == c.queue # <<>> /\ Cardinality(c.crawled) < MAX_PAGES_TO_CRAWL

\* Follows a link without asking robots.txt.
AddAnyLink(c, v) == [q \in Seq(Urls) |->
  IF v \in c.visited \cup ToSet(q) THEN q
  ELSE IF score[v] >= 50 THEN <<v>> \o q ELSE Append(q, v)]

\* A new link goes to the front when it scores 50 or more.
AddLink(c, v) == [q \in Seq(Urls) |->
  IF v \in c.visited \cup ToSet(q) \/ ~CanFetch(c.rules, v) THEN q
  ELSE IF score[v] >= 50 THEN <<v>> \o q ELSE Append(q, v)]
Linked(c, u) ==
  LET after[n \in 0 .. Len(linksOf[u])] ==
        IF n = 0 THEN c.queue ELSE AddLink(c, linksOf[u][n])[after[n - 1]]
  IN  after[Len(linksOf[u])]
AddPage(u) == [c \in Crawl |-> [c EXCEPT !.crawled = @ \cup {u}, !.queue = Linked(c, u)]]

\* The client follows redirects by itself: robots.txt is not asked about them, and
\* visited has the URL the fetch set out for.  A fetch that fails on the way has
\* followed some of them; the model counts all.
Redirect(c, u) == [c EXCEPT !.redirected = @ \cup redirectsOf[u]]

\* 404 and 410 are an expected miss; every other error counts as a failure.
AddResult(c, u, how) == CASE how = "page"    -> AddPage(u)[Redirect(c, u)]
                          [] how = "missing" -> Redirect(c, u)
                          [] how = "error"   -> [Redirect(c, u) EXCEPT !.failed = @ + 1]
AddBatch(c, fetch) ==
  LET batch == Batch(c)
      after[n \in 0 .. Len(batch)] ==
        IF n = 0 THEN Popped(c) ELSE AddResult(after[n - 1], batch[n], fetch[batch[n]])
  IN  after[Len(batch)]
\* What the crawl may be after its next batch.
AfterBatch(c) == {AddBatch(c, fetch) : fetch \in {f \in [ToSet(Batch(c)) -> Fetches] :
                                                  \A u \in DOMAIN f : f[u] \in fetchesOf[u]}}
=============================================================================
