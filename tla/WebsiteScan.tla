----------------------------- MODULE WebsiteScan -----------------------------
(***************************************************************************)
(* The website scans of one workspace: the requests that start, poll and   *)
(* resume them, and run_scan, an asyncio task of the API process, from its *)
(* first commit to the business profile it leaves.  Every run has a        *)
(* session of its own and keeps what it read across awaits; a restart of   *)
(* the process ends all runs and requests where they are.                  *)
(***************************************************************************)
EXTENDS SiteCrawl

CONSTANTS
  Scans,      \* website_scans rows, in the order they are created
  Runs,       \* calls of run_scan, bounded by this set
  Polls,      \* GET requests that may be under way at a time
  ScanFaults  \* the failures a run of the model lets happen

ASSUME ScanAssumption ==
  /\ Scans \subseteq Nat
  /\ Scans # {}
  /\ ScanFaults \subseteq {"robots", "fatal", "database", "restart"}

VARIABLES
  status,     \* website_scans.status, "none" before the row exists
  profiles,   \* number of active business_profiles rows
  pc,         \* where each run is
  scanOf,     \* the scan each run works on
  crawl,      \* each run's local crawl variables
  found,      \* whether each run's select found an active profile
  poll,       \* each GET under way: the scan it loaded, its status then, and the endpoint
  lost,       \* history: scans one of whose runs ended without recording it
  clash       \* history: two runs were between the select and the commit of a profile

scanVars == <<status, profiles, pc, scanOf, crawl, found, poll, lost, clash>>

UnderWay == {"PENDING", "IN_PROGRESS", "CRAWLING", "EXTRACTING"}
WithProfile == {"COMPLETED", "PARTIAL_FAILURE"}
Ended == WithProfile \cup {"FAILED"}
ScanStatus == UnderWay \cup Ended

Active == {"spawned", "planning", "crawling", "extracting", "deciding"}
Idle == [at |-> "idle"]
Loaded == [at : {"latest", "status"}, scan : Scans, seen : UnderWay]

ScanTypeOK ==
  /\ status \in [Scans -> ScanStatus \cup {"none"}]
  /\ profiles \in Nat
  /\ pc \in [Runs -> Active \cup {"unused", "ended"}]
  /\ scanOf \in [Runs -> Scans]
  /\ crawl \in [Runs -> Crawl]
  /\ found \in [Runs -> BOOLEAN]
  /\ poll \in [Polls -> Loaded \cup {Idle}]
  /\ lost \subseteq Scans
  /\ clash \in BOOLEAN

ScanInit ==
  /\ status = [s \in Scans |-> "none"]
  /\ profiles = 0
  /\ pc = [r \in Runs |-> "unused"]
  /\ scanOf = [r \in Runs |-> CHOOSE s \in Scans : TRUE]
  /\ crawl = [r \in Runs |-> NoCrawl]
  /\ found = [r \in Runs |-> FALSE]
  /\ poll = [g \in Polls |-> Idle]
  /\ lost = {}
  /\ clash = FALSE

Started(s) == status[s] # "none"
Move(r, to) == pc' = [pc EXCEPT ![r] = to]
SetStatus(s, new) == status' = [status EXCEPT ![s] = new]

\* A task that returns leaves none of its local variables.
End(r) ==
  /\ Move(r, "ended")
  /\ crawl' = [crawl EXCEPT ![r] = NoCrawl]
  /\ found' = [found EXCEPT ![r] = FALSE]

(* asyncio.create_task(_background_website_scan(...)) *)
Spawn(r, s) ==
  /\ pc[r] = "unused"
  /\ Move(r, "spawned")
  /\ scanOf' = [scanOf EXCEPT ![r] = s]

(* POST /website-scans and the scan of a new workspace: nothing asks whether
   another scan is under way.  A restart between the commit and create_task
   leaves what a restart just after create_task leaves. *)
StartScan(s, r) ==
  /\ ~Started(s) /\ \A t \in Scans : t < s => Started(t)
  /\ SetStatus(s, "PENDING")
  /\ Spawn(r, s)
  /\ UNCHANGED <<profiles, crawl, found, poll, lost, clash>>

(* Both GETs load a scan and keep its status while they ask for the profile. *)
LoadScan(g, endpoint, s) ==
  /\ poll[g] = Idle
  /\ status[s] \in UnderWay
  /\ endpoint = "latest" => \A t \in Scans : t > s => ~Started(t)
  /\ poll' = [poll EXCEPT ![g] = [at |-> endpoint, scan |-> s, seen |-> status[s]]]
  /\ UNCHANGED <<status, profiles, pc, scanOf, crawl, found, lost, clash>>

\* Asks for no profile.
HealBlindly(g) ==
  /\ poll[g] # Idle
  /\ SetStatus(poll[g].scan, "COMPLETED")
  /\ poll' = [poll EXCEPT ![g] = Idle]
  /\ UNCHANGED <<profiles, pc, scanOf, crawl, found, lost, clash>>

(* An active profile completes the scan, whatever has become of it since. *)
HealScan(g) ==
  /\ poll[g] # Idle
  /\ profiles = 1
  /\ SetStatus(poll[g].scan, "COMPLETED")
  /\ poll' = [poll EXCEPT ![g] = Idle]
  /\ UNCHANGED <<profiles, pc, scanOf, crawl, found, lost, clash>>

(* After three minutes a scan that was PENDING is run again. *)
ResumeScan(g, r) ==
  /\ poll[g] # Idle
  /\ profiles = 0
  /\ poll[g].at = "latest" /\ poll[g].seen = "PENDING"
  /\ Spawn(r, poll[g].scan)
  /\ poll' = [poll EXCEPT ![g] = Idle]
  /\ UNCHANGED <<status, profiles, crawl, found, lost, clash>>

(* Otherwise the GET changes nothing; with two profiles scalar_one_or_none raises. *)
LeaveScan(g) ==
  /\ poll[g] # Idle
  /\ profiles # 1
  /\ poll' = [poll EXCEPT ![g] = Idle]
  /\ UNCHANGED <<status, profiles, pc, scanOf, crawl, found, lost, clash>>

BeginRun(r) ==
  /\ pc[r] = "spawned"
  /\ SetStatus(scanOf[r], "IN_PROGRESS")
  /\ Move(r, "planning")
  /\ UNCHANGED <<profiles, scanOf, crawl, found, poll, lost, clash>>

(* robots.txt, the sitemaps, the budget, and the commit of CRAWLING. *)
PlanCrawl(r) ==
  /\ pc[r] = "planning"
  /\ \E plan \in PlannedCrawls \cup (IF "robots" \in ScanFaults THEN UnruledCrawls ELSE {}) :
       crawl' = [crawl EXCEPT ![r] = plan]
  /\ SetStatus(scanOf[r], "CRAWLING")
  /\ Move(r, "crawling")
  /\ UNCHANGED <<profiles, scanOf, found, poll, lost, clash>>

(* One batch: its fetches run side by side, their results are taken in order. *)
CrawlBatch(r) ==
  /\ pc[r] = "crawling"
  /\ CrawlGoesOn(crawl[r])
  /\ \E after \in AfterBatch(crawl[r]) : crawl' = [crawl EXCEPT ![r] = after]
  /\ UNCHANGED <<status, profiles, pc, scanOf, found, poll, lost, clash>>

\* Ends with a status the enumeration does not have.
EmptySite(r) ==
  /\ pc[r] = "crawling"
  /\ ~CrawlGoesOn(crawl[r]) /\ crawl[r].crawled = {}
  /\ SetStatus(scanOf[r], "EMPTY")
  /\ End(r)
  /\ UNCHANGED <<profiles, scanOf, poll, lost, clash>>

NoPages(r) ==
  /\ pc[r] = "crawling"
  /\ ~CrawlGoesOn(crawl[r]) /\ crawl[r].crawled = {}
  /\ SetStatus(scanOf[r], "FAILED")
  /\ End(r)
  /\ UNCHANGED <<profiles, scanOf, poll, lost, clash>>

StartExtracting(r) ==
  /\ pc[r] = "crawling"
  /\ ~CrawlGoesOn(crawl[r]) /\ crawl[r].crawled # {}
  /\ SetStatus(scanOf[r], "EXTRACTING")
  /\ Move(r, "extracting")
  /\ UNCHANGED <<profiles, scanOf, crawl, found, poll, lost, clash>>

(* select(BusinessProfile): scalar_one_or_none raises when there are two. *)
ReadProfile(r) ==
  /\ pc[r] = "extracting"
  /\ profiles <= 1
  /\ found' = [found EXCEPT ![r] = profiles = 1]
  /\ Move(r, "deciding")
  /\ clash' = (clash \/ \E other \in Runs : pc[other] = "deciding")
  /\ UNCHANGED <<status, profiles, scanOf, crawl, poll, lost>>

\* Inserts a profile beside the one that was found.
InsertAlways(r) ==
  /\ pc[r] = "deciding"
  /\ profiles' = profiles + 1
  /\ SetStatus(scanOf[r], IF crawl[r].failed > 0 THEN "PARTIAL_FAILURE" ELSE "COMPLETED")
  /\ End(r)
  /\ UNCHANGED <<scanOf, poll, lost, clash>>

(* The profile and the final status are one commit. *)
WriteProfile(r) ==
  /\ pc[r] = "deciding"
  /\ profiles' = IF found[r] THEN profiles ELSE profiles + 1
  /\ SetStatus(scanOf[r], IF crawl[r].failed > 0 THEN "PARTIAL_FAILURE" ELSE "COMPLETED")
  /\ End(r)
  /\ UNCHANGED <<scanOf, poll, lost, clash>>

\* Logs the exception only.
LogFailure(r) ==
  /\ \/ "fatal" \in ScanFaults /\ pc[r] \in Active \ {"spawned"}
     \/ pc[r] = "extracting" /\ profiles > 1
  /\ End(r)
  /\ UNCHANGED <<status, profiles, scanOf, poll, lost, clash>>

(* Anything raised inside the try, two profiles for one, ends the scan FAILED. *)
RecordFailure(r) ==
  /\ \/ "fatal" \in ScanFaults /\ pc[r] \in Active \ {"spawned"}
     \/ pc[r] = "extracting" /\ profiles > 1
  /\ SetStatus(scanOf[r], "FAILED")
  /\ End(r)
  /\ UNCHANGED <<profiles, scanOf, poll, lost, clash>>

(* The database fails the first commit, which is before the try, or fails the
   commit of the failure too: the run ends and its scan stays as it is. *)
FailUnrecorded(r) ==
  /\ "database" \in ScanFaults
  /\ pc[r] \in Active
  /\ End(r)
  /\ lost' = lost \cup {scanOf[r]}
  /\ UNCHANGED <<status, profiles, scanOf, poll, clash>>

(* The API process restarts: nothing looks for the scans it left under way. *)
Restart ==
  /\ "restart" \in ScanFaults
  /\ \E r \in Runs : pc[r] \in Active
  /\ pc' = [r \in Runs |-> IF pc[r] \in Active THEN "ended" ELSE pc[r]]
  /\ lost' = lost \cup {scanOf[r] : r \in {q \in Runs : pc[q] \in Active}}
  /\ crawl' = [r \in Runs |-> NoCrawl]
  /\ found' = [r \in Runs |-> FALSE]
  /\ poll' = [g \in Polls |-> Idle]
  /\ UNCHANGED <<status, profiles, scanOf, clash>>

RunStep(r) ==
  \/ BeginRun(r) \/ PlanCrawl(r) \/ CrawlBatch(r) \/ NoPages(r)
  \/ StartExtracting(r) \/ ReadProfile(r) \/ WriteProfile(r) \/ RecordFailure(r)

ScanNext ==
  \/ \E s \in Scans, r \in Runs : StartScan(s, r)
  \/ \E g \in Polls, endpoint \in {"latest", "status"}, s \in Scans : LoadScan(g, endpoint, s)
  \/ \E g \in Polls : HealScan(g)
  \/ \E g \in Polls, r \in Runs : ResumeScan(g, r)
  \/ \E g \in Polls : LeaveScan(g)
  \/ \E r \in Runs : RunStep(r)
  \/ \E r \in Runs : FailUnrecorded(r)
  \/ Restart

ScanSpec == ScanInit /\ [][ScanNext]_scanVars

\* The event loop runs every task that is not waiting, and all of a run's awaits
\* end: the HTTP client has a timeout.
FairScanSpec == ScanSpec /\ \A r \in Runs : WF_scanVars(RunStep(r))

-----------------------------------------------------------------------------
(* Properties *)

\* A scan reported as completed has left a profile: the last commit of run_scan
\* carries both, and the GETs complete a scan only for a profile that exists.
CompletedHasProfile == \A s \in Scans : status[s] \in WithProfile => profiles > 0

\* Restarts, failures, resumed and repeated scans alone never leave a second
\* active profile: only two runs between the select and the commit at once do.
TwoProfilesOnlyByClash == profiles > 1 => clash

\* A crawl keeps to its budget, and one that ends under it has asked for every
\* permitted link of every page it read: failed fetches do not use the budget up.
CrawlIsComplete ==
  \A r \in Runs :
    /\ Cardinality(crawl[r].crawled) <= MAX_PAGES_TO_CRAWL
    /\ pc[r] \in {"extracting", "deciding"} /\ Cardinality(crawl[r].crawled) < MAX_PAGES_TO_CRAWL =>
         \A u \in crawl[r].crawled :
           {v \in ToSet(linksOf[u]) : CanFetch(crawl[r].rules, v)} \subseteq crawl[r].visited

\* robots.txt was read, and forbids u to this bot by name and to every bot.
Forbidden(rules, u) == rules /\ u \in botRules \cap anyRules

\* Whatever sitemaps and pages name, a crawl sets out for a forbidden URL only if it is
\* the base URL or has an empty path.  Where a redirect leads is another matter.
RobotsHold ==
  \A r \in Runs : \A u \in crawl[r].visited :
    Forbidden(crawl[r].rules, u) => u = Home \/ EmptyPath(u)

\* Not so: "respect User-Agent rules" (milestones, line 306).  The client follows a
\* redirect from a permitted URL to a forbidden one without asking (crawler_service.py:66),
\* and the forbidden page is stored (fetcher.py:102).
ForbiddenNeverAsked ==
  \A r \in Runs : \A u \in crawl[r].visited \cup crawl[r].redirected :
    Forbidden(crawl[r].rules, u) => u = Home \/ EmptyPath(u)

\* Every scan comes to rest, completed or failed, unless one of its runs ended
\* without being able to record it.
ScansSettle ==
  \A s \in Scans : <>[](~Started(s) \/ status[s] \in Ended \/ s \in lost)
=============================================================================
