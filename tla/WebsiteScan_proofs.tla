-------------------------- MODULE WebsiteScan_proofs --------------------------
(***************************************************************************)
(* What a workspace's scans do to its business profile, for any number of   *)
(* scans, runs and polls, and what their crawls ask a site for, for any     *)
(* site, budget, batch size and failures.  The crawl's recursions (over the *)
(* buckets, the links of a page and the results of a batch) are treated by  *)
(* induction along their numbers, stated with sets (DataLemmas).            *)
(***************************************************************************)
EXTENDS WebsiteScan, DataLemmas

\* The types of all but the crawl.
RowsTyped ==
  /\ status \in [Scans -> ScanStatus \cup {"none"}]
  /\ profiles \in Nat
  /\ pc \in [Runs -> Active \cup {"unused", "ended"}]
  /\ scanOf \in [Runs -> Scans]
  /\ found \in [Runs -> BOOLEAN]
  /\ poll \in [Polls -> Loaded \cup {Idle}]
  /\ clash \in BOOLEAN

\* What a run that has read the profile knows of it, if nobody came between.
DecidesAlone ==
  ~clash =>
    /\ profiles <= 1
    /\ \A r, q \in Runs : pc[r] = "deciding" /\ pc[q] = "deciding" => r = q
    /\ \A r \in Runs : pc[r] = "deciding" /\ ~found[r] => profiles = 0

\* A run that found a profile found one that stays.
FoundIsThere == \A r \in Runs : pc[r] = "deciding" /\ found[r] => profiles > 0

ProfileInv == RowsTyped /\ DecidesAlone /\ FoundIsThere /\ CompletedHasProfile

-----------------------------------------------------------------------------

\* A step that ends some runs, or moves some on short of the decision, and completes no scan.
LEMMA OtherStepsKeep ==
  ASSUME ProfileInv, RowsTyped', UNCHANGED <<profiles, clash>>,
         \A r \in Runs : pc'[r] = "deciding" => pc[r] = "deciding" /\ found'[r] = found[r],
         \A s \in Scans : status'[s] \in WithProfile => status[s] \in WithProfile \/ profiles > 0
  PROVE  ProfileInv'
BY DEF ProfileInv, DecidesAlone, FoundIsThere, CompletedHasProfile

\* What writing a status, ending a run, moving one on and starting one leave of the rest.
LEMMA StatusOf ==
  ASSUME RowsTyped, NEW s \in Scans, NEW new \in ScanStatus, SetStatus(s, new)
  PROVE  /\ status' \in [Scans -> ScanStatus \cup {"none"}]
         /\ \A t \in Scans : status'[t] = IF t = s THEN new ELSE status[t]
BY DEF RowsTyped, SetStatus

LEMMA EndOf ==
  ASSUME RowsTyped, NEW r \in Runs, End(r)
  PROVE  /\ pc' \in [Runs -> Active \cup {"unused", "ended"}] /\ found' \in [Runs -> BOOLEAN]
         /\ pc'[r] = "ended"
         /\ \A q \in Runs : q # r => pc'[q] = pc[q] /\ found'[q] = found[q]
BY DEF RowsTyped, End, Move

LEMMA MoveOf ==
  ASSUME RowsTyped, NEW r \in Runs, NEW to \in Active, Move(r, to)
  PROVE  /\ pc' \in [Runs -> Active \cup {"unused", "ended"}]
         /\ \A q \in Runs : pc'[q] = IF q = r THEN to ELSE pc[q]
BY DEF RowsTyped, Move

LEMMA SpawnOf ==
  ASSUME RowsTyped, NEW r \in Runs, NEW s \in Scans, Spawn(r, s)
  PROVE  /\ pc' \in [Runs -> Active \cup {"unused", "ended"}] /\ scanOf' \in [Runs -> Scans]
         /\ \A q \in Runs : pc'[q] = "deciding" => pc[q] = "deciding"
<1>1. Move(r, "spawned") /\ "spawned" \in Active
  BY DEF Spawn, Active
<1> QED
  BY <1>1, MoveOf DEF Spawn, RowsTyped

\* A poll under way has loaded a scan.
LEMMA PollOf ==
  ASSUME RowsTyped, NEW g \in Polls, poll[g] # Idle
  PROVE  poll[g].scan \in Scans
BY DEF RowsTyped, Loaded

\* Which of the statuses stand for a profile.
LEMMA Statuses ==
  /\ {"PENDING", "IN_PROGRESS", "CRAWLING", "EXTRACTING", "FAILED"} \subseteq ScanStatus \ WithProfile
  /\ WithProfile = {"COMPLETED", "PARTIAL_FAILURE"} /\ WithProfile \subseteq ScanStatus
BY DEF ScanStatus, UnderWay, Ended, WithProfile

\* Initially there is no profile, and each step keeps who has found and made one.
LEMMA ProfileInvHolds == ScanSpec => []ProfileInv
<1>1. ScanInit => ProfileInv
  <2> SUFFICES ASSUME ScanInit PROVE ProfileInv
    OBVIOUS
  <2>1. (CHOOSE s \in Scans : TRUE) \in Scans
    BY ScanAssumption
  <2>2. RowsTyped
    BY <2>1 DEF ScanInit, RowsTyped
  <2>3. \A s \in Scans : status[s] \notin WithProfile
    BY DEF ScanInit, WithProfile
  <2>4. \A r \in Runs : pc[r] # "deciding"
    BY DEF ScanInit
  <2> QED
    BY <2>2, <2>3, <2>4 DEF ScanInit, ProfileInv, DecidesAlone, FoundIsThere, CompletedHasProfile
<1>2. ProfileInv /\ [ScanNext]_scanVars => ProfileInv'
  <2> SUFFICES ASSUME ProfileInv, [ScanNext]_scanVars PROVE ProfileInv'
    OBVIOUS
  <2>0. RowsTyped
    BY DEF ProfileInv
  <2>1. ASSUME NEW s \in Scans, NEW r \in Runs, StartScan(s, r) PROVE ProfileInv'
    <3>1. /\ \A t \in Scans : status'[t] = IF t = s THEN "PENDING" ELSE status[t]
          /\ status' \in [Scans -> ScanStatus \cup {"none"}]
      BY <2>0, <2>1, Statuses, StatusOf DEF StartScan
    <3>2. RowsTyped'
      BY <2>0, <2>1, <3>1, SpawnOf DEF StartScan, RowsTyped
    <3>3. \A q \in Runs : pc'[q] = "deciding" => pc[q] = "deciding" /\ found'[q] = found[q]
      BY <2>0, <2>1, SpawnOf DEF StartScan
    <3> QED
      BY <2>1, <3>1, <3>2, <3>3, Statuses, OtherStepsKeep DEF StartScan
  <2>2. ASSUME NEW g \in Polls, NEW endpoint \in {"latest", "status"}, NEW s \in Scans,
               LoadScan(g, endpoint, s)
        PROVE  ProfileInv'
    <3>1. [at |-> endpoint, scan |-> s, seen |-> status[s]] \in Loaded
      BY <2>2 DEF LoadScan, Loaded
    <3>2. RowsTyped'
      BY <2>0, <2>2, <3>1 DEF LoadScan, RowsTyped
    <3> QED
      BY <2>2, <3>2, OtherStepsKeep DEF LoadScan
  <2>3. ASSUME NEW g \in Polls, HealScan(g) PROVE ProfileInv'
    <3>1. /\ \A t \in Scans : status'[t] = IF t = poll[g].scan THEN "COMPLETED" ELSE status[t]
          /\ status' \in [Scans -> ScanStatus \cup {"none"}]
      BY <2>0, <2>3, Statuses, StatusOf, PollOf DEF HealScan
    <3>2. RowsTyped'
      BY <2>0, <2>3, <3>1 DEF HealScan, RowsTyped
    <3> QED
      BY <2>3, <3>1, <3>2, OtherStepsKeep DEF HealScan
  <2>4. ASSUME NEW g \in Polls, NEW r \in Runs, ResumeScan(g, r) PROVE ProfileInv'
    <3>1. RowsTyped'
      BY <2>0, <2>4, SpawnOf, PollOf DEF ResumeScan, RowsTyped
    <3>2. \A q \in Runs : pc'[q] = "deciding" => pc[q] = "deciding" /\ found'[q] = found[q]
      BY <2>0, <2>4, SpawnOf, PollOf DEF ResumeScan
    <3> QED
      BY <2>4, <3>1, <3>2, OtherStepsKeep DEF ResumeScan
  <2>5. ASSUME NEW g \in Polls, LeaveScan(g) PROVE ProfileInv'
    <3>1. RowsTyped'
      BY <2>0, <2>5 DEF LeaveScan, RowsTyped
    <3> QED
      BY <2>5, <3>1, OtherStepsKeep DEF LeaveScan
  <2>6. ASSUME NEW r \in Runs, BeginRun(r) \/ PlanCrawl(r) \/ StartExtracting(r) PROVE ProfileInv'
    <3>1. PICK new \in {"IN_PROGRESS", "CRAWLING", "EXTRACTING"},
               to \in {"planning", "crawling", "extracting"} :
            SetStatus(scanOf[r], new) /\ Move(r, to)
      BY <2>6 DEF BeginRun, PlanCrawl, StartExtracting
    <3>2. UNCHANGED <<profiles, scanOf, found, poll, clash>>
      BY <2>6 DEF BeginRun, PlanCrawl, StartExtracting
    <3>3. /\ \A t \in Scans : status'[t] = IF t = scanOf[r] THEN new ELSE status[t]
          /\ status' \in [Scans -> ScanStatus \cup {"none"}]
      BY <2>0, <3>1, Statuses, StatusOf DEF RowsTyped
    <3>4. /\ pc' \in [Runs -> Active \cup {"unused", "ended"}]
          /\ \A q \in Runs : pc'[q] = IF q = r THEN to ELSE pc[q]
      BY <2>0, <3>1, MoveOf DEF Active
    <3>5. RowsTyped'
      BY <2>0, <3>2, <3>3, <3>4 DEF RowsTyped
    <3> QED
      BY <3>1, <3>2, <3>3, <3>4, <3>5, Statuses, OtherStepsKeep
  <2>7. ASSUME NEW r \in Runs, CrawlBatch(r) PROVE ProfileInv'
    <3>1. RowsTyped'
      BY <2>0, <2>7 DEF CrawlBatch, RowsTyped
    <3> QED
      BY <2>7, <3>1, OtherStepsKeep DEF CrawlBatch
  <2>8. ASSUME NEW r \in Runs, NoPages(r) \/ RecordFailure(r) PROVE ProfileInv'
    <3>1. /\ SetStatus(scanOf[r], "FAILED") /\ End(r)
          /\ UNCHANGED <<profiles, scanOf, poll, clash>>
      BY <2>8 DEF NoPages, RecordFailure
    <3>2. /\ \A t \in Scans : status'[t] = IF t = scanOf[r] THEN "FAILED" ELSE status[t]
          /\ status' \in [Scans -> ScanStatus \cup {"none"}]
      BY <2>0, <3>1, Statuses, StatusOf DEF RowsTyped
    <3>3. RowsTyped'
      BY <2>0, <3>1, <3>2, EndOf DEF RowsTyped
    <3> QED
      BY <2>0, <3>1, <3>2, <3>3, Statuses, EndOf, OtherStepsKeep
  <2>9. ASSUME NEW r \in Runs, FailUnrecorded(r) PROVE ProfileInv'
    <3>1. RowsTyped'
      BY <2>0, <2>9, EndOf DEF FailUnrecorded, RowsTyped
    <3> QED
      BY <2>0, <2>9, <3>1, EndOf, OtherStepsKeep DEF FailUnrecorded
  <2>10. CASE Restart
    <3>1. /\ pc' = [r \in Runs |-> IF pc[r] \in Active THEN "ended" ELSE pc[r]]
          /\ found' = [r \in Runs |-> FALSE] /\ poll' = [g \in Polls |-> Idle]
          /\ UNCHANGED <<status, profiles, scanOf, clash>>
      BY <2>10 DEF Restart
    <3>2. RowsTyped'
      BY <2>0, <3>1 DEF RowsTyped
    <3>3. \A q \in Runs : pc'[q] # "deciding"
      BY <3>1 DEF Active
    <3> QED
      BY <3>1, <3>2, <3>3, OtherStepsKeep
  <2>11. ASSUME NEW r \in Runs, ReadProfile(r) PROVE ProfileInv'
    <3>1. /\ pc' \in [Runs -> Active \cup {"unused", "ended"}]
          /\ \A q \in Runs : pc'[q] = IF q = r THEN "deciding" ELSE pc[q]
      BY <2>0, <2>11, MoveOf DEF ReadProfile, Active
    <3>2. /\ found'[r] = (profiles = 1)
          /\ \A q \in Runs : q # r => found'[q] = found[q]
          /\ found' \in [Runs -> BOOLEAN]
      BY <2>0, <2>11 DEF ReadProfile, RowsTyped
    <3>3. /\ UNCHANGED <<status, profiles, scanOf, poll>> /\ profiles <= 1 /\ clash' \in BOOLEAN
          /\ ~clash' => ~clash /\ \A q \in Runs : pc[q] # "deciding"
      BY <2>11 DEF ReadProfile, ProfileInv, RowsTyped
    <3>4. RowsTyped'
      BY <2>0, <3>1, <3>2, <3>3 DEF RowsTyped
    <3>5. DecidesAlone'
      BY <2>0, <3>1, <3>2, <3>3 DEF RowsTyped, DecidesAlone
    <3>6. FoundIsThere' /\ CompletedHasProfile'
      BY <3>1, <3>2, <3>3 DEF ProfileInv, FoundIsThere, CompletedHasProfile
    <3> QED
      BY <3>4, <3>5, <3>6 DEF ProfileInv
  <2>12. ASSUME NEW r \in Runs, WriteProfile(r) PROVE ProfileInv'
    <3>1. PICK new \in WithProfile : SetStatus(scanOf[r], new)
      BY <2>12 DEF WriteProfile, WithProfile
    <3>2. /\ \A t \in Scans : status'[t] = IF t = scanOf[r] THEN new ELSE status[t]
          /\ status' \in [Scans -> ScanStatus \cup {"none"}]
      BY <2>0, <3>1, Statuses, StatusOf DEF RowsTyped
    <3>3. /\ pc[r] = "deciding" /\ End(r) /\ UNCHANGED <<scanOf, poll, clash>>
          /\ profiles' = IF found[r] THEN profiles ELSE profiles + 1
      BY <2>12 DEF WriteProfile
    <3>4. profiles \in Nat /\ profiles' \in Nat /\ profiles' > 0 /\ profiles' >= profiles
      BY <2>0, <3>3 DEF RowsTyped, ProfileInv, FoundIsThere
    <3>5. RowsTyped'
      BY <2>0, <3>2, <3>3, <3>4, EndOf DEF RowsTyped
    <3>6. DecidesAlone'
      BY <2>0, <3>3, <3>4, EndOf DEF ProfileInv, DecidesAlone
    <3>7. FoundIsThere' /\ CompletedHasProfile'
      BY <3>4 DEF FoundIsThere, CompletedHasProfile
    <3> QED
      BY <3>5, <3>6, <3>7 DEF ProfileInv
  <2>13. CASE UNCHANGED scanVars
    BY <2>0, <2>13 DEF scanVars, ProfileInv, RowsTyped, DecidesAlone, FoundIsThere, CompletedHasProfile
  <2> QED
    BY <2>1, <2>2, <2>3, <2>4, <2>5, <2>6, <2>7, <2>8, <2>9, <2>10, <2>11, <2>12, <2>13
    DEF ScanNext, RunStep
<1> QED
  BY <1>1, <1>2, PTL DEF ScanSpec

\* A scan that says it is completed has left a profile, whatever was resumed, repeated or
\* cut short before: for any site and any number of scans and runs.
THEOREM CompletedScansHaveProfile == ScanSpec => []CompletedHasProfile
<1>1. ProfileInv => CompletedHasProfile
  BY DEF ProfileInv
<1> QED
  BY <1>1, ProfileInvHolds, PTL

\* A workspace has a second active profile only when two of its scans were between the read of
\* the profile and its commit at one time.
THEOREM ProfileIsOne == ScanSpec => []TwoProfilesOnlyByClash
<1>1. ProfileInv => TwoProfilesOnlyByClash
  BY DEF ProfileInv, RowsTyped, DecidesAlone, TwoProfilesOnlyByClash
<1> QED
  BY <1>1, ProfileInvHolds, PTL

-----------------------------------------------------------------------------
(* The crawl *)

\* The members of a sequence, as either library names them.
LEMMA ToSetOf ==
  ASSUME NEW T, NEW q \in Seq(T)
  PROVE  /\ ToSet(q) = Range(q) /\ ToSet(q) \subseteq T /\ q \in Seq(ToSet(q))
         /\ ToSet(q) = {q[i] : i \in 1 .. Len(q)}
<1>1. ToSet(q) = Range(q)
  BY DEF ToSet, Range
<1> QED
  BY <1>1, RangeOfSeq, SeqOfRange, RangeEquality

\* What a sequence filtered by a set keeps.
LEMMA OnlySet ==
  ASSUME NEW T, NEW q \in Seq(T), NEW S
  PROVE  Only(q, S) \in Seq(T \cap S) /\ ToSet(Only(q, S)) = ToSet(q) \cap S
<1> DEFINE p == Only(q, S)
<1>1. p \in Seq(T \cap S) /\ Range(p) = Range(q) \cap S
  BY OnlyKeeps
<1> HIDE DEF p
<1>2. ToSet(p) = Range(p) /\ ToSet(q) = Range(q)
  BY <1>1, ToSetOf
<1> QED
  BY <1>1, <1>2 DEF p

\* A sequence cut in two: both parts are sequences over the same set and share out its members.
LEMMA SplitSet ==
  ASSUME NEW T, NEW q \in Seq(T), NEW n \in 0 .. Len(q)
  PROVE  /\ SubSeq(q, 1, n) \in Seq(T) /\ SubSeq(q, n + 1, Len(q)) \in Seq(T)
         /\ ToSet(q) = ToSet(SubSeq(q, 1, n)) \cup ToSet(SubSeq(q, n + 1, Len(q)))
<1> DEFINE p == SubSeq(q, 1, n)   s == SubSeq(q, n + 1, Len(q))
<1>1. Len(q) \in Nat /\ \A i \in 1 .. Len(q) : q[i] \in T
  BY LenProperties, ElementOfSeq
<1>2. /\ p \in Seq(T) /\ Len(p) = n
      /\ \A i \in 1 .. n : p[i] = q[i]
  <2>1. \A i \in 1 .. n : q[i] \in T
    BY <1>1
  <2>2. /\ p \in Seq(T) /\ Len(p) = IF 1 <= n THEN n - 1 + 1 ELSE 0
        /\ \A i \in 1 .. n - 1 + 1 : p[i] = q[1 + i - 1]
    BY <2>1, SubSeqProperties
  <2> QED
    BY <1>1, <2>2
<1>3. /\ s \in Seq(T) /\ Len(s) = Len(q) - n
      /\ \A i \in 1 .. Len(q) - n : s[i] = q[n + i]
  <2>1. \A i \in n + 1 .. Len(q) : q[i] \in T
    BY <1>1
  <2>2. /\ s \in Seq(T) /\ Len(s) = IF n + 1 <= Len(q) THEN Len(q) - (n + 1) + 1 ELSE 0
        /\ \A i \in 1 .. Len(q) - (n + 1) + 1 : s[i] = q[(n + 1) + i - 1]
    BY <1>1, <2>1, SubSeqProperties
  <2> QED
    BY <1>1, <2>2
<1> HIDE DEF p, s
<1>4. ToSet(p) = {q[i] : i \in 1 .. n}
  <2>1. DOMAIN p = 1 .. n
    BY <1>2, LenProperties
  <2> QED
    BY <1>2, <2>1 DEF ToSet
<1>5. ToSet(s) = {q[i] : i \in n + 1 .. Len(q)}
  <2>1. DOMAIN s = 1 .. Len(q) - n
    BY <1>3, LenProperties
  <2>2. ToSet(s) = {s[i] : i \in 1 .. Len(q) - n}
    BY <2>1 DEF ToSet
  <2>3. ASSUME NEW i \in n + 1 .. Len(q) PROVE q[i] \in ToSet(s)
    <3>1. i - n \in 1 .. Len(q) - n /\ n + (i - n) = i
      BY <1>1
    <3> QED
      BY <1>3, <2>2, <3>1
  <2>4. ASSUME NEW j \in 1 .. Len(q) - n PROVE \E i \in n + 1 .. Len(q) : s[j] = q[i]
    <3>1. n + j \in n + 1 .. Len(q) /\ s[j] = q[n + j]
      BY <1>1, <1>3
    <3> QED
      BY <3>1
  <2>5. ToSet(s) \subseteq {q[i] : i \in n + 1 .. Len(q)}
    BY <2>2, <2>4
  <2>6. {q[i] : i \in n + 1 .. Len(q)} \subseteq ToSet(s)
    BY <2>3
  <2> QED
    BY <2>5, <2>6
<1>6. ToSet(q) = {q[i] : i \in 1 .. Len(q)}
  BY LenProperties DEF ToSet
<1>7. \A i \in 1 .. Len(q) : i \in 1 .. n \/ i \in n + 1 .. Len(q)
  BY <1>1
<1>8. 1 .. n \subseteq 1 .. Len(q) /\ n + 1 .. Len(q) \subseteq 1 .. Len(q)
  BY <1>1
<1>9. ToSet(q) = ToSet(p) \cup ToSet(s)
  BY <1>4, <1>5, <1>6, <1>7, <1>8
<1> QED
  BY <1>2, <1>3, <1>9 DEF p, s

\* Ranking by score brings every place an entry of the list: the positions are a ranking of it.
LEMMA SortKeeps ==
  ASSUME NEW P, P \subseteq Urls, NEW q \in Seq(P)
  PROVE  SortByScore[q] \in Seq(P)
<1> DEFINE D == 1 .. Len(q)   rank == [i \in D |-> Position(q, i)]
<1>1. q \in Seq(Urls) /\ Len(q) \in Nat /\ DOMAIN q = D /\ \A i \in D : q[i] \in P
  BY SeqMonotonic, LenProperties, ElementOfSeq
<1>2. IsFiniteSet(D) /\ Cardinality(D) = Len(q)
  BY <1>1, FS_Interval
<1>3. /\ \A i \in D : Before(q, i, i)
      /\ \A i, j \in D : Before(q, i, j) \/ Before(q, j, i)
      /\ \A i, j \in D : Before(q, i, j) /\ Before(q, j, i) => i = j
      /\ \A i, j, k \in D : Before(q, i, j) /\ Before(q, j, k) => Before(q, i, k)
  <2> DEFINE at == [i \in D |-> score[q[i]]]
             first(j, i) == at[j] > at[i] \/ (at[j] = at[i] /\ j <= i)
  <2>1. at \in [D -> Nat] /\ D \subseteq Int
    BY <1>1, SiteAssumption
  <2>2. ASSUME NEW i \in D, NEW j \in D PROVE Before(q, i, j) <=> first(i, j)
    <3>1. at[i] = score[q[i]] /\ at[j] = score[q[j]]
      OBVIOUS
    <3> HIDE DEF at
    <3> QED
      BY <3>1 DEF Before
  <2> HIDE DEF at, D
  <2>3. ASSUME NEW i \in D, NEW j \in D, NEW k \in D
        PROVE  /\ first(i, i)
               /\ first(i, j) \/ first(j, i)
               /\ first(i, j) /\ first(j, i) => i = j
               /\ first(i, j) /\ first(j, k) => first(i, k)
    <3>1. at[i] \in Nat /\ at[j] \in Nat /\ at[k] \in Nat /\ i \in Int /\ j \in Int /\ k \in Int
      BY <2>1
    <3> QED
      BY <3>1
  <2> HIDE DEF first
  <2> QED
    BY <2>2, <2>3
<1>4. ASSUME NEW i \in D
      PROVE  /\ Ahead(q, i) \in SUBSET D /\ i \in Ahead(q, i)
             /\ IsFiniteSet(Ahead(q, i)) /\ Position(q, i) \in 1 .. Len(q)
  <2>1. Ahead(q, i) \in SUBSET D /\ i \in Ahead(q, i)
    BY <1>1, <1>3 DEF Ahead
  <2>2. IsFiniteSet(Ahead(q, i)) /\ Cardinality(Ahead(q, i)) <= Len(q)
    BY <1>2, <2>1, FS_Subset
  <2>3. Cardinality(Ahead(q, i)) \in Nat /\ Cardinality(Ahead(q, i)) # 0
    BY <2>1, <2>2, FS_CardinalityType, FS_EmptySet
  <2> QED
    BY <1>1, <2>1, <2>2, <2>3 DEF Position
<1>5. ASSUME NEW i \in D, NEW j \in D, ~Before(q, j, i) PROVE Position(q, i) # Position(q, j)
  <2>1. Ahead(q, i) \in SUBSET Ahead(q, j)
    BY <1>1, <1>3, <1>5 DEF Ahead
  <2>2. j \in Ahead(q, j) /\ j \notin Ahead(q, i)
    BY <1>4, <1>5 DEF Ahead
  <2>3. IsFiniteSet(Ahead(q, j))
    BY <1>4
  <2>4. Cardinality(Ahead(q, j)) # Cardinality(Ahead(q, i))
    BY <2>1, <2>2, <2>3, FS_Subset
  <2> QED
    BY <2>4 DEF Position
<1>6. ASSUME NEW i \in D, NEW j \in D, Position(q, i) = Position(q, j) PROVE i = j
  BY <1>3, <1>5, <1>6
<1>7. rank \in [D -> 1 .. Cardinality(D)] /\ \A i, j \in D : rank[i] = rank[j] => i = j
  BY <1>2, <1>4, <1>6
<1>8. ASSUME NEW n \in D PROVE \E i \in D : Position(q, i) = n
  <2>1. n \in 1 .. Cardinality(D)
    BY <1>2
  <2>2. \E i \in D : rank[i] = n
    <3> HIDE DEF D, rank
    <3> QED
      BY <1>2, <1>7, <2>1, RankingIsOnto
  <2> QED
    BY <2>2
<1>9. SortByScore[q] = [n \in D |-> q[CHOOSE i \in D : Position(q, i) = n]]
  BY <1>1 DEF SortByScore
<1>10. \A n \in D : q[CHOOSE i \in D : Position(q, i) = n] \in P
  BY <1>1, <1>8
<1> QED
  BY <1>1, <1>9, <1>10

\* A bucket's share and the rest of it hold entries of the list only.
LEMMA BucketKeeps ==
  ASSUME NEW P, P \subseteq Urls, NEW q \in Seq(P), NEW c \in ToSet(Categories)
  PROVE  Guaranteed(q, c) \in Seq(P) /\ Remaining(q, c) \in Seq(P)
<1> DEFINE b == Bucket(q, c)   k == Share(q, c)
<1>1. b \in Seq(P)
  <2>1. b \in Seq(P \cap {u \in Urls : category[u] = c})
    BY OnlySet DEF Bucket
  <2> QED
    BY <2>1, SeqMonotonic
<1>2. Len(b) \in Nat /\ quota[c] \in Nat
  BY <1>1, LenProperties, SiteAssumption
<1>3. k \in 0 .. Len(b)
  <2>1. IF quota[c] <= Len(b) THEN k = quota[c] ELSE k = Len(b)
    BY <1>2 DEF Share, Min
  <2> QED
    BY <1>2, <2>1
<1> HIDE DEF b, k
<1>4. SubSeq(b, 1, k) \in Seq(P) /\ SubSeq(b, k + 1, Len(b)) \in Seq(P)
  BY <1>1, <1>3, SplitSet
<1> QED
  BY <1>4 DEF b, k, Guaranteed, Remaining

\* Concatenating sequences over a set gives one over that set.
LEMMA FlattenKeeps ==
  ASSUME NEW P, NEW s \in Seq(Seq(P)), s # <<>>
  PROVE  FlattenSeq(s) \in Seq(P)
<1> DEFINE N == Len(s)
           flat == CHOOSE g : g = [i \in 1 .. N |-> IF i = 1 THEN s[i] ELSE g[i - 1] \o s[i]]
<1>1. N \in Nat \ {0} /\ \A i \in 1 .. N : s[i] \in Seq(P)
  BY EmptySeq, LenProperties, ElementOfSeq
<1>2. FlattenSeq(s) = flat[N]
  BY <1>1 DEF FlattenSeq
<1> DEFINE R == Seq(P)
           step == [i \in 1 .. N |-> [p \in R |-> p \o s[i]]]
           none == <<>>
<1>3. step \in [1 .. N -> [R -> R]] /\ none \in R
  BY <1>1, ConcatProperties, EmptySeq
<1>4. PICK f \in [0 .. N -> R] : Iterates(f, N, none, step)
  <2> HIDE DEF N, R, step, none
  <2> QED
    BY <1>1, <1>3, IterationExists
<1>5. f[0] = <<>> /\ \A i \in 1 .. N : f[i] = f[i - 1] \o s[i]
  <2>1. f[0] = <<>> /\ \A i \in 1 .. N : f[i] = step[i][f[i - 1]]
    BY <1>4 DEF Iterates
  <2>2. ASSUME NEW i \in 1 .. N PROVE f[i - 1] \in R
    <3>1. i - 1 \in 0 .. N
      BY <1>1
    <3> QED
      BY <3>1
  <2> QED
    BY <2>1, <2>2
<1> DEFINE g == [i \in 1 .. N |-> f[i]]
<1>6. g = [i \in 1 .. N |-> IF i = 1 THEN s[i] ELSE g[i - 1] \o s[i]]
  <2> DEFINE h == [i \in 1 .. N |-> IF i = 1 THEN s[i] ELSE g[i - 1] \o s[i]]
  <2>1. ASSUME NEW i \in 1 .. N PROVE g[i] = h[i]
    <3>1. CASE i = 1
      <4>1. s[1] \in Seq(P) /\ 1 \in 1 .. N
        BY <1>1
      <4>2. f[1] = <<>> \o s[1]
        <5> HIDE DEF N
        <5>1. i \in 1 .. N /\ i - 1 = 0
          BY <3>1
        <5>2. f[i] = f[i - 1] \o s[i] /\ f[0] = <<>>
          BY <1>5
        <5>3. f[i] = f[0] \o s[i]
          BY <5>1, <5>2
        <5> QED
          BY <3>1, <5>2, <5>3
      <4>3. f[1] = s[1]
        BY <4>1, <4>2, ConcatEmptySeq
      <4> QED
        BY <3>1, <4>1, <4>3
    <3>2. CASE i # 1
      <4>1. i - 1 \in 1 .. N
        BY <1>1, <3>2
      <4>2. g[i - 1] = f[i - 1]
        BY <4>1
      <4> QED
        BY <1>5, <3>2, <4>2
    <3> QED
      BY <3>1, <3>2
  <2>2. h = [i \in 1 .. N |-> h[i]] /\ g = [i \in 1 .. N |-> g[i]]
    OBVIOUS
  <2> HIDE DEF g, h
  <2>3. g = h
    BY <2>1, <2>2
  <2> QED
    BY <2>3 DEF h
<1>7. flat = [i \in 1 .. N |-> IF i = 1 THEN s[i] ELSE flat[i - 1] \o s[i]]
  <2> HIDE DEF g
  <2> QED
    BY <1>6
<1> HIDE DEF flat, g
<1> DEFINE typed == {i \in 1 .. N : flat[i] \in R}
<1>8. 1 \in typed
  BY <1>1, <1>7
<1>9. ASSUME NEW i \in 1 .. N - 1, i \in typed PROVE i + 1 \in typed
  <2>1. i + 1 \in 1 .. N /\ i + 1 # 1 /\ (i + 1) - 1 = i
    BY <1>1
  <2>2. flat[i + 1] = flat[i] \o s[i + 1]
    BY <1>7, <2>1
  <2>3. flat[i] \in Seq(P) /\ s[i + 1] \in Seq(P)
    BY <1>1, <1>9, <2>1
  <2>4. flat[i] \o s[i + 1] \in Seq(P)
    BY <2>3, ConcatProperties
  <2> QED
    BY <2>1, <2>2, <2>4
<1>10. N \in typed
  <2> HIDE DEF typed, N
  <2>0. N \in Int /\ 1 \in Int /\ \A i \in 1 .. N - 1 : i \in typed => i + 1 \in typed
    BY <1>1, <1>9
  <2>1. 1 .. N \subseteq typed
    BY <1>8, <2>0, ReachedBySteps
  <2> QED
    BY <1>1, <2>1
<1> QED
  BY <1>2, <1>10

\* The stratified list is made of entries of the list it was given.
LEMMA StratifyKeeps ==
  ASSUME NEW P, P \subseteq Urls, NEW q \in Seq(P), NEW budget \in Nat
  PROVE  Stratify(q, budget) \in Seq(P)
<1> DEFINE shares == [n \in DOMAIN Categories |-> Guaranteed(q, Categories[n])]
           rests == [n \in DOMAIN Categories |-> Remaining(q, Categories[n])]
           order == FlattenSeq(shares) \o SortByScore[FlattenSeq(rests)]
           cut == Min({budget, Len(order)})
<1>1. DOMAIN Categories = 1 .. 11 /\ \A n \in 1 .. 11 : Categories[n] \in ToSet(Categories)
  <2>1. DOMAIN Categories = 1 .. 11
    BY DEF Categories
  <2> QED
    BY <2>1 DEF ToSet
<1>2. shares \in Seq(Seq(P)) /\ rests \in Seq(Seq(P)) /\ shares # <<>> /\ rests # <<>>
  <2>1. shares \in [1 .. 11 -> Seq(P)] /\ rests \in [1 .. 11 -> Seq(P)]
    BY <1>1, BucketKeeps
  <2> DEFINE N == 11   R == Seq(P)
  <2>2. N \in Nat /\ N # 0 /\ shares \in [1 .. N -> R] /\ rests \in [1 .. N -> R]
    BY <2>1
  <2> HIDE DEF shares, rests, N, R
  <2>3. shares \in Seq(R) /\ rests \in Seq(R) /\ Len(shares) = N /\ Len(rests) = N
    BY <2>2
  <2>4. shares # <<>> /\ rests # <<>>
    BY <2>2, <2>3, EmptySeq
  <2> QED
    BY <2>3, <2>4 DEF R
<1> HIDE DEF shares, rests
<1>3. FlattenSeq(shares) \in Seq(P) /\ FlattenSeq(rests) \in Seq(P)
  BY <1>2, FlattenKeeps
<1>4. order \in Seq(P)
  BY <1>3, SortKeeps, ConcatProperties
<1>5. Stratify(q, budget) = SubSeq(order, 1, cut)
  BY DEF Stratify, shares, rests
<1> HIDE DEF order
<1>6. cut \in 0 .. Len(order)
  <2>1. Len(order) \in Nat
    BY <1>4, LenProperties
  <2>2. IF budget <= Len(order) THEN cut = budget ELSE cut = Len(order)
    BY <2>1 DEF Min
  <2> QED
    BY <2>1, <2>2
<1> HIDE DEF cut
<1> QED
  BY <1>4, <1>5, <1>6, SplitSet

\* A planned crawl has asked for nothing and queues permitted URLs and the home page only,
\* whatever the sitemaps listed and however the buckets were filled.
LEMMA PlansAreSound ==
  ASSUME NEW plan \in PlannedCrawls \cup UnruledCrawls
  PROVE  /\ plan \in Crawl /\ plan.visited = {} /\ plan.crawled = {}
         /\ ToSet(plan.queue) \subseteq Permitted(plan.rules) \cup {Home}
<1>1. PICK rules \in BOOLEAN, ranked \in Ranked :
        plan = PlannedCrawl(Only(ranked, Permitted(rules)), rules)
  <2>1. PICK rules \in BOOLEAN : \E allowed \in Allowed(rules) : plan = PlannedCrawl(allowed, rules)
    BY DEF PlannedCrawls, UnruledCrawls
  <2> QED
    BY <2>1 DEF Allowed
<1>2. ranked \in Seq(Urls)
  <2>1. PICK urls \in Discovered : ranked \in Rankings(urls)
    BY DEF Ranked
  <2>2. PICK q \in SetToSeqs(urls) : ranked = SortByScore[q]
    BY <2>1 DEF Rankings
  <2>3. urls \in SUBSET Urls /\ IsFiniteSet(urls)
    <3>1. PICK listed \in SUBSET Listed : urls = listed \cup Seeds \cup {Home}
      BY DEF Discovered
    <3>2. IsFiniteSet(listed) /\ IsFiniteSet(Seeds) /\ IsFiniteSet({Home})
      BY SiteAssumption, FS_Subset, FS_Singleton
    <3>3. IsFiniteSet(listed \cup Seeds)
      BY <3>2, FS_Union
    <3>4. IsFiniteSet(urls)
      BY <3>1, <3>2, <3>3, FS_Union
    <3> QED
      BY <3>1, <3>4, SiteAssumption
  <2>4. q \in Seq(Urls)
    <3>1. Cardinality(urls) \in Nat /\ q \in [1 .. Cardinality(urls) -> urls]
      BY <2>3, FS_CardinalityType DEF SetToSeqs
    <3>2. q \in [1 .. Cardinality(urls) -> Urls]
      BY <2>3, <3>1
    <3> QED
      BY <3>1, <3>2
  <2> QED
    BY <2>2, <2>4, SortKeeps
<1> DEFINE P == Permitted(rules)   allowed == Only(ranked, P)
           kept == Stratify(allowed, MAX_PAGES_TO_CRAWL)
<1>3. P \subseteq Urls
  BY DEF Permitted
<1> HIDE DEF P
<1>4. allowed \in Seq(P)
  <2>1. allowed \in Seq(Urls \cap P)
    BY <1>2, OnlySet
  <2> QED
    BY <2>1, SeqMonotonic
<1> HIDE DEF allowed
<1>5. kept \in Seq(P)
  BY <1>3, <1>4, StratifyKeeps, SiteAssumption
<1> HIDE DEF kept
<1>6. HomeFirst[kept] \in Seq(P \cup {Home})
  <2>1. kept \in Seq(Urls)
    BY <1>3, <1>5, SeqMonotonic
  <2>2. HomeFirst[kept] = <<Home>> \o Only(kept, Urls \ {Home})
    BY <2>1 DEF HomeFirst
  <2>3. Only(kept, Urls \ {Home}) \in Seq(P \cap (Urls \ {Home}))
    BY <1>5, OnlySet
  <2>4. Only(kept, Urls \ {Home}) \in Seq(P \cup {Home})
    BY <2>3, SeqMonotonic
  <2>5. <<Home>> \in Seq(P \cup {Home})
    OBVIOUS
  <2> QED
    BY <2>2, <2>4, <2>5, ConcatProperties
<1>7. plan = [NoCrawl EXCEPT !.queue = HomeFirst[kept], !.rules = rules]
  BY <1>1 DEF PlannedCrawl, kept, allowed, P
<1>8. /\ plan.queue = HomeFirst[kept] /\ plan.rules = rules
      /\ plan.visited = {} /\ plan.crawled = {} /\ plan.failed = 0
      /\ plan = [queue |-> HomeFirst[kept], visited |-> {}, crawled |-> {},
                 redirected |-> {}, failed |-> 0, rules |-> rules]
  BY <1>7 DEF NoCrawl
<1>9. HomeFirst[kept] \in Seq(Urls)
  BY <1>3, <1>6, SeqMonotonic, SiteAssumption
<1>10. plan \in Crawl
  BY <1>8, <1>9 DEF Crawl
<1>11. ToSet(plan.queue) \subseteq P \cup {Home}
  BY <1>6, <1>8, ToSetOf
<1> QED
  BY <1>8, <1>10, <1>11 DEF P

\* What a crawl has asked for or has queued, the links of a page it may follow, and what makes
\* it sound: it keeps robots.txt, forgets no link of a page it read, and keeps to its budget.
Reached(c) == c.visited \cup ToSet(c.queue)
KeepsRules(c) == Reached(c) \subseteq Permitted(c.rules) \cup {Home}
Links(c, u) == {v \in ToSet(linksOf[u]) : CanFetch(c.rules, v)}
LinksReached(c) == \A u \in c.crawled : Links(c, u) \subseteq Reached(c)
InBudget(c) == IsFiniteSet(c.crawled) /\ Cardinality(c.crawled) <= MAX_PAGES_TO_CRAWL
Sound(c) == c \in Crawl /\ KeepsRules(c) /\ LinksReached(c) /\ InBudget(c)

\* A crawl is its six fields.
LEMMA CrawlFields ==
  ASSUME NEW c \in Crawl
  PROVE  /\ c.queue \in Seq(Urls) /\ c.visited \subseteq Urls /\ c.crawled \subseteq Urls
         /\ c.failed \in Nat /\ c.rules \in BOOLEAN /\ ToSet(c.queue) \subseteq Urls
         /\ c.redirected \subseteq Urls
         /\ c = [queue |-> c.queue, visited |-> c.visited, crawled |-> c.crawled,
                 redirected |-> c.redirected, failed |-> c.failed, rules |-> c.rules]
<1>1. /\ c.queue \in Seq(Urls) /\ c.visited \subseteq Urls /\ c.crawled \subseteq Urls
      /\ c.failed \in Nat /\ c.rules \in BOOLEAN
      /\ c.redirected \subseteq Urls
      /\ c = [queue |-> c.queue, visited |-> c.visited, crawled |-> c.crawled,
                 redirected |-> c.redirected, failed |-> c.failed, rules |-> c.rules]
  BY DEF Crawl
<1> QED
  BY <1>1, ToSetOf

\* One link of a page: the queue loses nothing, gains permitted URLs only, and has the link if it
\* is permitted and was not asked for.
LEMMA AddLinkAdds ==
  ASSUME NEW c \in Crawl, NEW v \in Urls, NEW q \in Seq(Urls)
  PROVE  /\ AddLink(c, v)[q] \in Seq(Urls)
         /\ ToSet(q) \subseteq ToSet(AddLink(c, v)[q])
         /\ ToSet(AddLink(c, v)[q]) \subseteq ToSet(q) \cup Permitted(c.rules)
         /\ CanFetch(c.rules, v) => v \in c.visited \cup ToSet(AddLink(c, v)[q])
<1> DEFINE r == AddLink(c, v)[q]
<1>1. r = IF v \in c.visited \cup ToSet(q) \/ ~CanFetch(c.rules, v) THEN q
          ELSE IF score[v] >= 50 THEN <<v>> \o q ELSE Append(q, v)
  BY DEF AddLink
<1>2. <<v>> \in Seq(Urls) /\ Range(<<v>>) = {v}
  <2>1. <<v>> \in Seq(Urls) /\ Len(<<v>>) = 1 /\ <<v>>[1] = v
    OBVIOUS
  <2>2. Range(<<v>>) = {<<v>>[i] : i \in 1 .. 1}
    BY <2>1, RangeEquality
  <2> QED
    BY <2>1, <2>2
<1>3. /\ <<v>> \o q \in Seq(Urls) /\ Range(<<v>> \o q) = Range(q) \cup {v}
      /\ Append(q, v) \in Seq(Urls) /\ Range(Append(q, v)) = Range(q) \cup {v}
  <2> DEFINE one == <<v>>
  <2>1. one \in Seq(Urls) /\ Range(one) = {v} /\ Append(q, v) = q \o one
    BY <1>2, AppendIsConcat
  <2> HIDE DEF one
  <2>2. one \o q \in Seq(Urls) /\ q \o one \in Seq(Urls)
    BY <2>1, ConcatProperties
  <2>3. Range(one \o q) = Range(q) \cup {v} /\ Range(q \o one) = Range(q) \cup {v}
    BY <2>1, RangeConcatenation
  <2> QED
    BY <2>1, <2>2, <2>3 DEF one
<1> HIDE DEF r
<1>4. r \in Seq(Urls)
  BY <1>1, <1>3
<1>5. ToSet(r) = Range(r) /\ ToSet(q) = Range(q)
  BY <1>4, ToSetOf
<1>6. CASE v \in c.visited \cup ToSet(q) \/ ~CanFetch(c.rules, v)
  <2>1. r = q
    BY <1>1, <1>6
  <2> QED
    BY <1>4, <1>6, <2>1 DEF r
<1>7. CASE ~(v \in c.visited \cup ToSet(q) \/ ~CanFetch(c.rules, v))
  <2>1. Range(r) = Range(q) \cup {v}
    BY <1>1, <1>3, <1>7
  <2>2. v \in Permitted(c.rules)
    BY <1>7 DEF Permitted
  <2> QED
    BY <1>4, <1>5, <2>1, <2>2 DEF r
<1> QED
  BY <1>6, <1>7

\* All links of a page, by induction along them.
LEMMA LinkedAdds ==
  ASSUME NEW c \in Crawl, NEW u \in Urls
  PROVE  /\ Linked(c, u) \in Seq(Urls)
         /\ ToSet(c.queue) \subseteq ToSet(Linked(c, u))
         /\ ToSet(Linked(c, u)) \subseteq ToSet(c.queue) \cup Permitted(c.rules)
         /\ Links(c, u) \subseteq c.visited \cup ToSet(Linked(c, u))
<1> DEFINE links == linksOf[u]   N == Len(links)   first == c.queue
           R == {q \in Seq(Urls) : /\ ToSet(c.queue) \subseteq ToSet(q)
                                   /\ ToSet(q) \subseteq ToSet(c.queue) \cup Permitted(c.rules)}
           step == [n \in 1 .. N |-> [q \in R |-> AddLink(c, links[n])[q]]]
           after == CHOOSE g : g = [n \in 0 .. N |->
                      IF n = 0 THEN c.queue ELSE AddLink(c, links[n])[g[n - 1]]]
<1>1. links \in Seq(Urls) /\ N \in Nat /\ \A n \in 1 .. N : links[n] \in Urls
  BY SiteAssumption, LenProperties, ElementOfSeq
<1>2. Linked(c, u) = after[N]
  BY DEF Linked
<1>3. ASSUME NEW n \in 1 .. N, NEW q \in R PROVE AddLink(c, links[n])[q] \in R
  <2> HIDE DEF links
  <2>1. links[n] \in Urls /\ q \in Seq(Urls)
    BY <1>1
  <2> QED
    BY <2>1, AddLinkAdds
<1>4. step \in [1 .. N -> [R -> R]] /\ first \in R
  BY <1>3, CrawlFields
<1>5. PICK f \in [0 .. N -> R] : Iterates(f, N, first, step)
  <2> HIDE DEF N, R, first, step
  <2> QED
    BY <1>1, <1>4, IterationExists
<1>6. f = [n \in 0 .. N |-> IF n = 0 THEN c.queue ELSE AddLink(c, links[n])[f[n - 1]]]
  <2> DEFINE h == [n \in 0 .. N |-> IF n = 0 THEN c.queue ELSE AddLink(c, links[n])[f[n - 1]]]
  <2>1. ASSUME NEW n \in 0 .. N PROVE f[n] = h[n]
    <3>1. CASE n = 0
      BY <1>5, <3>1 DEF Iterates
    <3>2. CASE n # 0
      <4>1. n \in 1 .. N /\ n - 1 \in 0 .. N
        BY <1>1, <3>2
      <4>2. f[n] = step[n][f[n - 1]] /\ f[n - 1] \in R
        BY <1>5, <4>1 DEF Iterates
      <4> QED
        BY <3>2, <4>1, <4>2
    <3> QED
      BY <3>1, <3>2
  <2>2. h = [n \in 0 .. N |-> h[n]] /\ f = [n \in 0 .. N |-> f[n]]
    OBVIOUS
  <2> HIDE DEF h
  <2>3. f = h
    BY <2>1, <2>2
  <2> QED
    BY <2>3 DEF h
<1>7. after = [n \in 0 .. N |-> IF n = 0 THEN c.queue ELSE AddLink(c, links[n])[after[n - 1]]]
  <2> HIDE DEF links, N
  <2> QED
    BY <1>6
<1> HIDE DEF after
<1> DEFINE Has(n) == \A i \in 1 .. n : CanFetch(c.rules, links[i]) =>
                       links[i] \in c.visited \cup ToSet(after[n])
           done == {n \in 0 .. N : after[n] \in R /\ Has(n)}
<1>8. 0 \in done
  BY <1>1, <1>4, <1>7
<1>9. ASSUME NEW n \in 0 .. N - 1, n \in done PROVE n + 1 \in done
  <2>1. n + 1 \in 1 .. N /\ n + 1 \in 0 .. N /\ n + 1 # 0 /\ (n + 1) - 1 = n
    BY <1>1
  <2>2. after[n + 1] = AddLink(c, links[n + 1])[after[n]] /\ after[n] \in R
    BY <1>7, <1>9, <2>1
  <2>3. after[n + 1] \in R
    BY <1>3, <2>1, <2>2
  <2>4. /\ ToSet(after[n]) \subseteq ToSet(after[n + 1])
        /\ CanFetch(c.rules, links[n + 1]) => links[n + 1] \in c.visited \cup ToSet(after[n + 1])
    <3> HIDE DEF links
    <3>1. links[n + 1] \in Urls /\ after[n] \in Seq(Urls)
      BY <1>1, <2>1, <2>2
    <3> QED
      BY <2>2, <3>1, AddLinkAdds
  <2>5. Has(n + 1)
    <3> SUFFICES ASSUME NEW i \in 1 .. n + 1, CanFetch(c.rules, links[i])
                 PROVE  links[i] \in c.visited \cup ToSet(after[n + 1])
      OBVIOUS
    <3>1. CASE i = n + 1
      BY <2>4, <3>1
    <3>2. CASE i # n + 1
      <4>1. i \in 1 .. n
        BY <3>2
      <4>2. links[i] \in c.visited \cup ToSet(after[n])
        BY <1>9, <4>1
      <4> QED
        BY <2>4, <4>2
    <3> QED
      BY <3>1, <3>2
  <2> HIDE DEF Has
  <2> QED
    BY <2>1, <2>3, <2>5
<1>10. N \in done
  <2> HIDE DEF done, N
  <2>1. N \in Int /\ 0 \in Int /\ \A n \in 0 .. N - 1 : n \in done => n + 1 \in done
    BY <1>1, <1>9
  <2>2. 0 .. N \subseteq done
    BY <1>8, <2>1, ReachedBySteps
  <2> QED
    BY <1>1, <2>2
<1>11. after[N] \in R /\ Has(N)
  BY <1>10
<1>12. Links(c, u) \subseteq c.visited \cup ToSet(after[N])
  <2>1. ToSet(links) = {links[i] : i \in 1 .. N}
    BY <1>1, ToSetOf
  <2>2. ASSUME NEW v \in ToSet(links), CanFetch(c.rules, v)
        PROVE  v \in c.visited \cup ToSet(after[N])
    <3>1. PICK i \in 1 .. N : v = links[i]
      BY <2>1
    <3> QED
      BY <1>11, <2>2, <3>1
  <2> QED
    BY <2>2 DEF Links
<1> QED
  BY <1>2, <1>11, <1>12

\* The members of the first n entries.
LEMMA PrefixSet ==
  ASSUME NEW T, NEW q \in Seq(T), NEW n \in 0 .. Len(q)
  PROVE  ToSet(SubSeq(q, 1, n)) = {q[i] : i \in 1 .. n}
<1> DEFINE p == SubSeq(q, 1, n)
<1>1. Len(q) \in Nat /\ \A i \in 1 .. n : q[i] \in T
  BY LenProperties, ElementOfSeq
<1>2. /\ p \in Seq(T) /\ Len(p) = IF 1 <= n THEN n - 1 + 1 ELSE 0
      /\ \A i \in 1 .. n - 1 + 1 : p[i] = q[1 + i - 1]
  BY <1>1, SubSeqProperties
<1>3. Len(p) = n /\ \A i \in 1 .. n : p[i] = q[i]
  BY <1>1, <1>2
<1> HIDE DEF p
<1>4. ToSet(p) = {p[i] : i \in 1 .. n}
  BY <1>2, <1>3, ToSetOf
<1> QED
  BY <1>3, <1>4 DEF p

\* A batch is what its pops have that was not visited, and the pages it may add fit the budget: the
\* pops stop at the first number that fills the room left, and one pop adds at most one URL.
LEMMA BatchFits ==
  ASSUME NEW c \in Crawl, InBudget(c), CrawlGoesOn(c)
  PROVE  /\ Pops(c) \in 0 .. Len(c.queue)
         /\ Batch(c) \in Seq(Urls)
         /\ ToSet(Batch(c)) = ToSet(SubSeq(c.queue, 1, Pops(c))) \ c.visited
         /\ IsFiniteSet(ToSet(Batch(c)))
         /\ Cardinality(ToSet(Batch(c))) + Cardinality(c.crawled) <= MAX_PAGES_TO_CRAWL
<1> DEFINE q == c.queue   N == Len(q)   Taken(n) == ToSet(SubSeq(q, 1, n)) \ c.visited
<1>1. q \in Seq(Urls) /\ N \in Nat /\ c.visited \subseteq Urls
  BY CrawlFields, LenProperties
<1>2. /\ Cardinality(c.crawled) \in Nat /\ Cardinality(c.crawled) < MAX_PAGES_TO_CRAWL
      /\ Room(c) \in Nat \ {0} /\ Room(c) + Cardinality(c.crawled) <= MAX_PAGES_TO_CRAWL
  <2> DEFINE left == MAX_PAGES_TO_CRAWL - Cardinality(c.crawled)
  <2>1. Cardinality(c.crawled) \in Nat /\ Cardinality(c.crawled) < MAX_PAGES_TO_CRAWL
    BY FS_CardinalityType DEF InBudget, CrawlGoesOn
  <2>2. left \in Nat \ {0} /\ CONCURRENCY_LIMIT \in Nat \ {0} /\ MAX_PAGES_TO_CRAWL \in Nat
    BY <2>1, SiteAssumption
  <2>3. Room(c) = Min({CONCURRENCY_LIMIT, left})
    BY DEF Room
  <2>4. IF CONCURRENCY_LIMIT <= left THEN Room(c) = CONCURRENCY_LIMIT ELSE Room(c) = left
    <3> HIDE DEF left
    <3> QED
      BY <2>2, <2>3 DEF Min
  <2> QED
    BY <2>1, <2>2, <2>4
<1>3. Taken(0) = {}
  BY <1>1, PrefixSet
<1>4. ASSUME NEW n \in 0 .. N - 1
      PROVE  Taken(n + 1) = Taken(n) \/ Taken(n + 1) = Taken(n) \cup {q[n + 1]}
  <2>1. n \in 0 .. N /\ n + 1 \in 0 .. N
    BY <1>1
  <2> HIDE DEF N
  <2>2. /\ ToSet(SubSeq(q, 1, n)) = {q[i] : i \in 1 .. n}
        /\ ToSet(SubSeq(q, 1, n + 1)) = {q[i] : i \in 1 .. n + 1}
    <3> HIDE DEF q
    <3> QED
      BY <1>1, <2>1, PrefixSet DEF N
  <2>3. {q[i] : i \in 1 .. n + 1} = {q[i] : i \in 1 .. n} \cup {q[n + 1]}
    <3>1. \A i \in 1 .. n + 1 : i \in 1 .. n \/ i = n + 1
      BY <2>1
    <3>2. 1 .. n \subseteq 1 .. n + 1 /\ n + 1 \in 1 .. n + 1
      BY <2>1
    <3> QED
      BY <3>1, <3>2
  <2> QED
    BY <2>2, <2>3
<1>5. ASSUME NEW n \in 0 .. N - 1, IsFiniteSet(Taken(n))
      PROVE  IsFiniteSet(Taken(n + 1)) /\ Cardinality(Taken(n + 1)) <= Cardinality(Taken(n)) + 1
  <2> DEFINE now == Taken(n)   next == Taken(n + 1)   u == q[n + 1]
  <2>1. next = now \/ next = now \cup {u}
    BY <1>4
  <2> HIDE DEF now, next, u
  <2>2. IsFiniteSet(now) /\ Cardinality(now) \in Nat
    BY <1>5, FS_CardinalityType DEF now
  <2>3. IsFiniteSet(next) /\ Cardinality(next) <= Cardinality(now) + 1
    <3>1. CASE next = now
      BY <2>2, <3>1
    <3>2. CASE next = now \cup {u}
      <4>1. /\ IsFiniteSet(now \cup {u})
            /\ \/ Cardinality(now \cup {u}) = Cardinality(now)
               \/ Cardinality(now \cup {u}) = Cardinality(now) + 1
        BY <2>2, FS_AddElement
      <4> QED
        BY <2>2, <3>2, <4>1
    <3> QED
      BY <2>1, <3>1, <3>2
  <2> QED
    BY <2>3 DEF now, next
<1> HIDE DEF Taken
<1> DEFINE count(n) == Cardinality(Taken(n))
           small == {n \in 0 .. N : IsFiniteSet(Taken(n)) /\ ((\A m \in 0 .. n : count(m) # Room(c))
                                                               => count(n) < Room(c))}
<1>6. 0 \in small
  <2>1. IsFiniteSet(Taken(0)) /\ count(0) = 0
    BY <1>3, FS_EmptySet
  <2> QED
    BY <1>1, <1>2, <2>1
<1>7. ASSUME NEW n \in 0 .. N - 1, n \in small PROVE n + 1 \in small
  <2>1. n + 1 \in 0 .. N /\ n \in 0 .. N
    BY <1>1
  <2>2. /\ IsFiniteSet(Taken(n)) /\ IsFiniteSet(Taken(n + 1)) /\ count(n + 1) <= count(n) + 1
    BY <1>5, <1>7
  <2>3. count(n) \in Nat /\ count(n + 1) \in Nat
    BY <2>2, FS_CardinalityType
  <2>4. ASSUME \A m \in 0 .. n + 1 : count(m) # Room(c) PROVE count(n + 1) < Room(c)
    <3> HIDE DEF count
    <3>1. 0 .. n \subseteq 0 .. n + 1 /\ n + 1 \in 0 .. n + 1
      BY <2>1
    <3>2. count(n) < Room(c) /\ count(n + 1) # Room(c)
      BY <1>7, <2>4, <3>1 DEF count
    <3> QED
      BY <1>2, <2>2, <2>3, <3>2 DEF count
  <2> QED
    BY <2>1, <2>2, <2>4
<1>8. 0 .. N \subseteq small
  <2> HIDE DEF small, N
  <2>1. N \in Int /\ 0 \in Int /\ \A n \in 0 .. N - 1 : n \in small => n + 1 \in small
    BY <1>1, <1>7
  <2> QED
    BY <1>6, <2>1, ReachedBySteps
<1>9. /\ Pops(c) \in 0 .. N
      /\ Fills(c, Pops(c)) \/ Pops(c) = N
      /\ \A m \in 0 .. Pops(c) - 1 : ~Fills(c, m)
  <2> DEFINE ends == {n \in 0 .. N : Fills(c, n) \/ n = N}
  <2>1. N \in ends /\ ends \subseteq Nat
    BY <1>1
  <2>2. PICK m \in ends : \A n \in ends : m <= n
    <3> HIDE DEF ends
    <3> QED
      BY <2>1, LeastExists
  <2>3. ASSUME NEW k \in 0 .. m - 1 PROVE ~Fills(c, k)
    <3>1. k \in 0 .. N /\ ~(m <= k)
      BY <1>1
    <3> QED
      BY <2>2, <3>1
  <2>4. \E n \in 0 .. Len(c.queue) : /\ Fills(c, n) \/ n = Len(c.queue)
                                     /\ \A k \in 0 .. n - 1 : ~Fills(c, k)
    BY <2>2, <2>3
  <2> QED
    BY <2>4 DEF Pops
<1>10. \A n \in 0 .. N : Fills(c, n) <=> count(n) = Room(c)
  BY DEF Fills, Taken
<1>11. IsFiniteSet(Taken(Pops(c))) /\ count(Pops(c)) <= Room(c)
  <2>1. Pops(c) \in small
    BY <1>8, <1>9
  <2>2. IsFiniteSet(Taken(Pops(c))) /\ count(Pops(c)) \in Nat
    BY <2>1, FS_CardinalityType
  <2>3. CASE Fills(c, Pops(c))
    BY <1>2, <1>9, <1>10, <2>2, <2>3
  <2>4. CASE ~Fills(c, Pops(c))
    <3>1. ASSUME NEW m \in 0 .. Pops(c) PROVE count(m) # Room(c)
      <4>1. m \in 0 .. N
        BY <1>1, <1>9
      <4>2. m \in 0 .. Pops(c) - 1 \/ m = Pops(c)
        BY <1>1, <1>9
      <4> QED
        BY <1>9, <1>10, <2>4, <4>1, <4>2
    <3>2. count(Pops(c)) < Room(c)
      BY <2>1, <3>1
    <3> QED
      BY <1>2, <2>2, <3>2
  <2> QED
    BY <2>3, <2>4
<1>12. Batch(c) \in Seq(Urls) /\ ToSet(Batch(c)) = Taken(Pops(c))
  <2> DEFINE p == SubSeq(q, 1, Pops(c))
  <2>1. p \in Seq(Urls)
    BY <1>1, <1>9, SplitSet
  <2>2. Batch(c) = Only(p, Urls \ c.visited)
    BY <2>1 DEF Batch, Unvisited
  <2>3. Taken(Pops(c)) = ToSet(p) \ c.visited
    BY DEF Taken
  <2> HIDE DEF p
  <2>4. /\ Only(p, Urls \ c.visited) \in Seq(Urls \cap (Urls \ c.visited))
        /\ ToSet(Only(p, Urls \ c.visited)) = ToSet(p) \cap (Urls \ c.visited)
    BY <2>1, OnlySet
  <2>5. ToSet(p) \subseteq Urls
    BY <2>1, ToSetOf
  <2>6. Only(p, Urls \ c.visited) \in Seq(Urls)
    BY <2>4, SeqMonotonic
  <2> QED
    BY <2>2, <2>3, <2>4, <2>5, <2>6
<1>13. Cardinality(ToSet(Batch(c))) + Cardinality(c.crawled) <= MAX_PAGES_TO_CRAWL
  <2>1. Cardinality(ToSet(Batch(c))) <= Room(c) /\ Cardinality(ToSet(Batch(c))) \in Nat
    BY <1>11, <1>12, FS_CardinalityType
  <2> QED
    BY <1>2, <2>1, SiteAssumption
<1> QED
  BY <1>9, <1>11, <1>12, <1>13 DEF Taken

\* The pops of a batch lose no URL: what leaves the queue was visited or is now.
LEMMA PopKeeps ==
  ASSUME NEW c, Sound(c), CrawlGoesOn(c)
  PROVE  /\ Popped(c) \in Crawl /\ Popped(c).crawled = c.crawled /\ Popped(c).rules = c.rules
         /\ Reached(Popped(c)) = Reached(c)
<1> DEFINE q == c.queue   k == Pops(c)   s == SubSeq(q, k + 1, Len(q))   b == ToSet(Batch(c))
<1>1. c \in Crawl /\ InBudget(c)
  BY DEF Sound
<1>2. q \in Seq(Urls) /\ c.visited \subseteq Urls
  BY <1>1, CrawlFields
<1>3. k \in 0 .. Len(q) /\ Batch(c) \in Seq(Urls) /\ b = ToSet(SubSeq(q, 1, k)) \ c.visited
  BY <1>1, BatchFits
<1>4. s \in Seq(Urls) /\ ToSet(q) = ToSet(SubSeq(q, 1, k)) \cup ToSet(s) /\ b \subseteq Urls
  BY <1>2, <1>3, SplitSet, ToSetOf
<1>5. Popped(c) = [c EXCEPT !.queue = s, !.visited = c.visited \cup b]
  BY DEF Popped
<1> HIDE DEF q, k, s, b
<1>6. /\ Popped(c).queue = s /\ Popped(c).visited = c.visited \cup b
      /\ Popped(c).crawled = c.crawled /\ Popped(c).rules = c.rules
      /\ Popped(c) \in Crawl
  BY <1>1, <1>2, <1>4, <1>5 DEF Crawl
<1>7. Reached(Popped(c)) = Reached(c)
  BY <1>3, <1>4, <1>6 DEF Reached, q
<1> QED
  BY <1>6, <1>7

\* The crawls the results of a batch may lead to; the size of the batch bounds their pages.
Growing(c) == {d \in Crawl : /\ KeepsRules(d) /\ LinksReached(d)
                             /\ d.crawled \subseteq c.crawled \cup ToSet(Batch(c))}

\* The redirects of a fetch change nothing that is crawled, queued or permitted.
LEMMA RedirectKeeps ==
  ASSUME NEW c, NEW d \in Growing(c), NEW u \in Urls
  PROVE  Redirect(d, u) \in Growing(c)
<1> DEFINE e == Redirect(d, u)
<1>1. /\ d \in Crawl /\ KeepsRules(d) /\ LinksReached(d)
      /\ d.crawled \subseteq c.crawled \cup ToSet(Batch(c))
  BY DEF Growing
<1>2. redirectsOf[u] \subseteq Urls
  BY SiteAssumption
<1>3. /\ e \in Crawl /\ e.queue = d.queue /\ e.visited = d.visited
      /\ e.rules = d.rules /\ e.crawled = d.crawled
  BY <1>1, <1>2 DEF Crawl, Redirect
<1> HIDE DEF e
<1>4. KeepsRules(e) /\ LinksReached(e)
  BY <1>1, <1>3 DEF KeepsRules, LinksReached, Reached, Links
<1> QED
  BY <1>1, <1>3, <1>4 DEF Growing, e

\* One result of a batch adds at most its page to what was crawled, and its links to the queue.
LEMMA ResultKeeps ==
  ASSUME NEW c, NEW before \in Growing(c), NEW u \in Urls, u \in ToSet(Batch(c)),
         NEW how \in Fetches
  PROVE  AddResult(before, u, how) \in Growing(c)
<1> DEFINE d == Redirect(before, u)
<1>0. d \in Growing(c)
  BY RedirectKeeps
<1> HIDE DEF d
<1>1. /\ d \in Crawl /\ KeepsRules(d) /\ LinksReached(d)
      /\ d.crawled \subseteq c.crawled \cup ToSet(Batch(c))
  BY <1>0 DEF Growing
<1>2. CASE how = "page"
  <2> DEFINE q == Linked(d, u)   e == AddPage(u)[d]
  <2>1. e = [d EXCEPT !.crawled = d.crawled \cup {u}, !.queue = q]
    BY <1>1 DEF AddPage
  <2>2. /\ q \in Seq(Urls) /\ ToSet(d.queue) \subseteq ToSet(q)
        /\ ToSet(q) \subseteq ToSet(d.queue) \cup Permitted(d.rules)
        /\ Links(d, u) \subseteq d.visited \cup ToSet(q)
    BY <1>1, LinkedAdds
  <2> HIDE DEF q, e
  <2>3. /\ e \in Crawl /\ e.queue = q /\ e.visited = d.visited /\ e.rules = d.rules
        /\ e.crawled = d.crawled \cup {u}
    BY <1>1, <2>1, <2>2 DEF Crawl
  <2>4. Reached(d) \subseteq Reached(e) /\ Links(d, u) \subseteq Reached(e)
    BY <2>2, <2>3 DEF Reached
  <2>5. KeepsRules(e)
    BY <1>1, <2>2, <2>3 DEF KeepsRules, Reached
  <2>6. \A v \in Urls : Links(e, v) = Links(d, v)
    BY <2>3 DEF Links
  <2>7. LinksReached(e)
    <3> SUFFICES ASSUME NEW v \in e.crawled PROVE Links(e, v) \subseteq Reached(e)
      BY DEF LinksReached
    <3>1. v \in Urls /\ Links(e, v) = Links(d, v)
      BY <2>3, <2>6, CrawlFields
    <3>2. CASE v = u
      BY <2>4, <3>1, <3>2
    <3>3. CASE v # u
      BY <1>1, <2>3, <2>4, <3>1, <3>3 DEF LinksReached
    <3> QED
      BY <3>2, <3>3
  <2>8. e.crawled \subseteq c.crawled \cup ToSet(Batch(c))
    BY <1>1, <2>3
  <2>9. AddResult(before, u, how) = e
    BY <1>2 DEF AddResult, d, e
  <2> QED
    BY <2>3, <2>5, <2>7, <2>8, <2>9 DEF Growing
<1>3. CASE how = "missing"
  BY <1>0, <1>3 DEF AddResult, d
<1>4. CASE how = "error"
  <2> DEFINE e == [d EXCEPT !.failed = d.failed + 1]
  <2>1. AddResult(before, u, how) = e
    BY <1>4 DEF AddResult, d
  <2>2. /\ e \in Crawl /\ e.queue = d.queue /\ e.visited = d.visited
        /\ e.rules = d.rules /\ e.crawled = d.crawled
    BY <1>1 DEF Crawl
  <2> HIDE DEF e
  <2>3. KeepsRules(e)
    BY <1>1, <2>2 DEF KeepsRules, Reached
  <2>4. LinksReached(e)
    BY <1>1, <2>2 DEF LinksReached, Reached, Links
  <2>5. e.crawled \subseteq c.crawled \cup ToSet(Batch(c))
    BY <1>1, <2>2
  <2> QED
    BY <2>1, <2>2, <2>3, <2>4, <2>5 DEF Growing
<1> QED
  BY <1>2, <1>3, <1>4 DEF Fetches

\* A batch, its results taken in order, leaves a sound crawl sound.
LEMMA BatchKeeps ==
  ASSUME NEW c, Sound(c), CrawlGoesOn(c), NEW after \in AfterBatch(c)
  PROVE  Sound(after)
<1>1. c \in Crawl /\ KeepsRules(c) /\ LinksReached(c) /\ InBudget(c)
  BY DEF Sound
<1>2. PICK fetch \in [ToSet(Batch(c)) -> Fetches] : after = AddBatch(c, fetch)
  BY DEF AfterBatch
<1> DEFINE batch == Batch(c)   N == Len(batch)   G == Growing(c)   first == Popped(c)
           step == [n \in 1 .. N |-> [d \in G |-> AddResult(d, batch[n], fetch[batch[n]])]]
           state == CHOOSE g : g = [n \in 0 .. N |->
                      IF n = 0 THEN Popped(c) ELSE AddResult(g[n - 1], batch[n], fetch[batch[n]])]
<1>3. /\ batch \in Seq(Urls) /\ N \in Nat /\ ToSet(batch) = {batch[n] : n \in 1 .. N}
      /\ \A n \in 1 .. N : batch[n] \in Urls
  BY <1>1, BatchFits, LenProperties, ToSetOf, ElementOfSeq
<1>4. after = state[N]
  BY <1>2 DEF AddBatch
<1>5. ASSUME NEW n \in 1 .. N, NEW d \in G
      PROVE  AddResult(d, batch[n], fetch[batch[n]]) \in G
  <2>1. batch[n] \in Urls /\ batch[n] \in ToSet(Batch(c)) /\ fetch[batch[n]] \in Fetches
    BY <1>2, <1>3
  <2> QED
    BY <2>1, ResultKeeps
<1>6. step \in [1 .. N -> [G -> G]]
  BY <1>5
<1>7. first \in G
  <2>1. /\ first \in Crawl /\ first.crawled = c.crawled /\ first.rules = c.rules
        /\ Reached(first) = Reached(c)
    BY PopKeeps
  <2> HIDE DEF first
  <2>2. KeepsRules(first)
    BY <1>1, <2>1 DEF KeepsRules
  <2>3. LinksReached(first)
    BY <1>1, <2>1 DEF LinksReached, Links
  <2> QED
    BY <2>1, <2>2, <2>3 DEF Growing
<1>8. PICK f \in [0 .. N -> G] : Iterates(f, N, first, step)
  <2> HIDE DEF N, G, first, step
  <2> QED
    BY <1>3, <1>6, <1>7, IterationExists
<1>9. f = [n \in 0 .. N |->
             IF n = 0 THEN Popped(c) ELSE AddResult(f[n - 1], batch[n], fetch[batch[n]])]
  <2> DEFINE h == [n \in 0 .. N |->
                IF n = 0 THEN Popped(c) ELSE AddResult(f[n - 1], batch[n], fetch[batch[n]])]
  <2>1. ASSUME NEW n \in 0 .. N PROVE f[n] = h[n]
    <3>1. CASE n = 0
      BY <1>8, <3>1 DEF Iterates
    <3>2. CASE n # 0
      <4>1. n \in 1 .. N /\ n - 1 \in 0 .. N
        BY <1>3, <3>2
      <4>2. f[n] = step[n][f[n - 1]] /\ f[n - 1] \in G
        BY <1>8, <4>1 DEF Iterates
      <4> QED
        BY <3>2, <4>1, <4>2
    <3> QED
      BY <3>1, <3>2
  <2>2. h = [n \in 0 .. N |-> h[n]] /\ f = [n \in 0 .. N |-> f[n]]
    OBVIOUS
  <2> HIDE DEF h
  <2>3. f = h
    BY <2>1, <2>2
  <2> QED
    BY <2>3 DEF h
<1>10. state = [n \in 0 .. N |->
                  IF n = 0 THEN Popped(c) ELSE AddResult(state[n - 1], batch[n], fetch[batch[n]])]
  <2> HIDE DEF batch, N
  <2> QED
    BY <1>9
<1> HIDE DEF state
<1> DEFINE done == {n \in 0 .. N : state[n] \in G}
<1>11. 0 \in done
  BY <1>3, <1>7, <1>10
<1>12. ASSUME NEW n \in 0 .. N - 1, n \in done PROVE n + 1 \in done
  <2>1. n + 1 \in 1 .. N /\ n + 1 \in 0 .. N /\ n + 1 # 0 /\ (n + 1) - 1 = n
    BY <1>3
  <2>2. state[n + 1] = AddResult(state[n], batch[n + 1], fetch[batch[n + 1]])
    BY <1>10, <2>1
  <2> QED
    BY <1>5, <1>12, <2>1, <2>2
<1>13. N \in done
  <2> HIDE DEF done, N
  <2>1. N \in Int /\ 0 \in Int /\ \A n \in 0 .. N - 1 : n \in done => n + 1 \in done
    BY <1>3, <1>12
  <2>2. 0 .. N \subseteq done
    BY <1>11, <2>1, ReachedBySteps
  <2> QED
    BY <1>3, <2>2
<1>14. /\ after \in Crawl /\ KeepsRules(after) /\ LinksReached(after)
       /\ after.crawled \subseteq c.crawled \cup ToSet(Batch(c))
  BY <1>4, <1>13 DEF Growing
<1>15. InBudget(after)
  <2> DEFINE b == ToSet(Batch(c))   both == c.crawled \cup b
  <2>1. /\ IsFiniteSet(b) /\ IsFiniteSet(c.crawled)
        /\ Cardinality(b) + Cardinality(c.crawled) <= MAX_PAGES_TO_CRAWL
    BY <1>1, BatchFits DEF InBudget
  <2> HIDE DEF b
  <2>2. /\ IsFiniteSet(both)
        /\ Cardinality(both) = Cardinality(c.crawled) + Cardinality(b) - Cardinality(c.crawled \cap b)
    BY <2>1, FS_Union
  <2>3. IsFiniteSet(c.crawled \cap b)
    BY <2>1, FS_Intersection
  <2>4. /\ Cardinality(b) \in Nat /\ Cardinality(c.crawled) \in Nat /\ Cardinality(both) \in Nat
        /\ Cardinality(c.crawled \cap b) \in Nat
    BY <2>1, <2>2, <2>3, FS_CardinalityType
  <2>5. Cardinality(both) <= MAX_PAGES_TO_CRAWL
    BY <2>1, <2>2, <2>4, SiteAssumption
  <2>6. after.crawled \in SUBSET both
    BY <1>14 DEF b
  <2> HIDE DEF both
  <2>7. IsFiniteSet(after.crawled) /\ Cardinality(after.crawled) <= Cardinality(both)
    BY <2>2, <2>6, FS_Subset
  <2>8. Cardinality(after.crawled) \in Nat
    BY <2>7, FS_CardinalityType
  <2> QED
    BY <2>4, <2>5, <2>7, <2>8, SiteAssumption DEF InBudget
<1> QED
  BY <1>14, <1>15 DEF Sound

-----------------------------------------------------------------------------

\* Every crawl is sound, and a run that is past its loop has a crawl the loop would end.
CrawlsSound == crawl \in [Runs -> Crawl] /\ \A r \in Runs : Sound(crawl[r])
LoopEnded == \A r \in Runs : pc[r] \in {"extracting", "deciding"} => ~CrawlGoesOn(crawl[r])
CrawlInv == CrawlsSound /\ LoopEnded /\ lost \subseteq Scans

\* The empty sequence has no members.
LEMMA NoMembers == ToSet(<<>>) = {}
<1> DEFINE none == <<>>
<1>1. none \in Seq({})
  OBVIOUS
<1> HIDE DEF none
<1>2. ToSet(none) \subseteq {}
  BY <1>1, ToSetOf
<1> QED
  BY <1>2 DEF none

\* A run that holds no crawl holds a sound one.
LEMMA NoCrawlIsSound == Sound(NoCrawl)
<1>1. <<>> \in Seq(Urls) /\ ToSet(<<>>) = {}
  BY NoMembers
<1>2. /\ NoCrawl.queue = <<>> /\ NoCrawl.visited = {} /\ NoCrawl.crawled = {}
      /\ NoCrawl.rules = FALSE /\ NoCrawl.failed = 0 /\ NoCrawl.redirected = {}
  BY DEF NoCrawl
<1>3. NoCrawl \in Crawl
  BY <1>1 DEF NoCrawl, Crawl
<1>4. IsFiniteSet({}) /\ Cardinality({}) = 0
  BY FS_EmptySet
<1>5. InBudget(NoCrawl)
  BY <1>2, <1>4, SiteAssumption DEF InBudget
<1> QED
  BY <1>1, <1>2, <1>3, <1>5 DEF Sound, KeepsRules, LinksReached, Reached

\* A plan is sound: it has read no page, so it owes no link.
LEMMA PlannedIsSound ==
  ASSUME NEW plan \in PlannedCrawls \cup UnruledCrawls
  PROVE  Sound(plan)
<1>1. /\ plan \in Crawl /\ plan.visited = {} /\ plan.crawled = {}
      /\ ToSet(plan.queue) \subseteq Permitted(plan.rules) \cup {Home}
  BY PlansAreSound
<1>2. InBudget(plan)
  BY <1>1, FS_EmptySet, SiteAssumption DEF InBudget
<1> QED
  BY <1>1, <1>2 DEF Sound, KeepsRules, LinksReached, Reached

\* A step that leaves each crawl as it is or drops it, and takes no run past a loop that goes on.
LEMMA OtherStepsKeepCrawls ==
  ASSUME CrawlInv, crawl' \in [Runs -> Crawl], lost' \subseteq Scans,
         \A r \in Runs : crawl'[r] = crawl[r] \/ crawl'[r] = NoCrawl,
         \A r \in Runs : pc'[r] \in {"extracting", "deciding"} =>
           /\ crawl'[r] = crawl[r]
           /\ pc[r] \in {"extracting", "deciding"} \/ ~CrawlGoesOn(crawl[r])
  PROVE  CrawlInv'
<1>1. \A r \in Runs : Sound(crawl'[r])
  BY NoCrawlIsSound DEF CrawlInv, CrawlsSound
<1>2. LoopEnded'
  BY DEF CrawlInv, LoopEnded
<1> QED
  BY <1>1, <1>2 DEF CrawlInv, CrawlsSound

\* The crawls after a run ended.
LEMMA EndedCrawl ==
  ASSUME RowsTyped, CrawlInv, NEW r \in Runs, End(r)
  PROVE  /\ crawl' \in [Runs -> Crawl]
         /\ \A q \in Runs : crawl'[q] = crawl[q] \/ crawl'[q] = NoCrawl
         /\ \A q \in Runs : pc'[q] \in {"extracting", "deciding"} =>
              crawl'[q] = crawl[q] /\ pc[q] \in {"extracting", "deciding"}
<1>1. NoCrawl \in Crawl
  BY NoCrawlIsSound DEF Sound
<1>2. /\ crawl' \in [Runs -> Crawl]
      /\ \A q \in Runs : crawl'[q] = IF q = r THEN NoCrawl ELSE crawl[q]
  BY <1>1 DEF End, CrawlInv, CrawlsSound
<1> QED
  BY <1>2, EndOf

\* A plan is sound, a batch keeps it so, and the loop is left only when it is over.
LEMMA CrawlInvHolds == ScanSpec => []CrawlInv
<1>1. ScanInit => CrawlInv
  <2> SUFFICES ASSUME ScanInit PROVE CrawlInv
    OBVIOUS
  <2>1. NoCrawl \in Crawl
    BY NoCrawlIsSound DEF Sound
  <2> QED
    BY <2>1, NoCrawlIsSound DEF ScanInit, CrawlInv, CrawlsSound, LoopEnded
<1>2. RowsTyped /\ CrawlInv /\ [ScanNext]_scanVars => CrawlInv'
  <2> SUFFICES ASSUME RowsTyped, CrawlInv, [ScanNext]_scanVars PROVE CrawlInv'
    OBVIOUS
  <2>0. crawl \in [Runs -> Crawl] /\ lost \subseteq Scans /\ \A r \in Runs : Sound(crawl[r])
    BY DEF CrawlInv, CrawlsSound
  <2>1. ASSUME NEW s \in Scans, NEW r \in Runs, StartScan(s, r) PROVE CrawlInv'
    <3>1. UNCHANGED <<crawl, lost>> /\ \A q \in Runs : pc'[q] = IF q = r THEN "spawned" ELSE pc[q]
      BY <2>1, MoveOf DEF StartScan, Spawn, Active
    <3> QED
      BY <2>0, <3>1, OtherStepsKeepCrawls
  <2>2. ASSUME NEW g \in Polls,
               HealScan(g) \/ LeaveScan(g)
                 \/ \E endpoint \in {"latest", "status"}, s \in Scans : LoadScan(g, endpoint, s)
        PROVE  CrawlInv'
    <3>1. UNCHANGED <<crawl, lost, pc>>
      BY <2>2 DEF LoadScan, HealScan, LeaveScan
    <3> QED
      BY <2>0, <3>1, OtherStepsKeepCrawls
  <2>3. ASSUME NEW g \in Polls, NEW r \in Runs, ResumeScan(g, r) PROVE CrawlInv'
    <3>1. UNCHANGED <<crawl, lost>> /\ \A q \in Runs : pc'[q] = IF q = r THEN "spawned" ELSE pc[q]
      BY <2>3, MoveOf DEF ResumeScan, Spawn, Active
    <3> QED
      BY <2>0, <3>1, OtherStepsKeepCrawls
  <2>4. ASSUME NEW r \in Runs, BeginRun(r) PROVE CrawlInv'
    <3>1. UNCHANGED <<crawl, lost>> /\ \A q \in Runs : pc'[q] = IF q = r THEN "planning" ELSE pc[q]
      BY <2>4, MoveOf DEF BeginRun, Active
    <3> QED
      BY <2>0, <3>1, OtherStepsKeepCrawls
  <2>5. ASSUME NEW r \in Runs, PlanCrawl(r) PROVE CrawlInv'
    <3>1. PICK plan \in PlannedCrawls \cup UnruledCrawls : crawl' = [crawl EXCEPT ![r] = plan]
      BY <2>5 DEF PlanCrawl
    <3>2. plan \in Crawl /\ Sound(plan)
      BY PlannedIsSound DEF Sound
    <3>3. crawl' \in [Runs -> Crawl] /\ \A q \in Runs : crawl'[q] = IF q = r THEN plan ELSE crawl[q]
      BY <2>0, <3>1, <3>2
    <3>4. lost' = lost /\ \A q \in Runs : pc'[q] = IF q = r THEN "crawling" ELSE pc[q]
      BY <2>5, MoveOf DEF PlanCrawl, Active
    <3>5. CrawlsSound'
      BY <2>0, <3>2, <3>3 DEF CrawlsSound
    <3>6. LoopEnded'
      BY <3>3, <3>4 DEF CrawlInv, LoopEnded
    <3> QED
      BY <2>0, <3>4, <3>5, <3>6 DEF CrawlInv
  <2>6. ASSUME NEW r \in Runs, CrawlBatch(r) PROVE CrawlInv'
    <3>1. PICK after \in AfterBatch(crawl[r]) : crawl' = [crawl EXCEPT ![r] = after]
      BY <2>6 DEF CrawlBatch
    <3>2. after \in Crawl /\ Sound(after)
      <4>1. Sound(crawl[r]) /\ CrawlGoesOn(crawl[r])
        BY <2>0, <2>6 DEF CrawlBatch
      <4>2. Sound(after)
        BY <4>1, BatchKeeps
      <4> QED
        BY <4>2 DEF Sound
    <3>3. crawl' \in [Runs -> Crawl] /\ \A q \in Runs : crawl'[q] = IF q = r THEN after ELSE crawl[q]
      BY <2>0, <3>1, <3>2
    <3>4. lost' = lost /\ pc' = pc /\ pc[r] = "crawling"
      BY <2>6 DEF CrawlBatch
    <3>5. CrawlsSound'
      BY <2>0, <3>2, <3>3 DEF CrawlsSound
    <3>6. LoopEnded'
      BY <3>3, <3>4 DEF CrawlInv, LoopEnded
    <3> QED
      BY <2>0, <3>4, <3>5, <3>6 DEF CrawlInv
  <2>7. ASSUME NEW r \in Runs, StartExtracting(r) PROVE CrawlInv'
    <3>1. /\ UNCHANGED <<crawl, lost>> /\ ~CrawlGoesOn(crawl[r])
          /\ \A q \in Runs : pc'[q] = IF q = r THEN "extracting" ELSE pc[q]
      BY <2>7, MoveOf DEF StartExtracting, Active
    <3> QED
      BY <2>0, <3>1, OtherStepsKeepCrawls
  <2>8. ASSUME NEW r \in Runs, ReadProfile(r) PROVE CrawlInv'
    <3>1. /\ UNCHANGED <<crawl, lost>> /\ pc[r] = "extracting"
          /\ \A q \in Runs : pc'[q] = IF q = r THEN "deciding" ELSE pc[q]
      BY <2>8, MoveOf DEF ReadProfile, Active
    <3> QED
      BY <2>0, <3>1, OtherStepsKeepCrawls
  <2>9. ASSUME NEW r \in Runs,
               NoPages(r) \/ WriteProfile(r) \/ RecordFailure(r) \/ FailUnrecorded(r)
        PROVE  CrawlInv'
    <3>1. End(r) /\ lost' \subseteq lost \cup {scanOf[r]}
      BY <2>9 DEF NoPages, WriteProfile, RecordFailure, FailUnrecorded
    <3>2. lost' \subseteq Scans
      BY <2>0, <3>1 DEF RowsTyped
    <3> QED
      BY <3>1, <3>2, EndedCrawl, OtherStepsKeepCrawls
  <2>10. CASE Restart
    <3>1. /\ pc' = [r \in Runs |-> IF pc[r] \in Active THEN "ended" ELSE pc[r]]
          /\ crawl' = [r \in Runs |-> NoCrawl]
          /\ lost' = lost \cup {scanOf[r] : r \in {q \in Runs : pc[q] \in Active}}
      BY <2>10 DEF Restart
    <3>2. NoCrawl \in Crawl /\ lost' \subseteq Scans
      BY <2>0, <3>1, NoCrawlIsSound DEF RowsTyped, Sound
    <3>3. \A q \in Runs : pc'[q] \notin {"extracting", "deciding"}
      BY <3>1 DEF Active
    <3> QED
      BY <3>1, <3>2, <3>3, OtherStepsKeepCrawls
  <2>11. CASE UNCHANGED scanVars
    <3>1. UNCHANGED <<crawl, lost, pc>>
      BY <2>11 DEF scanVars
    <3> QED
      BY <2>0, <3>1, OtherStepsKeepCrawls
  <2> QED
    BY <2>1, <2>2, <2>3, <2>4, <2>5, <2>6, <2>7, <2>8, <2>9, <2>10, <2>11 DEF ScanNext, RunStep
<1>3. ProfileInv => RowsTyped
  BY DEF ProfileInv
<1> QED
  BY <1>1, <1>2, <1>3, ProfileInvHolds, PTL DEF ScanSpec

\* Every variable keeps its type; for the crawl that is the work of the lemmas on its batches.
THEOREM ScanTyped == ScanSpec => []ScanTypeOK
<1>1. ProfileInv /\ CrawlInv => ScanTypeOK
  BY DEF ProfileInv, RowsTyped, CrawlInv, CrawlsSound, ScanTypeOK
<1> QED
  BY <1>1, ProfileInvHolds, CrawlInvHolds, PTL

\* Whatever a site's sitemaps and pages name, in whatever order, however its fetches end and
\* wherever they are redirected, a crawl sets out for a URL that robots.txt forbids to this bot
\* and to every bot only if it is the base URL or has an empty path.
THEOREM CrawlsKeepRobots == ScanSpec => []RobotsHold
<1>1. CrawlInv => RobotsHold
  BY DEF CrawlInv, CrawlsSound, Sound, KeepsRules, Reached, Permitted, CanFetch, Forbidden, RobotsHold
<1> QED
  BY <1>1, CrawlInvHolds, PTL

\* A crawl reads no more pages than its budget, whatever the batch size, and one that ends under
\* the budget has asked for every link of its pages that robots.txt lets it follow.
THEOREM CrawlsAreComplete == ScanSpec => []CrawlIsComplete
<1>1. CrawlInv => CrawlIsComplete
  <2> SUFFICES ASSUME CrawlInv, NEW r \in Runs
               PROVE  /\ Cardinality(crawl[r].crawled) <= MAX_PAGES_TO_CRAWL
                      /\ pc[r] \in {"extracting", "deciding"}
                           /\ Cardinality(crawl[r].crawled) < MAX_PAGES_TO_CRAWL =>
                         \A u \in crawl[r].crawled : Links(crawl[r], u) \subseteq crawl[r].visited
    BY DEF CrawlIsComplete, Links
  <2>1. Sound(crawl[r])
    BY DEF CrawlInv, CrawlsSound
  <2>2. ASSUME pc[r] \in {"extracting", "deciding"},
               Cardinality(crawl[r].crawled) < MAX_PAGES_TO_CRAWL, NEW u \in crawl[r].crawled
        PROVE  Links(crawl[r], u) \subseteq crawl[r].visited
    <3>1. crawl[r].queue = <<>>
      BY <2>2 DEF CrawlInv, LoopEnded, CrawlGoesOn
    <3>2. Reached(crawl[r]) = crawl[r].visited
      BY <3>1, NoMembers DEF Reached
    <3> QED
      BY <2>1, <2>2, <3>2 DEF Sound, LinksReached
  <2> QED
    BY <2>1, <2>2 DEF Sound, InBudget
<1> QED
  BY <1>1, CrawlInvHolds, PTL
=============================================================================
