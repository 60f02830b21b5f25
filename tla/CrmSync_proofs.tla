---------------------------- MODULE CrmSync_proofs ----------------------------
(***************************************************************************)
(* Theorems about CrmSync for any number of contacts, addresses and          *)
(* overlapping syncs, any page size and any set of faults.                  *)
(***************************************************************************)
EXTENDS CrmSync, DataLemmas

-----------------------------------------------------------------------------
(* The operators of Upsert.                                                  *)

\* The contact written last is one of those that were to be written.
LEMMA LatestIsOne ==
  ASSUME NEW S, S \subseteq Contacts, S # {}
  PROVE  Latest(S) \in S
<1> DEFINE D == {Total - i : i \in S}
<1>1. \A i \in S : Total - i \in Nat
  BY CrmAssumption DEF Contacts
<1>2. D \subseteq Nat /\ D # {}
  BY <1>1
<1>3. PICK d \in D : \A n \in D : d <= n
  <2> HIDE DEF D
  <2> QED
    BY <1>2, LeastExists
<1>4. PICK m \in S : d = Total - m
  OBVIOUS
<1>5. ASSUME NEW j \in S PROVE j <= m
  <2>1. d <= Total - j
    BY <1>3
  <2> QED
    BY <2>1, <1>4, CrmAssumption DEF Contacts
<1> QED
  BY <1>5 DEF Latest

\* What a page and the part of it that is written count.
LEMMA PageSize ==
  ASSUME NEW n \in Nat, NEW k \in Nat, NEW part, part \subseteq (n + 1) .. (n + k)
  PROVE  /\ Cardinality((n + 1) .. (n + k)) = k
         /\ Cardinality(part) \in 0 .. k
<1>1. IsFiniteSet((n + 1) .. (n + k)) /\ Cardinality((n + 1) .. (n + k)) = k
  BY FS_Interval
<1>2. IsFiniteSet(part) /\ Cardinality(part) <= k
  BY <1>1, FS_Subset
<1> QED
  BY <1>1, <1>2, FS_CardinalityType

-----------------------------------------------------------------------------
(* Types, and the shape of a sync.                                           *)

\* What is fetched are contacts in a row, never more than are left of max_contacts; where the
\* cursor counts contacts they follow those passed, and the next cursor passes them.
Page(s) ==
  \E before \in Nat, k \in Nat :
    /\ k <= MAX_CONTACTS - sync[s].count
    /\ sync[s].page = (before + 1) .. (before + k)
    /\ crm \in OffsetCursors =>
         /\ before = sync[s].cursor
         /\ sync[s].next = 0 => (before + 1) .. Total \subseteq sync[s].page
         /\ sync[s].next # 0 => sync[s].next = before + k

\* The last of the contacts a sync has passed, where the cursor counts contacts.
Reached(s) == IF sync[s].pc = "closing" /\ sync[s].cursor = 0 THEN Total ELSE sync[s].cursor

Paging == {"started", "listing", "upserting"}
Busy == Paging \cup {"closing"}

\* A sync that pages has imports left, has passed the contacts from its first cursor on, and
\* closes with a later cursor or with none.
InOrder(s) ==
  /\ sync[s].pc \in Paging => sync[s].count < MAX_CONTACTS
  /\ sync[s].pc = "upserting" => Page(s)
  /\ crm \in OffsetCursors /\ sync[s].pc \in Paging => sync[s].from <= sync[s].cursor
  /\ crm \in OffsetCursors /\ sync[s].pc = "closing" =>
       sync[s].cursor = 0 \/ sync[s].from < sync[s].cursor

PagesInOrder == \A s \in Syncs : InOrder(s)

LEMMA OrderKept ==
  ASSUME NEW s \in Syncs, crm' = crm,
         \/ /\ InOrder(s)
            /\ sync'[s].pc = sync[s].pc /\ sync'[s].from = sync[s].from
            /\ sync'[s].cursor = sync[s].cursor /\ sync'[s].count = sync[s].count
            /\ sync'[s].page = sync[s].page /\ sync'[s].next = sync[s].next
         \/ sync'[s].pc \in {"idle", "queued"}
  PROVE  InOrder(s)'
<1>1. CASE sync'[s].pc \in {"idle", "queued"}
  BY <1>1 DEF InOrder, Paging
<1>2. CASE /\ InOrder(s)
           /\ sync'[s].pc = sync[s].pc /\ sync'[s].from = sync[s].from
           /\ sync'[s].cursor = sync[s].cursor /\ sync'[s].count = sync[s].count
           /\ sync'[s].page = sync[s].page /\ sync'[s].next = sync[s].next
  <2>1. Page(s) => Page(s)'
    BY <1>2 DEF Page
  <2> QED
    BY <1>2, <2>1 DEF InOrder
<1> QED
  BY <1>1, <1>2

\* What leaves the syncs alone, or sets them back, keeps their pages in order.
LEMMA OrderStays ==
  ASSUME PagesInOrder, crm' = crm,
         \A s \in Syncs : sync'[s] = sync[s] \/ sync'[s].pc \in {"idle", "queued"}
  PROVE  PagesInOrder'
BY OrderKept DEF PagesInOrder

\* What an adapter makes of a cursor.
LEMMA FetchIs ==
  ASSUME crm \in Crms, NEW cursor \in Nat, NEW limit \in Nat, limit > 0
  PROVE  /\ NextCursor(cursor, limit) \in Nat
         /\ \E before \in Nat, k \in Nat :
              /\ k <= limit /\ Fetched(cursor, limit) = (before + 1) .. (before + k)
              /\ Fetched(cursor, limit) \subseteq Contacts
              /\ crm \in OffsetCursors =>
                   /\ before = cursor
                   /\ NextCursor(cursor, limit) = 0 =>
                        (before + 1) .. Total \subseteq Fetched(cursor, limit)
                   /\ NextCursor(cursor, limit) # 0 => NextCursor(cursor, limit) = before + k
<1> DEFINE before == Skipped(cursor, limit)
           last   == Lesser(Total, before + limit)
<1>1. before \in Nat /\ (crm \in OffsetCursors => before = cursor)
  <2>1. PageNumber(cursor) - 1 \in Nat
    BY DEF PageNumber
  <2>2. (PageNumber(cursor) - 1) * limit \in Nat
    <3> DEFINE a == PageNumber(cursor) - 1
    <3>1. a \in Nat
      BY <2>1
    <3> HIDE DEF a
    <3>2. a * limit \in Nat
      BY <3>1
    <3> QED
      BY <3>2 DEF a
  <2>3. crm \in OffsetCursors => crm # "zoho"
    BY DEF OffsetCursors
  <2> QED
    BY <2>2, <2>3 DEF Skipped
<1>2. Fetched(cursor, limit) = (before + 1) .. last
  BY DEF Fetched
<1>3. /\ NextCursor(cursor, limit) \in Nat
      /\ crm \in OffsetCursors =>
           NextCursor(cursor, limit) = IF before + limit >= Total THEN 0 ELSE cursor + limit
  BY DEF NextCursor, PageNumber, OffsetCursors
<1> HIDE DEF before
<1> DEFINE k == IF before < last THEN last - before ELSE 0
<1>4. last \in Nat /\ last <= Total /\ last <= before + limit
  BY <1>1, CrmAssumption DEF Lesser
<1>5. k \in Nat /\ k <= limit
  BY <1>1, <1>4
<1>6. (before + 1) .. last = (before + 1) .. (before + k)
  BY <1>1, <1>4
<1>7. (before + 1) .. last \subseteq Contacts
  <2> HIDE DEF last
  <2> QED
    BY <1>1, <1>4, CrmAssumption DEF Contacts
<1>8. ASSUME crm \in OffsetCursors
      PROVE  /\ NextCursor(cursor, limit) = 0 => (before + 1) .. Total \subseteq (before + 1) .. last
             /\ NextCursor(cursor, limit) # 0 => NextCursor(cursor, limit) = before + k
  <2>1. CASE before + limit >= Total
    <3>1. last = Total /\ NextCursor(cursor, limit) = 0
      BY <1>1, <1>3, <1>8, <2>1, CrmAssumption DEF Lesser
    <3> QED
      BY <3>1
  <2>2. CASE ~(before + limit >= Total)
    <3>1. last = before + limit /\ NextCursor(cursor, limit) = cursor + limit
      BY <1>1, <1>3, <1>8, <2>2, CrmAssumption DEF Lesser
    <3> QED
      BY <1>1, <1>8, <3>1, CrmAssumption
  <2> QED
    BY <2>1, <2>2
<1> HIDE DEF k
<1> QED
  BY <1>1, <1>2, <1>3, <1>5, <1>6, <1>7, <1>8

\* What WritePage makes of a sync and of its draft.
LEMMA WritePageShape ==
  ASSUME TypeOK, PagesInOrder, NEW s \in Syncs, At(s, "upserting"),
         NEW errors \in SUBSET sync[s].page, WritePage(s, sync[s].page \ errors, errors)
  PROVE  /\ sync' \in [Syncs -> SyncState]
         /\ sync'[s].pc \in {"listing", "closing"}
         /\ sync'[s].orphan = sync[s].orphan
         /\ sync'[s].from = sync[s].from
         /\ sync'[s].pc = "listing" => sync'[s].count < MAX_CONTACTS
         /\ crm \in OffsetCursors =>
              /\ (sync[s].cursor + 1) .. Reached(s)' \subseteq sync[s].page
              /\ sync'[s].pc = "listing" => sync[s].cursor <= sync'[s].cursor
              /\ sync'[s].pc = "closing" => sync'[s].cursor = 0 \/ sync[s].cursor < sync'[s].cursor
         /\ \A t \in Syncs \ {s} : sync'[t] = sync[t]
<1> DEFINE good  == sync[s].page \ errors
           count == sync[s].count + Cardinality(good)
           next  == sync[s].next
<1>1. PICK before \in Nat, k \in Nat :
        /\ k <= MAX_CONTACTS - sync[s].count
        /\ sync[s].page = (before + 1) .. (before + k)
        /\ crm \in OffsetCursors =>
             /\ before = sync[s].cursor
             /\ next = 0 => (before + 1) .. Total \subseteq sync[s].page
             /\ next # 0 => next = before + k
  BY DEF PagesInOrder, InOrder, Page, At
<1>2. /\ sync[s] \in SyncState /\ sync[s].cursor \in Nat /\ next \in Nat
      /\ sync[s].count \in Nat /\ sync[s].count < MAX_CONTACTS
  BY DEF TypeOK, SyncState, PagesInOrder, InOrder, At, Paging
<1>3. Cardinality(good) \in 0 .. k
  BY <1>1, PageSize
<1>4. count \in 0 .. MAX_CONTACTS
  BY <1>1, <1>2, <1>3, CrmAssumption
<1>5. sync' = [sync EXCEPT ![s] =
        [@ EXCEPT !.pc = IF next = 0 \/ count >= MAX_CONTACTS THEN "closing" ELSE "listing",
                  !.cursor = next, !.count = count, !.page = {}, !.stops = {}, !.next = 0]]
  BY DEF WritePage
<1>6. count >= MAX_CONTACTS => k > 0
  BY <1>1, <1>2, <1>3, CrmAssumption
<1> HIDE DEF count, next
<1>7. sync \in [Syncs -> SyncState]
  BY DEF TypeOK
<1>8. /\ sync'[s] = [sync[s] EXCEPT !.pc = IF next = 0 \/ count >= MAX_CONTACTS
                                           THEN "closing" ELSE "listing",
                                    !.cursor = next, !.count = count, !.page = {}, !.stops = {},
                                    !.next = 0]
      /\ \A t \in Syncs \ {s} : sync'[t] = sync[t]
  BY <1>5, <1>7
<1>9. /\ sync'[s].pc = IF next = 0 \/ count >= MAX_CONTACTS THEN "closing" ELSE "listing"
      /\ sync'[s].cursor = next /\ sync'[s].count = count
      /\ sync'[s].orphan = sync[s].orphan /\ sync'[s].from = sync[s].from
      /\ sync'[s] \in SyncState
  <2> DEFINE to == IF next = 0 \/ count >= MAX_CONTACTS THEN "closing" ELSE "listing"
             y == [pc |-> to, orphan |-> sync[s].orphan, from |-> sync[s].from, cursor |-> next,
                   page |-> {}, stops |-> {}, next |-> 0, count |-> count]
  <2>1. sync'[s] = y
    BY <1>2, <1>8 DEF SyncState
  <2>2. /\ to \in {"listing", "closing"}
        /\ sync[s].orphan \in BOOLEAN /\ sync[s].from \in Nat
    BY <1>2 DEF SyncState
  <2>3. y \in SyncState
    BY <1>2, <1>4, <2>2 DEF SyncState
  <2> QED
    BY <2>1, <2>3
<1>10. sync' \in [Syncs -> SyncState]
  BY <1>5, <1>7, <1>8, <1>9
<1>11. ASSUME crm \in OffsetCursors
       PROVE  /\ (sync[s].cursor + 1) .. Reached(s)' \subseteq sync[s].page
              /\ sync'[s].pc = "listing" => sync[s].cursor <= sync'[s].cursor
              /\ sync'[s].pc = "closing" => sync'[s].cursor = 0 \/ sync[s].cursor < sync'[s].cursor
  <2>1. (sync[s].cursor + 1) .. Reached(s)' \subseteq sync[s].page
    <3>1. CASE next = 0
      <4>1. Reached(s)' = Total
        BY <1>9, <3>1 DEF Reached
      <4> QED
        BY <1>1, <1>11, <3>1, <4>1
    <3>2. CASE next # 0
      <4>1. Reached(s)' = next
        BY <1>9, <3>2 DEF Reached
      <4> QED
        BY <1>1, <1>11, <3>2, <4>1
    <3> QED
      BY <3>1, <3>2
  <2>2. sync'[s].pc = "listing" => next # 0
    BY <1>9
  <2>3. sync'[s].pc = "closing" => next = 0 \/ k > 0
    BY <1>6, <1>9
  <2> QED
    BY <1>1, <1>2, <1>9, <1>11, <2>1, <2>2, <2>3
<1> QED
  BY <1>4, <1>8, <1>9, <1>10, <1>11, CrmAssumption

\* A lead that is written has the record of a contact with its address.
LEMMA WrittenLead ==
  ASSUME TypeOK, NEW s \in Syncs, NEW good, good \subseteq sync[s].page, NEW e \in Emails
  PROVE  /\ Written(s, good, e) \in Lead
         /\ \/ Written(s, good, e) = draft[s].lead[e]
            \/ /\ Written(s, good, e).there
               /\ emailOf[Written(s, good, e).record] = e
               /\ Written(s, good, e).record \in Contacts
<1> DEFINE at == Sharing(good, e)
<1>1. CASE at = {}
  BY <1>1 DEF Written, TypeOK, Draft
<1>2. CASE at # {}
  <2>1. at \subseteq Contacts
    BY DEF Sharing, TypeOK, SyncState
  <2>2. Latest(at) \in at
    BY <1>2, <2>1, LatestIsOne
  <2>3. Latest(at) \in Contacts /\ Latest(at) \in 0 .. Total /\ emailOf[Latest(at)] = e
    BY <2>1, <2>2, CrmAssumption DEF Sharing, Contacts
  <2>4. Seen(s, e).blocked \in BOOLEAN /\ Seen(s, e).there \in BOOLEAN
    BY DEF Seen, TypeOK, Draft, Lead
  <2> QED
    BY <1>2, <2>3, <2>4 DEF Written, Lead
<1> QED
  BY <1>1, <1>2

LEMMA WritePageDraft ==
  ASSUME TypeOK, NEW s \in Syncs,
         NEW errors \in SUBSET sync[s].page, WritePage(s, sync[s].page \ errors, errors)
  PROVE  /\ draft' \in [Syncs -> Draft]
         /\ \A e \in Emails : draft'[s].lead[e] = Written(s, sync[s].page \ errors, e)
         /\ draft'[s].done = draft[s].done \cup (sync[s].page \ errors)
         /\ draft'[s].errors = draft[s].errors \cup errors
         /\ \A t \in Syncs \ {s} : draft'[t] = draft[t]
<1> DEFINE good == sync[s].page \ errors
           new  == [lead   |-> [e \in Emails |-> Written(s, good, e)],
                    new    |-> draft[s].new \cup NewLeads(s, good),
                    done   |-> draft[s].done \cup good,
                    errors |-> draft[s].errors \cup errors]
<1>1. draft' = [draft EXCEPT ![s] = new]
  BY DEF WritePage
<1>2. sync[s].page \subseteq Contacts
  BY DEF TypeOK, SyncState
<1>3. draft \in [Syncs -> Draft] /\ draft[s] \in Draft
  BY DEF TypeOK
<1>4. [e \in Emails |-> Written(s, good, e)] \in [Emails -> Lead]
  BY WrittenLead
<1>5. new \in Draft
  BY <1>2, <1>3, <1>4 DEF Draft, NewLeads
<1>6. /\ \A e \in Emails : new.lead[e] = Written(s, good, e)
      /\ new.done = draft[s].done \cup good
      /\ new.errors = draft[s].errors \cup errors
  OBVIOUS
<1> HIDE DEF new
<1>7. draft' \in [Syncs -> Draft] /\ draft'[s] = new /\ \A t \in Syncs \ {s} : draft'[t] = draft[t]
  BY <1>1, <1>3, <1>5
<1> QED
  BY <1>6, <1>7

CrmInv == TypeOK /\ PagesInOrder

LEMMA Beginnings ==
  /\ NoLead \in Lead /\ NoDraft \in Draft
  /\ Idle \in SyncState /\ [Idle EXCEPT !.pc = "queued"] \in SyncState
  /\ \A c \in Nat :
       [Idle EXCEPT !.pc = "started", !.from = c, !.cursor = c] \in SyncState
<1>1. NoLead \in Lead
  BY CrmAssumption DEF NoLead, Lead
<1>2. NoDraft \in Draft
  <2>1. [e \in Emails |-> NoLead] \in [Emails -> Lead]
    BY <1>1
  <2> QED
    BY <2>1 DEF NoDraft, Draft
<1>3. 0 \in Nat /\ 0 \in 0 .. MAX_CONTACTS
  BY CrmAssumption
<1>5. Idle \in SyncState /\ [Idle EXCEPT !.pc = "queued"] \in SyncState
  BY <1>3 DEF Idle, SyncState
<1>6. ASSUME NEW c \in Nat
      PROVE  [Idle EXCEPT !.pc = "started", !.from = c, !.cursor = c] \in SyncState
  <2>1. \A x \in SyncState : [x EXCEPT !.pc = "started", !.from = c, !.cursor = c] \in SyncState
    BY DEF SyncState
  <2> QED
    BY <1>5, <2>1
<1> QED
  BY <1>1, <1>2, <1>5, <1>6

ConnState == [there : BOOLEAN, cursor : Nat, synced : BOOLEAN,
              status : {"CONNECTED", "SYNCING", "REVOKED", "ERROR"}]

LEMMA NoConnectionType == NoConnection \in ConnState
BY CrmAssumption DEF NoConnection, ConnState

LEMMA Changes ==
  /\ \A l \in Lead : /\ [l EXCEPT !.there = TRUE] \in Lead
                     /\ [l EXCEPT !.blocked = TRUE] \in Lead
                     /\ \A b \in BOOLEAN : [l EXCEPT !.blocked = @ \/ b] \in Lead
  /\ \A x \in SyncState : [x EXCEPT !.orphan = TRUE] \in SyncState
BY DEF Lead, SyncState

LEMMA EndKeeps ==
  ASSUME CrmInv, NEW s \in Syncs, End(s), crm' = crm
  PROVE  sync' \in [Syncs -> SyncState] /\ draft' \in [Syncs -> Draft] /\ PagesInOrder'
<1>1. Idle \in SyncState /\ NoDraft \in Draft
  BY Beginnings
<1>2. /\ sync' = [sync EXCEPT ![s] = Idle] /\ draft' = [draft EXCEPT ![s] = NoDraft]
      /\ sync \in [Syncs -> SyncState] /\ draft \in [Syncs -> Draft]
  BY DEF End, CrmInv, TypeOK
<1>3. \A t \in Syncs : sync'[t] = IF t = s THEN Idle ELSE sync[t]
  BY <1>2
<1> QED
  BY <1>1, <1>2, <1>3, OrderStays DEF CrmInv, Idle

LEMMA CrmInvInit == Init => CrmInv
<1> SUFFICES ASSUME Init PROVE CrmInv
  OBVIOUS
<1>1. TypeOK
  <2>1. lead \in [Emails -> Lead] /\ sync \in [Syncs -> SyncState] /\ draft \in [Syncs -> Draft]
    BY Beginnings DEF Init
  <2>2. conn \in ConnState
    BY NoConnectionType DEF Init
  <2> QED
    BY <2>1, <2>2 DEF Init, TypeOK, ConnState
<1>2. PagesInOrder
  BY DEF Init, PagesInOrder, InOrder, Paging, Idle
<1> QED
  BY <1>1, <1>2 DEF CrmInv

LEMMA RequestsKeepCrmInv ==
  ASSUME CrmInv,
         \/ \E s \in Syncs : connect_crm_via_api_key(s) \/ trigger_crm_sync(s)
         \/ handle_crm_oauth_callback \/ trigger_leads_import \/ disconnect_crm
         \/ \E e \in Emails : create_canonical_lead(e) \/ OptOut(e)
         \/ \E i \in Changing : OptsOutAtCrm(i) \/ handle_webhook_event(i)
  PROVE  CrmInv'
<1> USE CrmAssumption DEF CrmInv, TypeOK, rowVars, crmVars
<1>1. ASSUME NEW s \in Syncs, connect_crm_via_api_key(s) \/ trigger_crm_sync(s) PROVE CrmInv'
  <2>1. Queue(s) /\ TypeOK /\ UNCHANGED <<crmVars, lead, imported, reported, lost>>
    BY <1>1 DEF connect_crm_via_api_key, trigger_crm_sync, Connect
  <2>2. conn' \in [there : BOOLEAN, cursor : Nat, synced : BOOLEAN,
                   status : {"CONNECTED", "SYNCING", "REVOKED", "ERROR"}]
    BY <1>1 DEF connect_crm_via_api_key, trigger_crm_sync, Connect
  <2>3. [Idle EXCEPT !.pc = "queued"] \in SyncState
    BY Beginnings
  <2>4. sync' \in [Syncs -> SyncState] /\ draft' = draft
    BY <2>1, <2>3 DEF Queue
  <2>5. \A t \in Syncs : sync'[t] = IF t = s THEN [Idle EXCEPT !.pc = "queued"] ELSE sync[t]
    BY <2>1 DEF Queue
  <2>6. PagesInOrder'
    BY <2>1, <2>5, OrderStays DEF Idle, crmVars
  <2> QED
    BY <2>1, <2>2, <2>4, <2>6
<1>2. ASSUME handle_crm_oauth_callback \/ trigger_leads_import PROVE CrmInv'
  <2>1. PagesInOrder'
    BY <1>2, OrderStays DEF handle_crm_oauth_callback, Connect, trigger_leads_import
  <2> QED
    BY <1>2, <2>1 DEF handle_crm_oauth_callback, Connect, trigger_leads_import
<1>3. ASSUME disconnect_crm PROVE CrmInv'
  <2>1. sync' \in [Syncs -> SyncState]
    <3>1. \A t \in Syncs : [sync[t] EXCEPT !.orphan = TRUE] \in SyncState
      BY Changes
    <3> QED
      BY <1>3, <3>1, Beginnings DEF disconnect_crm
  <2>2. lead' \in [Emails -> Lead]
    BY <1>3, Beginnings DEF disconnect_crm
  <2>3. PagesInOrder'
    <3>1. ASSUME NEW t \in Syncs, sync[t].pc \in {"idle", "queued"} PROVE sync'[t] = Idle
      BY <1>3, <3>1 DEF disconnect_crm
    <3>2. ASSUME NEW t \in Syncs, sync[t].pc \notin {"idle", "queued"}
          PROVE sync'[t] = [sync[t] EXCEPT !.orphan = TRUE]
      BY <1>3, <3>2 DEF disconnect_crm
    <3>3. \A t \in Syncs : sync[t] \in SyncState
      OBVIOUS
    <3>4. crm' = crm
      BY <1>3 DEF disconnect_crm
    <3>5. ASSUME NEW t \in Syncs PROVE InOrder(t)'
      <4>1. CASE sync[t].pc \in {"idle", "queued"}
        BY <3>1, <3>4, <4>1, OrderKept DEF Idle
      <4>2. CASE sync[t].pc \notin {"idle", "queued"}
        <5>1. /\ sync'[t].pc = sync[t].pc /\ sync'[t].from = sync[t].from
              /\ sync'[t].cursor = sync[t].cursor /\ sync'[t].count = sync[t].count
              /\ sync'[t].page = sync[t].page /\ sync'[t].next = sync[t].next
          <6>1. sync[t] \in SyncState
            BY <3>3
          <6>2. sync'[t] = [sync[t] EXCEPT !.orphan = TRUE]
            BY <3>2, <4>2
          <6> QED
            BY <6>1, <6>2 DEF SyncState
        <5> QED
          BY <3>4, <5>1, OrderKept DEF PagesInOrder
      <4> QED
        BY <4>1, <4>2
    <3> QED
      BY <3>5 DEF PagesInOrder
  <2> QED
    BY <1>3, <2>1, <2>2, <2>3, NoConnectionType DEF disconnect_crm, ConnState
<1>4. ASSUME NEW e \in Emails, create_canonical_lead(e) \/ OptOut(e) PROVE CrmInv'
  <2>1. lead' \in [Emails -> Lead]
    <3>1. \/ lead' = [lead EXCEPT ![e] = [lead[e] EXCEPT !.there = TRUE]]
          \/ lead' = [lead EXCEPT ![e] = [lead[e] EXCEPT !.blocked = TRUE]]
      BY <1>4 DEF create_canonical_lead, OptOut
    <3>2. /\ [lead[e] EXCEPT !.there = TRUE] \in Lead
          /\ [lead[e] EXCEPT !.blocked = TRUE] \in Lead
      BY Changes
    <3> QED
      BY <3>1, <3>2
  <2>2. PagesInOrder'
    BY <1>4, OrderStays DEF create_canonical_lead, OptOut
  <2> QED
    BY <1>4, <2>1, <2>2 DEF create_canonical_lead, OptOut
<1>5. ASSUME NEW i \in Changing, OptsOutAtCrm(i) PROVE CrmInv'
  <2>1. PagesInOrder'
    BY <1>5, OrderStays DEF OptsOutAtCrm
  <2> QED
    BY <1>5, <2>1 DEF OptsOutAtCrm
<1>6. ASSUME NEW i \in Changing, handle_webhook_event(i) PROVE CrmInv'
  <2>1. i \in Contacts
    OBVIOUS
  <2>2. lead' \in [Emails -> Lead] /\ applied' \subseteq heard' /\ heard' \subseteq Contacts
    <3>1. \A e \in Emails : lead[e] \in Lead /\ [lead[e] EXCEPT !.blocked = TRUE] \in Lead
      BY Changes
    <3> QED
      BY <1>6, <2>1, <3>1 DEF handle_webhook_event
  <2>3. PagesInOrder'
    BY <1>6, OrderStays DEF handle_webhook_event
  <2> QED
    BY <1>6, <2>2, <2>3 DEF handle_webhook_event
<1> QED
  BY <1>1, <1>2, <1>3, <1>4, <1>5, <1>6

LEMMA SyncKeepsCrmInv ==
  ASSUME CrmInv, NEW s \in Syncs,
         \/ Start(s) \/ RefuseToken(s) \/ Fetch(s) \/ Upsert(s)
         \/ Close(s) \/ FetchFails(s) \/ Fail(s)
  PROVE  CrmInv'
<1> USE CrmAssumption DEF CrmInv
<1>0. sync[s] \in SyncState /\ draft[s] \in Draft /\ TypeOK
  BY DEF TypeOK
<1>1. ASSUME Start(s) PROVE CrmInv'
  <2> DEFINE begun == [Idle EXCEPT !.pc = "started", !.from = conn.cursor, !.cursor = conn.cursor]
  <2>1. conn.cursor \in Nat
    BY DEF TypeOK
  <2>3. begun \in SyncState
    BY <2>1, Beginnings
  <2>4. sync' = [sync EXCEPT ![s] = begun]
    BY <1>1 DEF Start
  <2>5. /\ begun.pc = "started" /\ begun.from = conn.cursor /\ begun.cursor = conn.cursor
        /\ begun.count = 0
    BY DEF Idle
  <2> HIDE DEF begun
  <2>6. sync' \in [Syncs -> SyncState] /\ \A t \in Syncs : sync'[t] = IF t = s THEN begun ELSE sync[t]
    BY <2>3, <2>4 DEF TypeOK
  <2>7. PagesInOrder'
    <3>1. InOrder(s)'
      BY <2>1, <2>5, <2>6 DEF InOrder, Paging
    <3> QED
      BY <1>1, <2>6, <3>1, OrderKept DEF PagesInOrder, Start, crmVars
  <2>8. conn' \in [there : BOOLEAN, cursor : Nat, synced : BOOLEAN,
                   status : {"CONNECTED", "SYNCING", "REVOKED", "ERROR"}]
    BY <1>1 DEF Start, TypeOK
  <2> QED
    BY <1>1, <2>6, <2>7, <2>8 DEF Start, TypeOK, crmVars
<1>2. ASSUME RefuseToken(s) PROVE CrmInv'
  <2>1. sync' \in [Syncs -> SyncState] /\ draft' \in [Syncs -> Draft] /\ PagesInOrder'
    BY <1>2, EndKeeps DEF RefuseToken, crmVars
  <2> QED
    BY <1>2, <2>1 DEF RefuseToken, TypeOK, crmVars
<1>3. ASSUME Fetch(s) PROVE CrmInv'
  <2> DEFINE limit == Lesser(PAGE, MAX_CONTACTS - sync[s].count)
             page == Fetched(sync[s].cursor, limit)
             next == NextCursor(sync[s].cursor, limit)
             then == [sync[s] EXCEPT !.pc = "upserting", !.page = page,
                                     !.stops = page \cap optedOut, !.next = next]
  <2>1. /\ sync[s].count < MAX_CONTACTS /\ sync[s].count \in Nat /\ sync[s].cursor \in Nat
        /\ sync[s].pc \in Paging
        /\ crm \in OffsetCursors => sync[s].from <= sync[s].cursor
    BY <1>0, <1>3 DEF Fetch, At, PagesInOrder, InOrder, SyncState, Paging
  <2>2. limit \in Nat /\ limit > 0 /\ limit <= MAX_CONTACTS - sync[s].count
    BY <2>1 DEF Lesser
  <2>3. sync' = [sync EXCEPT ![s] = then]
    BY <1>3 DEF Fetch
  <2> HIDE DEF limit
  <2>4. PICK before \in Nat, k \in Nat :
          /\ k <= limit /\ page = (before + 1) .. (before + k)
          /\ page \subseteq Contacts
          /\ crm \in OffsetCursors =>
               /\ before = sync[s].cursor
               /\ next = 0 => (before + 1) .. Total \subseteq page
               /\ next # 0 => next = before + k
    BY <1>0, <2>1, <2>2, FetchIs DEF TypeOK
  <2>5. next \in Nat
    BY <1>0, <2>1, <2>2, FetchIs DEF TypeOK
  <2> HIDE DEF page, next
  <2>6. then \in SyncState
    BY <1>0, <2>4, <2>5 DEF SyncState
  <2>7. /\ then.pc = "upserting" /\ then.page = page /\ then.cursor = sync[s].cursor
        /\ then.from = sync[s].from /\ then.count = sync[s].count /\ then.next = next
    BY <1>0 DEF SyncState
  <2> HIDE DEF then
  <2>8. (\A t \in Syncs : sync'[t] = IF t = s THEN then ELSE sync[t]) /\ crm' = crm
    BY <1>3, <2>3 DEF TypeOK, Fetch, crmVars
  <2>9. Page(s)'
    <3>1. /\ sync'[s].page = page /\ sync'[s].cursor = sync[s].cursor
          /\ sync'[s].count = sync[s].count /\ sync'[s].next = next /\ crm' = crm
      BY <2>7, <2>8
    <3>2. k <= MAX_CONTACTS - sync[s].count
      BY <2>1, <2>2, <2>4
    <3> QED
      BY <2>4, <3>1, <3>2 DEF Page
  <2>10. PagesInOrder'
    <3>1. InOrder(s)'
      BY <2>1, <2>7, <2>8, <2>9 DEF InOrder
    <3> QED
      BY <2>8, <3>1, OrderKept DEF PagesInOrder
  <2> QED
    BY <1>3, <2>3, <2>6, <2>10 DEF Fetch, TypeOK, crmVars, rowVars
<1>4. ASSUME Upsert(s) PROVE CrmInv'
  <2>1. PICK errors \in SUBSET sync[s].page :
          IF FlushConflicts(s, sync[s].page \ errors)
          THEN Lose(s) ELSE WritePage(s, sync[s].page \ errors, errors)
    BY <1>4 DEF Upsert
  <2>2. CASE Lose(s)
    BY <2>2, EndKeeps DEF Lose, TypeOK, crmVars
  <2>3. CASE WritePage(s, sync[s].page \ errors, errors)
    <3>1. draft' \in [Syncs -> Draft]
      BY <2>3, WritePageDraft DEF TypeOK
    <3>2. At(s, "upserting")
      BY <1>4 DEF Upsert
    <3>3. sync' \in [Syncs -> SyncState]
      BY <2>3, <3>2, WritePageShape
    <3>4. PagesInOrder'
      <4>1. ASSUME NEW t \in Syncs \ {s} PROVE sync'[t] = sync[t]
        BY <2>3, <3>2, WritePageShape
      <4>2. /\ sync'[s].pc \in {"listing", "closing"} /\ sync'[s].from = sync[s].from
            /\ sync'[s].pc = "listing" => sync'[s].count < MAX_CONTACTS
            /\ crm \in OffsetCursors =>
                 /\ sync'[s].pc = "listing" => sync[s].cursor <= sync'[s].cursor
                 /\ sync'[s].pc = "closing" => sync'[s].cursor = 0 \/ sync[s].cursor < sync'[s].cursor
        BY <2>3, <3>2, WritePageShape
      <4>3. /\ sync[s].from \in Nat /\ sync[s].cursor \in Nat /\ sync'[s].cursor \in Nat
            /\ crm \in OffsetCursors => sync[s].from <= sync[s].cursor
        BY <1>0, <3>2, <3>3 DEF SyncState, PagesInOrder, InOrder, At, Paging
      <4>4. crm' = crm
        BY <2>3 DEF WritePage, crmVars
      <4>5. InOrder(s)'
        BY <4>2, <4>3, <4>4 DEF InOrder, Paging
      <4> QED
        BY <4>1, <4>4, <4>5, OrderKept DEF PagesInOrder
    <3> QED
      BY <2>3, <3>1, <3>3, <3>4 DEF WritePage, TypeOK, crmVars, rowVars
  <2> QED
    BY <2>1, <2>2, <2>3
<1>5. ASSUME Close(s) \/ FetchFails(s) PROVE CrmInv'
  <2>1. CommitDraft(s)
    BY <1>5 DEF Close, FetchFails
  <2>2. sync' \in [Syncs -> SyncState] /\ draft' \in [Syncs -> Draft] /\ PagesInOrder'
    BY <2>1, EndKeeps DEF CommitDraft, crmVars
  <2>3. lead' \in [Emails -> Lead] /\ imported' \subseteq Contacts /\ reported' \subseteq Contacts
    <3>1. ASSUME NEW e \in Emails
          PROVE  /\ lead[e] \in Lead
                 /\ [draft[s].lead[e] EXCEPT !.blocked = @ \/ lead[e].blocked] \in Lead
      <4>1. lead[e] \in Lead /\ draft[s].lead[e] \in Lead /\ lead[e].blocked \in BOOLEAN
        BY <1>0 DEF TypeOK, Draft, Lead
      <4> QED
        BY <4>1, Changes
    <3> QED
      BY <1>0, <2>1, <3>1 DEF CommitDraft, TypeOK, Draft
  <2>4. conn' \in [there : BOOLEAN, cursor : Nat, synced : BOOLEAN,
                   status : {"CONNECTED", "SYNCING", "REVOKED", "ERROR"}]
    <3>1. CASE FetchFails(s)
      BY <3>1 DEF FetchFails, TypeOK
    <3>2. CASE Close(s)
      <4> DEFINE stored == IF sync[s].cursor = sync[s].from THEN conn.cursor ELSE sync[s].cursor
      <4>1. stored \in Nat
        BY <1>0 DEF TypeOK, SyncState
      <4>2. conn' = [conn EXCEPT !.status = "CONNECTED", !.synced = TRUE, !.cursor = stored]
        BY <3>2 DEF Close
      <4> HIDE DEF stored
      <4> QED
        BY <4>1, <4>2 DEF TypeOK
    <3> QED
      BY <1>5, <3>1, <3>2
  <2> QED
    BY <2>1, <2>2, <2>3, <2>4 DEF CommitDraft, TypeOK, crmVars
<1>6. ASSUME Fail(s) PROVE CrmInv'
  BY <1>6, EndKeeps DEF Fail, Lose, TypeOK, crmVars
<1> QED
  BY <1>1, <1>2, <1>3, <1>4, <1>5, <1>6

LEMMA CrmInvStuttered == CrmInv /\ UNCHANGED vars => CrmInv'
BY OrderStays DEF CrmInv, TypeOK, vars, crmVars, rowVars

LEMMA CrmInvHolds == Spec => []CrmInv
<1>1. CrmInv /\ [Next]_vars => CrmInv'
  BY RequestsKeepCrmInv, SyncKeepsCrmInv, CrmInvStuttered DEF Next
<1> QED
  BY CrmInvInit, <1>1, PTL DEF Spec

\* Every variable keeps its type: in particular a sync never counts more imports than
\* max_contacts, nor passes more contacts than there are.
THEOREM CrmTypeCorrect == Spec => []TypeOK
BY CrmInvHolds, PTL DEF CrmInv

-----------------------------------------------------------------------------
(* No contact is passed over.                                                *)

Known == imported \cup reported

\* The stored cursor speaks of committed work, and what a sync has passed since it
\* loaded the cursor is in its draft.
CursorKept ==
  /\ Passed \subseteq Known
  /\ \A s \in Syncs : sync[s].pc \in Busy /\ ~sync[s].orphan =>
       /\ 1 .. sync[s].from \subseteq Known
       /\ (sync[s].from + 1) .. Reached(s) \subseteq draft[s].done \cup draft[s].errors

LEMMA OthersKeepCursor ==
  ASSUME CursorKept, TypeOK,
         Passed' = Passed, Known \subseteq Known',
         \A s \in Syncs : \/ sync'[s] = sync[s] /\ draft'[s] = draft[s]
                          \/ sync'[s].pc \in {"idle", "queued"}
  PROVE  CursorKept'
<1>1. ASSUME NEW s \in Syncs, sync'[s].pc \in Busy, ~sync'[s].orphan
      PROVE  /\ 1 .. sync'[s].from \subseteq Known'
             /\ (sync'[s].from + 1) .. Reached(s)' \subseteq draft'[s].done \cup draft'[s].errors
  <2>1. sync'[s] = sync[s] /\ draft'[s] = draft[s]
    BY <1>1 DEF Busy, Paging
  <2>2. Reached(s)' = Reached(s)
    BY <2>1 DEF Reached
  <2> QED
    BY <1>1, <2>1, <2>2 DEF CursorKept
<1> QED
  BY <1>1 DEF CursorKept

\* A sync that commits has passed the contacts from 1 on.
LEMMA CommitKnows ==
  ASSUME CrmInv, CursorKept, NEW s \in Syncs, CommitDraft(s), sync[s].pc \in Busy
  PROVE  /\ 1 .. Reached(s) \subseteq Known'
         /\ Known \subseteq Known'
<1>1. ~sync[s].orphan
  BY DEF CommitDraft, CannotCommit
<1>2. Known' = Known \cup draft[s].done \cup draft[s].errors
  BY DEF CommitDraft, Known
<1>3. sync[s].from \in Nat /\ Reached(s) \in Nat
  BY CrmAssumption DEF CrmInv, TypeOK, SyncState, Reached
<1>4. 1 .. Reached(s) \subseteq (1 .. sync[s].from) \cup ((sync[s].from + 1) .. Reached(s))
  BY <1>3
<1> QED
  BY <1>1, <1>2, <1>4 DEF CursorKept

\* A connection stays one of its CRM.
LEMMA CrmStays ==
  ASSUME [Next]_vars
  PROVE  crm' = crm
BY DEF Next, vars, crmVars, connect_crm_via_api_key, Connect, handle_crm_oauth_callback,
       trigger_crm_sync, trigger_leads_import, disconnect_crm, create_canonical_lead, OptOut,
       OptsOutAtCrm, handle_webhook_event, Start, RefuseToken, Fetch, Upsert, Lose, WritePage,
       CommitDraft, Close, FetchFails, Fail

LEMMA CursorKeptSteps ==
  ASSUME CrmInv, CursorKept, Next, crm \in OffsetCursors
  PROVE  CursorKept'
<1> USE CrmAssumption DEF CrmInv
<1>1. ASSUME NEW s \in Syncs, connect_crm_via_api_key(s) \/ trigger_crm_sync(s) PROVE CursorKept'
  <2>1. Passed' = Passed /\ Known' = Known
    BY <1>1 DEF connect_crm_via_api_key, trigger_crm_sync, Connect, Passed, Known, TypeOK
  <2>2. \A t \in Syncs : \/ sync'[t] = sync[t] /\ draft'[t] = draft[t]
                         \/ sync'[t].pc \in {"idle", "queued"}
    BY <1>1 DEF connect_crm_via_api_key, trigger_crm_sync, Queue, TypeOK, Idle
  <2> QED
    BY <2>1, <2>2, OthersKeepCursor
<1>2. ASSUME handle_crm_oauth_callback \/ trigger_leads_import PROVE CursorKept'
  <2>1. Passed' = Passed /\ Known' = Known
    BY <1>2 DEF handle_crm_oauth_callback, trigger_leads_import, Connect, Passed, Known, TypeOK
  <2> QED
    BY <1>2, <2>1, OthersKeepCursor DEF handle_crm_oauth_callback, trigger_leads_import
<1>3. ASSUME disconnect_crm PROVE CursorKept'
  <2>1. Passed' = {}
    BY <1>3 DEF disconnect_crm, NoConnection, Passed
  <2>2. ASSUME NEW t \in Syncs PROVE sync'[t].pc \in {"idle", "queued"} \/ sync'[t].orphan
    BY <1>3 DEF disconnect_crm, Idle, TypeOK, SyncState
  <2> QED
    BY <2>1, <2>2 DEF CursorKept, Busy, Paging
<1>4. ASSUME NEW e \in Emails, create_canonical_lead(e) \/ OptOut(e) PROVE CursorKept'
  BY <1>4, OthersKeepCursor DEF create_canonical_lead, OptOut, Passed, Known
<1>5. ASSUME NEW i \in Changing, OptsOutAtCrm(i) \/ handle_webhook_event(i) PROVE CursorKept'
  BY <1>5, OthersKeepCursor DEF OptsOutAtCrm, handle_webhook_event, rowVars, Passed, Known
<1>6. ASSUME NEW s \in Syncs, Start(s) PROVE CursorKept'
  <2>1. /\ \A t \in Syncs \ {s} : sync'[t] = sync[t]
        /\ sync'[s].from = conn.cursor /\ Reached(s)' = conn.cursor
    BY <1>6 DEF Start, TypeOK, Idle, Reached
  <2>2. conn.cursor \in Nat /\ Passed' = Passed /\ Known' = Known /\ draft' = draft
    BY <1>6 DEF Start, TypeOK, Passed, Known
  <2>3. 1 .. conn.cursor \subseteq Known
    BY <2>2 DEF CursorKept, Passed
  <2>4. (conn.cursor + 1) .. conn.cursor = {}
    BY <2>2
  <2> QED
    BY <2>1, <2>2, <2>3, <2>4 DEF CursorKept, Reached
<1>7. ASSUME NEW s \in Syncs, RefuseToken(s) PROVE CursorKept'
  <2>1. Passed' = Passed /\ Known' = Known
    BY <1>7 DEF RefuseToken, Passed, Known, TypeOK
  <2> QED
    BY <1>7, <2>1, OthersKeepCursor DEF RefuseToken, End, Idle, TypeOK
<1>8. ASSUME NEW s \in Syncs, Lose(s) PROVE CursorKept'
  <2>1. Passed' = Passed /\ Known' = Known
    BY <1>8 DEF Lose, Passed, Known
  <2> QED
    BY <1>8, <2>1, OthersKeepCursor DEF Lose, End, Idle, TypeOK
<1>9. ASSUME NEW s \in Syncs, Fetch(s) PROVE CursorKept'
  <2>1. /\ \A t \in Syncs \ {s} : sync'[t] = sync[t]
        /\ sync'[s].from = sync[s].from /\ Reached(s)' = Reached(s)
        /\ sync'[s].orphan = sync[s].orphan
        /\ sync[s].pc \in {"started", "listing"}
    BY <1>9 DEF Fetch, At, TypeOK, SyncState, Reached
  <2>2. draft' = draft /\ Passed' = Passed /\ Known' = Known
    BY <1>9 DEF Fetch, Passed, Known, rowVars
  <2> QED
    BY <2>1, <2>2 DEF CursorKept, Reached, Busy, Paging
<1>10. ASSUME NEW s \in Syncs, Upsert(s) PROVE CursorKept'
  <2>1. PICK errors \in SUBSET sync[s].page :
          IF FlushConflicts(s, sync[s].page \ errors)
          THEN Lose(s) ELSE WritePage(s, sync[s].page \ errors, errors)
    BY <1>10 DEF Upsert
  <2>2. CASE WritePage(s, sync[s].page \ errors, errors)
    <3>1. /\ At(s, "upserting") /\ sync[s].pc = "upserting"
      BY <1>10 DEF Upsert, At
    <3>2. /\ \A t \in Syncs \ {s} : sync'[t] = sync[t]
          /\ sync'[s].from = sync[s].from /\ sync'[s].orphan = sync[s].orphan
          /\ (sync[s].cursor + 1) .. Reached(s)' \subseteq sync[s].page
          /\ sync' \in [Syncs -> SyncState]
      BY <2>2, <3>1, WritePageShape
    <3>3. /\ \A t \in Syncs \ {s} : draft'[t] = draft[t]
          /\ draft'[s].done = draft[s].done \cup (sync[s].page \ errors)
          /\ draft'[s].errors = draft[s].errors \cup errors
      BY <2>2, WritePageDraft
    <3>4. Passed' = Passed /\ Known' = Known
      BY <2>2 DEF WritePage, Passed, Known, rowVars
    <3>5. /\ sync[s].from \in Nat /\ sync[s].cursor \in Nat /\ Reached(s)' \in Nat
          /\ Reached(s) = sync[s].cursor
      BY <3>1, <3>2 DEF TypeOK, SyncState, Reached
    <3>6. (sync[s].from + 1) .. Reached(s)' \subseteq
            ((sync[s].from + 1) .. sync[s].cursor) \cup ((sync[s].cursor + 1) .. Reached(s)')
      BY <3>5
    <3>7. ASSUME ~sync[s].orphan
          PROVE  /\ 1 .. sync[s].from \subseteq Known'
                 /\ (sync[s].from + 1) .. Reached(s)' \subseteq draft'[s].done \cup draft'[s].errors
      BY <3>1, <3>2, <3>3, <3>4, <3>5, <3>6, <3>7 DEF CursorKept, Busy, Paging
    <3> QED
      BY <3>2, <3>3, <3>4, <3>7 DEF CursorKept, Reached
  <2> QED
    BY <2>1, <2>2, <1>8
<1>11. ASSUME NEW s \in Syncs, FetchFails(s) PROVE CursorKept'
  <2>1. CommitDraft(s) /\ sync[s].pc \in {"started", "listing"}
    BY <1>11 DEF FetchFails, At
  <2>2. Known \subseteq Known'
    BY <2>1, CommitKnows DEF Busy, Paging
  <2>3. Passed' = Passed
    BY <1>11 DEF FetchFails, Passed, TypeOK
  <2>4. \A t \in Syncs : \/ sync'[t] = sync[t] /\ draft'[t] = draft[t]
                         \/ sync'[t].pc \in {"idle", "queued"}
    BY <2>1 DEF CommitDraft, End, Idle, TypeOK
  <2> QED
    BY <2>2, <2>3, <2>4, OthersKeepCursor
<1>12. ASSUME NEW s \in Syncs, Close(s) PROVE CursorKept'
  <2>1. CommitDraft(s) /\ sync[s].pc = "closing"
    BY <1>12 DEF Close, At
  <2>2. 1 .. Reached(s) \subseteq Known' /\ Known \subseteq Known'
    BY <2>1, CommitKnows DEF Busy
  <2>3. /\ sync[s].from \in Nat /\ sync[s].cursor \in Nat
        /\ sync[s].cursor = 0 \/ sync[s].from < sync[s].cursor
        /\ Reached(s) = IF sync[s].cursor = 0 THEN Total ELSE sync[s].cursor
    BY <2>1 DEF TypeOK, SyncState, PagesInOrder, InOrder, Reached
  <2>4. /\ conn'.synced
        /\ conn'.cursor = IF sync[s].cursor = sync[s].from THEN conn.cursor ELSE sync[s].cursor
    BY <1>12 DEF Close, TypeOK
  <2>5. Passed' \subseteq Known'
    <3>1. CASE sync[s].cursor = 0
      <4>1. Contacts \subseteq Known'
        BY <2>2, <2>3, <3>1 DEF Contacts
      <4>2. CASE sync[s].from = 0
        <5>1. conn'.cursor = conn.cursor /\ 1 .. conn.cursor \subseteq Known'
          BY <2>2, <2>4, <3>1, <4>2 DEF CursorKept, Passed
        <5> QED
          BY <4>1, <5>1 DEF Passed
      <4>3. CASE sync[s].from # 0
        BY <2>4, <3>1, <4>1, <4>3 DEF Passed
      <4> QED
        BY <4>2, <4>3
    <3>2. CASE sync[s].cursor # 0
      <4>1. conn'.cursor = sync[s].cursor
        BY <2>3, <2>4, <3>2
      <4> QED
        BY <2>2, <2>3, <3>2, <4>1 DEF Passed
    <3> QED
      BY <3>1, <3>2
  <2>6. \A t \in Syncs : \/ sync'[t] = sync[t] /\ draft'[t] = draft[t]
                         \/ sync'[t].pc \in {"idle", "queued"}
    BY <2>1 DEF CommitDraft, End, Idle, TypeOK
  <2>7. ASSUME NEW t \in Syncs, sync'[t].pc \in Busy, ~sync'[t].orphan
        PROVE  /\ 1 .. sync'[t].from \subseteq Known'
               /\ (sync'[t].from + 1) .. Reached(t)' \subseteq draft'[t].done \cup draft'[t].errors
    <3>1. sync'[t] = sync[t] /\ draft'[t] = draft[t]
      BY <2>6, <2>7 DEF Busy, Paging
    <3>2. Reached(t)' = Reached(t)
      BY <3>1 DEF Reached
    <3> QED
      BY <2>2, <2>7, <3>1, <3>2 DEF CursorKept
  <2> QED
    BY <2>5, <2>7 DEF CursorKept
<1>13. ASSUME NEW s \in Syncs, Fail(s) PROVE CursorKept'
  BY <1>8, <1>13 DEF Fail
<1> QED
  BY <1>1, <1>2, <1>3, <1>4, <1>5, <1>6, <1>7, <1>9, <1>10, <1>11, <1>12, <1>13 DEF Next

\* The contacts that the cursor of HubSpot or Pipedrive has left behind were imported, or their
\* failure was reported, whatever syncs overlap, fail, are lost or lose their connection.
THEOREM NoneLeftBehind == Spec => []NoContactPassedOver
<1> DEFINE Kept == crm \in OffsetCursors => CursorKept
<1>1. Init => Kept
  BY DEF Init, CursorKept, Passed, NoConnection, Idle, Busy, Paging
<1>2. CrmInv /\ Kept /\ [Next]_vars => Kept'
  <2> SUFFICES ASSUME CrmInv, Kept, [Next]_vars, crm' \in OffsetCursors PROVE CursorKept'
    OBVIOUS
  <2>1. crm' = crm
    BY CrmStays
  <2>2. CASE Next
    BY <2>1, <2>2, CursorKeptSteps
  <2>3. CASE UNCHANGED vars
    BY <2>1, <2>3 DEF CursorKept, Passed, Known, Reached, vars, rowVars
  <2> QED
    BY <2>2, <2>3
<1>3. Kept => NoContactPassedOver
  BY DEF CursorKept, NoContactPassedOver, Known
<1> QED
  BY <1>1, <1>2, <1>3, CrmInvHolds, PTL DEF Spec

-----------------------------------------------------------------------------
(* Opt-outs.                                                                 *)

\* Leads have records of contacts with their address, and the lead with the address of a
\* contact whose opt-out was applied is blocked, whichever record it has by now.
OptOutsKept ==
  /\ \A e \in Emails : lead[e].record # 0 => emailOf[lead[e].record] = e
  /\ \A s \in Syncs, e \in Emails :
       draft[s].lead[e].there => emailOf[draft[s].lead[e].record] = e
  /\ \A i \in applied : emailOf[i] \in Emails /\ lead[emailOf[i]].blocked

LEMMA LeadsKeepOptOuts ==
  ASSUME TypeOK, OptOutsKept, draft' = draft, applied' = applied,
         \A e \in Emails : /\ lead'[e].record = lead[e].record
                           /\ lead[e].blocked => lead'[e].blocked
  PROVE  OptOutsKept'
<1>1. ASSUME NEW e \in Emails, lead'[e].record # 0 PROVE emailOf[lead'[e].record] = e
  BY <1>1 DEF OptOutsKept
<1>2. ASSUME NEW i \in applied' PROVE emailOf[i] \in Emails /\ lead'[emailOf[i]].blocked
  BY DEF OptOutsKept
<1> QED
  BY <1>1, <1>2 DEF OptOutsKept

LEMMA DraftsKeepOptOuts ==
  ASSUME OptOutsKept, lead' = lead, applied' = applied,
         \A s \in Syncs, e \in Emails :
           draft'[s].lead[e].there => \/ draft'[s].lead[e] = draft[s].lead[e]
                                      \/ emailOf[draft'[s].lead[e].record] = e
  PROVE  OptOutsKept'
<1>1. ASSUME NEW s \in Syncs, NEW e \in Emails, draft'[s].lead[e].there
      PROVE  emailOf[draft'[s].lead[e].record] = e
  <2>1. CASE draft'[s].lead[e] = draft[s].lead[e]
    <3>1. draft[s].lead[e].there
      BY <1>1, <2>1
    <3> QED
      BY <2>1, <3>1 DEF OptOutsKept
  <2> QED
    BY <1>1, <2>1
<1> QED
  BY <1>1 DEF OptOutsKept

LEMMA EmptyDraft ==
  ASSUME TypeOK, NEW s \in Syncs, End(s), NEW t \in Syncs, NEW e \in Emails
  PROVE  draft'[t].lead[e].there => draft'[t].lead[e] = draft[t].lead[e]
<1>1. draft'[t] = IF t = s THEN NoDraft ELSE draft[t]
  BY DEF End, TypeOK
<1>2. ~NoDraft.lead[e].there
  BY DEF NoDraft, NoLead
<1> QED
  BY <1>1, <1>2

LEMMA OptOutsKeptSteps ==
  ASSUME CrmInv, OptOutsKept, Next
  PROVE  OptOutsKept'
<1> USE CrmAssumption DEF CrmInv
<1>1. ASSUME NEW s \in Syncs, connect_crm_via_api_key(s) \/ trigger_crm_sync(s) PROVE OptOutsKept'
  BY <1>1, LeadsKeepOptOuts DEF connect_crm_via_api_key, trigger_crm_sync, Connect, Queue, crmVars
<1>2. ASSUME handle_crm_oauth_callback \/ trigger_leads_import PROVE OptOutsKept'
  BY <1>2, LeadsKeepOptOuts DEF handle_crm_oauth_callback, trigger_leads_import, Connect, crmVars
<1>3. ASSUME disconnect_crm PROVE OptOutsKept'
  <2>1. \A e \in Emails : lead'[e] = IF lead[e].record # 0 THEN NoLead ELSE lead[e]
    BY <1>3 DEF disconnect_crm
  <2>2. applied' = {} /\ draft' = draft
    BY <1>3 DEF disconnect_crm
  <2> QED
    BY <2>1, <2>2 DEF OptOutsKept, NoLead
<1>4. ASSUME NEW e \in Emails, create_canonical_lead(e) \/ OptOut(e) PROVE OptOutsKept'
  <2>1. \A d \in Emails : lead[d] \in Lead
    BY DEF TypeOK
  <2>2. \A d \in Emails : \/ lead'[d] = lead[d]
                          \/ lead'[d] = [lead[d] EXCEPT !.there = TRUE]
                          \/ lead'[d] = [lead[d] EXCEPT !.blocked = TRUE]
    BY <1>4 DEF create_canonical_lead, OptOut, TypeOK
  <2>3. \A d \in Emails : /\ lead'[d].record = lead[d].record
                          /\ lead[d].blocked => lead'[d].blocked
    <3>1. \A l \in Lead : /\ [l EXCEPT !.there = TRUE].record = l.record
                          /\ [l EXCEPT !.there = TRUE].blocked = l.blocked
                          /\ [l EXCEPT !.blocked = TRUE].record = l.record
                          /\ [l EXCEPT !.blocked = TRUE].blocked = TRUE
      BY DEF Lead
    <3>2. ASSUME NEW d \in Emails
          PROVE  /\ lead'[d].record = lead[d].record
                 /\ lead[d].blocked => lead'[d].blocked
      <4>1. CASE lead'[d] = lead[d]
        BY <4>1
      <4>2. CASE lead'[d] = [lead[d] EXCEPT !.there = TRUE]
        BY <2>1, <3>1, <4>2
      <4>3. CASE lead'[d] = [lead[d] EXCEPT !.blocked = TRUE]
        BY <2>1, <3>1, <4>3
      <4> QED
        BY <2>2, <4>1, <4>2, <4>3
    <3> QED
      BY <3>2
  <2> QED
    BY <1>4, <2>3, LeadsKeepOptOuts DEF create_canonical_lead, OptOut, crmVars
<1>5. ASSUME NEW i \in Changing, OptsOutAtCrm(i) PROVE OptOutsKept'
  BY <1>5, LeadsKeepOptOuts DEF OptsOutAtCrm, rowVars
<1>6. ASSUME NEW i \in Changing, handle_webhook_event(i) PROVE OptOutsKept'
  <2>1. CASE \E e \in Emails : lead[e].record = i
    <3>1. PICK d \in Emails : lead[d].record = i
      BY <2>1
    <3>2. i # 0 /\ emailOf[i] = d
      BY <3>1 DEF OptOutsKept, Contacts
    <3>3. /\ \A e \in Emails : lead'[e] = IF lead[e].record = i
                                         THEN [lead[e] EXCEPT !.blocked = TRUE] ELSE lead[e]
          /\ applied' = applied \cup {i} /\ draft' = draft
      BY <1>6, <2>1 DEF handle_webhook_event
    <3>4. \A e \in Emails : /\ lead'[e].record = lead[e].record
                            /\ lead[e].blocked => lead'[e].blocked
      <4>1. ASSUME NEW e \in Emails
            PROVE  /\ lead[e] \in Lead
                   /\ [lead[e] EXCEPT !.blocked = TRUE].record = lead[e].record
                   /\ [lead[e] EXCEPT !.blocked = TRUE].blocked
        BY DEF TypeOK, Lead
      <4> QED
        BY <3>3, <4>1
    <3>5. lead'[d].blocked
      <4>1. lead'[d] = [lead[d] EXCEPT !.blocked = TRUE] /\ lead[d] \in Lead
        BY <3>1, <3>3 DEF TypeOK
      <4> QED
        BY <4>1 DEF Lead
    <3>6. ASSUME NEW j \in applied' PROVE emailOf[j] \in Emails /\ lead'[emailOf[j]].blocked
      <4>1. CASE j = i
        BY <3>2, <3>5, <4>1
      <4>2. CASE j # i
        <5>1. j \in applied
          BY <3>3, <4>2
        <5> QED
          BY <5>1, <3>4 DEF OptOutsKept
      <4> QED
        BY <4>1, <4>2
    <3>7. ASSUME NEW e \in Emails, lead'[e].record # 0 PROVE emailOf[lead'[e].record] = e
      BY <3>4, <3>7 DEF OptOutsKept
    <3> QED
      BY <3>3, <3>6, <3>7 DEF OptOutsKept
  <2>2. CASE ~\E e \in Emails : lead[e].record = i
    BY <1>6, <2>2, LeadsKeepOptOuts DEF handle_webhook_event
  <2> QED
    BY <2>1, <2>2
<1>7. ASSUME NEW s \in Syncs, Start(s) \/ Fetch(s) PROVE OptOutsKept'
  BY <1>7, LeadsKeepOptOuts DEF Start, Fetch, crmVars, rowVars
<1>8. ASSUME NEW s \in Syncs, RefuseToken(s) \/ Lose(s) PROVE OptOutsKept'
  <2>1. End(s) /\ lead' = lead /\ applied' = applied
    BY <1>8 DEF RefuseToken, Lose, crmVars
  <2> QED
    BY <2>1, EmptyDraft, DraftsKeepOptOuts
<1>9. ASSUME NEW s \in Syncs, Upsert(s) PROVE OptOutsKept'
  <2>1. PICK errors \in SUBSET sync[s].page :
          IF FlushConflicts(s, sync[s].page \ errors)
          THEN Lose(s) ELSE WritePage(s, sync[s].page \ errors, errors)
    BY <1>9 DEF Upsert
  <2>2. CASE WritePage(s, sync[s].page \ errors, errors)
    <3>1. /\ \A e \in Emails : draft'[s].lead[e] = Written(s, sync[s].page \ errors, e)
          /\ \A t \in Syncs \ {s} : draft'[t] = draft[t]
      BY <2>2, WritePageDraft
    <3>2. \A e \in Emails : \/ draft'[s].lead[e] = draft[s].lead[e]
                            \/ emailOf[draft'[s].lead[e].record] = e
      BY <3>1, WrittenLead
    <3>3. lead' = lead /\ applied' = applied
      BY <2>2 DEF WritePage, crmVars, rowVars
    <3> QED
      BY <3>1, <3>2, <3>3, DraftsKeepOptOuts
  <2> QED
    BY <2>1, <2>2, <1>8
<1>10. ASSUME NEW s \in Syncs, Close(s) \/ FetchFails(s) PROVE OptOutsKept'
  <2>1. CommitDraft(s)
    BY <1>10 DEF Close, FetchFails
  <2>2. ASSUME NEW e \in Emails
        PROVE  /\ \/ lead'[e].record = lead[e].record
                  \/ emailOf[lead'[e].record] = e
               /\ lead[e].blocked => lead'[e].blocked
    <3>1. /\ draft[s].lead[e] \in Lead /\ lead[e] \in Lead
      BY DEF TypeOK, Draft
    <3>2. lead'[e] = IF draft[s].lead[e].there
                     THEN [draft[s].lead[e] EXCEPT !.blocked = @ \/ lead[e].blocked]
                     ELSE lead[e]
      BY <2>1 DEF CommitDraft
    <3>3. CASE draft[s].lead[e].there
      <4>1. /\ lead'[e].record = draft[s].lead[e].record
            /\ lead'[e].blocked = (draft[s].lead[e].blocked \/ lead[e].blocked)
        BY <3>1, <3>2, <3>3 DEF Lead
      <4> QED
        BY <3>3, <4>1 DEF OptOutsKept
    <3> QED
      BY <3>2, <3>3
  <2>3. End(s) /\ applied' = applied
    BY <2>1 DEF CommitDraft, crmVars
  <2>4. \A t \in Syncs, e \in Emails :
          draft'[t].lead[e].there => emailOf[draft'[t].lead[e].record] = e
    BY <2>3, EmptyDraft DEF OptOutsKept
  <2> QED
    BY <2>2, <2>3, <2>4 DEF OptOutsKept
<1>11. ASSUME NEW s \in Syncs, Fail(s) PROVE OptOutsKept'
  BY <1>8, <1>11 DEF Fail
<1> QED
  BY <1>1, <1>2, <1>3, <1>4, <1>5, <1>6, <1>7, <1>8, <1>9, <1>10, <1>11 DEF Next

\* No sync takes back an opt-out that a webhook has applied, though syncs write leads
\* back from pages they fetched before it.
THEOREM AppliedOptOutsStay == Spec => []AppliedOptOutHolds
<1>1. Init => OptOutsKept
  BY DEF Init, OptOutsKept, NoLead, NoDraft
<1>2. CrmInv /\ OptOutsKept /\ [Next]_vars => OptOutsKept'
  BY OptOutsKeptSteps DEF OptOutsKept, vars, crmVars, rowVars
<1>3. CrmInv /\ OptOutsKept => AppliedOptOutHolds
  <2> SUFFICES ASSUME CrmInv, OptOutsKept, NEW i \in applied, NEW e \in Emails,
                      lead[e].record = i
               PROVE  lead[e].blocked
    BY DEF AppliedOptOutHolds
  <2>1. i # 0
    BY DEF CrmInv, TypeOK, Contacts
  <2> QED
    BY <2>1 DEF OptOutsKept
<1> QED
  BY <1>1, <1>2, <1>3, CrmInvHolds, PTL DEF Spec

-----------------------------------------------------------------------------
(* The status.                                                               *)

\* A sync that ends leaves another status than SYNCING, or is counted as lost.
LEMMA EndOfSync ==
  ASSUME TypeOK, SyncingIsTrue,
         lost' \/ conn'.status # "SYNCING"
  PROVE  SyncingIsTrue'
BY DEF SyncingIsTrue

LEMMA SyncAtWork ==
  ASSUME NEW s \in Syncs, sync'[s].pc # "idle"
  PROVE  SyncingIsTrue'
BY DEF SyncingIsTrue, At

\* SYNCING stands for a sync, queued or at work, unless one was lost and none has
\* ended since.
THEOREM SyncingStandsForASync == Spec => []SyncingIsTrue
<1>1. Init => SyncingIsTrue
  BY DEF Init, SyncingIsTrue, NoConnection
<1>2. CrmInv /\ SyncingIsTrue /\ [Next]_vars => SyncingIsTrue'
  <2> SUFFICES ASSUME TypeOK, PagesInOrder, SyncingIsTrue, [Next]_vars
               PROVE  SyncingIsTrue'
    BY DEF CrmInv
  <2>1. ASSUME NEW s \in Syncs, connect_crm_via_api_key(s) \/ trigger_crm_sync(s)
        PROVE SyncingIsTrue'
    BY <2>1, SyncAtWork DEF connect_crm_via_api_key, trigger_crm_sync, Queue, Idle, TypeOK
  <2>2. ASSUME handle_crm_oauth_callback \/ trigger_leads_import PROVE SyncingIsTrue'
    BY <2>2, EndOfSync DEF handle_crm_oauth_callback, Connect, trigger_leads_import, TypeOK
  <2>3. ASSUME disconnect_crm PROVE SyncingIsTrue'
    BY <2>3 DEF disconnect_crm, NoConnection, SyncingIsTrue
  <2>4. ASSUME UNCHANGED <<conn, sync, lost>> PROVE SyncingIsTrue'
    BY <2>4 DEF SyncingIsTrue, At
  <2>5. ASSUME NEW s \in Syncs, Start(s) PROVE SyncingIsTrue'
    BY <2>5, SyncAtWork DEF Start, Idle, TypeOK
  <2>6. ASSUME NEW s \in Syncs, Fetch(s) PROVE SyncingIsTrue'
    <3>1. sync'[s].pc = "upserting"
      BY <2>6 DEF Fetch, TypeOK, SyncState
    <3> QED
      BY <3>1, SyncAtWork
  <2>7. ASSUME NEW s \in Syncs, Lose(s) PROVE SyncingIsTrue'
    BY <2>7, EndOfSync DEF Lose
  <2>8. ASSUME NEW s \in Syncs, Upsert(s) PROVE SyncingIsTrue'
    <3>1. PICK errors \in SUBSET sync[s].page :
            IF FlushConflicts(s, sync[s].page \ errors)
            THEN Lose(s) ELSE WritePage(s, sync[s].page \ errors, errors)
      BY <2>8 DEF Upsert
    <3>2. CASE WritePage(s, sync[s].page \ errors, errors)
      <4>1. sync'[s].pc \in {"listing", "closing"}
        BY <2>8, <3>2, WritePageShape DEF Upsert
      <4> QED
        BY <4>1, SyncAtWork
    <3> QED
      BY <2>7, <3>1, <3>2
  <2>9. ASSUME NEW s \in Syncs, RefuseToken(s) \/ Close(s) \/ FetchFails(s) PROVE SyncingIsTrue'
    <3>1. conn'.status # "SYNCING"
      BY <2>9 DEF RefuseToken, Close, FetchFails, TypeOK
    <3> QED
      BY <3>1, EndOfSync
  <2>10. ASSUME NEW s \in Syncs, Fail(s) PROVE SyncingIsTrue'
    BY <2>7, <2>10 DEF Fail
  <2>11. ASSUME \/ \E e \in Emails : create_canonical_lead(e) \/ OptOut(e)
                \/ \E i \in Changing : OptsOutAtCrm(i) \/ handle_webhook_event(i)
                \/ UNCHANGED vars
         PROVE SyncingIsTrue'
    BY <2>4, <2>11 DEF create_canonical_lead, OptOut, OptsOutAtCrm, handle_webhook_event, vars, rowVars
  <2> QED
    BY <2>1, <2>2, <2>3, <2>5, <2>6, <2>8, <2>9, <2>10, <2>11 DEF Next
<1> QED
  BY <1>1, <1>2, CrmInvHolds, PTL DEF Spec

=============================================================================
