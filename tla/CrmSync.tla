------------------------------- MODULE CrmSync -------------------------------
(***************************************************************************)
(* CRMSyncService (packages/crm/sync_service.py), its Celery task and the   *)
(* requests around it: a sync pages through the contacts of a CRM and       *)
(* upserts leads by address in one transaction, while other syncs of the    *)
(* connection run, the CRM announces opt-outs by webhook, people opt out,   *)
(* and the connection is removed and made again.                            *)
(*                                                                         *)
(* Contacts are numbered in the order in which the CRM lists them.  A cursor *)
(* is what the adapter of the connection's CRM makes of it (Fetched,         *)
(* NextCursor), 0 stands for None.  The adapters set do_not_contact with     *)
(* opt_out, and no sync or webhook clears it: a lead is blocked or it is     *)
(* not.  Left out: the request with which a person clears both flags by      *)
(* hand, and connecting with the key of another account.                    *)
(***************************************************************************)
EXTENDS Naturals, FiniteSets

CONSTANTS
  Crms,            \* the CRMs a workspace may use
  Total,           \* contacts in the CRM
  Emails, NoEmail,
  emailOf,         \* emailOf[i]: the address of contact i, NoEmail if it has none
  Syncs,           \* runs of sync_crm_leads_task at a time
  PAGE,            \* contacts per request (100)
  MAX_CONTACTS,    \* imports per sync (500)
  SyncFaults,
  Changing         \* the contacts that may opt out at the CRM

Contacts == 1 .. Total

\* The CRMs whose cursor is the number of contacts passed (after, start).
OffsetCursors == {"hubspot", "pipedrive"}

ASSUME CrmAssumption ==
  /\ Crms \subseteq OffsetCursors \cup {"salesforce", "zoho"}
  /\ Total \in Nat \ {0}
  /\ PAGE \in Nat \ {0}
  /\ MAX_CONTACTS \in Nat \ {0}
  /\ NoEmail \notin Emails
  /\ emailOf \in [Contacts -> Emails \cup {NoEmail}]
  /\ SyncFaults \subseteq {"token", "provider", "contact", "crash", "broker"}
  /\ Changing \subseteq Contacts

VARIABLES
  crm,         \* the provider of the connection
  optedOut,    \* contacts that have opted out at the CRM
  conn,        \* the crm_connections row
  lead,        \* the crm_leads row of each address
  sync,        \* where each sync is
  draft,       \* its uncommitted work
  imported,    \* contacts whose upsert was committed for this connection
  reported,    \* contacts whose failure was committed to its sync_errors_json
  heard,       \* contacts whose opt-out a webhook has brought ...
  applied,     \* ... and found the lead of
  lost         \* a sync was lost, and none has ended since

crmVars == <<crm, optedOut, heard, applied>>
rowVars == <<conn, lead, imported, reported, lost>>
vars == <<crmVars, rowVars, sync, draft>>

\* record 0: the lead did not come from the CRM.
Lead == [there : BOOLEAN, record : 0 .. Total, blocked : BOOLEAN]
NoLead == [there |-> FALSE, record |-> 0, blocked |-> FALSE]

SyncState ==
  [pc : {"idle", "queued", "started", "listing", "upserting", "closing"},
   orphan : BOOLEAN,              \* its connection was removed
   from : Nat,                    \* the cursor it loaded ...
   cursor : Nat,                  \* ... and the one it has by now
   page : SUBSET Contacts,        \* the contacts fetched last, ...
   stops : SUBSET Contacts,       \* ... who of them had opted out ...
   next : Nat,                    \* ... and the cursor that came with them
   count : 0 .. MAX_CONTACTS]     \* total_imported
Idle == [pc |-> "idle", orphan |-> FALSE, from |-> 0, cursor |-> 0,
         page |-> {}, stops |-> {}, next |-> 0, count |-> 0]

\* The leads to write, which of them are new, and what became of the contacts.
Draft == [lead : [Emails -> Lead], new : SUBSET Emails,
          done : SUBSET Contacts, errors : SUBSET Contacts]
NoDraft == [lead |-> [e \in Emails |-> NoLead], new |-> {}, done |-> {}, errors |-> {}]

TypeOK ==
  /\ crm \in Crms /\ optedOut \subseteq Contacts
  /\ conn \in [there : BOOLEAN, cursor : Nat, synced : BOOLEAN,
               status : {"CONNECTED", "SYNCING", "REVOKED", "ERROR"}]
  /\ lead \in [Emails -> Lead]
  /\ sync \in [Syncs -> SyncState]
  /\ draft \in [Syncs -> Draft]
  /\ imported \subseteq Contacts /\ reported \subseteq Contacts
  /\ heard \subseteq Contacts /\ applied \subseteq heard
  /\ lost \in BOOLEAN

NoConnection == [there |-> FALSE, cursor |-> 0, synced |-> FALSE, status |-> "CONNECTED"]

Init ==
  /\ crm \in Crms /\ optedOut = {} /\ heard = {} /\ applied = {}
  /\ conn = NoConnection
  /\ lead = [e \in Emails |-> NoLead]
  /\ sync = [s \in Syncs |-> Idle]
  /\ draft = [s \in Syncs |-> NoDraft]
  /\ imported = {} /\ reported = {}
  /\ lost = FALSE

-----------------------------------------------------------------------------
(* Requests.                                                                 *)

At(s, pc) == sync[s].pc = pc
Queue(s) ==
  /\ At(s, "idle")
  /\ sync' = [sync EXCEPT ![s] = [Idle EXCEPT !.pc = "queued"]]
  /\ UNCHANGED draft

\* The row is made, or found from an earlier connection, whose cursor it keeps.
Connect ==
  /\ conn' = [conn EXCEPT !.there = TRUE, !.status = "CONNECTED"]
  /\ UNCHANGED <<crmVars, lead, imported, reported, lost>>

connect_crm_via_api_key(s) == Connect /\ Queue(s)
handle_crm_oauth_callback == Connect /\ UNCHANGED <<sync, draft>>

trigger_crm_sync(s) ==
  /\ conn.there
  /\ conn' = [conn EXCEPT !.status = "SYNCING"]
  /\ Queue(s)
  /\ UNCHANGED <<crmVars, lead, imported, reported, lost>>

\* The import request swallows the broker's refusal; otherwise it is trigger_crm_sync.
trigger_leads_import ==
  /\ "broker" \in SyncFaults
  /\ conn.there
  /\ conn' = [conn EXCEPT !.status = "SYNCING"]
  /\ lost' = TRUE
  /\ UNCHANGED <<crmVars, lead, imported, reported, sync, draft>>

\* Removing the connection deletes its leads with it (cascade of the relationship).  It
\* waits for the row locks of a sync that has flushed leads; a queued sync will not find
\* its connection, and raises.
disconnect_crm ==
  /\ conn.there
  /\ \A s \in Syncs : draft[s].done = {}
  /\ conn' = NoConnection
  /\ lead' = [e \in Emails |-> IF lead[e].record # 0 THEN NoLead ELSE lead[e]]
  /\ sync' = [s \in Syncs |->
       IF sync[s].pc \in {"idle", "queued"} THEN Idle ELSE [sync[s] EXCEPT !.orphan = TRUE]]
  /\ imported' = {} /\ reported' = {} /\ applied' = {}
  /\ lost' = FALSE
  /\ UNCHANGED <<crm, optedOut, heard, draft>>

create_canonical_lead(e) ==
  /\ ~lead[e].there
  /\ lead' = [lead EXCEPT ![e].there = TRUE]
  /\ UNCHANGED <<crmVars, conn, imported, reported, lost, sync, draft>>

\* A person opts out by email, or is opted out by hand.
OptOut(e) ==
  /\ lead[e].there
  /\ lead' = [lead EXCEPT ![e].blocked = TRUE]
  /\ UNCHANGED <<crmVars, conn, imported, reported, lost, sync, draft>>

-----------------------------------------------------------------------------
(* The CRM.                                                                  *)

OptsOutAtCrm(i) ==
  /\ optedOut' = optedOut \cup {i}
  /\ UNCHANGED <<crm, heard, applied, rowVars, sync, draft>>

\* The announcement is dropped when no lead has the contact's record id.
handle_webhook_event(i) ==
  /\ conn.there /\ i \in optedOut
  /\ heard' = heard \cup {i}
  /\ IF \E e \in Emails : lead[e].record = i
     THEN /\ lead' = [e \in Emails |->
                        IF lead[e].record = i THEN [lead[e] EXCEPT !.blocked = TRUE] ELSE lead[e]]
          /\ applied' = applied \cup {i}
     ELSE UNCHANGED <<lead, applied>>
  /\ UNCHANGED <<crm, optedOut, conn, imported, reported, lost, sync, draft>>

-----------------------------------------------------------------------------
(* sync_connection                                                           *)

End(s) ==
  /\ sync' = [sync EXCEPT ![s] = Idle]
  /\ draft' = [draft EXCEPT ![s] = NoDraft]

\* An exception leaves the task, which swallows it, or the worker dies: the work is
\* rolled back and nobody tries again.
Lose(s) ==
  /\ End(s)
  /\ lost' = TRUE
  /\ UNCHANGED <<crmVars, conn, lead, imported, reported>>

Start(s) ==
  /\ At(s, "queued")
  /\ conn' = [conn EXCEPT !.status = "SYNCING"]
  /\ sync' = [sync EXCEPT ![s] =
       [Idle EXCEPT !.pc = "started", !.from = conn.cursor, !.cursor = conn.cursor]]
  /\ UNCHANGED <<crmVars, lead, imported, reported, lost, draft>>

\* The tokens cannot be decrypted, or the CRM does not refresh them.
RefuseToken(s) ==
  /\ "token" \in SyncFaults
  /\ At(s, "started") /\ ~sync[s].orphan
  /\ \E status \in {"ERROR", "REVOKED"} : conn' = [conn EXCEPT !.status = status]
  /\ End(s)
  /\ lost' = FALSE
  /\ UNCHANGED <<crmVars, lead, imported, reported>>

Lesser(m, n) == IF m < n THEN m ELSE n

\* Zoho's cursor is the number of a page, and how many contacts a page has, each request
\* says anew.
PageNumber(cursor) == IF cursor = 0 THEN 1 ELSE cursor
Skipped(cursor, limit) == IF crm = "zoho" THEN (PageNumber(cursor) - 1) * limit ELSE cursor

Fetched(cursor, limit) ==
  Skipped(cursor, limit) + 1 .. Lesser(Total, Skipped(cursor, limit) + limit)

\* Salesforce is asked one query for limit contacts, which leaves nothing to ask for.
NextCursor(cursor, limit) ==
  IF crm = "salesforce" \/ Skipped(cursor, limit) + limit >= Total THEN 0
  ELSE IF crm = "zoho" THEN PageNumber(cursor) + 1
  ELSE cursor + limit

\* fetch_contacts returns what the CRM says at that moment.
Fetch(s) ==
  LET limit == Lesser(PAGE, MAX_CONTACTS - sync[s].count)
      page  == Fetched(sync[s].cursor, limit)
  IN /\ At(s, "started") \/ At(s, "listing")
     /\ sync' = [sync EXCEPT ![s] =
          [@ EXCEPT !.pc = "upserting", !.page = page, !.stops = page \cap optedOut,
                    !.next = NextCursor(sync[s].cursor, limit)]]
     /\ UNCHANGED <<crmVars, rowVars, draft>>

\* A lead as the session sees it: its own flushed work over what is committed.
Seen(s, e) == IF draft[s].lead[e].there THEN draft[s].lead[e] ELSE lead[e]

Sharing(contacts, e) == {i \in contacts : emailOf[i] = e}
Latest(contacts) == CHOOSE i \in contacts : \A j \in contacts : j <= i
NewLeads(s, contacts) == {e \in Emails : Sharing(contacts, e) # {} /\ ~Seen(s, e).there}

\* Each contact inserts or updates the lead of its address; an opt-out blocks it.
Written(s, contacts, e) ==
  IF Sharing(contacts, e) = {} THEN draft[s].lead[e]
  ELSE [there   |-> TRUE,
        record  |-> Latest(Sharing(contacts, e)),
        blocked |-> \/ Seen(s, e).there /\ Seen(s, e).blocked
                    \/ Sharing(contacts, e) \cap sync[s].stops # {}]

\* Contacts fail one by one: those without an address always.
MayFail(s, errors) ==
  /\ {i \in sync[s].page : emailOf[i] = NoEmail} \subseteq errors
  /\ "contact" \notin SyncFaults => \A i \in errors : emailOf[i] = NoEmail

\* autoflush is off: two contacts with one new address are found out at the flush.
FlushConflicts(s, contacts) ==
  \E e \in NewLeads(s, contacts) : \E i, j \in Sharing(contacts, e) : i # j

WritePage(s, good, errors) ==
  LET count == sync[s].count + Cardinality(good)
  IN /\ draft' = [draft EXCEPT ![s] =
          [lead   |-> [e \in Emails |-> Written(s, good, e)],
           new    |-> @.new \cup NewLeads(s, good),
           done   |-> @.done \cup good,
           errors |-> @.errors \cup errors]]
     /\ sync' = [sync EXCEPT ![s] =
          [@ EXCEPT !.pc = IF sync[s].next = 0 \/ count >= MAX_CONTACTS THEN "closing" ELSE "listing",
                    !.cursor = sync[s].next, !.count = count, !.page = {}, !.stops = {}, !.next = 0]]
     /\ UNCHANGED <<crmVars, rowVars>>

Upsert(s) ==
  /\ At(s, "upserting")
  /\ \E errors \in SUBSET sync[s].page :
       LET good == sync[s].page \ errors
       IN /\ MayFail(s, errors)
          /\ IF FlushConflicts(s, good) THEN Lose(s) ELSE WritePage(s, good, errors)

\* The connection is gone, or another sync or request has inserted a lead of the draft.
CannotCommit(s) == sync[s].orphan \/ \E e \in draft[s].new : lead[e].there

\* Mutant: the lead is written back as the sync loaded it.
CommitLoadedLeads(s) ==
  /\ ~CannotCommit(s)
  /\ lead' = [e \in Emails |-> IF draft[s].lead[e].there THEN draft[s].lead[e] ELSE lead[e]]
  /\ imported' = imported \cup draft[s].done
  /\ reported' = reported \cup draft[s].errors
  /\ lost' = FALSE
  /\ End(s)
  /\ UNCHANGED crmVars

CommitDraft(s) ==
  /\ ~CannotCommit(s)
  /\ lead' = [e \in Emails |->
       IF draft[s].lead[e].there
       THEN [draft[s].lead[e] EXCEPT !.blocked = @ \/ lead[e].blocked]
       ELSE lead[e]]
  /\ imported' = imported \cup draft[s].done
  /\ reported' = reported \cup draft[s].errors
  /\ lost' = FALSE
  /\ End(s)
  /\ UNCHANGED crmVars

\* Mutant: the cursor is cleared when the sync has imported its share, as at the end of
\* a pass.
CloseAsWhole(s) ==
  /\ At(s, "closing")
  /\ CommitDraft(s)
  /\ conn' = [conn EXCEPT !.status = "CONNECTED", !.synced = TRUE, !.cursor = 0]

\* The listing is over, or MAX_CONTACTS is reached; the cursor is written if it differs
\* from the one loaded.
Close(s) ==
  /\ At(s, "closing")
  /\ CommitDraft(s)
  /\ conn' = [conn EXCEPT !.status = "CONNECTED", !.synced = TRUE,
                          !.cursor = IF sync[s].cursor = sync[s].from THEN @ ELSE sync[s].cursor]

\* Mutant: the error path records the errors and forgets the status.
FetchFailsSilently(s) ==
  /\ "provider" \in SyncFaults
  /\ At(s, "started") \/ At(s, "listing")
  /\ CommitDraft(s)
  /\ UNCHANGED conn

\* The CRM fails between pages: what was flushed is kept, the cursor is not moved.
FetchFails(s) ==
  /\ "provider" \in SyncFaults
  /\ At(s, "started") \/ At(s, "listing")
  /\ CommitDraft(s)
  /\ conn' = [conn EXCEPT !.status = "ERROR"]

Fail(s) ==
  /\ sync[s].pc \notin {"idle", "queued"}
  /\ \/ "crash" \in SyncFaults
     \/ CannotCommit(s)
  /\ Lose(s)

-----------------------------------------------------------------------------

Next ==
  \/ \E s \in Syncs :
       \/ connect_crm_via_api_key(s) \/ trigger_crm_sync(s)
       \/ Start(s) \/ RefuseToken(s) \/ Fetch(s) \/ Upsert(s)
       \/ Close(s) \/ FetchFails(s) \/ Fail(s)
  \/ handle_crm_oauth_callback \/ trigger_leads_import \/ disconnect_crm
  \/ \E e \in Emails : create_canonical_lead(e) \/ OptOut(e)
  \/ \E i \in Changing : OptsOutAtCrm(i) \/ handle_webhook_event(i)

Spec == Init /\ [][Next]_vars

-----------------------------------------------------------------------------
(* Properties.                                                               *)

\* The contacts the stored cursor and the last sync say are worked through, of a CRM whose
\* cursor counts contacts.
Passed == IF conn.synced /\ conn.cursor = 0 THEN Contacts ELSE 1 .. conn.cursor

\* No contact of HubSpot or Pipedrive is passed over: one that the cursor has left behind was
\* imported or its failure was reported ("full user visibility", sync_service.py:46), whatever
\* syncs overlap, fail or are lost.
NoContactPassedOver ==
  crm \in OffsetCursors /\ conn.there => Passed \subseteq imported \cup reported

\* Once a listing has ended (a sync has stored no cursor), every contact of the CRM was imported
\* or its failure reported, whichever CRM it is ("cursor-based pagination", routers/crm.py:78).
\* Salesforce and Zoho refute it.
EndOfListIsEnd ==
  conn.there /\ conn.synced /\ conn.cursor = 0 => Contacts \subseteq imported \cup reported

\* A connection shows SYNCING only while a sync is queued or at work, or after one was
\* lost without a trace and no other has ended: no path of the code ends a sync and
\* leaves the status behind.
SyncingIsTrue ==
  conn.there /\ conn.status = "SYNCING" => lost \/ \E s \in Syncs : ~At(s, "idle")

\* A lead whose opt-out was applied stays blocked while it is the contact's lead,
\* though syncs write leads back from pages fetched before the opt-out.
AppliedOptOutHolds ==
  \A i \in applied : \A e \in Emails : lead[e].record = i => lead[e].blocked

\* An opt-out the CRM has announced is in force on the contact's lead (milestones
\* document, line 360: "propagate to canonical lead model immediately").
AnnouncedOptOutHolds ==
  \A i \in heard : \A e \in Emails : lead[e].record = i => lead[e].blocked

=============================================================================
