------------------------ MODULE SendService_proofs ------------------------
(***************************************************************************)
(* Theorems about SendService for any senders, recipients and mailboxes,    *)
(* with providers that fail or revoke, commits that fail and senders that   *)
(* die between any two steps; and that it implements EmailOutbox.           *)
(***************************************************************************)
EXTENDS SendService, TLAPS

SenderRecords ==
  [at : Holding \cup {"picked"}, key : Keys, lock : {"free", "held"}, copy : Copies \cup {NoCopy}]

USE DEF SenderRecords

\* A sender at rest has no copy, and every other sender's fields have their types.
Working(p) == sender[p] # Rest

LEMMA WorkingSender ==
  ASSUME SendTypeOK, NEW p \in Senders, Working(p)
  PROVE  /\ sender[p].at \in Holding \cup {"picked"}
         /\ sender[p].key \in Keys
         /\ sender[p].copy \in Copies \cup {NoCopy}
         /\ sender[p] \in SenderRecords
BY DEF SendTypeOK, Working

LEMMA AtWork ==
  ASSUME SendTypeOK, NEW p \in Senders, NEW where \in Holding \cup {"picked"}, At(p, where)
  PROVE  Working(p)
BY DEF At, Working, Rest, Holding

LEMMA CopyOfRow ==
  ASSUME SendTypeOK, NEW a \in Accounts, There(a)
  PROVE  Copy(a) \in Copies /\ account[a] \in Rows
BY DEF SendTypeOK, There, Copy, Copies, Rows

LEMMA BecomeKeepsType ==
  ASSUME SendTypeOK, NEW p \in Senders, Working(p),
         NEW where \in Holding \cup {"picked"}, Become(p, where)
  PROVE  sender' \in [Senders -> SenderRecords \cup {Rest}]
<1>1. sender[p] \in SenderRecords
  BY WorkingSender
<1>2. [sender[p] EXCEPT !.at = where] \in SenderRecords
  BY <1>1
<1> QED
  BY <1>2 DEF Become, SendTypeOK

LEMMA ReleaseKeepsType ==
  ASSUME SendTypeOK, NEW p \in Senders, Release(p)
  PROVE  sender' \in [Senders -> SenderRecords \cup {Rest}]
BY DEF Release, SendTypeOK

LEMMA HighestKeepsType ==
  ASSUME SendTypeOK, NEW a \in Accounts, NEW limit \in Limits, Highest(a, limit)
  PROVE  topLimit' \in [Accounts -> Limits \cup {0}]
BY DEF Highest, SendTypeOK

\* A copy that is counted is of a row, and leaves it one.
LEMMA CountedKeepsType ==
  ASSUME SendTypeOK, NEW p \in Senders, Working(p), There(sender[p].copy.id),
         account' = Counted(sender[p].copy)
  PROVE  account' \in [Accounts -> Rows \cup {Absent}]
<1> DEFINE copy == sender[p].copy
<1>1. CASE copy \in Copies
  <2>1. copy.id \in Accounts /\ copy.sends \in Nat
    BY <1>1 DEF Copies
  <2>2. [account[copy.id] EXCEPT !.sends = copy.sends + 1] \in Rows
    BY <2>1, CopyOfRow DEF Rows
  <2> QED
    BY <2>1, <2>2 DEF Counted, SendTypeOK
<1>2. CASE copy = NoCopy
  <2>1. copy.id \notin Accounts
    BY <1>2, SendAssumption DEF NoCopy
  <2> QED
    BY <2>1 DEF Counted, SendTypeOK
<1> QED
  BY <1>1, <1>2, WorkingSender

LEMMA CountKeepsType ==
  ASSUME NEW S, NEW x, NEW f \in [S -> Nat]
  PROVE  Count(f, x) \in [S -> Nat]
<1>1. \A y \in S : f[y] \in Nat /\ f[y] + 1 \in Nat
  OBVIOUS
<1>2. \A y \in S : Count(f, x)[y] = IF y = x THEN f[y] + 1 ELSE f[y]
  BY DEF Count
<1>3. Count(f, x) = [y \in S |-> Count(f, x)[y]]
  BY DEF Count
<1> QED
  BY <1>1, <1>2, <1>3

\* Everything has its type in every reachable state, whatever the accounts, the senders
\* and the limits.
THEOREM SendTypeCorrect == SendSpec => []SendTypeOK
<1>1. SendInit => SendTypeOK
  BY SendAssumption DEF SendInit, SendTypeOK, Absent, Rest
<1>2. SendTypeOK /\ [SendNext]_sendVars => SendTypeOK'
  <2> SUFFICES ASSUME SendTypeOK, [SendNext]_sendVars PROVE SendTypeOK'
    OBVIOUS
  <2>1. ASSUME NEW a \in Accounts, NEW limit \in Limits, ConnectAccount(a, limit)
        PROVE SendTypeOK'
    <3>1. [row |-> "there", health |-> "HEALTHY", limit |-> limit, sends |-> 0] \in Rows
      BY SendAssumption DEF Rows, MailboxHealthStatus
    <3>2. account' \in [Accounts -> Rows \cup {Absent}]
      BY <2>1, <3>1 DEF ConnectAccount, SendTypeOK
    <3>3. topLimit' \in [Accounts -> Limits \cup {0}]
      BY <2>1, HighestKeepsType DEF ConnectAccount
    <3> QED
      BY <2>1, <3>2, <3>3 DEF ConnectAccount, SendTypeOK
  <2>2. ASSUME NEW a \in Accounts, NEW limit \in Limits, NEW health \in MailboxHealthStatus,
               UpdateAccount(a, limit, health)
        PROVE SendTypeOK'
    <3>1. account[a] \in Rows
      BY <2>2, CopyOfRow DEF UpdateAccount
    <3>2. account' \in [Accounts -> Rows \cup {Absent}]
      BY <2>2, <3>1 DEF UpdateAccount, SendTypeOK, Rows
    <3>3. topLimit' \in [Accounts -> Limits \cup {0}]
      BY <2>2, HighestKeepsType DEF UpdateAccount
    <3> QED
      BY <2>2, <3>2, <3>3 DEF UpdateAccount, SendTypeOK
  <2>3. ASSUME NEW a \in Accounts, DisconnectAccount(a) PROVE SendTypeOK'
    BY <2>3 DEF DisconnectAccount, SendTypeOK, histVars
  <2>4. ASSUME NEW r \in Recipients, NEW kind \in {"email", "domain"},
               AddSuppression(r, kind) \/ DeleteSuppression(r, kind)
        PROVE SendTypeOK'
    <3>1. matches' \in [Recipients -> SUBSET {"email", "domain"}]
      BY <2>4 DEF AddSuppression, DeleteSuppression, SendTypeOK
    <3> QED
      BY <2>4, <3>1 DEF AddSuppression, DeleteSuppression, SendTypeOK, histVars
  <2>5. ASSUME NEW p \in Senders, NEW r \in Recipients, NEW a \in Accounts, PickMailbox(p, r, a)
        PROVE SendTypeOK'
    <3>1. [at |-> "picked", key |-> <<r, "lead">>, lock |-> "free", copy |-> Copy(a)]
            \in SenderRecords
      BY <2>5, CopyOfRow DEF PickMailbox, Keys
    <3> QED
      BY <2>5, <3>1 DEF PickMailbox, NowShared, SendTypeOK
  <2>6. ASSUME NEW p \in Senders, NEW key \in Keys, TakeSendLock(p, key) PROVE SendTypeOK'
    <3>1. CASE p \in PickEarly
      <4>1. Working(p)
        BY <2>6, <3>1, AtWork DEF TakeSendLock, EnterUnlocked
      <4>2. sender' = [sender EXCEPT ![p] = [sender[p] EXCEPT !.at = "locked", !.lock = "held"]]
        BY <2>6, <3>1 DEF TakeSendLock, EnterUnlocked, SendTypeOK
      <4>3. [sender[p] EXCEPT !.at = "locked", !.lock = "held"] \in SenderRecords
        BY <4>1, WorkingSender DEF Holding
      <4> QED
        BY <2>6, <4>2, <4>3, SendAssumption DEF TakeSendLock, EnterUnlocked, SendTypeOK, histVars
    <3>2. CASE p \notin PickEarly
      BY <2>6, <3>2, SendAssumption DEF TakeSendLock, EnterUnlocked, SendTypeOK, Holding, histVars
    <3> QED
      BY <3>1, <3>2
  <2>14. ASSUME NEW p \in Senders, LockLapses(p) PROVE SendTypeOK'
    <3>1. Working(p) /\ sender' = [sender EXCEPT ![p] = [sender[p] EXCEPT !.lock = "free"]]
      BY <2>14 DEF LockLapses, Holds, Sending, Working, Rest, Holding, SendTypeOK
    <3>2. [sender[p] EXCEPT !.lock = "free"] \in SenderRecords /\ sender[p].key \in Keys
      BY <3>1, WorkingSender
    <3> QED
      BY <2>14, <3>1, <3>2 DEF LockLapses, SendTypeOK
  <2>7. ASSUME NEW p \in Senders, NEW a \in Accounts, CheckAccount(p, a) PROVE SendTypeOK'
    <3>1. Working(p)
      BY <2>7, AtWork DEF CheckAccount, Holding
    <3>2. Reread(p, a) \in Copies \cup {NoCopy}
      BY <2>7, <3>1, WorkingSender, CopyOfRow DEF CheckAccount, Reread
    <3>3. sender[p] \in SenderRecords
      BY <3>1, WorkingSender
    <3>4. [sender[p] EXCEPT !.at = "cleared", !.copy = Reread(p, a)]
            \in SenderRecords
      BY <3>2, <3>3 DEF Holding
    <3>5. sender' = [sender EXCEPT ![p] = [sender[p] EXCEPT !.at = "cleared", !.copy = Reread(p, a)]]
      BY <2>7 DEF CheckAccount, SendTypeOK
    <3> QED
      BY <2>7, <3>4, <3>5 DEF CheckAccount, NowShared, SendTypeOK
  <2>8. ASSUME NEW p \in Senders, ProviderAccepts(p) PROVE SendTypeOK'
    <3>1. Working(p)
      BY <2>8, AtWork DEF ProviderAccepts, Holding
    <3>2. accepted' \in [Accounts -> Nat] /\ handed' \in [Keys -> Nat]
      BY <2>8, CountKeepsType DEF ProviderAccepts, SendTypeOK
    <3>3. "accepted" \in Holding \cup {"picked"}
      BY DEF Holding
    <3> QED
      BY <2>8, <3>1, <3>2, <3>3, BecomeKeepsType DEF ProviderAccepts, SendTypeOK
  <2>9. ASSUME NEW p \in Senders, ProviderUnauthorized(p) PROVE SendTypeOK'
    <3> DEFINE id == sender[p].copy.id
    <3>1. account' \in [Accounts -> Rows \cup {Absent}]
      <4>1. CASE id \in Accounts /\ There(id)
        <5>1. [account[id] EXCEPT !.health = "REVOKED"] \in Rows
          BY <4>1, CopyOfRow DEF Rows, MailboxHealthStatus
        <5>2. account' = [account EXCEPT ![id].health = "REVOKED"]
          BY <2>9, <4>1 DEF ProviderUnauthorized
        <5> QED
          BY <5>1, <5>2, <4>1 DEF SendTypeOK
      <4>2. CASE ~(id \in Accounts /\ There(id))
        BY <2>9, <4>2 DEF ProviderUnauthorized, SendTypeOK
      <4> QED
        BY <4>1, <4>2
    <3> QED
      BY <2>9, <3>1, ReleaseKeepsType DEF ProviderUnauthorized, SendTypeOK, histVars
  <2>10. ASSUME NEW p \in Senders, RecordSent(p) PROVE SendTypeOK'
    <3>1. Working(p)
      BY <2>10, AtWork DEF RecordSent, Holding
    <3>2. account' \in [Accounts -> Rows \cup {Absent}]
      BY <2>10, <3>1, CountedKeepsType DEF RecordSent
    <3>3. messages' \in [Keys -> Nat] /\ recorded' \in [Accounts -> Nat]
      BY <2>10, CountKeepsType DEF RecordSent, SendTypeOK
    <3> QED
      BY <2>10, <3>2, <3>3, ReleaseKeepsType DEF RecordSent, SendTypeOK
  <2>11. ASSUME NEW p \in Senders, CheckSuppression(p) PROVE SendTypeOK'
    <3>1. Working(p)
      BY <2>11, AtWork DEF CheckSuppression, Holding
    <3> QED
      BY <2>11, <3>1, BecomeKeepsType DEF CheckSuppression, SendTypeOK, histVars, Holding
  <2>12. ASSUME NEW p \in Senders,
                \/ LockBusy(p) \/ AbortSuppressed(p) \/ ProviderFails(p)
                \/ RecordLost(p) \/ SenderDies(p) \/ \E a \in Accounts : RefuseAccount(p, a)
         PROVE SendTypeOK'
    BY <2>12, ReleaseKeepsType
    DEF LockBusy, AbortSuppressed, ProviderFails, RecordLost, SenderDies, RefuseAccount,
        SendTypeOK, histVars
  <2>13. CASE UNCHANGED sendVars
    BY <2>13 DEF sendVars, SendTypeOK
  <2> QED
    BY <2>1, <2>2, <2>3, <2>4, <2>5, <2>6, <2>7, <2>8, <2>9, <2>10, <2>11, <2>12, <2>13,
       <2>14
    DEF SendNext, Dispatch
<1> QED
  BY <1>1, <1>2, PTL DEF SendSpec

-----------------------------------------------------------------------------
(* The counter and the limit.                                                *)

\* A copy is never ahead of the provider, nor above the limits the account has had, and
\* a cleared one has quota left.
CopiesFair ==
  \A p \in Senders, a \in Accounts : HasCopyOf(p, a) =>
    /\ sender[p].copy.sends <= accepted[a]
    /\ At(p, "accepted") => sender[p].copy.sends + 1 <= accepted[a]
    /\ sender[p].copy.limit <= topLimit[a]
    /\ sender[p].at \in {"cleared", "accepted"} => sender[p].copy.sends < sender[p].copy.limit

\* The same of the rows.
RowsFair ==
  \A a \in Accounts : There(a) =>
    /\ account[a].sends <= accepted[a]
    /\ account[a].limit <= topLimit[a]

\* An id that was never connected has nothing recorded.
FreshIsUnused == \A a \in Accounts : topLimit[a] = 0 => recorded[a] = 0

\* What is cleared was cleared on a copy.
ClearedHasCopy ==
  \A p \in Senders : sender[p].at \in {"cleared", "accepted"} => sender[p].copy \in Copies

TwoCopiesAreShared ==
  \A p, q \in Senders, a \in Accounts :
    p # q /\ HasCopyOf(p, a) /\ HasCopyOf(q, a) => a \in shared

\* While an account is not shared, its row and the one copy of it count the same.
AloneIsExact ==
  \A a \in Accounts : a \notin shared =>
    /\ recorded[a] <= topLimit[a]
    /\ There(a) => account[a].sends = recorded[a]
    /\ \A p \in Senders : There(a) /\ HasCopyOf(p, a) => sender[p].copy.sends = recorded[a]

CounterInv ==
  /\ CopiesFair /\ RowsFair /\ FreshIsUnused
  /\ ClearedHasCopy /\ TwoCopiesAreShared /\ AloneIsExact

\* A sender that has a copy of an account has all its fields.
LEMMA CopyInHand ==
  ASSUME SendTypeOK, NEW p \in Senders, NEW a \in Accounts, HasCopyOf(p, a)
  PROVE  /\ sender[p].copy \in Copies
         /\ sender[p].copy.sends \in Nat /\ sender[p].copy.limit \in Nat
         /\ Working(p)
<1>1. Working(p)
  BY DEF HasCopyOf, Working
<1>2. sender[p].copy \in Copies
  BY <1>1, WorkingSender, SendAssumption DEF HasCopyOf, NoCopy
<1> QED
  BY <1>1, <1>2, SendAssumption DEF Copies

LEMMA RowInHand ==
  ASSUME SendTypeOK, NEW a \in Accounts
  PROVE  /\ topLimit[a] \in Nat /\ recorded[a] \in Nat /\ accepted[a] \in Nat
         /\ There(a) => account[a].sends \in Nat /\ account[a].limit \in Nat
<1>0. topLimit[a] \in Limits \cup {0} /\ recorded[a] \in Nat /\ accepted[a] \in Nat
  BY DEF SendTypeOK
<1>1. \A limit \in Limits \cup {0} : limit \in Nat
  BY SendAssumption
<1>2. There(a) => account[a] \in Rows
  BY CopyOfRow
<1> QED
  BY <1>0, <1>1, <1>2 DEF Rows

\* A sender that lets go of its copy, and nothing else, disturbs nothing.
LEMMA ForgettingIsFair ==
  ASSUME SendTypeOK, CounterInv, NEW p \in Senders, Release(p),
         UNCHANGED <<account, accepted, recorded, shared, topLimit>>
  PROVE  CounterInv'
<1>1. \A q \in Senders : q # p => sender'[q] = sender[q]
  BY DEF Release, SendTypeOK
<1>2. sender'[p] = Rest
  BY DEF Release, SendTypeOK
<1>3. \A q \in Senders, a \in Accounts : HasCopyOf(q, a)' => q # p /\ HasCopyOf(q, a)
  BY <1>1, <1>2 DEF HasCopyOf
<1>4. \A q \in Senders, where \in Holding : At(q, where)' => q # p /\ At(q, where)
  BY <1>1, <1>2 DEF At, Rest, Holding
<1>5. CopiesFair'
  BY <1>1, <1>3, <1>4 DEF CounterInv, CopiesFair, At
<1>6. RowsFair' /\ FreshIsUnused'
  BY DEF CounterInv, RowsFair, FreshIsUnused, There
<1>7. ClearedHasCopy'
  BY <1>1, <1>2 DEF CounterInv, ClearedHasCopy, Rest
<1>8. TwoCopiesAreShared'
  BY <1>3 DEF CounterInv, TwoCopiesAreShared
<1>9. AloneIsExact'
  BY <1>1, <1>3 DEF CounterInv, AloneIsExact, There
<1> QED
  BY <1>5, <1>6, <1>7, <1>8, <1>9 DEF CounterInv

\* A sender that moves on with the copy it has, or without one, neither clearing nor
\* accepting anything, disturbs nothing either.
LEMMA MovingOnIsFair ==
  ASSUME SendTypeOK, CounterInv, NEW p \in Senders,
         \A q \in Senders : q # p => sender'[q] = sender[q],
         \/ sender'[p].at \in {"locked", "checked"}
         \/ Working(p) /\ sender'[p].at = sender[p].at /\ sender'[p].copy = sender[p].copy,
         \/ sender'[p].copy = NoCopy
         \/ Working(p) /\ sender'[p].copy = sender[p].copy,
         UNCHANGED <<account, accepted, recorded, shared, topLimit>>
  PROVE  CounterInv'
<1>1. \A q \in Senders, a \in Accounts : HasCopyOf(q, a)' =>
        HasCopyOf(q, a) /\ sender'[q].copy = sender[q].copy
  BY SendAssumption DEF HasCopyOf, Working, NoCopy
<1>2. \A q \in Senders : sender'[q].at \in {"cleared", "accepted"} =>
        sender'[q].at = sender[q].at /\ sender'[q].copy = sender[q].copy
  OBVIOUS
<1>3. CopiesFair'
  BY <1>1, <1>2 DEF CounterInv, CopiesFair, At
<1>4. RowsFair' /\ FreshIsUnused'
  BY DEF CounterInv, RowsFair, FreshIsUnused, There
<1>5. ClearedHasCopy'
  BY <1>2 DEF CounterInv, ClearedHasCopy
<1>6. TwoCopiesAreShared'
  BY <1>1 DEF CounterInv, TwoCopiesAreShared
<1>7. AloneIsExact'
  BY <1>1 DEF CounterInv, AloneIsExact, There
<1> QED
  BY <1>3, <1>4, <1>5, <1>6, <1>7 DEF CounterInv

\* A sender that comes by a copy of the row as it stands, with quota left, shares the
\* account with whoever else has one.
LEMMA CopyingIsFair ==
  ASSUME SendTypeOK, CounterInv, NEW p \in Senders, NEW a \in Accounts, There(a), HasQuota(a),
         \A q \in Senders : q # p => sender'[q] = sender[q],
         sender'[p].copy = Copy(a), sender'[p].at \in {"picked", "cleared"}, NowShared(p, a),
         UNCHANGED <<account, accepted, recorded, topLimit>>
  PROVE  CounterInv'
<1>1. /\ sender'[p].copy.id = a /\ sender'[p].copy.sends = account[a].sends
      /\ sender'[p].copy.limit = account[a].limit /\ sender'[p].copy \in Copies
  BY CopyOfRow DEF Copy
<1>2. \A q \in Senders, b \in Accounts :
        HasCopyOf(q, b)' => \/ q = p /\ b = a
                            \/ q # p /\ HasCopyOf(q, b) /\ sender'[q] = sender[q]
  BY <1>1 DEF HasCopyOf
<1>3. shared \subseteq shared' /\ \A b \in Accounts : b # a /\ b \in shared' => b \in shared
  BY DEF NowShared
<1>4. \A q \in Senders : q # p /\ HasCopyOf(q, a) => a \in shared'
  BY DEF NowShared
<1>5. CopiesFair'
  BY <1>1, <1>2, RowInHand DEF CounterInv, CopiesFair, RowsFair, At, HasQuota
<1>6. RowsFair' /\ FreshIsUnused'
  BY DEF CounterInv, RowsFair, FreshIsUnused, There
<1>7. ClearedHasCopy'
  BY <1>1 DEF CounterInv, ClearedHasCopy
<1>8. TwoCopiesAreShared'
  BY <1>2, <1>3, <1>4 DEF CounterInv, TwoCopiesAreShared
<1>9. AloneIsExact'
  BY <1>1, <1>2, <1>3, <1>4 DEF CounterInv, AloneIsExact, There
<1> QED
  BY <1>5, <1>6, <1>7, <1>8, <1>9 DEF CounterInv

THEOREM CounterInvHolds == SendSpec => []CounterInv
<1>1. SendInit => CounterInv
  <2> SUFFICES ASSUME SendInit PROVE CounterInv
    OBVIOUS
  <2>1. /\ \A p \in Senders : sender[p] = Rest
        /\ \A a \in Accounts : account[a] = Absent /\ recorded[a] = 0 /\ topLimit[a] = 0
    BY DEF SendInit
  <2> QED
    BY <2>1 DEF CounterInv, CopiesFair, RowsFair, FreshIsUnused, ClearedHasCopy,
                TwoCopiesAreShared, AloneIsExact, HasCopyOf, There, Rest
<1>2. SendTypeOK /\ SendTypeOK' /\ CounterInv /\ [SendNext]_sendVars => CounterInv'
  <2> SUFFICES ASSUME SendTypeOK, SendTypeOK', CounterInv, [SendNext]_sendVars PROVE CounterInv'
    OBVIOUS
  <2>1. ASSUME NEW a \in Accounts, NEW limit \in Limits, ConnectAccount(a, limit)
        PROVE CounterInv'
    <3>1. /\ account'[a].sends = 0 /\ account'[a].limit = limit
          /\ \A b \in Accounts : b # a => account'[b] = account[b] /\ topLimit'[b] = topLimit[b]
      BY <2>1 DEF ConnectAccount, Highest, SendTypeOK
    <3>2. topLimit[a] = 0 /\ topLimit'[a] = limit /\ limit \in Nat /\ limit > 0
      BY <2>1, SendAssumption DEF ConnectAccount, Highest, SendTypeOK
    <3>3. recorded[a] = 0
      BY <3>2 DEF CounterInv, FreshIsUnused
    <3>4. \A p \in Senders : ~HasCopyOf(p, a)
      <4> SUFFICES ASSUME NEW p \in Senders, HasCopyOf(p, a) PROVE FALSE
        OBVIOUS
      <4>1. sender[p].copy.limit <= 0
        BY <3>2 DEF CounterInv, CopiesFair
      <4>2. sender[p].copy.limit \in Limits
        BY CopyInHand DEF Copies
      <4>3. sender[p].copy.limit \in Nat /\ sender[p].copy.limit # 0
        BY <4>2, SendAssumption
      <4> QED
        BY <4>1, <4>3
    <3>5. UNCHANGED <<sender, accepted, recorded, shared>>
      BY <2>1 DEF ConnectAccount
    <3>6. CopiesFair'
      BY <3>1, <3>4, <3>5 DEF CounterInv, CopiesFair, HasCopyOf, At
    <3>7. RowsFair'
      BY <3>1, <3>2, <3>5, RowInHand DEF CounterInv, RowsFair, There
    <3>8. FreshIsUnused'
      BY <3>1, <3>2, <3>5 DEF CounterInv, FreshIsUnused
    <3>9. ClearedHasCopy' /\ TwoCopiesAreShared'
      BY <3>5 DEF CounterInv, ClearedHasCopy, TwoCopiesAreShared, HasCopyOf
    <3>10. AloneIsExact'
      BY <3>1, <3>2, <3>3, <3>4, <3>5 DEF CounterInv, AloneIsExact, There, HasCopyOf
    <3> QED
      BY <3>6, <3>7, <3>8, <3>9, <3>10 DEF CounterInv
  <2>2. ASSUME NEW a \in Accounts, NEW limit \in Limits, NEW health \in MailboxHealthStatus,
               UpdateAccount(a, limit, health)
        PROVE CounterInv'
    <3>1. account[a] \in Rows
      BY <2>2, CopyOfRow DEF UpdateAccount
    <3>2. /\ account'[a].sends = account[a].sends /\ account'[a].limit = limit
          /\ \A b \in Accounts : b # a => account'[b] = account[b] /\ topLimit'[b] = topLimit[b]
      BY <2>2, <3>1 DEF UpdateAccount, Highest, SendTypeOK, Rows
    <3>3. /\ limit \in Nat /\ limit <= topLimit'[a] /\ topLimit[a] <= topLimit'[a]
          /\ topLimit[a] \in Nat /\ topLimit'[a] \in Nat /\ limit > 0
      BY <2>2, RowInHand, SendAssumption DEF UpdateAccount, Highest, SendTypeOK
    <3>4. UNCHANGED <<sender, accepted, recorded, shared>> /\ There(a)
      BY <2>2 DEF UpdateAccount
    <3>5. CopiesFair'
      <4> SUFFICES ASSUME NEW p \in Senders, NEW b \in Accounts, HasCopyOf(p, b)
                   PROVE  /\ sender[p].copy.sends <= accepted[b]
                          /\ At(p, "accepted") => sender[p].copy.sends + 1 <= accepted[b]
                          /\ sender[p].copy.limit <= topLimit'[b]
                          /\ sender[p].at \in {"cleared", "accepted"} =>
                               sender[p].copy.sends < sender[p].copy.limit
        BY <3>4 DEF CopiesFair, HasCopyOf, At
      <4>1. sender[p].copy.limit <= topLimit[b] /\ sender[p].copy.limit \in Nat
        BY CopyInHand DEF CounterInv, CopiesFair
      <4>2. sender[p].copy.limit <= topLimit'[b]
        BY <3>2, <3>3, <4>1
      <4> QED
        BY <4>2 DEF CounterInv, CopiesFair
    <3>6. RowsFair'
      BY <3>2, <3>3, <3>4, RowInHand DEF CounterInv, RowsFair, There
    <3>7. FreshIsUnused'
      BY <3>2, <3>3, <3>4 DEF CounterInv, FreshIsUnused
    <3>8. ClearedHasCopy' /\ TwoCopiesAreShared'
      BY <3>4 DEF CounterInv, ClearedHasCopy, TwoCopiesAreShared, HasCopyOf
    <3>9. AloneIsExact'
      <4> SUFFICES ASSUME NEW b \in Accounts, b \notin shared
                   PROVE  /\ recorded[b] <= topLimit'[b]
                          /\ There(b)' => account'[b].sends = recorded[b]
                          /\ \A p \in Senders : There(b)' /\ HasCopyOf(p, b) =>
                               sender[p].copy.sends = recorded[b]
        BY <3>4 DEF AloneIsExact, HasCopyOf
      <4>1. There(b)' => There(b)
        BY <3>2, <3>4 DEF There
      <4>2. recorded[b] <= topLimit'[b]
        BY <3>2, <3>3, RowInHand DEF CounterInv, AloneIsExact
      <4> QED
        BY <3>2, <4>1, <4>2 DEF CounterInv, AloneIsExact
    <3> QED
      BY <3>5, <3>6, <3>7, <3>8, <3>9 DEF CounterInv
  <2>3. ASSUME NEW a \in Accounts, DisconnectAccount(a) PROVE CounterInv'
    <3>1. /\ \A b \in Accounts : There(b)' => There(b) /\ account'[b] = account[b]
          /\ UNCHANGED <<sender, accepted, recorded, shared, topLimit>>
      BY <2>3 DEF DisconnectAccount, There, SendTypeOK, histVars
    <3> QED
      BY <3>1 DEF CounterInv, CopiesFair, RowsFair, FreshIsUnused, ClearedHasCopy,
                  TwoCopiesAreShared, AloneIsExact, HasCopyOf, At
  <2>4. ASSUME UNCHANGED <<account, sender, accepted, recorded, shared, topLimit>>
        PROVE CounterInv'
    BY <2>4 DEF CounterInv, CopiesFair, RowsFair, FreshIsUnused, ClearedHasCopy,
                TwoCopiesAreShared, AloneIsExact, HasCopyOf, At, There
  <2>5. ASSUME NEW r \in Recipients, NEW kind \in {"email", "domain"},
               AddSuppression(r, kind) \/ DeleteSuppression(r, kind)
        PROVE CounterInv'
    BY <2>4, <2>5 DEF AddSuppression, DeleteSuppression, histVars
  <2>6. ASSUME NEW p \in Senders, NEW r \in Recipients, NEW a \in Accounts, PickMailbox(p, r, a)
        PROVE CounterInv'
    BY <2>6, CopyingIsFair DEF PickMailbox, SendTypeOK
  <2>7. ASSUME NEW p \in Senders, NEW key \in Keys, TakeSendLock(p, key) PROVE CounterInv'
    <3>1. UNCHANGED <<account, accepted, recorded, shared, topLimit>>
      BY <2>7 DEF TakeSendLock, EnterUnlocked, histVars
    <3>2. CASE p \in PickEarly
      <4>1. Working(p) /\ sender[p] \in SenderRecords
        BY <2>7, <3>2, AtWork, WorkingSender DEF TakeSendLock, EnterUnlocked
      <4>2. /\ sender'[p] = [sender[p] EXCEPT !.at = "locked", !.lock = "held"]
            /\ \A q \in Senders : q # p => sender'[q] = sender[q]
        BY <2>7, <3>2 DEF TakeSendLock, EnterUnlocked, SendTypeOK
      <4>3. sender'[p].at = "locked" /\ sender'[p].copy = sender[p].copy
        BY <4>1, <4>2
      <4> QED
        BY <3>1, <4>1, <4>2, <4>3, MovingOnIsFair
    <3>3. CASE p \notin PickEarly
      <4>1. /\ sender'[p] = [at |-> "locked", key |-> key, lock |-> "held", copy |-> NoCopy]
            /\ \A q \in Senders : q # p => sender'[q] = sender[q]
        BY <2>7, <3>3 DEF TakeSendLock, EnterUnlocked, SendTypeOK
      <4> QED
        BY <3>1, <4>1, MovingOnIsFair
    <3> QED
      BY <3>2, <3>3
  <2>8. ASSUME NEW p \in Senders, CheckSuppression(p) PROVE CounterInv'
    <3>1. Working(p) /\ sender[p] \in SenderRecords
      BY <2>8, AtWork, WorkingSender DEF CheckSuppression, Holding
    <3>2. /\ sender'[p] = [sender[p] EXCEPT !.at = "checked"]
          /\ \A q \in Senders : q # p => sender'[q] = sender[q]
      BY <2>8 DEF CheckSuppression, Become, SendTypeOK
    <3>3. sender'[p].at = "checked" /\ sender'[p].copy = sender[p].copy
      BY <3>1, <3>2
    <3> QED
      BY <2>8, <3>1, <3>2, <3>3, MovingOnIsFair DEF CheckSuppression, histVars
  <2>15. ASSUME NEW p \in Senders, LockLapses(p) PROVE CounterInv'
    <3>1. Working(p) /\ sender[p] \in SenderRecords
      BY <2>15, WorkingSender DEF LockLapses, Holds, Sending, Working, Rest, Holding
    <3>2. /\ sender'[p] = [sender[p] EXCEPT !.lock = "free"]
          /\ \A q \in Senders : q # p => sender'[q] = sender[q]
      BY <2>15 DEF LockLapses, SendTypeOK
    <3>3. sender'[p].at = sender[p].at /\ sender'[p].copy = sender[p].copy
      BY <3>1, <3>2
    <3> QED
      BY <2>15, <3>1, <3>2, <3>3, MovingOnIsFair DEF LockLapses
  <2>9. ASSUME NEW p \in Senders, NEW a \in Accounts, CheckAccount(p, a) PROVE CounterInv'
    <3>1. sender[p] \in SenderRecords
      BY <2>9, AtWork, WorkingSender DEF CheckAccount, Holding
    <3>2. /\ sender'[p] = [sender[p] EXCEPT !.at = "cleared", !.copy = Reread(p, a)]
          /\ \A q \in Senders : q # p => sender'[q] = sender[q]
      BY <2>9 DEF CheckAccount, SendTypeOK
    <3>3. sender'[p].at = "cleared" /\ sender'[p].copy = Reread(p, a)
      BY <3>1, <3>2
    <3>4. CASE sender[p].copy = NoCopy
      <4>1. HasQuota(a)
        BY <2>9, <3>4 DEF CheckAccount, MaySend, Reread, Copy, HasQuota
      <4> QED
        BY <2>9, <3>2, <3>3, <3>4, <4>1, CopyingIsFair DEF CheckAccount, Reread
    <3>5. CASE sender[p].copy # NoCopy
      <4>1. sender'[p].copy = sender[p].copy /\ sender[p].copy.sends < sender[p].copy.limit
        BY <2>9, <3>3, <3>5 DEF CheckAccount, Reread, MaySend
      <4>2. \A q \in Senders, b \in Accounts : HasCopyOf(q, b)' =>
              HasCopyOf(q, b) /\ sender'[q].copy = sender[q].copy
        BY <2>9, <3>2, <4>1, AtWork DEF HasCopyOf, CheckAccount, Working, Holding
      <4>3. shared \subseteq shared'
        BY <2>9 DEF CheckAccount, NowShared
      <4>4. UNCHANGED <<account, accepted, recorded, topLimit>>
        BY <2>9 DEF CheckAccount
      <4>5. CopiesFair'
        BY <3>2, <3>3, <4>1, <4>2, <4>4 DEF CounterInv, CopiesFair, At
      <4>6. RowsFair' /\ FreshIsUnused'
        BY <4>4 DEF CounterInv, RowsFair, FreshIsUnused, There
      <4>7. ClearedHasCopy'
        BY <3>1, <3>2, <3>5, <4>1 DEF CounterInv, ClearedHasCopy
      <4>8. TwoCopiesAreShared'
        BY <4>2, <4>3 DEF CounterInv, TwoCopiesAreShared
      <4>9. AloneIsExact'
        BY <4>2, <4>3, <4>4 DEF CounterInv, AloneIsExact, There
      <4> QED
        BY <4>5, <4>6, <4>7, <4>8, <4>9 DEF CounterInv
    <3> QED
      BY <3>4, <3>5
  <2>10. ASSUME NEW p \in Senders, ProviderAccepts(p) PROVE CounterInv'
    <3> DEFINE id == sender[p].copy.id
    <3>1. sender[p] \in SenderRecords
      BY <2>10, AtWork, WorkingSender DEF ProviderAccepts, Holding
    <3>2. /\ sender'[p] = [sender[p] EXCEPT !.at = "accepted"]
          /\ \A q \in Senders : q # p => sender'[q] = sender[q]
      BY <2>10 DEF ProviderAccepts, Become, SendTypeOK
    <3>3. sender'[p].at = "accepted" /\ sender'[p].copy = sender[p].copy /\ sender[p].at = "cleared"
      BY <2>10, <3>1, <3>2 DEF ProviderAccepts, At
    <3>4. \A q \in Senders, b \in Accounts : HasCopyOf(q, b)' =>
            HasCopyOf(q, b) /\ sender'[q].copy = sender[q].copy
      <4>1. sender[p] # Rest
        BY <3>3 DEF Rest
      <4> QED
        BY <3>2, <3>3, <4>1 DEF HasCopyOf
    <3>5. id \in Accounts /\ sender[p].copy \in Copies /\ HasCopyOf(p, id)
      BY <3>3 DEF CounterInv, ClearedHasCopy, Copies, HasCopyOf, Rest
    <3>6. /\ accepted'[id] = accepted[id] + 1
          /\ \A b \in Accounts : b # id => accepted'[b] = accepted[b]
          /\ \A b \in Accounts : accepted[b] \in Nat
      BY <2>10, <3>5 DEF ProviderAccepts, Count, SendTypeOK
    <3> HIDE DEF id
    <3>7. UNCHANGED <<account, recorded, shared, topLimit>>
      BY <2>10 DEF ProviderAccepts
    <3>8. \A b \in Accounts : accepted[b] <= accepted'[b] /\ accepted'[b] \in Nat
      BY <3>5, <3>6
    <3>9. CopiesFair'
      <4> SUFFICES ASSUME NEW q \in Senders, NEW b \in Accounts, HasCopyOf(q, b)'
                   PROVE  /\ sender[q].copy.sends <= accepted'[b]
                          /\ At(q, "accepted")' => sender[q].copy.sends + 1 <= accepted'[b]
                          /\ sender[q].copy.limit <= topLimit[b]
                          /\ sender'[q].at \in {"cleared", "accepted"} =>
                               sender[q].copy.sends < sender[q].copy.limit
        BY <3>4, <3>7 DEF CopiesFair
      <4>1. HasCopyOf(q, b) /\ sender[q].copy.sends \in Nat
        BY <3>4, CopyInHand
      <4>2. /\ sender[q].copy.sends <= accepted[b]
            /\ At(q, "accepted") => sender[q].copy.sends + 1 <= accepted[b]
            /\ sender[q].copy.limit <= topLimit[b]
            /\ sender[q].at \in {"cleared", "accepted"} => sender[q].copy.sends < sender[q].copy.limit
        BY <4>1 DEF CounterInv, CopiesFair
      <4>3. CASE q = p
        <5>1. b = id
          BY <4>1, <4>3 DEF HasCopyOf, id
        <5> QED
          BY <3>3, <3>6, <4>1, <4>2, <4>3, <5>1
      <4>4. CASE q # p
        BY <3>2, <3>6, <3>8, <4>1, <4>2, <4>4 DEF At
      <4> QED
        BY <4>3, <4>4
    <3>10. RowsFair' /\ FreshIsUnused'
      BY <3>6, <3>7, <3>8, RowInHand DEF CounterInv, RowsFair, FreshIsUnused, There
    <3>11. ClearedHasCopy'
      BY <3>2, <3>3, <3>5 DEF CounterInv, ClearedHasCopy
    <3>12. TwoCopiesAreShared'
      BY <3>4, <3>7 DEF CounterInv, TwoCopiesAreShared
    <3>13. AloneIsExact'
      BY <3>4, <3>7 DEF CounterInv, AloneIsExact, There
    <3> QED
      BY <3>9, <3>10, <3>11, <3>12, <3>13 DEF CounterInv
  <2>11. ASSUME NEW p \in Senders, ProviderUnauthorized(p) PROVE CounterInv'
    <3> DEFINE id == sender[p].copy.id
    <3>1. \A q \in Senders, b \in Accounts : HasCopyOf(q, b)' =>
            HasCopyOf(q, b) /\ q # p /\ sender'[q] = sender[q]
      BY <2>11 DEF ProviderUnauthorized, Release, SendTypeOK, HasCopyOf
    <3>2. \A q \in Senders : sender'[q].at \in Holding => q # p /\ sender'[q] = sender[q]
      BY <2>11 DEF ProviderUnauthorized, Release, SendTypeOK, Rest, Holding
    <3>3. id \in Accounts
      BY <2>11 DEF ProviderUnauthorized, At, CounterInv, ClearedHasCopy, Copies
    <3>4. \A b \in Accounts : There(b)' =>
            /\ There(b) /\ account'[b].sends = account[b].sends
            /\ account'[b].limit = account[b].limit
      <4>1. CASE There(id)
        <5>1. account' = [account EXCEPT ![id].health = "REVOKED"] /\ account[id] \in Rows
          BY <2>11, <3>3, <4>1, CopyOfRow DEF ProviderUnauthorized
        <5>2. /\ account'[id].sends = account[id].sends /\ account'[id].limit = account[id].limit
              /\ \A b \in Accounts : b # id => account'[b] = account[b]
          BY <3>3, <5>1 DEF SendTypeOK, Rows
        <5> HIDE DEF id
        <5> QED
          BY <4>1, <5>2 DEF There
      <4>2. CASE ~There(id)
        BY <2>11, <4>2 DEF ProviderUnauthorized, There
      <4> QED
        BY <4>1, <4>2
    <3> HIDE DEF id
    <3>5. UNCHANGED <<accepted, recorded, shared, topLimit>>
      BY <2>11 DEF ProviderUnauthorized, histVars
    <3>6. CopiesFair'
      BY <3>1, <3>2, <3>5 DEF CounterInv, CopiesFair, At, Holding
    <3>7. RowsFair' /\ FreshIsUnused'
      BY <3>4, <3>5 DEF CounterInv, RowsFair, FreshIsUnused
    <3>8. ClearedHasCopy' /\ TwoCopiesAreShared'
      BY <3>1, <3>2, <3>5 DEF CounterInv, ClearedHasCopy, TwoCopiesAreShared, Holding
    <3>9. AloneIsExact'
      BY <3>1, <3>4, <3>5 DEF CounterInv, AloneIsExact
    <3> QED
      BY <3>6, <3>7, <3>8, <3>9 DEF CounterInv
  <2>12. ASSUME NEW p \in Senders, RecordSent(p) PROVE CounterInv'
    <3> DEFINE id == sender[p].copy.id  copy == sender[p].copy
    <3>1. \A q \in Senders, b \in Accounts : HasCopyOf(q, b)' =>
            HasCopyOf(q, b) /\ q # p /\ sender'[q] = sender[q]
      BY <2>12 DEF RecordSent, Release, SendTypeOK, HasCopyOf
    <3>2. \A q \in Senders : sender'[q].at \in Holding => q # p /\ sender'[q] = sender[q]
      BY <2>12 DEF RecordSent, Release, SendTypeOK, Rest, Holding
    <3>3. copy \in Copies /\ id \in Accounts /\ copy.sends \in Nat /\ HasCopyOf(p, id)
      BY <2>12 DEF RecordSent, At, CounterInv, ClearedHasCopy, Copies, HasCopyOf, Rest
    <3>4. /\ copy.sends + 1 <= accepted[id]
          /\ copy.sends < copy.limit /\ copy.limit <= topLimit[id] /\ copy.limit \in Nat
      BY <2>12, <3>3, CopyInHand DEF RecordSent, At, CounterInv, CopiesFair
    <3>5. /\ account'[id].sends = copy.sends + 1 /\ account'[id].limit = account[id].limit
          /\ \A b \in Accounts : b # id => account'[b] = account[b]
      <4>1. account[id] \in Rows /\ account' = [account EXCEPT ![id].sends = copy.sends + 1]
        BY <2>12, <3>3, CopyOfRow DEF RecordSent, Counted
      <4> QED
        BY <3>3, <4>1 DEF SendTypeOK, Rows
    <3>6. /\ recorded'[id] = recorded[id] + 1 /\ recorded[id] \in Nat /\ topLimit[id] \in Nat
          /\ \A b \in Accounts : b # id => recorded'[b] = recorded[b]
      BY <2>12, <3>3, RowInHand DEF RecordSent, Count, SendTypeOK
    <3>7. UNCHANGED <<accepted, shared, topLimit>> /\ There(id)
      BY <2>12 DEF RecordSent
    <3>8. id \notin shared =>
            /\ copy.sends = recorded[id]
            /\ \A q \in Senders : q # p => ~HasCopyOf(q, id)
      BY <3>3, <3>7 DEF CounterInv, AloneIsExact, TwoCopiesAreShared
    <3> HIDE DEF id, copy
    <3>9. CopiesFair'
      BY <3>1, <3>2, <3>7 DEF CounterInv, CopiesFair, At, Holding
    <3>10. RowsFair'
      BY <3>4, <3>5, <3>7 DEF CounterInv, RowsFair, There
    <3>11. FreshIsUnused'
      BY <3>4, <3>3, <3>6, <3>7 DEF CounterInv, FreshIsUnused
    <3>12. ClearedHasCopy' /\ TwoCopiesAreShared'
      BY <3>1, <3>2, <3>7 DEF CounterInv, ClearedHasCopy, TwoCopiesAreShared, Holding
    <3>13. AloneIsExact'
      <4> SUFFICES ASSUME NEW b \in Accounts, b \notin shared
                   PROVE  /\ recorded'[b] <= topLimit[b]
                          /\ There(b)' => account'[b].sends = recorded'[b]
                          /\ \A q \in Senders : There(b)' /\ HasCopyOf(q, b)' =>
                               sender'[q].copy.sends = recorded'[b]
        BY <3>7 DEF AloneIsExact
      <4>1. CASE b = id
        BY <3>1, <3>3, <3>4, <3>5, <3>6, <3>8, <4>1
      <4>2. CASE b # id
        BY <3>1, <3>5, <3>6, <4>2 DEF CounterInv, AloneIsExact, There
      <4> QED
        BY <4>1, <4>2
    <3> QED
      BY <3>9, <3>10, <3>11, <3>12, <3>13 DEF CounterInv
  <2>13. ASSUME NEW p \in Senders,
                \/ LockBusy(p) \/ AbortSuppressed(p) \/ ProviderFails(p)
                \/ RecordLost(p) \/ SenderDies(p) \/ \E a \in Accounts : RefuseAccount(p, a)
         PROVE CounterInv'
    BY <2>13, ForgettingIsFair
    DEF LockBusy, AbortSuppressed, ProviderFails, RecordLost, SenderDies, RefuseAccount, histVars
  <2>14. CASE UNCHANGED sendVars
    BY <2>4, <2>14 DEF sendVars
  <2> QED
    BY <2>1, <2>2, <2>3, <2>5, <2>6, <2>7, <2>8, <2>9, <2>10, <2>11, <2>12, <2>13, <2>14,
       <2>15
    DEF SendNext, Dispatch
<1> QED
  BY <1>1, <1>2, SendTypeCorrect, PTL DEF SendSpec

\* The counter never runs ahead of the provider, and counts what was recorded as long as
\* the row was not shared: for every number of accounts, senders and recipients.
THEOREM CounterFair == SendSpec => []CounterIsFair
<1>1. SendTypeOK /\ CounterInv => CounterIsFair
  BY DEF CounterInv, RowsFair, AloneIsExact, CounterIsFair
<1> QED
  BY <1>1, SendTypeCorrect, CounterInvHolds, PTL

\* What one sender at a time records stays under the highest limit the account has had.
THEOREM LimitHolds == SendSpec => []LimitHeldAlone
<1>1. CounterInv => LimitHeldAlone
  BY DEF CounterInv, AloneIsExact, LimitHeldAlone
<1> QED
  BY <1>1, CounterInvHolds, PTL

-----------------------------------------------------------------------------
(* A revoked mailbox.                                                        *)

\* Only a PATCH takes a mailbox out of REVOKED: the sends that end after the revocation
\* write their counter and not the health they had read.
THEOREM RevokedStays == SendSpec => RevokedUntilPatched
<1> DEFINE Revives(a) ==
      There(a) /\ account[a].health = "REVOKED" /\ There(a)' /\ account'[a].health # "REVOKED"
<1>1. ASSUME SendTypeOK, [SendNext]_sendVars, NEW a \in Accounts, Revives(a)
      PROVE  \E limit \in Limits, health \in MailboxHealthStatus : UpdateAccount(a, limit, health)
  <2>1. account' # account /\ account[a] \in Rows
    BY <1>1, CopyOfRow
  <2>2. ASSUME NEW b \in Accounts, NEW limit \in Limits, ConnectAccount(b, limit) PROVE FALSE
    BY <1>1, <2>1, <2>2 DEF ConnectAccount, There, SendTypeOK
  <2>3. ASSUME NEW b \in Accounts, DisconnectAccount(b) PROVE FALSE
    BY <1>1, <2>1, <2>3 DEF DisconnectAccount, There, SendTypeOK
  <2>4. ASSUME NEW b \in Accounts, NEW limit \in Limits, NEW health \in MailboxHealthStatus,
               UpdateAccount(b, limit, health)
        PROVE  b = a
    BY <1>1, <2>1, <2>4 DEF UpdateAccount, There, SendTypeOK
  <2>5. ASSUME NEW p \in Senders, ProviderUnauthorized(p) PROVE FALSE
    <3> DEFINE id == sender[p].copy.id
    <3>1. account' = [account EXCEPT ![id].health = "REVOKED"]
      BY <2>1, <2>5 DEF ProviderUnauthorized
    <3>2. account'[a] = IF a = id THEN [account[a] EXCEPT !.health = "REVOKED"] ELSE account[a]
      BY <1>1, <3>1 DEF SendTypeOK
    <3>3. [account[a] EXCEPT !.health = "REVOKED"].health = "REVOKED"
      BY <2>1 DEF Rows
    <3> QED
      BY <1>1, <3>2, <3>3
  <2>6. ASSUME NEW p \in Senders, RecordSent(p) PROVE FALSE
    <3> DEFINE copy == sender[p].copy
    <3>1. account' = [account EXCEPT ![copy.id].sends = copy.sends + 1]
      BY <2>6 DEF RecordSent, Counted
    <3>2. account'[a] = IF a = copy.id THEN [account[a] EXCEPT !.sends = copy.sends + 1] ELSE account[a]
      BY <1>1, <3>1 DEF SendTypeOK
    <3>3. [account[a] EXCEPT !.sends = copy.sends + 1].health = account[a].health
      BY <2>1 DEF Rows
    <3> QED
      BY <1>1, <3>2, <3>3
  <2>7. ASSUME UNCHANGED account PROVE FALSE
    BY <2>1, <2>7
  <2>8. sendVars' # sendVars
    BY <2>1 DEF sendVars
  <2>9. SendNext
    BY <1>1, <2>8
  <2>10. \A p \in Senders : ~Dispatch(p)
    BY <2>5, <2>6, <2>7
    DEF Dispatch, TakeSendLock, EnterUnlocked, LockLapses, LockBusy, CheckSuppression, AbortSuppressed,
        CheckAccount, RefuseAccount, ProviderAccepts, ProviderFails, RecordLost, SenderDies
  <2>11. \E b \in Accounts, limit \in Limits, health \in MailboxHealthStatus :
           UpdateAccount(b, limit, health)
    BY <2>2, <2>3, <2>7, <2>9, <2>10 DEF SendNext, AddSuppression, DeleteSuppression, PickMailbox
  <2> QED
    BY <2>4, <2>11
<1>2. SendTypeOK /\ [SendNext]_sendVars =>
        [\A a \in Accounts : Revives(a) =>
           \E limit \in Limits, health \in MailboxHealthStatus : UpdateAccount(a, limit, health)]_sendVars
  BY <1>1
<1> QED
  BY <1>2, SendTypeCorrect, PTL DEF SendSpec, RevokedUntilPatched

-----------------------------------------------------------------------------
(* The outbox of a lock key.                                                 *)

\* What the steps of a sender do to its key and its lock.
LEMMA TakesLock ==
  ASSUME SendTypeOK, NEW p \in Senders, NEW key \in Keys, TakeSendLock(p, key)
  PROVE  /\ ~Sending(p) /\ sender'[p].at = "locked" /\ sender'[p].key = key /\ sender'[p].lock = "held"
         /\ \A q \in Senders : q # p => sender'[q] = sender[q]
<1>1. CASE p \in PickEarly
  <2>1. /\ Working(p) /\ sender[p].key = key /\ sender[p].at = "picked"
        /\ sender'[p] = [sender[p] EXCEPT !.at = "locked", !.lock = "held"]
        /\ \A q \in Senders : q # p => sender'[q] = sender[q]
    BY <1>1, AtWork DEF TakeSendLock, EnterUnlocked, SendTypeOK, At
  <2>2. sender[p] \in SenderRecords
    BY <2>1, WorkingSender
  <2>3. sender'[p].at = "locked" /\ sender'[p].key = key /\ sender'[p].lock = "held"
    BY <2>1, <2>2
  <2> QED
    BY <2>1, <2>3 DEF Sending, Holding
<1>2. CASE p \notin PickEarly
  BY <1>2 DEF TakeSendLock, EnterUnlocked, SendTypeOK, Rest, Holding, Sending
<1> QED
  BY <1>1, <1>2

\* It goes on, with its key and its lock.
Keeps(p) ==
  /\ sender'[p].key = sender[p].key /\ sender'[p].lock = sender[p].lock
  /\ \A q \in Senders : q # p => sender'[q] = sender[q]

LEMMA MovesOn ==
  ASSUME SendTypeOK, NEW p \in Senders, NEW where \in Holding, At(p, where),
         NEW there \in Holding, Become(p, there)
  PROVE  sender'[p].at = there /\ sender[p].key \in Keys /\ Keeps(p)
<1>1. sender[p] \in SenderRecords
  BY AtWork, WorkingSender
<1>2. sender'[p] = [sender[p] EXCEPT !.at = there]
  BY DEF Become, SendTypeOK
<1>3. /\ sender'[p].at = there /\ sender[p].key \in Keys
      /\ sender'[p].key = sender[p].key /\ sender'[p].lock = sender[p].lock
  BY <1>1, <1>2
<1> QED
  BY <1>3 DEF Become, SendTypeOK, Keeps

LEMMA IsCleared ==
  ASSUME SendTypeOK, NEW p \in Senders, NEW a \in Accounts, CheckAccount(p, a)
  PROVE  sender[p].at = "checked" /\ sender'[p].at = "cleared" /\ Keeps(p)
<1>1. sender[p] \in SenderRecords
  BY AtWork, WorkingSender DEF CheckAccount, Holding
<1>2. /\ sender'[p] = [sender[p] EXCEPT !.at = "cleared", !.copy = Reread(p, a)]
      /\ \A q \in Senders : q # p => sender'[q] = sender[q]
  BY DEF CheckAccount, SendTypeOK
<1>3. /\ sender'[p].at = "cleared"
      /\ sender'[p].key = sender[p].key /\ sender'[p].lock = sender[p].lock
  BY <1>1, <1>2
<1> QED
  BY <1>2, <1>3 DEF CheckAccount, At, Keeps

LEMMA Lapses ==
  ASSUME SendTypeOK, NEW p \in Senders, LockLapses(p)
  PROVE  /\ Sending(p) /\ sender[p].key \in Keys /\ lapsed' = lapsed \cup {sender[p].key}
         /\ sender'[p].at = sender[p].at /\ sender'[p].key = sender[p].key
         /\ \A q \in Senders : q # p => sender'[q] = sender[q]
<1>1. Sending(p) /\ Working(p)
  BY DEF LockLapses, Holds, Sending, Working, Rest, Holding
<1>2. sender[p] \in SenderRecords
  BY <1>1, WorkingSender
<1>3. /\ sender'[p] = [sender[p] EXCEPT !.lock = "free"]
      /\ \A q \in Senders : q # p => sender'[q] = sender[q]
  BY DEF LockLapses, SendTypeOK
<1>4. sender'[p].at = sender[p].at /\ sender'[p].key = sender[p].key /\ sender[p].key \in Keys
  BY <1>2, <1>3
<1> QED
  BY <1>1, <1>3, <1>4 DEF LockLapses

LEMMA LetsGoOf ==
  ASSUME SendTypeOK, NEW p \in Senders, Release(p)
  PROVE  ~Sending(p)' /\ sender'[p].at = "rest" /\ \A q \in Senders : q # p => sender'[q] = sender[q]
<1>1. sender'[p] = Rest /\ \A q \in Senders : q # p => sender'[q] = sender[q]
  BY DEF Release, SendTypeOK
<1> QED
  BY <1>1 DEF Rest, Sending, Holding

\* Until a key's lock lapses, whoever dispatches under the key holds its lock, and is
\* the only one to dispatch under it.
OneHolder ==
  \A p \in Senders : Sending(p) /\ sender[p].key \notin lapsed =>
    /\ Holds(p)
    /\ \A q \in Senders : Sending(q) /\ sender[q].key = sender[p].key => q = p

THEOREM OneHolderHolds == SendSpec => []OneHolder
<1>1. SendInit => OneHolder
  BY DEF SendInit, OneHolder, Sending, Rest, Holding
<1>2. SendTypeOK /\ OneHolder /\ [SendNext]_sendVars => OneHolder'
  <2> SUFFICES ASSUME SendTypeOK, OneHolder, [SendNext]_sendVars PROVE OneHolder'
    OBVIOUS
  <2>1. ASSUME NEW p \in Senders, NEW key \in Keys, TakeSendLock(p, key) PROVE OneHolder'
    <3>1. /\ sender'[p].at = "locked" /\ sender'[p].key = key /\ sender'[p].lock = "held"
          /\ \A q \in Senders : q # p => sender'[q] = sender[q]
      BY <2>1, TakesLock
    <3>2. LockFree(key) /\ UNCHANGED lapsed
      BY <2>1 DEF TakeSendLock, EnterUnlocked, histVars
    <3>3. key \notin lapsed => \A q \in Senders : Sending(q) => sender[q].key # key
      BY <3>2 DEF LockFree, OneHolder
    <3> QED
      BY <3>1, <3>2, <3>3 DEF OneHolder, Sending, Holds
  <2>2. ASSUME NEW p \in Senders, Keeps(p), Sending(p), UNCHANGED lapsed
        PROVE  OneHolder'
    BY <2>2 DEF OneHolder, Keeps, Sending, Holds
  <2>3. ASSUME NEW p \in Senders, ~Sending(p)', \A q \in Senders : q # p => sender'[q] = sender[q],
               UNCHANGED lapsed
        PROVE  OneHolder'
    BY <2>3 DEF OneHolder, Sending, Holds
  <2>4. ASSUME NEW p \in Senders, LockLapses(p) PROVE OneHolder'
    BY <2>4, Lapses DEF OneHolder, Sending, Holds
  <2>5. ASSUME NEW p \in Senders, NEW a \in Accounts, CheckAccount(p, a) PROVE OneHolder'
    BY <2>2, <2>5, IsCleared DEF Holding, Sending, CheckAccount
  <2>6. ASSUME NEW p \in Senders, NEW r \in Recipients, NEW a \in Accounts, PickMailbox(p, r, a)
        PROVE OneHolder'
    <3>1. sender'[p].at = "picked" /\ \A q \in Senders : q # p => sender'[q] = sender[q]
      BY <2>6 DEF PickMailbox, SendTypeOK
    <3> QED
      BY <2>3, <2>6, <3>1 DEF Holding, Sending, PickMailbox
  <2>7. ASSUME UNCHANGED <<sender, lapsed>> PROVE OneHolder'
    BY <2>7 DEF OneHolder, Sending, Holds
  <2>8. ASSUME NEW p \in Senders, Dispatch(p) PROVE OneHolder'
    <3>1. CASE CheckSuppression(p) \/ ProviderAccepts(p)
      BY <3>1, <2>2, MovesOn DEF CheckSuppression, ProviderAccepts, Holding, Sending, At, histVars
    <3>2. CASE \/ LockBusy(p) \/ AbortSuppressed(p) \/ ProviderFails(p) \/ ProviderUnauthorized(p)
               \/ RecordSent(p) \/ RecordLost(p) \/ SenderDies(p)
               \/ \E a \in Accounts : RefuseAccount(p, a)
      <4>1. Release(p) /\ UNCHANGED lapsed
        BY <3>2 DEF LockBusy, AbortSuppressed, ProviderFails, ProviderUnauthorized, RecordSent,
                    RecordLost, SenderDies, RefuseAccount, histVars
      <4> QED
        BY <2>3, <4>1, LetsGoOf
    <3> QED
      BY <2>1, <2>4, <2>5, <2>8, <3>1, <3>2 DEF Dispatch
  <2> QED
    BY <2>6, <2>7, <2>8
    DEF SendNext, ConnectAccount, UpdateAccount, DisconnectAccount, AddSuppression, DeleteSuppression,
        sendVars, histVars
<1> QED
  BY <1>1, <1>2, SendTypeCorrect, PTL DEF SendSpec

\* A key's outbox, told by the one sender that dispatches under it.
BoxFits ==
  /\ \A key \in lapsed : OutboxOf(key) = "lapsed"
  /\ \A p \in Senders : Sending(p) /\ sender[p].key \notin lapsed =>
       OutboxOf(sender[p].key) = IF At(p, "accepted") THEN "delivered" ELSE "held"
  /\ \A key : key \notin lapsed /\ (\A p \in Senders : Sending(p) => sender[p].key # key)
       => OutboxOf(key) = "free"

LEMMA BoxFitsHolder == OneHolder => BoxFits
<1> SUFFICES ASSUME OneHolder PROVE BoxFits
  OBVIOUS
<1>1. ASSUME NEW p \in Senders, Sending(p), sender[p].key \notin lapsed
      PROVE  OutboxOf(sender[p].key) = IF At(p, "accepted") THEN "delivered" ELSE "held"
  <2> DEFINE key == sender[p].key
  <2>1. \A q \in Senders : Sending(q) /\ sender[q].key = key => q = p
    BY <1>1 DEF OneHolder
  <2>2. \A q \in Senders : At(q, "accepted") => Sending(q)
    BY DEF At, Sending, Holding
  <2>3. key \notin lapsed /\ key = sender[p].key
    BY <1>1
  <2> HIDE DEF key
  <2>4. CASE At(p, "accepted")
    <3>1. \E q \in Senders : At(q, "accepted") /\ sender[q].key = key
      BY <2>3, <2>4
    <3>2. ~\E q \in Senders : Sending(q) /\ ~At(q, "accepted") /\ sender[q].key = key
      BY <2>1, <2>4
    <3>3. OutboxOf(key) = "delivered"
      BY <2>3, <3>1, <3>2 DEF OutboxOf
    <3> QED
      BY <2>3, <2>4, <3>3
  <2>5. CASE ~At(p, "accepted")
    <3>1. ~\E q \in Senders : At(q, "accepted") /\ sender[q].key = key
      BY <2>1, <2>2, <2>5
    <3>2. OutboxOf(key) = "held"
      BY <1>1, <2>3, <2>5, <3>1 DEF OutboxOf
    <3> QED
      BY <2>3, <2>5, <3>2
  <2> QED
    BY <2>4, <2>5
<1>2. ASSUME NEW key, key \notin lapsed, \A p \in Senders : Sending(p) => sender[p].key # key
      PROVE  OutboxOf(key) = "free"
  BY <1>2 DEF OutboxOf, Sending, Holding, At
<1>3. ASSUME NEW key \in lapsed PROVE OutboxOf(key) = "lapsed"
  BY <1>3 DEF OutboxOf
<1> QED
  BY <1>1, <1>2, <1>3 DEF BoxFits

box == [key \in Keys |-> OutboxOf(key)]

\* A sender's step changes the outbox of its key and no other.
LEMMA OtherBoxes ==
  ASSUME BoxFits, BoxFits', NEW p \in Senders, NEW key \in Keys,
         \A q \in Senders : q # p => sender'[q] = sender[q],
         Sending(p) => sender[p].key = key,
         Sending(p)' => sender'[p].key = key,
         lapsed' \in {lapsed, lapsed \cup {key}}
  PROVE  box' = [box EXCEPT ![key] = OutboxOf(key)']
<1>1. ASSUME NEW other \in Keys, other # key PROVE OutboxOf(other)' = OutboxOf(other)
  <2>1. CASE other \in lapsed
    BY <2>1 DEF BoxFits
  <2>2. CASE other \notin lapsed /\ \A q \in Senders : Sending(q) => sender[q].key # other
    <3>1. other \notin lapsed' /\ \A q \in Senders : Sending(q)' => sender'[q].key # other
      BY <1>1, <2>2 DEF Sending
    <3> QED
      BY <2>2, <3>1 DEF BoxFits
  <2>3. CASE other \notin lapsed /\ \E q \in Senders : Sending(q) /\ sender[q].key = other
    <3>1. PICK q \in Senders : Sending(q) /\ sender[q].key = other
      BY <2>3
    <3>2. sender'[q] = sender[q] /\ other \notin lapsed'
      BY <1>1, <2>3, <3>1
    <3> QED
      BY <2>3, <3>1, <3>2 DEF BoxFits, At, Sending
  <2> QED
    BY <2>1, <2>2, <2>3
<1> QED
  BY <1>1 DEF box

\* A step that leaves under every key the same sender, as far along, leaves every outbox
\* as it is.
LEMMA SameBoxes ==
  ASSUME BoxFits, BoxFits', NEW p \in Senders, UNCHANGED lapsed,
         \A q \in Senders : q # p => sender'[q] = sender[q],
         \/ ~Sending(p) /\ ~Sending(p)'
         \/ /\ {sender[p].at, sender'[p].at} \subseteq Holding \ {"accepted"}
            /\ sender'[p].key = sender[p].key
  PROVE  box' = box
<1>1. ASSUME NEW key \in Keys PROVE OutboxOf(key)' = OutboxOf(key)
  <2>1. CASE key \in lapsed
    BY <2>1 DEF BoxFits
  <2>2. CASE key \notin lapsed /\ \A q \in Senders : Sending(q) => sender[q].key # key
    <3>1. \A q \in Senders : Sending(q)' => sender'[q].key # key
      BY <2>2 DEF Sending
    <3> QED
      BY <2>2, <3>1 DEF BoxFits
  <2>3. CASE key \notin lapsed /\ \E q \in Senders : Sending(q) /\ sender[q].key = key
    <3>1. PICK q \in Senders : Sending(q) /\ sender[q].key = key
      BY <2>3
    <3>2. Sending(q)' /\ sender'[q].key = key /\ (At(q, "accepted")' <=> At(q, "accepted"))
      BY <3>1 DEF At, Sending
    <3> QED
      BY <2>3, <3>1, <3>2 DEF BoxFits
  <2> QED
    BY <2>1, <2>2, <2>3
<1> QED
  BY <1>1 DEF box

\* The sender that dispatches under a key lets go.
LEMMA LetsGo ==
  ASSUME OneHolder, BoxFits, BoxFits', NEW p \in Senders, Sending(p), UNCHANGED lapsed,
         NEW key \in Keys, sender[p].key = key, key \notin lapsed, ~Sending(p)',
         \A q \in Senders : q # p => sender'[q] = sender[q]
  PROVE  /\ OutboxOf(key) = IF At(p, "accepted") THEN "delivered" ELSE "held"
         /\ box' = [box EXCEPT ![key] = "free"]
<1>1. \A q \in Senders : Sending(q)' => sender'[q].key # key
  BY DEF OneHolder, Sending
<1>2. OutboxOf(key)' = "free"
  BY <1>1 DEF BoxFits
<1>3. box' = [box EXCEPT ![key] = OutboxOf(key)']
  BY OtherBoxes
<1> QED
  BY <1>2, <1>3 DEF BoxFits

\* Under a key whose lock has lapsed, nothing shows in the outbox.
LEMMA StraysOn ==
  ASSUME BoxFits, BoxFits', NEW p \in Senders, UNCHANGED lapsed,
         NEW key \in Keys, sender[p].key = key, key \in lapsed,
         Sending(p)' => sender'[p].key = key,
         \A q \in Senders : q # p => sender'[q] = sender[q]
  PROVE  box' = box /\ box[key] = "lapsed"
<1>1. OutboxOf(key) = "lapsed" /\ OutboxOf(key)' = "lapsed"
  BY DEF BoxFits
<1>2. box' = [box EXCEPT ![key] = OutboxOf(key)']
  BY OtherBoxes
<1> QED
  BY <1>1, <1>2 DEF box

\* Every run of the send service, whatever fails, is a run of the outbox.
THEOREM ServiceKeepsOutbox == SendSpec => KeepsOutbox
<1>1. SendInit => Outbox!OutboxInit
  BY DEF SendInit, Outbox!OutboxInit, OutboxOf, Sending, At, Rest, Holding
<1>2. SendTypeOK /\ OneHolder /\ BoxFits /\ BoxFits' /\ [SendNext]_sendVars
        => [Outbox!OutboxNext]_<<box, handed, messages>>
  <2> DEFINE Simulated == [Outbox!OutboxNext]_<<box, handed, messages>>
  <2> SUFFICES ASSUME SendTypeOK, OneHolder, BoxFits, BoxFits', [SendNext]_sendVars
               PROVE  Simulated
    OBVIOUS
  <2>1. ASSUME UNCHANGED <<sender, lapsed, handed, messages>>
        PROVE  UNCHANGED <<box, handed, messages>>
    BY <2>1 DEF box, OutboxOf, At, Sending
  <2>2. ASSUME NEW p \in Senders, NEW r \in Recipients, NEW a \in Accounts, PickMailbox(p, r, a)
        PROVE  UNCHANGED <<box, handed, messages>>
    <3>1. /\ ~Sending(p) /\ ~Sending(p)'
          /\ \A q \in Senders : q # p => sender'[q] = sender[q]
      BY <2>2 DEF PickMailbox, SendTypeOK, Rest, Holding, Sending
    <3> QED
      BY <2>2, <3>1, SameBoxes DEF PickMailbox
  <2>3. ASSUME NEW p \in Senders, NEW key \in Keys, TakeSendLock(p, key)
        PROVE  Outbox!Hold(key) \/ UNCHANGED <<box, handed, messages>>
    <3>1. /\ ~Sending(p) /\ sender'[p].at = "locked" /\ sender'[p].key = key
          /\ \A q \in Senders : q # p => sender'[q] = sender[q]
      BY <2>3, TakesLock
    <3>2. LockFree(key) /\ UNCHANGED <<handed, messages, lapsed>>
      BY <2>3 DEF TakeSendLock, EnterUnlocked, histVars
    <3>3. CASE key \in lapsed
      <4>1. OutboxOf(key)' = OutboxOf(key)
        BY <3>2, <3>3 DEF BoxFits
      <4>2. box' = [box EXCEPT ![key] = OutboxOf(key)']
        BY <3>1, <3>2, OtherBoxes
      <4> QED
        BY <3>2, <4>1, <4>2 DEF box
    <3>4. CASE key \notin lapsed
      <4>1. OutboxOf(key) = "free"
        BY <3>2, <3>4 DEF BoxFits, LockFree, OneHolder
      <4>2. OutboxOf(key)' = "held"
        BY <3>1, <3>2, <3>4 DEF BoxFits, At, Holding, Sending
      <4>3. box' = [box EXCEPT ![key] = "held"]
        BY <3>1, <3>2, <4>2, OtherBoxes
      <4> QED
        BY <3>2, <4>1, <4>3 DEF Outbox!Hold, Outbox!Change, box
    <3> QED
      BY <3>3, <3>4
  <2>4. ASSUME NEW p \in Senders, CheckSuppression(p) \/ \E a \in Accounts : CheckAccount(p, a)
        PROVE  UNCHANGED <<box, handed, messages>>
    <3>1. {sender[p].at, sender'[p].at} \subseteq Holding \ {"accepted"} /\ Keeps(p)
      BY <2>4, IsCleared, MovesOn DEF CheckSuppression, At, Holding
    <3>2. UNCHANGED <<handed, messages, lapsed>>
      BY <2>4 DEF CheckSuppression, CheckAccount, histVars
    <3> QED
      BY <3>1, <3>2, SameBoxes DEF Keeps
  <2>5. ASSUME NEW p \in Senders, ProviderAccepts(p)
        PROVE  Outbox!Deliver(sender[p].key) \/ Outbox!Stray(sender[p].key)
    <3>1. sender[p].at = "cleared" /\ sender'[p].at = "accepted" /\ Keeps(p) /\ sender[p].key \in Keys
      BY <2>5, MovesOn DEF ProviderAccepts, At, Holding
    <3> PICK key \in Keys : key = sender[p].key
      BY <3>1
    <3>2. handed' = [handed EXCEPT ![key] = @ + 1] /\ UNCHANGED <<messages, lapsed>>
      BY <2>5 DEF ProviderAccepts, Count
    <3>3. Sending(p) /\ Sending(p)' /\ ~At(p, "accepted") /\ At(p, "accepted")'
      BY <3>1 DEF Sending, At, Holding
    <3>4. sender[p].key = key /\ sender'[p].key = key
      BY <3>1 DEF Keeps
    <3>5. CASE key \in lapsed
      <4>1. box' = box /\ box[key] = "lapsed"
        BY <3>1, <3>2, <3>3, <3>4, <3>5, StraysOn DEF Keeps
      <4> QED
        BY <3>2, <3>4, <4>1 DEF Outbox!Stray, Outbox!OneMore, box
    <3>6. CASE key \notin lapsed
      <4>1. OutboxOf(key) = "held" /\ OutboxOf(key)' = "delivered"
        BY <3>2, <3>3, <3>4, <3>6 DEF BoxFits
      <4>2. box' = [box EXCEPT ![key] = "delivered"]
        BY <3>1, <3>2, <3>4, <4>1, OtherBoxes DEF Keeps
      <4> QED
        BY <3>1, <3>2, <3>4, <4>1, <4>2 DEF Outbox!Deliver, Outbox!Change, Outbox!OneMore, box
    <3> QED
      BY <3>5, <3>6
  <2>6. ASSUME NEW p \in Senders, RecordSent(p)
        PROVE  Outbox!File(sender[p].key) \/ Outbox!Stray(sender[p].key)
    <3>1. Sending(p) /\ At(p, "accepted") /\ sender[p].key \in Keys /\ Release(p)
      BY <2>6, AtWork, WorkingSender DEF RecordSent, At, Holding, Sending
    <3> PICK key \in Keys : key = sender[p].key
      BY <3>1
    <3>2. messages' = [messages EXCEPT ![key] = @ + 1] /\ UNCHANGED <<handed, lapsed>>
      BY <2>6 DEF RecordSent, Count
    <3>3. ~Sending(p)' /\ \A q \in Senders : q # p => sender'[q] = sender[q]
      BY <3>1, LetsGoOf
    <3>4. sender[p].key = key
      OBVIOUS
    <3>5. CASE key \in lapsed
      <4>1. box' = box /\ box[key] = "lapsed"
        BY <3>1, <3>2, <3>3, <3>4, <3>5, StraysOn
      <4> QED
        BY <3>2, <3>4, <4>1 DEF Outbox!Stray, Outbox!OneMore, box
    <3>6. CASE key \notin lapsed
      <4>1. OutboxOf(key) = "delivered" /\ box' = [box EXCEPT ![key] = "free"]
        BY <3>1, <3>2, <3>3, <3>4, <3>6, LetsGo
      <4> QED
        BY <3>1, <3>2, <3>4, <4>1 DEF Outbox!File, Outbox!Change, Outbox!OneMore, box
    <3> QED
      BY <3>5, <3>6
  <2>7. ASSUME NEW p \in Senders, Release(p), UNCHANGED <<handed, messages, lapsed>>, Working(p)
        PROVE  Outbox!GiveUp(sender[p].key) \/ UNCHANGED <<box, handed, messages>>
    <3>1. /\ ~Sending(p)' /\ sender[p].key \in Keys
          /\ \A q \in Senders : q # p => sender'[q] = sender[q]
      BY <2>7, WorkingSender, LetsGoOf
    <3>2. CASE ~Sending(p)
      BY <2>7, <3>1, <3>2, SameBoxes
    <3>3. CASE Sending(p) /\ sender[p].key \in lapsed
      BY <2>7, <3>1, <3>3, StraysOn
    <3>4. CASE Sending(p) /\ sender[p].key \notin lapsed
      <4> DEFINE key == sender[p].key
      <4>1. OutboxOf(key) \in {"held", "delivered"} /\ box' = [box EXCEPT ![key] = "free"]
        BY <2>7, <3>1, <3>4, LetsGo
      <4>2. key \in Keys
        BY <3>1
      <4> HIDE DEF key
      <4>3. Outbox!GiveUp(key)
        BY <2>7, <4>1, <4>2 DEF Outbox!GiveUp, Outbox!Change, box
      <4> QED
        BY <4>3 DEF key
    <3> QED
      BY <3>2, <3>3, <3>4
  <2>8. ASSUME NEW p \in Senders,
               \/ LockBusy(p) \/ AbortSuppressed(p) \/ ProviderFails(p) \/ ProviderUnauthorized(p)
               \/ RecordLost(p) \/ SenderDies(p) \/ \E a \in Accounts : RefuseAccount(p, a)
        PROVE  Release(p) /\ UNCHANGED <<handed, messages, lapsed>> /\ Working(p)
    BY <2>8, AtWork
    DEF LockBusy, AbortSuppressed, ProviderFails, ProviderUnauthorized, RecordLost, SenderDies,
        RefuseAccount, histVars, Holding, Working
  <2>9. CASE UNCHANGED sendVars
    BY <2>1, <2>9 DEF sendVars
  <2>10. ASSUME NEW p \in Senders, LockLapses(p)
         PROVE  Outbox!Lapse(sender[p].key) \/ UNCHANGED <<box, handed, messages>>
    <3> PICK key \in Keys : key = sender[p].key
      BY <2>10, Lapses
    <3>1. /\ Sending(p) /\ lapsed' = lapsed \cup {key}
          /\ sender'[p].key = key /\ \A q \in Senders : q # p => sender'[q] = sender[q]
      BY <2>10, Lapses
    <3>2. UNCHANGED <<handed, messages>>
      BY <2>10 DEF LockLapses
    <3>3. sender[p].key = key
      OBVIOUS
    <3>4. OutboxOf(key)' = "lapsed"
      BY <3>1 DEF BoxFits
    <3>5. box' = [box EXCEPT ![key] = "lapsed"]
      BY <3>1, <3>3, <3>4, OtherBoxes
    <3>6. OutboxOf(key) \in {"held", "delivered", "lapsed"}
      BY <3>1, <3>3 DEF BoxFits
    <3> QED
      BY <3>1, <3>2, <3>3, <3>5, <3>6 DEF Outbox!Lapse, Outbox!Change, box
  <2>11. ASSUME NEW p \in Senders, Dispatch(p) PROVE Simulated
    <3>1. \A key \in Keys :
            (\/ Outbox!Hold(key) \/ Outbox!Deliver(key) \/ Outbox!File(key) \/ Outbox!GiveUp(key)
             \/ Outbox!Lapse(key) \/ Outbox!Stray(key))
              => Outbox!OutboxNext
      BY DEF Outbox!OutboxNext
    <3>2. CASE ProviderAccepts(p) \/ RecordSent(p)
      <4>1. sender[p].key \in Keys
        BY <3>2, AtWork, WorkingSender DEF ProviderAccepts, RecordSent, Holding
      <4> QED
        BY <2>5, <2>6, <3>1, <3>2, <4>1
    <3>3. CASE \/ LockBusy(p) \/ AbortSuppressed(p) \/ ProviderFails(p) \/ ProviderUnauthorized(p)
               \/ RecordLost(p) \/ SenderDies(p) \/ \E a \in Accounts : RefuseAccount(p, a)
      <4>1. sender[p].key \in Keys
        BY <2>8, <3>3, WorkingSender
      <4> QED
        BY <2>7, <2>8, <3>1, <3>3, <4>1
    <3>4. CASE LockLapses(p)
      <4>1. sender[p].key \in Keys
        BY <3>4, Lapses
      <4> QED
        BY <2>10, <3>1, <3>4, <4>1
    <3> QED
      BY <2>3, <2>4, <2>11, <3>1, <3>2, <3>3, <3>4 DEF Dispatch
  <2>12. CASE \/ \E a \in Accounts, limit \in Limits : ConnectAccount(a, limit)
              \/ \E a \in Accounts, limit \in Limits, health \in MailboxHealthStatus :
                   UpdateAccount(a, limit, health)
              \/ \E a \in Accounts : DisconnectAccount(a)
              \/ \E r \in Recipients, kind \in {"email", "domain"} :
                   AddSuppression(r, kind) \/ DeleteSuppression(r, kind)
    BY <2>1, <2>12 DEF ConnectAccount, UpdateAccount, DisconnectAccount, AddSuppression,
                       DeleteSuppression, histVars
  <2> QED
    BY <2>2, <2>9, <2>11, <2>12 DEF SendNext
<1>3. OneHolder => BoxFits
  BY BoxFitsHolder
<1> QED
  BY <1>1, <1>2, <1>3, SendTypeCorrect, OneHolderHolds, PTL
  DEF SendSpec, KeepsOutbox, Outbox!OutboxSpec, Outbox!outboxVars, box
=============================================================================
