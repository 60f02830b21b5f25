------------------------------ MODULE MCCrmSync ------------------------------
(* Small instances of CrmSync for TLC.                                       *)
EXTENDS CrmSync, TLC

CONSTANTS a, s1, s2

\* Two contacts share an address, and are fetched together; the third has none.
emailOfContact == 1 :> a @@ 2 :> a @@ 3 :> NoEmail

\* One contact, and one without an address.
twoContacts == 1 :> a @@ 2 :> NoEmail

SyncSymmetry == Permutations(Syncs)

=============================================================================
