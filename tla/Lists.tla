-------------------------------- MODULE Lists --------------------------------
(* Two of Python's list operations. *)
EXTENDS Integers, FiniteSets, Sequences

\* [u for u in q if u in S]
Only(q, S) ==
  LET kept[n \in 0 .. Len(q)] ==
        IF n = 0 THEN <<>>
        ELSE IF q[n] \in S THEN Append(kept[n - 1], q[n]) ELSE kept[n - 1]
  IN  kept[Len(q)]

\* sorted(S)[n - 1] of a finite set of numbers.
UpTo(S, t) == {u \in S : u <= t}
Nth(S, n) == CHOOSE t \in S : Cardinality(UpTo(S, t)) = n
=============================================================================
