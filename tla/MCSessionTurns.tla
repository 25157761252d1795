--------------------------- MODULE MCSessionTurns ---------------------------
(* Small instances of SessionTurns for TLC. *)
EXTENDS SessionTurns, TLC

CONSTANTS p1, p2, p3, g1, i1, o1, o2, o3

\* p1 and p2 are one prompt and its retry; p3 and g1 carry no id.
RetryIds == [t \in Turns |-> IF t \in {p1, p2} THEN i1 ELSE None]

\* Session objects are interchangeable; used by the runs that check invariants only.
ObjectSymmetry == Permutations(Objects)
=============================================================================
