------------------------- MODULE MCOutboxPublisher -------------------------
(***************************************************************************)
(* Constants of the TLC runs of OutboxPublisher.                           *)
(***************************************************************************)
EXTENDS OutboxPublisher, TLC

CONSTANTS e1, e2, e3, e4, p1, p2, s1, s2, s3

\* Two rows of the same age, the undecodable row the oldest.
Ages == [e \in Events |-> CASE e = e1 -> 1 [] e = e2 -> 2 [] OTHER -> 2]

Symmetry == Permutations(Publishers) \cup Permutations(Sessions) \cup Permutations({e2, e3})
=============================================================================
