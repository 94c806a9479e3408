--------------------------- MODULE MCTripDelivery ---------------------------
(***************************************************************************)
(* Constants of the TLC runs of TripDelivery.                              *)
(***************************************************************************)
EXTENDS TripDelivery, TLC

CONSTANTS t1, t2, c1, c2, k1, k2

Publish(t, c) == [op |-> "publish", trip |-> t, client |-> c]

\* Each trip may be published, and the first one by somebody else too.
Publications == {Publish(t1, c1), Publish(t1, c2), Publish(t2, c1)}

\* Liveness: one driver is enough.
OwnPublications == {Publish(t1, c1), Publish(t2, c1)}

Symmetry == Permutations(Consumers)
=============================================================================
