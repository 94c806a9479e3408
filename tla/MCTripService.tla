--------------------------- MODULE MCTripService ---------------------------
(***************************************************************************)
(* Constants of the TLC runs of TripService.                               *)
(***************************************************************************)
EXTENDS TripService, TLC

CONSTANTS t1, t2, c1, c2, q1, q2, q3, r1, r2

AllCalls == Call
LiveCalls == [op : {"publish", "start", "get"}, trip : {t1}, client : {c1}]

Symmetry == Permutations(Requests) \cup Permutations(Clients)
            \cup Permutations(Trips) \cup Permutations(Replicas)
=============================================================================
