----------------------------- MODULE GroupHostMC -----------------------------
(* Instances of GroupHost: threads with ids of their own, and two threads  *)
(* that use the same id one after the other.                               *)
EXTENDS GroupHost, TLC

CONSTANTS t1, t2, t3, i1, i2, i3

DistinctIds == (t1 :> i1) @@ (t2 :> i2) @@ (t3 :> i3)
ReusedId    == (t1 :> i1) @@ (t2 :> i1) @@ (t3 :> i2)

OnlyDistinct == {DistinctIds}
EitherChoice == {DistinctIds, ReusedId}
==============================================================================
