---------------------------- MODULE MCWritePool ----------------------------
(***************************************************************************)
(* Instances of WritePool for TLC.                                         *)
(***************************************************************************)
EXTENDS WritePool, TLC

CONSTANTS c1, c2, c3, c4, p1, p2, p3, w1, w2

\* Four calls, the last two of which store the same point: a retry, or a
\* redelivered message, while the first attempt may still sit in the pool.
FourCalls    == {c1, c2, c3, c4}
FourPointOf  == (c1 :> p1) @@ (c2 :> p2) @@ (c3 :> p3) @@ (c4 :> p3)

\* Three calls, two of which store the same point.
ThreeCalls   == {c1, c2, c3}
ThreePointOf == (c1 :> p1) @@ (c2 :> p2) @@ (c3 :> p2)

\* c3 and c4 store the same point: exchanging them maps behaviours to behaviours.
\* Only for runs without liveness.
CallSymmetry == Permutations({c3, c4})
=============================================================================
