----------------------------- MODULE MCSessions -----------------------------
(* Two workers that were opened with different lock files.  Step ids       *)
(* and request digests are interchangeable.                                *)
EXTENDS Sessions, TLC
CONSTANTS w1, w2
MCLockOf == w1 :> "a" @@ w2 :> "b"
Symmetric == Permutations(StepIds) \cup Permutations(Requests)
=============================================================================
