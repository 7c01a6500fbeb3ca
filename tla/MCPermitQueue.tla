--------------------------- MODULE MCPermitQueue ---------------------------
(* Two bindings of two requests: one has a single permit, the other as     *)
(* many as the worker.                                                     *)
EXTENDS PermitQueue, TLC
CONSTANTS r1, r2, r3, r4
MCScope == r1 :> "narrow" @@ r2 :> "narrow" @@ r3 :> "wide" @@ r4 :> "wide"
MCCapacity == "narrow" :> 1 @@ "wide" :> 2
=============================================================================
