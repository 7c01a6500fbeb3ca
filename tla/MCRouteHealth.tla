--------------------------- MODULE MCRouteHealth ---------------------------
(***************************************************************************)
(* Two requests on one worker.  Both dial lane a first, which can die,     *)
(* hang or retire a connection; only the first has a fallback, lane b,     *)
(* which can throttle.  Two transport failures trip a circuit, one, or one *)
(* hang, ejects a lane, and every window lasts one unit of time.           *)
(***************************************************************************)
EXTENDS RouteHealth

CONSTANTS r1, r2, a, b, A, B

MCLane == (a :> A) @@ (b :> B)
MCRoute == (r1 :> <<a, b>>) @@ (r2 :> <<a>>)
MCOutcomes ==
  (a :> {"success", "transport", "hang", "retired"}) @@ (b :> {"success", "throttled"})
=============================================================================
