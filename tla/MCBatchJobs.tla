---------------------------- MODULE MCBatchJobs -----------------------------
(* Small instances of BatchJobs for TLC. *)
EXTENDS BatchJobs

Line(id, p, connection) ==
    [id |-> id, valid |-> TRUE, provider |-> p, connection |-> connection,
     model |-> "m1"]
Unusable == [Line(NULL, "openai", "c1") EXCEPT !.valid = FALSE]

(* Two good lines for each provider; a file with an unusable line and one  *)
(* on a second connection; and files that are refused.                     *)
MCInputs ==
    {<<Line("a", p, "c1"), Line("b", p, "c1")>> : p \in Providers}
    \cup {<<Unusable, Line("a", "openai", "c1"), Line("b", "openai", "c2")>>,
          <<Line("a", "openai", "c1"), Line("a", "openai", "c1")>>,
          <<Line("a", "openai", "c1"), Line("b", "anthropic", "c1")>>}
=============================================================================
