------------------------------ MODULE MCLedger ------------------------------
(***************************************************************************)
(* Small instances of Ledger for TLC.  A configuration picks one value per *)
(* constant from the definitions below.                                    *)
(***************************************************************************)
EXTENDS Ledger, FiniteSetsExt, TLC

Symmetry == Permutations(AttemptIds)

BudgetCosts == {1, NULL}
NoTier == {NULL}
NoReceipt == {NULL}
AnyReceipt == Tiers \cup {NULL}
BothTiers == {NULL, "fast"}
NoClosings == {}
AnyClosing == {"failed", "cancelled"} \X BOOLEAN \X {0, 1}

(* Two lanes: r1 serves from the root pool, r2 from a child pool. *)
RootRung == [pool |-> "root", deployment |-> "d1", card |-> "base"]
ChildRung == [pool |-> "child", deployment |-> "d2", card |-> "base"]

Caller(op, digest, direct, decisions, rungs) ==
    [identity |-> "ann", alias |-> "chat", root |-> "root", op |-> op,
     digest |-> digest, direct |-> direct, decisions |-> decisions, rungs |-> rungs]

PlainCaller == {Caller(NULL, "x", TRUE, FALSE, {RootRung, ChildRung})}
RootCaller == {Caller(NULL, "x", TRUE, FALSE, {RootRung})}
MixedCallers == RootCaller \cup {Caller(NULL, "x", TRUE, TRUE, {RootRung})}
KeyedCallers == {Caller("k", d, direct, FALSE, {RootRung}) :
                    d \in {"x", "y"}, direct \in BOOLEAN}

Team == [kind |-> "team"]
Pool(p) == [kind |-> "pool", alias |-> "chat", pool |-> p]
Identity(i) == [kind |-> "identity", identity |-> i]
Deployment(p, d) == [kind |-> "deployment", alias |-> "chat", pool |-> p, deployment |-> d]
PoolScopes == {Pool("root"), Deployment("child", "d2")}
TeamAndPool == {Team, Pool("root")}

(* small and large are complete meters; the requested card cannot price    *)
(* large, as a card without a rate for one of its dimensions.  part lacks  *)
(* a token total.                                                          *)
MCCards == {"base", "fast"}
MCMeters == {"small", "large", "part"}
MCComplete == {"small", "large"}
MCPrice ==
    [base |-> [small |-> 1, large |-> 2, part |-> NULL],
     fast |-> [small |-> 2, large |-> NULL, part |-> NULL]]

Report(state, usage) ==
    [state |-> state, usage |-> usage, estimated |-> FALSE, disconnect |-> FALSE,
     recovery |-> FALSE, release |-> FALSE, guardrail |-> FALSE, rejected |-> FALSE]
Observed == {Report("completed", m) : m \in MCComplete}
Estimate(m) == [Report("cancelled", m) EXCEPT !.estimated = TRUE, !.disconnect = TRUE]
Disconnect(m) == [Report("cancelled", m) EXCEPT !.disconnect = TRUE]
Recovery == [Report("cancelled", NULL) EXCEPT !.recovery = TRUE]
Waiver == [Report("failed", NULL) EXCEPT !.recovery = TRUE, !.release = TRUE]
Denied == [Report("failed", NULL) EXCEPT !.guardrail = TRUE]
DeniedMetered == [Report("failed", "small") EXCEPT !.guardrail = TRUE]
Rejected == [Report("failed", NULL) EXCEPT !.rejected = TRUE]

AllReports ==
    Observed \cup {Report("completed", NULL), Report("failed", NULL),
        Report("incomplete", "part"), Report("failed", "large"),
        Estimate("small"), Disconnect("small"), Disconnect(NULL), Recovery,
        Waiver, Denied, DeniedMetered, Rejected}
BudgetReports == {Report("completed", "large"), Waiver}
KeyReports == {Report("completed", "small"), Report("failed", NULL), Recovery}

(* Total counts the units of a family of amounts; it is their sum. *)
ASSUME TotalIsSum ==
    \A f \in [AttemptIds -> Nano] :
        Total(f) = MapThenSumSet(LAMBDA a : f[a], AttemptIds)
=============================================================================
