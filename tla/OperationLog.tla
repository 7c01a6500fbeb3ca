---------------------------- MODULE OperationLog ----------------------------
(***************************************************************************)
(* What exp/runtime/sessions/store.py promises about the operations of one *)
(* session, with nothing said of claims, versions, workers or crashes.  An *)
(* operation is committed to the history at most once or closed without a  *)
(* commit, never both; the history is append-only and the version counts   *)
(* its entries; and a caller is only ever told the committed outcome, the  *)
(* same one however often it asks.                                         *)
(***************************************************************************)
EXTENDS Naturals, Sequences

CONSTANTS Operations, Outcomes

VARIABLES
    log,        \* committed <<operation, outcome>> pairs, in order
    version,    \* the revision a caller reads
    closed,     \* operations that ended without a commit
    answered    \* <<operation, outcome>> pairs that callers were told
vars == <<log, version, closed, answered>>

Committed == {log[i] : i \in 1..Len(log)}
Open == {op \in Operations \ closed : \A e \in Committed : e[1] # op}

Init == log = <<>> /\ version = 0 /\ closed = {} /\ answered = {}

Commit(op, outcome) ==
    /\ op \in Open
    /\ log' = Append(log, <<op, outcome>>)
    /\ version' = version + 1
    /\ UNCHANGED <<closed, answered>>

Close(op) ==
    /\ op \in Open
    /\ closed' = closed \cup {op}
    /\ UNCHANGED <<log, version, answered>>

Answer(e) ==
    /\ e \in Committed
    /\ answered' = answered \cup {e}
    /\ UNCHANGED <<log, version, closed>>

Next ==
    \/ \E op \in Operations : Close(op) \/ \E outcome \in Outcomes : Commit(op, outcome)
    \/ \E e \in Committed : Answer(e)

Spec == Init /\ [][Next]_vars
=============================================================================
