---------------------------- MODULE WriteThrough ----------------------------
(***************************************************************************)
(* What exp/runtime/gateway/group_commit.py promises its callers: write-   *)
(* through durability.  A caller learns success only of a write that is on *)
(* disk, learns failure only of a write that is not, and the disk is an    *)
(* append-only log in the order of submission.  Nothing is said of         *)
(* batches, threads or queues.                                             *)
(***************************************************************************)
EXTENDS Naturals, Sequences

CONSTANT Ops   \* ledger operations, each submitted at most once

VARIABLES
    outcome,   \* what the caller of each operation knows
    submitted, \* operations in the order they were submitted
    durable    \* operations on disk, in commit order
vars == <<outcome, submitted, durable>>

Outcomes == {"idle", "waiting", "ok", "failed", "closed", "lost"}
Elements(s) == {s[i] : i \in 1..Len(s)}
OnDisk == Elements(durable)
Waiting == {o \in Ops : outcome[o] = "waiting"}

Init == outcome = [o \in Ops |-> "idle"] /\ submitted = <<>> /\ durable = <<>>

(* The callers in S learn the same result. *)
Learn(S, result) ==
    outcome' = [o \in Ops |-> IF o \in S THEN result ELSE outcome[o]]

Submit(o) == /\ outcome[o] = "idle" /\ Learn({o}, "waiting")
             /\ submitted' = Append(submitted, o) /\ UNCHANGED durable
Refuse(o) == /\ outcome[o] = "idle" /\ Learn({o}, "closed")
             /\ UNCHANGED <<submitted, durable>>

(* Some waiting operations, none of them on disk, become durable at once,  *)
(* after all that were submitted before them and reached the disk.         *)
InOrder(log) ==
    \A i, j \in 1..Len(log) : i < j =>
        \E m, n \in 1..Len(submitted) : m < n /\ submitted[m] = log[i] /\ submitted[n] = log[j]
Commit ==
    /\ Len(durable') >= Len(durable)
    /\ SubSeq(durable', 1, Len(durable)) = durable
    /\ \A i \in (Len(durable) + 1)..Len(durable') :
        durable'[i] \in Waiting \ OnDisk
    /\ InOrder(durable')
    /\ UNCHANGED <<outcome, submitted>>

Acknowledge(o) == /\ o \in Waiting \cap OnDisk /\ Learn({o}, "ok")
                  /\ UNCHANGED <<submitted, durable>>
Fail(S, result) == /\ S \subseteq Waiting \ OnDisk /\ Learn(S, result)
                   /\ UNCHANGED <<submitted, durable>>

(* The process dies: nobody is told anything. *)
Crash == Learn(Waiting, "lost") /\ UNCHANGED <<submitted, durable>>

Next ==
    \/ \E o \in Ops : Submit(o) \/ Refuse(o) \/ Acknowledge(o)
    \/ Commit
    \/ \E S \in SUBSET Ops, result \in {"failed", "closed"} : Fail(S, result)
    \/ Crash

Spec == Init /\ [][Next]_vars
=============================================================================
