----------------------------- MODULE GroupCommit ----------------------------
(***************************************************************************)
(* The group-commit writer of exp/runtime/gateway/group_commit.py: callers *)
(* enqueue operations, one writer thread drains them into batches and      *)
(* commits each batch in one SQLite transaction, and the process may die   *)
(* between any two steps.  An operation is a model value: its effect is to *)
(* appear in the log.  Every step between two points where another thread  *)
(* can run (a queue access, a SQLite call, a resolved future) is an action.*)
(***************************************************************************)
EXTENDS Naturals, Sequences

CONSTANTS
    Ops,            \* operations, each submitted at most once
    Chained,        \* those with a preflight (prepare) that may fail
    STOP,           \* the None sentinel close puts on the queue
    MaxBatchSize,   \* _max_batch_size
    MaxCrashes      \* bound: process deaths in one behaviour

ASSUME CommitAssumption ==
    /\ Chained \subseteq Ops /\ STOP \notin Ops
    /\ MaxBatchSize \in Nat \ {0} /\ MaxCrashes \in Nat

VARIABLES
    outcome,            \* the future of each operation, as its caller sees it
    queue,              \* _queue
    closed,             \* _closed
    transactionFailed,  \* _transaction_failed
    phase,              \* where the writer thread is
    stopping,           \* it has drained the sentinel
    batch,              \* operations drained and not yet prepared
    ready,              \* operations prepared for this transaction
    results,            \* what each applied operation will be told
    tx,                 \* uncommitted effects on the writer's connection
    durable,            \* committed effects, in order
    submitted,          \* history: operations in the order they were queued
    connectFailed,      \* history: this writer never opened its connection
    crashes
vars == <<outcome, queue, closed, transactionFailed, phase, stopping, batch, ready,
          results, tx, durable, submitted, connectFailed, crashes>>

Elements(s) == {s[i] : i \in 1..Len(s)}
Unresolved == {o \in Ops : outcome[o] = "waiting"}
Resolve(S, result) ==
    outcome' = [o \in Ops |-> IF o \in S \cap Unresolved THEN result ELSE outcome[o]]

Init ==
    /\ outcome = [o \in Ops |-> "idle"]
    /\ queue = <<>> /\ closed = FALSE /\ transactionFailed = FALSE
    /\ phase = "connect" /\ stopping = FALSE
    /\ batch = <<>> /\ ready = <<>> /\ results = <<>>
    /\ tx = <<>>
    /\ durable = <<>> /\ submitted = <<>>
    /\ connectFailed = FALSE /\ crashes = 0
-----------------------------------------------------------------------------
(* Callers.  _submit_lock makes enqueue and close atomic against each      *)
(* other and against _fail_pending.                                        *)
Running == phase # "down"

Enqueue(o) ==
    /\ Running /\ outcome[o] = "idle" /\ ~closed
    /\ outcome' = [outcome EXCEPT ![o] = "waiting"]
    /\ queue' = Append(queue, o)
    /\ submitted' = Append(submitted, o)
    /\ UNCHANGED <<closed, transactionFailed, phase, stopping, batch, ready, results,
                   tx, durable, connectFailed, crashes>>

Refuse(o) ==
    /\ Running /\ outcome[o] = "idle" /\ closed
    /\ outcome' = [outcome EXCEPT ![o] = "closed"]
    /\ UNCHANGED <<queue, closed, transactionFailed, phase, stopping, batch, ready,
                   results, tx, durable, submitted, connectFailed, crashes>>

CloseFirst == \* mutant: the sentinel overtakes queued writes
    /\ Running /\ ~closed
    /\ closed' = TRUE /\ queue' = <<STOP>> \o queue
    /\ UNCHANGED <<outcome, transactionFailed, phase, stopping, batch, ready, results,
                   tx, durable, submitted, connectFailed, crashes>>
Close ==
    /\ Running /\ ~closed
    /\ closed' = TRUE /\ queue' = Append(queue, STOP)
    /\ UNCHANGED <<outcome, transactionFailed, phase, stopping, batch, ready, results,
                   tx, durable, submitted, connectFailed, crashes>>
-----------------------------------------------------------------------------
(* The writer thread. *)
Connect(success) ==
    /\ phase = "connect"
    /\ phase' = IF success THEN "wait" ELSE "exit"
    /\ connectFailed' = ~success
    /\ UNCHANGED <<outcome, queue, closed, transactionFailed, stopping, batch, ready,
                   results, tx, durable, submitted, crashes>>

(* queue.get() for the first operation of a batch, or the sentinel.        *)
Take ==
    /\ phase = "wait" /\ queue # <<>>
    /\ queue' = Tail(queue)
    /\ IF Head(queue) = STOP THEN phase' = "exit" /\ UNCHANGED batch
                             ELSE phase' = "drain" /\ batch' = <<Head(queue)>>
    /\ UNCHANGED <<outcome, closed, transactionFailed, stopping, ready, results, tx,
                   durable, submitted, connectFailed, crashes>>

(* get_nowait() until the batch is full, the queue empty or the sentinel.  *)
TakeExtra ==
    /\ phase = "drain" /\ Len(batch) < MaxBatchSize /\ queue # <<>>
    /\ queue' = Tail(queue)
    /\ IF Head(queue) = STOP
       THEN phase' = "prepare" /\ stopping' = TRUE /\ UNCHANGED batch
       ELSE batch' = Append(batch, Head(queue)) /\ UNCHANGED <<phase, stopping>>
    /\ UNCHANGED <<outcome, closed, transactionFailed, ready, results, tx,
                   durable, submitted, connectFailed, crashes>>

Drained ==
    /\ phase = "drain" /\ (Len(batch) = MaxBatchSize \/ queue = <<>>)
    /\ phase' = "prepare"
    /\ UNCHANGED <<outcome, queue, closed, transactionFailed, stopping, batch, ready,
                   results, tx, durable, submitted, connectFailed, crashes>>

(* One preflight: its failure is its caller's alone.                       *)
Prepare(success) ==
    LET o == Head(batch) IN
    /\ phase = "prepare" /\ batch # <<>>
    /\ success \/ o \in Chained
    /\ batch' = Tail(batch)
    /\ IF success THEN ready' = Append(ready, o) /\ UNCHANGED outcome
                  ELSE Resolve({o}, "failed") /\ UNCHANGED ready
    /\ UNCHANGED <<queue, closed, transactionFailed, phase, stopping, results, tx,
                   durable, submitted, connectFailed, crashes>>

NextBatch == IF stopping THEN "exit" ELSE "wait"

NothingReady ==
    /\ phase = "prepare" /\ batch = <<>> /\ ready = <<>>
    /\ phase' = NextBatch
    /\ UNCHANGED <<outcome, queue, closed, transactionFailed, stopping, batch, ready,
                   results, tx, durable, submitted, connectFailed, crashes>>

(* Every operation of this transaction fails, and the loop goes on.        *)
FailBatch ==
    /\ Resolve(Elements(ready), "failed")
    /\ transactionFailed' = TRUE
    /\ ready' = <<>> /\ results' = <<>>
    /\ phase' = NextBatch

(* BEGIN IMMEDIATE: locked or failing storage fails the whole batch.       *)
Begin(success) ==
    /\ phase = "prepare" /\ batch = <<>> /\ ready # <<>>
    /\ IF success
       THEN phase' = "apply" /\ UNCHANGED <<outcome, transactionFailed, ready, results>>
       ELSE FailBatch
    /\ UNCHANGED <<queue, closed, stopping, batch, tx, durable, submitted,
                   connectFailed, crashes>>

(* One operation under its savepoint: applied, or raised and rolled back.  *)
Applying == phase = "apply" /\ Len(results) < Len(ready)

Apply(success) ==
    LET o == ready[Len(results) + 1] IN
    /\ Applying
    /\ tx' = IF success THEN Append(tx, o) ELSE tx
    /\ results' = Append(results, IF success THEN "ok" ELSE "failed")
    /\ UNCHANGED <<outcome, queue, closed, transactionFailed, phase, stopping, batch,
                   ready, durable, submitted, connectFailed, crashes>>

(* A savepoint statement raises: the batch fails outside its transaction   *)
(* and is rolled back.  SQLite's ROLLBACK raises only where an error has   *)
(* already ended the transaction, so either way nothing is left open.      *)
SavepointError ==
    /\ Applying
    /\ FailBatch /\ tx' = <<>>
    /\ UNCHANGED <<queue, closed, stopping, batch, durable, submitted, connectFailed,
                   crashes>>

AllApplied == phase = "apply" /\ Len(results) = Len(ready)

Commit ==
    /\ AllApplied
    /\ durable' = durable \o tx
    /\ tx' = <<>>
    /\ phase' = "resolve"
    /\ UNCHANGED <<outcome, queue, closed, transactionFailed, stopping, batch, ready,
                   results, submitted, connectFailed, crashes>>

CommitIgnored == \* mutant: a COMMIT error is taken for success
    /\ AllApplied
    /\ tx' = <<>> /\ phase' = "resolve"
    /\ UNCHANGED <<outcome, queue, closed, transactionFailed, stopping, batch, ready,
                   results, durable, submitted, connectFailed, crashes>>
CommitError ==
    /\ AllApplied
    /\ FailBatch /\ tx' = <<>>
    /\ UNCHANGED <<queue, closed, stopping, batch, durable, submitted, connectFailed,
                   crashes>>

(* After COMMIT the futures are resolved one by one, in batch order.       *)
ResolveNext ==
    /\ phase = "resolve" /\ ready # <<>>
    /\ Resolve({Head(ready)}, Head(results))
    /\ ready' = Tail(ready) /\ results' = Tail(results)
    /\ UNCHANGED <<queue, closed, transactionFailed, phase, stopping, batch, tx,
                   durable, submitted, connectFailed, crashes>>

(* The preflight handles are released; an error there is logged as a batch *)
(* failure although the batch is durable.                                  *)
Release(success) ==
    /\ phase = "resolve" /\ ready = <<>>
    /\ transactionFailed' = ~success
    /\ phase' = NextBatch
    /\ UNCHANGED <<outcome, queue, closed, stopping, batch, ready, results, tx,
                   durable, submitted, connectFailed, crashes>>

(* The thread ends: its connection closes and _fail_pending drains.        *)
ExitUnlatched == \* mutant: a writer that never opened stays open to callers
    /\ phase = "exit"
    /\ phase' = "stopped" /\ queue' = <<>>
    /\ Resolve(Elements(queue), "closed")
    /\ tx' = <<>>
    /\ UNCHANGED <<closed, transactionFailed, stopping, batch, ready, results, durable,
                   submitted, connectFailed, crashes>>
Exit ==
    /\ phase = "exit"
    /\ phase' = "stopped" /\ queue' = <<>> /\ closed' = TRUE
    /\ Resolve(Elements(queue), "closed")
    /\ tx' = <<>>
    /\ UNCHANGED <<transactionFailed, stopping, batch, ready, results, durable,
                   submitted, connectFailed, crashes>>

Writer ==
    \/ \E success \in BOOLEAN :
        \/ Connect(success) \/ Prepare(success) \/ Begin(success) \/ Apply(success)
        \/ Release(success)
    \/ Take \/ TakeExtra \/ Drained \/ NothingReady \/ SavepointError \/ Commit
    \/ CommitError \/ ResolveNext \/ Exit
-----------------------------------------------------------------------------
(* The process dies, and a new one starts a writer on the same database.   *)
Crash ==
    /\ Running /\ crashes < MaxCrashes
    /\ crashes' = crashes + 1 /\ phase' = "down"
    /\ Resolve(Ops, "lost")
    /\ queue' = <<>> /\ closed' = FALSE /\ transactionFailed' = FALSE
    /\ stopping' = FALSE /\ batch' = <<>> /\ ready' = <<>> /\ results' = <<>>
    /\ tx' = <<>> /\ connectFailed' = FALSE
    /\ UNCHANGED <<durable, submitted>>

Restart ==
    /\ phase = "down" /\ phase' = "connect"
    /\ UNCHANGED <<outcome, queue, closed, transactionFailed, stopping, batch, ready,
                   results, tx, durable, submitted, connectFailed, crashes>>

Next ==
    \/ \E o \in Ops : Enqueue(o) \/ Refuse(o)
    \/ Close \/ Writer \/ Crash \/ Restart

Spec == Init /\ [][Next]_vars
FairSpec == Spec /\ WF_vars(Writer)
-----------------------------------------------------------------------------
(* "Operations enqueued before close still commit durably": once queued, an*)
(* operation is failed as closed only if the writer never opened.          *)
CloseDrains ==
    [][\A o \in Ops : outcome[o] = "waiting" /\ outcome'[o] = "closed"
            => connectFailed]_vars

(* No caller is stranded: every queued operation is resolved, whether the  *)
(* writer runs, closes, fails to open or hits failing storage.             *)
NoStrandedCaller ==
    \A o \in Ops : (outcome[o] = "waiting") ~> (outcome[o] # "waiting")

(* The batched writer implements write-through durability: no caller is    *)
(* told success before its write is on disk or failure of a write that is, *)
(* or ever becomes, durable, also when COMMIT fails and a later batch runs *)
(* on the same connection, and the disk holds operations in the order they *)
(* were queued, each once, in whatever batches they were committed.        *)
Abstract == INSTANCE WriteThrough WITH
    Ops <- Ops, outcome <- outcome, submitted <- submitted, durable <- durable
WriteThroughSpec == Abstract!Spec
=============================================================================
