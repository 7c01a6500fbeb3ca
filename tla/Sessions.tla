------------------------------ MODULE Sessions ------------------------------
(***************************************************************************)
(* Durable world-model sessions: the SQLite step store                     *)
(* (exp/runtime/sessions/store.py), the worker that drives one operation   *)
(* through it (exp/simulation/world_model/durable.py) and the transport    *)
(* that claims one slot of the dispatch ledger for every physical request  *)
(* (exp/runtime/models/providers/admitted_transport.py,                    *)
(* exp/runtime/sessions/dispatch_ledger.py).                               *)
(*                                                                         *)
(* A step of this model is one transaction of the store, one claim of the  *)
(* dispatch ledger or one exchange with the provider.  Several workers     *)
(* drive one session: each operation runs under a file lock that is tried  *)
(* once and never waited for, but the opener names the lock file, so       *)
(* LockOf may give workers different ones and the store alone has to keep  *)
(* them apart.  recover() and set_draining() take no lock at all.          *)
(***************************************************************************)
EXTENDS Naturals, Sequences, FiniteSets

CONSTANTS
    Workers, StepIds, None,
    Requests,            \* request digests
    Outputs,             \* provider outputs
    Bindings,            \* session bindings
    LockOf,              \* the lock file each worker was opened with
    MaximumOperations,   \* SessionPolicy.maximum_operations
    MaximumReasks,       \* SessionPolicy.maximum_reasks
    Cap,                 \* DispatchLedger cap
    MaxCrashes           \* bound: worker deaths

SessionRow == [binding : Bindings, version : Nat, transitions : Seq(StepIds),
               draining : BOOLEAN]

ASSUME SessionsAssumption ==
    /\ MaximumOperations \in Nat \ {0} /\ MaximumReasks \in 0..3
    /\ Cap \in Nat \ {0} /\ MaxCrashes \in Nat
    /\ None \notin Workers \cup StepIds \cup Requests \cup Outputs \cup Bindings
    /\ None \notin SessionRow
    /\ IsFiniteSet(Workers) /\ DOMAIN LockOf = Workers

VARIABLES
    session,   \* the sessions row, None before it is created
    steps,     \* the steps rows; of a proposal, whether it is recorded
    started,   \* audit rows of event provider_started: their steps, in order
    slots,     \* rows of the dispatch ledger
    sent,      \* history: the steps of the physical requests, in order
    late,      \* the session deadline has passed
    lock,      \* holder of each lock file
    worker,    \* local state of each worker
    answered,  \* history: <<step, output>> pairs returned to callers
    crashes
vars == <<session, steps, started, slots, sent, late, lock, worker, answered, crashes>>

Locks == {LockOf[w] : w \in Workers}
OpenStatuses == {"claimed", "provider_started", "ambiguous"}
Closed == {"rejected", "released", "ambiguous"}
NoRow == [status |-> "none", request |-> None, base_version |-> 0, proposal |-> FALSE,
          response |-> None, resulting_version |-> 0]
Down == [pc |-> "down", binding |-> None, step |-> None,
         version |-> 0, seen |-> <<>>, output |-> None, refusals |-> 0]

Init ==
    /\ session = None
    /\ steps = [s \in StepIds |-> NoRow]
    /\ started = <<>> /\ slots = 0 /\ sent = <<>>
    /\ late = FALSE
    /\ lock = [l \in Locks |-> None]
    /\ worker = [w \in Workers |-> Down]
    /\ answered = {} /\ crashes = 0

-----------------------------------------------------------------------------
(* The worker's side: where it is, the step it works on, and how an        *)
(* operation ends, by return or by exception: the lock is let go.          *)
At(w, pc) == worker[w].pc = pc
Goto(w, pc) == worker' = [worker EXCEPT ![w].pc = pc]
Row(w) == steps[worker[w].step]
Finish(w) ==
    /\ worker' = [worker EXCEPT ![w] =
          [Down EXCEPT !.pc = "idle", !.binding = worker[w].binding]]
    /\ lock' = [lock EXCEPT ![LockOf[w]] = None]

(* One UPDATE of the worker's own step row. *)
SetStatus(w, status) == steps' = [steps EXCEPT ![worker[w].step].status = status]

(* The worker's claim is open with one of these statuses.  A row is        *)
(* inserted once and only its claimer presents a claim for it, so the      *)
(* claim token always matches.                                             *)
OpenClaim(w, expected) == Row(w).status \in expected

(* Opening a session creates its row or finds the one with the same        *)
(* binding.  The insert refuses a row that appeared after the read.        *)
Open(w, binding) ==
    /\ At(w, "down") /\ lock[LockOf[w]] = None
    /\ \/ session = None /\ session' = [binding |-> binding, version |-> 0,
                                        transitions |-> <<>>, draining |-> FALSE]
       \/ session # None /\ session.binding = binding /\ UNCHANGED session
    /\ worker' = [worker EXCEPT ![w].pc = "idle", ![w].binding = binding]
    /\ UNCHANGED <<steps, started, slots, sent, late, lock, answered, crashes>>

(* step(): take the lock and read version and state, both kept to the end. *)
(* The caller's operation is named below, where it first matters.          *)
ReadSession(w) ==
    /\ At(w, "idle") /\ lock[LockOf[w]] = None
    /\ lock' = [lock EXCEPT ![LockOf[w]] = w]
    /\ worker' = [worker EXCEPT ![w].pc = "read", ![w].version = session.version,
                                ![w].seen = session.transitions]
    /\ UNCHANGED <<session, steps, started, slots, sent, late, answered, crashes>>

(* begin_step replays a completed step, claims a new one or refuses. *)
Replayable(s, request) == steps[s].status = "completed" /\ steps[s].request = request
SessionFree == ~session.draining /\ \A s \in StepIds : steps[s].status \notin OpenStatuses
StoredVersion(w) == session.version \* mutant: the store's version, not the one read
ExpectedVersion(w) == worker[w].version
Claimable(w, s) ==
    /\ steps[s].status = "none"
    /\ SessionFree
    /\ session.version = ExpectedVersion(w)

Replay(w, s, request) ==
    /\ At(w, "read") /\ session.binding = worker[w].binding /\ Replayable(s, request)
    /\ answered' = answered \cup {<<s, steps[s].response>>}
    /\ Finish(w)
    /\ UNCHANGED <<session, steps, started, slots, sent, late, crashes>>

Claim(w, s, request) ==
    /\ At(w, "read") /\ session.binding = worker[w].binding /\ Claimable(w, s)
    /\ steps' = [steps EXCEPT ![s] =
          [NoRow EXCEPT !.status = "claimed", !.request = request,
                        !.base_version = ExpectedVersion(w)]]
    /\ worker' = [worker EXCEPT ![w].pc = "claimed", ![w].step = s]
    /\ UNCHANGED <<session, started, slots, sent, late, lock, answered, crashes>>

Refused(w, s, request) ==
    /\ At(w, "read")
    /\ session.binding # worker[w].binding \/ ~(Replayable(s, request) \/ Claimable(w, s))
    /\ Finish(w)
    /\ UNCHANGED <<session, steps, started, slots, sent, late, answered, crashes>>

-----------------------------------------------------------------------------
(* Preparation: nothing was sent, and any failure, the deadline included,  *)
(* rejects the step if the claim is still open.                            *)
Prepare(w) ==
    /\ At(w, "claimed") /\ ~late
    /\ Goto(w, "prepared")
    /\ UNCHANGED <<session, steps, started, slots, sent, late, lock, answered, crashes>>

PreparationFails(w) ==
    /\ At(w, "claimed")
    /\ IF OpenClaim(w, {"claimed", "provider_started"})
          THEN SetStatus(w, "rejected") ELSE UNCHANGED steps
    /\ Finish(w)
    /\ UNCHANGED <<session, started, slots, sent, late, answered, crashes>>

(* mark_provider_started counts the session's dispatched steps and moves   *)
(* the status in one transaction.  A spent budget releases the claim in a  *)
(* transaction of its own.                                                 *)
BudgetLeft == Len(started) < MaximumOperations
MarkProviderStarted(w) ==
    /\ At(w, "prepared") /\ OpenClaim(w, {"claimed"})
    /\ IF BudgetLeft
          THEN /\ SetStatus(w, "provider_started")
               /\ started' = Append(started, worker[w].step)
               /\ Goto(w, "calling")
          ELSE Goto(w, "exhausted") /\ UNCHANGED <<steps, started>>
    /\ UNCHANGED <<session, slots, sent, late, lock, answered, crashes>>

ReleaseStep(w) ==
    /\ At(w, "exhausted")
    /\ IF OpenClaim(w, {"claimed"}) THEN SetStatus(w, "released") ELSE UNCHANGED steps
    /\ Finish(w)
    /\ UNCHANGED <<session, started, slots, sent, late, answered, crashes>>

-----------------------------------------------------------------------------
(* One physical request: claim a slot, persist the intent, look at the     *)
(* clock again, send.  The client above may send again; any failure leaves *)
(* the step ambiguous, whether or not something was sent.                  *)
ClaimSlot(w) ==
    /\ At(w, "calling") \/ At(w, "sent")
    /\ ~late /\ slots < Cap
    /\ slots' = slots + 1
    /\ Goto(w, "admitted")
    /\ UNCHANGED <<session, steps, started, sent, late, lock, answered, crashes>>

Send(w) ==
    /\ At(w, "admitted") /\ ~late
    /\ sent' = Append(sent, worker[w].step)
    /\ Goto(w, "sent")
    /\ UNCHANGED <<session, steps, started, slots, late, lock, answered, crashes>>

CompletionReturns(w, output) ==
    /\ At(w, "sent") /\ ~late
    /\ worker' = [worker EXCEPT ![w].pc = "returned", ![w].output = output]
    /\ UNCHANGED <<session, steps, started, slots, sent, late, lock, answered, crashes>>

CompletionFails(w) ==
    /\ \E pc \in {"calling", "admitted", "sent"} : At(w, pc)
    /\ IF OpenClaim(w, {"provider_started"}) THEN SetStatus(w, "ambiguous") ELSE UNCHANGED steps
    /\ Finish(w)
    /\ UNCHANGED <<session, started, slots, sent, late, answered, crashes>>

RecordProposal(w) ==
    /\ At(w, "returned") /\ OpenClaim(w, {"provider_started"})
    /\ steps' = [steps EXCEPT ![worker[w].step].proposal = TRUE]
    /\ Goto(w, "recorded")
    /\ UNCHANGED <<session, started, slots, sent, late, lock, answered, crashes>>

(* A transaction of the store, or a write of the artifact store that no    *)
(* handler guards, fails: the exception leaves the row as it is, open.     *)
WriteFails(w) ==
    /\ worker[w].pc \notin {"down", "idle", "committed"}
    /\ Finish(w)
    /\ UNCHANGED <<session, steps, started, slots, sent, late, answered, crashes>>

Reask(w) ==
    /\ At(w, "recorded") /\ worker[w].refusals < MaximumReasks
    /\ worker' = [worker EXCEPT ![w].pc = "calling", ![w].refusals = @ + 1]
    /\ UNCHANGED <<session, steps, started, slots, sent, late, lock, answered, crashes>>

ProposalRefused(w) ==
    /\ At(w, "recorded") /\ worker[w].refusals >= MaximumReasks
    /\ IF OpenClaim(w, {"claimed", "provider_started"})
          THEN SetStatus(w, "rejected") ELSE UNCHANGED steps
    /\ Finish(w)
    /\ UNCHANGED <<session, started, slots, sent, late, answered, crashes>>

(* complete_step samples the clock inside its transaction: a commit after  *)
(* the deadline is a durable rejection.  The state it publishes extends    *)
(* the one the worker read at the start.                                   *)
CommitAllowed(w) ==
    /\ At(w, "recorded") /\ OpenClaim(w, {"provider_started"})
    /\ Row(w).proposal /\ session.version = Row(w).base_version

(* A lost claim, or a stale revision, ends the operation without a write. *)
ClaimLost(w) ==
    /\ \/ At(w, "prepared") /\ ~OpenClaim(w, {"claimed"})
       \/ At(w, "returned") /\ ~OpenClaim(w, {"provider_started"})
       \/ At(w, "recorded") /\ ~CommitAllowed(w)
    /\ Finish(w)
    /\ UNCHANGED <<session, steps, started, slots, sent, late, answered, crashes>>

CompleteStep(w) ==
    /\ CommitAllowed(w) /\ ~late
    /\ LET next_version == Row(w).base_version + 1 IN
        /\ session' = [session EXCEPT !.version = next_version,
                          !.transitions = Append(worker[w].seen, worker[w].step)]
        /\ steps' = [steps EXCEPT ![worker[w].step].status = "completed",
                        ![worker[w].step].response = worker[w].output,
                        ![worker[w].step].resulting_version = next_version]
    /\ Goto(w, "committed")
    /\ UNCHANGED <<started, slots, sent, late, lock, answered, crashes>>

DeadlineStopped(w) ==
    /\ CommitAllowed(w) /\ late
    /\ SetStatus(w, "rejected")
    /\ Finish(w)
    /\ UNCHANGED <<session, started, slots, sent, late, answered, crashes>>

Answer(w) ==
    /\ At(w, "committed")
    /\ answered' = answered \cup {<<worker[w].step, worker[w].output>>}
    /\ Finish(w)
    /\ UNCHANGED <<session, steps, started, slots, sent, late, crashes>>

-----------------------------------------------------------------------------
(* recover(): one transaction over every claimed or started row. *)
RecoverStatusBlind(status) == \* mutant: a started claim is released as well
    IF status \in {"claimed", "provider_started"} THEN "released" ELSE status
RecoverStatus(status) ==
    CASE status = "claimed" -> "released"
      [] status = "provider_started" -> "ambiguous"
      [] OTHER -> status
Recover ==
    /\ \E s \in StepIds : steps[s].status \in {"claimed", "provider_started"}
    /\ steps' = [s \in StepIds |-> [steps[s] EXCEPT !.status = RecoverStatus(@)]]
    /\ UNCHANGED <<session, started, slots, sent, late, lock, worker, answered, crashes>>

SetDraining(draining) ==
    /\ session # None
    /\ session' = [session EXCEPT !.draining = draining]
    /\ UNCHANGED <<steps, started, slots, sent, late, lock, worker, answered, crashes>>

DeadlinePasses ==
    /\ ~late /\ late' = TRUE
    /\ UNCHANGED <<session, steps, started, slots, sent, lock, worker, answered, crashes>>

(* A worker dies anywhere; the system drops its file lock. *)
Crash(w) ==
    /\ ~At(w, "down") /\ crashes < MaxCrashes
    /\ crashes' = crashes + 1
    /\ worker' = [worker EXCEPT ![w] = Down]
    /\ lock' = [l \in Locks |-> IF lock[l] = w THEN None ELSE lock[l]]
    /\ UNCHANGED <<session, steps, started, slots, sent, late, answered>>

Next ==
    \/ \E w \in Workers :
        \/ \E b \in Bindings : Open(w, b)
        \/ ReadSession(w)
        \/ \E s \in StepIds, r \in Requests : Replay(w, s, r) \/ Claim(w, s, r) \/ Refused(w, s, r)
        \/ Prepare(w) \/ PreparationFails(w)
        \/ MarkProviderStarted(w) \/ ReleaseStep(w) \/ ClaimLost(w)
        \/ ClaimSlot(w) \/ Send(w)
        \/ \E o \in Outputs : CompletionReturns(w, o)
        \/ CompletionFails(w) \/ RecordProposal(w) \/ WriteFails(w)
        \/ Reask(w) \/ ProposalRefused(w)
        \/ CompleteStep(w) \/ DeadlineStopped(w) \/ Answer(w) \/ Crash(w)
    \/ Recover \/ DeadlinePasses
    \/ \E draining \in BOOLEAN : SetDraining(draining)

Spec == Init /\ [][Next]_vars

-----------------------------------------------------------------------------
Elements(q) == {q[i] : i \in 1..Len(q)}
Distinct(q) == \A i, j \in 1..Len(q) : q[i] = q[j] => i = j

(* Paid work is accounted for before it happens: every physical request    *)
(* has a slot of the capped dispatch ledger and a step whose one start is  *)
(* durable and counted in the session budget, and a step that is only      *)
(* claimed, or that recover() or a spent budget released, sent nothing.    *)
PurchasesAccounted ==
    /\ Len(sent) <= slots /\ slots <= Cap
    /\ Elements(sent) \subseteq Elements(started)
    /\ Distinct(started) /\ Len(started) <= MaximumOperations
    /\ \A s \in Elements(started) : steps[s].status \notin {"none", "claimed", "released"}

(* The store and its workers implement the log of operations: each is      *)
(* committed once or closed for good, no commit is overwritten by a worker *)
(* that computed its state from an older one, and every caller that is     *)
(* answered is told the committed outcome ("replays the stored terminal    *)
(* outcome of the same request").                                          *)
History == IF session = None THEN <<>> ELSE session.transitions
Abstract == INSTANCE OperationLog WITH
    Operations <- StepIds, Outcomes <- Outputs,
    log <- [i \in 1..Len(History) |-> <<History[i], steps[History[i]].response>>],
    version <- IF session = None THEN 0 ELSE session.version,
    closed <- {s \in StepIds : steps[s].status \in Closed}
OperationLogSpec == Abstract!Spec
=============================================================================
