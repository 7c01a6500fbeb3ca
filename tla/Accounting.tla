----------------------------- MODULE Accounting -----------------------------
(***************************************************************************)
(* The attempt accounting registry of one worker and the threads that      *)
(* share it: exp/runtime/gateway/native_accounting.py with its fence,      *)
(* recovery and request-settlement companions, called by the AttemptGuard  *)
(* of native/src/settlement.rs and by the recovery sweep.                  *)
(*                                                                         *)
(* A step is what runs between two points where another thread can: one    *)
(* section under the registry lock, one durable write, or taking or        *)
(* releasing the request's execution gate.  Bridge calls of one request run*)
(* on worker threads: main serves its handler, back the task a dropped     *)
(* guard spawns.  A dropped handler leaves its main call running.          *)
(*                                                                         *)
(* The ledger is module Ledger reduced to what the registry relies on: an  *)
(* attempt is dispatched or has its terminal evidence, a request is open or*)
(* closed, and a write lands whole or raises and leaves nothing.           *)
(***************************************************************************)
EXTENDS Integers, FiniteSets

CONSTANTS
    NULL,
    Requests,     \* request ids
    Org,          \* Org[r]: the organization that admits r
    MaxAttempts,  \* physical attempts the waterfall may reserve
    Pricer,       \* whether the write ledger is a SettlementPricer
    Tries,        \* calls of one bounded delivery
    Kinds,        \* evidence a settlement carries
    Faults,       \* how a durable write may fail
    MaxFaults     \* bound: failed writes in one behaviour

(* A settlement carries an exact meter, a failure without usage, or is     *)
(* silent: a completion whose provider reported no complete meter.         *)
AllKinds == {"exact", "failed", "silent"}
(* storage is any write error; refused an AccountingRefusedError.          *)
AllFaults == {"storage", "refused"}
Ordinals == 0..(MaxAttempts - 1)
Callers == {"main", "back"}
Sweeper == <<NULL, "sweep">>
Threads == (Requests \X Callers) \cup {Sweeper}

(* An entry keeps the fields of InflightRequest that accounting reads:     *)
(* total and active attempt, pending (pending_settlement), abandon         *)
(* (pending_abandon is set), writeFailed (settlement_write_failed),        *)
(* abandonFailed (abandon_write_failed) and refused (refused_write).  In a *)
(* settlement copy stands for the identity of the JSON object: _settle     *)
(* compares it with "is".                                                  *)
Settlement == [attempt : Ordinals, kind : AllKinds, finalize : BOOLEAN, copy : Callers \X Int]
InflightRequest ==
    [total : 0..MaxAttempts, active : Ordinals \cup {NULL}, pending : Settlement \cup {NULL},
     abandon : BOOLEAN, writeFailed : BOOLEAN, abandonFailed : BOOLEAN, refused : BOOLEAN]

ASSUME AccountingAssumption ==
    /\ NULL \notin Requests /\ NULL \notin Int /\ NULL \notin Threads
    /\ NULL \notin Settlement /\ NULL \notin InflightRequest /\ NULL \notin AllFaults
    /\ MaxAttempts \in Nat \ {0} /\ Tries \in Nat \ {0} /\ MaxFaults \in Nat /\ Pricer \in BOOLEAN
    /\ Kinds \subseteq AllKinds /\ Faults \subseteq AllFaults

VARIABLES
    clock,    \* clock[r]: 0 in time, 1 past the deadline, 2 past the grace
    entry,    \* _inflight
    fence,    \* _fence: requests holding a fencing failed write
    finish,   \* request_settlements: the last fault of a retained write
    gate,     \* execution_lock: its holder
    ledger,   \* the durable rows
    guard,    \* the AttemptGuard of each handler
    thread,   \* worker threads and the sweep
    faults    \* writes that failed so far
vars == <<clock, entry, fence, finish, gate, ledger, guard, thread, faults>>

NewCall(r, pc, data, tries) ==
    [pc |-> pc, request |-> r, data |-> data, tries |-> tries,
     slot |-> NULL, reply |-> NULL]
Idle == NewCall(NULL, "idle", NULL, 0)
Live == {r \in Requests : entry[r] # NULL}

Init ==
    /\ clock = [r \in Requests |-> 0]
    /\ entry = [r \in Requests |-> NULL]
    /\ fence = {}
    /\ finish = [r \in Requests |-> NULL]
    /\ gate = [r \in Requests |-> NULL]
    /\ ledger = [r \in Requests |->
            [request |-> "none", attempt |-> [n \in Ordinals |-> "none"]]]
    /\ guard = [r \in Requests |-> [phase |-> "absent", attempt |-> NULL, decided |-> NULL]]
    /\ thread = [x \in Threads |-> Idle]
    /\ faults = 0
-----------------------------------------------------------------------------
(* Durable writes.  A fault is NULL or one of Faults.                      *)
MayFail(fault) ==
    /\ fault # NULL => faults < MaxFaults
    /\ faults' = IF fault = NULL THEN faults ELSE faults + 1

(* finish_attempt on a terminal row: recovery takes an exact meter and     *)
(* acknowledges a failure; an identical outcome replays; any other raises. *)
Conflicts(row, kind) ==
    /\ row # "dispatched" /\ row # kind
    /\ ~(row = "recovered" /\ kind \in {"exact", "failed"})

FinishAttempt(r, n, kind, finalize) ==
    ledger' = [ledger EXCEPT
        ![r].attempt[n] = IF @ = "dispatched" \/ (@ = "recovered" /\ kind = "exact")
                          THEN kind ELSE @,
        ![r].request = IF finalize /\ ledger[r].attempt[n] = "dispatched"
                       THEN "closed" ELSE @]

(* RequestSettlements.finish and _commit, serialized per request: a write  *)
(* that raises is retained; one the ledger can never take is dropped.      *)
FinishForgotten(r, fault) == \* mutant: a failed write is not retained
    /\ MayFail(fault)
    /\ UNCHANGED finish
    /\ ledger' = IF fault = NULL THEN [ledger EXCEPT ![r].request = "closed"] ELSE ledger
FinishRequest(r, fault) ==
    /\ MayFail(fault)
    /\ finish' = [finish EXCEPT ![r] = fault]
    /\ ledger' = IF fault = NULL THEN [ledger EXCEPT ![r].request = "closed"] ELSE ledger
-----------------------------------------------------------------------------
(* The registry and its organization fence. *)
EntryFences(e) == (e.writeFailed \/ e.abandonFailed) /\ ~e.refused

(* OrganizationFence.sync after a write of r changed its flags. *)
Sync(r, e) ==
    /\ entry' = [entry EXCEPT ![r] = e]
    /\ fence' = IF EntryFences(e) THEN fence \cup {r} ELSE fence \ {r}

DropQuiet(r) == \* mutant: the entry leaves and its mark stays
    entry' = [entry EXCEPT ![r] = NULL] /\ UNCHANGED fence
Drop(r) == entry' = [entry EXCEPT ![r] = NULL] /\ fence' = fence \ {r}

FencedOrg(org) ==
    \E r \in Requests : Org[r] = org /\ (r \in fence \/ finish[r] = "storage")

(* admit: require_clear, durable acceptance and register.  The reply may   *)
(* be lost with its handler, before a guard exists.                        *)
Admit(r) ==
    /\ guard[r].phase = "absent" /\ ~FencedOrg(Org[r])
    /\ ledger' = [ledger EXCEPT ![r].request = "open"]
    /\ entry' = [entry EXCEPT ![r] =
            [total |-> 0, active |-> NULL, pending |-> NULL, abandon |-> FALSE,
             writeFailed |-> FALSE, abandonFailed |-> FALSE, refused |-> FALSE]]
    /\ \E phase \in {"ready", "done"} : guard' = [guard EXCEPT ![r].phase = phase]
    /\ UNCHANGED <<clock, fence, finish, gate, thread, faults>>

(* Thread plumbing: a call goes on at a program counter, or replies.  A    *)
(* reply is discarded when its handler is gone, or with nothing to retry.  *)
At(x, pc) == thread[x].pc = pc
Goto(x, pc) == thread' = [thread EXCEPT ![x].pc = pc]
Awaited(x, result) ==
    CASE x[2] = "main" -> guard[x[1]].phase # "done"
      [] x[2] = "back" -> result = "error" /\ thread[x].tries > 1
      [] OTHER -> FALSE
Reply(x, result) ==
    thread' = [thread EXCEPT ![x] =
        IF Awaited(x, result) THEN [@ EXCEPT !.pc = "replied", !.reply = result] ELSE Idle]
Acquire(x, r) == gate[r] = NULL /\ gate' = [gate EXCEPT ![r] = x]
Release(r) == gate' = [gate EXCEPT ![r] = NULL]
-----------------------------------------------------------------------------
(* start_attempt, under the gate: the checks before a reservation, the     *)
(* reservation, and binding it to the entry.                               *)
StartEnter(x) ==
    LET r == thread[x].request IN
    /\ At(x, "start")
    /\ IF entry[r] = NULL THEN Reply(x, "closed") /\ UNCHANGED gate
                          ELSE Goto(x, "check") /\ Acquire(x, r)
    /\ UNCHANGED <<clock, entry, fence, finish, ledger, guard, faults>>

(* The walk over the rungs ends in a reservation or in exhaustion.  Before *)
(* it the call returns what abandoned the request, or raises on a wrong    *)
(* ordinal or an unbound authority; neither closes the request.            *)
StartCheck(x) ==
    LET r == thread[x].request IN
    /\ At(x, "check")
    /\ \/ Release(r) /\ Goto(x, "after")
       \/ /\ ~entry[r].abandon /\ UNCHANGED gate
          /\ \/ clock[r] = 0 /\ entry[r].total < MaxAttempts /\ Goto(x, "reserve")
             \/ Goto(x, "close")
    /\ UNCHANGED <<clock, entry, fence, finish, ledger, guard, faults>>

(* A rejected or failed reservation wrote nothing.  The walk goes on to    *)
(* another rung only through the checks.                                   *)
StartReserve(x) ==
    LET r == thread[x].request  n == entry[thread[x].request].total IN
    /\ At(x, "reserve")
    /\ \/ /\ ledger' = [ledger EXCEPT ![r].attempt[n] = "dispatched"]
          /\ Goto(x, "bind")
       \/ Goto(x, "close") /\ UNCHANGED ledger
       \/ (entry[r].abandon \/ clock[r] > 0) /\ Goto(x, "check") /\ UNCHANGED ledger
    /\ UNCHANGED <<clock, entry, fence, finish, gate, guard, faults>>

StartBind(x) ==
    LET r == thread[x].request  n == entry[thread[x].request].total IN
    /\ At(x, "bind")
    /\ entry' = [entry EXCEPT ![r].active = n, ![r].total = @ + 1]
    /\ thread' = [thread EXCEPT ![x].pc = "after", ![x].slot = n]
    /\ Release(r)
    /\ UNCHANGED <<clock, fence, finish, ledger, guard, faults>>

(* finish_request_quietly: a failed write is retained by finish. *)
StartClose(x, fault) ==
    /\ At(x, "close")
    /\ FinishRequest(thread[x].request, fault)
    /\ Goto(x, "leave")
    /\ UNCHANGED <<clock, entry, fence, gate, guard>>

StartLeave(x) ==
    LET r == thread[x].request IN
    /\ At(x, "leave")
    /\ Drop(r) /\ Release(r) /\ Goto(x, "after")
    /\ UNCHANGED <<clock, finish, ledger, guard, faults>>

(* The finally block: a request abandoned meanwhile is abandoned now, and  *)
(* its reservation is not handed out.  Only an abandonment can have removed*)
(* an entry that was just bound.                                           *)
StartAfter(x) ==
    LET r == thread[x].request IN
    /\ At(x, "after")
    /\ IF entry[r] # NULL /\ entry[r].abandon
       THEN Goto(x, "abandon")
       ELSE Reply(x, IF entry[r] # NULL /\ thread[x].slot # NULL
                     THEN "started" ELSE "closed")
    /\ UNCHANGED <<clock, entry, fence, finish, gate, ledger, guard, faults>>
-----------------------------------------------------------------------------
(* settle: retain the evidence, take the gate, write it, let go of it.     *)
SettleRetain(x) ==
    LET r == thread[x].request  d == thread[x].data IN
    /\ At(x, "settle")
    /\ IF entry[r] = NULL
       THEN Reply(x, "ok") /\ UNCHANGED entry
       ELSE IF entry[r].pending = NULL
       THEN Goto(x, "sgate") /\ entry' = [entry EXCEPT ![r].pending = d]
       ELSE IF entry[r].pending.attempt # d.attempt
       THEN Reply(x, "error") /\ UNCHANGED entry
       ELSE /\ thread' = [thread EXCEPT ![x].pc = "sgate", ![x].data = entry[r].pending]
            /\ UNCHANGED entry
    /\ UNCHANGED <<clock, fence, finish, gate, ledger, guard, faults>>

SettleGate(x) ==
    LET r == thread[x].request IN
    /\ At(x, "sgate") /\ gate[r] = NULL
    /\ IF entry[r] # NULL /\ entry[r].pending = thread[x].data
       THEN Acquire(x, r) /\ Goto(x, "swrite")
       ELSE Reply(x, "ok") /\ UNCHANGED gate
    /\ UNCHANGED <<clock, entry, fence, finish, ledger, guard, faults>>

(* _commit_settlement.  A write that raises is kept for a retry. *)
SettleFailed(x, refused) ==
    LET r == thread[x].request IN
    /\ Sync(r, [entry[r] EXCEPT !.pending = thread[x].data,
                    !.writeFailed = TRUE, !.refused = refused])
    /\ Release(r) /\ Reply(x, "error")
    /\ UNCHANGED ledger

SettleWrite(x, fault) ==
    LET r == thread[x].request  d == thread[x].data IN
    /\ At(x, "swrite") /\ MayFail(fault)
    /\ IF fault # NULL THEN SettleFailed(x, fault = "refused")
       ELSE IF Conflicts(ledger[r].attempt[d.attempt], d.kind) THEN SettleFailed(x, FALSE)
       ELSE /\ FinishAttempt(r, d.attempt, d.kind, d.finalize)
            /\ Goto(x, "sdone") /\ UNCHANGED <<entry, fence, gate>>
    /\ UNCHANGED <<clock, finish, guard>>

(* "==" between payloads, where "is" also compares the copy. *)
SameSettlement(p, d) == p # NULL /\ [p EXCEPT !.copy = d.copy] = d

SettleDone(x) ==
    LET r == thread[x].request
        d == thread[x].data
        landed == IF SameSettlement(entry[r].pending, d)
                  THEN [entry[r] EXCEPT !.pending = NULL, !.writeFailed = FALSE]
                  ELSE entry[r]
    IN
    /\ At(x, "sdone")
    /\ IF d.finalize THEN Drop(r)
       ELSE Sync(r, IF landed.active = d.attempt
                    THEN [landed EXCEPT !.active = NULL] ELSE landed)
    /\ Release(r)
    /\ IF x = Sweeper THEN Goto(x, "clear") ELSE Reply(x, "ok")
    /\ UNCHANGED <<clock, finish, ledger, guard, faults>>
-----------------------------------------------------------------------------
(* price: quote_settlement.  The host prices the settlement outside every  *)
(* lock; a quote that succeeds leaves it pending on an entry still live.   *)
QuoteCheck(x) ==
    LET r == thread[x].request IN
    /\ At(x, "quote")
    /\ IF entry[r] = NULL \/ entry[r].pending # NULL THEN Reply(x, "error")
                                                    ELSE Goto(x, "priced")
    /\ UNCHANGED <<clock, entry, fence, finish, gate, ledger, guard, faults>>

QuoteUnretained(x, priced) == \* mutant: the price is returned, nothing is retained
    /\ At(x, "priced")
    /\ Reply(x, IF priced THEN "ok" ELSE "error")
    /\ UNCHANGED <<clock, entry, fence, finish, gate, ledger, guard, faults>>
QuoteRetain(x, priced) ==
    LET r == thread[x].request
        kept == entry[r] # NULL /\ entry[r].pending = NULL
    IN
    /\ At(x, "priced")
    /\ Reply(x, IF priced /\ (entry[r] = NULL \/ kept) THEN "ok" ELSE "error")
    /\ entry' = IF priced /\ kept
                THEN [entry EXCEPT ![r].pending = thread[x].data] ELSE entry
    /\ UNCHANGED <<clock, fence, finish, gate, ledger, guard, faults>>
-----------------------------------------------------------------------------
(* abandon: record the intent, then close what the request holds unless    *)
(* another thread has the gate or evidence is waiting.                     *)
AbandonIntend(x) ==
    LET r == thread[x].request IN
    /\ At(x, "abandon")
    /\ IF entry[r] = NULL
       THEN Reply(x, "ok") /\ UNCHANGED entry
       ELSE Goto(x, "agate") /\ entry' = [entry EXCEPT ![r].abandon = TRUE]
    /\ UNCHANGED <<clock, fence, finish, gate, ledger, guard, faults>>

AbandonGateless(x) == \* mutant: does not wait for a reservation in progress
    LET r == thread[x].request IN
    /\ At(x, "agate")
    /\ IF entry[r] # NULL /\ entry[r].pending = NULL
       THEN Goto(x, "awrite") /\ gate' = [gate EXCEPT ![r] = x]
       ELSE Reply(x, "ok") /\ UNCHANGED gate
    /\ UNCHANGED <<clock, entry, fence, finish, ledger, guard, faults>>
AbandonGate(x) ==
    LET r == thread[x].request IN
    /\ At(x, "agate")
    /\ IF gate[r] = NULL /\ entry[r] # NULL /\ entry[r].pending = NULL
       THEN Goto(x, "awrite") /\ Acquire(x, r)
       ELSE Reply(x, "ok") /\ UNCHANGED gate
    /\ UNCHANGED <<clock, entry, fence, finish, ledger, guard, faults>>

AbandonWrite(x, fault) ==
    LET r == thread[x].request  active == entry[thread[x].request].active IN
    /\ At(x, "awrite")
    /\ IF active = NULL THEN FinishRequest(r, fault)
       ELSE /\ MayFail(fault) /\ UNCHANGED finish
            /\ IF fault = NULL THEN FinishAttempt(r, active, "recovered", TRUE)
                               ELSE UNCHANGED ledger
    /\ IF fault = NULL THEN Goto(x, "adone") /\ UNCHANGED <<entry, fence, gate>>
       ELSE /\ Sync(r, [entry[r] EXCEPT !.abandonFailed = TRUE,
                            !.refused = (fault = "refused")])
            /\ Release(r) /\ Reply(x, "error")
    /\ UNCHANGED <<clock, guard>>

(* Evidence that arrived during the write keeps the entry. *)
AbandonDoneBlind(x) == \* mutant: drops it
    LET r == thread[x].request IN
    /\ At(x, "adone") /\ Drop(r) /\ Release(r) /\ Reply(x, "ok")
    /\ UNCHANGED <<clock, finish, ledger, guard, faults>>
AbandonDone(x) ==
    LET r == thread[x].request IN
    /\ At(x, "adone")
    /\ IF entry[r].pending # NULL THEN UNCHANGED <<entry, fence>> ELSE Drop(r)
    /\ Release(r) /\ Reply(x, "ok")
    /\ UNCHANGED <<clock, finish, ledger, guard, faults>>
-----------------------------------------------------------------------------
(* The recovery sweep.  RecoveryRotation visits every pending identity, so *)
(* a pass is one request at a time, in any order.                          *)
SweepCall(r, pc, data) ==
    thread' = [thread EXCEPT ![Sweeper] =
        NewCall(r, pc, data, 0)]

SweepRetry(r, fault) ==
    /\ At(Sweeper, "idle") /\ finish[r] # NULL
    /\ FinishRequest(r, fault)
    /\ UNCHANGED <<clock, entry, fence, gate, guard, thread>>

SweepUncancelled(r) == \* mutant: a cancelled request is not replayed
    /\ At(Sweeper, "idle") /\ r \in Live /\ entry[r].pending # NULL /\ ~entry[r].abandon
    /\ Acquire(Sweeper, r)
    /\ SweepCall(r, "swrite", entry[r].pending)
    /\ UNCHANGED <<clock, entry, fence, finish, ledger, guard, faults>>
SweepReplay(r) ==
    /\ At(Sweeper, "idle") /\ r \in Live /\ entry[r].pending # NULL
    /\ Acquire(Sweeper, r)
    /\ SweepCall(r, "swrite", entry[r].pending)
    /\ UNCHANGED <<clock, entry, fence, finish, ledger, guard, faults>>

SweepClear(x) ==
    LET r == thread[x].request IN
    /\ At(x, "clear")
    /\ entry' = IF r \in Live /\ SameSettlement(entry[r].pending, thread[x].data)
                THEN [entry EXCEPT ![r].pending = NULL] ELSE entry
    /\ Reply(x, "ok")
    /\ UNCHANGED <<clock, fence, finish, gate, ledger, guard, faults>>

SweepAbandoned(r) == \* mutant: forgets requests that are only late
    /\ At(Sweeper, "idle") /\ r \in Live
    /\ entry[r].pending = NULL /\ entry[r].abandon
    /\ SweepCall(r, "abandon", NULL)
    /\ UNCHANGED <<clock, entry, fence, finish, gate, ledger, guard, faults>>
SweepExpired(r) ==
    /\ At(Sweeper, "idle") /\ r \in Live
    /\ entry[r].pending = NULL /\ (entry[r].abandon \/ clock[r] = 2)
    /\ SweepCall(r, "abandon", NULL)
    /\ UNCHANGED <<clock, entry, fence, finish, gate, ledger, guard, faults>>

Expire(r) ==
    /\ r \in Live /\ clock[r] < 2
    /\ clock' = [clock EXCEPT ![r] = @ + 1]
    /\ UNCHANGED <<entry, fence, finish, gate, ledger, guard, thread, faults>>
-----------------------------------------------------------------------------
(* The data plane: one handler per request owns an AttemptGuard. *)
Call(r, who, pc, data, tries) ==
    thread' = [thread EXCEPT ![<<r, who>>] =
        NewCall(r, pc, data, tries)]
Copied(d, who, tries) == [d EXCEPT !.copy = <<who, tries>>]
Result(r, who) == thread[<<r, who>>].reply
Replied(r, who) == At(<<r, who>>, "replied")

CallStart(r) ==
    /\ guard[r].phase = "ready"
    /\ guard' = [guard EXCEPT ![r].phase = "starting"]
    /\ Call(r, "main", "start", NULL, 0)
    /\ UNCHANGED <<clock, entry, fence, finish, gate, ledger, faults>>

(* rebind, or disarm_finalized when the control plane closed the request.  *)
Started(r) ==
    /\ guard[r].phase = "starting" /\ Replied(r, "main")
    /\ guard' = [guard EXCEPT ![r] =
            IF Result(r, "main") = "started"
            THEN [phase |-> "serving", attempt |-> thread[<<r, "main">>].slot, decided |-> NULL]
            ELSE [phase |-> "done", attempt |-> NULL, decided |-> NULL]]
    /\ thread' = [thread EXCEPT ![<<r, "main">>] = Idle]
    /\ UNCHANGED <<clock, entry, fence, finish, gate, ledger, faults>>

(* decide: the outcome is kept before its delivery is awaited. *)
Decide(r, kind, finalize) ==
    LET d == [attempt |-> guard[r].attempt, kind |-> kind, finalize |-> finalize,
              copy |-> <<"main", Tries>>] IN
    /\ guard[r].phase = "serving"
    /\ guard' = [guard EXCEPT ![r].phase = "delivering", ![r].decided = d]
    /\ Call(r, "main", "settle", d, Tries)
    /\ UNCHANGED <<clock, entry, fence, finish, gate, ledger, faults>>

(* price_or_settle: the terminal flushes after a quote and is settled then;*)
(* without a quote it is settled first.                                    *)
DecidePriced(r, kind) ==
    LET d == [attempt |-> guard[r].attempt, kind |-> kind, finalize |-> TRUE,
              copy |-> <<"main", 0>>] IN
    /\ Pricer /\ guard[r].phase = "serving"
    /\ guard' = [guard EXCEPT ![r].phase = "quoting", ![r].decided = d]
    /\ Call(r, "main", "quote", d, Tries)
    /\ UNCHANGED <<clock, entry, fence, finish, gate, ledger, faults>>

Quoted(r) ==
    /\ guard[r].phase = "quoting" /\ Replied(r, "main")
    /\ IF Result(r, "main") = "ok"
       THEN /\ guard' = [guard EXCEPT ![r].phase = "flushed"]
            /\ thread' = [thread EXCEPT ![<<r, "main">>] = Idle]
       ELSE /\ guard' = [guard EXCEPT ![r].phase = "delivering"]
            /\ Call(r, "main", "settle", Copied(guard[r].decided, "main", Tries), Tries)
    /\ UNCHANGED <<clock, entry, fence, finish, gate, ledger, faults>>

SettlePriced(r) ==
    /\ guard[r].phase = "flushed"
    /\ guard' = [guard EXCEPT ![r].phase = "delivering"]
    /\ Call(r, "main", "settle", Copied(guard[r].decided, "main", Tries), Tries)
    /\ UNCHANGED <<clock, entry, fence, finish, gate, ledger, faults>>

(* deliver retries; deliver_decided then updates the guard's ownership.    *)
DeliveredEager(r) == \* mutant: the next attempt does not wait for delivery
    LET x == <<r, "main">> IN
    /\ guard[r].phase = "delivering" /\ Replied(r, "main")
    /\ guard' = [guard EXCEPT ![r] =
            [phase |-> IF guard[r].decided.finalize THEN "done" ELSE "ready",
             attempt |-> NULL, decided |-> NULL]]
    /\ thread' = [thread EXCEPT ![x] = Idle]
    /\ UNCHANGED <<clock, entry, fence, finish, gate, ledger, faults>>
Delivered(r) ==
    LET x == <<r, "main">>
        tries == thread[<<r, "main">>].tries
        ended == [phase |-> "done", attempt |-> NULL, decided |-> NULL]
    IN
    /\ guard[r].phase = "delivering" /\ Replied(r, "main")
    /\ IF Result(r, "main") = "error" /\ tries > 1
       THEN /\ Call(r, "main", "settle", Copied(guard[r].decided, "main", tries - 1), tries - 1)
            /\ UNCHANGED guard
       ELSE /\ thread' = [thread EXCEPT ![x] = Idle]
            /\ guard' = [guard EXCEPT ![r] =
                IF guard[r].decided.finalize THEN ended
                ELSE IF Result(r, "main") = "ok" THEN [ended EXCEPT !.phase = "ready"]
                ELSE [@ EXCEPT !.phase = "fatal"]]
    /\ UNCHANGED <<clock, entry, fence, finish, gate, ledger, faults>>

(* The drop backstop: the decided settlement verbatim, else the active     *)
(* attempt as far as it was observed, else an abandonment, which a handler *)
(* without an attempt also sends itself.  A call of the dropped handler    *)
(* runs on.                                                                *)
DropCall(g, kind) ==
    IF g.decided # NULL THEN Copied(g.decided, "back", Tries)
    ELSE IF g.attempt = NULL THEN NULL
    ELSE [attempt |-> g.attempt, kind |-> kind, finalize |-> TRUE, copy |-> <<"back", Tries>>]

GuardDrop(r, kind) ==
    LET d == DropCall(guard[r], kind) IN
    /\ guard[r].phase \notin {"absent", "done"}
    /\ thread' = [thread EXCEPT
            ![<<r, "back">>] = NewCall(r, IF d = NULL THEN "abandon" ELSE "settle", d, Tries),
            ![<<r, "main">>] = IF @.pc = "replied" THEN Idle ELSE @]
    /\ guard' = [guard EXCEPT ![r] = [phase |-> "done", attempt |-> NULL, decided |-> NULL]]
    /\ UNCHANGED <<clock, entry, fence, finish, gate, ledger, faults>>

(* deliver of the spawned task, after a failed call. *)
Redeliver(r) ==
    LET t == thread[<<r, "back">>] IN
    /\ Replied(r, "back")
    /\ IF t.data = NULL THEN Call(r, "back", "abandon", NULL, t.tries - 1)
       ELSE Call(r, "back", "settle", Copied(t.data, "back", t.tries - 1), t.tries - 1)
    /\ UNCHANGED <<clock, entry, fence, finish, gate, ledger, guard, faults>>
-----------------------------------------------------------------------------
Outcomes == Faults \cup {NULL}
ThreadStep(x) ==
    \/ StartEnter(x) \/ StartCheck(x) \/ StartReserve(x) \/ StartBind(x)
    \/ StartLeave(x) \/ StartAfter(x)
    \/ SettleRetain(x) \/ SettleGate(x) \/ SettleDone(x)
    \/ QuoteCheck(x) \/ QuoteRetain(x, TRUE) \/ QuoteRetain(x, FALSE)
    \/ AbandonIntend(x) \/ AbandonGate(x) \/ AbandonDone(x)
    \/ SweepClear(x)
    \/ \E fault \in Outcomes :
        StartClose(x, fault) \/ SettleWrite(x, fault) \/ AbandonWrite(x, fault)

Sweep(r) ==
    \/ SweepReplay(r) \/ SweepExpired(r)
    \/ \E fault \in Outcomes : SweepRetry(r, fault)

Next ==
    \/ \E x \in Threads : ThreadStep(x)
    \/ \E r \in Requests :
        \/ Admit(r) \/ Expire(r) \/ Sweep(r)
        \/ CallStart(r) \/ Started(r) \/ Quoted(r) \/ SettlePriced(r) \/ Delivered(r) \/ Redeliver(r)
        \/ \E kind \in Kinds : GuardDrop(r, kind) \/ DecidePriced(r, kind)
        \/ \E kind \in Kinds, finalize \in BOOLEAN : Decide(r, kind, finalize)

Spec == Init /\ [][Next]_vars
FairSpec ==
    /\ Spec
    /\ \A x \in Threads : WF_vars(ThreadStep(x))
    /\ \A r \in Requests : WF_vars(Expire(r)) /\ SF_vars(Sweep(r))
-----------------------------------------------------------------------------
Dispatched(r) == {n \in Ordinals : ledger[r].attempt[n] = "dispatched"}

(* Every open reservation has an owner that will close it: the live entry  *)
(* names it as active, or the thread that reserved it holds the gate and is*)
(* about to bind it.  abandon and start_attempt race for the gate.         *)
ReservationsOwned ==
    \A r \in Requests : \A n \in Dispatched(r) :
        /\ r \in Live
        /\ \/ entry[r].active = n
           \/ \E x \in Threads : gate[r] = x /\ At(x, "bind") /\ entry[r].total = n

(* No successor is dispatched over an unsettled attempt.                   *)
OneOpenAttempt == \A r \in Requests : Cardinality(Dispatched(r)) <= 1

(* The constant-time index of fenced requests is exactly the live entries  *)
(* that hold a fencing failed write: none is stranded, none is missed.     *)
FenceExact == fence = {r \in Live : EntryFences(entry[r])}

(* Evidence the registry took responsibility for is never lost: an exact   *)
(* meter leaves the entry, or the entry the registry, only when the ledger *)
(* has it, also when a cancellation was being written as it arrived.       *)
EvidenceKept ==
    [][\A r \in Live :
        LET d == entry[r].pending IN
        (d # NULL /\ d.kind = "exact") =>
            \/ entry'[r] # NULL /\ SameSettlement(entry'[r].pending, d)
            \/ ledger'[r].attempt[d.attempt] = "exact"]_vars

(* recovery_drained: close reports the transport safe to close only when   *)
(* nothing durable is owed: no open reservation and no open request.       *)
RecoveryDrained ==
    /\ Live = {} /\ \A r \in Requests : finish[r] = NULL
    /\ \A r \in Requests, who \in Callers :
            thread[<<r, who>>].pc \notin {"settle", "sgate", "swrite", "sdone"}
DrainSafe ==
    RecoveryDrained =>
        \A r \in Requests : ledger[r].request # "open" /\ Dispatched(r) = {}

(* Every accepted request is closed, with its reservations, by the process *)
(* that accepted it: whatever its handler does, and after failed writes.   *)
RequestsClose ==
    \A r \in Requests :
        (ledger[r].request = "open") ~>
            (ledger[r].request = "closed" /\ Dispatched(r) = {})

(* A failed write stops fencing its organization, unless it conflicts with *)
(* the durable outcome: the sweep lands it, or the request leaves.         *)
Fencing(r) == r \in fence \/ finish[r] = "storage"
Conflicted(r) ==
    /\ r \in Live /\ entry[r].pending # NULL
    /\ Conflicts(ledger[r].attempt[entry[r].pending.attempt], entry[r].pending.kind)
FenceRecovers == \A r \in Requests : Fencing(r) ~> (~Fencing(r) \/ Conflicted(r))

(* gateway-architecture.md:528: "the priced settlement is retained from the*)
(* quote on, so the recovery sweep replays it instead of abandoning the    *)
(* request": an exact meter whose terminal bytes were released is pending, *)
(* or the ledger has it, unless the sweep closed the request while the     *)
(* host priced it.                                                         *)
PricedRetained ==
    \A r \in Requests :
        LET d == guard[r].decided IN
        (guard[r].phase = "flushed" /\ d.kind = "exact" /\ r \in Live) =>
            SameSettlement(entry[r].pending, d)
=============================================================================
