------------------------------ MODULE VideoJobs -----------------------------
(***************************************************************************)
(* One video request of exp/runtime/gateway/video/engine.py: the rung walk *)
(* that creates its jobs, and the engines of several processes on the same *)
(* database that poll and settle them (pollers and owner reads alike; the  *)
(* job gate lets one of an engine's threads at a time work on a job).  A   *)
(* step is one call of the ledger, of the job store or of the provider.    *)
(* Failed reads and pass-through fields are left out: a failed read only   *)
(* retries.                                                                *)
(***************************************************************************)
EXTENDS Naturals

CONSTANTS
    NULL,
    Engines,      \* processes that share the database
    Home,         \* the engine that serves the create call
    Depth,        \* bound: rungs of a route
    MaxLoad,      \* bound: rungs of the route and failed durable writes, together
    MaxStops      \* bound: process deaths and shutdowns

Rungs == 1..Depth
Meters == {"zero", "full"}
Events == Meters \cup {"recover", "waive"}

ASSUME VideoAssumption ==
    /\ Home \in Engines /\ Depth \in Nat \ {0}
    /\ MaxLoad \in Nat /\ MaxStops \in Nat

(* gateway_video_jobs: without and with the provider's handle, or settled, *)
(* where billed is "none" when the usage is unknown.                       *)
JobRow == [state : {"unsent", "sent", "settled"}, billed : Meters \cup {"none"}]
(* PendingSettlement *)
Pending == [event : Events, finalize : BOOLEAN, written : BOOLEAN, replay : BOOLEAN]
(* gateway_attempts *)
Attempt == [state : {"none", "open", "completed", "failed", "crash"},
            meter : Meters \cup {"none"}, recovery : BOOLEAN, waived : BOOLEAN]

ASSUME NullAssumption == NULL \notin JobRow /\ NULL \notin Pending

VARIABLES
    route,     \* how many rungs can render the request
    creator,   \* the create call: its step and rung
    request,   \* ledger: terminal state of the request
    att,       \* ledger: the attempt of each rung
    row,       \* job store: the job of each rung, or NULL
    remote,    \* the provider's job of each rung; denied: created behind an
               \* error answer, so without a handle
    age,       \* of each job: 0, 1 past the grace, 2 past settle_by, 3 past
               \* the ledger's deadline
    pend,      \* _pending of each engine
    gate,      \* what the holder of each engine's job gate is about to do
    closing,   \* _poll_stop of each engine
    faults, stops
vars == <<route, creator, request, att, row, remote, age, pend, gate, closing, faults, stops>>

ledger == <<request, att>>
local == <<pend, gate, creator, route>>

Init ==
    /\ route \in Rungs
    /\ creator = [pc |-> "start", rung |-> 1]
    /\ request = "open"
    /\ att = [r \in Rungs |-> [state |-> "none", meter |-> "none",
                               recovery |-> FALSE, waived |-> FALSE]]
    /\ row = [r \in Rungs |-> NULL]
    /\ remote = [r \in Rungs |-> "none"] /\ age = [r \in Rungs |-> 0]
    /\ pend = [e \in Engines |-> [r \in Rungs |-> NULL]]
    /\ gate = [e \in Engines |-> [r \in Rungs |-> [pc |-> "free", create |-> FALSE]]]
    /\ closing = [e \in Engines |-> FALSE]
    /\ faults = 0 /\ stops = 0
-----------------------------------------------------------------------------
(* The ledger's answer to finish_attempt and its effect.                   *)
Provisional(a) == a.recovery \/ a.state = "crash"

LastMeterWins(a, event) == \* mutant: a second meter replaces the first
    IF a.state # "open" /\ event = "waive" /\ ~Provisional(a) THEN "superseded" ELSE "ok"
Answer(a, event) ==
    IF a.state = "open" THEN "ok"
    ELSE IF event = "waive" THEN
        IF Provisional(a) THEN "ok"
        ELSE IF a.meter # "none" THEN "superseded" ELSE "unresolved"
    ELSE IF event \in Meters THEN
        IF a.meter = event \/ (a.meter = "none" /\ Provisional(a)) THEN "ok" ELSE "conflict"
    ELSE IF Provisional(a) \/ a.state = "failed" THEN "ok" ELSE "conflict"

MeterOf(event) == IF event \in Meters THEN event ELSE "none"
StateOf(event) == IF event = "full" THEN "completed" ELSE "failed"

(* An observed meter and a waiver are kept side by side, whichever is first *)
Settled(a, event) ==
    IF a.state = "open"
    THEN [state |-> StateOf(event), meter |-> MeterOf(event),
          recovery |-> event \in {"recover", "waive"}, waived |-> event = "waive"]
    ELSE IF event = "waive" THEN [a EXCEPT !.waived = TRUE]
    ELSE IF event \in Meters THEN [a EXCEPT !.meter = event]
    ELSE a

Finished(p, r) ==
    /\ att' = [att EXCEPT ![r] = Settled(@, p.event)]
    /\ request' = IF att[r].state = "open" /\ p.finalize /\ request = "open"
                  THEN StateOf(p.event) ELSE request

(* reconcile_crashed_requests, when some process starts *)
Sweep(r) ==
    /\ age[1] = 3 /\ att[r].state = "open"
    /\ att' = [att EXCEPT ![r].state = "crash"]
    /\ request' = IF request = "open" THEN "crash" ELSE request
    /\ UNCHANGED <<local, row, remote, age, closing, faults, stops>>
-----------------------------------------------------------------------------
(* Settlement, under the job gate. *)
Retained(event, finalize) ==
    [event |-> event, finalize |-> finalize, written |-> FALSE, replay |-> FALSE]
Owned(e, r, p) == \* setdefault: the first observation is kept
    pend' = [pend EXCEPT ![e][r] = IF @ = NULL THEN p ELSE @]
GateAt(e, r, pc) == gate' = [gate EXCEPT ![e][r].pc = pc]

(* Leaving the gate; the create path goes on to its next rung or returns.  *)
Leave(e, r) ==
    /\ gate' = [gate EXCEPT ![e][r] = [pc |-> "free", create |-> FALSE]]
    /\ creator' = IF ~gate[e][r].create THEN creator
                  ELSE IF creator.pc = "failover" THEN [pc |-> "start", rung |-> r + 1]
                  ELSE [creator EXCEPT !.pc = "done"]
Accept(e, r) == Leave(e, r) /\ pend' = [pend EXCEPT ![e][r] = NULL]
Keep(e, r) == Leave(e, r) /\ UNCHANGED pend
gateStay == UNCHANGED <<remote, age, closing, stops, route>>

Fault == faults + route < MaxLoad /\ faults' = faults + 1

Retry(e, r) ==
    /\ gate[e][r].pc = "free" /\ pend[e][r] # NULL
    /\ GateAt(e, r, "winner")
    /\ gateStay /\ UNCHANGED <<ledger, row, pend, creator, faults>>

PollReply(r) ==
    CASE remote[r] = "done" -> "full"
      [] remote[r] \in {"failed", "forgotten"} -> "zero"
      [] OTHER -> "none"

(* What _refresh decides from the row it reads. *)
Observation(r) ==
    IF row[r].state = "unsent" THEN IF age[r] = 0 THEN "none" ELSE "recover"
    ELSE IF age[r] >= 2 THEN "waive"
    ELSE PollReply(r)

Refresh(e, r) ==
    /\ gate[e][r].pc = "free" /\ pend[e][r] = NULL /\ ~closing[e]
    /\ row[r] # NULL /\ row[r].state # "settled"
    /\ Observation(r) # "none"
    /\ Owned(e, r, Retained(Observation(r), TRUE))
    /\ GateAt(e, r, "winner")
    /\ gateStay /\ UNCHANGED <<ledger, row, creator, faults>>

(* A published job proves neither an exact meter after unknown cleanup nor *)
(* a waiver: the ledger must acknowledge each.                             *)
AnyWinner(p, r, superseded) == \* mutant: a settled job is enough
    row[r] # NULL /\ row[r].state = "settled"
Winner(p, r, superseded) ==
    /\ row[r] # NULL /\ row[r].state = "settled"
    /\ p.written \/ /\ ~p.replay
                    /\ row[r].billed # "none" \/ p.event \notin Meters
                    /\ p.event # "waive" \/ superseded

CheckWinner(e, r) ==
    /\ gate[e][r].pc = "winner"
    /\ IF Winner(pend[e][r], r, FALSE) THEN Accept(e, r)
       ELSE /\ GateAt(e, r, IF pend[e][r].written THEN "publish" ELSE "finish")
            /\ UNCHANGED <<pend, creator>>
    /\ gateStay /\ UNCHANGED <<ledger, row, faults>>

FinishAttempt(e, r) ==
    LET p == pend[e][r] IN
    /\ gate[e][r].pc = "finish" /\ Answer(att[r], p.event) = "ok"
    /\ Finished(p, r)
    /\ pend' = [pend EXCEPT ![e][r].written = TRUE] /\ GateAt(e, r, "publish")
    /\ gateStay /\ UNCHANGED <<row, creator, faults>>

FinishRefused(e, r) ==
    /\ gate[e][r].pc = "finish" /\ Answer(att[r], pend[e][r].event) # "ok"
    /\ GateAt(e, r, Answer(att[r], pend[e][r].event))
    /\ gateStay /\ UNCHANGED <<ledger, row, pend, creator, faults>>

(* The write fails, or lands and its acknowledgment is lost. *)
AssumedWritten(e, r) == \* mutant: an unacknowledged write counts as written
    /\ gate[e][r].pc = "finish" /\ Answer(att[r], pend[e][r].event) = "ok" /\ Fault
    /\ Finished(pend[e][r], r) \/ UNCHANGED ledger
    /\ pend' = [pend EXCEPT ![e][r].written = TRUE] /\ GateAt(e, r, "publish")
    /\ gateStay /\ UNCHANGED <<row, creator>>
FinishFails(e, r) ==
    /\ gate[e][r].pc = "finish" /\ Answer(att[r], pend[e][r].event) = "ok" /\ Fault
    /\ Finished(pend[e][r], r) \/ UNCHANGED ledger
    /\ GateAt(e, r, "conflict")
    /\ gateStay /\ UNCHANGED <<row, pend, creator>>

(* save_open of the closed job: a compare-and-set on settled = 0.          *)
Published(p, r) ==
    row' = IF row[r] # NULL /\ row[r].state # "settled"
           THEN [row EXCEPT ![r] = [state |-> "settled", billed |-> MeterOf(p.event)]]
           ELSE row

Publish(e, r) ==
    /\ gate[e][r].pc = "publish"
    /\ Published(pend[e][r], r) /\ Accept(e, r)
    /\ gateStay /\ UNCHANGED <<ledger, faults>>
PublishFails(e, r) ==
    /\ gate[e][r].pc = "publish" /\ Fault
    /\ Published(pend[e][r], r) \/ UNCHANGED row
    /\ GateAt(e, r, "conflict")
    /\ gateStay /\ UNCHANGED <<ledger, pend, creator>>

Replayable(r) == remote[r] \in {"done", "failed"}
Undelivered == {"conflict", "superseded", "unresolved"}

(* The error path: another engine may have won meanwhile; a superseded     *)
(* waiver is replaced by the provider's terminal, if it can be read.       *)
NeverReplayed(e, r) == \* mutant: a superseded waiver is only retried
    LET won == Winner(pend[e][r], r, gate[e][r].pc # "conflict") IN
    /\ gate[e][r].pc \in Undelivered
    /\ IF won THEN Accept(e, r) ELSE Keep(e, r)
    /\ gateStay /\ UNCHANGED <<ledger, row, faults>>
AfterFailure(e, r) ==
    LET p == pend[e][r]
        error == gate[e][r].pc
        won == Winner(p, r, error # "conflict")
        replayed == /\ error = "superseded" /\ ~closing[e]
                    /\ row[r] # NULL /\ Replayable(r) IN
    /\ error \in Undelivered
    /\ \/ won /\ Accept(e, r)
       \/ ~won /\ ~replayed /\ Keep(e, r)
       \/ /\ ~won /\ replayed
          /\ pend' = [pend EXCEPT ![e][r] = [Retained(PollReply(r), TRUE) EXCEPT !.replay = TRUE]]
          /\ GateAt(e, r, "winner") /\ UNCHANGED creator
    /\ gateStay /\ UNCHANGED <<ledger, row, faults>>
-----------------------------------------------------------------------------
(* create: the rung walk. *)
Rung == creator.rung
CreatorAt(pc) == creator' = [creator EXCEPT !.pc = pc]
createStay == UNCHANGED <<age, closing, stops, route>>

StartAttempt ==
    /\ creator.pc = "start" /\ request = "open"
    /\ att' = [att EXCEPT ![Rung].state = "open"] /\ CreatorAt("record")
    /\ createStay /\ UNCHANGED <<request, row, remote, pend, gate, faults>>
(* A refused reservation, or a request that is terminal already. *)
StartRefused ==
    /\ creator.pc = "start" /\ CreatorAt("done")
    /\ request' = IF request = "open" THEN "failed" ELSE request
    /\ createStay /\ UNCHANGED <<att, row, remote, pend, gate, faults>>

OpenRow == [row EXCEPT ![Rung] = [state |-> "unsent", billed |-> "none"]]
RecordJob ==
    /\ creator.pc = "record" /\ row' = OpenRow /\ CreatorAt("submit")
    /\ createStay /\ UNCHANGED <<ledger, remote, pend, gate, faults>>

(* _settle_created: the gate, then the retained observation.               *)
SettleCreated(event, failover) ==
    /\ gate[Home][Rung].pc = "free"
    /\ Owned(Home, Rung, Retained(event, ~failover))
    /\ gate' = [gate EXCEPT ![Home][Rung] = [pc |-> "winner", create |-> TRUE]]
    /\ creator' = [creator EXCEPT !.pc = IF failover THEN "failover" ELSE "settling"]

RecordFails ==
    /\ creator.pc = "record" /\ Fault
    /\ row' = OpenRow \/ UNCHANGED row
    /\ SettleCreated("zero", FALSE)
    /\ createStay /\ UNCHANGED <<ledger, remote>>

(* Answers 400, 413 and 422 are final.  Of the other error answers, which  *)
(* fail over, the client cannot tell whether a job was created: a          *)
(* gateway's 504 is one of them.                                           *)
MayCreate(eligible) ==
    \/ UNCHANGED remote
    \/ eligible /\ remote' = [remote EXCEPT ![Rung] = "denied"]
(* An error answer, a refused connection, or no target for the upload.     *)
SubmitRejected(eligible) ==
    /\ creator.pc = "submit" /\ MayCreate(eligible)
    /\ SettleCreated("zero", eligible /\ Rung < route)
    /\ createStay /\ UNCHANGED <<ledger, row, faults>>
ResendAmbiguous == \* mutant: a submission that may have landed is failed over
    /\ creator.pc = "submit"
    /\ remote' \in {remote, [remote EXCEPT ![Rung] = "running"]}
    /\ SettleCreated("recover", Rung < route)
    /\ createStay /\ UNCHANGED <<ledger, row, faults>>
SubmitAmbiguous ==
    /\ creator.pc = "submit"
    /\ remote' \in {remote, [remote EXCEPT ![Rung] = "running"]}
    /\ SettleCreated("recover", FALSE)
    /\ createStay /\ UNCHANGED <<ledger, row, faults>>
SubmitAccepted ==
    /\ creator.pc = "submit" /\ remote' = [remote EXCEPT ![Rung] = "running"]
    /\ CreatorAt("accepted")
    /\ createStay /\ UNCHANGED <<ledger, row, pend, gate, faults>>

SaveHandle ==
    /\ creator.pc = "accepted" /\ CreatorAt("done")
    /\ row' = [row EXCEPT ![Rung].state = IF @ = "settled" THEN @ ELSE "sent"]
    /\ createStay /\ UNCHANGED <<ledger, remote, pend, gate, faults>>
SaveHandleFails ==
    /\ creator.pc = "accepted" /\ Fault /\ CreatorAt("done")
    /\ createStay /\ UNCHANGED <<ledger, row, remote, pend, gate>>
-----------------------------------------------------------------------------
(* The provider, time, shutdown and death. *)
RemoteEnds(r, how) ==
    /\ remote[r] = "running" /\ remote' = [remote EXCEPT ![r] = how]
    /\ UNCHANGED <<local, ledger, row, age, closing, faults, stops>>
Forget(r) ==
    /\ remote[r] \in {"running", "done", "failed"}
    /\ remote' = [remote EXCEPT ![r] = "forgotten"]
    /\ UNCHANGED <<local, ledger, row, age, closing, faults, stops>>

Tick(r) ==
    /\ age[r] < IF r = 1 THEN 3 ELSE age[r - 1]
    /\ row[r] # NULL
    /\ age' = [age EXCEPT ![r] = @ + 1]
    /\ UNCHANGED <<local, ledger, row, remote, closing, faults, stops>>

Creating == creator.pc # "done"
Stop == stops < MaxStops /\ stops' = stops + 1

Close(e) ==
    /\ ~closing[e] /\ Stop /\ closing' = [closing EXCEPT ![e] = TRUE]
    /\ UNCHANGED <<local, ledger, row, remote, age, faults>>
(* The poller's exit once _recovery_drained; the process starts again.     *)
Drained(e) ==
    /\ \A r \in Rungs : pend[e][r] = NULL /\ gate[e][r].pc = "free"
    /\ e = Home => ~Creating
Exit(e) ==
    /\ closing[e] /\ Drained(e) /\ closing' = [closing EXCEPT ![e] = FALSE]
    /\ UNCHANGED <<local, ledger, row, remote, age, faults, stops>>

Die(e) ==
    /\ Stop /\ closing' = [closing EXCEPT ![e] = FALSE]
    /\ pend' = [pend EXCEPT ![e] = [r \in Rungs |-> NULL]]
    /\ gate' = [gate EXCEPT ![e] = [r \in Rungs |-> [pc |-> "free", create |-> FALSE]]]
    /\ creator' = IF e = Home THEN [creator EXCEPT !.pc = "done"] ELSE creator
    /\ UNCHANGED <<ledger, row, remote, age, faults, route>>

GateStep(e, r) ==
    \/ CheckWinner(e, r) \/ FinishAttempt(e, r) \/ FinishRefused(e, r) \/ FinishFails(e, r)
    \/ Publish(e, r) \/ PublishFails(e, r) \/ AfterFailure(e, r)
Work(e, r) == Retry(e, r) \/ Refresh(e, r) \/ GateStep(e, r)
Create ==
    \/ StartAttempt \/ StartRefused \/ RecordJob \/ RecordFails
    \/ (\E eligible \in BOOLEAN : SubmitRejected(eligible))
    \/ SubmitAmbiguous \/ SubmitAccepted \/ SaveHandle \/ SaveHandleFails
Next ==
    \/ Create
    \/ \E e \in Engines : Close(e) \/ Exit(e) \/ Die(e) \/ \E r \in Rungs : Work(e, r)
    \/ \E r \in Rungs : Sweep(r) \/ Forget(r) \/ Tick(r)
                        \/ \E how \in {"done", "failed"} : RemoteEnds(r, how)

Spec == Init /\ [][Next]_vars
(* Engines keep polling and retrying, and time passes.  Nothing is assumed *)
(* of callers, of the provider's progress or of a process that closes.     *)
FairSpec ==
    /\ Spec
    /\ \A e \in Engines, r \in Rungs : WF_vars(Work(e, r))
    /\ \A r \in Rungs : WF_vars(Tick(r))
-----------------------------------------------------------------------------
(* A settled job is published only after its ledger write, and bills what  *)
(* the ledger metered, whichever engines raced, failed or died.            *)
PublishedAfterLedger ==
    \A r \in Rungs :
        row[r] # NULL /\ row[r].state = "settled" =>
            /\ att[r].state \notin {"none", "open"}
            /\ row[r].billed # "none" => row[r].billed = att[r].meter

(* A render is bought again only on an error answer: once a submission was *)
(* accepted, or may have landed and got no readable answer, no later rung  *)
(* is sent the request, whatever fails, dies or settles the job meanwhile. *)
OneRender ==
    \A r, q \in Rungs : r < q /\ remote[q] # "none" => remote[r] \in {"none", "denied"}

(* Uncertainty never erases evidence: a retained settlement leaves its     *)
(* engine, other than by death, only when the ledger holds an exact meter  *)
(* for its meter, and for its waiver the waiver or the immutable meter     *)
(* that supersedes it.                                                     *)
EvidenceAcknowledged ==
    [][stops' = stops =>
        \A e \in Engines, r \in Rungs :
            pend[e][r] # NULL /\ pend'[e][r] = NULL =>
                /\ pend[e][r].event \in Meters => att'[r].meter # "none"
                /\ pend[e][r].event = "waive" =>
                       \/ att'[r].waived
                       \/ att'[r].meter # "none" /\ ~Provisional(att'[r])]_vars

(* The engines implement the promise of paid work, rung by rung.           *)
Promise == INSTANCE PaidWork WITH
    Units <- Rungs, Waivable <- Rungs,
    money <- [r \in Rungs |->
                CASE att[r].state = "none" -> "none"
                  [] att[r].waived \/ att[r].meter = "zero" -> "released"
                  [] att[r].meter = "full" /\ ~att[r].waived -> "settled"
                  [] OTHER -> "reserved"],
    sent <- [r \in Rungs |-> IF remote[r] = "none" THEN 0 ELSE 1]
PaidWorkSpec == Promise!Spec

Open(r) == row[r] # NULL /\ row[r].state # "settled"
(* Every recorded job is settled, unless the provider forgets it. *)
JobsSettle == \A r \in Rungs : Open(r) ~> (~Open(r) \/ remote[r] = "forgotten")
=============================================================================
