------------------------------ MODULE BatchJobs -----------------------------
(***************************************************************************)
(* One batch job of exp/runtime/gateway/batch/engine.py: submission, the   *)
(* poller that dispatches, polls and settles it, callers that cancel it    *)
(* from threads of their own, the provider, the host's stores and process  *)
(* death.  Jobs meet only in the poller's sequence of passes, so one job   *)
(* is modelled; the poller works on the snapshot its pass listed.  A step  *)
(* is one call of a host store, of the host ledger or of the provider: the *)
(* points between which another thread can run.                            *)
(***************************************************************************)
EXTENDS Naturals, Sequences, FiniteSets

CONSTANTS
    NULL,
    LineIds,      \* custom ids
    Inputs,       \* input files a caller may submit: sequences of raw lines
    Callers,      \* threads that may cancel the job
    MaxCrashes    \* bound: deaths of a thread's process in one behaviour

TERMINAL_STATUSES == {"completed", "failed", "expired", "cancelled"}
Statuses == TERMINAL_STATUSES \cup {"validating", "in_progress", "cancelling"}
Providers == {"openai", "anthropic", "openrouter"}

(* A raw line: its custom id, whether it passes the checks that concern it *)
(* alone, and the deployment the catalog resolves its model to.            *)
RawLine == [id : LineIds \cup {NULL}, valid : BOOLEAN, provider : Providers,
            connection : {"c1", "c2"}, model : {"m1", "m2"}]

(* The persisted job: rows says whether its line counts are above zero.    *)
Job == [status : Statuses, pid : BOOLEAN, rows : BOOLEAN, settled : BOOLEAN]

ASSUME BatchAssumption ==
    /\ NULL \notin LineIds /\ NULL \notin Job
    /\ Inputs \subseteq Seq(RawLine)
    /\ MaxCrashes \in Nat

VARIABLES
    phase,     \* of submit: "new", "reserving", "created", "refused", "lost"
    provider,  \* that serves the job
    lines,     \* ids of its accepted lines
    money,     \* host ledger: state of each line's reservation
    store,     \* host store: the job row, or NULL
    claimed,   \* host store: the one-time dispatch claim is taken
    elapsed,   \* the completion window is over
    remote,    \* the provider's batch
    accepted,  \* history: batches the provider accepted for this job
    poller, caller, crashes
vars == <<phase, provider, lines, money, store, claimed, elapsed, remote, accepted,
          poller, caller, crashes>>

RemoteEnded == remote.state \in TERMINAL_STATUSES
Rows == {l \in lines : remote.line[l] # "open"}
SupportsCancel == provider # "openrouter"

Idle == [pc |-> "idle", job |-> NULL, snap |-> NULL, cut |-> FALSE, rows |-> {},
         todo |-> {}]
CallerIdle == [pc |-> "idle", job |-> NULL]

Init ==
    /\ phase = "new" /\ provider = "openai" /\ lines = {}
    /\ money = [l \in LineIds |-> "none"]
    /\ store = NULL /\ claimed = FALSE /\ elapsed = FALSE
    /\ remote = [state |-> "none", line |-> [l \in LineIds |-> "open"], cut |-> FALSE]
    /\ accepted = 0
    /\ poller = Idle /\ caller = [c \in Callers |-> CallerIdle] /\ crashes = 0
-----------------------------------------------------------------------------
(* Submission.  A line that fails a check of its own is left out; a        *)
(* repeated id, no surviving line, two providers or, where the provider    *)
(* wants one model, two models refuse the file.                            *)
Identified(raw) == {i \in DOMAIN raw : raw[i].id # NULL}
Surviving(raw) == {i \in Identified(raw) : raw[i].valid}
Binding(raw) ==
    raw[CHOOSE i \in Surviving(raw) : \A j \in Surviving(raw) : i <= j]
Accepted(raw) ==
    {i \in Surviving(raw) : raw[i].connection = Binding(raw).connection}
Valid(raw) ==
    /\ \A i, j \in Identified(raw) : raw[i].id = raw[j].id => i = j
    /\ Surviving(raw) # {}
    /\ \A i \in Surviving(raw) : raw[i].provider = Binding(raw).provider
    /\ Binding(raw).provider = "openrouter" =>
        \A i \in Accepted(raw) : raw[i].model = Binding(raw).model

host == <<store, claimed, money>>
world == <<elapsed, remote, accepted>>

Submit(raw) ==
    /\ phase = "new" /\ Valid(raw)
    /\ phase' = "reserving"
    /\ provider' = Binding(raw).provider
    /\ lines' = {raw[i].id : i \in Accepted(raw)}
    /\ UNCHANGED <<host, world, poller, caller, crashes>>

ReserveLine(l) ==
    /\ phase = "reserving" /\ l \in lines /\ money[l] = "none"
    /\ money' = [money EXCEPT ![l] = "reserved"]
    /\ UNCHANGED <<phase, provider, lines, store, claimed, world, poller, caller, crashes>>

(* The ledger's verbs are idempotent: a closed line stays as it is. *)
Closed(l, how) == IF money[l] = "reserved" THEN how ELSE money[l]
ReleaseLines(S) ==
    money' = [l \in LineIds |-> IF l \in S THEN Closed(l, "released") ELSE money[l]]

ReservationRejected ==
    /\ phase = "reserving" /\ \E l \in lines : money[l] = "none"
    /\ ReleaseLines({l \in lines : money[l] = "reserved"})
    /\ phase' = "refused"
    /\ UNCHANGED <<provider, lines, store, claimed, world, poller, caller, crashes>>

CreateJob ==
    /\ phase = "reserving" /\ \A l \in lines : money[l] # "none"
    /\ store' = [status |-> "validating", pid |-> FALSE, rows |-> FALSE, settled |-> FALSE]
    /\ phase' = "created"
    /\ UNCHANGED <<provider, lines, claimed, money, world, poller, caller, crashes>>

submission == <<phase, provider, lines>>
-----------------------------------------------------------------------------
(* The poller: one pass lists the open jobs and advances each.             *)
ListUnfinished == \* mutant: a terminal job is never listed again
    /\ poller.pc = "idle" /\ store # NULL /\ store.status \notin TERMINAL_STATUSES
    /\ poller' = [Idle EXCEPT !.pc = "advance", !.job = store]
    /\ UNCHANGED <<submission, host, world, caller, crashes>>
ListOpen ==
    /\ poller.pc = "idle" /\ store # NULL /\ ~store.settled
    /\ poller' = [Idle EXCEPT !.pc = "advance", !.job = store]
    /\ UNCHANGED <<submission, host, world, caller, crashes>>

AtSnapshot == poller.pc = "advance" /\ poller.job.status \notin TERMINAL_STATUSES
At(pc) == [poller EXCEPT !.pc = pc]
Stay == UNCHANGED <<submission, host, world, caller, crashes>>

ResumeSettlement ==
    /\ poller.pc = "advance" /\ poller.job.status \in TERMINAL_STATUSES
    /\ poller' = At("settle") /\ Stay

Finalize(job, status) ==
    LET final == [job EXCEPT !.status = status] IN
    /\ store' = final
    /\ poller' = [At("settle") EXCEPT !.job = final]
    /\ UNCHANGED <<submission, claimed, money, world, caller, crashes>>

ExpireJob == AtSnapshot /\ elapsed /\ Finalize(poller.job, "expired")

CancelUndispatched ==
    /\ AtSnapshot /\ ~elapsed /\ ~poller.job.pid /\ poller.job.status = "cancelling"
    /\ Finalize(poller.job, "cancelled")

MayDispatch ==
    AtSnapshot /\ ~elapsed /\ ~poller.job.pid /\ poller.job.status # "cancelling"

DispatchUnclaimed == \* mutant: the claim is not checked
    /\ MayDispatch
    /\ claimed' = TRUE /\ poller' = At("submit")
    /\ UNCHANGED <<submission, store, money, world, caller, crashes>>
BeginDispatch ==
    /\ MayDispatch /\ ~claimed
    /\ claimed' = TRUE /\ poller' = At("submit")
    /\ UNCHANGED <<submission, store, money, world, caller, crashes>>

DispatchRefused == MayDispatch /\ claimed /\ poller' = At("reload") /\ Stay

Resolved(job) ==
    job.settled \/ job.pid \/ job.status \in TERMINAL_STATUSES \cup {"cancelling"}
Reload ==
    /\ poller.pc = "reload"
    /\ poller' = IF Resolved(store) THEN Idle ELSE [At("fail") EXCEPT !.job = store]
    /\ Stay
FailDispatch == poller.pc = "fail" /\ Finalize(poller.job, "failed")

(* client.submit: the provider may accept the batch and its answer be      *)
(* lost, or be read as a rejection: any status from 400 on, a gateway's    *)
(* too, and a success without an id raise BatchSubmitError.                *)
ProviderAccepts ==
    /\ remote' = [remote EXCEPT !.state = "running"] /\ accepted' = accepted + 1
SubmitAccepted ==
    /\ poller.pc = "submit" /\ ProviderAccepts
    /\ poller' = [At("accepted") EXCEPT !.job.pid = TRUE, !.job.status = "in_progress"]
    /\ UNCHANGED <<submission, host, elapsed, caller, crashes>>
SubmitAmbiguous ==
    /\ poller.pc = "submit"
    /\ ProviderAccepts \/ UNCHANGED <<remote, accepted>>
    /\ poller' = Idle
    /\ UNCHANGED <<submission, host, elapsed, caller, crashes>>
SubmitRejected ==
    /\ poller.pc = "submit"
    /\ ProviderAccepts \/ UNCHANGED <<remote, accepted>>
    /\ poller' = At("fail")
    /\ UNCHANGED <<submission, host, elapsed, caller, crashes>>

CancelRequested == poller.job.status = "cancelling" \/ store.status = "cancelling"
CheckIntent ==
    /\ poller.pc = "accepted"
    /\ poller' = IF CancelRequested
                 THEN [At("saveIntent") EXCEPT !.job.status = "cancelling"]
                 ELSE At("save")
    /\ Stay

SaveJob(pc) ==
    /\ store' = poller.job
    /\ poller' = IF pc = "idle" THEN Idle ELSE At(pc)
    /\ UNCHANGED <<submission, claimed, money, world, caller, crashes>>
SaveOpen == poller.pc = "save" /\ SaveJob("idle")
SaveIntent ==
    /\ poller.pc = "saveIntent"
    /\ SaveJob(IF SupportsCancel THEN "requestCancel" ELSE "idle")

(* client.cancel lands at the provider or not, whatever its caller learns. *)
CancelCall ==
    \/ /\ remote' = [remote EXCEPT !.state = IF @ = "running" THEN "cancelling" ELSE @]
       /\ UNCHANGED <<elapsed, accepted>>
    \/ UNCHANGED world
RequestCancel ==
    /\ poller.pc = "requestCancel"
    /\ CancelCall /\ poller' = Idle
    /\ UNCHANGED <<submission, host, caller, crashes>>

MayPoll == AtSnapshot /\ ~elapsed /\ poller.job.pid
Recancel ==
    /\ MayPoll /\ poller.job.status = "cancelling" /\ SupportsCancel
    /\ CancelCall
    /\ poller' \in {At("poll"), Idle}
    /\ UNCHANGED <<submission, host, caller, crashes>>
SkipCancel ==
    /\ MayPoll /\ ~(poller.job.status = "cancelling" /\ SupportsCancel)
    /\ poller' = At("poll") /\ Stay

SnapshotStatus == IF remote.state = "running" THEN "in_progress" ELSE remote.state
Poll ==
    /\ poller.pc = "poll"
    /\ poller' = [At("polled") EXCEPT !.snap = SnapshotStatus, !.cut = remote.cut,
                                      !.job.rows = Rows # {}]
    /\ Stay
PollFails == poller.pc = "poll" /\ poller' = Idle /\ Stay

NextStatus ==
    IF ~CancelRequested THEN poller.snap
    ELSE IF poller.snap = "completed" /\ poller.cut THEN "cancelled"
    ELSE IF poller.snap \in TERMINAL_STATUSES THEN poller.snap
    ELSE "cancelling"
ApplySnapshot ==
    /\ poller.pc = "polled"
    /\ poller' = [At(IF NextStatus \in TERMINAL_STATUSES THEN "finalize" ELSE "save")
                    EXCEPT !.job.status = NextStatus, !.snap = NULL, !.cut = FALSE]
    /\ Stay
FinalizePolled == poller.pc = "finalize" /\ Finalize(poller.job, poller.job.status)
-----------------------------------------------------------------------------
(* Settlement.                                                             *)
SettleUnlessSettled ==
    /\ poller.pc = "settle"
    /\ poller' = IF store.settled THEN Idle
                 ELSE IF poller.job.pid THEN At("results")
                 ELSE [At("lines") EXCEPT !.todo = lines]
    /\ Stay

FetchResults ==
    /\ poller.pc = "results"
    /\ poller' = [At("lines") EXCEPT !.todo = lines,
                                     !.rows = IF RemoteEnded THEN Rows ELSE {}]
    /\ Stay
(* A provider error response: retried when result rows were counted.       *)
ResultsRefused ==
    /\ poller.pc = "results"
    /\ poller' = IF poller.job.status = "completed" \/ poller.job.rows THEN Idle
                 ELSE [At("lines") EXCEPT !.todo = lines]
    /\ Stay
ResultsLost == poller.pc = "results" /\ poller' = Idle /\ Stay

SettleLine(l) ==
    /\ poller.pc = "lines" /\ l \in poller.todo
    /\ money' = [money EXCEPT ![l] =
                    Closed(l, IF l \in poller.rows THEN "settled" ELSE "released")]
    /\ poller' = [poller EXCEPT !.todo = @ \ {l}]
    /\ UNCHANGED <<submission, store, claimed, world, caller, crashes>>

SettledEarly == \* mutant: marks the job before its last line
    /\ poller.pc = "lines" /\ Cardinality(poller.todo) <= 1
    /\ store' = [poller.job EXCEPT !.settled = TRUE, !.rows = TRUE]
    /\ poller' = Idle
    /\ UNCHANGED <<submission, claimed, money, world, caller, crashes>>
MarkSettled ==
    /\ poller.pc = "lines" /\ poller.todo = {}
    /\ store' = [poller.job EXCEPT !.settled = TRUE, !.rows = TRUE]
    /\ poller' = Idle
    /\ UNCHANGED <<submission, claimed, money, world, caller, crashes>>
-----------------------------------------------------------------------------
(* Cancellation, on the caller's own thread. *)
CallerAt(c, pc, job) == caller' = [caller EXCEPT ![c] = [pc |-> pc, job |-> job]]
CallerStay == UNCHANGED <<submission, world, poller, crashes>>

LoadForCancel(c) ==
    /\ caller[c].pc = "idle" /\ store # NULL /\ store.status \notin TERMINAL_STATUSES
    /\ store.pid => SupportsCancel
    /\ CallerAt(c, IF store.pid THEN "mark" ELSE "claim", store)
    /\ CallerStay /\ UNCHANGED host

MarkCancelling(c) ==
    LET job == [caller[c].job EXCEPT !.status = "cancelling"] IN
    /\ caller[c].pc = "mark"
    /\ store' = job /\ CallerAt(c, "request", job)
    /\ CallerStay /\ UNCHANGED <<claimed, money>>

CancelAtProvider(c) ==
    /\ caller[c].pc = "request" /\ CancelCall
    /\ \/ CallerAt(c, "save", caller[c].job)
       \/ CallerAt(c, "idle", NULL)
    /\ UNCHANGED <<submission, host, poller, crashes>>

ClaimForgotten(c) == \* mutant: gives the lines back without the claim
    /\ caller[c].pc = "claim"
    /\ CallerAt(c, "release", caller[c].job)
    /\ CallerStay /\ UNCHANGED host
ClaimCancel(c) ==
    /\ caller[c].pc = "claim"
    /\ IF claimed
       THEN CallerAt(c, "save", [caller[c].job EXCEPT !.status = "cancelling"])
       ELSE CallerAt(c, "release", caller[c].job)
    /\ claimed' = TRUE
    /\ CallerStay /\ UNCHANGED <<store, money>>

ReleaseCancelled(c, l) ==
    /\ caller[c].pc = "release" /\ l \in lines /\ money[l] = "reserved"
    /\ ReleaseLines({l})
    /\ CallerStay /\ UNCHANGED <<store, claimed, caller>>

Cancelled(job) == [job EXCEPT !.status = "cancelled", !.settled = TRUE]
ReleasedAll(c) ==
    /\ caller[c].pc = "release" /\ \A l \in lines : money[l] # "reserved"
    /\ CallerAt(c, "save", Cancelled(caller[c].job))
    /\ CallerStay /\ UNCHANGED host

SaveCancel(c) ==
    /\ caller[c].pc = "save"
    /\ store' = caller[c].job /\ CallerAt(c, "idle", NULL)
    /\ CallerStay /\ UNCHANGED <<claimed, money>>
-----------------------------------------------------------------------------
(* The provider, time and process death. *)
RemoteOpen == remote.state \in {"running", "cancelling"}
RemoteStay == UNCHANGED <<submission, host, elapsed, accepted, poller, caller, crashes>>

ServeLine(l, how) ==
    /\ RemoteOpen /\ l \in lines /\ remote.line[l] = "open"
    /\ remote' = [remote EXCEPT !.line[l] = how] /\ RemoteStay

CompleteRemote ==
    /\ RemoteOpen /\ Rows = lines
    /\ remote' = [remote EXCEPT !.state = "completed"] /\ RemoteStay
EndRemote(state) ==
    /\ remote.state = IF state = "cancelled" THEN "cancelling" ELSE "running"
    /\ state = "cancelled" => provider = "openai"
    /\ remote' = [remote EXCEPT !.state = state] /\ RemoteStay
(* A cancelled Anthropic batch ends like a completed one and reports a row *)
(* for each line it cut.                                                   *)
CutRemote ==
    /\ provider = "anthropic" /\ remote.state = "cancelling" /\ Rows # lines
    /\ remote' = [state |-> "completed", cut |-> TRUE,
                  line |-> [l \in LineIds |-> IF l \in lines \ Rows THEN "failed"
                                              ELSE remote.line[l]]]
    /\ RemoteStay

Elapse ==
    /\ ~elapsed /\ phase = "created" /\ elapsed' = TRUE
    /\ UNCHANGED <<submission, host, remote, accepted, poller, caller, crashes>>

MayCrash == crashes < MaxCrashes /\ crashes' = crashes + 1
CrashSubmit ==
    /\ MayCrash /\ phase = "reserving" /\ phase' = "lost"
    /\ UNCHANGED <<provider, lines, host, world, poller, caller>>
CrashPoller ==
    /\ MayCrash /\ poller.pc # "idle" /\ poller' = Idle
    /\ UNCHANGED <<submission, host, world, caller>>
CrashCaller(c) ==
    /\ MayCrash /\ caller[c].pc # "idle" /\ CallerAt(c, "idle", NULL)
    /\ UNCHANGED <<submission, host, world, poller>>

PollerStep ==
    \/ ListOpen \/ ResumeSettlement \/ ExpireJob \/ CancelUndispatched
    \/ BeginDispatch \/ DispatchRefused \/ Reload \/ FailDispatch
    \/ SubmitAccepted \/ SubmitAmbiguous \/ SubmitRejected
    \/ CheckIntent \/ SaveOpen \/ SaveIntent \/ RequestCancel
    \/ Recancel \/ SkipCancel \/ Poll \/ PollFails \/ ApplySnapshot \/ FinalizePolled
    \/ SettleUnlessSettled \/ FetchResults \/ ResultsRefused \/ ResultsLost
    \/ (\E l \in LineIds : SettleLine(l)) \/ MarkSettled
CallerStep(c) ==
    \/ LoadForCancel(c) \/ MarkCancelling(c) \/ CancelAtProvider(c)
    \/ ClaimCancel(c) \/ ReleasedAll(c) \/ SaveCancel(c)
    \/ \E l \in LineIds : ReleaseCancelled(c, l)
Next ==
    \/ \E raw \in Inputs : Submit(raw)
    \/ (\E l \in LineIds : ReserveLine(l)) \/ ReservationRejected \/ CreateJob
    \/ PollerStep
    \/ \E c \in Callers : CallerStep(c) \/ CrashCaller(c)
    \/ \E l \in LineIds, how \in {"served", "failed"} : ServeLine(l, how)
    \/ CompleteRemote \/ CutRemote
    \/ \E state \in {"failed", "expired", "cancelled"} : EndRemote(state)
    \/ Elapse \/ CrashSubmit \/ CrashPoller

Spec == Init /\ [][Next]_vars
(* The poller runs, time passes, and a result file is not unreadable for   *)
(* ever.  Nothing is assumed of callers or of the provider's progress.     *)
FairSpec ==
    /\ Spec /\ WF_vars(PollerStep) /\ WF_vars(Elapse)
    /\ SF_vars(FetchResults)
-----------------------------------------------------------------------------
(* Whatever crashes, lost answers and cancellations happen, the provider   *)
(* is given the job at most once (the claim of begin_dispatch).            *)
SubmitOnce == accepted <= 1

(* A job marked settled holds no reservation: open_jobs never lists it     *)
(* again, so a line left reserved would be held for ever.                  *)
SettledMeansClosed ==
    (store # NULL /\ store.settled) =>
        \A l \in lines : money[l] \in {"settled", "released"}

(* A job that is open, also one that a late cancellation reopened, is      *)
(* settled again.                                                          *)
JobSettles == (store # NULL /\ ~store.settled) ~> (store # NULL /\ store.settled)

(* The engine implements the promise of paid work, line by line: nothing   *)
(* is sent once a line was given back, and no line is closed twice.        *)
Promise == INSTANCE PaidWork WITH
    Units <- LineIds, Waivable <- {}, money <- money,
    sent <- [l \in LineIds |-> IF l \in lines THEN accepted ELSE 0]
PaidWorkSpec == Promise!Spec

(* engine.py:642 says that cancelled, expired and failed provider batches  *)
(* "can still carry billable partial results; settle whatever the provider *)
(* reports and release only the lines that produced nothing": a line the   *)
(* provider ran is not released while its job's batch is known.            *)
ServedLinesSettle ==
    [][\A l \in LineIds :
        poller.pc = "lines" /\ poller.job.pid /\ remote.line[l] = "served"
            /\ money[l] = "reserved" => money'[l] # "released"]_vars
=============================================================================
