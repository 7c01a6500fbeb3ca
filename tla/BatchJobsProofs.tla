--------------------------- MODULE BatchJobsProofs --------------------------
(***************************************************************************)
(* Theorems about the batch job engine: a job is submitted once, a settled *)
(* job holds no reservation, and the engine keeps the promise of paid      *)
(* work.                                                                   *)
(***************************************************************************)
EXTENDS BatchJobs, TLAPS

Labels == {"idle", "advance", "submit", "reload", "fail", "accepted", "save",
           "saveIntent", "requestCancel", "poll", "polled", "finalize", "settle",
           "results", "lines"}
PollerState == [pc : Labels, job : Job \cup {NULL}, snap : Statuses \cup {NULL},
                cut : BOOLEAN, rows : SUBSET LineIds, todo : SUBSET LineIds]
CallerState == [pc : {"idle", "mark", "request", "claim", "release", "save"},
                job : Job \cup {NULL}]
RemoteState == [state : Statuses \cup {"none", "running"},
                line : [LineIds -> {"open", "served", "failed"}], cut : BOOLEAN]
MoneyStates == {"none", "reserved", "settled", "released"}

LinesClosed == \A l \in lines : money[l] \in {"settled", "released"}
LinesReserved == \A l \in lines : money[l] = "reserved"

(* The reservations, the provider's batch and the one-time claim.  A batch *)
(* exists at the provider only if the claim was taken.                     *)
CoreInv ==
    /\ phase \in {"new", "reserving", "created", "refused", "lost"}
    /\ lines \in SUBSET LineIds
    /\ money \in [LineIds -> MoneyStates]
    /\ claimed \in BOOLEAN /\ elapsed \in BOOLEAN
    /\ remote \in RemoteState
    /\ accepted \in {0, 1} /\ (accepted = 1 => claimed)
    /\ remote.state = "none" <=> accepted = 0
    /\ phase = "new" => \A l \in LineIds : money[l] = "none"
    /\ phase = "reserving" => \A l \in lines : money[l] \in {"none", "reserved"}
    /\ phase = "created" => \A l \in lines : money[l] # "none"
    /\ phase # "created" => ~claimed

(* Every copy of the job, the stored one, the poller's and the callers',   *)
(* says nothing false: a provider id only of a batch the provider has,     *)
(* settled only of a job whose lines are closed.  Until the claim is taken *)
(* a job that can still be dispatched holds all of its reservations.       *)
Truthful(job) == (job.pid => accepted = 1) /\ (job.settled => LinesClosed)
Fresh(job) == ~job.pid /\ job.status \notin TERMINAL_STATUSES \cup {"cancelling"}
StoreInv ==
    /\ store \in Job \cup {NULL}
    /\ store # NULL <=> phase = "created"
    /\ store # NULL => Truthful(store) /\ (Fresh(store) /\ ~claimed => LinesReserved)

(* The poller, by where it is: alone with the claim in submitting, and in  *)
(* settlement only of a job whose row cannot be dispatched any more; what  *)
(* is not to do is done, and result rows come only of a batch.             *)
Bound == {"accepted", "save", "saveIntent", "requestCancel", "poll", "polled", "finalize"}
Settling == {"settle", "results", "lines"}
PollerInv ==
    /\ poller \in PollerState
    /\ poller.pc # "idle" => store # NULL /\ poller.job # NULL /\ Truthful(poller.job)
    /\ poller.pc = "advance" /\ Fresh(poller.job) /\ ~claimed => LinesReserved
    /\ poller.pc = "submit" => claimed /\ accepted = 0 /\ LinesReserved
    /\ poller.pc \in Bound => poller.job.pid
    /\ poller.pc \in Settling \cup {"finalize"} => poller.job.status \in TERMINAL_STATUSES
    /\ poller.pc = "polled" => poller.snap \in Statuses
    /\ poller.pc \in {"advance"} \cup Settling /\ ~Fresh(poller.job) => ~Fresh(store)
    /\ poller.pc = "lines" =>
        /\ poller.todo \subseteq lines
        /\ \A l \in lines \ poller.todo : money[l] \in {"settled", "released"}
    /\ poller.rows # {} => accepted = 1

(* A caller that gives the lines back holds the claim; what it saves does  *)
(* not make the job fresh again.                                           *)
CallerOK(c) ==
    /\ caller[c].pc # "idle" => /\ store # NULL /\ caller[c].job # NULL
                                /\ Truthful(caller[c].job)
    /\ caller[c].pc \in {"request", "save"} =>
        caller[c].job.status \in {"cancelling", "cancelled"}
    /\ caller[c].pc = "release" => claimed /\ poller.pc # "submit"
CallerInv ==
    /\ caller \in [Callers -> CallerState]
    /\ \A c \in Callers : CallerOK(c)

Inv == CoreInv /\ StoreInv /\ PollerInv /\ CallerInv

-----------------------------------------------------------------------------
LEMMA StatusFacts ==
    /\ TERMINAL_STATUSES \subseteq Statuses /\ "cancelling" \in Statuses
    /\ "validating" \in Statuses /\ "in_progress" \in Statuses
    /\ "cancelling" \notin TERMINAL_STATUSES /\ "cancelled" \in TERMINAL_STATUSES
    /\ "validating" \notin TERMINAL_STATUSES
    /\ Bound \cap Settling = {}
    /\ \A pc \in {"idle", "advance", "submit"} : pc \notin Bound \cup Settling
BY DEF TERMINAL_STATUSES, Statuses, Bound, Settling

(* A poller that has given up its job owes nothing. *)
LEMMA IdlePoller ==
    ASSUME poller' = Idle
    PROVE  PollerInv' /\ poller'.pc = "idle"
<1>1. Idle \in PollerState /\ Idle.pc = "idle" /\ Idle.rows = {}
  BY DEF Idle, PollerState, Labels
<1> QED BY <1>1, StatusFacts DEF PollerInv

(* Moving the poller on leaves the rest of its state alone. *)
LEMMA AtFields ==
    ASSUME PollerInv, NEW pc \in Labels
    PROVE  /\ At(pc) \in PollerState /\ At(pc).pc = pc /\ At(pc).job = poller.job
           /\ At(pc).snap = poller.snap /\ At(pc).cut = poller.cut
           /\ At(pc).rows = poller.rows /\ At(pc).todo = poller.todo
BY DEF PollerInv, PollerState, At

Rest == <<phase, lines, money, store, claimed, elapsed, remote, accepted, caller>>

LEMMA PollerKeeps ==
    ASSUME Inv, UNCHANGED Rest, PollerInv', poller'.pc # "submit"
    PROVE  Inv'
<1>i. CoreInv /\ StoreInv /\ CallerInv BY DEF Inv
<1>1. CoreInv' BY <1>i DEF CoreInv, Rest
<1>2. StoreInv' BY <1>i DEF StoreInv, Rest, Truthful, LinesClosed, LinesReserved, Fresh
<1>3. CallerInv' BY <1>i DEF CallerInv, CallerOK, Rest, Truthful, LinesClosed
<1> QED BY <1>1, <1>2, <1>3 DEF Inv

LEMMA PollerMovesKeep ==
    ASSUME Inv, NEW pc \in Labels, poller' = At(pc), UNCHANGED Rest, poller.pc # "idle",
           pc \in Bound => poller.job.pid,
           pc \in {"polled", "submit", "finalize", "advance", "idle", "lines"} => FALSE,
           pc \in Settling => poller.job.status \in TERMINAL_STATUSES /\ ~Fresh(store)
    PROVE  Inv'
<1>i. PollerInv BY DEF Inv
<1>1. /\ poller' \in PollerState /\ poller'.pc = pc /\ poller'.job = poller.job
      /\ poller'.rows = poller.rows
  BY <1>i, AtFields
<1>2. PollerInv'
  BY <1>1, <1>i, StatusFacts
     DEF PollerInv, Rest, Truthful, LinesClosed, LinesReserved, Fresh, Settling, Bound
<1> QED BY <1>1, <1>2, PollerKeeps

LEMMA QuietPollerSteps ==
    ASSUME Inv, \/ ListOpen \/ ResumeSettlement \/ DispatchRefused \/ Reload \/ CheckIntent
                \/ SkipCancel \/ PollFails \/ SettleUnlessSettled \/ FetchResults
                \/ ResultsRefused \/ ResultsLost \/ Poll \/ ApplySnapshot
    PROVE  Inv'
<1>i. CoreInv /\ StoreInv /\ PollerInv BY DEF Inv
<1>t. poller \in PollerState /\ poller.job \in Job \cup {NULL}
  BY <1>i DEF PollerInv, PollerState
<1>r. UNCHANGED Rest
  BY DEF ListOpen, ResumeSettlement, DispatchRefused, Reload, CheckIntent, SkipCancel, PollFails,
         SettleUnlessSettled, FetchResults, ResultsRefused, ResultsLost, Poll, ApplySnapshot,
         Stay, submission, host, world, Rest
<1>0. ASSUME poller' = Idle PROVE Inv'
  BY <1>0, <1>r, IdlePoller, PollerKeeps
<1>1. CASE ListOpen
  <2>1. poller' = [Idle EXCEPT !.pc = "advance", !.job = store] /\ store # NULL
    BY <1>1 DEF ListOpen
  <2>2. store \in Job BY <2>1, <1>i DEF StoreInv
  <2>3. poller' \in PollerState /\ poller'.pc = "advance" /\ poller'.job = store
        /\ poller'.rows = {}
    BY <2>1, <2>2 DEF Idle, PollerState, Labels
  <2>4. PollerInv'
    BY <2>1, <2>3, <1>r, <1>i, StatusFacts
       DEF PollerInv, StoreInv, Rest, Truthful, LinesClosed, LinesReserved, Fresh
  <2> QED BY <2>3, <2>4, <1>r, PollerKeeps
<1>2. CASE ResumeSettlement
  <2>1. poller.pc = "advance" /\ poller.job.status \in TERMINAL_STATUSES /\ poller' = At("settle")
    BY <1>2 DEF ResumeSettlement
  <2>2. ~Fresh(store) BY <2>1, <1>i DEF PollerInv, Fresh
  <2>3. "settle" \in Labels /\ "settle" \notin Bound BY DEF Labels, Bound
  <2> QED BY <2>1, <2>2, <2>3, <1>r, PollerMovesKeep
<1>3. CASE DispatchRefused
  <2>1. poller.pc = "advance" /\ poller' = At("reload")
    BY <1>3 DEF DispatchRefused, MayDispatch, AtSnapshot
  <2>2. "reload" \in Labels \ (Bound \cup Settling) BY DEF Labels, Bound, Settling
  <2> QED BY <2>1, <2>2, <1>r, PollerMovesKeep
<1>4. CASE Reload
  <2>1. CASE poller' = Idle BY <2>1, <1>0
  <2>2. CASE poller' = [At("fail") EXCEPT !.job = store]
    <3>1. poller.pc = "reload" /\ store # NULL /\ store \in Job
      BY <1>4, <1>i DEF Reload, PollerInv, StoreInv
    <3>2. "fail" \in Labels \ (Bound \cup Settling) BY DEF Labels, Bound, Settling
    <3>3. At("fail") \in PollerState /\ At("fail").pc = "fail"
          /\ At("fail").rows = poller.rows
      BY <3>2, <1>i, AtFields
    <3>4. poller' \in PollerState /\ poller'.pc = "fail" /\ poller'.job = store
          /\ poller'.rows = poller.rows
      BY <2>2, <3>1, <3>3 DEF PollerState
    <3>5. PollerInv'
      BY <3>1, <3>2, <3>4, <1>r, <1>i
         DEF PollerInv, StoreInv, Rest, Truthful, LinesClosed, LinesReserved, Fresh
    <3> QED BY <3>4, <3>5, <1>r, PollerKeeps
  <2> QED BY <1>4, <2>1, <2>2 DEF Reload
<1>5. CASE CheckIntent
  <2>1. poller.pc = "accepted" /\ poller.job.pid /\ poller.job \in Job
    BY <1>5, <1>i, <1>t DEF CheckIntent, PollerInv, Bound
  <2>2. CASE poller' = At("save")
    <3>1. "save" \in Labels \ Settling BY DEF Labels, Settling
    <3> QED BY <2>1, <2>2, <3>1, <1>r, PollerMovesKeep
  <2>3. CASE poller' = [At("saveIntent") EXCEPT !.job.status = "cancelling"]
    <3>1. "saveIntent" \in Labels \ Settling BY DEF Labels, Settling
    <3>2. /\ At("saveIntent") \in PollerState /\ At("saveIntent").pc = "saveIntent"
          /\ At("saveIntent").job = poller.job /\ At("saveIntent").rows = poller.rows
      BY <3>1, <1>i, AtFields
    <3>3. /\ poller' \in PollerState /\ poller'.pc = "saveIntent"
          /\ poller'.job \in Job /\ poller'.job.pid = poller.job.pid
          /\ poller'.job.settled = poller.job.settled /\ poller'.rows = poller.rows
      BY <2>1, <2>3, <3>2, StatusFacts DEF PollerState, Job
    <3>4. poller'.job # NULL BY <3>3, BatchAssumption
    <3>5. PollerInv'
      BY <2>1, <3>1, <3>3, <3>4, <1>r, <1>i
         DEF PollerInv, Rest, Truthful, LinesClosed, LinesReserved, Fresh
    <3> QED BY <3>3, <3>5, <1>r, PollerKeeps
  <2> QED BY <1>5, <2>2, <2>3 DEF CheckIntent
<1>6. CASE SkipCancel
  <2>1. poller.pc = "advance" /\ poller.job.pid /\ poller' = At("poll")
    BY <1>6 DEF SkipCancel, MayPoll, AtSnapshot
  <2>2. "poll" \in Labels \ Settling BY DEF Labels, Settling
  <2> QED BY <2>1, <2>2, <1>r, PollerMovesKeep
<1>7. CASE PollFails \/ ResultsLost BY <1>0, <1>7 DEF PollFails, ResultsLost
<1>8. CASE SettleUnlessSettled \/ FetchResults \/ ResultsRefused
  <2>1. /\ poller.pc \in {"settle", "results"} /\ poller.job.status \in TERMINAL_STATUSES
        /\ ~Fresh(store)
    BY <1>8, <1>i DEF SettleUnlessSettled, FetchResults, ResultsRefused, PollerInv, Settling, Fresh
  <2>2. CASE poller' = Idle BY <1>0, <2>2
  <2>3. CASE poller' = At("results")
    <3>1. "results" \in Labels \ Bound BY DEF Labels, Bound
    <3> QED BY <2>1, <2>3, <3>1, <1>r, PollerMovesKeep
  <2>4. CASE \E rows \in SUBSET LineIds :
               /\ poller' = [At("lines") EXCEPT !.todo = lines, !.rows = rows]
               /\ rows # {} => accepted = 1
    <3>1. PICK rows \in SUBSET LineIds :
               /\ poller' = [At("lines") EXCEPT !.todo = lines, !.rows = rows]
               /\ rows # {} => accepted = 1
      BY <2>4
    <3>2. "lines" \in Labels \ Bound BY DEF Labels, Bound
    <3>3. At("lines") \in PollerState /\ At("lines").pc = "lines" /\ At("lines").job = poller.job
      BY <3>2, <1>i, AtFields
    <3>4. /\ poller' \in PollerState /\ poller'.pc = "lines" /\ poller'.job = poller.job
          /\ poller'.todo = lines /\ poller'.rows = rows
      BY <3>1, <3>3, <1>i DEF PollerState, CoreInv
    <3>5. PollerInv'
      BY <2>1, <3>1, <3>2, <3>4, <1>r, <1>i
         DEF PollerInv, Rest, Truthful, LinesClosed, LinesReserved, Fresh
    <3> QED BY <3>4, <3>5, <1>r, PollerKeeps
  <2>5. ASSUME poller' = [At("lines") EXCEPT !.todo = lines] PROVE Inv'
    <3>1. At("lines") \in PollerState /\ At("lines").rows = poller.rows
      BY <1>i, AtFields DEF Labels
    <3>2. poller' = [At("lines") EXCEPT !.todo = lines, !.rows = poller.rows]
      BY <2>5, <3>1 DEF PollerState
    <3>3. poller.rows \in SUBSET LineIds /\ (poller.rows # {} => accepted = 1)
      BY <1>i, <1>t DEF PollerInv, PollerState
    <3> QED BY <3>2, <3>3, <2>4
  <2>6. CASE FetchResults
    <3>1. RemoteEnded => accepted = 1
      <4>1. "none" \notin TERMINAL_STATUSES BY DEF TERMINAL_STATUSES
      <4> QED BY <4>1, <1>i DEF RemoteEnded, CoreInv
    <3>2. Rows \in SUBSET LineIds BY <1>i DEF Rows, CoreInv
    <3>3. PICK rows \in SUBSET LineIds : rows = IF RemoteEnded THEN Rows ELSE {}
      BY <3>2
    <3>4. poller' = [At("lines") EXCEPT !.todo = lines, !.rows = rows]
      BY <2>6, <3>3 DEF FetchResults
    <3> QED BY <3>1, <3>3, <3>4, <2>4
  <2> QED BY <1>8, <2>2, <2>3, <2>5, <2>6 DEF SettleUnlessSettled, ResultsRefused
<1>9. CASE Poll
  <2>1. /\ poller.pc = "poll" /\ poller.job.pid /\ poller.job \in Job
        /\ poller' = [At("polled") EXCEPT !.snap = SnapshotStatus, !.cut = remote.cut,
                                          !.job.rows = Rows # {}]
    BY <1>9, <1>i, <1>t DEF Poll, PollerInv, Bound
  <2>2. SnapshotStatus \in Statuses /\ remote.cut \in BOOLEAN
    <3>1. accepted = 1 BY <2>1, <1>i DEF PollerInv, Truthful
    <3>2. remote.state # "none" BY <3>1, <1>i DEF CoreInv
    <3> QED BY <3>2, <1>i, StatusFacts DEF SnapshotStatus, CoreInv, RemoteState
  <2>3. "polled" \in Labels \ Settling BY DEF Labels, Settling
  <2>4. /\ At("polled") \in PollerState /\ At("polled").pc = "polled"
        /\ At("polled").job = poller.job /\ At("polled").rows = poller.rows
    BY <2>3, <1>i, AtFields
  <2>5. PICK b \in BOOLEAN : b = (Rows # {}) OBVIOUS
  <2>6. /\ poller' \in PollerState /\ poller'.pc = "polled" /\ poller'.snap = SnapshotStatus
        /\ poller'.job \in Job /\ poller'.job.pid = poller.job.pid
        /\ poller'.job.settled = poller.job.settled /\ poller'.rows = poller.rows
    <3>1. poller' = [At("polled") EXCEPT !.snap = SnapshotStatus, !.cut = remote.cut,
                                          !.job.rows = b]
      BY <2>1, <2>5
    <3>2. /\ [poller.job EXCEPT !.rows = b] \in Job
          /\ [poller.job EXCEPT !.rows = b].pid = poller.job.pid
          /\ [poller.job EXCEPT !.rows = b].settled = poller.job.settled
      BY <2>1 DEF Job
    <3>3. /\ poller'.job = [poller.job EXCEPT !.rows = b] /\ poller'.pc = "polled"
          /\ poller'.snap = SnapshotStatus /\ poller'.rows = poller.rows
      BY <3>1, <2>4 DEF PollerState
    <3>4. poller' \in PollerState
      BY <3>1, <3>2, <2>2, <2>4 DEF PollerState
    <3> QED BY <3>2, <3>3, <3>4
  <2>7. poller'.job # NULL BY <2>6, BatchAssumption
  <2>8. PollerInv'
    BY <2>1, <2>2, <2>3, <2>6, <2>7, <1>r, <1>i
       DEF PollerInv, Rest, Truthful, LinesClosed, LinesReserved, Fresh
  <2> QED BY <2>6, <2>8, <1>r, PollerKeeps
<1>10. CASE ApplySnapshot
  <2> DEFINE pc == IF NextStatus \in TERMINAL_STATUSES THEN "finalize" ELSE "save"
  <2>1. /\ poller.pc = "polled" /\ poller.job.pid /\ poller.job \in Job
        /\ poller.snap \in Statuses
        /\ poller' = [At(pc) EXCEPT !.job.status = NextStatus, !.snap = NULL, !.cut = FALSE]
    BY <1>10, <1>i, <1>t DEF ApplySnapshot, PollerInv, Bound
  <2>2. NextStatus \in Statuses BY <2>1, StatusFacts DEF NextStatus
  <2>3. pc \in Labels \ Settling /\ pc \in {"finalize", "save"}
        /\ (pc = "finalize" => NextStatus \in TERMINAL_STATUSES)
    BY DEF Labels, Settling
  <2> HIDE DEF pc
  <2>4. /\ At(pc) \in PollerState /\ At(pc).pc = pc
        /\ At(pc).job = poller.job /\ At(pc).rows = poller.rows
    BY <2>3, <1>i, AtFields
  <2>5. /\ poller' \in PollerState /\ poller'.pc = pc
        /\ poller'.job \in Job /\ poller'.job.pid = poller.job.pid
        /\ poller'.job.status = NextStatus
        /\ poller'.job.settled = poller.job.settled /\ poller'.rows = poller.rows
    BY <2>1, <2>2, <2>4 DEF PollerState, Job
  <2>6. poller'.job # NULL BY <2>5, BatchAssumption
  <2>7. PollerInv'
    BY <2>1, <2>3, <2>5, <2>6, <1>r, <1>i
       DEF PollerInv, Rest, Truthful, LinesClosed, LinesReserved, Fresh
  <2> QED BY <2>3, <2>5, <2>7, <1>r, PollerKeeps
<1> QED BY <1>1, <1>2, <1>3, <1>4, <1>5, <1>6, <1>7, <1>8, <1>9, <1>10

-----------------------------------------------------------------------------
(* Dispatch.  The claim is taken by a poller whose job is fresh and whose  *)
(* lines are all reserved, and by nobody after it.                         *)
LEMMA BeginDispatchKeeps ==
    ASSUME Inv, BeginDispatch
    PROVE  Inv'
<1>i. CoreInv /\ StoreInv /\ PollerInv /\ CallerInv BY DEF Inv
<1>1. /\ poller.pc = "advance" /\ Fresh(poller.job) /\ ~claimed /\ claimed' = TRUE
      /\ poller' = At("submit")
      /\ UNCHANGED <<phase, lines, store, money, elapsed, remote, accepted, caller>>
  BY DEF BeginDispatch, MayDispatch, AtSnapshot, Fresh, submission, world
<1>2. "submit" \in Labels BY DEF Labels
<1>3. poller' \in PollerState /\ poller'.pc = "submit" /\ poller'.job = poller.job
      /\ poller'.rows = poller.rows
  BY <1>1, <1>2, <1>i, AtFields
<1>4. phase = "created" /\ LinesReserved /\ accepted = 0
  BY <1>1, <1>i DEF PollerInv, StoreInv, CoreInv
<1>5. CoreInv' BY <1>1, <1>4, <1>i DEF CoreInv
<1>6. StoreInv' BY <1>1, <1>i DEF StoreInv, Truthful, LinesClosed, Fresh
<1>7. PollerInv'
  BY <1>1, <1>3, <1>4, <1>i, StatusFacts
     DEF PollerInv, Truthful, LinesClosed, LinesReserved, Fresh
<1>8. CallerInv'
  BY <1>1, <1>i DEF CallerInv, CallerOK, Truthful, LinesClosed
<1> QED BY <1>5, <1>6, <1>7, <1>8 DEF Inv

LEMMA AcceptsEffect ==
    ASSUME Inv, poller.pc = "submit", ProviderAccepts,
           UNCHANGED <<phase, lines, money, store, claimed, elapsed, caller>>,
           poller'.pc # "submit"
    PROVE  CoreInv' /\ StoreInv' /\ CallerInv' /\ accepted' = 1
<1>i. CoreInv /\ StoreInv /\ PollerInv /\ CallerInv BY DEF Inv
<1>1. claimed /\ accepted = 0 BY <1>i DEF PollerInv
<1>2. /\ remote' = [remote EXCEPT !.state = "running"] /\ accepted' = 1
  BY <1>1 DEF ProviderAccepts
<1>3. remote' \in RemoteState /\ remote'.state = "running"
  BY <1>2, <1>i DEF CoreInv, RemoteState
<1>4. CoreInv' BY <1>1, <1>2, <1>3, <1>i DEF CoreInv
<1>5. StoreInv' BY <1>1, <1>2, <1>i DEF StoreInv, Truthful, LinesClosed, LinesReserved, Fresh
<1>6. CallerInv' BY <1>1, <1>2, <1>i DEF CallerInv, CallerOK, Truthful, LinesClosed
<1> QED BY <1>2, <1>4, <1>5, <1>6

LEMMA SubmitKeeps ==
    ASSUME Inv, SubmitAccepted \/ SubmitAmbiguous \/ SubmitRejected
    PROVE  Inv'
<1>i. CoreInv /\ StoreInv /\ PollerInv /\ CallerInv BY DEF Inv
<1>r. poller.pc = "submit" /\ UNCHANGED <<phase, lines, money, store, claimed, elapsed, caller>>
  BY DEF SubmitAccepted, SubmitAmbiguous, SubmitRejected, submission, host
<1>1. CASE SubmitAccepted
  <2>1. /\ ProviderAccepts /\ poller.job \in Job
        /\ poller' = [At("accepted") EXCEPT !.job.pid = TRUE, !.job.status = "in_progress"]
    BY <1>1, <1>r, <1>i DEF SubmitAccepted, PollerInv, PollerState
  <2>2. "accepted" \in Labels \ Settling BY DEF Labels, Settling
  <2>3. /\ At("accepted") \in PollerState /\ At("accepted").pc = "accepted"
        /\ At("accepted").job = poller.job /\ At("accepted").rows = poller.rows
    BY <2>2, <1>i, AtFields
  <2>4. /\ poller' \in PollerState /\ poller'.pc = "accepted"
        /\ poller'.job \in Job /\ poller'.job.pid = TRUE
        /\ poller'.job.settled = poller.job.settled /\ poller'.rows = poller.rows
    BY <2>1, <2>3, StatusFacts DEF PollerState, Job
  <2>5. CoreInv' /\ StoreInv' /\ CallerInv' /\ accepted' = 1
    BY <2>1, <2>4, <1>r, AcceptsEffect
  <2>6. poller'.job # NULL BY <2>4, BatchAssumption
  <2>7. PollerInv'
    BY <2>2, <2>4, <2>5, <2>6, <1>r, <1>i
       DEF PollerInv, Truthful, LinesClosed, LinesReserved, Fresh
  <2> QED BY <2>5, <2>7 DEF Inv
<1>2. CASE SubmitAmbiguous
  <2>1. PollerInv' /\ poller'.pc = "idle" BY <1>2, IdlePoller DEF SubmitAmbiguous
  <2>2. CASE ProviderAccepts
    <3>1. CoreInv' /\ StoreInv' /\ CallerInv'
      BY <2>1, <2>2, <1>r, AcceptsEffect
    <3> QED BY <2>1, <3>1 DEF Inv
  <2>3. CASE UNCHANGED <<remote, accepted>>
    BY <2>1, <2>3, <1>r, PollerKeeps DEF Rest
  <2> QED BY <1>2, <2>2, <2>3 DEF SubmitAmbiguous
<1>3. CASE SubmitRejected
  <2>1. poller' = At("fail") BY <1>3 DEF SubmitRejected
  <2>2. "fail" \in Labels \ (Bound \cup Settling) BY DEF Labels, Bound, Settling
  <2>3. /\ poller' \in PollerState /\ poller'.pc = "fail" /\ poller'.job = poller.job
        /\ poller'.rows = poller.rows
    BY <2>1, <2>2, <1>i, AtFields
  <2>4. CASE ProviderAccepts
    <3>1. CoreInv' /\ StoreInv' /\ CallerInv' /\ accepted' = 1
      BY <2>3, <2>4, <1>r, AcceptsEffect
    <3>2. PollerInv'
      BY <2>2, <2>3, <3>1, <1>r, <1>i
         DEF PollerInv, Truthful, LinesClosed, LinesReserved, Fresh
    <3> QED BY <3>1, <3>2 DEF Inv
  <2>5. CASE UNCHANGED <<remote, accepted>>
    <3>1. UNCHANGED Rest BY <2>5, <1>r DEF Rest
    <3> QED BY <2>1, <2>2, <3>1, <1>r, PollerMovesKeep
  <2> QED BY <1>3, <2>4, <2>5 DEF SubmitRejected
<1> QED BY <1>1, <1>2, <1>3

-----------------------------------------------------------------------------
(* The job row is written by the poller: terminal, or with a provider id.  *)
LEMMA StoreWritten ==
    ASSUME Inv, UNCHANGED <<phase, lines, money, claimed, elapsed, remote, accepted, caller>>,
           PollerInv', poller'.pc # "submit", store # NULL,
           store' \in Job, Truthful(store'), ~Fresh(store')
    PROVE  Inv'
<1>i. CoreInv /\ StoreInv /\ CallerInv BY DEF Inv
<1>0. store' # NULL BY BatchAssumption
<1>1. CoreInv' BY <1>i DEF CoreInv
<1>2. StoreInv' BY <1>0, <1>i DEF StoreInv, Truthful, LinesClosed, LinesReserved, Fresh
<1>3. CallerInv' BY <1>0, <1>i DEF CallerInv, CallerOK, Truthful, LinesClosed
<1> QED BY <1>1, <1>2, <1>3 DEF Inv

LEMMA FinalizeKeeps ==
    ASSUME Inv, poller.pc # "idle", NEW status \in TERMINAL_STATUSES,
           Finalize(poller.job, status)
    PROVE  Inv'
<1> DEFINE final == [poller.job EXCEPT !.status = status]
<1>i. CoreInv /\ StoreInv /\ PollerInv BY DEF Inv
<1>1. /\ store' = final /\ poller' = [At("settle") EXCEPT !.job = final]
      /\ UNCHANGED <<phase, lines, claimed, money, elapsed, remote, accepted, caller>>
  BY DEF Finalize, submission, world
<1>2. poller.job \in Job /\ store # NULL /\ Truthful(poller.job)
  BY <1>i DEF PollerInv, PollerState
<1>3. /\ final \in Job /\ final.status = status /\ final.pid = poller.job.pid
      /\ final.settled = poller.job.settled
  BY <1>2, StatusFacts DEF Job
<1> HIDE DEF final
<1>4. "settle" \in Labels \ Bound BY DEF Labels, Bound
<1>5. At("settle") \in PollerState /\ At("settle").pc = "settle" /\ At("settle").rows = poller.rows
  BY <1>4, <1>i, AtFields
<1>6. poller' \in PollerState /\ poller'.pc = "settle" /\ poller'.job = final
      /\ poller'.rows = poller.rows
  BY <1>1, <1>3, <1>5 DEF PollerState
<1>7. final # NULL /\ ~Fresh(final) /\ Truthful(final)
  BY <1>2, <1>3, BatchAssumption DEF Fresh, Truthful
<1>8. PollerInv'
  BY <1>1, <1>2, <1>3, <1>4, <1>6, <1>7, <1>i
     DEF PollerInv, Truthful, LinesClosed, LinesReserved, Fresh
<1> QED BY <1>1, <1>2, <1>3, <1>6, <1>7, <1>8, StoreWritten

LEMMA FinalizingSteps ==
    ASSUME Inv, ExpireJob \/ CancelUndispatched \/ FailDispatch \/ FinalizePolled
    PROVE  Inv'
<1>i. PollerInv BY DEF Inv
<1>1. {"expired", "cancelled", "failed"} \subseteq TERMINAL_STATUSES BY DEF TERMINAL_STATUSES
<1>2. CASE ExpireJob BY <1>1, <1>2, FinalizeKeeps DEF ExpireJob, AtSnapshot
<1>3. CASE CancelUndispatched BY <1>1, <1>3, FinalizeKeeps DEF CancelUndispatched, AtSnapshot
<1>4. CASE FailDispatch BY <1>1, <1>4, FinalizeKeeps DEF FailDispatch
<1>5. CASE FinalizePolled
  <2>1. poller.pc = "finalize" /\ poller.job.status \in TERMINAL_STATUSES
    BY <1>5, <1>i DEF FinalizePolled, PollerInv
  <2>2. PICK status \in TERMINAL_STATUSES : status = poller.job.status BY <2>1
  <2> QED BY <1>5, <2>1, <2>2, FinalizeKeeps DEF FinalizePolled
<1> QED BY <1>2, <1>3, <1>4, <1>5

LEMMA SavingSteps ==
    ASSUME Inv, SaveOpen \/ SaveIntent
    PROVE  Inv'
<1>i. CoreInv /\ StoreInv /\ PollerInv BY DEF Inv
<1>1. /\ poller.pc \in {"save", "saveIntent"} /\ store' = poller.job
      /\ poller' = Idle \/ poller' = At("requestCancel")
      /\ UNCHANGED <<phase, lines, claimed, money, elapsed, remote, accepted, caller>>
  BY DEF SaveOpen, SaveIntent, SaveJob, submission, world
<1>2. poller.job \in Job /\ store # NULL /\ Truthful(poller.job) /\ poller.job.pid
  BY <1>1, <1>i DEF PollerInv, PollerState, Bound
<1>3. ~Fresh(poller.job) BY <1>2 DEF Fresh
<1>4. PollerInv' /\ poller'.pc # "submit"
  <2>1. CASE poller' = Idle BY <2>1, IdlePoller
  <2>2. CASE poller' = At("requestCancel")
    <3>1. "requestCancel" \in Labels \ Settling BY DEF Labels, Settling
    <3>2. /\ poller' \in PollerState /\ poller'.pc = "requestCancel" /\ poller'.job = poller.job
          /\ poller'.rows = poller.rows
      BY <2>2, <3>1, <1>i, AtFields
    <3>3. store' # NULL BY <1>1, <1>2, BatchAssumption
    <3> QED BY <3>1, <3>2, <3>3, <1>1, <1>2, <1>i
            DEF PollerInv, Truthful, LinesClosed, LinesReserved, Fresh
  <2> QED BY <1>1, <2>1, <2>2
<1> QED BY <1>1, <1>2, <1>3, <1>4, StoreWritten

LEMMA MarkSettledKeeps ==
    ASSUME Inv, MarkSettled
    PROVE  Inv'
<1> DEFINE final == [poller.job EXCEPT !.settled = TRUE, !.rows = TRUE]
<1>i. CoreInv /\ StoreInv /\ PollerInv BY DEF Inv
<1>1. /\ poller.pc = "lines" /\ poller.todo = {} /\ store' = final /\ poller' = Idle
      /\ UNCHANGED <<phase, lines, claimed, money, elapsed, remote, accepted, caller>>
  BY DEF MarkSettled, submission, world
<1>2. /\ poller.job \in Job /\ store # NULL /\ Truthful(poller.job)
      /\ poller.job.status \in TERMINAL_STATUSES /\ LinesClosed
  BY <1>1, <1>i DEF PollerInv, PollerState, Settling, LinesClosed
<1>3. final \in Job /\ final.status = poller.job.status /\ final.pid = poller.job.pid
  BY <1>2 DEF Job
<1>4. ~Fresh(final) /\ Truthful(final) BY <1>2, <1>3 DEF Fresh, Truthful
<1> HIDE DEF final
<1>5. PollerInv' /\ poller'.pc # "submit" BY <1>1, IdlePoller
<1> QED BY <1>1, <1>2, <1>3, <1>4, <1>5, StoreWritten

-----------------------------------------------------------------------------
(* Money: a closed line stays closed. *)
LEMMA ClosesKeep ==
    ASSUME Inv, phase = "created", money' \in [LineIds -> MoneyStates],
           \A l \in LineIds : money[l] = "reserved" \/ money'[l] = money[l],
           \A l \in LineIds : money[l] = "reserved" => money'[l] # "none",
           UNCHANGED <<phase, lines, claimed, elapsed, remote, accepted, store, caller>>,
           PollerInv', poller'.pc # "submit", ~Fresh(store) \/ claimed
    PROVE  Inv'
<1>i. CoreInv /\ StoreInv /\ CallerInv BY DEF Inv
<1>0. LinesClosed => LinesClosed' BY <1>i DEF LinesClosed, CoreInv
<1>1. CoreInv' BY <1>i DEF CoreInv
<1>2. StoreInv' BY <1>0, <1>i DEF StoreInv, Truthful, LinesReserved, Fresh
<1>3. CallerInv' BY <1>0, <1>i DEF CallerInv, CallerOK, Truthful
<1> QED BY <1>1, <1>2, <1>3 DEF Inv

LEMMA SettleLineKeeps ==
    ASSUME Inv, NEW l \in LineIds, SettleLine(l)
    PROVE  Inv'
<1>i. CoreInv /\ StoreInv /\ PollerInv BY DEF Inv
<1> DEFINE how == IF l \in poller.rows THEN "settled" ELSE "released"
<1>1. /\ poller.pc = "lines" /\ l \in poller.todo
      /\ money' = [money EXCEPT ![l] = Closed(l, how)]
      /\ poller' = [poller EXCEPT !.todo = @ \ {l}]
      /\ UNCHANGED <<phase, lines, store, claimed, elapsed, remote, accepted, caller>>
  BY DEF SettleLine, submission, world
<1>2. /\ poller.job # NULL /\ store # NULL /\ poller.todo \subseteq lines
      /\ phase = "created" /\ poller.job.status \in TERMINAL_STATUSES /\ ~Fresh(store)
  BY <1>1, <1>i DEF PollerInv, StoreInv, Settling, Fresh
<1>3. how \in {"settled", "released"} OBVIOUS
<1> HIDE DEF how
<1>4. /\ money' \in [LineIds -> MoneyStates]
      /\ \A m \in LineIds \ {l} : money'[m] = money[m]
      /\ money'[l] = IF money[l] = "reserved" THEN how ELSE money[l]
  BY <1>1, <1>3, <1>i DEF CoreInv, Closed, MoneyStates
<1>5. money'[l] \in {"settled", "released"}
  BY <1>1, <1>2, <1>3, <1>4, <1>i DEF CoreInv, MoneyStates
<1>6. /\ poller' \in PollerState /\ poller'.pc = "lines" /\ poller'.job = poller.job
      /\ poller'.rows = poller.rows /\ poller'.todo = poller.todo \ {l}
  BY <1>1, <1>i DEF PollerInv, PollerState
<1>7. LinesClosed => LinesClosed' BY <1>1, <1>4, <1>i DEF LinesClosed, CoreInv
<1>8. PollerInv'
  <2>1. "lines" \notin Bound /\ "lines" \in Settling BY DEF Bound, Settling
  <2>2. \A m \in lines \ poller'.todo : money'[m] \in {"settled", "released"}
    BY <1>1, <1>4, <1>5, <1>6, <1>i DEF PollerInv, CoreInv
  <2> QED BY <2>1, <2>2, <1>1, <1>2, <1>6, <1>7, <1>i DEF PollerInv, Truthful, Fresh
<1> QED BY <1>1, <1>2, <1>3, <1>4, <1>6, <1>8, ClosesKeep

-----------------------------------------------------------------------------
(* The provider's batch changes state, time passes, a process dies. *)
LEMMA WorldKeeps ==
    ASSUME Inv, UNCHANGED <<phase, lines, money, claimed, accepted, store, caller>>,
           remote' \in RemoteState, remote'.state = "none" <=> remote.state = "none",
           elapsed' \in BOOLEAN, PollerInv', poller'.pc # "submit" \/ poller' = poller
    PROVE  Inv'
<1>i. CoreInv /\ StoreInv /\ CallerInv BY DEF Inv
<1>1. CoreInv' BY <1>i DEF CoreInv
<1>2. StoreInv' BY <1>i DEF StoreInv, Truthful, LinesClosed, LinesReserved, Fresh
<1>3. CallerInv' BY <1>i DEF CallerInv, CallerOK, Truthful, LinesClosed
<1> QED BY <1>1, <1>2, <1>3 DEF Inv

LEMMA CancelCallEffect ==
    ASSUME Inv, CancelCall
    PROVE  /\ remote' \in RemoteState /\ UNCHANGED <<elapsed, accepted>>
           /\ remote'.state = "none" <=> remote.state = "none"
<1>1. remote \in RemoteState BY DEF Inv, CoreInv
<1>2. CASE UNCHANGED world BY <1>1, <1>2 DEF world
<1>3. CASE remote' = [remote EXCEPT !.state = IF @ = "running" THEN "cancelling" ELSE @]
           /\ UNCHANGED <<elapsed, accepted>>
  BY <1>1, <1>3, StatusFacts DEF RemoteState
<1> QED BY <1>2, <1>3 DEF CancelCall

LEMMA PollerSame ==
    ASSUME Inv, UNCHANGED <<lines, money, claimed, accepted, store, poller>>
    PROVE  PollerInv'
<1>i. PollerInv BY DEF Inv
<1> QED BY <1>i DEF PollerInv, Truthful, LinesClosed, LinesReserved, Fresh

LEMMA CancellingSteps ==
    ASSUME Inv, RequestCancel \/ Recancel
    PROVE  Inv'
<1>i. CoreInv /\ PollerInv BY DEF Inv
<1>1. /\ CancelCall /\ UNCHANGED <<phase, lines, money, store, claimed, caller>>
      /\ poller' = Idle \/ (/\ poller' = At("poll") /\ poller.pc = "advance"
                            /\ poller.job.pid)
  BY DEF RequestCancel, Recancel, MayPoll, AtSnapshot, submission, host
<1>2. /\ remote' \in RemoteState /\ UNCHANGED <<elapsed, accepted>>
      /\ remote'.state = "none" <=> remote.state = "none"
  BY <1>1, CancelCallEffect
<1>3. PollerInv' /\ poller'.pc # "submit"
  <2>1. CASE poller' = Idle BY <2>1, IdlePoller
  <2>2. CASE poller' = At("poll") /\ poller.pc = "advance" /\ poller.job.pid
    <3>1. "poll" \in Labels \ Settling BY DEF Labels, Settling
    <3>2. /\ poller' \in PollerState /\ poller'.pc = "poll" /\ poller'.job = poller.job
          /\ poller'.rows = poller.rows
      BY <2>2, <3>1, <1>i, AtFields
    <3> QED BY <2>2, <3>1, <3>2, <1>1, <1>2, <1>i
            DEF PollerInv, Truthful, LinesClosed, LinesReserved, Fresh
  <2> QED BY <1>1, <2>1, <2>2
<1>4. elapsed' \in BOOLEAN BY <1>2, <1>i DEF CoreInv
<1> QED BY <1>1, <1>2, <1>3, <1>4, WorldKeeps

LEMMA WorldSteps ==
    ASSUME Inv,
           \/ \E l \in LineIds, how \in {"served", "failed"} : ServeLine(l, how)
           \/ CompleteRemote \/ CutRemote \/ Elapse \/ CrashPoller
           \/ \E state \in {"failed", "expired", "cancelled"} : EndRemote(state)
    PROVE  Inv'
<1>i. CoreInv BY DEF Inv
<1>0. remote \in RemoteState /\ elapsed \in BOOLEAN /\ lines \in SUBSET LineIds
  BY <1>i DEF CoreInv
<1>r. UNCHANGED <<phase, lines, money, claimed, accepted, store, caller>>
  BY DEF ServeLine, CompleteRemote, CutRemote, Elapse, CrashPoller, EndRemote, RemoteStay,
         submission, host, world
<1>1. ASSUME RemoteStay, remote' \in RemoteState, remote'.state # "none", remote.state # "none"
      PROVE  Inv'
  <2>1. UNCHANGED <<elapsed, poller>> BY <1>1 DEF RemoteStay
  <2>2. PollerInv' BY <1>r, <2>1, PollerSame
  <2> QED BY <1>0, <1>1, <1>r, <2>1, <2>2, WorldKeeps
<1>2. RemoteOpen => remote.state # "none" BY DEF RemoteOpen
<1>3. ASSUME NEW l \in LineIds, NEW how \in {"served", "failed"}, ServeLine(l, how) PROVE Inv'
  <2>1. RemoteStay /\ RemoteOpen /\ remote' = [remote EXCEPT !.line[l] = how]
    BY <1>3 DEF ServeLine
  <2>2. [remote.line EXCEPT ![l] = how] \in [LineIds -> {"open", "served", "failed"}]
    BY <1>0 DEF RemoteState
  <2>3. remote' \in RemoteState /\ remote'.state = remote.state
    BY <2>1, <2>2, <1>0 DEF RemoteState
  <2> QED BY <2>1, <2>3, <1>1, <1>2
<1>4. CASE CompleteRemote
  <2>1. RemoteStay /\ RemoteOpen /\ remote' = [remote EXCEPT !.state = "completed"]
    BY <1>4 DEF CompleteRemote
  <2>2. remote' \in RemoteState /\ remote'.state = "completed"
    BY <2>1, <1>0 DEF RemoteState, Statuses, TERMINAL_STATUSES
  <2> QED BY <2>1, <2>2, <1>1, <1>2
<1>5. ASSUME NEW state \in {"failed", "expired", "cancelled"}, EndRemote(state) PROVE Inv'
  <2>1. RemoteStay /\ remote.state # "none" /\ remote' = [remote EXCEPT !.state = state]
    BY <1>5 DEF EndRemote
  <2>2. remote' \in RemoteState /\ remote'.state = state
    BY <2>1, <1>0 DEF RemoteState, Statuses, TERMINAL_STATUSES
  <2> QED BY <2>1, <2>2, <1>1
<1>6. CASE CutRemote
  <2>1. RemoteStay /\ remote.state # "none"
    BY <1>6 DEF CutRemote
  <2>2. PICK cut \in [LineIds -> {"open", "served", "failed"}] :
            remote' = [state |-> "completed", cut |-> TRUE, line |-> cut]
    BY <1>6, <1>0 DEF CutRemote, RemoteState
  <2>3. remote' \in RemoteState /\ remote'.state = "completed"
    BY <2>2 DEF RemoteState, Statuses, TERMINAL_STATUSES
  <2> QED BY <2>1, <2>3, <1>1
<1>7. CASE Elapse
  <2>1. elapsed' = TRUE /\ UNCHANGED <<remote, poller>> BY <1>7 DEF Elapse
  <2>2. PollerInv' BY <1>r, <2>1, PollerSame
  <2> QED BY <1>0, <1>r, <2>1, <2>2, WorldKeeps
<1>8. CASE CrashPoller
  <2>1. poller' = Idle /\ UNCHANGED <<elapsed, remote>> BY <1>8 DEF CrashPoller, world
  <2>2. PollerInv' /\ poller'.pc # "submit" BY <2>1, IdlePoller
  <2> QED BY <1>0, <1>r, <2>1, <2>2, WorldKeeps
<1> QED BY <1>3, <1>4, <1>5, <1>6, <1>7, <1>8

-----------------------------------------------------------------------------
(* Submission: until the job row is created nobody else works on it. *)
LEMMA NobodyElse ==
    ASSUME Inv, phase # "created"
    PROVE  /\ store = NULL /\ ~claimed /\ accepted = 0 /\ poller.pc = "idle"
           /\ poller \in PollerState /\ poller.rows = {}
           /\ caller \in [Callers -> CallerState]
           /\ \A c \in Callers : caller[c].pc = "idle"
<1>i. CoreInv /\ StoreInv /\ PollerInv /\ CallerInv BY DEF Inv
<1>1. store = NULL /\ ~claimed /\ accepted = 0 BY <1>i DEF CoreInv, StoreInv
<1>2. poller.pc = "idle" /\ poller \in PollerState /\ poller.rows = {}
  BY <1>1, <1>i DEF PollerInv
<1>3. caller \in [Callers -> CallerState] /\ \A c \in Callers : caller[c].pc = "idle"
  BY <1>1, <1>i DEF CallerInv, CallerOK
<1> QED BY <1>1, <1>2, <1>3

LEMMA SubmissionKeeps ==
    ASSUME Inv, phase # "created", CoreInv', StoreInv', UNCHANGED <<poller, caller>>
    PROVE  Inv'
<1>1. /\ poller.pc = "idle" /\ poller \in PollerState /\ poller.rows = {}
      /\ caller \in [Callers -> CallerState] /\ \A c \in Callers : caller[c].pc = "idle"
  BY NobodyElse
<1>2. PollerInv' BY <1>1, StatusFacts DEF PollerInv
<1>3. CallerInv' BY <1>1 DEF CallerInv, CallerOK
<1> QED BY <1>2, <1>3 DEF Inv

LEMMA SubmissionSteps ==
    ASSUME Inv, \/ \E raw \in Inputs : Submit(raw)
                \/ \E l \in LineIds : ReserveLine(l)
                \/ ReservationRejected \/ CreateJob \/ CrashSubmit
    PROVE  Inv'
<1>i. CoreInv /\ StoreInv BY DEF Inv
<1>0. phase # "created" /\ UNCHANGED <<claimed, elapsed, remote, accepted, poller, caller>>
  BY DEF Submit, ReserveLine, ReservationRejected, CreateJob, CrashSubmit, host, world
<1>1. store = NULL /\ ~claimed /\ accepted = 0 BY <1>0, NobodyElse
<1>2. ASSUME store' = NULL, phase' # "created" PROVE StoreInv'
  BY <1>2 DEF StoreInv
<1>3. ASSUME NEW raw \in Inputs, Submit(raw) PROVE Inv'
  <2>1. /\ phase = "new" /\ phase' = "reserving" /\ UNCHANGED <<money, store>>
        /\ lines' = {raw[i].id : i \in Accepted(raw)}
    BY <1>3 DEF Submit, host
  <2>2. raw \in Seq(RawLine) BY BatchAssumption
  <2>3. lines' \subseteq LineIds
    <3>1. \A i \in Accepted(raw) : i \in DOMAIN raw /\ raw[i].id # NULL
      BY DEF Accepted, Surviving, Identified
    <3>2. \A i \in DOMAIN raw : raw[i] \in RawLine BY <2>2
    <3>3. \A i \in Accepted(raw) : raw[i].id \in LineIds BY <3>1, <3>2 DEF RawLine
    <3> QED BY <2>1, <3>3
  <2>4. CoreInv' BY <2>1, <2>3, <1>0, <1>i DEF CoreInv
  <2> QED BY <2>1, <2>4, <1>0, <1>1, <1>2, SubmissionKeeps
<1>4. ASSUME NEW l \in LineIds, ReserveLine(l) PROVE Inv'
  <2>1. /\ phase = "reserving" /\ phase' = phase /\ UNCHANGED <<lines, store>>
        /\ l \in lines /\ money' = [money EXCEPT ![l] = "reserved"]
    BY <1>4 DEF ReserveLine
  <2>2. CoreInv' BY <2>1, <1>0, <1>i DEF CoreInv, MoneyStates
  <2> QED BY <2>1, <2>2, <1>0, <1>1, <1>2, SubmissionKeeps
<1>5. CASE ReservationRejected
  <2>1. /\ phase = "reserving" /\ phase' = "refused" /\ UNCHANGED <<lines, store>>
        /\ money' \in [LineIds -> MoneyStates]
    BY <1>5, <1>i DEF ReservationRejected, ReleaseLines, Closed, CoreInv, MoneyStates
  <2>2. CoreInv' BY <2>1, <1>0, <1>1, <1>i DEF CoreInv
  <2> QED BY <2>1, <2>2, <1>0, <1>1, <1>2, SubmissionKeeps
<1>6. CASE CreateJob
  <2>1. /\ phase = "reserving" /\ phase' = "created" /\ UNCHANGED <<lines, money>>
        /\ \A l \in lines : money[l] # "none"
        /\ store' = [status |-> "validating", pid |-> FALSE, rows |-> FALSE, settled |-> FALSE]
    BY <1>6 DEF CreateJob
  <2>2. store' \in Job /\ ~store'.pid /\ ~store'.settled BY <2>1, StatusFacts DEF Job
  <2>3. LinesReserved' BY <2>1, <1>i DEF CoreInv, LinesReserved
  <2>4. StoreInv' BY <2>1, <2>2, <2>3, BatchAssumption DEF StoreInv, Truthful
  <2>5. CoreInv' BY <2>1, <1>0, <1>i DEF CoreInv
  <2> QED BY <2>4, <2>5, <1>0, SubmissionKeeps
<1>7. CASE CrashSubmit
  <2>1. phase' = "lost" /\ UNCHANGED <<lines, money, store>> BY <1>7 DEF CrashSubmit, host
  <2>2. CoreInv' BY <2>1, <1>0, <1>1, <1>i DEF CoreInv
  <2> QED BY <2>1, <2>2, <1>0, <1>1, <1>2, SubmissionKeeps
<1> QED BY <1>3, <1>4, <1>5, <1>6, <1>7

-----------------------------------------------------------------------------
(* A caller thread moves: only its own copy of the job is new. *)
LEMMA CallerFields ==
    ASSUME Inv, NEW c \in Callers, NEW job \in Job \cup {NULL},
           NEW pc \in {"idle", "mark", "request", "claim", "release", "save"},
           CallerAt(c, pc, job)
    PROVE  /\ caller' \in [Callers -> CallerState]
           /\ caller'[c].pc = pc /\ caller'[c].job = job
           /\ \A d \in Callers \ {c} : caller'[d] = caller[d]
<1>1. caller \in [Callers -> CallerState] BY DEF Inv, CallerInv
<1>2. [pc |-> pc, job |-> job] \in CallerState BY DEF CallerState
<1> QED BY <1>1, <1>2 DEF CallerAt

LEMMA CallersKept ==
    ASSUME Inv, NEW c \in Callers, CallerOK(c)',
           caller' \in [Callers -> CallerState],
           \A d \in Callers \ {c} : caller'[d] = caller[d],
           store' = store \/ store' # NULL,
           UNCHANGED <<lines, accepted, poller>>, claimed => claimed',
           LinesClosed => LinesClosed'
    PROVE  CallerInv'
<1>i. CallerInv BY DEF Inv
<1>1. ASSUME NEW d \in Callers \ {c} PROVE CallerOK(d)'
  BY <1>i DEF CallerInv, CallerOK, Truthful
<1> QED BY <1>1 DEF CallerInv

LEMMA CallerQuiet ==
    ASSUME Inv, NEW c \in Callers, CallerOK(c)',
           caller' \in [Callers -> CallerState],
           \A d \in Callers \ {c} : caller'[d] = caller[d],
           UNCHANGED <<phase, lines, money, store, claimed, elapsed, accepted, poller>>,
           remote' \in RemoteState, remote'.state = "none" <=> remote.state = "none"
    PROVE  Inv'
<1>i. CoreInv /\ StoreInv BY DEF Inv
<1>1. CoreInv' BY <1>i DEF CoreInv
<1>2. StoreInv' BY <1>i DEF StoreInv, Truthful, LinesClosed, LinesReserved, Fresh
<1>3. PollerInv' BY PollerSame
<1>4. LinesClosed => LinesClosed' BY DEF LinesClosed
<1>5. CallerInv' BY <1>4, CallersKept
<1> QED BY <1>1, <1>2, <1>3, <1>5 DEF Inv

(* Any row a caller writes says that the job is being, or is, cancelled. *)
LEMMA CallerWrites ==
    ASSUME Inv, NEW c \in Callers, CallerOK(c)',
           caller' \in [Callers -> CallerState],
           \A d \in Callers \ {c} : caller'[d] = caller[d],
           UNCHANGED <<phase, lines, money, claimed, elapsed, remote, accepted, poller>>,
           store # NULL, store' \in Job, Truthful(store'), ~Fresh(store')
    PROVE  Inv'
<1>i. CoreInv /\ StoreInv /\ PollerInv BY DEF Inv
<1>0. store' # NULL BY BatchAssumption
<1>1. CoreInv' BY <1>i DEF CoreInv
<1>2. StoreInv' BY <1>0, <1>i DEF StoreInv, Truthful, LinesClosed, LinesReserved, Fresh
<1>3. PollerInv' BY <1>0, <1>i DEF PollerInv, Truthful, LinesClosed, LinesReserved, Fresh
<1>4. LinesClosed => LinesClosed' BY DEF LinesClosed
<1>5. CallerInv' BY <1>0, <1>4, CallersKept
<1> QED BY <1>1, <1>2, <1>3, <1>5 DEF Inv

LEMMA LoadForCancelKeeps ==
    ASSUME Inv, NEW c \in Callers, LoadForCancel(c)
    PROVE  Inv'
<1>i. CoreInv /\ StoreInv BY DEF Inv
<1> DEFINE pc == IF store.pid THEN "mark" ELSE "claim"
<1>1. /\ store # NULL /\ CallerAt(c, pc, store)
      /\ UNCHANGED <<phase, lines, money, store, claimed, elapsed, remote, accepted, poller>>
  BY DEF LoadForCancel, CallerStay, host, submission, world
<1>2. pc \in {"mark", "claim"} OBVIOUS
<1> HIDE DEF pc
<1>3. store \in Job /\ Truthful(store) BY <1>1, <1>i DEF StoreInv
<1>4. /\ caller' \in [Callers -> CallerState] /\ caller'[c].pc = pc /\ caller'[c].job = store
      /\ \A d \in Callers \ {c} : caller'[d] = caller[d]
  BY <1>1, <1>2, <1>3, CallerFields
<1>5. CallerOK(c)' BY <1>1, <1>2, <1>3, <1>4 DEF CallerOK, Truthful, LinesClosed
<1>6. remote' \in RemoteState BY <1>1, <1>i DEF CoreInv
<1> QED BY <1>1, <1>4, <1>5, <1>6, CallerQuiet

LEMMA HeldByCaller ==
    ASSUME Inv, NEW c \in Callers, caller[c].pc # "idle"
    PROVE  /\ store # NULL /\ store \in Job /\ caller[c].job \in Job
           /\ Truthful(caller[c].job) /\ phase = "created"
           /\ caller[c].pc \in {"mark", "request", "claim", "release", "save"}
BY DEF Inv, StoreInv, CallerInv, CallerOK, CallerState

LEMMA MarkCancellingKeeps ==
    ASSUME Inv, NEW c \in Callers, MarkCancelling(c)
    PROVE  Inv'
<1> DEFINE job == [caller[c].job EXCEPT !.status = "cancelling"]
<1>1. /\ caller[c].pc = "mark" /\ store' = job /\ CallerAt(c, "request", job)
      /\ UNCHANGED <<phase, lines, money, claimed, elapsed, remote, accepted, poller>>
  BY DEF MarkCancelling, CallerStay, submission, world
<1>2. store # NULL /\ caller[c].job \in Job /\ Truthful(caller[c].job)
  BY <1>1, HeldByCaller
<1>3. /\ job \in Job /\ job.status = "cancelling" /\ job.pid = caller[c].job.pid
      /\ job.settled = caller[c].job.settled
  BY <1>2, StatusFacts DEF Job
<1> HIDE DEF job
<1>4. job # NULL /\ Truthful(job) /\ ~Fresh(job)
  BY <1>2, <1>3, BatchAssumption DEF Truthful, Fresh
<1>5. /\ caller' \in [Callers -> CallerState] /\ caller'[c].pc = "request"
      /\ caller'[c].job = job /\ \A d \in Callers \ {c} : caller'[d] = caller[d]
  BY <1>1, <1>3, CallerFields
<1>6. CallerOK(c)' BY <1>1, <1>3, <1>4, <1>5 DEF CallerOK, Truthful, LinesClosed
<1> QED BY <1>1, <1>2, <1>3, <1>4, <1>5, <1>6, CallerWrites

LEMMA CancelAtProviderKeeps ==
    ASSUME Inv, NEW c \in Callers, CancelAtProvider(c) \/ CrashCaller(c)
    PROVE  Inv'
<1>i. CoreInv /\ CallerInv BY DEF Inv
<1>1. /\ caller[c].pc # "idle"
      /\ UNCHANGED <<phase, lines, money, store, claimed, poller>>
      /\ \/ CallerAt(c, "save", caller[c].job) /\ caller[c].pc = "request"
         \/ CallerAt(c, "idle", NULL)
  BY DEF CancelAtProvider, CrashCaller, submission, host
<1>2. /\ remote' \in RemoteState /\ UNCHANGED <<elapsed, accepted>>
      /\ remote'.state = "none" <=> remote.state = "none"
  <2>1. CASE CancelAtProvider(c) BY <2>1, CancelCallEffect DEF CancelAtProvider
  <2>2. CASE CrashCaller(c) BY <2>2, <1>i DEF CrashCaller, world, CoreInv
  <2> QED BY <2>1, <2>2
<1>3. store # NULL /\ caller[c].job \in Job /\ Truthful(caller[c].job)
  BY <1>1, HeldByCaller
<1>4. PICK job \in Job \cup {NULL}, pc \in {"idle", "save"} :
        /\ CallerAt(c, pc, job)
        /\ pc = "save" => job = caller[c].job /\ caller[c].pc = "request"
  BY <1>1, <1>3
<1>5. /\ caller' \in [Callers -> CallerState] /\ caller'[c].pc = pc /\ caller'[c].job = job
      /\ \A d \in Callers \ {c} : caller'[d] = caller[d]
  BY <1>4, CallerFields
<1>6. CallerOK(c)'
  BY <1>1, <1>2, <1>3, <1>4, <1>5, <1>i, BatchAssumption
     DEF CallerInv, CallerOK, Truthful, LinesClosed
<1> QED BY <1>1, <1>2, <1>5, <1>6, CallerQuiet

(* Whoever finds the claim free gives the lines back, and from then on     *)
(* nobody dispatches.                                                      *)
LEMMA ClaimCancelKeeps ==
    ASSUME Inv, NEW c \in Callers, ClaimCancel(c)
    PROVE  Inv'
<1>i. CoreInv /\ StoreInv /\ PollerInv /\ CallerInv BY DEF Inv
<1>1. /\ caller[c].pc = "claim" /\ claimed' = TRUE
      /\ UNCHANGED <<phase, lines, money, store, elapsed, remote, accepted, poller>>
  BY DEF ClaimCancel, CallerStay, submission, world
<1>2. store # NULL /\ caller[c].job \in Job /\ Truthful(caller[c].job) /\ phase = "created"
  BY <1>1, HeldByCaller
<1> DEFINE cancelling == [caller[c].job EXCEPT !.status = "cancelling"]
<1>3. /\ cancelling \in Job /\ cancelling.status = "cancelling"
      /\ cancelling.pid = caller[c].job.pid /\ cancelling.settled = caller[c].job.settled
  BY <1>2, StatusFacts DEF Job
<1>4. \/ claimed /\ CallerAt(c, "save", cancelling)
      \/ ~claimed /\ CallerAt(c, "release", caller[c].job)
  BY DEF ClaimCancel
<1> HIDE DEF cancelling
<1>t. Truthful(cancelling) BY <1>2, <1>3 DEF Truthful
<1>5. PICK job \in Job, pc \in {"save", "release"} :
        /\ CallerAt(c, pc, job) /\ Truthful(job)
        /\ pc = "save" => job.status = "cancelling"
        /\ pc = "release" => ~claimed
  BY <1>2, <1>3, <1>4, <1>t
<1>6. /\ caller' \in [Callers -> CallerState] /\ caller'[c].pc = pc /\ caller'[c].job = job
      /\ \A d \in Callers \ {c} : caller'[d] = caller[d]
  BY <1>5, CallerFields
<1>7. CallerOK(c)'
  BY <1>1, <1>2, <1>5, <1>6, <1>i, BatchAssumption
     DEF PollerInv, CallerOK, Truthful, LinesClosed
<1>8. CoreInv' BY <1>1, <1>2, <1>i DEF CoreInv
<1>9. StoreInv' BY <1>1, <1>i DEF StoreInv, Truthful, LinesClosed, Fresh
<1>10. PollerInv' BY <1>1, <1>i DEF PollerInv, Truthful, LinesClosed, LinesReserved, Fresh
<1>11. LinesClosed => LinesClosed' BY <1>1 DEF LinesClosed
<1>12. CallerInv' BY <1>1, <1>6, <1>7, <1>11, CallersKept
<1> QED BY <1>8, <1>9, <1>10, <1>12 DEF Inv

LEMMA ReleaseCancelledKeeps ==
    ASSUME Inv, NEW c \in Callers, NEW l \in LineIds, ReleaseCancelled(c, l)
    PROVE  Inv'
<1>i. CoreInv /\ StoreInv /\ PollerInv /\ CallerInv BY DEF Inv
<1>1. /\ caller[c].pc = "release" /\ l \in lines /\ money[l] = "reserved"
      /\ UNCHANGED <<phase, lines, store, claimed, elapsed, remote, accepted, poller, caller>>
      /\ ReleaseLines({l})
  BY DEF ReleaseCancelled, CallerStay, submission, world
<1>2. /\ money' \in [LineIds -> MoneyStates] /\ money'[l] = "released"
      /\ \A m \in LineIds \ {l} : money'[m] = money[m]
  BY <1>1, <1>i DEF ReleaseLines, Closed, CoreInv, MoneyStates
<1>3. claimed /\ poller.pc # "submit" /\ phase = "created"
  BY <1>1, <1>i, HeldByCaller DEF CallerInv, CallerOK
<1>4. LinesClosed => LinesClosed' BY <1>1, <1>2, <1>i DEF LinesClosed, CoreInv
<1>5. PollerInv'
  <2>1. ASSUME poller.pc = "lines"
        PROVE  \A m \in lines \ poller.todo : money'[m] \in {"settled", "released"}
    BY <2>1, <1>1, <1>2, <1>i DEF PollerInv, CoreInv
  <2> QED BY <2>1, <1>1, <1>3, <1>4, <1>i DEF PollerInv, Truthful, Fresh
<1> QED BY <1>1, <1>2, <1>3, <1>5, ClosesKeep

LEMMA ReleasedAllKeeps ==
    ASSUME Inv, NEW c \in Callers, ReleasedAll(c)
    PROVE  Inv'
<1>i. CoreInv /\ StoreInv BY DEF Inv
<1>1. /\ caller[c].pc = "release" /\ \A l \in lines : money[l] # "reserved"
      /\ CallerAt(c, "save", Cancelled(caller[c].job))
      /\ UNCHANGED <<phase, lines, money, store, claimed, elapsed, remote, accepted, poller>>
  BY DEF ReleasedAll, CallerStay, host, submission, world
<1>2. store # NULL /\ caller[c].job \in Job /\ Truthful(caller[c].job) /\ phase = "created"
  BY <1>1, HeldByCaller
<1>3. LinesClosed BY <1>1, <1>2, <1>i DEF LinesClosed, CoreInv, MoneyStates
<1>4. PICK job \in Job : job = Cancelled(caller[c].job) /\ job.status = "cancelled"
                         /\ job.pid = caller[c].job.pid
  <2>1. /\ Cancelled(caller[c].job) \in Job
        /\ Cancelled(caller[c].job).status = "cancelled"
        /\ Cancelled(caller[c].job).pid = caller[c].job.pid
    BY <1>2, StatusFacts DEF Cancelled, Job
  <2> QED BY <2>1
<1>5. job # NULL /\ Truthful(job) BY <1>2, <1>3, <1>4, BatchAssumption DEF Truthful
<1>6. /\ caller' \in [Callers -> CallerState] /\ caller'[c].pc = "save" /\ caller'[c].job = job
      /\ \A d \in Callers \ {c} : caller'[d] = caller[d]
  BY <1>1, <1>4, CallerFields
<1>7. CallerOK(c)' BY <1>1, <1>2, <1>4, <1>5, <1>6 DEF CallerOK, Truthful, LinesClosed
<1>8. remote' \in RemoteState BY <1>1, <1>i DEF CoreInv
<1> QED BY <1>1, <1>6, <1>7, <1>8, CallerQuiet

LEMMA SaveCancelKeeps ==
    ASSUME Inv, NEW c \in Callers, SaveCancel(c)
    PROVE  Inv'
<1>i. CallerInv BY DEF Inv
<1>1. /\ caller[c].pc = "save" /\ store' = caller[c].job /\ CallerAt(c, "idle", NULL)
      /\ UNCHANGED <<phase, lines, money, claimed, elapsed, remote, accepted, poller>>
  BY DEF SaveCancel, CallerStay, submission, world
<1>2. store # NULL /\ caller[c].job \in Job /\ Truthful(caller[c].job)
  BY <1>1, HeldByCaller
<1>3. ~Fresh(caller[c].job)
  BY <1>1, <1>i, StatusFacts DEF CallerInv, CallerOK, Fresh
<1>4. /\ caller' \in [Callers -> CallerState] /\ caller'[c].pc = "idle"
      /\ \A d \in Callers \ {c} : caller'[d] = caller[d]
  BY <1>1, CallerFields
<1>5. CallerOK(c)' BY <1>4 DEF CallerOK
<1> QED BY <1>1, <1>2, <1>3, <1>4, <1>5, CallerWrites
-----------------------------------------------------------------------------
LEMMA InitInv == Init => Inv
<1> SUFFICES ASSUME Init PROVE Inv OBVIOUS
<1>1. remote \in RemoteState /\ remote.state = "none" BY DEF Init, RemoteState
<1>m. money \in [LineIds -> MoneyStates] /\ \A l \in LineIds : money[l] = "none"
  BY DEF Init, MoneyStates
<1>2. CoreInv
  <2>1. /\ phase = "new" /\ lines = {} /\ claimed = FALSE /\ elapsed = FALSE
        /\ accepted = 0
    BY DEF Init
  <2>2. accepted \in {0, 1} /\ (accepted = 1 => claimed)
        /\ (remote.state = "none" <=> accepted = 0)
    BY <1>1, <2>1
  <2>3. claimed \in BOOLEAN /\ elapsed \in BOOLEAN BY <2>1
  <2> QED BY <1>1, <1>m, <2>1, <2>2, <2>3 DEF CoreInv
<1>3. StoreInv BY DEF Init, StoreInv
<1>4. Idle \in PollerState /\ Idle.pc = "idle" /\ Idle.rows = {}
  BY DEF Idle, PollerState, Labels
<1>5. PollerInv BY <1>4, StatusFacts DEF Init, PollerInv
<1>6. CallerIdle \in CallerState /\ CallerIdle.pc = "idle" BY DEF CallerIdle, CallerState
<1>7. CallerInv BY <1>6 DEF Init, CallerInv, CallerOK
<1> QED BY <1>2, <1>3, <1>5, <1>7 DEF Inv

LEMMA StepInv == Inv /\ [Next]_vars => Inv'
<1> SUFFICES ASSUME Inv, [Next]_vars PROVE Inv' OBVIOUS
<1>1. CASE PollerStep
  BY <1>1, QuietPollerSteps, BeginDispatchKeeps, SubmitKeeps, FinalizingSteps, SavingSteps,
     CancellingSteps, MarkSettledKeeps, SettleLineKeeps DEF PollerStep
<1>2. ASSUME NEW c \in Callers, CallerStep(c) \/ CrashCaller(c) PROVE Inv'
  BY <1>2, LoadForCancelKeeps, MarkCancellingKeeps, CancelAtProviderKeeps, ClaimCancelKeeps,
     ReleaseCancelledKeeps, ReleasedAllKeeps, SaveCancelKeeps DEF CallerStep
<1>3. CASE \/ \E raw \in Inputs : Submit(raw)
           \/ \E l \in LineIds : ReserveLine(l)
           \/ ReservationRejected \/ CreateJob \/ CrashSubmit
  BY <1>3, SubmissionSteps
<1>4. CASE \/ \E l \in LineIds, how \in {"served", "failed"} : ServeLine(l, how)
           \/ CompleteRemote \/ CutRemote \/ Elapse \/ CrashPoller
           \/ \E state \in {"failed", "expired", "cancelled"} : EndRemote(state)
  BY <1>4, WorldSteps
<1>5. CASE UNCHANGED vars
  <2>1. /\ UNCHANGED <<phase, lines, money, claimed, accepted, store, caller, remote, elapsed,
                       poller>>
    BY <1>5 DEF vars
  <2>2. PollerInv' BY <2>1, PollerSame
  <2>3. remote \in RemoteState /\ elapsed \in BOOLEAN BY DEF Inv, CoreInv
  <2> QED BY <2>1, <2>2, <2>3, WorldKeeps
<1> QED BY <1>1, <1>2, <1>3, <1>4, <1>5 DEF Next

(* The invariant of the engine: what the stored row and every copy of it   *)
(* that the poller (engine.py, _advance and _settle) and the cancelling    *)
(* callers (cancel_batch) hold may say, and what the one-time claim rules  *)
(* out.                                                                    *)
THEOREM BatchInvariant == Spec => []Inv
BY InitInv, StepInv, PTL DEF Spec

(* SubmitOnce: whatever crashes, lost answers and cancellations happen,    *)
(* the provider is given the job at most once (begin_dispatch, engine.py). *)
THEOREM SubmittedOnce == Spec => []SubmitOnce
<1>1. Inv => SubmitOnce BY DEF Inv, CoreInv, SubmitOnce
<1> QED BY <1>1, BatchInvariant, PTL

(* SettledMeansClosed: a job row marked settled, which open_jobs never     *)
(* lists again, holds no reservation, whoever wrote the row.               *)
THEOREM SettledJobsClosed == Spec => []SettledMeansClosed
<1>1. Inv => SettledMeansClosed
  BY DEF Inv, StoreInv, Truthful, LinesClosed, SettledMeansClosed
<1> QED BY <1>1, BatchInvariant, PTL

-----------------------------------------------------------------------------
(* The refinement of paid work.  Only five steps touch the money or the    *)
(* provider's acceptance; every other one is a stutter.                    *)
LEMMA PromiseStutters ==
    ASSUME UNCHANGED <<money, lines, accepted>>
    PROVE  UNCHANGED Promise!vars
BY DEF Promise!vars

LEMMA PromiseInit == Init => Promise!Init
BY DEF Init, Promise!Init

(* Giving back reserved lines. *)
LEMMA PromiseReleases ==
    ASSUME Inv, NEW S \in SUBSET LineIds, \A l \in S : money[l] = "reserved",
           ReleaseLines(S), UNCHANGED <<lines, accepted>>
    PROVE  Promise!Next
<1>1. money' = [l \in LineIds |-> IF l \in S THEN "released" ELSE money[l]]
  BY DEF ReleaseLines, Closed
<1>2. Promise!Release(S) BY <1>1 DEF Promise!Release, Promise!Move
<1> QED BY <1>2 DEF Promise!Next

LEMMA PromiseSubmission ==
    ASSUME Inv, \/ \E raw \in Inputs : Submit(raw)
                \/ \E l \in LineIds : ReserveLine(l)
                \/ ReservationRejected \/ CreateJob \/ CrashSubmit
    PROVE  [Promise!Next]_(Promise!vars)
<1>i. CoreInv BY DEF Inv
<1>0. phase # "created" /\ UNCHANGED accepted
  BY DEF Submit, ReserveLine, ReservationRejected, CreateJob, CrashSubmit, host, world
<1>1. accepted = 0 BY <1>0, NobodyElse
<1>2. CASE \E raw \in Inputs : Submit(raw)
  <2>1. UNCHANGED money BY <1>2 DEF Submit, host
  <2> QED BY <2>1, <1>0, <1>1 DEF Promise!vars
<1>3. ASSUME NEW l \in LineIds, ReserveLine(l) PROVE Promise!Next
  <2>1. money[l] = "none" /\ money' = [money EXCEPT ![l] = "reserved"] /\ UNCHANGED lines
    BY <1>3 DEF ReserveLine
  <2>2. money' = [m \in LineIds |-> IF m \in {l} THEN "reserved" ELSE money[m]]
    BY <2>1, <1>i DEF CoreInv
  <2>3. Promise!Reserve(l)
    BY <2>1, <2>2, <1>0, <1>1 DEF Promise!Reserve, Promise!Move
  <2> QED BY <2>3 DEF Promise!Next
<1>4. CASE ReservationRejected
  <2>1. PICK S \in SUBSET LineIds : S = {l \in lines : money[l] = "reserved"}
    BY <1>i DEF CoreInv
  <2>2. ReleaseLines(S) /\ UNCHANGED lines BY <1>4, <2>1 DEF ReservationRejected
  <2> QED BY <2>1, <2>2, <1>0, PromiseReleases
<1>5. CASE CreateJob \/ CrashSubmit
  BY <1>0, <1>5, PromiseStutters DEF CreateJob, CrashSubmit, host
<1> QED BY <1>2, <1>3, <1>4, <1>5

LEMMA PromiseSends ==
    ASSUME Inv, poller.pc = "submit", ProviderAccepts, UNCHANGED <<lines, money>>
    PROVE  Promise!Next
<1>i. CoreInv /\ PollerInv BY DEF Inv
<1>1. accepted = 0 /\ accepted' = 1 /\ LinesReserved /\ lines \in SUBSET LineIds
  BY <1>i DEF ProviderAccepts, PollerInv, CoreInv
<1>2. PICK S \in SUBSET LineIds : S = lines BY <1>1
<1>3. Promise!Send(S) BY <1>1, <1>2 DEF Promise!Send, LinesReserved
<1> QED BY <1>3 DEF Promise!Next

LEMMA PromiseSettles ==
    ASSUME Inv, NEW l \in LineIds, SettleLine(l)
    PROVE  [Promise!Next]_(Promise!vars)
<1>i. CoreInv /\ PollerInv BY DEF Inv
<1>1. /\ poller.pc = "lines" /\ l \in lines /\ UNCHANGED <<lines, accepted>>
      /\ money' = [money EXCEPT ![l] =
                    Closed(l, IF l \in poller.rows THEN "settled" ELSE "released")]
  BY <1>i DEF SettleLine, submission, world, PollerInv
<1>2. CASE money[l] # "reserved"
  <2>1. money' = money BY <1>1, <1>2, <1>i DEF Closed, CoreInv
  <2> QED BY <1>1, <2>1, PromiseStutters
<1>3. CASE money[l] = "reserved" /\ l \in poller.rows
  <2>1. money' = [m \in LineIds |-> IF m \in {l} THEN "settled" ELSE money[m]]
    BY <1>1, <1>3, <1>i DEF Closed, CoreInv
  <2>2. accepted = 1 BY <1>3, <1>i DEF PollerInv
  <2>3. Promise!Settle(l) BY <1>1, <1>3, <2>1, <2>2 DEF Promise!Settle, Promise!Move
  <2> QED BY <2>3 DEF Promise!Next
<1>4. CASE money[l] = "reserved" /\ l \notin poller.rows
  <2>1. money' = [m \in LineIds |-> IF m \in {l} THEN "released" ELSE money[m]]
    BY <1>1, <1>4, <1>i DEF Closed, CoreInv
  <2>2. Promise!Release({l}) BY <1>1, <1>4, <2>1 DEF Promise!Release, Promise!Move
  <2> QED BY <2>2 DEF Promise!Next
<1> QED BY <1>2, <1>3, <1>4

LEMMA PromisePoller ==
    ASSUME Inv, PollerStep
    PROVE  [Promise!Next]_(Promise!vars)
<1>1. ASSUME NEW l \in LineIds, SettleLine(l) PROVE [Promise!Next]_(Promise!vars)
  BY <1>1, PromiseSettles
<1>2. CASE SubmitAccepted \/ SubmitAmbiguous \/ SubmitRejected
  <2>1. poller.pc = "submit" /\ UNCHANGED <<lines, money>>
        /\ (ProviderAccepts \/ UNCHANGED accepted)
    BY <1>2 DEF SubmitAccepted, SubmitAmbiguous, SubmitRejected, submission, host
  <2> QED BY <2>1, PromiseSends, PromiseStutters
<1>3. CASE ListOpen \/ ResumeSettlement \/ DispatchRefused \/ Reload \/ CheckIntent
           \/ SkipCancel \/ Poll \/ PollFails \/ ApplySnapshot \/ SettleUnlessSettled
           \/ FetchResults \/ ResultsRefused \/ ResultsLost
  <2>1. UNCHANGED <<money, lines, accepted>>
    BY <1>3 DEF ListOpen, ResumeSettlement, DispatchRefused, Reload, CheckIntent, SkipCancel,
                Poll, PollFails, ApplySnapshot, SettleUnlessSettled, FetchResults,
                ResultsRefused, ResultsLost, Stay, submission, host, world
  <2> QED BY <2>1, PromiseStutters
<1>4. CASE ExpireJob \/ CancelUndispatched \/ BeginDispatch \/ FailDispatch
           \/ SaveOpen \/ SaveIntent \/ RequestCancel \/ Recancel \/ FinalizePolled \/ MarkSettled
  <2>1. UNCHANGED <<money, lines, accepted>>
    BY <1>4 DEF ExpireJob, CancelUndispatched, BeginDispatch, FailDispatch,
                SaveOpen, SaveIntent, SaveJob, RequestCancel, Recancel, CancelCall,
                FinalizePolled, MarkSettled, Finalize, submission, host, world
  <2> QED BY <2>1, PromiseStutters
<1> QED BY <1>1, <1>2, <1>3, <1>4 DEF PollerStep

LEMMA PromiseCaller ==
    ASSUME Inv, NEW c \in Callers, CallerStep(c) \/ CrashCaller(c)
    PROVE  [Promise!Next]_(Promise!vars)
<1>1. ASSUME NEW l \in LineIds, ReleaseCancelled(c, l) PROVE Promise!Next
  <2>1. money[l] = "reserved" /\ ReleaseLines({l}) /\ UNCHANGED <<lines, accepted>>
    BY <1>1 DEF ReleaseCancelled, CallerStay, submission, world
  <2> QED BY <2>1, PromiseReleases
<1>2. CASE LoadForCancel(c) \/ MarkCancelling(c) \/ CancelAtProvider(c) \/ ClaimCancel(c)
           \/ ReleasedAll(c) \/ SaveCancel(c) \/ CrashCaller(c)
  <2>1. UNCHANGED <<money, lines, accepted>>
    BY <1>2 DEF LoadForCancel, MarkCancelling, CancelAtProvider, ClaimCancel, ReleasedAll,
                SaveCancel, CrashCaller, CancelCall, CallerStay, submission, host, world
  <2> QED BY <2>1, PromiseStutters
<1> QED BY <1>1, <1>2 DEF CallerStep

LEMMA PromiseStep == Inv /\ [Next]_vars => [Promise!Next]_(Promise!vars)
<1> SUFFICES ASSUME Inv, [Next]_vars PROVE [Promise!Next]_(Promise!vars) OBVIOUS
<1>1. CASE PollerStep BY <1>1, PromisePoller
<1>2. ASSUME NEW c \in Callers, CallerStep(c) \/ CrashCaller(c)
      PROVE  [Promise!Next]_(Promise!vars)
  BY <1>2, PromiseCaller
<1>3. CASE \/ \E raw \in Inputs : Submit(raw)
           \/ \E l \in LineIds : ReserveLine(l)
           \/ ReservationRejected \/ CreateJob \/ CrashSubmit
  BY <1>3, PromiseSubmission
<1>4. CASE \/ \E l \in LineIds, how \in {"served", "failed"} : ServeLine(l, how)
           \/ CompleteRemote \/ CutRemote \/ Elapse \/ CrashPoller
           \/ \E state \in {"failed", "expired", "cancelled"} : EndRemote(state)
  <2>1. UNCHANGED <<money, lines, accepted>>
    BY <1>4 DEF ServeLine, CompleteRemote, CutRemote, Elapse, CrashPoller, EndRemote,
                RemoteStay, submission, host, world
  <2> QED BY <2>1, PromiseStutters
<1>5. CASE UNCHANGED vars BY <1>5, PromiseStutters DEF vars
<1> QED BY <1>1, <1>2, <1>3, <1>4, <1>5 DEF Next

(* PaidWorkSpec: the engine keeps the promise of paid work: a line is sent *)
(* once and only while every reservation of its job is held, and its       *)
(* reservation is closed once, settled only if the provider had the line.  *)
THEOREM BatchImplementsPaidWork == Spec => PaidWorkSpec
<1>1. Spec => Promise!Init /\ [][Promise!Next]_(Promise!vars)
  BY PromiseInit, PromiseStep, BatchInvariant, PTL DEF Spec
<1> QED BY <1>1 DEF PaidWorkSpec, Promise!Spec
====
