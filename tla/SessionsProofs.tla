--------------------------- MODULE SessionsProofs ---------------------------
(***************************************************************************)
(* Theorems about the session store: purchases are accounted for, and the  *)
(* store with its workers implements the log of operations.                *)
(***************************************************************************)
EXTENDS Sessions, FiniteSetTheorems, TLAPS

Statuses == {"none", "completed", "claimed", "provider_started", "ambiguous",
             "rejected", "released"}
StepRow == [status : Statuses, request : Requests \cup {None}, base_version : Nat,
            proposal : BOOLEAN, response : Outputs \cup {None}, resulting_version : Nat]
Calling == {"calling", "admitted", "sent", "returned", "recorded"}
Working == {"claimed", "prepared", "exhausted", "committed"} \cup Calling
Labels == {"down", "idle", "read"} \cup Working
WorkerState == [pc : Labels, binding : Bindings \cup {None}, step : StepIds \cup {None},
                version : Nat, seen : Seq(StepIds), output : Outputs \cup {None},
                refusals : Nat]

TypeOK ==
    /\ session \in SessionRow \cup {None}
    /\ steps \in [StepIds -> StepRow]
    /\ started \in Seq(StepIds) /\ sent \in Seq(StepIds) /\ slots \in Nat
    /\ late \in BOOLEAN
    /\ lock \in [Locks -> Workers \cup {None}]
    /\ worker \in [Workers -> WorkerState]
    /\ answered \subseteq StepIds \X Outputs
    /\ crashes \in Nat

(* A worker has a session open, and past the claim a step of its own, with *)
(* the version it read.                                                    *)
WorkerOK(w) ==
    /\ ~At(w, "down") => session # None
    /\ worker[w].pc \in Working =>
        /\ worker[w].step \in StepIds
        /\ Row(w).status # "none"
        /\ Row(w).base_version = worker[w].version
    /\ worker[w].pc \in Calling \cup {"committed"} => worker[w].step \in Elements(started)
    /\ worker[w].pc \in {"returned", "recorded", "committed"} => worker[w].output \in Outputs
WorkerInv == \A w \in Workers : WorkerOK(w)

(* Every slot is spent on one request, sent or about to be. *)
Admitted == {w \in Workers : At(w, "admitted")}
SlotInv == Len(sent) + Cardinality(Admitted) <= slots /\ slots <= Cap

(* A start is durable before anything is sent, and is counted once. *)
StartInv ==
    /\ Elements(sent) \subseteq Elements(started)
    /\ Distinct(started) /\ Len(started) <= MaximumOperations
    /\ \A s \in Elements(started) : steps[s].status \notin {"none", "claimed", "released"}

PurchaseInv == TypeOK /\ WorkerInv /\ SlotInv /\ StartInv

(* The history holds exactly the completed steps, the version counts them, *)
(* one step at most is open, and a worker that read the current version    *)
(* read the current history.                                               *)
LogInv ==
    /\ session = None => \A s \in StepIds : steps[s].status = "none"
    /\ session # None =>
        /\ session.version = Len(session.transitions)
        /\ \A w \in Workers : worker[w].pc \notin {"down", "idle"} =>
            /\ worker[w].version <= session.version
            /\ worker[w].version = session.version => worker[w].seen = session.transitions
    /\ \A s \in StepIds : steps[s].status = "completed" <=> s \in Elements(History)
    /\ \A s \in StepIds : steps[s].status = "completed" => steps[s].response \in Outputs
    /\ \A s, t \in StepIds :
        steps[s].status \in OpenStatuses /\ steps[t].status \in OpenStatuses => s = t
    /\ \A w \in Workers : At(w, "committed") =>
        Row(w).status = "completed" /\ Row(w).response = worker[w].output



Others(w) == \A v \in Workers \ {w} : worker'[v] = worker[v]

LEMMA LabelFacts ==
    /\ \A pc \in {"down", "idle", "read", "claimed", "prepared", "exhausted", "committed",
                  "calling", "admitted", "sent", "returned", "recorded"} : pc \in Labels
    /\ \A pc \in {"claimed", "prepared", "exhausted", "committed", "calling", "admitted",
                  "sent", "returned", "recorded"} : pc \in Working
    /\ \A pc \in {"down", "idle", "read"} : pc \notin Working
    /\ Calling \subseteq Working
BY DEF Labels, Working, Calling

LEMMA GotoEffect ==
    ASSUME TypeOK, NEW w \in Workers, NEW pc \in Labels, Goto(w, pc)
    PROVE  /\ worker' \in [Workers -> WorkerState] /\ Others(w)
           /\ worker'[w].pc = pc
           /\ worker'[w].step = worker[w].step /\ worker'[w].version = worker[w].version
           /\ worker'[w].seen = worker[w].seen /\ worker'[w].output = worker[w].output
BY DEF TypeOK, Goto, WorkerState, Others

LEMMA FinishEffect ==
    ASSUME TypeOK, NEW w \in Workers, Finish(w)
    PROVE  /\ worker' \in [Workers -> WorkerState] /\ Others(w)
           /\ worker'[w].pc = "idle"
           /\ lock' \in [Locks -> Workers \cup {None}]
<1> DEFINE x == [Down EXCEPT !.pc = "idle", !.binding = worker[w].binding]
<1>1. Down \in WorkerState
  BY LabelFacts DEF Down, WorkerState
<1>2. x \in WorkerState /\ x.pc = "idle"
  BY <1>1, LabelFacts DEF TypeOK, WorkerState
<1>3. worker' = [worker EXCEPT ![w] = x]
  BY DEF Finish
<1>4. LockOf[w] \in Locks
  BY DEF Locks
<1> HIDE DEF x
<1> QED BY <1>1, <1>2, <1>3, <1>4 DEF TypeOK, Others, Finish

LEMMA StatusEffect ==
    ASSUME TypeOK, NEW w \in Workers, worker[w].step \in StepIds, NEW st \in Statuses,
           SetStatus(w, st)
    PROVE  /\ steps' \in [StepIds -> StepRow]
           /\ \A s \in StepIds \ {worker[w].step} : steps'[s] = steps[s]
           /\ steps'[worker[w].step] = [Row(w) EXCEPT !.status = st]
BY DEF TypeOK, SetStatus, Row, StepRow

Inv == PurchaseInv /\ LogInv

(* Slots: what is not admitted any more is not owed a slot. *)
LEMMA AdmittedFinite ==
    ASSUME NEW S \in SUBSET Workers
    PROVE  IsFiniteSet(S) /\ Cardinality(S) \in Nat
BY SessionsAssumption, FS_Subset, FS_CardinalityType

LEMMA SlotsKept ==
    ASSUME TypeOK, SlotInv, UNCHANGED <<slots, sent>>, Admitted' \subseteq Admitted
    PROVE  SlotInv'
<1>1. Admitted \subseteq Workers /\ Admitted' \subseteq Workers
  BY DEF Admitted
<1>2. Cardinality(Admitted') <= Cardinality(Admitted)
  BY <1>1, AdmittedFinite, FS_Subset
<1>3. Cardinality(Admitted') \in Nat /\ Cardinality(Admitted) \in Nat
  BY <1>1, AdmittedFinite
<1>4. Len(sent) \in Nat
  BY DEF TypeOK
<1> QED BY <1>2, <1>3, <1>4, SessionsAssumption DEF SlotInv, TypeOK

(* What the other workers rely on: a session stays open, a claimed row     *)
(* keeps its base version, a start stays recorded.                         *)
RowsGrow ==
    \A s \in StepIds : steps[s].status # "none" =>
        steps'[s].status # "none" /\ steps'[s].base_version = steps[s].base_version
LEMMA WorkersKept ==
    ASSUME WorkerInv, NEW w \in Workers, Others(w), WorkerOK(w)', RowsGrow,
           session # None => session' # None, Elements(started) \subseteq Elements(started)'
    PROVE  WorkerInv'
<1> SUFFICES ASSUME NEW v \in Workers, v # w PROVE WorkerOK(v)'
  BY DEF WorkerInv
<1>1. WorkerOK(v) /\ worker'[v] = worker[v]
  BY DEF WorkerInv, Others
<1> QED BY <1>1 DEF WorkerOK, At, Row, RowsGrow

(* A step that was started stays so. *)
RowsStay ==
    \A s \in StepIds : steps[s].status \notin {"none", "claimed", "released"} =>
        steps'[s].status \notin {"none", "claimed", "released"}
LEMMA StartsKept ==
    ASSUME TypeOK, StartInv, UNCHANGED started, RowsStay,
           Elements(sent)' \subseteq Elements(started)
    PROVE  StartInv'
<1>1. Elements(started)' = Elements(started) /\ Elements(started) \subseteq StepIds
  BY DEF TypeOK, Elements
<1>2. Distinct(started)' = Distinct(started)
  BY DEF Distinct
<1> QED BY <1>1, <1>2 DEF StartInv, RowsStay

(* The history is not touched: no row is completed, none opened. *)
RowsQuiet ==
    \A s \in StepIds :
        /\ steps'[s].status = "completed" <=> steps[s].status = "completed"
        /\ steps'[s].status = "none" <=> steps[s].status = "none"
        /\ steps'[s].status \in OpenStatuses => steps[s].status \in OpenStatuses
        /\ steps'[s].response = steps[s].response
SessionQuiet ==
    /\ session' = None <=> session = None
    /\ session # None => /\ session'.version = session.version
                         /\ session'.transitions = session.transitions
WorkersQuiet ==
    \A v \in Workers :
        /\ worker'[v].pc \notin {"down", "idle"} =>
            /\ worker[v].pc \notin {"down", "idle"}
            /\ worker'[v].version = worker[v].version /\ worker'[v].seen = worker[v].seen
        /\ worker'[v].pc = "committed" =>
            /\ worker[v].pc = "committed"
            /\ worker'[v].step = worker[v].step /\ worker'[v].output = worker[v].output
LEMMA LogKept ==
    ASSUME WorkerInv, LogInv, RowsQuiet, SessionQuiet, WorkersQuiet
    PROVE  LogInv'
<1>1. History' = History
  BY DEF SessionQuiet, History
<1>2. Elements(History)' = Elements(History)
  BY <1>1 DEF Elements
<1>3. session' # None =>
        /\ session'.version = Len(session'.transitions)
        /\ \A w \in Workers : worker'[w].pc \notin {"down", "idle"} =>
            /\ worker'[w].version <= session'.version
            /\ worker'[w].version = session'.version => worker'[w].seen = session'.transitions
  BY DEF LogInv, SessionQuiet, WorkersQuiet
<1>4. \A w \in Workers : At(w, "committed")' =>
            Row(w)'.status = "completed" /\ Row(w)'.response = worker'[w].output
  BY LabelFacts DEF WorkersQuiet, RowsQuiet, LogInv, At, Row, WorkerInv, WorkerOK
<1>5. \A s \in StepIds : steps'[s].status = "completed" <=> s \in Elements(History)'
  BY <1>2 DEF LogInv, RowsQuiet
<1>6. session' = None => \A s \in StepIds : steps'[s].status = "none"
  BY DEF LogInv, RowsQuiet, SessionQuiet
<1>7. \A s, t \in StepIds :
        steps'[s].status \in OpenStatuses /\ steps'[t].status \in OpenStatuses => s = t
  BY DEF LogInv, RowsQuiet
<1>8. \A s \in StepIds : steps'[s].status = "completed" => steps'[s].response \in Outputs
  BY DEF LogInv, RowsQuiet
<1> QED BY <1>3, <1>4, <1>5, <1>6, <1>7, <1>8 DEF LogInv

(* An operation that ends: the worker is idle again, and its step may have *)
(* been closed without a commit.                                           *)
Closes(w) ==
    \E st \in {"rejected", "released", "ambiguous"} :
        /\ worker[w].pc \in Working /\ SetStatus(w, st)
        /\ Row(w).status \in {"claimed", "provider_started"}
        /\ st = "released" => Row(w).status = "claimed"
Ends(w) ==
    /\ ~At(w, "down") /\ Finish(w)
    /\ UNCHANGED steps \/ Closes(w)
    /\ UNCHANGED <<session, started, slots, sent, late, crashes>>

LEMMA EndsType ==
    ASSUME Inv, NEW w \in Workers, Ends(w), answered' \subseteq StepIds \X Outputs
    PROVE  TypeOK'
<1>1. steps' \in [StepIds -> StepRow]
  <2>1. CASE UNCHANGED steps BY <2>1 DEF Inv, PurchaseInv, TypeOK
  <2>2. CASE Closes(w)
    BY <2>2, StatusEffect DEF Inv, PurchaseInv, WorkerInv, WorkerOK, Closes, Statuses
  <2> QED BY <2>1, <2>2 DEF Ends
<1> QED BY <1>1, FinishEffect DEF Inv, PurchaseInv, TypeOK, Ends

(* What closing a step does to the rows. *)
RowsClose ==
    \A s \in StepIds :
        /\ steps'[s].base_version = steps[s].base_version
        /\ steps'[s].response = steps[s].response
        /\ \/ steps'[s].status = steps[s].status
           \/ /\ steps[s].status \in {"claimed", "provider_started"}
              /\ steps'[s].status \in Closed
              /\ steps'[s].status = "released" => steps[s].status = "claimed"

LEMMA EndsRows ==
    ASSUME Inv, NEW w \in Workers, Ends(w)
    PROVE  RowsClose
<1>1. CASE UNCHANGED steps BY <1>1 DEF RowsClose
<1>2. CASE Closes(w)
  <2>1. PICK st \in {"rejected", "released", "ambiguous"} :
            /\ worker[w].step \in StepIds /\ SetStatus(w, st)
            /\ Row(w).status \in {"claimed", "provider_started"}
            /\ st = "released" => Row(w).status = "claimed"
    BY <1>2 DEF Closes, Inv, PurchaseInv, WorkerInv, WorkerOK
  <2>2. /\ \A s \in StepIds \ {worker[w].step} : steps'[s] = steps[s]
        /\ steps'[worker[w].step] = [Row(w) EXCEPT !.status = st]
    BY <2>1, StatusEffect DEF Inv, PurchaseInv, Statuses
  <2>3. Row(w) \in StepRow
    BY <2>1 DEF Inv, PurchaseInv, TypeOK, Row
  <2> QED BY <2>1, <2>2, <2>3 DEF Row, StepRow, Closed, RowsClose
<1> QED BY <1>1, <1>2 DEF Ends

LEMMA EndsKeeps ==
    ASSUME Inv, NEW w \in Workers, Ends(w), answered' \subseteq StepIds \X Outputs
    PROVE  Inv'
<1>1. TypeOK' BY EndsType
<1>2. worker'[w].pc = "idle" /\ Others(w)
  BY FinishEffect DEF Ends, Inv, PurchaseInv
<1>3. UNCHANGED <<session, started, slots, sent>> BY DEF Ends
<1>r. RowsClose BY EndsRows
<1>i. TypeOK /\ WorkerInv /\ SlotInv /\ StartInv /\ LogInv BY DEF Inv, PurchaseInv
<1>q. RowsGrow /\ RowsStay /\ RowsQuiet
  BY <1>r DEF RowsClose, RowsGrow, RowsStay, RowsQuiet, Closed, OpenStatuses
<1>4. WorkerInv'
  <2>1. WorkerOK(w)'
    BY <1>2, <1>3, LabelFacts, <1>i DEF At, Calling, Ends, WorkerInv, WorkerOK
  <2>2. Elements(started)' = Elements(started)
    BY <1>3 DEF Elements
  <2> QED BY <1>2, <1>3, <1>i, <1>q, <2>1, <2>2, WorkersKept
<1>5. SlotInv'
  BY <1>2, <1>3, <1>i, SlotsKept DEF Admitted, At, Others
<1>6. StartInv'
  <2>1. Elements(sent)' = Elements(sent) BY <1>3 DEF Elements
  <2> QED BY <1>3, <1>i, <1>q, <2>1, StartsKept DEF StartInv
<1>7. LogInv'
  <2>1. WorkersQuiet BY <1>2 DEF WorkersQuiet, Others
  <2>2. SessionQuiet BY <1>3 DEF SessionQuiet
  <2> QED BY <1>i, <1>q, <2>1, <2>2, LogKept
<1> QED BY <1>1, <1>4, <1>5, <1>6, <1>7 DEF Inv, PurchaseInv

-----------------------------------------------------------------------------
(* A worker that goes on with its operation: it keeps its step and what it *)
(* read, and does not finish a commit; the session is as before.           *)
Moves(w, pc) ==
    /\ worker' \in [Workers -> WorkerState] /\ Others(w)
    /\ worker[w].pc \notin {"down", "idle"}
    /\ worker'[w].pc = pc /\ pc \in Working \ {"committed"}
    /\ worker'[w].step = worker[w].step /\ worker'[w].version = worker[w].version
    /\ worker'[w].seen = worker[w].seen
    /\ UNCHANGED <<session, lock, answered, crashes>>

LEMMA MoveKeeps ==
    ASSUME Inv, NEW w \in Workers, NEW pc, Moves(w, pc), steps' \in [StepIds -> StepRow],
           RowsGrow, RowsStay, RowsQuiet, WorkerOK(w)', SlotInv',
           UNCHANGED <<started, late>>, slots' \in Nat, sent' \in Seq(StepIds),
           Elements(sent)' \subseteq Elements(started)
    PROVE  Inv'
<1>i. TypeOK /\ WorkerInv /\ SlotInv /\ StartInv /\ LogInv BY DEF Inv, PurchaseInv
<1>1. TypeOK' BY <1>i DEF TypeOK, Moves
<1>2. WorkerInv'
  <2>1. Elements(started)' = Elements(started) BY DEF Elements
  <2> QED BY <1>i, <2>1, WorkersKept DEF Moves
<1>3. StartInv' BY <1>i, StartsKept
<1>4. LogInv'
  <2>1. WorkersQuiet BY DEF Moves, WorkersQuiet, Others
  <2>2. SessionQuiet BY DEF Moves, SessionQuiet
  <2> QED BY <1>i, <2>1, <2>2, LogKept
<1> QED BY <1>1, <1>2, <1>3, <1>4 DEF Inv, PurchaseInv

(* The same when no row is touched and nothing is bought. *)
LEMMA QuietMoveKeeps ==
    ASSUME Inv, NEW w \in Workers, NEW pc, Moves(w, pc), pc # "admitted",
           WorkerOK(w)', UNCHANGED <<steps, started, slots, sent, late>>
    PROVE  Inv'
<1>i. TypeOK /\ WorkerInv /\ SlotInv /\ StartInv /\ LogInv BY DEF Inv, PurchaseInv
<1>1. RowsGrow /\ RowsStay /\ RowsQuiet BY DEF RowsGrow, RowsStay, RowsQuiet
<1>2. SlotInv'
  BY <1>i, SlotsKept DEF Admitted, At, Others, Moves
<1>3. Elements(sent)' \subseteq Elements(started)
  BY <1>i DEF Elements, StartInv
<1>4. steps' \in [StepIds -> StepRow] /\ slots' \in Nat /\ sent' \in Seq(StepIds)
  BY <1>i DEF TypeOK
<1> QED BY <1>1, <1>2, <1>3, <1>4, MoveKeeps

LEMMA PrepareKeeps ==
    ASSUME Inv, NEW w \in Workers, Prepare(w)
    PROVE  Inv'
<1>i. TypeOK /\ WorkerOK(w) BY DEF Inv, PurchaseInv, WorkerInv
<1>1. Moves(w, "prepared")
  BY <1>i, GotoEffect, LabelFacts DEF Prepare, Moves, At
<1>2. WorkerOK(w)'
  BY <1>1, <1>i, LabelFacts DEF Prepare, Moves, WorkerOK, At, Row, Calling
<1> QED BY <1>1, <1>2, QuietMoveKeeps DEF Prepare

LEMMA ExhaustedKeeps ==
    ASSUME Inv, NEW w \in Workers, MarkProviderStarted(w), ~BudgetLeft
    PROVE  Inv'
<1>i. TypeOK /\ WorkerOK(w) BY DEF Inv, PurchaseInv, WorkerInv
<1>1. Moves(w, "exhausted")
  BY <1>i, GotoEffect, LabelFacts DEF MarkProviderStarted, Moves, At
<1>2. WorkerOK(w)'
  BY <1>1, <1>i, LabelFacts DEF MarkProviderStarted, Moves, WorkerOK, At, Row, Calling
<1> QED BY <1>1, <1>2, QuietMoveKeeps DEF MarkProviderStarted

LEMMA CompletionReturnsKeeps ==
    ASSUME Inv, NEW w \in Workers, NEW o \in Outputs, CompletionReturns(w, o)
    PROVE  Inv'
<1>i. TypeOK /\ WorkerOK(w) BY DEF Inv, PurchaseInv, WorkerInv
<1>1. Moves(w, "returned") /\ worker'[w].output = o
  BY <1>i, LabelFacts DEF CompletionReturns, Moves, At, TypeOK, WorkerState, Others
<1>2. WorkerOK(w)'
  BY <1>1, <1>i, LabelFacts DEF CompletionReturns, Moves, WorkerOK, At, Row, Calling, Elements
<1> QED BY <1>1, <1>2, QuietMoveKeeps DEF CompletionReturns

LEMMA ReaskKeeps ==
    ASSUME Inv, NEW w \in Workers, Reask(w)
    PROVE  Inv'
<1>i. TypeOK /\ WorkerOK(w) BY DEF Inv, PurchaseInv, WorkerInv
<1>1. Moves(w, "calling")
  <2>1. worker[w] \in WorkerState /\ worker[w].refusals + 1 \in Nat
    BY <1>i DEF TypeOK, WorkerState
  <2>2. worker' \in [Workers -> WorkerState] /\ Others(w)
    BY <1>i, <2>1, LabelFacts DEF Reask, TypeOK, WorkerState, Others
  <2>3. /\ worker'[w].pc = "calling" /\ worker'[w].step = worker[w].step
        /\ worker'[w].version = worker[w].version /\ worker'[w].seen = worker[w].seen
    BY <1>i, <2>1 DEF Reask, TypeOK, WorkerState
  <2> QED BY <2>2, <2>3, LabelFacts DEF Reask, Moves, At
<1>2. WorkerOK(w)'
  BY <1>1, <1>i, LabelFacts DEF Reask, Moves, WorkerOK, At, Row, Calling, Elements
<1> QED BY <1>1, <1>2, QuietMoveKeeps DEF Reask

LEMMA RecordProposalKeeps ==
    ASSUME Inv, NEW w \in Workers, RecordProposal(w)
    PROVE  Inv'
<1>i. TypeOK /\ WorkerOK(w) /\ SlotInv /\ StartInv BY DEF Inv, PurchaseInv, WorkerInv
<1>1. Moves(w, "recorded") /\ worker'[w].output = worker[w].output
  BY <1>i, GotoEffect, LabelFacts DEF RecordProposal, Moves, At
<1>2. steps' \in [StepIds -> StepRow]
  BY <1>i DEF RecordProposal, TypeOK, StepRow
<1>3. \A s \in StepIds : /\ steps'[s].status = steps[s].status
                         /\ steps'[s].base_version = steps[s].base_version
                         /\ steps'[s].response = steps[s].response
  BY <1>i DEF RecordProposal, TypeOK, StepRow
<1>4. RowsGrow /\ RowsStay /\ RowsQuiet
  BY <1>3 DEF RowsGrow, RowsStay, RowsQuiet
<1>5. WorkerOK(w)'
  BY <1>1, <1>3, <1>i, LabelFacts DEF RecordProposal, Moves, WorkerOK, At, Row, Calling, Elements
<1>6. SlotInv'
  BY <1>i, <1>1, SlotsKept DEF Admitted, At, Others, Moves, RecordProposal
<1>7. Elements(sent)' \subseteq Elements(started)
  BY <1>i DEF Elements, StartInv, RecordProposal
<1> QED BY <1>1, <1>2, <1>4, <1>5, <1>6, <1>7, <1>i, MoveKeeps DEF RecordProposal, TypeOK

LEMMA ClaimSlotKeeps ==
    ASSUME Inv, NEW w \in Workers, ClaimSlot(w)
    PROVE  Inv'
<1>i. TypeOK /\ WorkerOK(w) /\ SlotInv /\ StartInv BY DEF Inv, PurchaseInv, WorkerInv
<1>1. Moves(w, "admitted")
  BY <1>i, GotoEffect, LabelFacts DEF ClaimSlot, Moves, At
<1>2. RowsGrow /\ RowsStay /\ RowsQuiet BY DEF RowsGrow, RowsStay, RowsQuiet, ClaimSlot
<1>3. WorkerOK(w)'
  BY <1>1, <1>i, LabelFacts DEF ClaimSlot, Moves, WorkerOK, At, Row, Calling, Elements
<1>4. SlotInv'
  <2>1. Admitted' = Admitted \cup {w} /\ w \notin Admitted
    BY <1>1 DEF Moves, Admitted, At, Others, ClaimSlot
  <2>2. IsFiniteSet(Admitted) /\ Cardinality(Admitted) \in Nat
    BY AdmittedFinite DEF Admitted
  <2>3. Cardinality(Admitted') = Cardinality(Admitted) + 1
    BY <2>1, <2>2, FS_AddElement
  <2>4. sent' = sent /\ slots' = slots + 1 /\ slots < Cap /\ Len(sent) \in Nat
    BY <1>i DEF ClaimSlot, TypeOK
  <2> QED BY <2>2, <2>3, <2>4, <1>i, SessionsAssumption DEF SlotInv, TypeOK
<1>5. Elements(sent)' \subseteq Elements(started)
  BY <1>i DEF Elements, StartInv, ClaimSlot
<1>6. steps' \in [StepIds -> StepRow] /\ slots' \in Nat /\ sent' \in Seq(StepIds)
  BY <1>i DEF TypeOK, ClaimSlot
<1> QED BY <1>1, <1>2, <1>3, <1>4, <1>5, <1>6, MoveKeeps DEF ClaimSlot

LEMMA SendKeeps ==
    ASSUME Inv, NEW w \in Workers, Send(w)
    PROVE  Inv'
<1>i. TypeOK /\ WorkerOK(w) /\ SlotInv /\ StartInv BY DEF Inv, PurchaseInv, WorkerInv
<1>1. Moves(w, "sent")
  BY <1>i, GotoEffect, LabelFacts DEF Send, Moves, At
<1>2. RowsGrow /\ RowsStay /\ RowsQuiet BY DEF RowsGrow, RowsStay, RowsQuiet, Send
<1>3. WorkerOK(w)'
  BY <1>1, <1>i, LabelFacts DEF Send, Moves, WorkerOK, At, Row, Calling, Elements
<1>s. worker[w].step \in StepIds /\ worker[w].step \in Elements(started)
  BY <1>i, LabelFacts DEF Send, WorkerOK, At, Calling
<1>t. sent' \in Seq(StepIds) /\ Len(sent') = Len(sent) + 1 /\ Len(sent) \in Nat
  BY <1>i, <1>s DEF Send, TypeOK
<1>4. SlotInv'
  <2>1. Admitted' = Admitted \ {w} /\ w \in Admitted
    BY <1>1 DEF Moves, Admitted, At, Others, Send
  <2>2. IsFiniteSet(Admitted) /\ Cardinality(Admitted) \in Nat
    BY AdmittedFinite DEF Admitted
  <2>3. Cardinality(Admitted') = Cardinality(Admitted) - 1
    BY <2>1, <2>2, FS_RemoveElement
  <2>4. slots' = slots
    BY DEF Send
  <2> QED BY <2>2, <2>3, <2>4, <1>t, <1>i, SessionsAssumption DEF SlotInv, TypeOK
<1>5. Elements(sent)' \subseteq Elements(started)
  <2> SUFFICES ASSUME NEW i \in 1..Len(sent') PROVE sent'[i] \in Elements(started)
    BY DEF Elements
  <2>1. CASE i = Len(sent) + 1
    BY <2>1, <1>s, <1>i DEF Send, TypeOK
  <2>2. CASE i # Len(sent) + 1
    <3>1. i \in 1..Len(sent) BY <2>2, <1>t
    <3>2. sent'[i] = sent[i] BY <3>1, <1>s, <1>i DEF Send, TypeOK
    <3> QED BY <3>1, <3>2, <1>i DEF StartInv, Elements
  <2> QED BY <2>1, <2>2
<1>6. steps' \in [StepIds -> StepRow] /\ slots' \in Nat
  BY <1>i DEF TypeOK, Send
<1> QED BY <1>1, <1>2, <1>3, <1>4, <1>5, <1>6, <1>t, MoveKeeps DEF Send

(* A start takes the step out of the claimed ones and into the audit.      *)
LEMMA ElementsAppend ==
    ASSUME NEW S, NEW q \in Seq(S), NEW e \in S
    PROVE  Elements(Append(q, e)) = Elements(q) \cup {e}
<1>1. Len(Append(q, e)) = Len(q) + 1 /\ Len(q) \in Nat
  OBVIOUS
<1>2. Append(q, e)[Len(q) + 1] = e
  OBVIOUS
<1>3. \A i \in 1..Len(q) : Append(q, e)[i] = q[i]
  OBVIOUS
<1>4. 1..(Len(q) + 1) = 1..Len(q) \cup {Len(q) + 1}
  BY <1>1
<1> QED BY <1>1, <1>2, <1>3, <1>4 DEF Elements

LEMMA DistinctAppend ==
    ASSUME NEW S, NEW q \in Seq(S), NEW e \in S, Distinct(q), e \notin Elements(q)
    PROVE  Distinct(Append(q, e))
<1>1. Len(Append(q, e)) = Len(q) + 1 /\ Len(q) \in Nat
  OBVIOUS
<1>2. Append(q, e)[Len(q) + 1] = e
  OBVIOUS
<1>3. \A i \in 1..Len(q) : Append(q, e)[i] = q[i]
  OBVIOUS
<1>4. \A i \in 1..(Len(q) + 1) : i \in 1..Len(q) \/ i = Len(q) + 1
  BY <1>1
<1>5. \A i \in 1..Len(q) : q[i] # e
  BY DEF Elements
<1> SUFFICES ASSUME NEW i \in 1..(Len(q) + 1), NEW j \in 1..(Len(q) + 1),
                    Append(q, e)[i] = Append(q, e)[j]
             PROVE  i = j
  BY <1>1 DEF Distinct
<1>6. CASE i \in 1..Len(q) /\ j \in 1..Len(q)
  BY <1>3, <1>6 DEF Distinct
<1>7. CASE i = Len(q) + 1 /\ j \in 1..Len(q)
  BY <1>2, <1>3, <1>5, <1>7
<1>8. CASE j = Len(q) + 1 /\ i \in 1..Len(q)
  BY <1>2, <1>3, <1>5, <1>8
<1> QED BY <1>4, <1>6, <1>7, <1>8

LEMMA StartKeeps ==
    ASSUME Inv, NEW w \in Workers, MarkProviderStarted(w), BudgetLeft
    PROVE  Inv'
<1> DEFINE s == worker[w].step
<1>i. TypeOK /\ WorkerInv /\ WorkerOK(w) /\ SlotInv /\ StartInv /\ LogInv
  BY DEF Inv, PurchaseInv, WorkerInv
<1>1. /\ At(w, "prepared") /\ Row(w).status = "claimed" /\ SetStatus(w, "provider_started")
      /\ started' = Append(started, s) /\ Goto(w, "calling")
      /\ UNCHANGED <<session, slots, sent, late, lock, answered, crashes>>
  BY DEF MarkProviderStarted, OpenClaim
<1>2. s \in StepIds /\ steps[s].status = "claimed"
  BY <1>1, <1>i, LabelFacts DEF WorkerOK, At, Row
<1>3. /\ steps' \in [StepIds -> StepRow]
      /\ \A t \in StepIds \ {s} : steps'[t] = steps[t]
      /\ steps'[s] = [steps[s] EXCEPT !.status = "provider_started"]
  BY <1>1, <1>2, <1>i, StatusEffect DEF Statuses, Row
<1>4. steps'[s].status = "provider_started" /\ steps'[s].base_version = steps[s].base_version
      /\ steps'[s].response = steps[s].response
  <2>1. steps[s] \in StepRow BY <1>2, <1>i DEF TypeOK
  <2> QED BY <1>3, <2>1 DEF StepRow
<1>5. Moves(w, "calling")
  BY <1>i, <1>1, GotoEffect, LabelFacts DEF Moves, At
<1>6. RowsGrow /\ RowsStay /\ RowsQuiet
  BY <1>2, <1>3, <1>4 DEF RowsGrow, RowsStay, RowsQuiet, OpenStatuses
<1>7. Elements(started)' = Elements(started) \cup {s}
  BY <1>1, <1>2, <1>i, ElementsAppend DEF TypeOK
<1>8. TypeOK'
  <2>1. started' \in Seq(StepIds) BY <1>1, <1>2, <1>i DEF TypeOK
  <2> QED BY <2>1, <1>3, <1>5, <1>1, <1>i DEF TypeOK, Moves
<1>9. WorkerInv'
  <2>1. WorkerOK(w)'
    BY <1>1, <1>4, <1>5, <1>7, <1>2, <1>i, LabelFacts DEF Moves, WorkerOK, At, Row, Calling
  <2> QED BY <2>1, <1>5, <1>6, <1>7, <1>i, WorkersKept DEF Moves
<1>10. SlotInv'
  BY <1>i, <1>1, <1>5, SlotsKept DEF Admitted, At, Others, Moves
<1>11. StartInv'
  <2>1. Distinct(started)'
    BY <1>1, <1>2, <1>i, DistinctAppend DEF StartInv, TypeOK
  <2>2. Len(started)' <= MaximumOperations
    <3>1. Len(started') = Len(started) + 1 /\ Len(started) \in Nat
      BY <1>1, <1>2, <1>i DEF TypeOK
    <3> QED BY <3>1, SessionsAssumption DEF BudgetLeft
  <2>3. Elements(sent)' \subseteq Elements(started)'
    BY <1>1, <1>7, <1>i DEF StartInv, Elements
  <2>4. \A t \in Elements(started)' : steps'[t].status \notin {"none", "claimed", "released"}
    <3>1. Elements(started) \subseteq StepIds BY <1>i DEF TypeOK, Elements
    <3> QED BY <3>1, <1>7, <1>4, <1>6, <1>i DEF StartInv, RowsStay
  <2> QED BY <2>1, <2>2, <2>3, <2>4 DEF StartInv
<1>12. LogInv'
  <2>1. WorkersQuiet BY <1>5 DEF Moves, WorkersQuiet, Others
  <2>2. SessionQuiet BY <1>1 DEF SessionQuiet
  <2> QED BY <1>i, <1>6, <2>1, <2>2, LogKept
<1> QED BY <1>8, <1>9, <1>10, <1>11, <1>12 DEF Inv, PurchaseInv

-----------------------------------------------------------------------------
(* Opening, reading, claiming and committing. *)
LEMMA OpenKeeps ==
    ASSUME Inv, NEW w \in Workers, NEW b \in Bindings, Open(w, b)
    PROVE  Inv'
<1>i. TypeOK /\ WorkerInv /\ SlotInv /\ StartInv /\ LogInv
  BY DEF Inv, PurchaseInv
<1>1. worker' \in [Workers -> WorkerState] /\ Others(w) /\ worker'[w].pc = "idle"
  <2>1. /\ worker \in [Workers -> WorkerState] /\ "idle" \in Labels
        /\ worker' = [worker EXCEPT ![w].pc = "idle", ![w].binding = b]
    BY <1>i, LabelFacts DEF Open, TypeOK
  <2> QED BY <2>1 DEF WorkerState, Others
<1>2. \/ session = None /\ session' = [binding |-> b, version |-> 0,
                                       transitions |-> <<>>, draining |-> FALSE]
      \/ session # None /\ UNCHANGED session
  BY DEF Open
<1>3. session' \in SessionRow
  <2>1. [binding |-> b, version |-> 0, transitions |-> <<>>, draining |-> FALSE] \in SessionRow
    BY DEF SessionRow
  <2> QED BY <1>2, <2>1, <1>i DEF TypeOK
<1>4. session' # None BY <1>3, SessionsAssumption
<1>5. UNCHANGED <<steps, started, slots, sent, late, lock, answered, crashes>> BY DEF Open
<1>6. TypeOK' BY <1>1, <1>3, <1>5, <1>i DEF TypeOK
<1>7. RowsGrow /\ RowsStay BY <1>5 DEF RowsGrow, RowsStay
<1>8. WorkerInv'
  <2>1. WorkerOK(w)' BY <1>1, <1>4, LabelFacts DEF WorkerOK, At, Calling
  <2>2. Elements(started)' = Elements(started) BY <1>5 DEF Elements
  <2> QED BY <2>1, <2>2, <1>1, <1>4, <1>7, <1>i, WorkersKept
<1>9. SlotInv' BY <1>i, <1>1, <1>5, SlotsKept DEF Admitted, At, Others
<1>10. StartInv'
  <2>1. Elements(sent)' = Elements(sent) BY <1>5 DEF Elements
  <2> QED BY <2>1, <1>5, <1>7, <1>i, StartsKept DEF StartInv
<1>11. LogInv'
  <2>1. CASE UNCHANGED session
    <3>1. RowsQuiet BY <1>5 DEF RowsQuiet
    <3>2. SessionQuiet BY <2>1 DEF SessionQuiet
    <3>3. WorkersQuiet BY <1>1 DEF WorkersQuiet, Others
    <3> QED BY <3>1, <3>2, <3>3, <1>i, LogKept
  <2>2. CASE session = None /\ session'.version = 0 /\ session'.transitions = <<>>
    <3>1. \A v \in Workers : At(v, "down")
      BY <2>2, <1>i DEF WorkerInv, WorkerOK
    <3>2. \A v \in Workers : worker'[v].pc \in {"down", "idle"}
      BY <3>1, <1>1 DEF Others, At
    <3>3. \A s \in StepIds : steps'[s].status = "none"
      BY <2>2, <1>5, <1>i DEF LogInv
    <3>4. Elements(History)' = {}
      BY <1>4, <2>2 DEF History, Elements
    <3> QED BY <3>2, <3>3, <3>4, <1>4, <2>2 DEF LogInv, At, OpenStatuses
  <2> QED BY <2>1, <2>2, <1>2
<1> QED BY <1>6, <1>8, <1>9, <1>10, <1>11 DEF Inv, PurchaseInv

LEMMA ReadSessionKeeps ==
    ASSUME Inv, NEW w \in Workers, ReadSession(w)
    PROVE  Inv'
<1>i. TypeOK /\ WorkerInv /\ WorkerOK(w) /\ SlotInv /\ StartInv /\ LogInv
  BY DEF Inv, PurchaseInv, WorkerInv
<1>1. session # None /\ session \in SessionRow
  BY <1>i DEF ReadSession, WorkerOK, At, TypeOK
<1>2. /\ worker' \in [Workers -> WorkerState] /\ Others(w) /\ worker'[w].pc = "read"
      /\ worker'[w].version = session.version /\ worker'[w].seen = session.transitions
  <2>1. session.version \in Nat /\ session.transitions \in Seq(StepIds)
    BY <1>1 DEF SessionRow
  <2>2. /\ worker \in [Workers -> WorkerState] /\ "read" \in Labels
        /\ worker' = [worker EXCEPT ![w].pc = "read", ![w].version = session.version,
                                    ![w].seen = session.transitions]
    BY <1>i, LabelFacts DEF ReadSession, TypeOK
  <2> QED BY <2>1, <2>2 DEF WorkerState, Others
<1>3. UNCHANGED <<session, steps, started, slots, sent, late, answered, crashes>>
  BY DEF ReadSession
<1>4. TypeOK'
  <2>1. LockOf[w] \in Locks BY DEF Locks
  <2>2. lock' \in [Locks -> Workers \cup {None}] BY <2>1, <1>i DEF ReadSession, TypeOK
  <2> QED BY <2>2, <1>2, <1>3, <1>i DEF TypeOK
<1>5. RowsGrow /\ RowsStay BY <1>3 DEF RowsGrow, RowsStay
<1>6. WorkerInv'
  <2>1. WorkerOK(w)' BY <1>1, <1>2, <1>3, LabelFacts DEF WorkerOK, At, Calling
  <2>2. Elements(started)' = Elements(started) BY <1>3 DEF Elements
  <2> QED BY <2>1, <2>2, <1>2, <1>3, <1>5, <1>i, WorkersKept
<1>7. SlotInv' BY <1>i, <1>2, <1>3, SlotsKept DEF Admitted, At, Others
<1>8. StartInv'
  <2>1. Elements(sent)' = Elements(sent) BY <1>3 DEF Elements
  <2> QED BY <2>1, <1>3, <1>5, <1>i, StartsKept DEF StartInv
<1>9. LogInv'
  <2>1. Elements(History)' = Elements(History) BY <1>3 DEF History, Elements
  <2>2. \A v \in Workers : worker'[v].pc \notin {"down", "idle"} =>
            /\ worker'[v].version <= session.version
            /\ worker'[v].version = session.version => worker'[v].seen = session.transitions
    <3>1. session.version <= session.version BY <1>1 DEF SessionRow
    <3> QED BY <3>1, <1>1, <1>2, <1>i DEF LogInv, Others
  <2>3. \A v \in Workers : At(v, "committed")' =>
            Row(v)'.status = "completed" /\ Row(v)'.response = worker'[v].output
    BY <1>2, <1>3, <1>i DEF LogInv, At, Row, Others
  <2> QED BY <2>1, <2>2, <2>3, <1>1, <1>3, <1>i DEF LogInv
<1> QED BY <1>4, <1>6, <1>7, <1>8, <1>9 DEF Inv, PurchaseInv

LEMMA ClaimKeeps ==
    ASSUME Inv, NEW w \in Workers, NEW s \in StepIds, NEW r \in Requests, Claim(w, s, r)
    PROVE  Inv'
<1> DEFINE x == [NoRow EXCEPT !.status = "claimed", !.request = r,
                              !.base_version = ExpectedVersion(w)]
<1>i. TypeOK /\ WorkerInv /\ WorkerOK(w) /\ SlotInv /\ StartInv /\ LogInv
  BY DEF Inv, PurchaseInv, WorkerInv
<1>1. /\ At(w, "read") /\ steps[s].status = "none"
      /\ \A t \in StepIds : steps[t].status \notin OpenStatuses
      /\ steps' = [steps EXCEPT ![s] = x]
      /\ worker' = [worker EXCEPT ![w].pc = "claimed", ![w].step = s]
      /\ UNCHANGED <<session, started, slots, sent, late, lock, answered, crashes>>
  BY DEF Claim, Claimable, SessionFree
<1>2. worker[w] \in WorkerState /\ worker[w].version \in Nat
  BY <1>i DEF TypeOK, WorkerState
<1>3. x \in StepRow /\ x.status = "claimed" /\ x.base_version = worker[w].version
  BY <1>2 DEF NoRow, StepRow, Statuses, ExpectedVersion
<1> HIDE DEF x
<1>4. /\ worker' \in [Workers -> WorkerState] /\ Others(w)
      /\ worker'[w].pc = "claimed" /\ worker'[w].step = s
      /\ worker'[w].version = worker[w].version /\ worker'[w].seen = worker[w].seen
  <2>1. worker \in [Workers -> WorkerState] /\ "claimed" \in Labels
    BY <1>i, LabelFacts DEF TypeOK
  <2> QED BY <1>1, <2>1 DEF WorkerState, Others
<1>5. steps' \in [StepIds -> StepRow] /\ steps'[s] = x
      /\ \A t \in StepIds \ {s} : steps'[t] = steps[t]
  BY <1>1, <1>3, <1>i DEF TypeOK
<1>6. TypeOK' BY <1>1, <1>4, <1>5, <1>i DEF TypeOK
<1>7. RowsGrow /\ RowsStay BY <1>1, <1>5 DEF RowsGrow, RowsStay
<1>8. WorkerInv'
  <2>1. WorkerOK(w)'
    BY <1>1, <1>3, <1>4, <1>5, <1>i, LabelFacts DEF WorkerOK, At, Row, Calling
  <2>2. Elements(started)' = Elements(started) BY <1>1 DEF Elements
  <2> QED BY <2>1, <2>2, <1>1, <1>4, <1>7, <1>i, WorkersKept
<1>9. SlotInv' BY <1>i, <1>1, <1>4, SlotsKept DEF Admitted, At, Others
<1>10. StartInv'
  <2>1. Elements(sent)' = Elements(sent) BY <1>1 DEF Elements
  <2> QED BY <2>1, <1>1, <1>7, <1>i, StartsKept DEF StartInv
<1>11. LogInv'
  <2>1. Elements(History)' = Elements(History) BY <1>1 DEF History, Elements
  <2>2. session # None BY <1>1, <1>i DEF WorkerOK, At
  <2>3. \A v \in Workers : worker'[v].pc \notin {"down", "idle"} =>
            /\ worker'[v].version <= session.version
            /\ worker'[v].version = session.version => worker'[v].seen = session.transitions
    BY <2>2, <1>1, <1>4, <1>i DEF LogInv, Others, At
  <2>4. \A v \in Workers : At(v, "committed")' =>
            Row(v)'.status = "completed" /\ Row(v)'.response = worker'[v].output
    <3> SUFFICES ASSUME NEW v \in Workers, At(v, "committed")'
                 PROVE  Row(v)'.status = "completed" /\ Row(v)'.response = worker'[v].output
      OBVIOUS
    <3>1. v # w /\ worker'[v] = worker[v] BY <1>4 DEF At, Others
    <3>2. worker[v].step \in StepIds /\ Row(v).status = "completed"
          /\ Row(v).response = worker[v].output
      BY <3>1, <1>i, LabelFacts DEF LogInv, WorkerInv, WorkerOK, At
    <3>3. worker[v].step # s BY <3>2, <1>1 DEF Row
    <3> QED BY <3>1, <3>2, <3>3, <1>5 DEF Row
  <2>5. \A t \in StepIds : steps'[t].status = "completed" <=> t \in Elements(History)'
    <3>1. s \notin Elements(History) BY <1>1, <1>i DEF LogInv
    <3> QED BY <3>1, <2>1, <1>3, <1>5, <1>i DEF LogInv
  <2>6. \A t, u \in StepIds :
          steps'[t].status \in OpenStatuses /\ steps'[u].status \in OpenStatuses => t = u
    BY <1>1, <1>5
  <2>7. \A t \in StepIds : steps'[t].status = "completed" => steps'[t].response \in Outputs
    BY <1>3, <1>5, <1>i DEF LogInv
  <2> QED BY <2>2, <2>3, <2>4, <2>5, <2>6, <2>7, <1>1, <1>i DEF LogInv
<1> QED BY <1>6, <1>8, <1>9, <1>10, <1>11 DEF Inv, PurchaseInv

(* A commit extends the history that its worker read, and that history is  *)
(* the current one, because the version did not move since.                *)
LEMMA CommitReads ==
    ASSUME Inv, NEW w \in Workers, CommitAllowed(w)
    PROVE  /\ session \in SessionRow /\ worker[w].step \in StepIds
           /\ worker[w].step \in Elements(started) /\ worker[w].output \in Outputs
           /\ Row(w).status = "provider_started"
           /\ Row(w).base_version = session.version
           /\ worker[w].seen = session.transitions
<1>i. TypeOK /\ WorkerOK(w) /\ LogInv
  BY DEF Inv, PurchaseInv, WorkerInv
<1>1. At(w, "recorded") /\ Row(w).status = "provider_started"
      /\ session.version = Row(w).base_version
  BY DEF CommitAllowed, OpenClaim
<1>2. session # None /\ session \in SessionRow
  BY <1>1, <1>i DEF WorkerOK, At, TypeOK
<1>3. worker[w].step \in StepIds /\ Row(w).base_version = worker[w].version
      /\ worker[w].step \in Elements(started) /\ worker[w].output \in Outputs
  BY <1>1, <1>i, LabelFacts DEF WorkerOK, At, Calling
<1> QED BY <1>1, <1>2, <1>3, <1>i DEF LogInv, At

LEMMA CommitEffect ==
    ASSUME Inv, NEW w \in Workers, CompleteStep(w)
    PROVE  /\ session' \in SessionRow
           /\ session'.version = session.version + 1
           /\ session'.transitions = Append(session.transitions, worker[w].step)
           /\ steps' \in [StepIds -> StepRow]
           /\ \A s \in StepIds \ {worker[w].step} : steps'[s] = steps[s]
           /\ steps'[worker[w].step].status = "completed"
           /\ steps'[worker[w].step].response = worker[w].output
           /\ steps'[worker[w].step].base_version = Row(w).base_version
<1> DEFINE s == worker[w].step
           n == Row(w).base_version + 1
<1>i. TypeOK BY DEF Inv, PurchaseInv
<1>1. /\ session \in SessionRow /\ s \in StepIds /\ worker[w].output \in Outputs
      /\ Row(w).base_version = session.version /\ worker[w].seen = session.transitions
  BY CommitReads DEF CompleteStep
<1>2. /\ session' = [session EXCEPT !.version = n,
                          !.transitions = Append(session.transitions, s)]
      /\ steps' = [steps EXCEPT ![s].status = "completed", ![s].response = worker[w].output,
                                ![s].resulting_version = n]
  BY <1>1 DEF CompleteStep
<1>3. n \in Nat /\ n = session.version + 1 /\ Append(session.transitions, s) \in Seq(StepIds)
  BY <1>1 DEF SessionRow
<1>4. steps \in [StepIds -> StepRow] BY <1>i DEF TypeOK
<1>n. "completed" \in Statuses BY DEF Statuses
<1> HIDE DEF n, s
<1>5. /\ session' \in SessionRow /\ session'.version = n
      /\ session'.transitions = Append(session.transitions, s)
  BY <1>1, <1>2, <1>3 DEF SessionRow
<1>6. /\ steps' \in [StepIds -> StepRow]
      /\ \A t \in StepIds \ {s} : steps'[t] = steps[t]
      /\ steps'[s].status = "completed" /\ steps'[s].response = worker[w].output
      /\ steps'[s].base_version = steps[s].base_version
  BY <1>1, <1>2, <1>3, <1>4, <1>n DEF StepRow
<1> QED BY <1>3, <1>5, <1>6 DEF s, Row

LEMMA CompleteStepKeeps ==
    ASSUME Inv, NEW w \in Workers, CompleteStep(w)
    PROVE  Inv'
<1> DEFINE s == worker[w].step
<1>i. TypeOK /\ WorkerInv /\ WorkerOK(w) /\ SlotInv /\ StartInv /\ LogInv
  BY DEF Inv, PurchaseInv, WorkerInv
<1>1. /\ session \in SessionRow /\ s \in StepIds
      /\ s \in Elements(started) /\ worker[w].output \in Outputs
      /\ steps[s].status = "provider_started"
  BY CommitReads DEF CompleteStep, Row
<1>2. /\ session' \in SessionRow
      /\ session'.version = session.version + 1
      /\ session'.transitions = Append(session.transitions, s)
      /\ steps' \in [StepIds -> StepRow]
      /\ \A t \in StepIds \ {s} : steps'[t] = steps[t]
      /\ steps'[s].status = "completed" /\ steps'[s].response = worker[w].output
      /\ steps'[s].base_version = steps[s].base_version
  BY CommitEffect DEF Row
<1>3. UNCHANGED <<started, slots, sent, late, lock, answered, crashes>> /\ Goto(w, "committed")
      /\ At(w, "recorded")
  BY DEF CompleteStep, CommitAllowed
<1>4. /\ worker' \in [Workers -> WorkerState] /\ Others(w) /\ worker'[w].pc = "committed"
      /\ worker'[w].step = s /\ worker'[w].version = worker[w].version
      /\ worker'[w].seen = worker[w].seen /\ worker'[w].output = worker[w].output
  BY <1>3, <1>i, GotoEffect, LabelFacts
<1>5. session # None /\ session' # None
  BY <1>1, <1>2, SessionsAssumption
<1>6. TypeOK' BY <1>2, <1>3, <1>4, <1>i DEF TypeOK
<1>7. RowsGrow /\ RowsStay BY <1>1, <1>2 DEF RowsGrow, RowsStay
<1>8. WorkerInv'
  <2>2. Elements(started)' = Elements(started) BY <1>3 DEF Elements
  <2>1. WorkerOK(w)'
    BY <1>1, <1>2, <1>3, <1>4, <1>5, <2>2, <1>i, LabelFacts DEF WorkerOK, At, Row, Calling
  <2> QED BY <2>1, <2>2, <1>4, <1>5, <1>7, <1>i, WorkersKept
<1>9. SlotInv' BY <1>i, <1>3, <1>4, SlotsKept DEF Admitted, At, Others
<1>10. StartInv'
  <2>1. Elements(sent)' = Elements(sent) BY <1>3 DEF Elements
  <2> QED BY <2>1, <1>3, <1>7, <1>i, StartsKept DEF StartInv
<1>11. LogInv'
  <2>0. session.version \in Nat /\ session.transitions \in Seq(StepIds)
    BY <1>1 DEF SessionRow
  <2>1. Elements(History)' = Elements(History) \cup {s}
    BY <2>0, <1>1, <1>2, <1>5, ElementsAppend DEF History
  <2>2. session'.version = Len(session'.transitions)
    BY <2>0, <1>1, <1>2, <1>5, <1>i DEF LogInv
  <2>3. \A v \in Workers : worker'[v].pc \notin {"down", "idle"} =>
            worker'[v].version < session'.version
    <3> SUFFICES ASSUME NEW v \in Workers, worker'[v].pc \notin {"down", "idle"}
                 PROVE  worker'[v].version < session'.version
      OBVIOUS
    <3>1. worker[v].pc \notin {"down", "idle"} /\ worker'[v].version = worker[v].version
      BY <1>3, <1>4 DEF Others, At
    <3>2. worker[v].version <= session.version BY <3>1, <1>5, <1>i DEF LogInv
    <3>3. worker[v].version \in Nat BY <1>i DEF TypeOK, WorkerState
    <3> QED BY <3>1, <3>2, <3>3, <2>0, <1>2
  <2>4. \A v \in Workers : At(v, "committed")' =>
            Row(v)'.status = "completed" /\ Row(v)'.response = worker'[v].output
    <3> SUFFICES ASSUME NEW v \in Workers, v # w, At(v, "committed")'
                 PROVE  Row(v)'.status = "completed" /\ Row(v)'.response = worker'[v].output
      BY <1>2, <1>4 DEF Row
    <3>1. worker'[v] = worker[v] BY <1>4 DEF Others
    <3>2. worker[v].step \in StepIds /\ Row(v).status = "completed"
          /\ Row(v).response = worker[v].output
      BY <3>1, <1>i, LabelFacts DEF LogInv, WorkerInv, WorkerOK, At
    <3>3. worker[v].step # s BY <3>2, <1>1 DEF Row
    <3> QED BY <3>1, <3>2, <3>3, <1>2 DEF Row
  <2>5. \A t \in StepIds : steps'[t].status = "completed" <=> t \in Elements(History)'
    BY <2>1, <1>2, <1>i DEF LogInv
  <2>6. \A t, u \in StepIds :
          steps'[t].status \in OpenStatuses /\ steps'[u].status \in OpenStatuses => t = u
    <3>1. "completed" \notin OpenStatuses BY DEF OpenStatuses
    <3> QED BY <3>1, <1>2, <1>i DEF LogInv
  <2>7. \A t \in StepIds : steps'[t].status = "completed" => steps'[t].response \in Outputs
    BY <1>1, <1>2, <1>i DEF LogInv
  <2>8. \A v \in Workers : worker'[v].pc \notin {"down", "idle"} =>
            /\ worker'[v].version <= session'.version
            /\ worker'[v].version = session'.version => worker'[v].seen = session'.transitions
    <3>1. \A v \in Workers : worker'[v].version \in Nat BY <1>4 DEF WorkerState
    <3> QED BY <3>1, <2>0, <2>3, <1>2
  <2> QED BY <2>2, <2>8, <2>4, <2>5, <2>6, <2>7, <1>5 DEF LogInv
<1> QED BY <1>6, <1>8, <1>9, <1>10, <1>11 DEF Inv, PurchaseInv

-----------------------------------------------------------------------------
(* A worker's death, recovery, draining and the clock. *)
LEMMA CrashKeeps ==
    ASSUME Inv, NEW w \in Workers, Crash(w)
    PROVE  Inv'
<1>i. TypeOK /\ WorkerInv /\ SlotInv /\ StartInv /\ LogInv
  BY DEF Inv, PurchaseInv
<1>1. /\ worker' \in [Workers -> WorkerState] /\ Others(w) /\ worker'[w].pc = "down"
  <2>1. Down \in WorkerState /\ Down.pc = "down" BY LabelFacts DEF Down, WorkerState
  <2>2. worker' = [worker EXCEPT ![w] = Down] /\ worker \in [Workers -> WorkerState]
    BY <1>i DEF Crash, TypeOK
  <2> QED BY <2>1, <2>2 DEF Others
<1>2. UNCHANGED <<session, steps, started, slots, sent, late, answered>> BY DEF Crash
<1>3. TypeOK'
  <2>1. lock' \in [Locks -> Workers \cup {None}] /\ crashes' \in Nat
    BY <1>i DEF Crash, TypeOK
  <2> QED BY <2>1, <1>1, <1>2, <1>i DEF TypeOK
<1>4. RowsGrow /\ RowsStay /\ RowsQuiet BY <1>2 DEF RowsGrow, RowsStay, RowsQuiet
<1>5. WorkerInv'
  <2>1. WorkerOK(w)' BY <1>1, LabelFacts DEF WorkerOK, At, Calling
  <2>2. Elements(started)' = Elements(started) BY <1>2 DEF Elements
  <2> QED BY <2>1, <2>2, <1>1, <1>2, <1>4, <1>i, WorkersKept
<1>6. SlotInv' BY <1>i, <1>1, <1>2, SlotsKept DEF Admitted, At, Others
<1>7. StartInv'
  <2>1. Elements(sent)' = Elements(sent) BY <1>2 DEF Elements
  <2> QED BY <2>1, <1>2, <1>4, <1>i, StartsKept DEF StartInv
<1>8. LogInv'
  <2>1. WorkersQuiet BY <1>1 DEF WorkersQuiet, Others
  <2>2. SessionQuiet BY <1>2 DEF SessionQuiet
  <2> QED BY <1>i, <1>4, <2>1, <2>2, LogKept
<1> QED BY <1>3, <1>5, <1>6, <1>7, <1>8 DEF Inv, PurchaseInv

(* The steps that no worker takes: its workers are where they were. *)
LEMMA OutsideKeeps ==
    ASSUME Inv, session' \in SessionRow \cup {None}, SessionQuiet,
           steps' \in [StepIds -> StepRow], RowsGrow, RowsStay, RowsQuiet,
           UNCHANGED <<started, slots, sent, lock, worker, answered, crashes>>,
           late' \in BOOLEAN
    PROVE  Inv'
<1>i. TypeOK /\ WorkerInv /\ SlotInv /\ StartInv /\ LogInv
  BY DEF Inv, PurchaseInv
<1>1. TypeOK' BY <1>i DEF TypeOK
<1>2. WorkerInv'
  <2> SUFFICES ASSUME NEW v \in Workers PROVE WorkerOK(v)'
    BY DEF WorkerInv
  <2>1. WorkerOK(v) BY <1>i DEF WorkerInv
  <2> QED BY <2>1 DEF WorkerOK, At, Row, RowsGrow, SessionQuiet, Elements
<1>3. SlotInv' BY <1>i, SlotsKept DEF Admitted, At
<1>4. StartInv'
  <2>1. Elements(sent)' = Elements(sent) BY DEF Elements
  <2> QED BY <2>1, <1>i, StartsKept DEF StartInv
<1>5. LogInv'
  <2>1. WorkersQuiet BY DEF WorkersQuiet
  <2> QED BY <2>1, <1>i, LogKept
<1> QED BY <1>1, <1>2, <1>3, <1>4, <1>5 DEF Inv, PurchaseInv

LEMMA RecoverRows ==
    ASSUME TypeOK, Recover
    PROVE  steps' \in [StepIds -> StepRow] /\ RowsClose
<1>1. steps' = [s \in StepIds |-> [steps[s] EXCEPT !.status = RecoverStatus(steps[s].status)]]
  BY DEF Recover
<1>2. ASSUME NEW s \in StepIds
      PROVE  /\ steps'[s] \in StepRow
             /\ steps'[s].base_version = steps[s].base_version
             /\ steps'[s].response = steps[s].response
             /\ steps'[s].status = RecoverStatus(steps[s].status)
  <2>1. steps[s] \in StepRow /\ RecoverStatus(steps[s].status) \in Statuses
    BY DEF TypeOK, StepRow, RecoverStatus, Statuses
  <2> QED BY <1>1, <2>1 DEF StepRow
<1>3. ASSUME NEW s \in StepIds
      PROVE  \/ steps'[s].status = steps[s].status
             \/ /\ steps[s].status \in {"claimed", "provider_started"}
                /\ steps'[s].status \in Closed
                /\ steps'[s].status = "released" => steps[s].status = "claimed"
  BY <1>2 DEF RecoverStatus, Closed
<1> QED BY <1>1, <1>2, <1>3 DEF RowsClose

LEMMA OutsideStepsKeep ==
    ASSUME Inv, Recover \/ DeadlinePasses \/ (\E d \in BOOLEAN : SetDraining(d)) \/ UNCHANGED vars
    PROVE  Inv'
<1>i. TypeOK BY DEF Inv, PurchaseInv
<1>1. CASE Recover
  <2>1. steps' \in [StepIds -> StepRow] /\ RowsClose BY <1>1, <1>i, RecoverRows
  <2>2. RowsGrow /\ RowsStay /\ RowsQuiet
    BY <2>1 DEF RowsClose, RowsGrow, RowsStay, RowsQuiet, Closed, OpenStatuses
  <2>3. UNCHANGED <<session, started, slots, sent, late, lock, worker, answered, crashes>>
    BY <1>1 DEF Recover
  <2>4. SessionQuiet BY <2>3 DEF SessionQuiet
  <2> QED BY <2>1, <2>2, <2>3, <2>4, <1>i, OutsideKeeps DEF TypeOK
<1>2. CASE DeadlinePasses \/ UNCHANGED vars
  <2>1. UNCHANGED <<session, steps, started, slots, sent, lock, worker, answered, crashes>>
        /\ late' \in BOOLEAN
    BY <1>2, <1>i DEF DeadlinePasses, vars, TypeOK
  <2>2. SessionQuiet /\ RowsGrow /\ RowsStay /\ RowsQuiet
    BY <2>1 DEF SessionQuiet, RowsGrow, RowsStay, RowsQuiet
  <2> QED BY <2>1, <2>2, <1>i, OutsideKeeps DEF TypeOK
<1>3. ASSUME NEW d \in BOOLEAN, SetDraining(d) PROVE Inv'
  <2>1. session # None /\ session' = [session EXCEPT !.draining = d]
    BY <1>3 DEF SetDraining
  <2>2. session \in SessionRow BY <2>1, <1>i DEF TypeOK
  <2>3. session' \in SessionRow /\ session'.version = session.version
        /\ session'.transitions = session.transitions
    BY <2>1, <2>2 DEF SessionRow
  <2>4. UNCHANGED <<steps, started, slots, sent, late, lock, worker, answered, crashes>>
    BY <1>3 DEF SetDraining
  <2>5. SessionQuiet BY <2>1, <2>3, SessionsAssumption DEF SessionQuiet
  <2>6. RowsGrow /\ RowsStay /\ RowsQuiet BY <2>4 DEF RowsGrow, RowsStay, RowsQuiet
  <2> QED BY <2>3, <2>4, <2>5, <2>6, <1>i, OutsideKeeps DEF TypeOK
<1> QED BY <1>1, <1>2, <1>3

(* The actions that end an operation. *)
LEMMA EndingActions ==
    ASSUME Inv, NEW w \in Workers,
           \/ PreparationFails(w) \/ ReleaseStep(w) \/ ClaimLost(w) \/ CompletionFails(w)
           \/ WriteFails(w) \/ ProposalRefused(w) \/ DeadlineStopped(w)
           \/ \E s \in StepIds, r \in Requests : Refused(w, s, r)
    PROVE  Ends(w) /\ UNCHANGED answered
<1>1. CASE PreparationFails(w)
  BY <1>1, LabelFacts DEF PreparationFails, Ends, Closes, At, OpenClaim
<1>2. CASE ReleaseStep(w)
  BY <1>2, LabelFacts DEF ReleaseStep, Ends, Closes, At, OpenClaim
<1>3. CASE ClaimLost(w)
  BY <1>3 DEF ClaimLost, Ends, At
<1>4. CASE CompletionFails(w)
  BY <1>4, LabelFacts DEF CompletionFails, Ends, Closes, At, OpenClaim
<1>5. CASE WriteFails(w)
  BY <1>5 DEF WriteFails, Ends, At
<1>6. CASE ProposalRefused(w)
  BY <1>6, LabelFacts DEF ProposalRefused, Ends, Closes, At, OpenClaim
<1>7. CASE DeadlineStopped(w)
  BY <1>7, LabelFacts DEF DeadlineStopped, CommitAllowed, Ends, Closes, At, OpenClaim
<1>8. CASE \E s \in StepIds, r \in Requests : Refused(w, s, r)
  BY <1>8 DEF Refused, Ends, At
<1> QED BY <1>1, <1>2, <1>3, <1>4, <1>5, <1>6, <1>7, <1>8

(* The two that tell a caller an outcome. *)
LEMMA AnsweringActions ==
    ASSUME Inv, NEW w \in Workers,
           Answer(w) \/ \E s \in StepIds, r \in Requests : Replay(w, s, r)
    PROVE  /\ Ends(w) /\ UNCHANGED steps
           /\ \E s \in StepIds : /\ steps[s].status = "completed"
                                 /\ steps[s].response \in Outputs
                                 /\ answered' = answered \cup {<<s, steps[s].response>>}
<1>i. TypeOK /\ WorkerOK(w) /\ LogInv BY DEF Inv, PurchaseInv, WorkerInv
<1>1. CASE Answer(w)
  <2>1. /\ At(w, "committed") /\ answered' = answered \cup {<<worker[w].step, worker[w].output>>}
        /\ Ends(w) /\ UNCHANGED steps
    BY <1>1 DEF Answer, Ends, At
  <2>2. /\ worker[w].step \in StepIds /\ steps[worker[w].step].status = "completed"
        /\ steps[worker[w].step].response = worker[w].output /\ worker[w].output \in Outputs
    BY <2>1, <1>i, LabelFacts DEF LogInv, WorkerOK, At, Row
  <2> QED BY <2>1, <2>2
<1>2. ASSUME NEW s \in StepIds, NEW r \in Requests, Replay(w, s, r)
      PROVE  /\ Ends(w) /\ UNCHANGED steps
             /\ steps[s].status = "completed" /\ steps[s].response \in Outputs
             /\ answered' = answered \cup {<<s, steps[s].response>>}
  <2>1. /\ steps[s].status = "completed" /\ Ends(w) /\ UNCHANGED steps
        /\ answered' = answered \cup {<<s, steps[s].response>>}
    BY <1>2 DEF Replay, Replayable, Ends, At
  <2> QED BY <2>1, <1>i DEF LogInv
<1> QED BY <1>1, <1>2

LEMMA InitInv ==
    ASSUME Init PROVE Inv
<1>1. NoRow \in StepRow /\ NoRow.status = "none" BY DEF NoRow, StepRow, Statuses
<1>2. Down \in WorkerState /\ Down.pc = "down" BY LabelFacts DEF Down, WorkerState
<1>3. /\ \A s \in StepIds : steps[s].status = "none"
      /\ \A w \in Workers : worker[w].pc = "down"
  BY <1>1, <1>2 DEF Init
<1>4. TypeOK
  <2>1. steps \in [StepIds -> StepRow] BY <1>1 DEF Init
  <2>2. worker \in [Workers -> WorkerState] BY <1>2 DEF Init
  <2>3. lock \in [Locks -> Workers \cup {None}] BY DEF Init
  <2>4. started \in Seq(StepIds) /\ sent \in Seq(StepIds) BY DEF Init
  <2>5. /\ session \in SessionRow \cup {None} /\ slots \in Nat /\ late \in BOOLEAN
        /\ answered \subseteq StepIds \X Outputs /\ crashes \in Nat
    BY DEF Init
  <2> QED BY <2>1, <2>2, <2>3, <2>4, <2>5 DEF TypeOK
<1>5. WorkerInv
  BY <1>3, LabelFacts DEF WorkerInv, WorkerOK, At, Calling
<1>6. SlotInv
  <2>1. Admitted = {} BY <1>3 DEF Admitted, At
  <2>2. Cardinality(Admitted) = 0 BY <2>1, FS_EmptySet
  <2>3. Len(sent) = 0 /\ slots = 0 BY DEF Init
  <2> QED BY <2>2, <2>3, SessionsAssumption DEF SlotInv
<1>7. StartInv
  <2>1. started = <<>> /\ sent = <<>> BY DEF Init
  <2>2. Elements(started) = {} /\ Elements(sent) = {} /\ Distinct(started) /\ Len(started) = 0
    BY <2>1 DEF Elements, Distinct
  <2> QED BY <2>2, SessionsAssumption DEF StartInv
<1>8. LogInv
  <2>1. session = None /\ Elements(History) = {} BY DEF Init, History, Elements
  <2> QED BY <2>1, <1>3 DEF LogInv, OpenStatuses, At
<1> QED BY <1>4, <1>5, <1>6, <1>7, <1>8 DEF Inv, PurchaseInv

LEMMA InvStep ==
    ASSUME Inv, [Next]_vars
    PROVE  Inv'
<1>i. TypeOK BY DEF Inv, PurchaseInv
<1>1. ASSUME NEW w \in Workers, NEW b \in Bindings, Open(w, b) PROVE Inv'
  BY <1>1, OpenKeeps
<1>2. ASSUME NEW w \in Workers, ReadSession(w) PROVE Inv'
  BY <1>2, ReadSessionKeeps
<1>3. ASSUME NEW w \in Workers, NEW s \in StepIds, NEW r \in Requests, Claim(w, s, r) PROVE Inv'
  BY <1>3, ClaimKeeps
<1>4. ASSUME NEW w \in Workers, Prepare(w) PROVE Inv'
  BY <1>4, PrepareKeeps
<1>5. ASSUME NEW w \in Workers, MarkProviderStarted(w) PROVE Inv'
  <2>1. CASE BudgetLeft BY <1>5, <2>1, StartKeeps
  <2>2. CASE ~BudgetLeft BY <1>5, <2>2, ExhaustedKeeps
  <2> QED BY <2>1, <2>2
<1>6. ASSUME NEW w \in Workers, ClaimSlot(w) PROVE Inv'
  BY <1>6, ClaimSlotKeeps
<1>7. ASSUME NEW w \in Workers, Send(w) PROVE Inv'
  BY <1>7, SendKeeps
<1>8. ASSUME NEW w \in Workers, NEW o \in Outputs, CompletionReturns(w, o) PROVE Inv'
  BY <1>8, CompletionReturnsKeeps
<1>9. ASSUME NEW w \in Workers, RecordProposal(w) PROVE Inv'
  BY <1>9, RecordProposalKeeps
<1>10. ASSUME NEW w \in Workers, Reask(w) PROVE Inv'
  BY <1>10, ReaskKeeps
<1>11. ASSUME NEW w \in Workers, CompleteStep(w) PROVE Inv'
  BY <1>11, CompleteStepKeeps
<1>12. ASSUME NEW w \in Workers, Crash(w) PROVE Inv'
  BY <1>12, CrashKeeps
<1>13. ASSUME NEW w \in Workers,
              \/ PreparationFails(w) \/ ReleaseStep(w) \/ ClaimLost(w) \/ CompletionFails(w)
              \/ WriteFails(w) \/ ProposalRefused(w) \/ DeadlineStopped(w)
              \/ \E s \in StepIds, r \in Requests : Refused(w, s, r)
       PROVE  Inv'
  <2>1. Ends(w) /\ UNCHANGED answered BY <1>13, EndingActions
  <2> QED BY <2>1, <1>i, EndsKeeps DEF TypeOK
<1>14. ASSUME NEW w \in Workers,
              Answer(w) \/ \E s \in StepIds, r \in Requests : Replay(w, s, r)
       PROVE  Inv'
  <2>1. Ends(w) BY <1>14, AnsweringActions
  <2>2. answered' \subseteq StepIds \X Outputs
    BY <1>14, <1>i, AnsweringActions DEF TypeOK
  <2> QED BY <2>1, <2>2, EndsKeeps
<1>15. ASSUME Recover \/ DeadlinePasses \/ (\E d \in BOOLEAN : SetDraining(d)) \/ UNCHANGED vars
       PROVE  Inv'
  BY <1>15, OutsideStepsKeep
<1> QED BY <1>1, <1>2, <1>3, <1>4, <1>5, <1>6, <1>7, <1>8, <1>9, <1>10, <1>11, <1>12, <1>13,
           <1>14, <1>15 DEF Next

(* The inductive invariant holds throughout: types, what each worker may   *)
(* rely on, slots and starts, and how the history follows the rows.        *)
THEOREM SessionsInvariant == Spec => []Inv
<1>1. Init => Inv BY InitInv
<1>2. Inv /\ [Next]_vars => Inv' BY InvStep
<1> QED BY <1>1, <1>2, PTL DEF Spec

(* Paid work is accounted for before it happens, whatever the workers, the *)
(* lock files they were opened with, the deaths and the recoveries: the    *)
(* dispatch ledger and mark_provider_started see every physical request.   *)
THEOREM PurchasesCorrect == Spec => []PurchasesAccounted
<1>1. Inv => PurchasesAccounted
  <2> SUFFICES ASSUME Inv PROVE PurchasesAccounted OBVIOUS
  <2>i. TypeOK /\ SlotInv /\ StartInv BY DEF Inv, PurchaseInv
  <2>1. Cardinality(Admitted) \in Nat BY AdmittedFinite DEF Admitted
  <2>2. Len(sent) \in Nat BY <2>i DEF TypeOK
  <2>3. Len(sent) <= slots BY <2>i, <2>1, <2>2 DEF SlotInv, TypeOK
  <2> QED BY <2>i, <2>3 DEF SlotInv, StartInv, PurchasesAccounted
<1> QED BY <1>1, SessionsInvariant, PTL

-----------------------------------------------------------------------------
(* The refinement.  The abstract log is read off the history and the rows. *)
Log == [i \in 1..Len(History) |-> <<History[i], steps[History[i]].response>>]
Version == IF session = None THEN 0 ELSE session.version
ClosedSteps == {s \in StepIds : steps[s].status \in Closed}

LEMMA HistoryType ==
    ASSUME Inv
    PROVE  /\ History \in Seq(StepIds) /\ Len(History) \in Nat
           /\ \A i \in 1..Len(History) : History[i] \in StepIds
                                         /\ steps[History[i]].status = "completed"
                                         /\ steps[History[i]].response \in Outputs
<1>i. TypeOK /\ LogInv BY DEF Inv, PurchaseInv
<1>1. History \in Seq(StepIds) /\ Len(History) \in Nat
  BY <1>i DEF TypeOK, SessionRow, History
<1>2. \A i \in 1..Len(History) : History[i] \in StepIds /\ History[i] \in Elements(History)
  BY <1>1 DEF Elements
<1> QED BY <1>1, <1>2, <1>i DEF LogInv

(* The committed operations are the completed steps. *)
LEMMA CommittedSteps ==
    ASSUME Inv, NEW s \in StepIds
    PROVE  /\ (\A i \in 1..Len(Log) : Log[i][1] # s) <=> steps[s].status # "completed"
           /\ steps[s].status = "completed" =>
                \E i \in 1..Len(Log) : Log[i] = <<s, steps[s].response>>
           /\ Len(Log) = Len(History)
<1>i. LogInv BY DEF Inv
<1>1. Len(Log) = Len(History)
  <2>1. Len(History) \in Nat BY HistoryType
  <2> QED BY <2>1 DEF Log
<1>2. \A i \in 1..Len(Log) : Log[i] = <<History[i], steps[History[i]].response>>
  BY <1>1 DEF Log
<1>3. steps[s].status = "completed" <=> \E i \in 1..Len(Log) : History[i] = s
  BY <1>1, <1>i DEF LogInv, Elements
<1> QED BY <1>1, <1>2, <1>3

(* A step that leaves history and version alone: it closes one open step,  *)
(* the only one there is, or nothing the caller sees.                      *)
RowsAbstract ==
    \A s \in StepIds :
        /\ steps[s].status = "completed" => steps'[s].response = steps[s].response
        /\ steps[s].status \in Closed => steps'[s].status \in Closed
        /\ steps'[s].status \in Closed =>
              steps[s].status \in Closed \cup {"claimed", "provider_started"}
LEMMA LogSame ==
    ASSUME Inv, RowsAbstract, History' = History
    PROVE  Log' = Log
BY HistoryType DEF RowsAbstract, Log

LEMMA CloseOrStutter ==
    ASSUME Inv, RowsAbstract, History' = History, Version' = Version, UNCHANGED answered
    PROVE  [Abstract!Next]_(Abstract!vars)
<1>i. LogInv BY DEF Inv
<1>1. Log' = Log BY LogSame
<1>2. ClosedSteps \subseteq ClosedSteps' BY DEF ClosedSteps, RowsAbstract
<1>3. CASE ClosedSteps' = ClosedSteps
  BY <1>1, <1>3 DEF Abstract!vars, Log, Version, ClosedSteps
<1>4. CASE ClosedSteps' # ClosedSteps
  <2>1. PICK s \in ClosedSteps' : s \notin ClosedSteps BY <1>2, <1>4
  <2>2. s \in StepIds /\ steps[s].status \in {"claimed", "provider_started"}
    BY <2>1 DEF ClosedSteps, RowsAbstract
  <2>3. ClosedSteps' = ClosedSteps \cup {s}
    <3> SUFFICES ASSUME NEW t \in ClosedSteps', t \notin ClosedSteps PROVE t = s
      BY <1>2, <2>1
    <3>1. t \in StepIds /\ steps[t].status \in {"claimed", "provider_started"}
      BY DEF ClosedSteps, RowsAbstract
    <3> QED BY <2>2, <3>1, <1>i DEF LogInv, OpenStatuses
  <2>4. \A i \in 1..Len(Log) : Log[i][1] # s
    BY <2>2, CommittedSteps
  <2>5. s \in Abstract!Open
    BY <2>1, <2>2, <2>4 DEF Abstract!Open, Abstract!Committed, ClosedSteps, Log
  <2>6. Abstract!Close(s)
    BY <2>3, <2>5, <1>1 DEF Abstract!Close, ClosedSteps, Log, Version
  <2> QED BY <2>2, <2>6 DEF Abstract!Next
<1> QED BY <1>3, <1>4

LEMMA CommitRefines ==
    ASSUME Inv, NEW w \in Workers, CompleteStep(w)
    PROVE  Abstract!Next
<1> DEFINE s == worker[w].step
           e == <<s, worker[w].output>>
<1>i. TypeOK /\ LogInv BY DEF Inv, PurchaseInv
<1>1. /\ session \in SessionRow /\ s \in StepIds /\ worker[w].output \in Outputs
      /\ steps[s].status = "provider_started"
  BY CommitReads DEF CompleteStep, Row
<1>2. /\ session' \in SessionRow /\ session'.version = session.version + 1
      /\ session'.transitions = Append(session.transitions, s)
      /\ \A t \in StepIds \ {s} : steps'[t] = steps[t]
      /\ steps'[s].status = "completed" /\ steps'[s].response = worker[w].output
  BY CommitEffect
<1>3. session # None /\ session' # None BY <1>1, <1>2, SessionsAssumption
<1>4. History' = Append(History, s) /\ Version' = Version + 1
  BY <1>2, <1>3 DEF History, Version
<1>5. ClosedSteps' = ClosedSteps
  BY <1>1, <1>2 DEF ClosedSteps, Closed
<1>6. \A i \in 1..Len(Log) : Log[i][1] # s BY <1>1, CommittedSteps
<1>7. s \in Abstract!Open
  BY <1>1, <1>6 DEF Abstract!Open, Abstract!Committed, Closed, Log
<1>8. Log' = Append(Log, e)
  <2>1. Len(History') = Len(History) + 1 /\ Len(History) \in Nat
    BY <1>1, <1>4, HistoryType
  <2>2. \A i \in 1..Len(History) :
            History'[i] = History[i] /\ History[i] # s /\ History[i] \in StepIds
    BY <1>1, <1>4, HistoryType
  <2>3. History'[Len(History) + 1] = s
    BY <1>1, <1>4, HistoryType
  <2>4. \A i \in 1..(Len(History) + 1) :
            <<History'[i], steps'[History'[i]].response>> =
                IF i = Len(History) + 1 THEN e ELSE <<History[i], steps[History[i]].response>>
    <3> SUFFICES ASSUME NEW i \in 1..(Len(History) + 1)
                 PROVE  <<History'[i], steps'[History'[i]].response>> =
                IF i = Len(History) + 1 THEN e ELSE <<History[i], steps[History[i]].response>>
      OBVIOUS
    <3>1. CASE i = Len(History) + 1 BY <3>1, <2>3, <1>2
    <3>2. CASE i # Len(History) + 1
      <4>1. i \in 1..Len(History) BY <3>2, <2>1
      <4> QED BY <3>2, <4>1, <2>2, <1>2
    <3> QED BY <3>1, <3>2
  <2>5. Log \in Seq(StepIds \X Outputs) /\ Len(Log) = Len(History)
    BY <2>1, HistoryType, CommittedSteps, <1>1 DEF Log
  <2>6. Append(Log, e) = [i \in 1..(Len(History) + 1) |->
                            IF i = Len(History) + 1 THEN e ELSE Log[i]]
    BY <2>5, <1>1
  <2>7. Log' = [i \in 1..(Len(History) + 1) |-> <<History'[i], steps'[History'[i]].response>>]
    BY <2>1 DEF Log
  <2>8. \A i \in 1..Len(History) : Log[i] = <<History[i], steps[History[i]].response>>
    BY DEF Log
  <2>9. \A i \in 1..(Len(History) + 1) : i # Len(History) + 1 => i \in 1..Len(History)
    BY <2>1
  <2> QED BY <2>4, <2>6, <2>7, <2>8, <2>9
<1>9. PICK op \in StepIds, o \in Outputs : op = s /\ o = worker[w].output
  BY <1>1
<1>10. Abstract!Commit(op, o)
  BY <1>4, <1>5, <1>7, <1>8, <1>9 DEF Abstract!Commit, Log, Version, ClosedSteps, CompleteStep
<1> QED BY <1>10 DEF Abstract!Next

LEMMA AnswerRefines ==
    ASSUME Inv, NEW w \in Workers,
           Answer(w) \/ \E s \in StepIds, r \in Requests : Replay(w, s, r)
    PROVE  Abstract!Next
<1>1. PICK s \in StepIds : /\ steps[s].status = "completed"
                           /\ answered' = answered \cup {<<s, steps[s].response>>}
  BY AnsweringActions
<1>2. UNCHANGED <<session, steps>> BY AnsweringActions DEF Ends
<1>3. PICK i \in 1..Len(Log) : Log[i] = <<s, steps[s].response>>
  BY <1>1, CommittedSteps
<1>4. <<s, steps[s].response>> \in Abstract!Committed
  BY <1>3 DEF Abstract!Committed, Log
<1>5. History' = History /\ Log' = Log BY <1>2 DEF History, Log
<1>6. Abstract!Answer(<<s, steps[s].response>>)
  BY <1>1, <1>2, <1>4, <1>5 DEF Abstract!Answer, Log
<1> QED BY <1>4, <1>6 DEF Abstract!Next

(* Every step is one of the log's or leaves it alone. *)
LEMMA RefineStep ==
    ASSUME Inv, Inv', [Next]_vars
    PROVE  [Abstract!Next]_(Abstract!vars)
<1>i. TypeOK /\ WorkerInv /\ LogInv BY DEF Inv, PurchaseInv
<1>1. ASSUME NEW w \in Workers, CompleteStep(w) PROVE [Abstract!Next]_(Abstract!vars)
  BY <1>1, CommitRefines
<1>2. ASSUME NEW w \in Workers,
             Answer(w) \/ \E s \in StepIds, r \in Requests : Replay(w, s, r)
      PROVE  [Abstract!Next]_(Abstract!vars)
  BY <1>2, AnswerRefines
<1>3. ASSUME UNCHANGED <<session, answered>>, RowsAbstract
      PROVE  [Abstract!Next]_(Abstract!vars)
  <2>1. History' = History /\ Version' = Version BY <1>3 DEF History, Version
  <2> QED BY <1>3, <2>1, CloseOrStutter
<1>4. RowsClose => RowsAbstract
  BY DEF RowsClose, RowsAbstract, Closed
<1>5. ASSUME NEW w \in Workers,
             \/ PreparationFails(w) \/ ReleaseStep(w) \/ ClaimLost(w) \/ CompletionFails(w)
             \/ WriteFails(w) \/ ProposalRefused(w) \/ DeadlineStopped(w)
             \/ \E s \in StepIds, r \in Requests : Refused(w, s, r)
      PROVE  [Abstract!Next]_(Abstract!vars)
  <2>1. Ends(w) /\ UNCHANGED answered BY <1>5, EndingActions
  <2>2. RowsClose BY <2>1, EndsRows
  <2> QED BY <2>1, <2>2, <1>3, <1>4 DEF Ends
<1>6. UNCHANGED steps => RowsAbstract BY DEF RowsAbstract
<1>7. ASSUME NEW w \in Workers,
             \/ ReadSession(w) \/ Prepare(w) \/ ClaimSlot(w) \/ Send(w) \/ Reask(w) \/ Crash(w)
             \/ MarkProviderStarted(w) /\ ~BudgetLeft
             \/ \E o \in Outputs : CompletionReturns(w, o)
      PROVE  [Abstract!Next]_(Abstract!vars)
  <2>1. UNCHANGED <<session, steps, answered>>
    BY <1>7 DEF ReadSession, Prepare, ClaimSlot, Send, Reask, Crash, MarkProviderStarted,
                CompletionReturns
  <2> QED BY <2>1, <1>3, <1>6
<1>8. ASSUME NEW w \in Workers, MarkProviderStarted(w), BudgetLeft
      PROVE  [Abstract!Next]_(Abstract!vars)
  <2>1. /\ At(w, "prepared") /\ Row(w).status = "claimed" /\ SetStatus(w, "provider_started")
        /\ UNCHANGED <<session, answered>>
    BY <1>8 DEF MarkProviderStarted, OpenClaim
  <2>2. worker[w].step \in StepIds
    BY <2>1, <1>i, LabelFacts DEF WorkerInv, WorkerOK, At
  <2>3. /\ \A t \in StepIds \ {worker[w].step} : steps'[t] = steps[t]
        /\ steps'[worker[w].step] = [Row(w) EXCEPT !.status = "provider_started"]
    BY <2>1, <2>2, <1>i, StatusEffect DEF Statuses
  <2>4. Row(w) \in StepRow BY <2>2, <1>i DEF TypeOK, Row
  <2>5. steps'[worker[w].step].status = "provider_started"
    BY <2>3, <2>4 DEF StepRow
  <2>6. RowsAbstract
    BY <2>1, <2>2, <2>3, <2>5 DEF RowsAbstract, Closed, Row
  <2> QED BY <2>1, <2>6, <1>3
<1>9. ASSUME NEW w \in Workers, RecordProposal(w) PROVE [Abstract!Next]_(Abstract!vars)
  <2>1. \A s \in StepIds : /\ steps'[s].status = steps[s].status
                           /\ steps'[s].response = steps[s].response
    BY <1>9, <1>i DEF RecordProposal, TypeOK, StepRow
  <2>2. RowsAbstract BY <2>1 DEF RowsAbstract
  <2> QED BY <2>2, <1>3, <1>9 DEF RecordProposal
<1>10. ASSUME NEW w \in Workers, NEW s \in StepIds, NEW r \in Requests, Claim(w, s, r)
       PROVE  [Abstract!Next]_(Abstract!vars)
  <2>1. /\ steps[s].status = "none" /\ UNCHANGED <<session, answered>>
        /\ steps' = [steps EXCEPT ![s] =
              [NoRow EXCEPT !.status = "claimed", !.request = r,
                            !.base_version = ExpectedVersion(w)]]
    BY <1>10 DEF Claim, Claimable
  <2>2. steps'[s].status = "claimed" /\ \A t \in StepIds \ {s} : steps'[t] = steps[t]
    BY <2>1, <1>i DEF NoRow, TypeOK
  <2>3. RowsAbstract BY <2>1, <2>2 DEF RowsAbstract, Closed
  <2> QED BY <2>1, <2>3, <1>3
<1>11. ASSUME NEW w \in Workers, NEW b \in Bindings, Open(w, b)
       PROVE  [Abstract!Next]_(Abstract!vars)
  <2>1. UNCHANGED <<steps, answered>> BY <1>11 DEF Open
  <2>2. CASE UNCHANGED session BY <2>1, <2>2, <1>3, <1>6
  <2>3. CASE session = None /\ session' = [binding |-> b, version |-> 0,
                                       transitions |-> <<>>, draining |-> FALSE]
    <3>1. session' # None
      <4>1. session' \in SessionRow BY <2>3 DEF SessionRow
      <4> QED BY <4>1, SessionsAssumption
    <3>2. History' = History /\ Version' = Version BY <3>1, <2>3 DEF History, Version
    <3> QED BY <3>2, <2>1, <1>6, CloseOrStutter
  <2> QED BY <2>2, <2>3, <1>11 DEF Open
<1>12. CASE Recover
  <2>1. RowsClose BY <1>12, <1>i, RecoverRows
  <2> QED BY <2>1, <1>3, <1>4, <1>12 DEF Recover
<1>13. CASE DeadlinePasses \/ UNCHANGED vars
  BY <1>13, <1>3, <1>6 DEF DeadlinePasses, vars
<1>14. ASSUME NEW d \in BOOLEAN, SetDraining(d) PROVE [Abstract!Next]_(Abstract!vars)
  <2>1. session # None /\ session' = [session EXCEPT !.draining = d] /\ UNCHANGED <<steps, answered>>
    BY <1>14 DEF SetDraining
  <2>2. session \in SessionRow BY <2>1, <1>i DEF TypeOK
  <2>3. session' \in SessionRow /\ session'.version = session.version
        /\ session'.transitions = session.transitions
    BY <2>1, <2>2 DEF SessionRow
  <2>4. session' # None BY <2>3, SessionsAssumption
  <2>5. History' = History /\ Version' = Version BY <2>1, <2>3, <2>4 DEF History, Version
  <2> QED BY <2>1, <2>5, <1>6, CloseOrStutter
<1> QED BY <1>1, <1>2, <1>5, <1>7, <1>8, <1>9, <1>10, <1>11, <1>12, <1>13, <1>14 DEF Next

(* The session store with its workers implements the log of operations:    *)
(* what durable.py does with claims, versions and recovery shows a caller  *)
(* nothing but an append-only log in which each operation is committed     *)
(* once or closed for good.                                                *)
THEOREM SessionsImplementLog == Spec => OperationLogSpec
<1>1. Init => Abstract!Init
  <2> SUFFICES ASSUME Init PROVE Abstract!Init OBVIOUS
  <2>1. session = None /\ answered = {} /\ \A s \in StepIds : steps[s].status = "none"
    BY DEF Init, NoRow
  <2>2. History = <<>> BY <2>1 DEF History
  <2>3. Log = <<>> BY <2>2 DEF Log
  <2> QED BY <2>1, <2>3 DEF Abstract!Init, Log, Closed
<1>2. Inv /\ Inv' /\ [Next]_vars => [Abstract!Next]_(Abstract!vars) BY RefineStep
<1> QED BY <1>1, <1>2, SessionsInvariant, PTL DEF Spec, OperationLogSpec, Abstract!Spec
====
