-------------------------- MODULE AccountingProofs --------------------------
(***************************************************************************)
(* Theorems about the attempt accounting registry: reservations have an    *)
(* owner, the fence is exact, evidence is never lost, and a drained        *)
(* registry owes nothing, for any number of requests and attempts.         *)
(***************************************************************************)
EXTENDS Accounting, FiniteSetTheorems, TLAPS

StartPcs == {"start", "check", "reserve", "bind", "close", "leave", "after"}
AbandonPcs == {"abandon", "agate", "awrite", "adone"}
SettlePcs == {"settle", "sgate", "swrite", "sdone"}
QuotePcs == {"quote", "priced"}
GatePcs == {"check", "reserve", "bind", "close", "leave", "swrite", "sdone", "awrite", "adone"}
Pcs == {"idle", "replied", "clear"} \cup StartPcs \cup AbandonPcs \cup SettlePcs \cup QuotePcs

Replies == {"ok", "error", "started", "closed"}
CallState ==
    [pc : Pcs, request : Requests \cup {NULL}, data : Settlement \cup {NULL}, tries : Int,
     slot : Ordinals \cup {NULL}, reply : Replies \cup {NULL}]
Decided == {"quoting", "flushed", "delivering", "fatal"}
Phases == {"absent", "ready", "starting", "serving", "done"} \cup Decided
GuardState ==
    [phase : Phases, attempt : Ordinals \cup {NULL}, decided : Settlement \cup {NULL}]
Rows == {"none", "dispatched", "recovered"} \cup AllKinds
LedgerState == [request : {"none", "open", "closed"}, attempt : [Ordinals -> Rows]]

TypeOK ==
    /\ clock \in [Requests -> 0..2]
    /\ entry \in [Requests -> InflightRequest \cup {NULL}]
    /\ fence \subseteq Requests
    /\ finish \in [Requests -> AllFaults \cup {NULL}]
    /\ gate \in [Requests -> Threads \cup {NULL}]
    /\ ledger \in [Requests -> LedgerState]
    /\ guard \in [Requests -> GuardState]
    /\ thread \in [Threads -> CallState]
    /\ faults \in Nat

(* The calls that may work on a request: two of its own, and the sweep     *)
(* while it is at this request.                                            *)
Who == {"main", "back", "sweep"}
Tid(r, w) == IF w = "sweep" THEN Sweeper ELSE <<r, w>>
Task(r, w) == IF thread[Tid(r, w)].request = r THEN thread[Tid(r, w)] ELSE Idle
Tasks(r) == [w \in Who |-> Task(r, w)]

PcsOf(w) ==
    {"idle"} \cup (CASE w = "main" -> {"replied"} \cup StartPcs \cup AbandonPcs \cup SettlePcs \cup QuotePcs
                     [] w = "back" -> {"replied"} \cup AbandonPcs \cup SettlePcs
                     [] OTHER -> {"swrite", "sdone", "clear"} \cup AbandonPcs)

(* One decision at a time is in play for a request: c, which every copy of *)
(* it agrees with.                                                         *)
Decision == [attempt : Ordinals, kind : AllKinds, finalize : BOOLEAN]
Agree(d, c) == d.attempt = c.attempt /\ d.kind = c.kind /\ d.finalize = c.finalize
InPlay(d, c, e, l) ==
    /\ Agree(d, c)
    /\ l.attempt[c.attempt] # "none"
    /\ e # NULL => c.attempt = e.total - 1

(* What a call t relies on, with the entry e, the rows l, the retained     *)
(* request write f and the holder h of the gate.                           *)
TaskOK(w, r, c, t, e, l, f, h) ==
    /\ t.pc \in PcsOf(w)
    /\ t.pc = "idle" => t = Idle
    /\ t.pc \in GatePcs => h = Tid(r, w) /\ e # NULL
    /\ t.pc \in SettlePcs \cup QuotePcs \cup {"clear"} => t.data # NULL
    /\ t.pc \in StartPcs \cup AbandonPcs => t.data = NULL
    /\ t.slot # NULL => w = "main" /\ t.pc \in {"after", "replied"} \cup AbandonPcs
    /\ t.pc # "clear" /\ t.data # NULL => InPlay(t.data, c, e, l)
    /\ t.pc \in {"reserve", "bind"} => e.total < MaxAttempts
    /\ t.pc = "bind" => l.attempt[e.total] = "dispatched"
    /\ t.pc = "leave" => l.request = "closed" \/ f # NULL
    /\ t.pc = "sgate" /\ e # NULL => (e.pending = NULL => e.active = NULL)
    /\ t.pc = "sdone" => /\ l.attempt[t.data.attempt] # "dispatched"
                         /\ t.data.kind = "exact" => l.attempt[t.data.attempt] = "exact"
                         /\ t.data.finalize => l.request = "closed"
    /\ t.pc = "clear" => /\ t.data.attempt = c.attempt => Agree(t.data, c)
                         /\ t.data.kind = "exact" => l.attempt[t.data.attempt] = "exact"
                         /\ e # NULL => /\ t.data.attempt < e.total /\ ~t.data.finalize
                                        /\ e.active # t.data.attempt
    /\ t.pc = "adone" => /\ l.request = "closed"
                         /\ e.active # NULL => l.attempt[e.active] # "dispatched"

(* The entry and the rows of a request. *)
EntryOK(c, t, e, l, f) ==
    /\ e # NULL =>
        /\ e.pending # NULL => InPlay(e.pending, c, e, l)
        /\ t["sweep"].pc \in {"swrite", "sdone"} => e.pending = t["sweep"].data
        /\ e.active # NULL =>
            /\ e.active = e.total - 1 /\ l.attempt[e.active] # "none"
            /\ \/ l.attempt[e.active] = "dispatched" \/ l.request = "closed"
               \/ \E w \in Who : t[w].pc = "sdone"
    /\ e # NULL \/ f # NULL => l.request # "none"
    /\ l.request = "open" => e # NULL \/ f # NULL
    /\ l.attempt[c.attempt] \in {"none", "dispatched", "recovered", c.kind}
    /\ c.finalize /\ l.attempt[c.attempt] \notin {"none", "dispatched"} => l.request = "closed"
    /\ \A n \in Ordinals :
        /\ l.attempt[n] = "recovered" => l.request = "closed"
        /\ l.attempt[n] = "dispatched" =>
               e # NULL /\ (e.active = n \/ (t["main"].pc = "bind" /\ e.total = n))

(* No evidence is in play; attempt n is reserved and nothing is decided of *)
(* it.                                                                     *)
Quiet(t, e) ==
    /\ e # NULL => e.pending = NULL
    /\ \A w \in Who : t[w].pc = "clear" \/ t[w].data = NULL
Fresh(n, t, e, l) ==
    /\ n \in Ordinals /\ l.attempt[n] \in {"dispatched", "recovered"}
    /\ e # NULL => n = e.total - 1
    /\ t["sweep"].pc = "clear" => t["sweep"].data.attempt # n
Starting(t, g) ==
    t["main"].pc \in StartPcs \cup AbandonPcs \/ (t["main"].pc = "replied" /\ g.phase = "starting")

(* What the guard was told holds of the entry, while there is one. *)
Served(t, e, g) ==
    e # NULL =>
        /\ g.phase = "flushed" => e.pending # NULL
        /\ g.phase = "quoting" /\ t["main"].pc = "replied" /\ t["main"].reply = "ok" => e.pending # NULL
        /\ g.phase = "delivering" /\ t["main"].pc = "replied" /\ t["main"].reply = "ok" =>
               /\ e.pending = NULL /\ e.active = NULL
               /\ t["sweep"].pc \notin {"swrite", "sdone"}
        /\ g.phase = "delivering" /\ t["main"].pc = "sgate" =>
               e.pending = NULL \/ e.pending = t["main"].data

(* The guard of a request, by its phase. *)
GuardOK(c, t, e, g, l) ==
    /\ g.phase = "absent" =>
        /\ e = NULL /\ l.request = "none" /\ \A n \in Ordinals : l.attempt[n] = "none"
        /\ \A w \in Who : t[w].pc = "idle"
    /\ g.phase \in {"absent", "ready", "serving", "flushed", "fatal"} => t["main"].pc = "idle"
    /\ g.phase = "starting" => t["main"].pc \in {"replied"} \cup StartPcs \cup AbandonPcs
    /\ g.phase = "quoting" => t["main"].pc \in {"replied"} \cup QuotePcs
    /\ g.phase = "delivering" => t["main"].pc \in {"replied"} \cup SettlePcs
    /\ g.phase = "done" => t["main"].pc # "replied"
    /\ t["back"].pc # "idle" => g.phase = "done"
    /\ g.decided # NULL <=> g.phase \in Decided
    /\ g.decided # NULL => InPlay(g.decided, c, e, l)
    /\ g.attempt # NULL => g.phase \in {"serving"} \cup Decided
    /\ g.phase \in {"quoting", "flushed"} => g.decided.finalize
    /\ Starting(t, g) =>
        /\ Quiet(t, e)
        /\ t["main"].slot = NULL => (e # NULL => e.active = NULL)
        /\ t["main"].slot # NULL => Fresh(t["main"].slot, t, e, l)
        /\ t["main"].pc = "replied" /\ t["main"].reply = "started" => t["main"].slot # NULL
    /\ g.phase = "ready" => Quiet(t, e) /\ (e # NULL => e.active = NULL)
    /\ g.phase = "serving" => Quiet(t, e) /\ Fresh(g.attempt, t, e, l)
    /\ Served(t, e, g)

Cell(r, c, t, e, g, l, f, h) ==
    /\ \A w \in Who : TaskOK(w, r, c, t[w], e, l, f, h)
    /\ EntryOK(c, t, e, l, f)
    /\ GuardOK(c, t, e, g, l)
CellOK(r, c) ==
    Cell(r, c, Tasks(r), entry[r], guard[r], ledger[r], finish[r], gate[r])

(* A call belongs to the request it is at, and an idle one is reset. *)
CallersOK ==
    \A x \in Threads :
        /\ thread[x].pc = "idle" <=> thread[x] = Idle
        /\ thread[x].pc # "idle" => thread[x].request \in Requests
        /\ x # Sweeper /\ thread[x].pc # "idle" => thread[x].request = x[1]

Inv ==
    /\ TypeOK /\ CallersOK /\ FenceExact
    /\ \A r \in Requests : \E c \in Decision : CellOK(r, c)

-----------------------------------------------------------------------------
(* Threads and the requests they work on. *)
LEMMA TidFacts ==
    ASSUME NEW r \in Requests, NEW w \in Who
    PROVE  /\ Tid(r, w) \in Threads /\ Tid(r, w) # NULL
           /\ \A u \in Who : Tid(r, u) = Tid(r, w) => u = w
           /\ \A q \in Requests, u \in Who : Tid(q, u) = Tid(r, w) =>
                  u = w /\ (w = "sweep" \/ q = r)
           /\ Tid(r, w) = Sweeper <=> w = "sweep"
           /\ w # "sweep" => Tid(r, w) = <<r, w>>
<1>1. "sweep" \notin Callers /\ Who = Callers \cup {"sweep"} BY DEF Callers, Who
<1>2. Sweeper \notin Requests \X Callers BY <1>1 DEF Sweeper
<1>3. Tid(r, w) \in Threads BY <1>1 DEF Tid, Threads
<1> QED BY <1>1, <1>2, <1>3, AccountingAssumption DEF Tid, Sweeper

LEMMA IdleFacts ==
    /\ Idle \in CallState /\ Idle.pc = "idle" /\ Idle.request = NULL
    /\ Idle.data = NULL /\ Idle.slot = NULL
BY DEF Idle, NewCall, CallState, Pcs

LEMMA Located ==
    ASSUME Inv, NEW x \in Threads, thread[x].pc # "idle"
    PROVE  /\ thread[x].request \in Requests
           /\ \E w \in Who : x = Tid(thread[x].request, w)
                             /\ Task(thread[x].request, w) = thread[x]
<1>1. thread[x].request \in Requests BY DEF Inv, CallersOK
<1>2. CASE x = Sweeper
  <2>1. x = Tid(thread[x].request, "sweep") /\ "sweep" \in Who BY <1>2 DEF Tid, Who
  <2> QED BY <1>1, <2>1 DEF Task
<1>3. CASE x # Sweeper
  <2>1. PICK q \in Requests, w \in Callers : x = <<q, w>> BY <1>3 DEF Threads
  <2>2. w \in Who /\ w # "sweep" BY DEF Callers, Who
  <2>3. x[1] = q BY <2>1
  <2>4. thread[x].request = q BY <1>3, <2>3 DEF Inv, CallersOK
  <2>5. x = Tid(q, w) BY <2>1, <2>2 DEF Tid
  <2>6. Task(q, w) = thread[x] BY <2>4, <2>5 DEF Task
  <2> QED BY <1>1, <2>2, <2>4, <2>5, <2>6
<1> QED BY <1>1, <1>2, <1>3

LEMMA TaskTypes ==
    ASSUME Inv, NEW r \in Requests
    PROVE  /\ Tasks(r) \in [Who -> CallState]
           /\ \A w \in Who : Tasks(r)[w] = Task(r, w)
<1>1. \A w \in Who : Task(r, w) \in CallState
  BY TidFacts, IdleFacts DEF Inv, TypeOK, Task
<1> QED BY <1>1 DEF Tasks

LEMMA TaskSet ==
    ASSUME Inv, NEW r \in Requests, NEW w \in Who, NEW v \in CallState,
           v = Idle \/ (v.pc # "idle" /\ v.request = r),
           thread' = [thread EXCEPT ![Tid(r, w)] = v],
           w = "sweep" => thread[Sweeper].request = r \/ thread[Sweeper] = Idle
    PROVE  /\ thread' \in [Threads -> CallState] /\ CallersOK'
           /\ Tasks(r)' = [Tasks(r) EXCEPT ![w] = v]
           /\ \A q \in Requests \ {r} : Tasks(q)' = Tasks(q)
<1>1. thread \in [Threads -> CallState] BY DEF Inv, TypeOK
<1>2. /\ thread'[Tid(r, w)] = v
      /\ \A x \in Threads : x # Tid(r, w) => thread'[x] = thread[x]
  BY <1>1, TidFacts
<1>3. thread' \in [Threads -> CallState] BY <1>1, TidFacts
<1>4. CallersOK'
  <2> SUFFICES ASSUME NEW x \in Threads
               PROVE  /\ thread'[x].pc = "idle" <=> thread'[x] = Idle
                      /\ thread'[x].pc # "idle" => thread'[x].request \in Requests
                      /\ x # Sweeper /\ thread'[x].pc # "idle" => thread'[x].request = x[1]
    BY DEF CallersOK
  <2>1. CASE x = Tid(r, w)
    <3>1. x # Sweeper => x = <<r, w>> BY <2>1, TidFacts
    <3>2. x # Sweeper => x[1] = r BY <3>1
    <3> QED BY <1>2, <2>1, <3>2, IdleFacts
  <2>2. CASE x # Tid(r, w) BY <1>2, <2>2 DEF Inv, CallersOK
  <2> QED BY <2>1, <2>2
<1>5. Task(r, w)' = v BY <1>2, IdleFacts, AccountingAssumption DEF Task
<1>6. ASSUME NEW u \in Who \ {w} PROVE Task(r, u)' = Task(r, u)
  <2>1. Tid(r, u) # Tid(r, w) /\ Tid(r, u) \in Threads BY TidFacts
  <2> QED BY <1>2, <2>1 DEF Task
<1>7. ASSUME NEW q \in Requests \ {r}, NEW u \in Who PROVE Task(q, u)' = Task(q, u)
  <2>0. Tid(q, u) \in Threads BY TidFacts
  <2>1. CASE Tid(q, u) # Tid(r, w) BY <1>2, <2>0, <2>1 DEF Task
  <2>2. CASE Tid(q, u) = Tid(r, w)
    <3>1. w = "sweep" /\ Tid(q, u) = Sweeper BY <2>2, TidFacts
    <3>2. thread[Sweeper].request # q BY <3>1, IdleFacts, AccountingAssumption
    <3>3. thread'[Sweeper].request # q BY <1>2, <2>2, <3>1, IdleFacts, AccountingAssumption
    <3> QED BY <3>1, <3>2, <3>3 DEF Task
  <2> QED BY <2>1, <2>2
<1>8. Tasks(r)' = [Tasks(r) EXCEPT ![w] = v] BY <1>5, <1>6 DEF Tasks
<1>9. \A q \in Requests \ {r} : Tasks(q)' = Tasks(q) BY <1>7 DEF Tasks
<1> QED BY <1>3, <1>4, <1>8, <1>9

(* A step at one request leaves the cells of the others alone. *)
Local(r) ==
    \A q \in Requests \ {r} :
        /\ Tasks(q)' = Tasks(q) /\ entry'[q] = entry[q] /\ guard'[q] = guard[q]
        /\ ledger'[q] = ledger[q] /\ finish'[q] = finish[q] /\ gate'[q] = gate[q]

LEMMA StepAt ==
    ASSUME Inv, NEW r \in Requests, TypeOK', CallersOK', FenceExact', Local(r),
           NEW c \in Decision, CellOK(r, c)'
    PROVE  Inv'
<1>1. ASSUME NEW q \in Requests \ {r} PROVE \E d \in Decision : CellOK(q, d)'
  <2>1. PICK d \in Decision : CellOK(q, d) BY DEF Inv
  <2>2. CellOK(q, d)' BY <2>1 DEF CellOK, Local
  <2> QED BY <2>2
<1> QED BY <1>1 DEF Inv

-----------------------------------------------------------------------------
(* Steps of one call, on the values of a cell. *)
Typed(r, c, t, e, g, l, f) ==
    /\ r \in Requests /\ c \in Decision /\ t \in [Who -> CallState]
    /\ e \in InflightRequest \cup {NULL} /\ g \in GuardState /\ l \in LedgerState
    /\ f \in AllFaults \cup {NULL}

LEMMA CellTyped ==
    ASSUME Inv, NEW r \in Requests, NEW c \in Decision
    PROVE  Typed(r, c, Tasks(r), entry[r], guard[r], ledger[r], finish[r])
BY TaskTypes DEF Inv, TypeOK, Typed

LEMMA WhoFacts == "main" \in Who /\ "back" \in Who /\ "sweep" \in Who
BY DEF Who

(* Only one call holds the gate. *)
LEMMA OneHolder ==
    ASSUME NEW r \in Requests, NEW c, NEW t, NEW e, NEW g, NEW l, NEW f, NEW h,
           Cell(r, c, t, e, g, l, f, h), NEW w \in Who, NEW u \in Who, u # w,
           h = NULL \/ h = Tid(r, w)
    PROVE  t[u].pc \notin GatePcs
<1>1. TaskOK(u, r, c, t[u], e, l, f, h) BY DEF Cell
<1>2. Tid(r, u) # Tid(r, w) /\ Tid(r, u) # NULL BY TidFacts
<1> QED BY <1>1, <1>2 DEF TaskOK

LEMMA GateMoves ==
    ASSUME NEW r \in Requests, NEW c, NEW t, NEW e, NEW g, NEW l, NEW f, NEW h,
           Cell(r, c, t, e, g, l, f, h), NEW w \in Who, NEW u \in Who, u # w,
           NEW h2, h2 = h \/ h = NULL \/ h = Tid(r, w)
    PROVE  TaskOK(u, r, c, t[u], e, l, f, h2)
<1>1. TaskOK(u, r, c, t[u], e, l, f, h) BY DEF Cell
<1>2. CASE h2 = h BY <1>1, <1>2
<1>3. CASE h = NULL \/ h = Tid(r, w)
  <2>1. t[u].pc \notin GatePcs BY <1>3, OneHolder
  <2> QED BY <1>1, <2>1 DEF TaskOK
<1> QED BY <1>2, <1>3

LEMMA OtherTask ==
    ASSUME NEW r, NEW c, NEW t, NEW e, NEW g, NEW l, NEW f, NEW h,
           Typed(r, c, t, e, g, l, f), Cell(r, c, t, e, g, l, f, h),
           NEW w \in {"back", "sweep"}, NEW v \in CallState, NEW h2,
           TaskOK(w, r, c, v, e, l, f, h2), h2 = h \/ h = NULL \/ h = Tid(r, w),
           t[w].pc # "sdone", v.pc \notin {"sdone", "clear"},
           v.data # NULL => ~Quiet(t, e) \/ (g.phase = "done" /\ ~Starting(t, g)),
           v.pc # "idle" => /\ g.phase # "absent"
                            /\ w = "back" => g.phase = "done",
           v.pc = "swrite" /\ w = "sweep" => e.pending = v.data
    PROVE  Cell(r, c, [t EXCEPT ![w] = v], e, g, l, f, h2)
<1>1. PICK t2 \in [Who -> CallState] : t2 = [t EXCEPT ![w] = v] BY WhoFacts DEF Typed
<1>2. /\ t2[w] = v /\ \A u \in Who \ {w} : t2[u] = t[u]
      /\ t2["main"] = t["main"] /\ w \in Who
  BY <1>1, WhoFacts DEF Typed
<1>3. \A u \in Who : TaskOK(u, r, c, t2[u], e, l, f, h2)
  BY <1>2, GateMoves DEF Typed
<1>4. EntryOK(c, t2, e, l, f)
  <2>1. EntryOK(c, t, e, l, f) BY DEF Cell
  <2>2. \A u \in Who : t[u].pc = "sdone" => t2[u].pc = "sdone" BY <1>2
  <2>3. e # NULL => (t2["sweep"].pc \in {"swrite", "sdone"} => e.pending = t2["sweep"].data)
    BY <1>2, <2>1, WhoFacts DEF EntryOK
  <2> QED BY <1>2, <2>1, <2>2, <2>3 DEF EntryOK
<1>5. GuardOK(c, t2, e, g, l)
  <2>1. GuardOK(c, t, e, g, l) BY DEF Cell
  <2>2. Quiet(t, e) => Quiet(t2, e) \/ (g.phase = "done" /\ ~Starting(t, g))
    BY <1>2, WhoFacts DEF Quiet
  <2>3. \A n \in Ordinals : Fresh(n, t, e, l) => Fresh(n, t2, e, l)
    BY <1>2, WhoFacts DEF Fresh
  <2>4. Starting(t2, g) = Starting(t, g) BY <1>2 DEF Starting
  <2>5. t["main"].slot \in Ordinals \cup {NULL} /\ (g.phase = "serving" => g.attempt \in Ordinals)
    BY <2>1, WhoFacts DEF Typed, CallState, GuardOK, Served, Fresh
  <2>6. g.phase = "absent" => \A u \in Who : t2[u].pc = "idle" BY <1>2, <2>1 DEF GuardOK, Served
  <2>7. t2["back"].pc # "idle" => g.phase = "done" BY <1>2, <2>1, WhoFacts DEF GuardOK, Served
  <2>8. e # NULL /\ e.pending = NULL => (t2["sweep"].pc \in {"swrite", "sdone"} => t["sweep"].pc \in {"swrite", "sdone"})
    <3>1. TaskOK("sweep", r, c, t2["sweep"], e, l, f, h2) BY <1>3, WhoFacts
    <3>2. t2["sweep"].pc = "swrite" => t2["sweep"].data # NULL BY <3>1 DEF TaskOK, SettlePcs
    <3> QED BY <1>2, <3>2, WhoFacts
  <2> QED BY <1>2, <2>1, <2>2, <2>3, <2>4, <2>5, <2>6, <2>7, <2>8 DEF GuardOK, Served
<1> QED BY <1>1, <1>3, <1>4, <1>5 DEF Cell

LEMMA MainTask ==
    ASSUME NEW r, NEW c, NEW t, NEW e, NEW g, NEW l, NEW f, NEW h,
           Typed(r, c, t, e, g, l, f), Cell(r, c, t, e, g, l, f, h),
           NEW g2, NEW v \in CallState, NEW h2,
           TaskOK("main", r, c, v, e, l, f, h2), h2 = h \/ h = NULL \/ h = Tid(r, "main"),
           t["main"].pc \notin {"sdone", "bind"},
           GuardOK(c, [t EXCEPT !["main"] = v], e, g2, l)
    PROVE  Cell(r, c, [t EXCEPT !["main"] = v], e, g2, l, f, h2)
<1>1. PICK t2 \in [Who -> CallState] : t2 = [t EXCEPT !["main"] = v] BY WhoFacts DEF Typed
<1>2. t2["main"] = v /\ \A u \in Who \ {"main"} : t2[u] = t[u]
  BY <1>1, WhoFacts DEF Typed
<1>3. \A u \in Who : TaskOK(u, r, c, t2[u], e, l, f, h2)
  BY <1>2, GateMoves, WhoFacts DEF Typed
<1>4. EntryOK(c, t2, e, l, f)
  <2>1. EntryOK(c, t, e, l, f) BY DEF Cell
  <2>2. \A u \in Who : t[u].pc = "sdone" => t2[u].pc = "sdone" BY <1>2
  <2>3. t2["sweep"] = t["sweep"] BY <1>2, WhoFacts
  <2> QED BY <1>2, <2>1, <2>2, <2>3 DEF EntryOK
<1> QED BY <1>1, <1>3, <1>4 DEF Cell

(* A call of start_attempt that goes on, or ends. *)
LEMMA StartTask ==
    ASSUME NEW r, NEW c, NEW t, NEW e, NEW g, NEW l, NEW f, NEW h,
           Typed(r, c, t, e, g, l, f), Cell(r, c, t, e, g, l, f, h),
           t["main"].pc \in StartPcs \cup AbandonPcs, t["main"].pc # "bind",
           NEW v \in CallState, NEW h2,
           TaskOK("main", r, c, v, e, l, f, h2), h2 = h \/ h = NULL \/ h = Tid(r, "main"),
           v = Idle \/ (v.data = NULL /\ v.slot = t["main"].slot),
           \/ v.pc \in StartPcs \cup AbandonPcs
           \/ v.pc = "idle" /\ g.phase = "done"
           \/ /\ v.pc = "replied" /\ g.phase # "done"
              /\ v.reply = "started" => v.slot # NULL
    PROVE  Cell(r, c, [t EXCEPT !["main"] = v], e, g, l, f, h2)
<1>1. PICK t2 \in [Who -> CallState] : t2 = [t EXCEPT !["main"] = v] BY WhoFacts DEF Typed
<1>2. t2["main"] = v /\ t2["back"] = t["back"] /\ t2["sweep"] = t["sweep"]
  BY <1>1, WhoFacts DEF Typed
<1>3. GuardOK(c, t, e, g, l) BY DEF Cell
<1>4. t["main"].pc # "idle" /\ t["main"].pc # "replied" /\ t["main"].pc \notin SettlePcs
      /\ t["main"].pc \notin QuotePcs
  BY DEF StartPcs, AbandonPcs, SettlePcs, QuotePcs
<1>5. g.phase \in {"starting", "done"}
  BY <1>3, <1>4 DEF GuardOK, Served, Typed, GuardState, Phases, Decided
<1>6. v.data = NULL BY IdleFacts
<1>7. Quiet(t, e) /\ Quiet(t2, e)
  <2>1. Quiet(t, e) BY <1>3 DEF GuardOK, Served, Starting
  <2>2. \A u \in Who : t2[u] = t[u] \/ t2[u].data = NULL BY <1>2, <1>6 DEF Who
  <2> QED BY <2>1, <2>2 DEF Quiet
<1>8. \A n : Fresh(n, t, e, l) => Fresh(n, t2, e, l) BY <1>2 DEF Fresh
<1>9. v.pc = "idle" => v = Idle BY DEF TaskOK
<1>10. GuardOK(c, t2, e, g, l)
  <2>1. Starting(t, g) BY DEF Starting
  <2>2. Starting(t2, g) => /\ Quiet(t2, e)
                           /\ v.slot = NULL => (e # NULL => e.active = NULL)
                           /\ v.slot # NULL => Fresh(v.slot, t2, e, l)
                           /\ v.pc = "replied" /\ v.reply = "started" => v.slot # NULL
    <3>1. CASE v.pc = "idle" BY <1>2, <3>1 DEF Starting, StartPcs, AbandonPcs
    <3>2. CASE v.pc # "idle"
      <4>1. v.slot = t["main"].slot /\ (v.pc = "replied" /\ v.reply = "started" => v.slot # NULL)
        BY <3>2, IdleFacts DEF StartPcs, AbandonPcs
      <4> QED BY <1>3, <1>7, <1>8, <2>1, <4>1 DEF GuardOK, Served
    <3> QED BY <3>1, <3>2
  <2>3. g.phase = "starting" => v.pc \in {"replied"} \cup StartPcs \cup AbandonPcs OBVIOUS
  <2>4. g.phase = "done" => v.pc # "replied" BY DEF StartPcs, AbandonPcs
  <2> QED BY <1>2, <1>3, <1>5, <1>7, <2>2, <2>3, <2>4 DEF GuardOK, Served, Decided
<1> QED BY <1>1, <1>10, MainTask DEF SettlePcs, StartPcs, AbandonPcs

-----------------------------------------------------------------------------
(* From the variables to the values. *)
Rest ==
    /\ clock \in [Requests -> 0..2]
    /\ entry \in [Requests -> InflightRequest \cup {NULL}]
    /\ fence \subseteq Requests
    /\ finish \in [Requests -> AllFaults \cup {NULL}]
    /\ gate \in [Requests -> Threads \cup {NULL}]
    /\ ledger \in [Requests -> LedgerState]
    /\ guard \in [Requests -> GuardState]
    /\ faults \in Nat
Elsewhere(r) ==
    \A q \in Requests \ {r} :
        /\ entry'[q] = entry[q] /\ guard'[q] = guard[q]
        /\ ledger'[q] = ledger[q] /\ finish'[q] = finish[q] /\ gate'[q] = gate[q]

LEMMA CellStep ==
    ASSUME Inv, NEW r \in Requests, NEW w \in Who, NEW v \in CallState,
           v = Idle \/ (v.pc # "idle" /\ v.request = r),
           thread' = [thread EXCEPT ![Tid(r, w)] = v],
           w = "sweep" => thread[Sweeper].request = r \/ thread[Sweeper] = Idle,
           Rest', Elsewhere(r), FenceExact', NEW c \in Decision,
           Cell(r, c, [Tasks(r) EXCEPT ![w] = v], entry'[r], guard'[r], ledger'[r],
                finish'[r], gate'[r])
    PROVE  Inv'
<1>1. /\ thread' \in [Threads -> CallState] /\ CallersOK'
      /\ Tasks(r)' = [Tasks(r) EXCEPT ![w] = v]
      /\ \A q \in Requests \ {r} : Tasks(q)' = Tasks(q)
  BY TaskSet
<1>2. TypeOK' BY <1>1 DEF TypeOK, Rest
<1>3. Local(r) BY <1>1 DEF Local, Elsewhere
<1>4. CellOK(r, c)' BY <1>1 DEF CellOK
<1> QED BY <1>1, <1>2, <1>3, <1>4, StepAt

LEMMA RestNow == ASSUME Inv PROVE Rest
BY DEF Inv, TypeOK, Rest

(* Call x, which is call w of request r, in a cell with decision c; the    *)
(* call moves to a program counter; the call replies.                      *)
Opens(x, r, w, c) ==
    /\ r = thread[x].request /\ x = Tid(r, w) /\ Task(r, w) = thread[x]
    /\ Tasks(r)[w] = thread[x] /\ (w = "sweep" => thread[Sweeper].request = r)
    /\ Typed(r, c, Tasks(r), entry[r], guard[r], ledger[r], finish[r])
    /\ Cell(r, c, Tasks(r), entry[r], guard[r], ledger[r], finish[r], gate[r])
    /\ TaskOK(w, r, c, thread[x], entry[r], ledger[r], finish[r], gate[r])
Moves(r, w, t, v, pc) ==
    /\ v.pc = pc /\ v.request = r /\ v.data = t.data
    /\ v.slot = t.slot /\ v.reply = t.reply
Answers(r, w, t, v, res, phase) ==
    \/ v = Idle /\ (w = "main" => phase = "done")
    \/ /\ v.pc = "replied" /\ v.reply = res /\ v.request = r
       /\ v.data = t.data /\ v.slot = t.slot
       /\ \/ w = "main" /\ phase # "done"
          \/ w = "back" /\ res = "error"

LEMMA GotoEffect ==
    ASSUME Inv, NEW r \in Requests, NEW w \in Who, NEW c, NEW x, Opens(x, r, w, c),
           NEW pc \in Pcs \ {"idle"}, Goto(x, pc)
    PROVE  \E v \in CallState :
               thread' = [thread EXCEPT ![Tid(r, w)] = v] /\ Moves(r, w, thread[x], v, pc)
<1>0. x = Tid(r, w) /\ thread[x] = Task(r, w) /\ thread[x].request = r BY Zenon DEF Opens
<1>1. thread[x] \in CallState BY <1>0, TidFacts DEF Inv, TypeOK
<1>2. PICK v : v = [thread[x] EXCEPT !.pc = pc] OBVIOUS
<1>3. v \in CallState /\ Moves(r, w, thread[x], v, pc)
  BY <1>0, <1>1, <1>2 DEF CallState, Moves
<1>4. thread' = [thread EXCEPT ![Tid(r, w)] = v] BY <1>0, <1>2 DEF Goto
<1> QED BY <1>3, <1>4, Zenon

LEMMA ReplyEffect ==
    ASSUME Inv, NEW r \in Requests, NEW w \in Who, NEW c, NEW x, Opens(x, r, w, c),
           NEW res \in Replies, Reply(x, res)
    PROVE  \E v \in CallState :
               /\ thread' = [thread EXCEPT ![Tid(r, w)] = v]
               /\ Answers(r, w, thread[x], v, res, guard[r].phase)
<1>0. x = Tid(r, w) /\ thread[x] = Task(r, w) /\ thread[x].request = r BY Zenon DEF Opens
<1>1. thread[x] \in CallState BY <1>0, TidFacts DEF Inv, TypeOK
<1>2. CASE Awaited(x, res)
  <2>1. PICK v : v = [thread[x] EXCEPT !.pc = "replied", !.reply = res] OBVIOUS
  <2>2. /\ v \in CallState /\ v.pc = "replied" /\ v.reply = res /\ v.request = r
        /\ v.data = thread[x].data /\ v.slot = thread[x].slot
    BY <1>0, <1>1, <2>1 DEF CallState, Pcs
  <2>3. thread' = [thread EXCEPT ![Tid(r, w)] = v] BY <1>0, <1>2, <2>1 DEF Reply
  <2>4. \/ w = "main" /\ guard[r].phase # "done"
        \/ w = "back" /\ res = "error"
    <3>1. CASE w = "sweep" BY <1>0, <1>2, <3>1, TidFacts DEF Awaited, Sweeper
    <3>2. CASE w # "sweep"
      <4>1. x = <<r, w>> BY <1>0, <3>2, TidFacts
      <4>2. x[1] = r /\ x[2] = w BY <4>1
      <4> QED BY <1>2, <3>2, <4>2 DEF Awaited, Who
    <3> QED BY <3>1, <3>2
  <2> QED BY <2>2, <2>3, <2>4 DEF Answers
<1>3. CASE ~Awaited(x, res)
  <2>1. thread' = [thread EXCEPT ![Tid(r, w)] = Idle] BY <1>0, <1>3 DEF Reply
  <2>2. w = "main" => guard[r].phase = "done"
    <3>1. w = "main" => x = <<r, "main">> BY <1>0, TidFacts
    <3>2. w = "main" => x[1] = r /\ x[2] = "main" BY <3>1
    <3> QED BY <1>3, <3>2 DEF Awaited
  <2> QED BY <2>1, <2>2, IdleFacts, Zenon DEF Answers
<1> QED BY <1>2, <1>3

LEMMA Opened ==
    ASSUME Inv, NEW x \in Threads, thread[x].pc # "idle"
    PROVE  \E r \in Requests, w \in Who, c \in Decision : Opens(x, r, w, c)
<1>1. PICK r \in Requests : r = thread[x].request BY Located
<1>2. PICK w \in Who : x = Tid(r, w) /\ Task(r, w) = thread[x] BY <1>1, Located
<1>3. PICK c \in Decision : CellOK(r, c) BY DEF Inv
<1>4. Cell(r, c, Tasks(r), entry[r], guard[r], ledger[r], finish[r], gate[r])
  BY <1>3 DEF CellOK
<1>5. Tasks(r)[w] = thread[x] BY <1>2, TaskTypes
<1>6. TaskOK(w, r, c, thread[x], entry[r], ledger[r], finish[r], gate[r])
  BY <1>4, <1>5 DEF Cell
<1>7. w = "sweep" => thread[Sweeper].request = r BY <1>1, <1>2, TidFacts
<1> QED BY <1>1, <1>2, <1>4, <1>5, <1>6, <1>7, CellTyped, Zenon DEF Opens

LEMMA IdleOK ==
    ASSUME NEW w \in Who, NEW r, NEW c, NEW e, NEW l, NEW f, NEW h
    PROVE  TaskOK(w, r, c, Idle, e, l, f, h)
BY IdleFacts DEF TaskOK, PcsOf, GatePcs, SettlePcs, QuotePcs, StartPcs, AbandonPcs

LEMMA RepliedOK ==
    ASSUME NEW w \in {"main", "back"}, NEW r, NEW c, NEW e, NEW l, NEW f, NEW h,
           NEW v, v.pc = "replied", v.slot # NULL => w = "main",
           v.data # NULL => InPlay(v.data, c, e, l)
    PROVE  TaskOK(w, r, c, v, e, l, f, h)
BY DEF TaskOK, PcsOf, GatePcs, SettlePcs, QuotePcs, StartPcs, AbandonPcs

(* A reply of a call that had no evidence to land. *)
LEMMA AnswerOK ==
    ASSUME NEW w \in Who, NEW r, NEW c, NEW e, NEW l, NEW f, NEW h,
           NEW t, TaskOK(w, r, c, t, e, l, f, h), t.pc # "clear",
           NEW v, NEW h2, NEW res, NEW phase, Answers(r, w, t, v, res, phase)
    PROVE  TaskOK(w, r, c, v, e, l, f, h2)
<1>1. CASE v = Idle BY <1>1, IdleOK
<1>2. CASE v # Idle
  <2>1. /\ w \in {"main", "back"} /\ v.pc = "replied" /\ v.data = t.data /\ v.slot = t.slot
    BY <1>2 DEF Answers
  <2>2. v.slot # NULL => w = "main" BY <2>1 DEF TaskOK
  <2>3. v.data # NULL => InPlay(v.data, c, e, l) BY <2>1 DEF TaskOK
  <2> QED BY <2>1, <2>2, <2>3, RepliedOK
<1> QED BY <1>1, <1>2

LEMMA GateUpdate ==
    ASSUME Inv, NEW r \in Requests, NEW h \in Threads \cup {NULL},
           gate' = [gate EXCEPT ![r] = h] \/ (gate' = gate /\ h = gate[r])
    PROVE  /\ gate' \in [Requests -> Threads \cup {NULL}] /\ gate'[r] = h
           /\ \A q \in Requests \ {r} : gate'[q] = gate[q]
BY DEF Inv, TypeOK

(* Steps of start_attempt that change nothing but the call and the gate. *)
LEMMA StartMoves ==
    ASSUME Inv, NEW x \in Threads, NEW r \in Requests, NEW c \in Decision,
           Opens(x, r, "main", c),
           thread[x].pc \in StartPcs \cup AbandonPcs, thread[x].pc # "bind",
           UNCHANGED <<clock, entry, fence, finish, ledger, guard, faults>>,
           \/ gate' = gate
           \/ gate[r] = NULL /\ gate' = [gate EXCEPT ![r] = x]
           \/ thread[x].pc \in GatePcs /\ gate' = [gate EXCEPT ![r] = NULL],
           NEW v \in CallState, thread' = [thread EXCEPT ![Tid(r, "main")] = v],
           TaskOK("main", r, c, v, entry[r], ledger[r], finish[r], gate'[r]),
           \/ \E pc \in StartPcs \cup AbandonPcs : Moves(r, "main", thread[x], v, pc)
           \/ \E res \in {"closed", "ok", "error"} :
                  Answers(r, "main", thread[x], v, res, guard[r].phase)
           \/ thread[x].slot # NULL /\ Answers(r, "main", thread[x], v, "started", guard[r].phase)
    PROVE  Inv'
<1>1. /\ r = thread[x].request /\ x = Tid(r, "main") /\ Tasks(r)["main"] = thread[x]
      /\ Typed(r, c, Tasks(r), entry[r], guard[r], ledger[r], finish[r])
      /\ Cell(r, c, Tasks(r), entry[r], guard[r], ledger[r], finish[r], gate[r])
      /\ TaskOK("main", r, c, thread[x], entry[r], ledger[r], finish[r], gate[r])
  BY Zenon DEF Opens
<1>2. /\ gate' \in [Requests -> Threads \cup {NULL}]
      /\ \A q \in Requests \ {r} : gate'[q] = gate[q]
      /\ gate'[r] = gate[r] \/ gate[r] = NULL \/ gate[r] = Tid(r, "main")
  <2>1. CASE gate' = gate BY <2>1, RestNow DEF Rest
  <2>2. CASE gate[r] = NULL /\ gate' = [gate EXCEPT ![r] = x] BY <2>2, GateUpdate, Zenon
  <2>3. CASE thread[x].pc \in GatePcs /\ gate' = [gate EXCEPT ![r] = NULL]
    BY <1>1, <2>3, GateUpdate, Zenon DEF TaskOK
  <2> QED BY <2>1, <2>2, <2>3
<1>3. Rest' /\ Elsewhere(r) /\ FenceExact'
  BY <1>2, RestNow DEF Rest, Elsewhere, Inv, FenceExact, Live
<1>4. thread[x].data = NULL BY <1>1, Zenon DEF TaskOK
<1>5. v = Idle \/ (v.data = NULL /\ v.slot = thread[x].slot)
  BY <1>4 DEF Moves, Answers
<1>6. \/ v.pc \in StartPcs \cup AbandonPcs
      \/ v.pc = "idle" /\ guard[r].phase = "done"
      \/ /\ v.pc = "replied" /\ guard[r].phase # "done"
         /\ v.reply = "started" => v.slot # NULL
  BY IdleFacts DEF Moves, Answers
<1>7. Cell(r, c, [Tasks(r) EXCEPT !["main"] = v], entry[r], guard[r], ledger[r], finish[r], gate'[r])
  <2>1. PICK t, e, g, l, f, h, h2 :
           /\ t = Tasks(r) /\ e = entry[r] /\ g = guard[r] /\ l = ledger[r] /\ f = finish[r]
           /\ h = gate[r] /\ h2 = gate'[r]
    OBVIOUS
  <2>2. /\ Typed(r, c, t, e, g, l, f) /\ Cell(r, c, t, e, g, l, f, h)
        /\ t["main"] = thread[x] /\ TaskOK("main", r, c, v, e, l, f, h2)
    BY <1>1, <2>1, Zenon
  <2>3. /\ t["main"].pc \in StartPcs \cup AbandonPcs /\ t["main"].pc # "bind"
        /\ h2 = h \/ h = NULL \/ h = Tid(r, "main")
        /\ v = Idle \/ (v.data = NULL /\ v.slot = t["main"].slot)
    BY <1>2, <1>5, <2>1, <2>2
  <2>4. \/ v.pc \in StartPcs \cup AbandonPcs
        \/ v.pc = "idle" /\ g.phase = "done"
        \/ /\ v.pc = "replied" /\ g.phase # "done"
           /\ v.reply = "started" => v.slot # NULL
    BY <1>6, <2>1
  <2>5. Cell(r, c, [t EXCEPT !["main"] = v], e, g, l, f, h2)
    BY <2>2, <2>3, <2>4, StartTask
  <2> QED BY <2>1, <2>5
<1>8. v = Idle \/ (v.pc # "idle" /\ v.request = r)
  BY DEF Moves, Answers, StartPcs, AbandonPcs
<1> QED BY <1>1, <1>3, <1>7, <1>8, CellStep, WhoFacts, Zenon

LEMMA StartAnswers ==
    ASSUME Inv, NEW x \in Threads, NEW r \in Requests, NEW c \in Decision,
           Opens(x, r, "main", c),
           thread[x].pc \in StartPcs \cup AbandonPcs, thread[x].pc # "bind",
           UNCHANGED <<clock, entry, fence, finish, ledger, guard, faults>>, gate' = gate,
           NEW v \in CallState, thread' = [thread EXCEPT ![Tid(r, "main")] = v],
           NEW res \in Replies, res = "started" => thread[x].slot # NULL,
           Answers(r, "main", thread[x], v, res, guard[r].phase)
    PROVE  Inv'
<1>1. TaskOK("main", r, c, thread[x], entry[r], ledger[r], finish[r], gate[r]) BY Zenon DEF Opens
<1>2. TaskOK("main", r, c, v, entry[r], ledger[r], finish[r], gate'[r])
  BY <1>1, AnswerOK, WhoFacts DEF StartPcs, AbandonPcs
<1>3. \/ \E s \in {"closed", "ok", "error"} : Answers(r, "main", thread[x], v, s, guard[r].phase)
      \/ thread[x].slot # NULL /\ Answers(r, "main", thread[x], v, "started", guard[r].phase)
  BY DEF Replies
<1> QED BY <1>2, <1>3, StartMoves, Zenon

LEMMA StartEnterStep ==
    ASSUME Inv, NEW x \in Threads, StartEnter(x)
    PROVE  Inv'
<1>1. thread[x].pc = "start" BY DEF StartEnter, At
<1>2. PICK r \in Requests, w \in Who, c \in Decision : Opens(x, r, w, c) BY <1>1, Opened
<1>3. /\ r = thread[x].request /\ x = Tid(r, w) /\ Tasks(r)[w] = thread[x]
      /\ TaskOK(w, r, c, thread[x], entry[r], ledger[r], finish[r], gate[r])
  BY <1>2, Zenon DEF Opens
<1>4. /\ w = "main" /\ thread[x].data = NULL /\ thread[x].slot = NULL
      /\ thread[x].pc \in StartPcs \cup AbandonPcs /\ thread[x].pc # "bind"
  BY <1>1, <1>3 DEF TaskOK, PcsOf, Who, StartPcs, AbandonPcs, SettlePcs
<1>5. UNCHANGED <<clock, entry, fence, finish, ledger, guard, faults>>
  BY DEF StartEnter
<1>6. CASE entry[r] = NULL
  <2>1. Reply(x, "closed") /\ gate' = gate BY <1>3, <1>6 DEF StartEnter
  <2>2. PICK v \in CallState : /\ thread' = [thread EXCEPT ![Tid(r, w)] = v]
                               /\ Answers(r, w, thread[x], v, "closed", guard[r].phase)
    BY <1>2, <2>1, ReplyEffect DEF Replies
  <2> QED BY <1>1, <1>2, <1>4, <1>5, <2>1, <2>2, StartAnswers DEF Replies
<1>7. CASE entry[r] # NULL
  <2>1. Goto(x, "check") /\ gate[r] = NULL /\ gate' = [gate EXCEPT ![r] = x]
    BY <1>3, <1>7 DEF StartEnter, Acquire
  <2>2. PICK v \in CallState :
           thread' = [thread EXCEPT ![Tid(r, w)] = v] /\ Moves(r, w, thread[x], v, "check")
    BY <1>2, <2>1, GotoEffect DEF Pcs, StartPcs
  <2>3. gate'[r] = x BY <2>1, GateUpdate, Zenon
  <2>4. TaskOK(w, r, c, v, entry[r], ledger[r], finish[r], gate'[r])
    BY <1>3, <1>4, <1>7, <2>2, <2>3, Zenon
    DEF Moves, TaskOK, PcsOf, GatePcs, SettlePcs, QuotePcs, StartPcs, AbandonPcs
  <2> QED BY <1>2, <1>4, <1>5, <2>1, <2>2, <2>4, StartMoves DEF StartPcs
<1> QED BY <1>6, <1>7

LEMMA StartOpened ==
    ASSUME Inv, NEW x \in Threads, thread[x].pc \in StartPcs
    PROVE  \E r \in Requests, c \in Decision :
               /\ Opens(x, r, "main", c) /\ r = thread[x].request /\ x = Tid(r, "main")
               /\ TaskOK("main", r, c, thread[x], entry[r], ledger[r], finish[r], gate[r])
               /\ thread[x].data = NULL
<1>1. thread[x].pc # "idle" BY DEF StartPcs
<1>2. PICK r \in Requests, w \in Who, c \in Decision : Opens(x, r, w, c) BY <1>1, Opened
<1>3. /\ r = thread[x].request /\ x = Tid(r, w)
      /\ TaskOK(w, r, c, thread[x], entry[r], ledger[r], finish[r], gate[r])
  BY <1>2, Zenon DEF Opens
<1>4. w = "main"
  BY <1>3, Zenon DEF TaskOK, PcsOf, Who, StartPcs, AbandonPcs, SettlePcs
<1> QED BY <1>2, <1>3, <1>4, Zenon DEF TaskOK

LEMMA StartCheckStep ==
    ASSUME Inv, NEW x \in Threads, StartCheck(x)
    PROVE  Inv'
<1>1. thread[x].pc = "check" BY DEF StartCheck, At
<1>2. PICK r \in Requests, c \in Decision :
         /\ Opens(x, r, "main", c) /\ r = thread[x].request /\ x = Tid(r, "main")
         /\ TaskOK("main", r, c, thread[x], entry[r], ledger[r], finish[r], gate[r])
         /\ thread[x].data = NULL
  BY <1>1, StartOpened DEF StartPcs
<1>3. UNCHANGED <<clock, entry, fence, finish, ledger, guard, faults>> BY DEF StartCheck
<1>4. thread[x].slot = NULL /\ gate[r] = x /\ entry[r] # NULL
  BY <1>1, <1>2 DEF TaskOK, AbandonPcs, GatePcs
<1>5. \/ Goto(x, "after") /\ gate' = [gate EXCEPT ![r] = NULL]
      \/ Goto(x, "reserve") /\ gate' = gate /\ entry[r].total < MaxAttempts
      \/ Goto(x, "close") /\ gate' = gate
  BY <1>2 DEF StartCheck, Release
<1>6. PICK pc \in {"after", "reserve", "close"} :
         /\ Goto(x, pc)
         /\ \/ pc = "after" /\ gate' = [gate EXCEPT ![r] = NULL]
            \/ pc # "after" /\ gate' = gate
         /\ pc = "reserve" => entry[r].total < MaxAttempts
  BY <1>5
<1>7. PICK v \in CallState :
         thread' = [thread EXCEPT ![Tid(r, "main")] = v] /\ Moves(r, "main", thread[x], v, pc)
  BY <1>2, <1>6, GotoEffect, WhoFacts DEF Pcs, StartPcs
<1>8a. pc # "after" => gate'[r] = x BY <1>4, <1>6
<1>8. TaskOK("main", r, c, v, entry[r], ledger[r], finish[r], gate'[r])
  BY <1>2, <1>4, <1>6, <1>7, <1>8a, Zenon
  DEF Moves, TaskOK, PcsOf, GatePcs, SettlePcs, QuotePcs, StartPcs, AbandonPcs
<1>9. pc \in StartPcs \cup AbandonPcs /\ thread[x].pc \in StartPcs \cup AbandonPcs
      /\ thread[x].pc # "bind" /\ thread[x].pc \in GatePcs
  BY <1>1 DEF StartPcs, GatePcs
<1> QED BY <1>2, <1>3, <1>6, <1>7, <1>8, <1>9, StartMoves, Zenon

LEMMA StartAfterStep ==
    ASSUME Inv, NEW x \in Threads, StartAfter(x)
    PROVE  Inv'
<1>1. thread[x].pc = "after" BY DEF StartAfter, At
<1>2. PICK r \in Requests, c \in Decision :
         /\ Opens(x, r, "main", c) /\ r = thread[x].request /\ x = Tid(r, "main")
         /\ TaskOK("main", r, c, thread[x], entry[r], ledger[r], finish[r], gate[r])
         /\ thread[x].data = NULL
  BY <1>1, StartOpened DEF StartPcs
<1>3. UNCHANGED <<clock, entry, fence, finish, ledger, guard, faults>> /\ gate' = gate
  BY DEF StartAfter
<1>4. /\ thread[x].pc \in StartPcs \cup AbandonPcs /\ thread[x].pc # "bind"
  BY <1>1 DEF StartPcs
<1>5. CASE Goto(x, "abandon")
  <2>1. PICK v \in CallState :
           thread' = [thread EXCEPT ![Tid(r, "main")] = v] /\ Moves(r, "main", thread[x], v, "abandon")
    BY <1>2, <1>5, GotoEffect, WhoFacts DEF Pcs, AbandonPcs
  <2>2. TaskOK("main", r, c, v, entry[r], ledger[r], finish[r], gate'[r])
    BY <1>2, <2>1, Zenon
    DEF Moves, TaskOK, PcsOf, GatePcs, SettlePcs, QuotePcs, StartPcs, AbandonPcs
  <2> QED BY <1>2, <1>3, <1>4, <2>1, <2>2, StartMoves, Zenon DEF AbandonPcs
<1>6. CASE \E res \in Replies : Reply(x, res) /\ (res = "started" => thread[x].slot # NULL)
  <2>1. PICK res \in Replies : Reply(x, res) /\ (res = "started" => thread[x].slot # NULL)
    BY <1>6
  <2>2. PICK v \in CallState : /\ thread' = [thread EXCEPT ![Tid(r, "main")] = v]
                               /\ Answers(r, "main", thread[x], v, res, guard[r].phase)
    BY <1>2, <2>1, ReplyEffect, WhoFacts
  <2> QED BY <1>2, <1>3, <1>4, <2>1, <2>2, StartAnswers, Zenon
<1> QED BY <1>2, <1>5, <1>6 DEF StartAfter, Replies

LEMMA OrdinalFacts == \A n \in Ordinals : n # NULL /\ n \in Int /\ 0 <= n /\ n < MaxAttempts
BY AccountingAssumption DEF Ordinals

LEMMA StartGuard ==
    ASSUME NEW r, NEW c, NEW t, NEW e, NEW g, NEW l, NEW f,
           Typed(r, c, t, e, g, l, f), GuardOK(c, t, e, g, l),
           t["main"].pc \in StartPcs \cup AbandonPcs,
           NEW v, v.pc \in StartPcs \cup AbandonPcs, v.data = NULL,
           NEW t2, t2 = [t EXCEPT !["main"] = v], NEW e2, NEW l2,
           e2 # NULL => e2.pending = NULL,
           v.slot = NULL => (e2 # NULL => e2.active = NULL),
           v.slot # NULL => Fresh(v.slot, t2, e2, l2)
    PROVE  GuardOK(c, t2, e2, g, l2)
<1>1. t2["main"] = v /\ t2["back"] = t["back"] /\ t2["sweep"] = t["sweep"]
  BY WhoFacts DEF Typed
<1>2. /\ t["main"].pc \notin {"idle", "replied"} /\ t["main"].pc \notin SettlePcs
      /\ t["main"].pc \notin QuotePcs
      /\ v.pc \notin {"idle", "replied"} /\ v.pc \notin SettlePcs /\ v.pc \notin QuotePcs
  BY DEF StartPcs, AbandonPcs, SettlePcs, QuotePcs
<1>3. g.phase \in {"starting", "done"}
  BY <1>2 DEF GuardOK, Served, Typed, GuardState, Phases, Decided
<1>4. Quiet(t2, e2)
  <2>1. Quiet(t, e) BY DEF GuardOK, Served, Starting
  <2>2. \A u \in Who : t2[u] = t[u] \/ t2[u].data = NULL BY <1>1 DEF Who
  <2> QED BY <2>1, <2>2 DEF Quiet
<1>5. g.decided = NULL /\ (g.attempt # NULL => g.phase \in {"serving"} \cup Decided)
  BY <1>3 DEF GuardOK, Served, Decided
<1> QED BY <1>1, <1>2, <1>3, <1>4, <1>5 DEF GuardOK, Served, Decided

(* The other calls while start_attempt holds the gate: they carry nothing. *)
LEMMA StartQuiet ==
    ASSUME NEW r, NEW c, NEW t, NEW e, NEW g, NEW l, NEW f, NEW h,
           Typed(r, c, t, e, g, l, f), Cell(r, c, t, e, g, l, f, h),
           t["main"].pc \in StartPcs, t["main"].pc \in GatePcs
    PROVE  /\ e # NULL /\ e.pending = NULL /\ h = Tid(r, "main")
           /\ \A u \in Who \ {"main"} :
                  /\ TaskOK(u, r, c, t[u], e, l, f, h) /\ t[u].pc \notin GatePcs
                  /\ t[u].pc \notin SettlePcs /\ t[u].pc \notin QuotePcs
                  /\ t[u].pc = "clear" \/ t[u].data = NULL
           /\ t["main"].pc \in {"check", "reserve", "bind", "close", "leave"}
           /\ t["main"].slot = NULL /\ e.active = NULL
           /\ t["main"].data = NULL /\ t["main"].request = t["main"].request
           /\ EntryOK(c, t, e, l, f) /\ GuardOK(c, t, e, g, l)
           /\ TaskOK("main", r, c, t["main"], e, l, f, h)
<1>1. EntryOK(c, t, e, l, f) /\ GuardOK(c, t, e, g, l)
      /\ \A u \in Who : TaskOK(u, r, c, t[u], e, l, f, h)
  BY DEF Cell
<1>2. TaskOK("main", r, c, t["main"], e, l, f, h) BY <1>1, WhoFacts
<1>3. e # NULL /\ h = Tid(r, "main") BY <1>2 DEF TaskOK
<1>4. Quiet(t, e) /\ (t["main"].slot = NULL => (e # NULL => e.active = NULL))
  BY <1>1 DEF GuardOK, Served, Starting
<1>5. t["main"].pc \in {"check", "reserve", "bind", "close", "leave"}
  BY DEF StartPcs, GatePcs
<1>6. t["main"].slot = NULL /\ t["main"].data = NULL BY <1>2, <1>5 DEF TaskOK, AbandonPcs, StartPcs
<1>7. \A u \in Who \ {"main"} : t[u].pc \notin GatePcs
  BY <1>3, WhoFacts, OneHolder DEF Typed
<1>8. ASSUME NEW u \in Who \ {"main"}
      PROVE  /\ t[u].pc = "clear" \/ t[u].data = NULL
             /\ t[u].pc \notin SettlePcs /\ t[u].pc \notin QuotePcs
  <2>1. t[u].pc = "clear" \/ t[u].data = NULL BY <1>4 DEF Quiet
  <2>2. TaskOK(u, r, c, t[u], e, l, f, h) BY <1>1
  <2> QED BY <2>1, <2>2 DEF TaskOK, SettlePcs, QuotePcs
<1> QED BY <1>1, <1>2, <1>3, <1>4, <1>5, <1>6, <1>7, <1>8 DEF Quiet

LEMMA ReserveCell ==
    ASSUME NEW r, NEW c, NEW t, NEW e, NEW g, NEW l, NEW f, NEW h,
           Typed(r, c, t, e, g, l, f), Cell(r, c, t, e, g, l, f, h),
           t["main"].pc = "reserve", NEW v \in CallState,
           Moves(r, "main", t["main"], v, "bind"),
           NEW l2 \in LedgerState, l2.request = l.request,
           l2.attempt = [l.attempt EXCEPT ![e.total] = "dispatched"]
    PROVE  Cell(r, c, [t EXCEPT !["main"] = v], e, g, l2, f, h)
<1>1. t["main"].pc \in StartPcs /\ t["main"].pc \in GatePcs BY DEF StartPcs, GatePcs
<1>2. /\ e # NULL /\ e.pending = NULL /\ h = Tid(r, "main")
      /\ \A u \in Who \ {"main"} :
             /\ TaskOK(u, r, c, t[u], e, l, f, h) /\ t[u].pc \notin GatePcs
             /\ t[u].pc \notin SettlePcs /\ t[u].pc \notin QuotePcs
             /\ t[u].pc = "clear" \/ t[u].data = NULL
      /\ t["main"].slot = NULL /\ e.active = NULL /\ t["main"].data = NULL
      /\ EntryOK(c, t, e, l, f) /\ GuardOK(c, t, e, g, l)
      /\ TaskOK("main", r, c, t["main"], e, l, f, h)
  BY <1>1, StartQuiet
<1>3. PICK t2 \in [Who -> CallState] : t2 = [t EXCEPT !["main"] = v] BY WhoFacts DEF Typed
<1>4. t2["main"] = v /\ \A u \in Who \ {"main"} : t2[u] = t[u]
  BY <1>3, WhoFacts DEF Typed
<1>5. PICK n \in Ordinals : n = e.total
  <2>1. e.total < MaxAttempts /\ e.total \in 0..MaxAttempts
    BY <1>2 DEF TaskOK, Typed, InflightRequest
  <2> QED BY <2>1, AccountingAssumption DEF Ordinals
<1>6. l2.attempt[n] = "dispatched" /\ \A k \in Ordinals \ {n} : l2.attempt[k] = l.attempt[k]
  BY <1>5 DEF Typed, LedgerState
<1>7. TaskOK("main", r, c, v, e, l2, f, h)
  BY <1>2, <1>5, <1>6
  DEF Moves, TaskOK, PcsOf, GatePcs, SettlePcs, QuotePcs, StartPcs, AbandonPcs
<1>8. ASSUME NEW u \in Who \ {"main"} PROVE TaskOK(u, r, c, t[u], e, l2, f, h)
  <2>1. TaskOK(u, r, c, t[u], e, l, f, h) /\ t[u].pc \notin GatePcs
        /\ (t[u].pc = "clear" \/ t[u].data = NULL) /\ t[u].pc \notin SettlePcs
    BY <1>2
  <2>2. t[u].pc = "clear" => /\ t[u].data \in Settlement /\ t[u].data.attempt \in Ordinals
                             /\ t[u].data.attempt < n
    BY <1>2, <1>5, <2>1 DEF TaskOK, Typed, CallState, Settlement
  <2>3. t[u].pc = "clear" => l2.attempt[t[u].data.attempt] = l.attempt[t[u].data.attempt]
    BY <1>6, <2>2 DEF Ordinals
  <2> QED BY <2>1, <2>3 DEF TaskOK, GatePcs, SettlePcs
<1>9. EntryOK(c, t2, e, l2, f)
  <2>0. c.attempt \in Ordinals BY DEF Typed, Decision
  <2>1. l2.attempt[c.attempt] = l.attempt[c.attempt] \/ l2.attempt[c.attempt] = "dispatched"
    BY <1>6, <2>0
  <2>2. \A k \in Ordinals : l.attempt[k] # "dispatched" BY <1>2, OrdinalFacts DEF EntryOK
  <2>3. t2["sweep"].pc \notin {"swrite", "sdone"} BY <1>2, <1>4, WhoFacts DEF GatePcs
  <2> QED BY <1>2, <1>4, <1>5, <1>6, <2>1, <2>2, <2>3 DEF EntryOK, Moves
<1>10. GuardOK(c, t2, e, g, l2)
  <2>1. v.slot = NULL /\ v.data = NULL /\ v.pc \in StartPcs \cup AbandonPcs
    BY <1>2 DEF Moves, StartPcs
  <2> QED BY <1>1, <1>2, <1>3, <2>1, StartGuard
<1> QED BY <1>3, <1>4, <1>7, <1>8, <1>9, <1>10 DEF Cell

LEMMA BindCell ==
    ASSUME NEW r, NEW c, NEW t, NEW e, NEW g, NEW l, NEW f, NEW h,
           Typed(r, c, t, e, g, l, f), Cell(r, c, t, e, g, l, f, h),
           t["main"].pc = "bind", NEW v \in CallState,
           v.pc = "after", v.data = t["main"].data, v.slot = e.total,
           NEW e2 \in InflightRequest, e2.total = e.total + 1, e2.active = e.total,
           e2.pending = e.pending
    PROVE  Cell(r, c, [t EXCEPT !["main"] = v], e2, g, l, f, NULL)
<1>1. t["main"].pc \in StartPcs /\ t["main"].pc \in GatePcs BY DEF StartPcs, GatePcs
<1>2. /\ e # NULL /\ e.pending = NULL /\ h = Tid(r, "main")
      /\ \A u \in Who \ {"main"} :
             /\ TaskOK(u, r, c, t[u], e, l, f, h) /\ t[u].pc \notin GatePcs
             /\ t[u].pc \notin SettlePcs /\ t[u].pc \notin QuotePcs
             /\ t[u].pc = "clear" \/ t[u].data = NULL
      /\ t["main"].slot = NULL /\ e.active = NULL /\ t["main"].data = NULL
      /\ EntryOK(c, t, e, l, f) /\ GuardOK(c, t, e, g, l)
      /\ TaskOK("main", r, c, t["main"], e, l, f, h)
  BY <1>1, StartQuiet
<1>3. PICK t2 \in [Who -> CallState] : t2 = [t EXCEPT !["main"] = v] BY WhoFacts DEF Typed
<1>4. t2["main"] = v /\ \A u \in Who \ {"main"} : t2[u] = t[u]
  BY <1>3, WhoFacts DEF Typed
<1>5. PICK n \in Ordinals : n = e.total
  <2>1. e.total < MaxAttempts /\ e.total \in 0..MaxAttempts
    BY <1>2 DEF TaskOK, Typed, InflightRequest
  <2> QED BY <2>1, AccountingAssumption DEF Ordinals
<1>6. l.attempt[n] = "dispatched" /\ e2 # NULL /\ e2.total = n + 1 /\ n = e2.total - 1
      /\ e2.active = n /\ n # NULL
  BY <1>2, <1>5, OrdinalFacts, AccountingAssumption DEF TaskOK
<1>7. TaskOK("main", r, c, v, e2, l, f, NULL)
  BY <1>2, <1>5, <1>6
  DEF TaskOK, PcsOf, GatePcs, SettlePcs, QuotePcs, StartPcs, AbandonPcs
<1>8. ASSUME NEW u \in Who \ {"main"}
      PROVE  /\ TaskOK(u, r, c, t[u], e2, l, f, NULL)
             /\ t[u].pc = "clear" => t[u].data.attempt # n
  <2>1. TaskOK(u, r, c, t[u], e, l, f, h) /\ t[u].pc \notin GatePcs
        /\ (t[u].pc = "clear" \/ t[u].data = NULL) /\ t[u].pc \notin SettlePcs
    BY <1>2
  <2>2. t[u].pc = "clear" => /\ t[u].data.attempt \in Ordinals /\ t[u].data.attempt < n
                             /\ ~t[u].data.finalize
    BY <1>2, <1>5, <2>1 DEF TaskOK, Typed, CallState, Settlement
  <2>3. t[u].pc = "clear" => t[u].data.attempt < e2.total /\ e2.active # t[u].data.attempt
    BY <1>6, <2>2, OrdinalFacts
  <2> QED BY <1>6, <2>1, <2>2, <2>3 DEF TaskOK, GatePcs, SettlePcs
<1>9. EntryOK(c, t2, e2, l, f)
  <2>1. \A k \in Ordinals : l.attempt[k] = "dispatched" => k = n
    BY <1>2, <1>5, OrdinalFacts DEF EntryOK
  <2>2. t2["sweep"].pc \notin {"swrite", "sdone"} BY <1>2, <1>4, WhoFacts DEF GatePcs
  <2> QED BY <1>2, <1>4, <1>6, <2>1, <2>2 DEF EntryOK
<1>10. GuardOK(c, t2, e2, g, l)
  <2>1. v.slot = n /\ v.data = NULL /\ v.pc \in StartPcs \cup AbandonPcs
    BY <1>2, <1>5 DEF StartPcs
  <2>2. Fresh(n, t2, e2, l)
    BY <1>4, <1>6, <1>8, WhoFacts DEF Fresh
  <2> QED BY <1>1, <1>2, <1>3, <1>6, <2>1, <2>2, StartGuard
<1> QED BY <1>3, <1>4, <1>7, <1>8, <1>9, <1>10 DEF Cell

LEMMA LeaveCell ==
    ASSUME NEW r, NEW c, NEW t, NEW e, NEW g, NEW l, NEW f, NEW h,
           Typed(r, c, t, e, g, l, f), Cell(r, c, t, e, g, l, f, h),
           t["main"].pc = "leave", NEW v \in CallState,
           Moves(r, "main", t["main"], v, "after")
    PROVE  Cell(r, c, [t EXCEPT !["main"] = v], NULL, g, l, f, NULL)
<1>1. t["main"].pc \in StartPcs /\ t["main"].pc \in GatePcs BY DEF StartPcs, GatePcs
<1>2. /\ e # NULL /\ e.pending = NULL /\ h = Tid(r, "main")
      /\ \A u \in Who \ {"main"} :
             /\ TaskOK(u, r, c, t[u], e, l, f, h) /\ t[u].pc \notin GatePcs
             /\ t[u].pc \notin SettlePcs /\ t[u].pc \notin QuotePcs
             /\ t[u].pc = "clear" \/ t[u].data = NULL
      /\ t["main"].slot = NULL /\ e.active = NULL /\ t["main"].data = NULL
      /\ EntryOK(c, t, e, l, f) /\ GuardOK(c, t, e, g, l)
      /\ TaskOK("main", r, c, t["main"], e, l, f, h)
  BY <1>1, StartQuiet
<1>3. PICK t2 \in [Who -> CallState] : t2 = [t EXCEPT !["main"] = v] BY WhoFacts DEF Typed
<1>4. t2["main"] = v /\ \A u \in Who \ {"main"} : t2[u] = t[u]
  BY <1>3, WhoFacts DEF Typed
<1>5. v.pc = "after" /\ v.data = NULL /\ v.slot = NULL BY <1>2 DEF Moves
<1>6. TaskOK("main", r, c, v, NULL, l, f, NULL)
  BY <1>5
  DEF TaskOK, PcsOf, GatePcs, SettlePcs, QuotePcs, StartPcs, AbandonPcs
<1>7. ASSUME NEW u \in Who \ {"main"} PROVE TaskOK(u, r, c, t[u], NULL, l, f, NULL)
  <2>1. TaskOK(u, r, c, t[u], e, l, f, h) /\ t[u].pc \notin GatePcs
        /\ (t[u].pc = "clear" \/ t[u].data = NULL) /\ t[u].pc \notin SettlePcs
    BY <1>2
  <2> QED BY <2>1 DEF TaskOK, GatePcs, SettlePcs
<1>8. EntryOK(c, t2, NULL, l, f)
  <2>1. \A k \in Ordinals : l.attempt[k] # "dispatched" BY <1>2, OrdinalFacts DEF EntryOK
  <2>2. l.request = "closed" \/ f # NULL BY <1>2 DEF TaskOK
  <2> QED BY <1>2, <2>1, <2>2 DEF EntryOK
<1>9. GuardOK(c, t2, NULL, g, l)
  <2>1. v.pc \in StartPcs \cup AbandonPcs BY <1>5 DEF StartPcs
  <2> QED BY <1>1, <1>2, <1>3, <1>5, <2>1, StartGuard
<1> QED BY <1>3, <1>4, <1>6, <1>7, <1>8, <1>9 DEF Cell

(* finish_request closes the request, or is retained. *)
Finishes(l, f, l2, f2) ==
    \/ f2 = NULL /\ l2 = [l EXCEPT !.request = "closed"]
    \/ f2 # NULL /\ l2 = l

LEMMA FinishCell ==
    ASSUME NEW r, NEW c, NEW t, NEW e, NEW g, NEW l, NEW f, NEW h,
           Typed(r, c, t, e, g, l, f), Cell(r, c, t, e, g, l, f, h),
           e # NULL \/ f # NULL, NEW l2, NEW f2, Finishes(l, f, l2, f2)
    PROVE  Cell(r, c, t, e, g, l2, f2, h)
<1>1. EntryOK(c, t, e, l, f) /\ GuardOK(c, t, e, g, l) BY DEF Cell
<1>2. l.request # "none" BY <1>1 DEF EntryOK
<1>3. /\ l2.attempt = l.attempt /\ l2.request \in {l.request, "closed"}
      /\ l2.request = "closed" \/ f2 # NULL
  BY DEF Finishes, Typed, LedgerState
<1>4. \A w \in Who : TaskOK(w, r, c, t[w], e, l2, f2, h)
  BY <1>3 DEF Cell, TaskOK, InPlay
<1>5. EntryOK(c, t, e, l2, f2) BY <1>1, <1>2, <1>3 DEF EntryOK, InPlay
<1>6. GuardOK(c, t, e, g, l2) BY <1>1, <1>2, <1>3 DEF GuardOK, Served, InPlay, Fresh
<1> QED BY <1>4, <1>5, <1>6 DEF Cell

LEMMA FinishEffect ==
    ASSUME Inv, NEW r \in Requests, NEW fault \in Outcomes, FinishRequest(r, fault)
    PROVE  /\ ledger' \in [Requests -> LedgerState] /\ finish' \in [Requests -> AllFaults \cup {NULL}]
           /\ faults' \in Nat
           /\ Finishes(ledger[r], finish[r], ledger'[r], finish'[r])
           /\ finish'[r] = fault
           /\ \A q \in Requests \ {r} : ledger'[q] = ledger[q] /\ finish'[q] = finish[q]
<1>1. fault \in AllFaults \cup {NULL} BY AccountingAssumption DEF Outcomes
<1>2. /\ ledger \in [Requests -> LedgerState] /\ ledger[r] \in LedgerState
      /\ finish \in [Requests -> AllFaults \cup {NULL}]
      /\ faults \in Nat
  BY DEF Inv, TypeOK
<1>3. faults' \in Nat BY <1>2 DEF FinishRequest, MayFail
<1>4. /\ finish' \in [Requests -> AllFaults \cup {NULL}] /\ finish'[r] = fault
      /\ \A q \in Requests \ {r} : finish'[q] = finish[q]
  BY <1>1, <1>2 DEF FinishRequest
<1>5. CASE fault = NULL
  <2>1. ledger' = [ledger EXCEPT ![r].request = "closed"] BY <1>5 DEF FinishRequest
  <2>2. PICK l \in LedgerState : l = [ledger[r] EXCEPT !.request = "closed"]
    <3>1. [ledger[r] EXCEPT !.request = "closed"] \in LedgerState BY <1>2 DEF LedgerState
    <3> QED BY <3>1
  <2>3. ledger' = [ledger EXCEPT ![r] = l] BY <2>1, <2>2
  <2>4. /\ ledger' \in [Requests -> LedgerState] /\ ledger'[r] = l
        /\ \A q \in Requests \ {r} : ledger'[q] = ledger[q]
    BY <1>2, <2>2, <2>3
  <2> QED BY <1>3, <1>4, <1>5, <2>2, <2>4 DEF Finishes
<1>6. CASE fault # NULL
  <2>1. ledger' = ledger BY <1>6 DEF FinishRequest
  <2> QED BY <1>2, <1>3, <1>4, <1>6, <2>1 DEF Finishes
<1> QED BY <1>5, <1>6

LEMMA StartCloseStep ==
    ASSUME Inv, NEW x \in Threads, NEW fault \in Outcomes, StartClose(x, fault)
    PROVE  Inv'
<1>1. thread[x].pc = "close" BY DEF StartClose, At
<1>2. PICK r \in Requests, c \in Decision :
         /\ Opens(x, r, "main", c) /\ r = thread[x].request /\ x = Tid(r, "main")
         /\ TaskOK("main", r, c, thread[x], entry[r], ledger[r], finish[r], gate[r])
         /\ thread[x].data = NULL
  BY <1>1, StartOpened DEF StartPcs
<1>3. /\ UNCHANGED <<clock, entry, fence, gate, guard>> /\ FinishRequest(r, fault)
      /\ Goto(x, "leave")
  BY <1>2 DEF StartClose
<1>4. /\ ledger' \in [Requests -> LedgerState] /\ finish' \in [Requests -> AllFaults \cup {NULL}]
      /\ faults' \in Nat /\ Finishes(ledger[r], finish[r], ledger'[r], finish'[r])
      /\ \A q \in Requests \ {r} : ledger'[q] = ledger[q] /\ finish'[q] = finish[q]
  BY <1>3, FinishEffect
<1>5. Rest' /\ Elsewhere(r) /\ FenceExact'
  BY <1>3, <1>4, RestNow DEF Rest, Elsewhere, Inv, FenceExact, Live
<1>6. PICK v \in CallState :
         thread' = [thread EXCEPT ![Tid(r, "main")] = v] /\ Moves(r, "main", thread[x], v, "leave")
  BY <1>2, <1>3, GotoEffect, WhoFacts DEF Pcs, StartPcs
<1>7. PICK t, e, g, l, f, h, l2, f2 :
         /\ t = Tasks(r) /\ e = entry[r] /\ g = guard[r] /\ l = ledger[r] /\ f = finish[r]
         /\ h = gate[r] /\ l2 = ledger'[r] /\ f2 = finish'[r]
  OBVIOUS
<1>8. /\ Typed(r, c, t, e, g, l, f) /\ Cell(r, c, t, e, g, l, f, h) /\ t["main"] = thread[x]
      /\ e # NULL /\ h = Tid(r, "main") /\ Finishes(l, f, l2, f2) /\ thread[x].slot = NULL
  BY <1>1, <1>2, <1>4, <1>7, Zenon DEF Opens, TaskOK, GatePcs, AbandonPcs
<1>9. Cell(r, c, t, e, g, l2, f2, h) /\ Typed(r, c, t, e, g, l2, f2)
  BY <1>4, <1>7, <1>8, FinishCell DEF Typed
<1>10. TaskOK("main", r, c, v, e, l2, f2, h)
  BY <1>2, <1>6, <1>8, Zenon
  DEF Finishes, Typed, LedgerState, Moves, TaskOK, PcsOf, GatePcs, SettlePcs, QuotePcs, StartPcs, AbandonPcs
<1>11. /\ t["main"].pc \in StartPcs \cup AbandonPcs /\ t["main"].pc # "bind"
       /\ v.pc \in StartPcs \cup AbandonPcs /\ v.data = NULL /\ v.slot = t["main"].slot
       /\ v.pc # "idle" /\ v.request = r
  BY <1>1, <1>2, <1>6, <1>8 DEF Moves, StartPcs
<1>12. Cell(r, c, [t EXCEPT !["main"] = v], e, g, l2, f2, h)
  BY <1>9, <1>10, <1>11, StartTask
<1>13. Cell(r, c, [Tasks(r) EXCEPT !["main"] = v], entry'[r], guard'[r], ledger'[r], finish'[r], gate'[r])
  BY <1>3, <1>7, <1>12
<1> QED BY <1>5, <1>6, <1>11, <1>13, CellStep, WhoFacts

LEMMA LedgerUpdate ==
    ASSUME Inv, NEW r \in Requests, NEW l \in LedgerState, ledger' = [ledger EXCEPT ![r] = l]
    PROVE  /\ ledger' \in [Requests -> LedgerState] /\ ledger'[r] = l
           /\ \A q \in Requests \ {r} : ledger'[q] = ledger[q]
BY DEF Inv, TypeOK

LEMMA EntryUpdate ==
    ASSUME Inv, NEW r \in Requests, NEW e \in InflightRequest \cup {NULL},
           entry' = [entry EXCEPT ![r] = e]
    PROVE  /\ entry' \in [Requests -> InflightRequest \cup {NULL}] /\ entry'[r] = e
           /\ \A q \in Requests \ {r} : entry'[q] = entry[q]
BY DEF Inv, TypeOK

(* The flags of an entry and the fence change together. *)
LEMMA SyncFence ==
    ASSUME Inv, NEW r \in Requests, NEW e \in InflightRequest, Sync(r, e)
    PROVE  fence' \subseteq Requests /\ FenceExact'
<1>1. entry' = [entry EXCEPT ![r] = e] BY DEF Sync
<1>2. entry'[r] = e /\ \A q \in Requests \ {r} : entry'[q] = entry[q]
  BY <1>1, EntryUpdate
<1>3. e # NULL BY AccountingAssumption
<1>4. fence = {q \in Live : EntryFences(entry[q])} BY DEF Inv, FenceExact
<1>5. \A q \in Requests \ {r} : q \in fence' <=> q \in fence BY DEF Sync
<1>6. r \in fence' <=> EntryFences(e) BY DEF Sync
<1>7. fence' \subseteq Requests BY DEF Sync, Inv, TypeOK
<1>8. \A q \in Requests : q \in fence' <=> entry'[q] # NULL /\ EntryFences(entry'[q])
  BY <1>2, <1>3, <1>4, <1>5, <1>6 DEF Live
<1> QED BY <1>7, <1>8 DEF FenceExact, Live

LEMMA DropFence ==
    ASSUME Inv, NEW r \in Requests, Drop(r)
    PROVE  fence' \subseteq Requests /\ FenceExact'
<1>1. entry'[r] = NULL /\ \A q \in Requests \ {r} : entry'[q] = entry[q]
  BY EntryUpdate, Zenon DEF Drop
<1>2. fence = {q \in Live : EntryFences(entry[q])} BY DEF Inv, FenceExact
<1>3. fence' = fence \ {r} BY DEF Drop
<1> QED BY <1>1, <1>2, <1>3 DEF FenceExact, Live, Inv, TypeOK

LEMMA SameFence ==
    ASSUME Inv, NEW r \in Requests, fence' = fence,
           \A q \in Requests \ {r} : entry'[q] = entry[q],
           entry[r] = NULL <=> entry'[r] = NULL,
           entry[r] # NULL => EntryFences(entry'[r]) = EntryFences(entry[r])
    PROVE  FenceExact'
BY DEF Inv, FenceExact, Live

LEMMA StartReserveStep ==
    ASSUME Inv, NEW x \in Threads, StartReserve(x)
    PROVE  Inv'
<1>1. thread[x].pc = "reserve" BY DEF StartReserve, At
<1>2. PICK r \in Requests, c \in Decision :
         /\ Opens(x, r, "main", c) /\ r = thread[x].request /\ x = Tid(r, "main")
         /\ TaskOK("main", r, c, thread[x], entry[r], ledger[r], finish[r], gate[r])
         /\ thread[x].data = NULL
  BY <1>1, StartOpened DEF StartPcs
<1>3. UNCHANGED <<clock, entry, fence, finish, gate, guard, faults>> BY DEF StartReserve
<1>4. thread[x].slot = NULL /\ gate[r] = x /\ entry[r] # NULL
  BY <1>1, <1>2 DEF TaskOK, AbandonPcs, GatePcs
<1>5. CASE \E pc \in {"close", "check"} : Goto(x, pc) /\ ledger' = ledger
  <2>1. PICK pc \in {"close", "check"} : Goto(x, pc) /\ ledger' = ledger BY <1>5
  <2>2. PICK v \in CallState :
           thread' = [thread EXCEPT ![Tid(r, "main")] = v] /\ Moves(r, "main", thread[x], v, pc)
    BY <1>2, <2>1, GotoEffect, WhoFacts DEF Pcs, StartPcs
  <2>3. TaskOK("main", r, c, v, entry[r], ledger[r], finish[r], gate'[r])
    BY <1>2, <1>3, <1>4, <2>1, <2>2, Zenon
    DEF Moves, TaskOK, PcsOf, GatePcs, SettlePcs, QuotePcs, StartPcs, AbandonPcs
  <2>4. pc \in StartPcs \cup AbandonPcs /\ thread[x].pc \in StartPcs \cup AbandonPcs
        /\ thread[x].pc # "bind"
    BY <1>1 DEF StartPcs
  <2> QED BY <1>2, <1>3, <2>1, <2>2, <2>3, <2>4, StartMoves, Zenon
<1>6. CASE /\ ledger' = [ledger EXCEPT ![r].attempt[entry[r].total] = "dispatched"]
           /\ Goto(x, "bind")
  <2>1. PICK v \in CallState :
           thread' = [thread EXCEPT ![Tid(r, "main")] = v] /\ Moves(r, "main", thread[x], v, "bind")
    BY <1>2, <1>6, GotoEffect, WhoFacts, Zenon DEF Pcs, StartPcs
  <2>2. PICK t, e, g, l, f, h :
           /\ t = Tasks(r) /\ e = entry[r] /\ g = guard[r] /\ l = ledger[r] /\ f = finish[r]
           /\ h = gate[r]
    OBVIOUS
  <2>3. /\ Typed(r, c, t, e, g, l, f) /\ Cell(r, c, t, e, g, l, f, h) /\ t["main"] = thread[x]
    BY <1>2, <2>2, Zenon DEF Opens
  <2>4. e.total \in Ordinals
    <3>1. e.total < MaxAttempts /\ e.total \in 0..MaxAttempts
      BY <1>1, <1>2, <1>4, <2>2, <2>3 DEF TaskOK, Typed, InflightRequest
    <3> QED BY <3>1, AccountingAssumption DEF Ordinals
  <2>5. PICK l2 \in LedgerState : l2 = [l EXCEPT !.attempt[e.total] = "dispatched"]
    <3>1. [l EXCEPT !.attempt[e.total] = "dispatched"] \in LedgerState
      BY <2>3, <2>4 DEF Typed, LedgerState, Rows
    <3> QED BY <3>1
  <2>6. l2.request = l.request /\ l2.attempt = [l.attempt EXCEPT ![e.total] = "dispatched"]
    BY <2>3, <2>5 DEF Typed, LedgerState
  <2>7. /\ ledger' \in [Requests -> LedgerState] /\ ledger'[r] = l2
        /\ \A q \in Requests \ {r} : ledger'[q] = ledger[q]
    BY <1>6, <2>2, <2>5, LedgerUpdate
  <2>8. Rest' /\ Elsewhere(r) /\ FenceExact'
    BY <1>3, <2>7, RestNow DEF Rest, Elsewhere, Inv, FenceExact, Live
  <2>9. Cell(r, c, [t EXCEPT !["main"] = v], e, g, l2, f, h)
    BY <1>1, <2>1, <2>3, <2>6, ReserveCell
  <2>10. Cell(r, c, [Tasks(r) EXCEPT !["main"] = v], entry'[r], guard'[r], ledger'[r], finish'[r], gate'[r])
    BY <1>3, <2>2, <2>7, <2>9
  <2>11. v.pc # "idle" /\ v.request = r BY <2>1 DEF Moves
  <2> QED BY <2>1, <2>8, <2>10, <2>11, CellStep, WhoFacts, Zenon
<1> QED BY <1>2, <1>5, <1>6, Zenon DEF StartReserve

LEMMA StartBindStep ==
    ASSUME Inv, NEW x \in Threads, StartBind(x)
    PROVE  Inv'
<1>1. thread[x].pc = "bind" BY DEF StartBind, At
<1>2. PICK r \in Requests, c \in Decision :
         /\ Opens(x, r, "main", c) /\ r = thread[x].request /\ x = Tid(r, "main")
         /\ TaskOK("main", r, c, thread[x], entry[r], ledger[r], finish[r], gate[r])
         /\ thread[x].data = NULL
  BY <1>1, StartOpened DEF StartPcs
<1>3. UNCHANGED <<clock, fence, finish, ledger, guard, faults>> /\ gate' = [gate EXCEPT ![r] = NULL]
  BY <1>2, Zenon DEF StartBind, Release
<1>4. PICK t, e, g, l, f, h :
         /\ t = Tasks(r) /\ e = entry[r] /\ g = guard[r] /\ l = ledger[r] /\ f = finish[r]
         /\ h = gate[r]
  OBVIOUS
<1>5. /\ Typed(r, c, t, e, g, l, f) /\ Cell(r, c, t, e, g, l, f, h) /\ t["main"] = thread[x]
      /\ e # NULL
  BY <1>1, <1>2, <1>4, Zenon DEF Opens, TaskOK, GatePcs
<1>6. e \in InflightRequest /\ e.total \in Ordinals /\ e.total + 1 \in 0..MaxAttempts
  <2>1. e.total < MaxAttempts /\ e \in InflightRequest
    BY <1>1, <1>2, <1>4, <1>5 DEF TaskOK, Typed
  <2>2. e.total \in 0..MaxAttempts BY <2>1 DEF InflightRequest
  <2> QED BY <2>1, <2>2, AccountingAssumption DEF Ordinals
<1>7. PICK e2 \in InflightRequest : e2 = [e EXCEPT !.active = e.total, !.total = e.total + 1]
  <2>1. [e EXCEPT !.active = e.total, !.total = e.total + 1] \in InflightRequest
    BY <1>6 DEF InflightRequest
  <2> QED BY <2>1
<1>8. /\ e2.total = e.total + 1 /\ e2.active = e.total /\ e2.pending = e.pending
      /\ EntryFences(e2) = EntryFences(e) /\ e2 # NULL
  BY <1>6, <1>7, AccountingAssumption, Zenon DEF InflightRequest, EntryFences
<1>9. entry' = [entry EXCEPT ![r] = e2]
  BY <1>2, <1>4, <1>7, Zenon DEF StartBind
<1>10. /\ entry' \in [Requests -> InflightRequest \cup {NULL}] /\ entry'[r] = e2
       /\ \A q \in Requests \ {r} : entry'[q] = entry[q]
  BY <1>9, EntryUpdate
<1>11. /\ gate' \in [Requests -> Threads \cup {NULL}] /\ gate'[r] = NULL
       /\ \A q \in Requests \ {r} : gate'[q] = gate[q]
  BY <1>3, GateUpdate
<1>12. Rest' /\ Elsewhere(r)
  BY <1>3, <1>10, <1>11, RestNow DEF Rest, Elsewhere
<1>13. FenceExact' BY <1>3, <1>4, <1>5, <1>8, <1>10, SameFence
<1>14. PICK v \in CallState : /\ v = [thread[x] EXCEPT !.pc = "after", !.slot = e.total]
                              /\ v.pc = "after" /\ v.data = thread[x].data /\ v.slot = e.total
                              /\ v.request = r
  <2>1. thread[x] \in CallState BY DEF Inv, TypeOK
  <2>2. PICK v : v = [thread[x] EXCEPT !.pc = "after", !.slot = e.total] OBVIOUS
  <2>3. /\ v \in CallState /\ v.pc = "after" /\ v.data = thread[x].data /\ v.slot = e.total
        /\ v.request = r
    BY <1>2, <1>6, <2>1, <2>2, Zenon DEF CallState, Pcs, StartPcs
  <2> QED BY <2>2, <2>3
<1>15. thread' = [thread EXCEPT ![Tid(r, "main")] = v]
  BY <1>2, <1>4, <1>14, Zenon DEF StartBind
<1>16. Cell(r, c, [t EXCEPT !["main"] = v], e2, g, l, f, NULL)
  BY <1>1, <1>5, <1>8, <1>14, BindCell
<1>17. Cell(r, c, [Tasks(r) EXCEPT !["main"] = v], entry'[r], guard'[r], ledger'[r], finish'[r], gate'[r])
  BY <1>3, <1>4, <1>10, <1>11, <1>16
<1> QED BY <1>12, <1>13, <1>14, <1>15, <1>17, CellStep, WhoFacts, Zenon

LEMMA StartLeaveStep ==
    ASSUME Inv, NEW x \in Threads, StartLeave(x)
    PROVE  Inv'
<1>1. thread[x].pc = "leave" BY DEF StartLeave, At
<1>2. PICK r \in Requests, c \in Decision :
         /\ Opens(x, r, "main", c) /\ r = thread[x].request /\ x = Tid(r, "main")
         /\ TaskOK("main", r, c, thread[x], entry[r], ledger[r], finish[r], gate[r])
         /\ thread[x].data = NULL
  BY <1>1, StartOpened DEF StartPcs
<1>3. /\ UNCHANGED <<clock, finish, ledger, guard, faults>> /\ gate' = [gate EXCEPT ![r] = NULL]
      /\ Drop(r) /\ Goto(x, "after")
  BY <1>2 DEF StartLeave, Release
<1>4. PICK t, e, g, l, f, h :
         /\ t = Tasks(r) /\ e = entry[r] /\ g = guard[r] /\ l = ledger[r] /\ f = finish[r]
         /\ h = gate[r]
  OBVIOUS
<1>5. /\ Typed(r, c, t, e, g, l, f) /\ Cell(r, c, t, e, g, l, f, h) /\ t["main"] = thread[x]
  BY <1>2, <1>4, Zenon DEF Opens
<1>6. /\ entry' \in [Requests -> InflightRequest \cup {NULL}] /\ entry'[r] = NULL
      /\ \A q \in Requests \ {r} : entry'[q] = entry[q]
  BY <1>3, EntryUpdate DEF Drop
<1>7. /\ gate' \in [Requests -> Threads \cup {NULL}] /\ gate'[r] = NULL
      /\ \A q \in Requests \ {r} : gate'[q] = gate[q]
  BY <1>3, GateUpdate
<1>8. fence' \subseteq Requests /\ FenceExact' BY <1>3, DropFence
<1>9. Rest' /\ Elsewhere(r)
  BY <1>3, <1>6, <1>7, <1>8, RestNow DEF Rest, Elsewhere
<1>10. PICK v \in CallState :
         thread' = [thread EXCEPT ![Tid(r, "main")] = v] /\ Moves(r, "main", thread[x], v, "after")
  BY <1>2, <1>3, GotoEffect, WhoFacts DEF Pcs, StartPcs
<1>11. Cell(r, c, [t EXCEPT !["main"] = v], NULL, g, l, f, NULL)
  BY <1>1, <1>5, <1>10, LeaveCell
<1>12. Cell(r, c, [Tasks(r) EXCEPT !["main"] = v], entry'[r], guard'[r], ledger'[r], finish'[r], gate'[r])
  BY <1>3, <1>4, <1>6, <1>7, <1>11
<1>13. v.pc # "idle" /\ v.request = r BY <1>10 DEF Moves
<1> QED BY <1>8, <1>9, <1>10, <1>12, <1>13, CellStep, WhoFacts

-----------------------------------------------------------------------------
(* Evidence in play. *)
LEMMA SameAgree ==
    ASSUME NEW p \in Settlement, NEW d \in Settlement
    PROVE  SameSettlement(p, d) <=> Agree(p, d)
<1>1. p # NULL BY AccountingAssumption
<1>2. PICK s : s = [p EXCEPT !.copy = d.copy] OBVIOUS
<1>3. /\ s.attempt = p.attempt /\ s.kind = p.kind /\ s.finalize = p.finalize /\ s.copy = d.copy
      /\ s \in Settlement
  BY <1>2 DEF Settlement
<1>4. s = d <=> Agree(p, d) BY <1>3 DEF Settlement, Agree
<1> QED BY <1>1, <1>2, <1>4 DEF SameSettlement

(* A call of the handler goes on as the phase of its guard expects. *)
Follows(w, v, phase) ==
    w = "main" =>
        /\ v.pc \notin StartPcs /\ v.pc \notin AbandonPcs
        /\ phase = "delivering" => v.pc \in {"replied"} \cup SettlePcs
        /\ phase = "quoting" => v.pc \in {"replied"} \cup QuotePcs
        /\ phase = "done" => v.pc # "replied"
StaysInPlay(c, e, l, e2, l2) == \A d : InPlay(d, c, e, l) => InPlay(d, c, e2, l2)

(* The guard while evidence is in play: it is not before a decision. *)
LEMMA BusyGuard ==
    ASSUME NEW r, NEW c, NEW t, NEW e, NEW g, NEW l, NEW f,
           Typed(r, c, t, e, g, l, f), GuardOK(c, t, e, g, l), ~Quiet(t, e),
           NEW w \in Who, t[w].pc # "idle", NEW v \in CallState, NEW t2, t2 = [t EXCEPT ![w] = v],
           NEW e2, NEW l2,
           Follows(w, v, g.phase), StaysInPlay(c, e, l, e2, l2),
           Served(t2, e2, g)
    PROVE  GuardOK(c, t2, e2, g, l2)
<1>1. t2[w] = v /\ \A u \in Who \ {w} : t2[u] = t[u] BY DEF Typed
<1>2. g.phase \notin {"absent", "ready", "serving", "starting"}
  <2>1. g.phase # "absent" BY DEF GuardOK, Served
  <2>2. g.phase # "starting"
    <3>1. g.phase = "starting" => t["main"].pc \in {"replied"} \cup StartPcs \cup AbandonPcs
      BY DEF GuardOK, Served
    <3> QED BY <3>1 DEF GuardOK, Served, Starting
  <2> QED BY <2>1, <2>2 DEF GuardOK, Served
<1>3. ~Starting(t, g) BY DEF GuardOK, Served
<1>4. ~Starting(t2, g)
  <2>1. CASE w = "main" BY <1>1, <1>2, <2>1 DEF Starting, Follows
  <2>2. CASE w # "main" BY <1>1, <1>3, <2>2, WhoFacts DEF Starting
  <2> QED BY <2>1, <2>2
<1>5. w = "main" => g.phase \in {"quoting", "delivering", "done"}
  BY <1>2 DEF GuardOK, Served, Typed, GuardState, Phases, Decided
<1>6. w = "back" => g.phase = "done" BY DEF GuardOK, Served
<1>7. /\ w # "main" => t2["main"] = t["main"]
      /\ w # "back" => t2["back"] = t["back"]
  BY <1>1, WhoFacts
<1>8. /\ g.phase \in {"flushed", "fatal"} => t2["main"].pc = "idle"
      /\ g.phase = "quoting" => t2["main"].pc \in {"replied"} \cup QuotePcs
      /\ g.phase = "delivering" => t2["main"].pc \in {"replied"} \cup SettlePcs
      /\ g.phase = "done" => t2["main"].pc # "replied"
      /\ t2["back"].pc # "idle" => g.phase = "done"
  BY <1>1, <1>5, <1>6, <1>7 DEF GuardOK, Served, Follows
<1>9. /\ g.decided # NULL <=> g.phase \in Decided
      /\ g.decided # NULL => InPlay(g.decided, c, e2, l2)
      /\ g.attempt # NULL => g.phase \in {"serving"} \cup Decided
      /\ g.phase \in {"quoting", "flushed"} => g.decided.finalize
  BY DEF GuardOK, Served, StaysInPlay
<1> QED BY <1>2, <1>4, <1>8, <1>9 DEF GuardOK, Served

(* The flags of an entry are no concern of the other parts of its cell. *)
LEMMA EntrySame ==
    ASSUME NEW r, NEW c, NEW t, NEW e, NEW g, NEW l, NEW f, NEW h,
           Cell(r, c, t, e, g, l, f, h), e # NULL, NEW e2, e2 # NULL,
           e2.total = e.total, e2.active = e.active, e2.pending = e.pending
    PROVE  Cell(r, c, t, e2, g, l, f, h)
<1>1. \A w \in Who : TaskOK(w, r, c, t[w], e2, l, f, h) BY DEF Cell, TaskOK, InPlay
<1>2. EntryOK(c, t, e2, l, f) BY DEF Cell, EntryOK, InPlay
<1>3. GuardOK(c, t, e2, g, l)
  <2>1. GuardOK(c, t, e, g, l) BY DEF Cell
  <2>2. Quiet(t, e) => Quiet(t, e2) BY DEF Quiet
  <2>3. \A n : Fresh(n, t, e, l) => Fresh(n, t, e2, l) BY DEF Fresh
  <2>4. \A d : InPlay(d, c, e, l) => InPlay(d, c, e2, l) BY DEF InPlay
  <2> QED BY <2>1, <2>2, <2>3, <2>4 DEF GuardOK, Served
<1> QED BY <1>1, <1>2, <1>3 DEF Cell

LEMMA Busy ==
    ASSUME NEW t, NEW e, NEW w \in Who, t[w].pc # "clear", t[w].data # NULL
    PROVE  ~Quiet(t, e)
BY DEF Quiet

(* A settlement or a quote leaves its evidence on an entry without any. *)
LEMMA RetainCell ==
    ASSUME NEW r, NEW c, NEW t, NEW e, NEW g, NEW l, NEW f, NEW h,
           Typed(r, c, t, e, g, l, f), Cell(r, c, t, e, g, l, f, h),
           NEW w \in Who, t[w].pc \in {"settle", "priced"},
           e # NULL, e.pending = NULL, NEW e2 \in InflightRequest,
           e2.total = e.total, e2.active = e.active, e2.pending = t[w].data,
           NEW v \in CallState, TaskOK(w, r, c, v, e2, l, f, h), v.pc \in {"sgate", "replied", "idle"},
           v.pc = "sgate" => v.data = t[w].data /\ t[w].pc = "settle",
           v.pc = "replied" => g.phase # "done" /\ t[w].pc = "priced",
           v.pc = "idle" => g.phase = "done" /\ t[w].pc = "priced"
    PROVE  Cell(r, c, [t EXCEPT ![w] = v], e2, g, l, f, h)
<1>1. PICK t2 \in [Who -> CallState] : t2 = [t EXCEPT ![w] = v] BY DEF Typed
<1>2. t2[w] = v /\ \A u \in Who \ {w} : t2[u] = t[u] BY <1>1 DEF Typed
<1>3. /\ EntryOK(c, t, e, l, f) /\ GuardOK(c, t, e, g, l)
      /\ TaskOK(w, r, c, t[w], e, l, f, h)
  BY DEF Cell
<1>4. /\ t[w].data # NULL /\ InPlay(t[w].data, c, e, l) /\ e2 # NULL
      /\ w # "sweep" /\ (t[w].pc = "priced" => w = "main")
  BY <1>3, AccountingAssumption DEF TaskOK, SettlePcs, QuotePcs, PcsOf, AbandonPcs
<1>5. StaysInPlay(c, e, l, e2, l) BY <1>4 DEF InPlay, StaysInPlay
<1>6. ASSUME NEW u \in Who \ {w} PROVE TaskOK(u, r, c, t[u], e2, l, f, h)
  <2>1. TaskOK(u, r, c, t[u], e, l, f, h) BY DEF Cell
  <2> QED BY <1>4, <1>5, <2>1 DEF TaskOK, StaysInPlay
<1>7. t2["sweep"] = t["sweep"] /\ t["sweep"].pc \notin {"swrite", "sdone"}
  <2>1. TaskOK("sweep", r, c, t["sweep"], e, l, f, h) BY WhoFacts DEF Cell
  <2>2. t["sweep"].pc \in {"swrite", "sdone"} => t["sweep"].data # NULL
    BY <2>1 DEF TaskOK, SettlePcs
  <2> QED BY <1>2, <1>3, <1>4, <2>2, WhoFacts DEF EntryOK
<1>8. EntryOK(c, t2, e2, l, f)
  <2>1. \A u \in Who : t[u].pc = "sdone" => t2[u].pc = "sdone" BY <1>2
  <2>2. t["main"].pc = "bind" => t2["main"].pc = "bind" BY <1>2, WhoFacts
  <2>3. e2.pending # NULL => InPlay(e2.pending, c, e2, l) BY <1>4, <1>5 DEF StaysInPlay
  <2>4. e2.active # NULL =>
            /\ e2.active = e2.total - 1 /\ l.attempt[e2.active] # "none"
            /\ \/ l.attempt[e2.active] = "dispatched" \/ l.request = "closed"
               \/ \E u \in Who : t2[u].pc = "sdone"
    BY <1>3, <2>1 DEF EntryOK
  <2>5. \A n \in Ordinals :
        /\ l.attempt[n] = "recovered" => l.request = "closed"
        /\ l.attempt[n] = "dispatched" =>
               e2 # NULL /\ (e2.active = n \/ (t2["main"].pc = "bind" /\ e2.total = n))
    BY <1>3, <1>4, <2>2 DEF EntryOK
  <2> QED BY <1>3, <1>4, <1>7, <2>3, <2>4, <2>5 DEF EntryOK
<1>9. GuardOK(c, t2, e2, g, l)
  <2>1. ~Quiet(t, e) BY <1>4, Busy
  <2>2. t[w].pc # "idle" OBVIOUS
  <2>3. Follows(w, v, g.phase)
    BY <1>3 DEF GuardOK, Served, StartPcs, AbandonPcs, SettlePcs, QuotePcs, Follows
  <2>4. g.phase = "delivering" /\ t2["main"].pc = "replied" /\ t2["main"].reply = "ok" => FALSE
    <3>1. CASE w = "main" BY <1>2, <1>3, <3>1, WhoFacts DEF GuardOK, Served, SettlePcs
    <3>2. CASE w # "main"
      <4>1. w = "back" BY <1>4, <3>2 DEF Who
      <4> QED BY <1>3, <4>1 DEF GuardOK, Served
    <3> QED BY <3>1, <3>2
  <2>5. g.phase = "delivering" /\ t2["main"].pc = "sgate" => e2.pending = t2["main"].data
    <3>1. CASE w = "main" BY <1>2, <3>1, WhoFacts
    <3>2. CASE w # "main"
      <4>1. w = "back" BY <1>4, <3>2 DEF Who
      <4> QED BY <1>3, <4>1 DEF GuardOK, Served
    <3> QED BY <3>1, <3>2
  <2>6. Served(t2, e2, g) BY <1>4, <2>4, <2>5 DEF Served
  <2> QED BY <1>1, <1>3, <1>5, <2>1, <2>2, <2>3, <2>6, BusyGuard
<1> QED BY <1>1, <1>2, <1>6, <1>8, <1>9 DEF Cell

(* The calls besides the one that writes: none holds the gate. *)
LEMMA WriterFacts ==
    ASSUME NEW r, NEW c, NEW t, NEW e, NEW g, NEW l, NEW f, NEW h,
           Typed(r, c, t, e, g, l, f), Cell(r, c, t, e, g, l, f, h),
           NEW w \in Who, t[w].pc \in {"swrite", "sdone"}
    PROVE  /\ EntryOK(c, t, e, l, f) /\ GuardOK(c, t, e, g, l)
           /\ TaskOK(w, r, c, t[w], e, l, f, h)
           /\ e \in InflightRequest /\ e # NULL /\ h = Tid(r, w)
           /\ t[w].data \in Settlement /\ t[w].data # NULL /\ InPlay(t[w].data, c, e, l)
           /\ ~Quiet(t, e) /\ t[w].slot = NULL
           /\ \A u \in Who \ {w} : TaskOK(u, r, c, t[u], e, l, f, h) /\ t[u].pc \notin GatePcs
           /\ w # "main" => t["main"].pc # "bind"
           /\ w = "sweep" => e.pending = t[w].data
           /\ w = "back" => g.phase = "done"
<1>1. EntryOK(c, t, e, l, f) /\ GuardOK(c, t, e, g, l) /\ TaskOK(w, r, c, t[w], e, l, f, h)
  BY DEF Cell
<1>2. e # NULL /\ h = Tid(r, w) /\ t[w].data # NULL /\ InPlay(t[w].data, c, e, l) /\ t[w].slot = NULL
  BY <1>1 DEF TaskOK, GatePcs, SettlePcs, AbandonPcs
<1>3. e \in InflightRequest /\ t[w].data \in Settlement BY <1>2 DEF Typed, CallState
<1>4. \A u \in Who \ {w} : TaskOK(u, r, c, t[u], e, l, f, h) /\ t[u].pc \notin GatePcs
  <2>1. r \in Requests BY DEF Typed
  <2> QED BY <1>2, <2>1, OneHolder DEF Cell
<1>5. w # "main" => t["main"].pc # "bind" BY <1>4, WhoFacts DEF GatePcs
<1>6. w = "sweep" => e.pending = t[w].data BY <1>1, <1>2 DEF EntryOK
<1>7. w = "back" => g.phase = "done" BY <1>1 DEF GuardOK, Served
<1> QED BY <1>1, <1>2, <1>3, <1>4, <1>5, <1>6, <1>7, Busy

(* A settlement write that raises keeps its evidence pending. *)
LEMMA FailCell ==
    ASSUME NEW r, NEW c, NEW t, NEW e, NEW g, NEW l, NEW f, NEW h,
           Typed(r, c, t, e, g, l, f), Cell(r, c, t, e, g, l, f, h),
           NEW w \in Who, t[w].pc = "swrite", NEW e2 \in InflightRequest,
           e2.total = e.total, e2.active = e.active, e2.pending = t[w].data,
           NEW v \in CallState, Answers(r, w, t[w], v, "error", g.phase)
    PROVE  Cell(r, c, [t EXCEPT ![w] = v], e2, g, l, f, NULL)
<1>0. /\ EntryOK(c, t, e, l, f) /\ GuardOK(c, t, e, g, l)
      /\ TaskOK(w, r, c, t[w], e, l, f, h) /\ e # NULL
      /\ t[w].data # NULL /\ InPlay(t[w].data, c, e, l) /\ ~Quiet(t, e) /\ t[w].slot = NULL
      /\ \A u \in Who \ {w} : TaskOK(u, r, c, t[u], e, l, f, h) /\ t[u].pc \notin GatePcs
      /\ (w # "main" => t["main"].pc # "bind") /\ (w = "sweep" => e.pending = t[w].data)
      /\ (w = "back" => g.phase = "done")
  BY WriterFacts
<1>1. PICK t2 \in [Who -> CallState] : t2 = [t EXCEPT ![w] = v] BY DEF Typed
<1>2. t2[w] = v /\ \A u \in Who \ {w} : t2[u] = t[u] BY <1>1 DEF Typed
<1>3. e2 # NULL /\ StaysInPlay(c, e, l, e2, l)
  BY <1>0, AccountingAssumption DEF InPlay, StaysInPlay
<1>4. v.pc \in {"idle", "replied"} /\ (v.pc = "replied" => v.reply = "error" /\ (w = "main" => g.phase # "done"))
      /\ (w = "main" /\ v.pc = "idle" => g.phase = "done")
  BY IdleFacts DEF Answers
<1>5. TaskOK(w, r, c, v, e2, l, f, NULL)
  <2>1. CASE v = Idle BY <2>1, IdleOK
  <2>2. CASE v # Idle
    <3>1. w \in {"main", "back"} /\ v.pc = "replied" /\ v.data = t[w].data /\ v.slot = t[w].slot
      BY <2>2 DEF Answers
    <3> QED BY <1>0, <1>3, <3>1, RepliedOK DEF StaysInPlay
  <2> QED BY <2>1, <2>2
<1>6. ASSUME NEW u \in Who \ {w} PROVE TaskOK(u, r, c, t[u], e2, l, f, NULL)
  <2>1. TaskOK(u, r, c, t[u], e, l, f, h) /\ t[u].pc \notin GatePcs BY <1>0
  <2>2. t[u].pc \notin {"reserve", "bind", "adone"} BY <2>1 DEF GatePcs
  <2> QED BY <1>0, <1>3, <2>1, <2>2 DEF TaskOK, StaysInPlay
<1>7. \A u \in Who : t2[u].pc \notin {"swrite", "sdone", "bind"} /\ (u # w => t[u].pc \notin {"sdone", "bind"})
  BY <1>0, <1>2, <1>4 DEF GatePcs
<1>8. EntryOK(c, t2, e2, l, f)
  <2>1. t2["sweep"].pc \notin {"swrite", "sdone"} BY <1>7, WhoFacts
  <2>2. e.active # NULL =>
            /\ e.active = e.total - 1 /\ l.attempt[e.active] # "none"
            /\ l.attempt[e.active] = "dispatched" \/ l.request = "closed"
    <3>1. \A u \in Who : t[u].pc # "sdone" BY <1>7
    <3> QED BY <1>0, <3>1 DEF EntryOK
  <2>3. \A n \in Ordinals : l.attempt[n] = "dispatched" => e2.active = n
    <3>1. t["main"].pc # "bind" BY <1>0
    <3> QED BY <1>0, <3>1 DEF EntryOK
  <2> QED BY <1>0, <1>3, <2>1, <2>2, <2>3 DEF EntryOK, StaysInPlay
<1>9. GuardOK(c, t2, e2, g, l)
  <2>1. Follows(w, v, g.phase)
    BY <1>4 DEF StartPcs, AbandonPcs, Follows
  <2>2. g.phase = "delivering" => ~(t2["main"].pc = "replied" /\ t2["main"].reply = "ok")
    <3>1. CASE w = "main" BY <1>2, <1>4, <3>1
    <3>2. CASE w = "back" BY <1>0, <3>2
    <3>3. CASE w = "sweep"
      <4>1. t2["main"] = t["main"] BY <1>2, <3>3, WhoFacts
      <4> QED BY <1>0, <3>3, <4>1 DEF GuardOK, Served
    <3> QED BY <3>1, <3>2, <3>3 DEF Who
  <2>3. g.phase = "delivering" /\ t2["main"].pc = "sgate" =>
            e2.pending = NULL \/ e2.pending = t2["main"].data
    <3>1. CASE w = "main" BY <1>2, <1>4, <3>1
    <3>2. CASE w = "back" BY <1>0, <3>2
    <3>3. CASE w = "sweep"
      <4>1. t2["main"] = t["main"] BY <1>2, <3>3, WhoFacts
      <4> QED BY <1>0, <3>3, <4>1 DEF GuardOK, Served
    <3> QED BY <3>1, <3>2, <3>3 DEF Who
  <2>4. e2.pending # NULL /\ t[w].pc # "idle" BY <1>0
  <2>5. Served(t2, e2, g)
    BY <2>2, <2>3, <2>4 DEF Served
  <2>6. GuardOK(c, t, e, g, l) /\ ~Quiet(t, e) BY <1>0
  <2> QED BY <1>1, <1>3, <2>1, <2>4, <2>5, <2>6, BusyGuard
<1> QED BY <1>1, <1>2, <1>5, <1>6, <1>8, <1>9 DEF Cell

(* finish_attempt on the rows of a request. *)
Settles(l, n, kind, finalize, l2) ==
    /\ l2.attempt[n] = IF l.attempt[n] = "dispatched" \/ (l.attempt[n] = "recovered" /\ kind = "exact")
                       THEN kind ELSE l.attempt[n]
    /\ \A k \in Ordinals \ {n} : l2.attempt[k] = l.attempt[k]
    /\ l2.request = IF finalize /\ l.attempt[n] = "dispatched" THEN "closed" ELSE l.request

LEMMA WriteCell ==
    ASSUME NEW r, NEW c, NEW t, NEW e, NEW g, NEW l, NEW f, NEW h,
           Typed(r, c, t, e, g, l, f), Cell(r, c, t, e, g, l, f, h),
           NEW w \in Who, t[w].pc = "swrite",
           NEW l2 \in LedgerState,
           Settles(l, t[w].data.attempt, t[w].data.kind, t[w].data.finalize, l2),
           ~Conflicts(l.attempt[t[w].data.attempt], t[w].data.kind),
           NEW v \in CallState, Moves(r, w, t[w], v, "sdone")
    PROVE  Cell(r, c, [t EXCEPT ![w] = v], e, g, l2, f, h)
<1>0. /\ EntryOK(c, t, e, l, f) /\ GuardOK(c, t, e, g, l)
      /\ TaskOK(w, r, c, t[w], e, l, f, h) /\ e # NULL /\ h = Tid(r, w)
      /\ t[w].data # NULL /\ InPlay(t[w].data, c, e, l) /\ ~Quiet(t, e) /\ t[w].slot = NULL
      /\ t[w].data \in Settlement
      /\ \A u \in Who \ {w} : TaskOK(u, r, c, t[u], e, l, f, h) /\ t[u].pc \notin GatePcs
      /\ (w # "main" => t["main"].pc # "bind") /\ (w = "sweep" => e.pending = t[w].data)
      /\ (w = "back" => g.phase = "done")
  BY WriterFacts
<1>1. PICK t2 \in [Who -> CallState] : t2 = [t EXCEPT ![w] = v] BY DEF Typed
<1>2. t2[w] = v /\ \A u \in Who \ {w} : t2[u] = t[u] BY <1>1 DEF Typed
<1>3. PICK n \in Ordinals, kind \in AllKinds, finalize \in BOOLEAN :
         /\ n = t[w].data.attempt /\ kind = t[w].data.kind /\ finalize = t[w].data.finalize
         /\ n = c.attempt /\ kind = c.kind /\ finalize = c.finalize
  BY <1>0 DEF InPlay, Agree, Settlement
<1>4. v.pc = "sdone" /\ v.data = t[w].data /\ v.slot = NULL BY <1>0 DEF Moves
<1>5. /\ l.attempt[n] \in {"dispatched", "recovered", kind}
      /\ finalize /\ l.attempt[n] # "dispatched" => l.request = "closed"
      /\ l.attempt[n] = "recovered" => l.request = "closed"
  BY <1>0, <1>3 DEF EntryOK, InPlay
<1>6. /\ l2.attempt[n] \in {"recovered", kind} /\ (kind = "exact" => l2.attempt[n] = "exact")
      /\ l2.attempt[n] = "recovered" => l.attempt[n] = "recovered"
      /\ l.attempt[n] = "exact" => l2.attempt[n] = "exact"
      /\ \A k \in Ordinals \ {n} : l2.attempt[k] = l.attempt[k]
      /\ l2.request \in {l.request, "closed"}
      /\ finalize => l2.request = "closed"
      /\ l.request = "closed" => l2.request = "closed"
      /\ kind \notin {"none", "dispatched", "recovered"}
  BY <1>3, <1>5 DEF Settles, AllKinds
<1>7. StaysInPlay(c, e, l, e, l2)
  BY <1>3, <1>6 DEF InPlay, StaysInPlay
<1>8. TaskOK(w, r, c, v, e, l2, f, h)
  <2>1. "sdone" \in PcsOf(w) BY DEF PcsOf, SettlePcs
  <2>2. /\ l2.attempt[v.data.attempt] # "dispatched"
        /\ v.data.kind = "exact" => l2.attempt[v.data.attempt] = "exact"
    BY <1>3, <1>4, <1>6
  <2>3. v.data.finalize => l2.request = "closed" BY <1>3, <1>4, <1>6
  <2>4. InPlay(v.data, c, e, l2) /\ v.data # NULL BY <1>0, <1>4, <1>7 DEF StaysInPlay
  <2> QED BY <1>0, <1>4, <2>1, <2>2, <2>3, <2>4
    DEF TaskOK, GatePcs, SettlePcs, QuotePcs, StartPcs, AbandonPcs
<1>9. ASSUME NEW u \in Who \ {w} PROVE TaskOK(u, r, c, t[u], e, l2, f, h)
  <2>1. TaskOK(u, r, c, t[u], e, l, f, h) /\ t[u].pc \notin GatePcs BY <1>0
  <2>2. t[u].pc \notin {"reserve", "bind", "leave", "sdone", "adone"} BY <2>1 DEF GatePcs
  <2>3. t[u].pc = "clear" => t[u].data \in Settlement /\ t[u].data.attempt \in Ordinals
    BY <2>1 DEF TaskOK, Typed, CallState, Settlement
  <2>4. t[u].pc = "clear" /\ t[u].data.kind = "exact" => l2.attempt[t[u].data.attempt] = "exact"
    BY <1>6, <2>1, <2>3 DEF TaskOK
  <2> QED BY <1>7, <2>1, <2>2, <2>4 DEF TaskOK, StaysInPlay
<1>10. EntryOK(c, t2, e, l2, f)
  <2>1. t2["sweep"].pc \in {"swrite", "sdone"} => e.pending = t2["sweep"].data
    <3>1. CASE w = "sweep" BY <1>0, <1>2, <1>4, <3>1
    <3>2. CASE w # "sweep" BY <1>0, <1>2, <3>2, WhoFacts DEF GatePcs
    <3> QED BY <3>1, <3>2
  <2>2. \E u \in Who : t2[u].pc = "sdone" BY <1>2, <1>4
  <2>3. e.active # NULL => e.active = e.total - 1 /\ l2.attempt[e.active] # "none"
    <3>1. e.active # NULL => e.active \in Ordinals /\ l.attempt[e.active] # "none" /\ e.active = e.total - 1
      BY <1>0 DEF EntryOK, Typed, InflightRequest
    <3> QED BY <1>6, <3>1
  <2>4. \A k \in Ordinals : l2.attempt[k] = "dispatched" => e.active = k
    <3>1. t["main"].pc # "bind" BY <1>0
    <3>2. \A k \in Ordinals : l2.attempt[k] = "dispatched" => l.attempt[k] = "dispatched"
      BY <1>6
    <3> QED BY <1>0, <3>1, <3>2 DEF EntryOK
  <2>5. \A k \in Ordinals : l2.attempt[k] = "recovered" => l2.request = "closed"
    BY <1>0, <1>5, <1>6 DEF EntryOK
  <2>6. e.pending # NULL => InPlay(e.pending, c, e, l2) BY <1>0, <1>7 DEF EntryOK, StaysInPlay
  <2>7. /\ l2.attempt[c.attempt] \in {"none", "dispatched", "recovered", c.kind}
        /\ c.finalize /\ l2.attempt[c.attempt] \notin {"none", "dispatched"} => l2.request = "closed"
        /\ l2.request # "none"
    BY <1>0, <1>3, <1>6 DEF EntryOK
  <2> QED BY <1>0, <2>1, <2>2, <2>3, <2>4, <2>5, <2>6, <2>7 DEF EntryOK
<1>11. GuardOK(c, t2, e, g, l2)
  <2>1. Follows(w, v, g.phase)
    BY <1>0, <1>4 DEF StartPcs, AbandonPcs, SettlePcs, QuotePcs, GuardOK, Served, Follows
  <2>2. w = "main" => t2["main"].pc = "sdone" BY <1>2, <1>4
  <2>3. w # "main" => t2["main"] = t["main"] BY <1>2, WhoFacts
  <2>4. g.phase = "delivering" => ~(t2["main"].pc = "replied" /\ t2["main"].reply = "ok")
    <3>1. CASE w = "main" BY <2>2, <3>1
    <3>2. CASE w = "back" BY <1>0, <3>2
    <3>3. CASE w = "sweep" BY <1>0, <2>3, <3>3 DEF GuardOK, Served
    <3> QED BY <3>1, <3>2, <3>3 DEF Who
  <2>5. /\ g.phase = "flushed" => e.pending # NULL
        /\ g.phase = "quoting" /\ t2["main"].pc = "replied" /\ t2["main"].reply = "ok" => e.pending # NULL
        /\ g.phase = "delivering" /\ t2["main"].pc = "sgate" => e.pending = NULL \/ e.pending = t2["main"].data
    BY <1>0, <2>2, <2>3 DEF GuardOK, Served
  <2>6. Served(t2, e, g) BY <2>4, <2>5 DEF Served
  <2> QED BY <1>0, <1>1, <1>7, <2>1, <2>6, BusyGuard
<1> QED BY <1>1, <1>2, <1>8, <1>9, <1>10, <1>11 DEF Cell

(* The decision of a quote or of a flushed terminal finalizes. *)
LEMMA NotPriced ==
    ASSUME NEW c, NEW t, NEW e, NEW g, NEW l, GuardOK(c, t, e, g, l), ~c.finalize
    PROVE  g.phase \notin {"quoting", "flushed"}
BY DEF GuardOK, InPlay, Agree, Decided

(* An entry whose evidence landed and that holds nothing. *)
Landed(e, e2) ==
    /\ e2 \in InflightRequest /\ e2.total = e.total
    /\ e2.pending = NULL /\ e2.active = NULL

LEMMA DoneCell ==
    ASSUME NEW r, NEW c, NEW t, NEW e, NEW g, NEW l, NEW f, NEW h,
           Typed(r, c, t, e, g, l, f), Cell(r, c, t, e, g, l, f, h),
           NEW w \in Who, t[w].pc = "sdone", NEW e2,
           \/ e2 = NULL /\ t[w].data.finalize
           \/ Landed(e, e2) /\ ~t[w].data.finalize,
           NEW v \in CallState,
           \/ w = "sweep" /\ Moves(r, w, t[w], v, "clear")
           \/ w # "sweep" /\ Answers(r, w, t[w], v, "ok", g.phase)
    PROVE  Cell(r, c, [t EXCEPT ![w] = v], e2, g, l, f, NULL)
<1>0. /\ EntryOK(c, t, e, l, f) /\ GuardOK(c, t, e, g, l)
      /\ TaskOK(w, r, c, t[w], e, l, f, h) /\ e # NULL /\ h = Tid(r, w)
      /\ t[w].data # NULL /\ InPlay(t[w].data, c, e, l) /\ ~Quiet(t, e) /\ t[w].slot = NULL
      /\ t[w].data \in Settlement /\ e \in InflightRequest
      /\ \A u \in Who \ {w} : TaskOK(u, r, c, t[u], e, l, f, h) /\ t[u].pc \notin GatePcs
      /\ (w # "main" => t["main"].pc # "bind")
      /\ (w = "back" => g.phase = "done")
  BY WriterFacts
<1>1. PICK t2 \in [Who -> CallState] : t2 = [t EXCEPT ![w] = v] BY DEF Typed
<1>2. t2[w] = v /\ \A u \in Who \ {w} : t2[u] = t[u] BY <1>1 DEF Typed
<1>3. /\ e2 # NULL => /\ e2.total = e.total /\ e2.pending = NULL /\ e2.active = NULL
                      /\ ~c.finalize /\ ~t[w].data.finalize
      /\ e2 = NULL => l.request = "closed"
  <2>1. c.finalize = t[w].data.finalize BY <1>0 DEF InPlay, Agree
  <2>2. t[w].data.finalize => l.request = "closed" BY <1>0 DEF TaskOK
  <2> QED BY <2>1, <2>2, AccountingAssumption DEF Landed
<1>4. StaysInPlay(c, e, l, e2, l) BY <1>0, <1>3 DEF InPlay, StaysInPlay
<1>5. /\ v.pc \in {"idle", "replied", "clear"} /\ (v.pc = "clear" <=> w = "sweep")
      /\ (w = "main" => (v.pc = "idle" <=> g.phase = "done"))
  BY IdleFacts DEF Answers, Moves
<1>6. TaskOK(w, r, c, v, e2, l, f, NULL)
  <2>1. CASE w # "sweep" /\ v = Idle BY <2>1, IdleOK
  <2>2. CASE w # "sweep" /\ v # Idle
    <3>1. w \in {"main", "back"} /\ v.pc = "replied" /\ v.data = t[w].data /\ v.slot = t[w].slot
      BY <2>2 DEF Answers
    <3> QED BY <1>0, <1>4, <3>1, RepliedOK DEF StaysInPlay
  <2>3. CASE w = "sweep"
    <3>1. v.pc = "clear" /\ v.data = t[w].data /\ v.slot = NULL BY <1>0, <2>3 DEF Moves
    <3>2. v.data.kind = "exact" => l.attempt[v.data.attempt] = "exact"
      BY <1>0, <3>1 DEF TaskOK
    <3>3. Agree(v.data, c) BY <1>0, <3>1 DEF InPlay
    <3>4. e2 # NULL => /\ v.data.attempt < e2.total /\ ~v.data.finalize
                       /\ e2.active # v.data.attempt
      <4>1. v.data.attempt \in Ordinals /\ v.data.attempt = e.total - 1 /\ e.total \in Int
        BY <1>0, <3>1 DEF InPlay, Agree, Settlement, InflightRequest
      <4> QED BY <1>3, <3>1, <4>1, OrdinalFacts
    <3>5. "clear" \in PcsOf("sweep") BY DEF PcsOf
    <3> QED BY <1>0, <2>3, <3>1, <3>2, <3>3, <3>4, <3>5
      DEF TaskOK, GatePcs, SettlePcs, QuotePcs, StartPcs, AbandonPcs
  <2> QED BY <2>1, <2>2, <2>3
<1>7. ASSUME NEW u \in Who \ {w} PROVE TaskOK(u, r, c, t[u], e2, l, f, NULL)
  <2>1. TaskOK(u, r, c, t[u], e, l, f, h) /\ t[u].pc \notin GatePcs BY <1>0
  <2>2. t[u].pc \notin {"reserve", "bind", "leave", "sdone", "adone"} BY <2>1 DEF GatePcs
  <2>3. t[u].pc = "clear" => t[u].data.attempt \in Ordinals
    BY <2>1 DEF TaskOK, Typed, CallState, Settlement
  <2>4. t[u].pc = "clear" /\ e2 # NULL => /\ t[u].data.attempt < e2.total /\ ~t[u].data.finalize
                                          /\ e2.active # t[u].data.attempt
    BY <1>0, <1>3, <2>1, <2>3, OrdinalFacts DEF TaskOK
  <2> QED BY <1>3, <1>4, <2>1, <2>2, <2>4 DEF TaskOK, StaysInPlay
<1>8. \A u \in Who : t2[u].pc \notin {"swrite", "sdone", "bind"}
  BY <1>0, <1>2, <1>5 DEF GatePcs
<1>9. EntryOK(c, t2, e2, l, f)
  <2>1. t2["sweep"].pc \notin {"swrite", "sdone"} BY <1>8, WhoFacts
  <2>2. \A n \in Ordinals : l.attempt[n] # "dispatched"
    <3>1. t["main"].pc # "bind" BY <1>0
    <3>2. \A n \in Ordinals : l.attempt[n] = "dispatched" => e.active = n
      BY <1>0, <3>1 DEF EntryOK
    <3>3. e.active # NULL => e.active = e.total - 1 BY <1>0 DEF EntryOK
    <3>4. c.attempt = e.total - 1 /\ c.attempt = t[w].data.attempt BY <1>0 DEF InPlay, Agree
    <3>5. l.attempt[t[w].data.attempt] # "dispatched" BY <1>0 DEF TaskOK
    <3> QED BY <3>2, <3>3, <3>4, <3>5, OrdinalFacts
  <2>3. l.request # "none" BY <1>0 DEF EntryOK
  <2> QED BY <1>0, <1>3, <2>1, <2>2, <2>3 DEF EntryOK
<1>10. GuardOK(c, t2, e2, g, l)
  <2>1. Follows(w, v, g.phase)
    BY <1>5 DEF Follows, StartPcs, AbandonPcs
  <2>2. e2 # NULL => g.phase \notin {"quoting", "flushed"} BY <1>0, <1>3, NotPriced
  <2>3. Served(t2, e2, g) BY <1>3, <1>8, <2>2, WhoFacts DEF Served
  <2> QED BY <1>0, <1>1, <1>4, <2>1, <2>3, BusyGuard
<1> QED BY <1>1, <1>2, <1>6, <1>7, <1>9, <1>10 DEF Cell

(* The sweep clears evidence that it landed and that was retained again. *)
LEMMA ClearCell ==
    ASSUME NEW r, NEW c, NEW t, NEW e, NEW g, NEW l, NEW f, NEW h,
           Typed(r, c, t, e, g, l, f), Cell(r, c, t, e, g, l, f, h),
           t["sweep"].pc = "clear", e # NULL, e.pending # NULL, Agree(e.pending, t["sweep"].data),
           NEW e2 \in InflightRequest, e2.total = e.total, e2.active = e.active,
           e2.pending = NULL
    PROVE  Cell(r, c, [t EXCEPT !["sweep"] = Idle], e2, g, l, f, h)
<1>1. PICK t2 \in [Who -> CallState] : t2 = [t EXCEPT !["sweep"] = Idle]
  BY IdleFacts, WhoFacts DEF Typed
<1>2. t2["sweep"] = Idle /\ t2["main"] = t["main"] /\ \A u \in Who \ {"sweep"} : t2[u] = t[u]
  BY <1>1, WhoFacts DEF Typed
<1>3. EntryOK(c, t, e, l, f) /\ GuardOK(c, t, e, g, l) /\ \A u \in Who : TaskOK(u, r, c, t[u], e, l, f, h)
  BY DEF Cell
<1>4. /\ TaskOK("sweep", r, c, t["sweep"], e, l, f, h) /\ InPlay(e.pending, c, e, l)
      /\ ~Quiet(t, e) /\ e2 # NULL
  BY <1>3, WhoFacts, AccountingAssumption DEF EntryOK, Quiet
<1>5. ~c.finalize /\ e.active = NULL
  <2>1. ~t["sweep"].data.finalize /\ e.active # t["sweep"].data.attempt BY <1>4 DEF TaskOK
  <2>2. c.finalize = t["sweep"].data.finalize /\ t["sweep"].data.attempt = e.total - 1
    BY <1>4 DEF InPlay, Agree
  <2> QED BY <1>3, <2>1, <2>2 DEF EntryOK
<1>6. StaysInPlay(c, e, l, e2, l) BY <1>4 DEF InPlay, StaysInPlay
<1>7. ASSUME NEW u \in Who PROVE TaskOK(u, r, c, t2[u], e2, l, f, h)
  <2>1. CASE u = "sweep" BY <1>2, <2>1, IdleOK, WhoFacts
  <2>2. CASE u # "sweep"
    <3>1. TaskOK(u, r, c, t[u], e, l, f, h) /\ t2[u] = t[u] BY <1>2, <1>3, <2>2
    <3> QED BY <1>4, <1>5, <1>6, <3>1 DEF TaskOK, StaysInPlay
  <2> QED BY <2>1, <2>2
<1>8. EntryOK(c, t2, e2, l, f)
  <2>1. t["main"].pc # "bind"
    BY <1>3, <1>4 DEF GuardOK, Starting, StartPcs
  <2>2. \A n \in Ordinals : l.attempt[n] # "dispatched"
    BY <1>3, <1>5, <2>1, OrdinalFacts DEF EntryOK
  <2> QED BY <1>2, <1>3, <1>4, <1>5, <2>2, IdleFacts DEF EntryOK
<1>9. GuardOK(c, t2, e2, g, l)
  <2>1. g.phase \notin {"quoting", "flushed"} BY <1>3, <1>5, NotPriced
  <2>2. Served(t2, e2, g) BY <1>2, <1>5, <2>1, IdleFacts DEF Served
  <2>3. Follows("sweep", Idle, g.phase) BY DEF Follows
  <2>4. t["sweep"].pc # "idle" OBVIOUS
  <2> QED BY <1>1, <1>3, <1>4, <1>6, <2>2, <2>3, <2>4, BusyGuard, WhoFacts, IdleFacts
<1> QED BY <1>1, <1>7, <1>8, <1>9 DEF Cell

-----------------------------------------------------------------------------
(* Steps of settle and of price. *)
LEMMA BusyTask ==
    ASSUME NEW r, NEW c, NEW t, NEW e, NEW g, NEW l, NEW f, NEW h,
           Typed(r, c, t, e, g, l, f), Cell(r, c, t, e, g, l, f, h),
           NEW w \in Who, t[w].pc \in {"settle", "sgate", "quote", "priced"},
           NEW v \in CallState, NEW h2,
           TaskOK(w, r, c, v, e, l, f, h2), h2 = h \/ h = NULL \/ h = Tid(r, w),
           v.pc \notin {"sdone", "clear"}, Follows(w, v, g.phase),
           w = "main" => Served([t EXCEPT ![w] = v], e, g)
    PROVE  Cell(r, c, [t EXCEPT ![w] = v], e, g, l, f, h2)
<1>1. /\ GuardOK(c, t, e, g, l) /\ TaskOK(w, r, c, t[w], e, l, f, h) BY DEF Cell
<1>2. t[w].data # NULL /\ t[w].pc # "clear" /\ w # "sweep" /\ t[w].pc # "idle"
  BY <1>1 DEF TaskOK, SettlePcs, QuotePcs, PcsOf, AbandonPcs
<1>3. ~Quiet(t, e) BY <1>2, Busy
<1>4. CASE w = "main"
  <2>1. StaysInPlay(c, e, l, e, l) BY DEF StaysInPlay
  <2>2. PICK t2 : t2 = [t EXCEPT !["main"] = v] OBVIOUS
  <2>3. Served(t2, e, g) BY <1>4, <2>2
  <2>4. GuardOK(c, t2, e, g, l) BY <1>1, <1>2, <1>3, <1>4, <2>1, <2>2, <2>3, BusyGuard
  <2> QED BY <1>4, <2>2, <2>4, MainTask
<1>5. CASE w = "back"
  <2>1. g.phase = "done" BY <1>1, <1>2, <1>5 DEF GuardOK
  <2> QED BY <1>3, <1>5, <2>1, OtherTask
<1> QED BY <1>2, <1>4, <1>5 DEF Who

LEMMA GateChange ==
    ASSUME Inv, NEW x \in Threads, NEW r \in Requests, NEW w, NEW c, Opens(x, r, w, c),
           \/ gate' = gate
           \/ gate[r] = NULL /\ gate' = [gate EXCEPT ![r] = x]
           \/ thread[x].pc \in GatePcs /\ gate' = [gate EXCEPT ![r] = NULL]
    PROVE  /\ gate' \in [Requests -> Threads \cup {NULL}]
           /\ \A q \in Requests \ {r} : gate'[q] = gate[q]
           /\ gate'[r] = gate[r] \/ gate[r] = NULL \/ gate[r] = Tid(r, w)
<1>1. x = Tid(r, w) /\ TaskOK(w, r, c, thread[x], entry[r], ledger[r], finish[r], gate[r])
  BY Zenon DEF Opens
<1>2. CASE gate' = gate BY <1>2, RestNow DEF Rest
<1>3. CASE gate[r] = NULL /\ gate' = [gate EXCEPT ![r] = x] BY <1>3, GateUpdate
<1>4. CASE thread[x].pc \in GatePcs /\ gate' = [gate EXCEPT ![r] = NULL]
  BY <1>1, <1>4, GateUpdate DEF TaskOK
<1> QED BY <1>2, <1>3, <1>4

(* A step of a call that changes nothing but the call and the gate. *)
LEMMA CallMoves ==
    ASSUME Inv, NEW x \in Threads, NEW r \in Requests, NEW w \in Who, NEW c \in Decision,
           Opens(x, r, w, c),
           UNCHANGED <<clock, entry, fence, finish, ledger, guard, faults>>,
           \/ gate' = gate
           \/ gate[r] = NULL /\ gate' = [gate EXCEPT ![r] = x]
           \/ thread[x].pc \in GatePcs /\ gate' = [gate EXCEPT ![r] = NULL],
           NEW v \in CallState, thread' = [thread EXCEPT ![Tid(r, w)] = v],
           v = Idle \/ (v.pc # "idle" /\ v.request = r),
           Cell(r, c, [Tasks(r) EXCEPT ![w] = v], entry[r], guard[r], ledger[r], finish[r], gate'[r])
    PROVE  Inv'
<1>1. /\ gate' \in [Requests -> Threads \cup {NULL}]
      /\ \A q \in Requests \ {r} : gate'[q] = gate[q]
  BY GateChange
<1>2. Rest' /\ Elsewhere(r) /\ FenceExact'
  BY <1>1, RestNow DEF Rest, Elsewhere, Inv, FenceExact, Live
<1>3. w = "sweep" => thread[Sweeper].request = r BY Zenon DEF Opens
<1>4. Cell(r, c, [Tasks(r) EXCEPT ![w] = v], entry'[r], guard'[r], ledger'[r], finish'[r], gate'[r])
  OBVIOUS
<1> QED BY <1>2, <1>3, <1>4, CellStep

(* A settlement or a quote goes on or replies and changes nothing else. *)
LEMMA BusyMoves ==
    ASSUME Inv, NEW x \in Threads, NEW r \in Requests, NEW w \in Who, NEW c \in Decision,
           Opens(x, r, w, c), thread[x].pc \in {"settle", "sgate", "quote", "priced"},
           UNCHANGED <<clock, entry, fence, finish, ledger, guard, faults>>,
           \/ gate' = gate
           \/ gate[r] = NULL /\ gate' = [gate EXCEPT ![r] = x],
           NEW v \in CallState, thread' = [thread EXCEPT ![Tid(r, w)] = v],
           v = Idle \/ (v.pc # "idle" /\ v.request = r),
           TaskOK(w, r, c, v, entry[r], ledger[r], finish[r], gate'[r]),
           v.pc \notin {"sdone", "clear"}, Follows(w, v, guard[r].phase),
           w = "main" => Served([Tasks(r) EXCEPT ![w] = v], entry[r], guard[r])
    PROVE  Inv'
<1>1. gate'[r] = gate[r] \/ gate[r] = NULL \/ gate[r] = Tid(r, w) BY GateChange
<1>2. PICK t, e, g, l, f, h, h2 :
         /\ t = Tasks(r) /\ e = entry[r] /\ g = guard[r] /\ l = ledger[r] /\ f = finish[r]
         /\ h = gate[r] /\ h2 = gate'[r]
  OBVIOUS
<1>3. /\ Typed(r, c, t, e, g, l, f) /\ Cell(r, c, t, e, g, l, f, h) /\ t[w] = thread[x]
      /\ TaskOK(w, r, c, v, e, l, f, h2) /\ (h2 = h \/ h = NULL \/ h = Tid(r, w))
      /\ Follows(w, v, g.phase) /\ (w = "main" => Served([t EXCEPT ![w] = v], e, g))
  BY <1>1, <1>2, Zenon DEF Opens
<1>4. Cell(r, c, [t EXCEPT ![w] = v], e, g, l, f, h2) BY <1>3, BusyTask
<1>5. Cell(r, c, [Tasks(r) EXCEPT ![w] = v], entry[r], guard[r], ledger[r], finish[r], gate'[r])
  BY <1>2, <1>4
<1> QED BY <1>5, CallMoves, Zenon

LEMMA AnswerServed ==
    ASSUME NEW r, NEW c, NEW t, NEW e, NEW g, NEW l, NEW f, NEW h,
           Typed(r, c, t, e, g, l, f), Cell(r, c, t, e, g, l, f, h),
           t["main"].pc \in {"settle", "sgate", "quote", "priced"},
           NEW v \in CallState, NEW res, Answers(r, "main", t["main"], v, res, g.phase),
           res = "ok" => e = NULL \/ (t["main"].pc = "sgate" /\ e.pending # t["main"].data)
    PROVE  Served([t EXCEPT !["main"] = v], e, g)
<1>1. PICK t2 : t2 = [t EXCEPT !["main"] = v] OBVIOUS
<1>2. t2["main"] = v /\ t2["sweep"] = t["sweep"] BY <1>1, WhoFacts DEF Typed
<1>3. /\ EntryOK(c, t, e, l, f) /\ GuardOK(c, t, e, g, l) /\ Served(t, e, g)
      /\ TaskOK("main", r, c, t["main"], e, l, f, h)
      /\ TaskOK("sweep", r, c, t["sweep"], e, l, f, h)
  BY WhoFacts DEF Cell, GuardOK
<1>4. v.pc \in {"idle", "replied"} /\ (v.pc = "replied" => v.reply = res)
  BY IdleFacts DEF Answers
<1>5. g.phase # "flushed" /\ (g.phase = "quoting" => t["main"].pc \in {"quote", "priced"})
  BY <1>3 DEF GuardOK, QuotePcs
<1>6. CASE e # NULL
  <2>1. ~(g.phase = "quoting" /\ v.pc = "replied" /\ v.reply = "ok") BY <1>4, <1>5, <1>6
  <2>2. ASSUME g.phase = "delivering", v.pc = "replied", v.reply = "ok"
        PROVE  e.pending = NULL /\ e.active = NULL /\ t["sweep"].pc \notin {"swrite", "sdone"}
    <3>1. t["main"].pc = "sgate" /\ e.pending # t["main"].data BY <1>4, <1>6, <2>2
    <3>2. e.pending = NULL BY <1>3, <1>6, <2>2, <3>1 DEF Served
    <3>3. e.active = NULL BY <1>3, <1>6, <3>1, <3>2 DEF TaskOK
    <3>4. t["sweep"].pc \in {"swrite", "sdone"} => t["sweep"].data # NULL
      BY <1>3 DEF TaskOK, SettlePcs
    <3> QED BY <1>3, <1>6, <3>2, <3>3, <3>4 DEF EntryOK
  <2> QED BY <1>1, <1>2, <1>4, <1>5, <2>1, <2>2 DEF Served
<1> QED BY <1>1, <1>6 DEF Served

LEMMA BusyAnswers ==
    ASSUME Inv, NEW x \in Threads, NEW r \in Requests, NEW w \in Who, NEW c \in Decision,
           Opens(x, r, w, c), thread[x].pc \in {"settle", "sgate", "quote", "priced"},
           UNCHANGED <<clock, entry, fence, finish, ledger, guard, faults>>, gate' = gate,
           NEW res \in Replies, Reply(x, res),
           res = "ok" => entry[r] = NULL \/ (thread[x].pc = "sgate" /\ entry[r].pending # thread[x].data)
    PROVE  Inv'
<1>1. PICK v \in CallState : /\ thread' = [thread EXCEPT ![Tid(r, w)] = v]
                             /\ Answers(r, w, thread[x], v, res, guard[r].phase)
  BY ReplyEffect
<1>2. PICK t, e, g, l, f, h :
         /\ t = Tasks(r) /\ e = entry[r] /\ g = guard[r] /\ l = ledger[r] /\ f = finish[r]
         /\ h = gate[r]
  OBVIOUS
<1>3. /\ Typed(r, c, t, e, g, l, f) /\ Cell(r, c, t, e, g, l, f, h) /\ t[w] = thread[x]
      /\ TaskOK(w, r, c, t[w], e, l, f, h)
  BY <1>2, Zenon DEF Opens
<1>4. TaskOK(w, r, c, v, e, l, f, h) BY <1>1, <1>2, <1>3, AnswerOK
<1>5. Follows(w, v, g.phase) /\ v.pc \notin {"sdone", "clear"} /\ (v = Idle \/ (v.pc # "idle" /\ v.request = r))
  BY <1>1, <1>2, IdleFacts DEF Answers, Follows, StartPcs, AbandonPcs
<1>6. w = "main" => Served([t EXCEPT ![w] = v], e, g)
  BY <1>1, <1>2, <1>3, AnswerServed, Zenon
<1> QED BY <1>1, <1>2, <1>4, <1>5, <1>6, BusyMoves, Zenon

(* A settlement or a quote leaves its evidence on the entry. *)
LEMMA RetainMoves ==
    ASSUME Inv, NEW x \in Threads, NEW r \in Requests, NEW w \in Who, NEW c \in Decision,
           Opens(x, r, w, c), thread[x].pc \in {"settle", "priced"},
           entry[r] # NULL, entry[r].pending = NULL,
           entry' = [entry EXCEPT ![r].pending = thread[x].data],
           UNCHANGED <<clock, fence, finish, gate, ledger, guard, faults>>,
           \/ thread[x].pc = "settle" /\ Goto(x, "sgate")
           \/ thread[x].pc = "priced" /\ Reply(x, "ok")
    PROVE  Inv'
<1>1. PICK t, e, g, l, f, h :
         /\ t = Tasks(r) /\ e = entry[r] /\ g = guard[r] /\ l = ledger[r] /\ f = finish[r]
         /\ h = gate[r]
  OBVIOUS
<1>2. /\ Typed(r, c, t, e, g, l, f) /\ Cell(r, c, t, e, g, l, f, h) /\ t[w] = thread[x]
      /\ TaskOK(w, r, c, t[w], e, l, f, h) /\ e # NULL /\ e.pending = NULL
  BY <1>1, Zenon DEF Opens
<1>3. t[w].data # NULL /\ (t[w].pc = "priced" => w = "main") /\ t[w].slot = NULL /\ w # "sweep"
      /\ InPlay(t[w].data, c, e, l)
  BY <1>2 DEF TaskOK, SettlePcs, QuotePcs, PcsOf, AbandonPcs
<1>4. e \in InflightRequest /\ t[w].data \in Settlement BY <1>2, <1>3 DEF Typed, CallState
<1>5. PICK e2 \in InflightRequest : e2 = [e EXCEPT !.pending = t[w].data]
  <2>1. [e EXCEPT !.pending = t[w].data] \in InflightRequest BY <1>4 DEF InflightRequest
  <2> QED BY <2>1
<1>6. /\ e2.total = e.total /\ e2.active = e.active /\ e2.pending = t[w].data
      /\ EntryFences(e2) = EntryFences(e) /\ e2 # NULL
  BY <1>4, <1>5, AccountingAssumption DEF InflightRequest, EntryFences
<1>7. entry' = [entry EXCEPT ![r] = e2] BY <1>1, <1>2, <1>5
<1>8. /\ entry' \in [Requests -> InflightRequest \cup {NULL}] /\ entry'[r] = e2
      /\ \A q \in Requests \ {r} : entry'[q] = entry[q]
  BY <1>7, EntryUpdate
<1>9. Rest' /\ Elsewhere(r) BY <1>8, RestNow DEF Rest, Elsewhere
<1>10. FenceExact' BY <1>1, <1>2, <1>6, <1>8, SameFence
<1>11. InPlay(t[w].data, c, e2, l) BY <1>3, <1>6, <1>2 DEF InPlay
<1>12. w = "sweep" => thread[Sweeper].request = r BY Zenon DEF Opens
<1>13. CASE t[w].pc = "settle"
  <2>1. Goto(x, "sgate") BY <1>2, <1>13
  <2>2. PICK v \in CallState :
           thread' = [thread EXCEPT ![Tid(r, w)] = v] /\ Moves(r, w, thread[x], v, "sgate")
    BY <2>1, GotoEffect DEF Pcs, SettlePcs
  <2>3. v.pc = "sgate" /\ v.data = t[w].data /\ v.slot = NULL /\ v.request = r
    BY <1>2, <1>3, <2>2 DEF Moves
  <2>4. TaskOK(w, r, c, v, e2, l, f, h)
    <3>1. "sgate" \in PcsOf(w) BY <1>3 DEF PcsOf, SettlePcs, Who
    <3>2. e2.pending # NULL BY <1>3, <1>6
    <3> QED BY <1>3, <1>11, <2>3, <3>1, <3>2
      DEF TaskOK, GatePcs, SettlePcs, QuotePcs, StartPcs, AbandonPcs
  <2>5. Cell(r, c, [t EXCEPT ![w] = v], e2, g, l, f, h)
    BY <1>2, <1>6, <1>13, <2>3, <2>4, RetainCell
  <2>6. Cell(r, c, [Tasks(r) EXCEPT ![w] = v], entry'[r], guard'[r], ledger'[r], finish'[r], gate'[r])
    BY <1>1, <1>8, <2>5
  <2> QED BY <1>9, <1>10, <1>12, <2>2, <2>3, <2>6, CellStep
<1>14. CASE t[w].pc = "priced"
  <2>1. Reply(x, "ok") BY <1>2, <1>14
  <2>2. PICK v \in CallState : /\ thread' = [thread EXCEPT ![Tid(r, w)] = v]
                               /\ Answers(r, w, thread[x], v, "ok", guard[r].phase)
    BY <2>1, ReplyEffect DEF Replies
  <2>3. /\ v = Idle \/ (v.pc = "replied" /\ v.data = t[w].data /\ v.slot = NULL /\ v.request = r)
        /\ w = "main" /\ v.pc \in {"idle", "replied"}
        /\ v.pc = "replied" => g.phase # "done"
        /\ v.pc = "idle" => g.phase = "done"
    BY <1>1, <1>2, <1>3, <1>14, <2>2, IdleFacts DEF Answers
  <2>4. TaskOK(w, r, c, v, e2, l, f, h) BY <1>11, <2>3, IdleOK, RepliedOK
  <2>5. Cell(r, c, [t EXCEPT ![w] = v], e2, g, l, f, h)
    BY <1>2, <1>6, <1>14, <2>3, <2>4, RetainCell
  <2>6. Cell(r, c, [Tasks(r) EXCEPT ![w] = v], entry'[r], guard'[r], ledger'[r], finish'[r], gate'[r])
    BY <1>1, <1>8, <2>5
  <2>7. v = Idle \/ (v.pc # "idle" /\ v.request = r) BY <2>3
  <2> QED BY <1>9, <1>10, <1>12, <2>2, <2>6, <2>7, CellStep
<1> QED BY <1>2, <1>13, <1>14

LEMMA SettleRetainStep ==
    ASSUME Inv, NEW x \in Threads, SettleRetain(x)
    PROVE  Inv'
<1>1. thread[x].pc = "settle" /\ UNCHANGED <<clock, fence, finish, gate, ledger, guard, faults>>
  BY DEF SettleRetain, At
<1>2. PICK r \in Requests, w \in Who, c \in Decision : Opens(x, r, w, c) BY <1>1, Opened
<1>3. PICK t, e, g, l, f, h :
         /\ t = Tasks(r) /\ e = entry[r] /\ g = guard[r] /\ l = ledger[r] /\ f = finish[r]
         /\ h = gate[r]
  OBVIOUS
<1>4. /\ Typed(r, c, t, e, g, l, f) /\ Cell(r, c, t, e, g, l, f, h) /\ t[w] = thread[x]
      /\ r = thread[x].request /\ x = Tid(r, w) /\ TaskOK(w, r, c, t[w], e, l, f, h)
      /\ EntryOK(c, t, e, l, f) /\ GuardOK(c, t, e, g, l)
  BY <1>2, <1>3, Zenon DEF Opens, Cell
<1>5. InPlay(t[w].data, c, e, l) /\ t[w].slot = NULL /\ w # "sweep"
  BY <1>1, <1>4 DEF TaskOK, SettlePcs, AbandonPcs, PcsOf
<1>6. CASE e = NULL
  <2>1. Reply(x, "ok") /\ entry' = entry BY <1>3, <1>4, <1>6, Zenon DEF SettleRetain
  <2> QED BY <1>1, <1>2, <1>3, <1>6, <2>1, BusyAnswers, Zenon DEF Replies
<1>7. CASE e # NULL /\ e.pending = NULL
  <2>1. Goto(x, "sgate") /\ entry' = [entry EXCEPT ![r].pending = thread[x].data]
    BY <1>3, <1>4, <1>7, Zenon DEF SettleRetain
  <2> QED BY <1>1, <1>2, <1>3, <1>7, <2>1, RetainMoves, Zenon
<1>8. CASE e # NULL /\ e.pending # NULL
  <2>1. InPlay(e.pending, c, e, l) BY <1>4, <1>8 DEF EntryOK
  <2>2. e.pending.attempt = t[w].data.attempt BY <1>5, <2>1 DEF InPlay, Agree
  <2>3. /\ thread' = [thread EXCEPT ![x].pc = "sgate", ![x].data = e.pending]
        /\ entry' = entry
    BY <1>3, <1>4, <1>8, <2>2, Zenon DEF SettleRetain
  <2>4. PICK v \in CallState : /\ v = [thread[x] EXCEPT !.pc = "sgate", !.data = e.pending]
                               /\ v.pc = "sgate" /\ v.data = e.pending /\ v.slot = NULL
                               /\ v.request = r
    <3>1. thread[x] \in CallState BY DEF Inv, TypeOK
    <3>2. e.pending \in Settlement BY <1>4, <1>8 DEF Typed, InflightRequest
    <3>3. PICK v : v = [thread[x] EXCEPT !.pc = "sgate", !.data = e.pending] OBVIOUS
    <3>4. /\ v \in CallState /\ v.pc = "sgate" /\ v.data = e.pending /\ v.slot = thread[x].slot
          /\ v.request = r
      BY <1>4, <3>1, <3>2, <3>3 DEF CallState, Pcs, SettlePcs
    <3> QED BY <1>4, <1>5, <3>3, <3>4
  <2>5. thread' = [thread EXCEPT ![Tid(r, w)] = v] BY <1>4, <2>3, <2>4
  <2>6. TaskOK(w, r, c, v, e, l, f, h)
    <3>1. "sgate" \in PcsOf(w) BY <1>5 DEF PcsOf, SettlePcs, Who
    <3> QED BY <1>8, <2>1, <2>4, <3>1
      DEF TaskOK, GatePcs, SettlePcs, QuotePcs, StartPcs, AbandonPcs
  <2>7. Follows(w, v, g.phase)
    BY <1>1, <1>4, <2>4 DEF Follows, GuardOK, StartPcs, AbandonPcs, SettlePcs, QuotePcs
  <2>8. w = "main" => Served([t EXCEPT ![w] = v], e, g)
    <3> SUFFICES ASSUME w = "main" PROVE Served([t EXCEPT !["main"] = v], e, g) OBVIOUS
    <3>1. PICK t2 : t2 = [t EXCEPT !["main"] = v] OBVIOUS
    <3>2. t2["main"] = v BY <1>4, <3>1, WhoFacts DEF Typed
    <3> QED BY <1>8, <2>4, <3>1, <3>2 DEF Served
  <2>9. /\ TaskOK(w, r, c, v, entry[r], ledger[r], finish[r], gate'[r]) /\ Follows(w, v, guard[r].phase)
        /\ w = "main" => Served([Tasks(r) EXCEPT ![w] = v], entry[r], guard[r])
    BY <1>1, <1>3, <2>6, <2>7, <2>8
  <2>10. /\ UNCHANGED <<clock, entry, fence, finish, ledger, guard, faults>> /\ gate' = gate
         /\ v.pc # "idle" /\ v.request = r /\ v.pc \notin {"sdone", "clear"}
         /\ thread[x].pc \in {"settle", "sgate", "quote", "priced"}
    BY <1>1, <2>3, <2>4
  <2> QED BY <1>2, <2>5, <2>9, <2>10, BusyMoves
<1> QED BY <1>6, <1>7, <1>8

LEMMA SettleGateStep ==
    ASSUME Inv, NEW x \in Threads, SettleGate(x)
    PROVE  Inv'
<1>1. thread[x].pc = "sgate" /\ UNCHANGED <<clock, entry, fence, finish, ledger, guard, faults>>
  BY DEF SettleGate, At
<1>2. PICK r \in Requests, w \in Who, c \in Decision : Opens(x, r, w, c) BY <1>1, Opened
<1>3. PICK t, e, g, l, f, h :
         /\ t = Tasks(r) /\ e = entry[r] /\ g = guard[r] /\ l = ledger[r] /\ f = finish[r]
         /\ h = gate[r]
  OBVIOUS
<1>4. /\ Typed(r, c, t, e, g, l, f) /\ Cell(r, c, t, e, g, l, f, h) /\ t[w] = thread[x]
      /\ r = thread[x].request /\ x = Tid(r, w) /\ TaskOK(w, r, c, t[w], e, l, f, h)
      /\ GuardOK(c, t, e, g, l)
  BY <1>2, <1>3, Zenon DEF Opens, Cell
<1>5. InPlay(t[w].data, c, e, l) /\ t[w].data # NULL /\ t[w].slot = NULL /\ w # "sweep"
  BY <1>1, <1>4 DEF TaskOK, SettlePcs, AbandonPcs, PcsOf
<1>6. CASE e # NULL /\ e.pending = thread[x].data
  <2>1. Goto(x, "swrite") /\ gate[r] = NULL /\ gate' = [gate EXCEPT ![r] = x]
    BY <1>3, <1>4, <1>6, Zenon DEF SettleGate, Acquire
  <2>2. PICK v \in CallState :
           thread' = [thread EXCEPT ![Tid(r, w)] = v] /\ Moves(r, w, thread[x], v, "swrite")
    BY <1>2, <2>1, GotoEffect DEF Pcs, SettlePcs
  <2>3. v.pc = "swrite" /\ v.data = t[w].data /\ v.slot = NULL /\ v.request = r
    BY <1>4, <1>5, <2>2 DEF Moves
  <2>4. gate'[r] = x BY <2>1, GateUpdate
  <2>5. TaskOK(w, r, c, v, e, l, f, gate'[r])
    <3>1. "swrite" \in PcsOf(w) BY <1>5 DEF PcsOf, SettlePcs, Who
    <3> QED BY <1>4, <1>5, <1>6, <2>3, <2>4, <3>1
      DEF TaskOK, GatePcs, SettlePcs, QuotePcs, StartPcs, AbandonPcs
  <2>6. Follows(w, v, g.phase)
    BY <1>1, <1>4, <2>3 DEF Follows, GuardOK, StartPcs, AbandonPcs, SettlePcs, QuotePcs
  <2>7. w = "main" => Served([t EXCEPT ![w] = v], e, g)
    <3> SUFFICES ASSUME w = "main" PROVE Served([t EXCEPT !["main"] = v], e, g) OBVIOUS
    <3>1. PICK t2 : t2 = [t EXCEPT !["main"] = v] OBVIOUS
    <3>2. t2["main"] = v BY <1>4, <3>1, WhoFacts DEF Typed
    <3> QED BY <1>4, <1>5, <1>6, <2>3, <3>1, <3>2 DEF Served
  <2> QED BY <1>1, <1>2, <1>3, <2>1, <2>2, <2>3, <2>5, <2>6, <2>7, BusyMoves, Zenon
<1>7. CASE e = NULL \/ e.pending # thread[x].data
  <2>1. Reply(x, "ok") /\ gate' = gate BY <1>3, <1>4, <1>7, Zenon DEF SettleGate
  <2> QED BY <1>1, <1>2, <1>3, <1>7, <2>1, BusyAnswers DEF Replies
<1> QED BY <1>6, <1>7

LEMMA QuoteCheckStep ==
    ASSUME Inv, NEW x \in Threads, QuoteCheck(x)
    PROVE  Inv'
<1>1. thread[x].pc = "quote" /\ UNCHANGED <<clock, entry, fence, finish, gate, ledger, guard, faults>>
  BY DEF QuoteCheck, At
<1>2. PICK r \in Requests, w \in Who, c \in Decision : Opens(x, r, w, c) BY <1>1, Opened
<1>3. CASE Reply(x, "error") BY <1>1, <1>2, <1>3, BusyAnswers DEF Replies
<1>4. CASE Goto(x, "priced")
  <2>1. PICK t, e, g, l, f, h :
           /\ t = Tasks(r) /\ e = entry[r] /\ g = guard[r] /\ l = ledger[r] /\ f = finish[r]
           /\ h = gate[r]
    OBVIOUS
  <2>2. /\ Typed(r, c, t, e, g, l, f) /\ t[w] = thread[x]
        /\ x = Tid(r, w) /\ TaskOK(w, r, c, t[w], e, l, f, h)
        /\ GuardOK(c, t, e, g, l)
    BY <1>2, <2>1, Zenon DEF Opens, Cell
  <2>3. InPlay(t[w].data, c, e, l) /\ t[w].data # NULL /\ t[w].slot = NULL /\ w = "main"
    BY <1>1, <2>2 DEF TaskOK, SettlePcs, QuotePcs, AbandonPcs, PcsOf, Who
  <2>4. PICK v \in CallState :
           thread' = [thread EXCEPT ![Tid(r, w)] = v] /\ Moves(r, w, thread[x], v, "priced")
    BY <1>2, <1>4, GotoEffect DEF Pcs, QuotePcs
  <2>5. v.pc = "priced" /\ v.data = t[w].data /\ v.slot = NULL /\ v.request = r
    BY <2>2, <2>3, <2>4 DEF Moves
  <2>6. TaskOK(w, r, c, v, e, l, f, h)
    BY <2>3, <2>5
    DEF TaskOK, PcsOf, GatePcs, SettlePcs, QuotePcs, StartPcs, AbandonPcs
  <2>7. Follows(w, v, g.phase)
    BY <1>1, <2>2, <2>3, <2>5 DEF Follows, GuardOK, StartPcs, AbandonPcs, SettlePcs, QuotePcs
  <2>8. Served([t EXCEPT !["main"] = v], e, g)
    <3>1. PICK t2 : t2 = [t EXCEPT !["main"] = v] OBVIOUS
    <3>2. t2["main"] = v BY <2>2, <3>1, WhoFacts DEF Typed
    <3>3. g.phase # "flushed" BY <1>1, <2>2, <2>3 DEF GuardOK
    <3> QED BY <2>5, <3>1, <3>2, <3>3 DEF Served
  <2> QED BY <1>1, <1>2, <2>1, <2>3, <2>4, <2>5, <2>6, <2>7, <2>8, BusyMoves, Zenon
<1> QED BY <1>3, <1>4 DEF QuoteCheck

LEMMA QuoteRetainStep ==
    ASSUME Inv, NEW x \in Threads, NEW priced \in BOOLEAN, QuoteRetain(x, priced)
    PROVE  Inv'
<1>1. thread[x].pc = "priced" /\ UNCHANGED <<clock, fence, finish, gate, ledger, guard, faults>>
  BY DEF QuoteRetain, At
<1>2. PICK r \in Requests, w \in Who, c \in Decision : Opens(x, r, w, c) BY <1>1, Opened
<1>3. r = thread[x].request BY <1>2, Zenon DEF Opens
<1>4. CASE priced /\ entry[r] # NULL /\ entry[r].pending = NULL
  <2>1. Reply(x, "ok") /\ entry' = [entry EXCEPT ![r].pending = thread[x].data]
    BY <1>3, <1>4 DEF QuoteRetain
  <2> QED BY <1>1, <1>2, <1>4, <2>1, RetainMoves
<1>5. CASE ~(priced /\ entry[r] # NULL /\ entry[r].pending = NULL)
  <2>1. /\ entry' = entry
        /\ Reply(x, "error") \/ (Reply(x, "ok") /\ entry[r] = NULL)
    BY <1>3, <1>5 DEF QuoteRetain
  <2> QED BY <1>1, <1>2, <2>1, BusyAnswers DEF Replies
<1> QED BY <1>4, <1>5

LEMMA FaultEffect ==
    ASSUME Inv, NEW fault, MayFail(fault)
    PROVE  faults' \in Nat
BY DEF Inv, TypeOK, MayFail

LEMMA AttemptEffect ==
    ASSUME Inv, NEW r \in Requests, NEW n \in Ordinals, NEW kind \in AllKinds \cup {"recovered"},
           NEW finalize \in BOOLEAN, FinishAttempt(r, n, kind, finalize)
    PROVE  /\ ledger' \in [Requests -> LedgerState] /\ ledger'[r] \in LedgerState
           /\ \A q \in Requests \ {r} : ledger'[q] = ledger[q]
           /\ Settles(ledger[r], n, kind, finalize, ledger'[r])
<1>1. ledger \in [Requests -> LedgerState] /\ ledger[r] \in LedgerState BY DEF Inv, TypeOK
<1>2. PICK l \in LedgerState : l = ledger[r] BY <1>1
<1>3. PICK row \in Rows : row = IF l.attempt[n] = "dispatched" \/ (l.attempt[n] = "recovered" /\ kind = "exact")
                                THEN kind ELSE l.attempt[n]
  BY <1>2 DEF LedgerState, Rows
<1>4. PICK state \in {"none", "open", "closed"} :
         state = IF finalize /\ l.attempt[n] = "dispatched" THEN "closed" ELSE l.request
  BY <1>2 DEF LedgerState
<1>5. PICK l2 : l2 = [l EXCEPT !.attempt[n] = row, !.request = state] OBVIOUS
<1>6. /\ l2 \in LedgerState /\ l2.request = state /\ l2.attempt[n] = row
      /\ \A k \in Ordinals \ {n} : l2.attempt[k] = l.attempt[k]
  BY <1>2, <1>5 DEF LedgerState
<1>7. ledger' = [ledger EXCEPT ![r] = l2]
  BY <1>1, <1>2, <1>3, <1>4, <1>5 DEF FinishAttempt, LedgerState
<1>8. /\ ledger' \in [Requests -> LedgerState] /\ ledger'[r] = l2
      /\ \A q \in Requests \ {r} : ledger'[q] = ledger[q]
  BY <1>6, <1>7, LedgerUpdate
<1>9. Settles(l, n, kind, finalize, l2) BY <1>3, <1>4, <1>6 DEF Settles
<1> QED BY <1>2, <1>6, <1>8, <1>9

LEMMA SettleFailedStep ==
    ASSUME Inv, NEW x \in Threads, NEW refused \in BOOLEAN, thread[x].pc = "swrite",
           SettleFailed(x, refused), UNCHANGED <<clock, finish, guard>>, faults' \in Nat
    PROVE  Inv'
<1>2. PICK r \in Requests, w \in Who, c \in Decision : Opens(x, r, w, c) BY Opened
<1>3. PICK t, e, g, l, f, h :
         /\ t = Tasks(r) /\ e = entry[r] /\ g = guard[r] /\ l = ledger[r] /\ f = finish[r]
         /\ h = gate[r]
  OBVIOUS
<1>4. /\ Typed(r, c, t, e, g, l, f) /\ Cell(r, c, t, e, g, l, f, h) /\ t[w] = thread[x]
      /\ r = thread[x].request /\ x = Tid(r, w) /\ (w = "sweep" => thread[Sweeper].request = r)
  BY <1>2, <1>3, Zenon DEF Opens
<1>5. e \in InflightRequest /\ t[w].data \in Settlement BY <1>4, WriterFacts
<1>6. PICK e2 \in InflightRequest :
         /\ e2 = [e EXCEPT !.pending = t[w].data, !.writeFailed = TRUE, !.refused = refused]
         /\ e2.total = e.total /\ e2.active = e.active /\ e2.pending = t[w].data
  <2>1. PICK e2 : e2 = [e EXCEPT !.pending = t[w].data, !.writeFailed = TRUE, !.refused = refused]
    OBVIOUS
  <2>2. e2 \in InflightRequest /\ e2.total = e.total /\ e2.active = e.active /\ e2.pending = t[w].data
    BY <1>5, <2>1, Zenon DEF InflightRequest
  <2> QED BY <2>1, <2>2
<1>7. Sync(r, e2) /\ gate' = [gate EXCEPT ![r] = NULL] /\ Reply(x, "error") /\ ledger' = ledger
  BY <1>3, <1>4, <1>6, Zenon DEF SettleFailed, Release
<1>8. /\ entry' \in [Requests -> InflightRequest \cup {NULL}] /\ entry'[r] = e2
      /\ \A q \in Requests \ {r} : entry'[q] = entry[q]
  BY <1>7, EntryUpdate DEF Sync
<1>9. fence' \subseteq Requests /\ FenceExact' BY <1>7, SyncFence
<1>10. /\ gate' \in [Requests -> Threads \cup {NULL}] /\ gate'[r] = NULL
       /\ \A q \in Requests \ {r} : gate'[q] = gate[q]
  BY <1>7, GateUpdate
<1>11. Rest' /\ Elsewhere(r)
  BY <1>7, <1>8, <1>9, <1>10, RestNow DEF Rest, Elsewhere
<1>12. PICK v \in CallState : /\ thread' = [thread EXCEPT ![Tid(r, w)] = v]
                              /\ Answers(r, w, thread[x], v, "error", guard[r].phase)
  BY <1>2, <1>7, ReplyEffect DEF Replies
<1>13. Answers(r, w, t[w], v, "error", g.phase) BY <1>3, <1>4, <1>12, Zenon
<1>14. Cell(r, c, [t EXCEPT ![w] = v], e2, g, l, f, NULL) BY <1>4, <1>6, <1>13, FailCell
<1>15. Cell(r, c, [Tasks(r) EXCEPT ![w] = v], entry'[r], guard'[r], ledger'[r], finish'[r], gate'[r])
  BY <1>3, <1>7, <1>8, <1>10, <1>14
<1>16. v = Idle \/ (v.pc # "idle" /\ v.request = r) BY <1>12 DEF Answers
<1> QED BY <1>4, <1>9, <1>11, <1>12, <1>15, <1>16, CellStep, Zenon

LEMMA SettleWriteStep ==
    ASSUME Inv, NEW x \in Threads, NEW fault \in Outcomes, SettleWrite(x, fault)
    PROVE  Inv'
<1>1. /\ thread[x].pc = "swrite" /\ UNCHANGED <<clock, finish, guard>> /\ MayFail(fault)
  BY DEF SettleWrite, At
<1>1a. faults' \in Nat BY <1>1, FaultEffect
<1>2. CASE \E refused \in BOOLEAN : SettleFailed(x, refused)
  BY <1>1, <1>1a, <1>2, SettleFailedStep
<1>3. CASE /\ ~Conflicts(ledger[thread[x].request].attempt[thread[x].data.attempt], thread[x].data.kind)
           /\ FinishAttempt(thread[x].request, thread[x].data.attempt, thread[x].data.kind, thread[x].data.finalize)
           /\ Goto(x, "sdone") /\ UNCHANGED <<entry, fence, gate>>
  <2>1. PICK r \in Requests, w \in Who, c \in Decision : Opens(x, r, w, c) BY <1>1, Opened
  <2>2. PICK t, e, g, l, f, h :
           /\ t = Tasks(r) /\ e = entry[r] /\ g = guard[r] /\ l = ledger[r] /\ f = finish[r]
           /\ h = gate[r]
    OBVIOUS
  <2>3. /\ Typed(r, c, t, e, g, l, f) /\ Cell(r, c, t, e, g, l, f, h) /\ t[w] = thread[x]
        /\ r = thread[x].request /\ x = Tid(r, w) /\ (w = "sweep" => thread[Sweeper].request = r)
    BY <2>1, <2>2, Zenon DEF Opens
  <2>4. t[w].data \in Settlement BY <1>1, <2>3, WriterFacts
  <2>5. /\ t[w].data.attempt \in Ordinals /\ t[w].data.kind \in AllKinds
        /\ t[w].data.finalize \in BOOLEAN
    BY <2>4 DEF Settlement
  <2>6. PICK l2 \in LedgerState :
           /\ ledger' \in [Requests -> LedgerState] /\ ledger'[r] = l2
           /\ \A q \in Requests \ {r} : ledger'[q] = ledger[q]
           /\ Settles(l, t[w].data.attempt, t[w].data.kind, t[w].data.finalize, l2)
    <3>1. FinishAttempt(r, t[w].data.attempt, t[w].data.kind, t[w].data.finalize) BY <1>3, <2>3
    <3>2. /\ ledger' \in [Requests -> LedgerState] /\ ledger'[r] \in LedgerState
          /\ \A q \in Requests \ {r} : ledger'[q] = ledger[q]
          /\ Settles(ledger[r], t[w].data.attempt, t[w].data.kind, t[w].data.finalize, ledger'[r])
      BY <2>5, <3>1, AttemptEffect
    <3> QED BY <2>2, <3>2
  <2>7. Rest' /\ Elsewhere(r) /\ FenceExact'
    BY <1>1, <1>1a, <1>3, <2>6, RestNow DEF Rest, Elsewhere, Inv, FenceExact, Live
  <2>8. PICK v \in CallState :
           thread' = [thread EXCEPT ![Tid(r, w)] = v] /\ Moves(r, w, thread[x], v, "sdone")
    BY <1>3, <2>1, GotoEffect DEF Pcs, SettlePcs
  <2>9. ~Conflicts(l.attempt[t[w].data.attempt], t[w].data.kind) BY <1>3, <2>2, <2>3, Zenon
  <2>10. Cell(r, c, [t EXCEPT ![w] = v], e, g, l2, f, h)
    BY <1>1, <2>3, <2>6, <2>8, <2>9, WriteCell, Zenon
  <2>11. Cell(r, c, [Tasks(r) EXCEPT ![w] = v], entry'[r], guard'[r], ledger'[r], finish'[r], gate'[r])
    BY <1>1, <1>3, <2>2, <2>6, <2>10
  <2>12. v.pc # "idle" /\ v.request = r BY <2>8 DEF Moves
  <2> QED BY <2>3, <2>7, <2>8, <2>11, <2>12, CellStep, Zenon
<1> QED BY <1>2, <1>3 DEF SettleWrite

LEMMA SettleDoneStep ==
    ASSUME Inv, NEW x \in Threads, SettleDone(x)
    PROVE  Inv'
<1>1. thread[x].pc = "sdone" /\ UNCHANGED <<clock, finish, ledger, guard, faults>>
  BY DEF SettleDone, At
<1>2. PICK r \in Requests, w \in Who, c \in Decision : Opens(x, r, w, c) BY <1>1, Opened
<1>3. PICK t, e, g, l, f, h :
         /\ t = Tasks(r) /\ e = entry[r] /\ g = guard[r] /\ l = ledger[r] /\ f = finish[r]
         /\ h = gate[r]
  OBVIOUS
<1>4. /\ Typed(r, c, t, e, g, l, f) /\ Cell(r, c, t, e, g, l, f, h) /\ t[w] = thread[x]
      /\ r = thread[x].request /\ x = Tid(r, w) /\ (w = "sweep" => thread[Sweeper].request = r)
  BY <1>2, <1>3, Zenon DEF Opens
<1>5. /\ e \in InflightRequest /\ t[w].data \in Settlement /\ InPlay(t[w].data, c, e, l)
      /\ e # NULL /\ EntryOK(c, t, e, l, f)
  BY <1>1, <1>4, WriterFacts
<1>6. /\ gate' \in [Requests -> Threads \cup {NULL}] /\ gate'[r] = NULL
      /\ \A q \in Requests \ {r} : gate'[q] = gate[q]
  <2>1. gate' = [gate EXCEPT ![r] = NULL] BY <1>4, Zenon DEF SettleDone, Release
  <2> QED BY <2>1, GateUpdate, Zenon
<1>7. \E e2 : /\ entry' \in [Requests -> InflightRequest \cup {NULL}] /\ entry'[r] = e2
              /\ \A q \in Requests \ {r} : entry'[q] = entry[q]
              /\ fence' \subseteq Requests /\ FenceExact'
              /\ \/ e2 = NULL /\ t[w].data.finalize
                 \/ Landed(e, e2) /\ ~t[w].data.finalize
  <2>1. CASE t[w].data.finalize
    <3>1. Drop(r) BY <1>4, <2>1 DEF SettleDone
    <3>2. /\ entry' \in [Requests -> InflightRequest \cup {NULL}] /\ entry'[r] = NULL
          /\ \A q \in Requests \ {r} : entry'[q] = entry[q]
      BY <3>1, EntryUpdate DEF Drop
    <3> QED BY <2>1, <3>1, <3>2, DropFence
  <2>2. CASE ~t[w].data.finalize
    <3>1. PICK landed : landed = IF SameSettlement(e.pending, t[w].data)
                                 THEN [e EXCEPT !.pending = NULL, !.writeFailed = FALSE] ELSE e
      OBVIOUS
    <3>2. PICK e2 : e2 = IF landed.active = t[w].data.attempt
                         THEN [landed EXCEPT !.active = NULL] ELSE landed
      OBVIOUS
    <3>3. Sync(r, e2) BY <1>3, <1>4, <2>2, <3>1, <3>2, Zenon DEF SettleDone
    <3>4. landed \in InflightRequest /\ landed.pending = NULL /\ landed.total = e.total /\ landed.active = e.active
      <4>1. CASE e.pending = NULL BY <1>5, <3>1, <4>1 DEF SameSettlement
      <4>2. CASE e.pending # NULL
        <5>1. e.pending \in Settlement BY <1>5, <4>2 DEF InflightRequest
        <5>2. InPlay(e.pending, c, e, l) BY <1>5, <4>2 DEF EntryOK
        <5>3. Agree(e.pending, t[w].data) BY <1>5, <5>2 DEF InPlay, Agree
        <5>4. SameSettlement(e.pending, t[w].data) BY <1>5, <5>1, <5>3, SameAgree
        <5> QED BY <1>5, <3>1, <5>4 DEF InflightRequest
      <4> QED BY <4>1, <4>2
    <3>5. Landed(e, e2)
      <4>1. e.active # NULL => e.active = t[w].data.attempt
        BY <1>5 DEF EntryOK, InPlay, Agree
      <4>2. CASE e.active = NULL
        <5>1. t[w].data.attempt # NULL BY <1>5, OrdinalFacts DEF Settlement
        <5> QED BY <3>2, <3>4, <4>2, <5>1 DEF Landed
      <4>3. CASE e.active # NULL BY <3>2, <3>4, <4>1, <4>3 DEF Landed, InflightRequest
      <4> QED BY <4>2, <4>3
    <3>6. e2 \in InflightRequest BY <3>5 DEF Landed
    <3>7. /\ entry' \in [Requests -> InflightRequest \cup {NULL}] /\ entry'[r] = e2
          /\ \A q \in Requests \ {r} : entry'[q] = entry[q]
      BY <3>3, <3>6, EntryUpdate DEF Sync
    <3> QED BY <2>2, <3>3, <3>5, <3>6, <3>7, SyncFence
  <2> QED BY <2>1, <2>2
<1>8. PICK e2 : /\ entry' \in [Requests -> InflightRequest \cup {NULL}] /\ entry'[r] = e2
                /\ \A q \in Requests \ {r} : entry'[q] = entry[q]
                /\ fence' \subseteq Requests /\ FenceExact'
                /\ \/ e2 = NULL /\ t[w].data.finalize
                   \/ Landed(e, e2) /\ ~t[w].data.finalize
  BY <1>7
<1>9. Rest' /\ Elsewhere(r) BY <1>1, <1>6, <1>8, RestNow DEF Rest, Elsewhere
<1>10. PICK v \in CallState :
         /\ thread' = [thread EXCEPT ![Tid(r, w)] = v]
         /\ \/ w = "sweep" /\ Moves(r, w, t[w], v, "clear")
            \/ w # "sweep" /\ Answers(r, w, t[w], v, "ok", g.phase)
  <2>1. CASE w = "sweep"
    <3>0. x = Sweeper BY <1>4, <2>1 DEF Tid
    <3>1. Goto(x, "clear") BY <3>0, Zenon DEF SettleDone
    <3>2. "clear" \in Pcs \ {"idle"} BY DEF Pcs
    <3>3. \E v \in CallState : /\ thread' = [thread EXCEPT ![Tid(r, w)] = v]
                              /\ Moves(r, w, thread[x], v, "clear")
      BY <1>2, <3>1, <3>2, GotoEffect
    <3> QED BY <1>4, <2>1, <3>3, Zenon
  <2>2. CASE w # "sweep"
    <3>0. x # Sweeper BY <1>4, <2>2, TidFacts
    <3>1. Reply(x, "ok") BY <3>0, Zenon DEF SettleDone
    <3>2. PICK v \in CallState : /\ thread' = [thread EXCEPT ![Tid(r, w)] = v]
                                 /\ Answers(r, w, thread[x], v, "ok", guard[r].phase)
      BY <1>2, <3>1, ReplyEffect DEF Replies
    <3> QED BY <1>3, <1>4, <2>2, <3>2, Zenon
  <2> QED BY <2>1, <2>2
<1>11. Cell(r, c, [t EXCEPT ![w] = v], e2, g, l, f, NULL)
  BY <1>1, <1>4, <1>8, <1>10, DoneCell
<1>12. Cell(r, c, [Tasks(r) EXCEPT ![w] = v], entry'[r], guard'[r], ledger'[r], finish'[r], gate'[r])
  BY <1>1, <1>3, <1>6, <1>8, <1>11
<1>13. v = Idle \/ (v.pc # "idle" /\ v.request = r) BY <1>10 DEF Moves, Answers
<1> QED BY <1>4, <1>8, <1>9, <1>10, <1>12, <1>13, CellStep, Zenon

LEMMA SweepClearStep ==
    ASSUME Inv, NEW x \in Threads, SweepClear(x)
    PROVE  Inv'
<1>1. thread[x].pc = "clear" /\ UNCHANGED <<clock, fence, finish, gate, ledger, guard, faults>>
  BY DEF SweepClear, At
<1>2. PICK r \in Requests, w \in Who, c \in Decision : Opens(x, r, w, c) BY <1>1, Opened
<1>3. PICK t, e, g, l, f, h :
         /\ t = Tasks(r) /\ e = entry[r] /\ g = guard[r] /\ l = ledger[r] /\ f = finish[r]
         /\ h = gate[r]
  OBVIOUS
<1>4. /\ Typed(r, c, t, e, g, l, f) /\ Cell(r, c, t, e, g, l, f, h) /\ t[w] = thread[x]
      /\ r = thread[x].request /\ x = Tid(r, w) /\ (w = "sweep" => thread[Sweeper].request = r)
      /\ TaskOK(w, r, c, t[w], e, l, f, h)
  BY <1>2, <1>3, Zenon DEF Opens
<1>5. w = "sweep"
  BY <1>1, <1>4 DEF TaskOK, PcsOf, Who, StartPcs, AbandonPcs, SettlePcs, QuotePcs
<1>6. t[w].data \in Settlement
  <2>1. t[w].data # NULL BY <1>1, <1>4 DEF TaskOK
  <2> QED BY <1>4, <2>1 DEF Typed, CallState
<1>7. thread' = [thread EXCEPT ![Tid(r, w)] = Idle]
  <2>1. Reply(x, "ok") BY DEF SweepClear
  <2>2. PICK v \in CallState : /\ thread' = [thread EXCEPT ![Tid(r, w)] = v]
                               /\ Answers(r, w, thread[x], v, "ok", guard[r].phase)
    BY <1>2, <2>1, ReplyEffect DEF Replies
  <2>3. v = Idle BY <1>5, <2>2 DEF Answers
  <2> QED BY <2>2, <2>3
<1>8. CASE e # NULL /\ SameSettlement(e.pending, t[w].data)
  <2>1. e.pending # NULL BY <1>8 DEF SameSettlement
  <2>2. e \in InflightRequest /\ e.pending \in Settlement BY <1>4, <1>8, <2>1 DEF Typed, InflightRequest
  <2>3. Agree(e.pending, t[w].data) BY <1>6, <1>8, <2>2, SameAgree
  <2>4. PICK e2 \in InflightRequest :
           /\ e2 = [e EXCEPT !.pending = NULL]
           /\ e2.total = e.total /\ e2.active = e.active /\ e2.pending = NULL
           /\ EntryFences(e2) = EntryFences(e) /\ e2 # NULL
    <3>1. PICK e2 : e2 = [e EXCEPT !.pending = NULL] OBVIOUS
    <3>2. e2 \in InflightRequest /\ e2.total = e.total /\ e2.active = e.active /\ e2.pending = NULL
          /\ EntryFences(e2) = EntryFences(e)
      BY <2>2, <3>1 DEF InflightRequest, EntryFences
    <3> QED BY <3>1, <3>2, AccountingAssumption
  <2>5. entry' = [entry EXCEPT ![r] = e2]
    BY <1>3, <1>4, <1>8, <2>4, Zenon DEF SweepClear, Live
  <2>6. /\ entry' \in [Requests -> InflightRequest \cup {NULL}] /\ entry'[r] = e2
        /\ \A q \in Requests \ {r} : entry'[q] = entry[q]
    BY <2>5, EntryUpdate
  <2>7. Rest' /\ Elsewhere(r) BY <1>1, <2>6, RestNow DEF Rest, Elsewhere
  <2>8. FenceExact' BY <1>1, <1>3, <1>8, <2>4, <2>6, SameFence
  <2>9. Cell(r, c, [t EXCEPT !["sweep"] = Idle], e2, g, l, f, h)
    BY <1>1, <1>4, <1>5, <1>8, <2>1, <2>3, <2>4, ClearCell
  <2>10. Cell(r, c, [Tasks(r) EXCEPT ![w] = Idle], entry'[r], guard'[r], ledger'[r], finish'[r], gate'[r])
    BY <1>1, <1>3, <1>5, <2>6, <2>9
  <2> QED BY <1>4, <1>7, <2>7, <2>8, <2>10, CellStep, IdleFacts, Zenon
<1>9. CASE ~(e # NULL /\ SameSettlement(e.pending, t[w].data))
  <2>1. entry' = entry BY <1>3, <1>4, <1>9, Zenon DEF SweepClear, Live
  <2>2. TaskOK("sweep", r, c, Idle, e, l, f, h) BY IdleOK, WhoFacts
  <2>3. Cell(r, c, [t EXCEPT !["sweep"] = Idle], e, g, l, f, h)
    BY <1>1, <1>4, <1>5, <2>2, OtherTask, IdleFacts
  <2>4. Cell(r, c, [Tasks(r) EXCEPT ![w] = Idle], entry[r], guard[r], ledger[r], finish[r], gate'[r])
    BY <1>1, <1>3, <1>5, <2>3
  <2> QED BY <1>1, <1>2, <1>7, <2>1, <2>4, CallMoves, IdleFacts
<1> QED BY <1>8, <1>9

-----------------------------------------------------------------------------
(* Steps of abandon. *)
Leaves(r, w, t, v, phase) ==
    \/ \E pc \in AbandonPcs : Moves(r, w, t, v, pc)
    \/ \E res \in {"ok", "error"} : Answers(r, w, t, v, res, phase)

LEMMA AbandonTask ==
    ASSUME NEW r, NEW c, NEW t, NEW e, NEW g, NEW l, NEW f, NEW h,
           Typed(r, c, t, e, g, l, f), Cell(r, c, t, e, g, l, f, h),
           NEW w \in Who, t[w].pc \in AbandonPcs, NEW v \in CallState, NEW h2,
           TaskOK(w, r, c, v, e, l, f, h2), h2 = h \/ h = NULL \/ h = Tid(r, w),
           Leaves(r, w, t[w], v, g.phase)
    PROVE  Cell(r, c, [t EXCEPT ![w] = v], e, g, l, f, h2)
<1>1. GuardOK(c, t, e, g, l) /\ TaskOK(w, r, c, t[w], e, l, f, h) BY DEF Cell
<1>2. t[w].data = NULL /\ t[w].pc \notin {"idle", "sdone", "bind"}
  BY <1>1 DEF TaskOK, AbandonPcs
<1>3. /\ v.data = NULL /\ (v = Idle \/ v.slot = t[w].slot)
      /\ v.pc \notin {"sdone", "clear", "swrite"}
  BY <1>2, IdleFacts DEF Leaves, Moves, Answers, AbandonPcs
<1>4. CASE w = "main"
  <2>1. v = Idle \/ (v.data = NULL /\ v.slot = t["main"].slot) BY <1>3, <1>4
  <2>2. \/ v.pc \in StartPcs \cup AbandonPcs
        \/ v.pc = "idle" /\ g.phase = "done"
        \/ /\ v.pc = "replied" /\ g.phase # "done"
           /\ v.reply = "started" => v.slot # NULL
    BY <1>4, IdleFacts DEF Leaves, Moves, Answers
  <2> QED BY <1>2, <1>4, <2>1, <2>2, StartTask
<1>5. CASE w \in {"back", "sweep"}
  <2>1. g.phase # "absent" /\ (w = "back" => g.phase = "done")
    BY <1>1, <1>2, <1>5 DEF GuardOK
  <2> QED BY <1>2, <1>3, <1>5, <2>1, OtherTask
<1> QED BY <1>4, <1>5 DEF Who

LEMMA AbandonMoves ==
    ASSUME Inv, NEW x \in Threads, NEW r \in Requests, NEW w \in Who, NEW c \in Decision,
           Opens(x, r, w, c), thread[x].pc \in AbandonPcs,
           UNCHANGED <<clock, entry, fence, finish, ledger, guard, faults>>,
           \/ gate' = gate
           \/ gate[r] = NULL /\ gate' = [gate EXCEPT ![r] = x]
           \/ thread[x].pc \in GatePcs /\ gate' = [gate EXCEPT ![r] = NULL],
           NEW v \in CallState, thread' = [thread EXCEPT ![Tid(r, w)] = v],
           TaskOK(w, r, c, v, entry[r], ledger[r], finish[r], gate'[r]),
           Leaves(r, w, thread[x], v, guard[r].phase)
    PROVE  Inv'
<1>1. gate'[r] = gate[r] \/ gate[r] = NULL \/ gate[r] = Tid(r, w) BY GateChange
<1>2. PICK t, e, g, l, f, h, h2 :
         /\ t = Tasks(r) /\ e = entry[r] /\ g = guard[r] /\ l = ledger[r] /\ f = finish[r]
         /\ h = gate[r] /\ h2 = gate'[r]
  OBVIOUS
<1>3. /\ Typed(r, c, t, e, g, l, f) /\ Cell(r, c, t, e, g, l, f, h) /\ t[w] = thread[x]
      /\ TaskOK(w, r, c, v, e, l, f, h2) /\ (h2 = h \/ h = NULL \/ h = Tid(r, w))
      /\ Leaves(r, w, t[w], v, g.phase)
  BY <1>1, <1>2, Zenon DEF Opens
<1>4. Cell(r, c, [t EXCEPT ![w] = v], e, g, l, f, h2) BY <1>3, AbandonTask
<1>5. Cell(r, c, [Tasks(r) EXCEPT ![w] = v], entry[r], guard[r], ledger[r], finish[r], gate'[r])
  BY <1>2, <1>4
<1>6. v = Idle \/ (v.pc # "idle" /\ v.request = r) BY DEF Leaves, Moves, Answers, AbandonPcs
<1> QED BY <1>5, <1>6, CallMoves, Zenon

LEMMA AbandonAnswers ==
    ASSUME Inv, NEW x \in Threads, NEW r \in Requests, NEW w \in Who, NEW c \in Decision,
           Opens(x, r, w, c), thread[x].pc \in AbandonPcs,
           UNCHANGED <<clock, entry, fence, finish, ledger, guard, faults>>,
           \/ gate' = gate
           \/ thread[x].pc \in GatePcs /\ gate' = [gate EXCEPT ![r] = NULL],
           Reply(x, "ok")
    PROVE  Inv'
<1>1. PICK v \in CallState : /\ thread' = [thread EXCEPT ![Tid(r, w)] = v]
                             /\ Answers(r, w, thread[x], v, "ok", guard[r].phase)
  BY ReplyEffect DEF Replies
<1>2. TaskOK(w, r, c, thread[x], entry[r], ledger[r], finish[r], gate[r]) /\ thread[x].pc # "clear"
  BY Zenon DEF Opens, AbandonPcs
<1>3. TaskOK(w, r, c, v, entry[r], ledger[r], finish[r], gate'[r]) BY <1>1, <1>2, AnswerOK
<1>4. Leaves(r, w, thread[x], v, guard[r].phase) BY <1>1 DEF Leaves
<1> QED BY <1>1, <1>3, <1>4, AbandonMoves, Zenon

LEMMA AbandonIntendStep ==
    ASSUME Inv, NEW x \in Threads, AbandonIntend(x)
    PROVE  Inv'
<1>1. thread[x].pc = "abandon" /\ UNCHANGED <<clock, fence, finish, gate, ledger, guard, faults>>
      /\ thread[x].pc \in AbandonPcs
  BY DEF AbandonIntend, At, AbandonPcs
<1>2. PICK r \in Requests, w \in Who, c \in Decision : Opens(x, r, w, c) BY <1>1, Opened
<1>3. PICK t, e, g, l, f, h :
         /\ t = Tasks(r) /\ e = entry[r] /\ g = guard[r] /\ l = ledger[r] /\ f = finish[r]
         /\ h = gate[r]
  OBVIOUS
<1>4. /\ Typed(r, c, t, e, g, l, f) /\ Cell(r, c, t, e, g, l, f, h) /\ t[w] = thread[x]
      /\ r = thread[x].request /\ x = Tid(r, w) /\ TaskOK(w, r, c, t[w], e, l, f, h)
      /\ (w = "sweep" => thread[Sweeper].request = r)
  BY <1>2, <1>3, Zenon DEF Opens
<1>5. CASE e = NULL
  <2>1. Reply(x, "ok") /\ entry' = entry BY <1>3, <1>4, <1>5, Zenon DEF AbandonIntend
  <2> QED BY <1>1, <1>2, <2>1, AbandonAnswers
<1>6. CASE e # NULL
  <2>1. Goto(x, "agate") /\ entry' = [entry EXCEPT ![r].abandon = TRUE]
    BY <1>3, <1>4, <1>6, Zenon DEF AbandonIntend
  <2>2. e \in InflightRequest BY <1>4, <1>6 DEF Typed
  <2>3. PICK e2 \in InflightRequest :
           /\ e2 = [e EXCEPT !.abandon = TRUE]
           /\ e2.total = e.total /\ e2.active = e.active /\ e2.pending = e.pending
           /\ EntryFences(e2) = EntryFences(e) /\ e2 # NULL
    <3>1. PICK e2 : e2 = [e EXCEPT !.abandon = TRUE] OBVIOUS
    <3>2. e2 \in InflightRequest /\ e2.total = e.total /\ e2.active = e.active /\ e2.pending = e.pending
          /\ EntryFences(e2) = EntryFences(e)
      BY <2>2, <3>1 DEF InflightRequest, EntryFences
    <3> QED BY <3>1, <3>2, AccountingAssumption
  <2>4. entry' = [entry EXCEPT ![r] = e2] BY <1>3, <2>1, <2>3
  <2>5. /\ entry' \in [Requests -> InflightRequest \cup {NULL}] /\ entry'[r] = e2
        /\ \A q \in Requests \ {r} : entry'[q] = entry[q]
    BY <2>4, EntryUpdate
  <2>6. Rest' /\ Elsewhere(r) BY <1>1, <2>5, RestNow DEF Rest, Elsewhere
  <2>7. FenceExact' BY <1>1, <1>3, <1>6, <2>3, <2>5, SameFence
  <2>8. PICK v \in CallState :
           thread' = [thread EXCEPT ![Tid(r, w)] = v] /\ Moves(r, w, thread[x], v, "agate")
    BY <1>2, <2>1, GotoEffect DEF Pcs, AbandonPcs
  <2>9. Cell(r, c, t, e2, g, l, f, h) /\ Typed(r, c, t, e2, g, l, f)
    BY <1>4, <1>6, <2>3, EntrySame DEF Typed
  <2>10. TaskOK(w, r, c, v, e2, l, f, h) /\ Leaves(r, w, t[w], v, g.phase)
    <3>1. v.pc = "agate" /\ v.data = t[w].data /\ v.slot = t[w].slot BY <1>4, <2>8 DEF Moves
    <3>2. t[w].data = NULL /\ (t[w].slot # NULL => w = "main") BY <1>1, <1>4 DEF TaskOK
    <3>3. "agate" \in PcsOf(w) BY DEF PcsOf, AbandonPcs
    <3>4. TaskOK(w, r, c, v, e2, l, f, h)
      BY <3>1, <3>2, <3>3 DEF TaskOK, GatePcs, SettlePcs, QuotePcs, StartPcs, AbandonPcs
    <3> QED BY <1>4, <2>8, <3>4 DEF Leaves, AbandonPcs
  <2>11. Cell(r, c, [t EXCEPT ![w] = v], e2, g, l, f, h)
    BY <1>1, <1>4, <2>9, <2>10, AbandonTask
  <2>12. Cell(r, c, [Tasks(r) EXCEPT ![w] = v], entry'[r], guard'[r], ledger'[r], finish'[r], gate'[r])
    BY <1>1, <1>3, <2>5, <2>11
  <2>13. v.pc # "idle" /\ v.request = r BY <2>8 DEF Moves
  <2> QED BY <1>4, <2>6, <2>7, <2>8, <2>12, <2>13, CellStep, Zenon
<1> QED BY <1>5, <1>6

LEMMA AbandonGateStep ==
    ASSUME Inv, NEW x \in Threads, AbandonGate(x)
    PROVE  Inv'
<1>1. thread[x].pc = "agate" /\ UNCHANGED <<clock, entry, fence, finish, ledger, guard, faults>>
      /\ thread[x].pc \in AbandonPcs
  BY DEF AbandonGate, At, AbandonPcs
<1>2. PICK r \in Requests, w \in Who, c \in Decision : Opens(x, r, w, c) BY <1>1, Opened
<1>3. /\ r = thread[x].request /\ x = Tid(r, w)
      /\ TaskOK(w, r, c, thread[x], entry[r], ledger[r], finish[r], gate[r])
  BY <1>2, Zenon DEF Opens
<1>4. CASE Reply(x, "ok") /\ gate' = gate BY <1>1, <1>2, <1>4, AbandonAnswers
<1>5. CASE /\ Goto(x, "awrite") /\ entry[r] # NULL
           /\ gate[r] = NULL /\ gate' = [gate EXCEPT ![r] = x]
  <2>1. PICK v \in CallState :
           thread' = [thread EXCEPT ![Tid(r, w)] = v] /\ Moves(r, w, thread[x], v, "awrite")
    BY <1>2, <1>5, GotoEffect DEF Pcs, AbandonPcs
  <2>2. gate'[r] = x BY <1>5, GateUpdate
  <2>3. v.pc = "awrite" /\ v.data = thread[x].data /\ v.slot = thread[x].slot BY <2>1 DEF Moves
  <2>4. thread[x].data = NULL /\ (thread[x].slot # NULL => w = "main") BY <1>1, <1>3 DEF TaskOK
  <2>5. "awrite" \in PcsOf(w) BY DEF PcsOf, AbandonPcs
  <2>6. TaskOK(w, r, c, v, entry[r], ledger[r], finish[r], gate'[r])
    BY <1>3, <1>5, <2>2, <2>3, <2>4, <2>5, Zenon
    DEF TaskOK, GatePcs, SettlePcs, QuotePcs, StartPcs, AbandonPcs
  <2>7. Leaves(r, w, thread[x], v, guard[r].phase) BY <2>1 DEF Leaves, AbandonPcs
  <2> QED BY <1>1, <1>2, <1>5, <2>1, <2>6, <2>7, AbandonMoves
<1> QED BY <1>3, <1>4, <1>5 DEF AbandonGate, Acquire

(* The registry forgets a request that holds nothing. *)
LEMMA DropCell ==
    ASSUME NEW r, NEW c, NEW t, NEW e, NEW g, NEW l, NEW f,
           Typed(r, c, t, e, g, l, f), Cell(r, c, t, e, g, l, f, NULL), e # NULL,
           l.request = "closed", \A n \in Ordinals : l.attempt[n] # "dispatched"
    PROVE  Cell(r, c, t, NULL, g, l, f, NULL)
<1>1. ASSUME NEW u \in Who PROVE TaskOK(u, r, c, t[u], NULL, l, f, NULL)
  <2>1. TaskOK(u, r, c, t[u], e, l, f, NULL) BY DEF Cell
  <2>2. Tid(r, u) # NULL BY TidFacts DEF Typed
  <2>3. t[u].pc \notin GatePcs BY <2>1, <2>2 DEF TaskOK
  <2>4. t[u].pc \notin {"reserve", "bind", "leave", "sdone", "adone"} BY <2>3 DEF GatePcs
  <2> QED BY <2>1, <2>3, <2>4 DEF TaskOK, InPlay
<1>2. EntryOK(c, t, NULL, l, f) BY DEF Cell, EntryOK
<1>3. GuardOK(c, t, NULL, g, l)
  <2>1. GuardOK(c, t, e, g, l) BY DEF Cell
  <2>2. Quiet(t, e) => Quiet(t, NULL) BY DEF Quiet
  <2>3. \A n : Fresh(n, t, e, l) => Fresh(n, t, NULL, l) BY DEF Fresh
  <2>4. \A d : InPlay(d, c, e, l) => InPlay(d, c, NULL, l) BY DEF InPlay
  <2>5. Served(t, NULL, g) BY DEF Served
  <2> QED BY <2>1, <2>2, <2>3, <2>4, <2>5 DEF GuardOK
<1> QED BY <1>1, <1>2, <1>3 DEF Cell

LEMMA AbandonDoneStep ==
    ASSUME Inv, NEW x \in Threads, AbandonDone(x)
    PROVE  Inv'
<1>1. /\ thread[x].pc = "adone" /\ UNCHANGED <<clock, finish, ledger, guard, faults>>
      /\ thread[x].pc \in AbandonPcs /\ thread[x].pc \in GatePcs /\ Reply(x, "ok")
  BY DEF AbandonDone, At, AbandonPcs, GatePcs
<1>2. PICK r \in Requests, w \in Who, c \in Decision : Opens(x, r, w, c) BY <1>1, Opened
<1>3. PICK t, e, g, l, f, h :
         /\ t = Tasks(r) /\ e = entry[r] /\ g = guard[r] /\ l = ledger[r] /\ f = finish[r]
         /\ h = gate[r]
  OBVIOUS
<1>4. /\ Typed(r, c, t, e, g, l, f) /\ Cell(r, c, t, e, g, l, f, h) /\ t[w] = thread[x]
      /\ r = thread[x].request /\ x = Tid(r, w) /\ TaskOK(w, r, c, t[w], e, l, f, h)
      /\ EntryOK(c, t, e, l, f) /\ (w = "sweep" => thread[Sweeper].request = r)
  BY <1>2, <1>3, Zenon DEF Opens, Cell
<1>5. gate' = [gate EXCEPT ![r] = NULL] BY <1>4 DEF AbandonDone, Release
<1>6. CASE e.pending # NULL
  <2>1. UNCHANGED <<entry, fence>> BY <1>3, <1>4, <1>6, Zenon DEF AbandonDone
  <2> QED BY <1>1, <1>2, <1>5, <2>1, AbandonAnswers, Zenon
<1>7. CASE e.pending = NULL
  <2>1. Drop(r) BY <1>3, <1>4, <1>7, Zenon DEF AbandonDone
  <2>2. /\ entry' \in [Requests -> InflightRequest \cup {NULL}] /\ entry'[r] = NULL
        /\ \A q \in Requests \ {r} : entry'[q] = entry[q]
    BY <2>1, EntryUpdate DEF Drop
  <2>3. /\ gate' \in [Requests -> Threads \cup {NULL}] /\ gate'[r] = NULL
        /\ \A q \in Requests \ {r} : gate'[q] = gate[q]
    BY <1>5, GateUpdate, Zenon
  <2>4. fence' \subseteq Requests /\ FenceExact' BY <2>1, DropFence
  <2>5. Rest' /\ Elsewhere(r) BY <1>1, <2>2, <2>3, <2>4, RestNow DEF Rest, Elsewhere
  <2>6. PICK v \in CallState : /\ thread' = [thread EXCEPT ![Tid(r, w)] = v]
                               /\ Answers(r, w, thread[x], v, "ok", guard[r].phase)
    BY <1>1, <1>2, ReplyEffect DEF Replies
  <2>7. Answers(r, w, t[w], v, "ok", g.phase) BY <1>3, <1>4, <2>6, Zenon
  <2>8. TaskOK(w, r, c, v, e, l, f, NULL) BY <1>1, <1>4, <2>7, AnswerOK
  <2>9. Leaves(r, w, t[w], v, g.phase) BY <2>7 DEF Leaves
  <2>10. h = Tid(r, w) /\ e # NULL /\ l.request = "closed"
         /\ (e.active # NULL => l.attempt[e.active] # "dispatched")
    BY <1>1, <1>4 DEF TaskOK
  <2>11. PICK t2 : t2 = [t EXCEPT ![w] = v] OBVIOUS
  <2>12. Cell(r, c, t2, e, g, l, f, NULL) /\ Typed(r, c, t2, e, g, l, f)
    BY <1>1, <1>4, <2>8, <2>9, <2>10, <2>11, AbandonTask DEF Typed
  <2>13. \A n \in Ordinals : l.attempt[n] # "dispatched"
    <3>1. t["main"].pc # "bind"
      <4>1. CASE w = "main" BY <1>1, <1>4, <4>1
      <4>2. CASE w # "main"
        <5>1. t["main"].pc \notin GatePcs BY <1>4, <2>10, <4>2, OneHolder, WhoFacts
        <5> QED BY <5>1 DEF GatePcs
      <4> QED BY <4>1, <4>2
    <3> QED BY <1>4, <2>10, <3>1, OrdinalFacts DEF EntryOK
  <2>14. Cell(r, c, t2, NULL, g, l, f, NULL) BY <2>10, <2>12, <2>13, DropCell
  <2>15. Cell(r, c, [Tasks(r) EXCEPT ![w] = v], entry'[r], guard'[r], ledger'[r], finish'[r], gate'[r])
    BY <1>1, <1>3, <2>2, <2>3, <2>11, <2>14
  <2>16. v = Idle \/ (v.pc # "idle" /\ v.request = r) BY <2>6 DEF Answers
  <2> QED BY <1>4, <2>4, <2>5, <2>6, <2>15, <2>16, CellStep, Zenon
<1> QED BY <1>6, <1>7

(* The write of an abandonment recovers the active attempt. *)
LEMMA RecoverCell ==
    ASSUME NEW r, NEW c, NEW t, NEW e, NEW g, NEW l, NEW f, NEW h,
           Typed(r, c, t, e, g, l, f), Cell(r, c, t, e, g, l, f, h),
           NEW w \in Who, t[w].pc = "awrite", e.active # NULL,
           NEW l2 \in LedgerState, Settles(l, e.active, "recovered", TRUE, l2)
    PROVE  /\ Cell(r, c, t, e, g, l2, f, h)
           /\ l2.request = "closed" /\ l2.attempt[e.active] # "dispatched"
<1>1. /\ EntryOK(c, t, e, l, f) /\ GuardOK(c, t, e, g, l)
      /\ \A u \in Who : TaskOK(u, r, c, t[u], e, l, f, h)
  BY DEF Cell
<1>2. e # NULL /\ h = Tid(r, w)
  <2>1. TaskOK(w, r, c, t[w], e, l, f, h) BY <1>1
  <2> QED BY <2>1 DEF TaskOK, GatePcs
<1>3. \A u \in Who : t[u].pc \notin {"sdone", "bind", "adone", "leave", "reserve"}
  <2>1. \A u \in Who \ {w} : t[u].pc \notin GatePcs BY <1>2, OneHolder DEF Typed
  <2> QED BY <2>1 DEF GatePcs
<1>4. PICK n \in Ordinals : n = e.active /\ n = e.total - 1 /\ l.attempt[n] # "none"
  BY <1>1, <1>2 DEF Typed, InflightRequest, EntryOK
<1>5. l.attempt[n] = "dispatched" \/ l.request = "closed"
  BY <1>1, <1>2, <1>3, <1>4 DEF EntryOK
<1>6. /\ l2.request = "closed" /\ l2.attempt[n] # "dispatched"
      /\ l2.attempt[n] = l.attempt[n] \/ (l.attempt[n] = "dispatched" /\ l2.attempt[n] = "recovered")
      /\ \A k \in Ordinals \ {n} : l2.attempt[k] = l.attempt[k]
  BY <1>4, <1>5 DEF Settles
<1>7. \A k \in Ordinals : /\ l.attempt[k] # "none" => l2.attempt[k] # "none"
                          /\ l2.attempt[k] \in {l.attempt[k], "recovered"}
                          /\ l2.attempt[k] = "dispatched" => l.attempt[k] = "dispatched"
                          /\ l.attempt[k] = "exact" => l2.attempt[k] = "exact"
                          /\ l.attempt[k] \in {"dispatched", "recovered"} =>
                                 l2.attempt[k] \in {"dispatched", "recovered"}
  BY <1>6
<1>8. c.attempt \in Ordinals BY DEF Typed, Decision
<1>9. StaysInPlay(c, e, l, e, l2) BY <1>7, <1>8 DEF StaysInPlay, InPlay
<1>10. ASSUME NEW u \in Who PROVE TaskOK(u, r, c, t[u], e, l2, f, h)
  <2>1. TaskOK(u, r, c, t[u], e, l, f, h) BY <1>1
  <2>2. t[u].pc = "clear" => t[u].data.attempt \in Ordinals
    BY <2>1 DEF TaskOK, Typed, CallState, Settlement
  <2> QED BY <1>3, <1>7, <1>9, <2>1, <2>2 DEF TaskOK, StaysInPlay
<1>11. EntryOK(c, t, e, l2, f)
  BY <1>1, <1>2, <1>4, <1>6, <1>7, <1>8, <1>9 DEF EntryOK, StaysInPlay
<1>12. GuardOK(c, t, e, g, l2)
  <2>1. g.phase # "absent" BY <1>1, <1>2 DEF GuardOK
  <2>2. \A k : Fresh(k, t, e, l) => Fresh(k, t, e, l2) BY <1>7 DEF Fresh
  <2> QED BY <1>1, <1>9, <2>1, <2>2 DEF GuardOK, StaysInPlay
<1> QED BY <1>4, <1>6, <1>10, <1>11, <1>12 DEF Cell

(* The rows after the write of an abandonment, and the fault it met. *)
LEMMA AbandonLedger ==
    ASSUME Inv, NEW x \in Threads, NEW fault \in Outcomes, AbandonWrite(x, fault),
           NEW r \in Requests, NEW w \in Who, NEW c \in Decision, Opens(x, r, w, c)
    PROVE  /\ ledger' \in [Requests -> LedgerState]
           /\ finish' \in [Requests -> AllFaults \cup {NULL}] /\ faults' \in Nat
           /\ \A q \in Requests \ {r} : ledger'[q] = ledger[q] /\ finish'[q] = finish[q]
           /\ Cell(r, c, Tasks(r), entry[r], guard[r], ledger'[r], finish'[r], gate[r])
           /\ Typed(r, c, Tasks(r), entry[r], guard[r], ledger'[r], finish'[r])
           /\ fault = NULL => /\ ledger'[r].request = "closed"
                              /\ entry[r].active # NULL => ledger'[r].attempt[entry[r].active] # "dispatched"
<1>1. thread[x].pc = "awrite" BY DEF AbandonWrite, At
<1>2. PICK t, e, g, l, f, h :
         /\ t = Tasks(r) /\ e = entry[r] /\ g = guard[r] /\ l = ledger[r] /\ f = finish[r]
         /\ h = gate[r]
  OBVIOUS
<1>3. /\ Typed(r, c, t, e, g, l, f) /\ Cell(r, c, t, e, g, l, f, h) /\ t[w] = thread[x]
      /\ r = thread[x].request /\ TaskOK(w, r, c, t[w], e, l, f, h)
  BY <1>2, Zenon DEF Opens
<1>4. e # NULL BY <1>1, <1>3 DEF TaskOK, GatePcs
<1>5. CASE e.active = NULL
  <2>1. FinishRequest(r, fault) BY <1>2, <1>3, <1>5 DEF AbandonWrite
  <2>2. /\ ledger' \in [Requests -> LedgerState] /\ finish' \in [Requests -> AllFaults \cup {NULL}]
        /\ faults' \in Nat /\ Finishes(l, f, ledger'[r], finish'[r]) /\ finish'[r] = fault
        /\ \A q \in Requests \ {r} : ledger'[q] = ledger[q] /\ finish'[q] = finish[q]
    BY <1>2, <2>1, FinishEffect
  <2>3. PICK l2, f2 : l2 = ledger'[r] /\ f2 = finish'[r] OBVIOUS
  <2>4. Cell(r, c, t, e, g, l2, f2, h) BY <1>3, <1>4, <2>2, <2>3, FinishCell
  <2>5. Typed(r, c, t, e, g, l2, f2) BY <1>3, <2>2, <2>3 DEF Typed
  <2>6. fault = NULL => l2.request = "closed"
    BY <1>3, <2>2, <2>3 DEF Finishes, Typed, LedgerState
  <2> QED BY <1>2, <1>5, <2>2, <2>3, <2>4, <2>5, <2>6
<1>6. CASE e.active # NULL
  <2>1. /\ MayFail(fault) /\ finish' = finish
        /\ IF fault = NULL THEN FinishAttempt(r, e.active, "recovered", TRUE) ELSE ledger' = ledger
    BY <1>2, <1>3, <1>6 DEF AbandonWrite
  <2>2. faults' \in Nat BY <2>1, FaultEffect
  <2>3. CASE fault # NULL BY <1>2, <1>3, <2>1, <2>2, <2>3, RestNow DEF Rest
  <2>4. CASE fault = NULL
    <3>1. e.active \in Ordinals BY <1>3, <1>4, <1>6 DEF Typed, InflightRequest
    <3>2. FinishAttempt(r, e.active, "recovered", TRUE) BY <2>1, <2>4
    <3>3. /\ ledger' \in [Requests -> LedgerState] /\ ledger'[r] \in LedgerState
          /\ \A q \in Requests \ {r} : ledger'[q] = ledger[q]
          /\ Settles(ledger[r], e.active, "recovered", TRUE, ledger'[r])
      BY <3>1, <3>2, AttemptEffect
    <3>4. PICK l2 \in LedgerState : l2 = ledger'[r] BY <3>3
    <3>5. Settles(l, e.active, "recovered", TRUE, l2) BY <1>2, <3>3, <3>4
    <3>6. /\ Cell(r, c, t, e, g, l2, f, h)
          /\ l2.request = "closed" /\ l2.attempt[e.active] # "dispatched"
      <4>1. t[w].pc = "awrite" /\ Typed(r, c, t, e, g, l, f) /\ Cell(r, c, t, e, g, l, f, h)
        BY <1>1, <1>3
      <4> QED BY <1>6, <3>5, <4>1, RecoverCell
    <3>7. Typed(r, c, t, e, g, l2, f) BY <1>3 DEF Typed
    <3>8. finish'[r] = f /\ finish' \in [Requests -> AllFaults \cup {NULL}]
      BY <1>2, <2>1, RestNow DEF Rest
    <3> QED BY <1>2, <2>1, <2>2, <3>3, <3>4, <3>6, <3>7, <3>8
  <2> QED BY <2>3, <2>4
<1> QED BY <1>5, <1>6

LEMMA AbandonWriteStep ==
    ASSUME Inv, NEW x \in Threads, NEW fault \in Outcomes, AbandonWrite(x, fault)
    PROVE  Inv'
<1>1. /\ thread[x].pc = "awrite" /\ UNCHANGED <<clock, guard>>
      /\ thread[x].pc \in AbandonPcs /\ thread[x].pc \in GatePcs
  BY DEF AbandonWrite, At, AbandonPcs, GatePcs
<1>2. PICK r \in Requests, w \in Who, c \in Decision : Opens(x, r, w, c) BY <1>1, Opened
<1>3. PICK t, e, g, l, f, h :
         /\ t = Tasks(r) /\ e = entry[r] /\ g = guard[r] /\ l = ledger'[r] /\ f = finish'[r]
         /\ h = gate[r]
  OBVIOUS
<1>4. /\ ledger' \in [Requests -> LedgerState]
      /\ finish' \in [Requests -> AllFaults \cup {NULL}] /\ faults' \in Nat
      /\ \A q \in Requests \ {r} : ledger'[q] = ledger[q] /\ finish'[q] = finish[q]
      /\ Cell(r, c, t, e, g, l, f, h) /\ Typed(r, c, t, e, g, l, f)
      /\ fault = NULL => /\ l.request = "closed"
                         /\ e.active # NULL => l.attempt[e.active] # "dispatched"
  BY <1>2, <1>3, AbandonLedger
<1>5. /\ t[w] = thread[x] /\ r = thread[x].request /\ x = Tid(r, w)
      /\ (w = "sweep" => thread[Sweeper].request = r)
      /\ TaskOK(w, r, c, t[w], e, l, f, h)
  BY <1>2, <1>3, <1>4, Zenon DEF Opens, Cell
<1>6. e # NULL /\ h = Tid(r, w) /\ t[w].data = NULL /\ (t[w].slot # NULL => w = "main")
  BY <1>1, <1>5 DEF TaskOK
<1>7. CASE fault = NULL
  <2>1. Goto(x, "adone") /\ UNCHANGED <<entry, fence, gate>> BY <1>7 DEF AbandonWrite
  <2>2. PICK v \in CallState :
           thread' = [thread EXCEPT ![Tid(r, w)] = v] /\ Moves(r, w, thread[x], v, "adone")
    BY <1>2, <2>1, GotoEffect DEF Pcs, AbandonPcs
  <2>3. v.pc = "adone" /\ v.data = t[w].data /\ v.slot = t[w].slot /\ v.request = r
    BY <1>5, <2>2 DEF Moves
  <2>4. "adone" \in PcsOf(w) BY DEF PcsOf, AbandonPcs
  <2>5. TaskOK(w, r, c, v, e, l, f, h)
    BY <1>4, <1>6, <1>7, <2>3, <2>4
    DEF TaskOK, GatePcs, SettlePcs, QuotePcs, StartPcs, AbandonPcs
  <2>6. Leaves(r, w, t[w], v, g.phase) BY <1>5, <2>2 DEF Leaves, AbandonPcs
  <2>7. Cell(r, c, [t EXCEPT ![w] = v], e, g, l, f, h)
    BY <1>1, <1>4, <1>5, <2>5, <2>6, AbandonTask
  <2>8. Rest' /\ Elsewhere(r) /\ FenceExact'
    BY <1>1, <1>4, <2>1, RestNow DEF Rest, Elsewhere, Inv, FenceExact, Live
  <2>9. Cell(r, c, [Tasks(r) EXCEPT ![w] = v], entry'[r], guard'[r], ledger'[r], finish'[r], gate'[r])
    BY <1>1, <1>3, <2>1, <2>7
  <2> QED BY <1>5, <2>2, <2>3, <2>8, <2>9, CellStep, Zenon
<1>8. CASE fault # NULL
  <2>1. e \in InflightRequest BY <1>4, <1>6 DEF Typed
  <2>2. PICK e2 \in InflightRequest :
           /\ e2 = [e EXCEPT !.abandonFailed = TRUE, !.refused = (fault = "refused")]
           /\ e2.total = e.total /\ e2.active = e.active /\ e2.pending = e.pending /\ e2 # NULL
    <3>1. PICK e2 : e2 = [e EXCEPT !.abandonFailed = TRUE, !.refused = (fault = "refused")]
      OBVIOUS
    <3>2. e2 \in InflightRequest /\ e2.total = e.total /\ e2.active = e.active /\ e2.pending = e.pending
      BY <2>1, <3>1, Zenon DEF InflightRequest
    <3> QED BY <3>1, <3>2, AccountingAssumption
  <2>3. Sync(r, e2) /\ gate' = [gate EXCEPT ![r] = NULL] /\ Reply(x, "error")
    BY <1>3, <1>5, <1>8, <2>2, Zenon DEF AbandonWrite, Release
  <2>4. /\ entry' \in [Requests -> InflightRequest \cup {NULL}] /\ entry'[r] = e2
        /\ \A q \in Requests \ {r} : entry'[q] = entry[q]
    BY <2>3, EntryUpdate DEF Sync
  <2>5. fence' \subseteq Requests /\ FenceExact' BY <2>3, SyncFence
  <2>6. /\ gate' \in [Requests -> Threads \cup {NULL}] /\ gate'[r] = NULL
        /\ \A q \in Requests \ {r} : gate'[q] = gate[q]
    BY <2>3, GateUpdate
  <2>7. Rest' /\ Elsewhere(r)
    BY <1>1, <1>4, <2>4, <2>5, <2>6, RestNow DEF Rest, Elsewhere
  <2>8. PICK v \in CallState : /\ thread' = [thread EXCEPT ![Tid(r, w)] = v]
                               /\ Answers(r, w, thread[x], v, "error", guard[r].phase)
    BY <1>2, <2>3, ReplyEffect DEF Replies
  <2>9. Answers(r, w, t[w], v, "error", g.phase) BY <1>3, <1>5, <2>8, Zenon
  <2>10. Cell(r, c, t, e2, g, l, f, h) /\ Typed(r, c, t, e2, g, l, f)
    BY <1>4, <1>6, <2>2, EntrySame DEF Typed
  <2>11. TaskOK(w, r, c, t[w], e2, l, f, h) BY <2>10 DEF Cell
  <2>12. TaskOK(w, r, c, v, e2, l, f, NULL) BY <1>1, <1>5, <2>9, <2>11, AnswerOK
  <2>13. Leaves(r, w, t[w], v, g.phase) BY <2>9 DEF Leaves
  <2>14. Cell(r, c, [t EXCEPT ![w] = v], e2, g, l, f, NULL)
    BY <1>1, <1>5, <1>6, <2>10, <2>12, <2>13, AbandonTask
  <2>15. Cell(r, c, [Tasks(r) EXCEPT ![w] = v], entry'[r], guard'[r], ledger'[r], finish'[r], gate'[r])
    BY <1>1, <1>3, <2>4, <2>6, <2>14
  <2>16. v = Idle \/ (v.pc # "idle" /\ v.request = r) BY <2>8 DEF Answers
  <2> QED BY <1>5, <2>5, <2>7, <2>8, <2>15, <2>16, CellStep, Zenon
<1> QED BY <1>7, <1>8

-----------------------------------------------------------------------------
(* Steps of the sweep that begin a call, or write what a request retained. *)
LEMMA NewCallFacts ==
    ASSUME NEW r \in Requests, NEW pc \in Pcs \ {"idle"}, NEW d \in Settlement \cup {NULL},
           NEW n \in Int
    PROVE  \E v \in CallState :
               /\ v = NewCall(r, pc, d, n) /\ v.pc = pc /\ v.request = r /\ v.data = d
               /\ v.slot = NULL /\ v.tries = n
<1>1. NewCall(r, pc, d, n) \in CallState BY DEF NewCall, CallState
<1> QED BY <1>1 DEF NewCall

LEMMA SweepIdle ==
    ASSUME Inv, NEW r \in Requests, At(Sweeper, "idle")
    PROVE  /\ thread[Sweeper] = Idle /\ Tasks(r)["sweep"] = Idle /\ Tid(r, "sweep") = Sweeper
           /\ Sweeper \in Threads
<1>1. Sweeper \in Threads /\ Tid(r, "sweep") = Sweeper BY DEF Threads, Tid
<1>2. thread[Sweeper] = Idle BY <1>1 DEF Inv, CallersOK, At
<1> QED BY <1>1, <1>2, TaskTypes, WhoFacts DEF Task

LEMMA SweepStarts ==
    ASSUME Inv, NEW r \in Requests, At(Sweeper, "idle"),
           NEW pc \in {"swrite", "abandon"}, NEW d, SweepCall(r, pc, d),
           entry[r] # NULL,
           \/ pc = "swrite" /\ d = entry[r].pending /\ d # NULL /\ Acquire(Sweeper, r)
           \/ pc = "abandon" /\ d = NULL /\ gate' = gate,
           UNCHANGED <<clock, entry, fence, finish, ledger, guard, faults>>
    PROVE  Inv'
<1>1. PICK c \in Decision : CellOK(r, c) BY DEF Inv
<1>2. PICK t, e, g, l, f, h, h2 :
         /\ t = Tasks(r) /\ e = entry[r] /\ g = guard[r] /\ l = ledger[r] /\ f = finish[r]
         /\ h = gate[r] /\ h2 = gate'[r]
  OBVIOUS
<1>3. Typed(r, c, t, e, g, l, f) /\ Cell(r, c, t, e, g, l, f, h) /\ e # NULL
  BY <1>1, <1>2, CellTyped DEF CellOK
<1>4. thread[Sweeper] = Idle /\ t["sweep"] = Idle /\ Tid(r, "sweep") = Sweeper /\ Sweeper \in Threads
  BY <1>2, SweepIdle
<1>5. e \in InflightRequest /\ d \in Settlement \cup {NULL} BY <1>2, <1>3 DEF Typed, InflightRequest
<1>6. PICK v \in CallState : /\ v = NewCall(r, pc, d, 0) /\ v.pc = pc /\ v.request = r
                             /\ v.data = d /\ v.slot = NULL
  BY <1>5, NewCallFacts DEF Pcs, SettlePcs, AbandonPcs
<1>7. thread' = [thread EXCEPT ![Tid(r, "sweep")] = v] BY <1>4, <1>6 DEF SweepCall
<1>8. /\ gate' \in [Requests -> Threads \cup {NULL}]
      /\ \A q \in Requests \ {r} : gate'[q] = gate[q]
      /\ h2 = h \/ h = NULL
      /\ pc = "swrite" => h2 = Sweeper
  <2>1. CASE gate' = gate /\ pc = "abandon" BY <1>2, <2>1, RestNow DEF Rest
  <2>2. CASE pc = "swrite" /\ Acquire(Sweeper, r)
    <3>1. gate[r] = NULL /\ gate' = [gate EXCEPT ![r] = Sweeper] BY <2>2 DEF Acquire
    <3> QED BY <1>2, <1>4, <3>1, GateUpdate
  <2> QED BY <2>1, <2>2
<1>9. Rest' /\ Elsewhere(r) /\ FenceExact'
  BY <1>8, RestNow DEF Rest, Elsewhere, Inv, FenceExact, Live
<1>10. /\ EntryOK(c, t, e, l, f) /\ GuardOK(c, t, e, g, l) BY <1>3 DEF Cell
<1>11. g.phase # "absent" BY <1>3, <1>10 DEF GuardOK
<1>12. TaskOK("sweep", r, c, v, e, l, f, h2)
  <2>1. CASE pc = "abandon"
    BY <1>6, <2>1 DEF TaskOK, PcsOf, GatePcs, SettlePcs, QuotePcs, StartPcs, AbandonPcs
  <2>2. CASE pc = "swrite"
    <3>1. InPlay(v.data, c, e, l) /\ v.data # NULL BY <1>2, <1>3, <1>6, <1>10, <2>2 DEF EntryOK
    <3> QED BY <1>3, <1>4, <1>6, <1>8, <2>2, <3>1
      DEF TaskOK, PcsOf, GatePcs, SettlePcs, QuotePcs, StartPcs, AbandonPcs
  <2> QED BY <2>1, <2>2
<1>13. /\ v.data # NULL => ~Quiet(t, e)
       /\ v.pc = "swrite" => e.pending = v.data
  BY <1>2, <1>3, <1>6 DEF Quiet
<1>14. Cell(r, c, [t EXCEPT !["sweep"] = v], e, g, l, f, h2)
  BY <1>3, <1>4, <1>6, <1>8, <1>11, <1>12, <1>13, OtherTask, IdleFacts
<1>15. Cell(r, c, [Tasks(r) EXCEPT !["sweep"] = v], entry'[r], guard'[r], ledger'[r], finish'[r], gate'[r])
  BY <1>2, <1>14
<1>16. v.pc # "idle" BY <1>6
<1> QED BY <1>4, <1>6, <1>7, <1>9, <1>15, <1>16, CellStep, WhoFacts

LEMMA SweepRetryStep ==
    ASSUME Inv, NEW r \in Requests, NEW fault \in Outcomes, SweepRetry(r, fault)
    PROVE  Inv'
<1>1. PICK c \in Decision : CellOK(r, c) BY DEF Inv
<1>2. PICK t, e, g, l, f, h, l2, f2 :
         /\ t = Tasks(r) /\ e = entry[r] /\ g = guard[r] /\ l = ledger[r] /\ f = finish[r]
         /\ h = gate[r] /\ l2 = ledger'[r] /\ f2 = finish'[r]
  OBVIOUS
<1>3. Typed(r, c, t, e, g, l, f) /\ Cell(r, c, t, e, g, l, f, h) /\ f # NULL
  BY <1>1, <1>2, CellTyped DEF CellOK, SweepRetry
<1>4. /\ ledger' \in [Requests -> LedgerState] /\ finish' \in [Requests -> AllFaults \cup {NULL}]
      /\ faults' \in Nat /\ Finishes(l, f, l2, f2)
      /\ \A q \in Requests \ {r} : ledger'[q] = ledger[q] /\ finish'[q] = finish[q]
  BY <1>2, FinishEffect DEF SweepRetry
<1>5. UNCHANGED <<clock, entry, fence, gate, guard, thread>> BY DEF SweepRetry
<1>6. Cell(r, c, t, e, g, l2, f2, h) BY <1>3, <1>4, FinishCell
<1>7. \A q \in Requests : Tasks(q)' = Tasks(q) BY <1>5 DEF Tasks, Task
<1>8. CellOK(r, c)' BY <1>2, <1>5, <1>6, <1>7 DEF CellOK
<1>9. TypeOK' /\ CallersOK' /\ FenceExact'
  BY <1>4, <1>5 DEF Inv, TypeOK, CallersOK, FenceExact, Live
<1>10. Local(r) BY <1>4, <1>5, <1>7 DEF Local
<1> QED BY <1>8, <1>9, <1>10, StepAt

LEMMA ExpireStep ==
    ASSUME Inv, NEW r \in Requests, Expire(r)
    PROVE  Inv'
<1>1. UNCHANGED <<entry, fence, finish, gate, ledger, guard, thread, faults>> BY DEF Expire
<1>2. clock' \in [Requests -> 0..2] BY DEF Inv, TypeOK, Expire
<1>3. TypeOK' /\ CallersOK' /\ FenceExact'
  BY <1>1, <1>2 DEF Inv, TypeOK, CallersOK, FenceExact, Live
<1>4. \A q \in Requests : Tasks(q)' = Tasks(q) BY <1>1 DEF Tasks, Task
<1>5. \A q \in Requests, c \in Decision : CellOK(q, c) => CellOK(q, c)'
  BY <1>1, <1>4 DEF CellOK
<1> QED BY <1>3, <1>5 DEF Inv

-----------------------------------------------------------------------------
(* Steps of the handler and of its guard. *)
LEMMA GuardMoves ==
    ASSUME Inv, NEW r \in Requests, NEW c \in Decision, NEW v \in CallState,
           v = Idle \/ (v.pc # "idle" /\ v.request = r),
           thread' = [thread EXCEPT ![<<r, "main">>] = v],
           NEW g2 \in GuardState, guard' = [guard EXCEPT ![r] = g2],
           UNCHANGED <<clock, entry, fence, finish, gate, ledger, faults>>,
           Cell(r, c, [Tasks(r) EXCEPT !["main"] = v], entry[r], g2, ledger[r], finish[r], gate[r])
    PROVE  Inv'
<1>1. /\ guard' \in [Requests -> GuardState] /\ guard'[r] = g2
      /\ \A q \in Requests \ {r} : guard'[q] = guard[q]
  BY RestNow DEF Rest
<1>2. Rest' /\ Elsewhere(r) /\ FenceExact'
  BY <1>1, RestNow DEF Rest, Elsewhere, Inv, FenceExact, Live
<1>3. Tid(r, "main") = <<r, "main">> BY DEF Tid
<1>4. Cell(r, c, [Tasks(r) EXCEPT !["main"] = v], entry'[r], guard'[r], ledger'[r], finish'[r], gate'[r])
  BY <1>1
<1> QED BY <1>2, <1>3, <1>4, CellStep, WhoFacts

LEMMA CellFacts ==
    ASSUME Inv, NEW r \in Requests
    PROVE  /\ \E c \in Decision :
                /\ Cell(r, c, Tasks(r), entry[r], guard[r], ledger[r], finish[r], gate[r])
                /\ Typed(r, c, Tasks(r), entry[r], guard[r], ledger[r], finish[r])
           /\ guard[r] \in GuardState
           /\ \A w \in {"main", "back"} :
                Tasks(r)[w] = thread[<<r, w>>] /\ Tid(r, w) = <<r, w>>
<1>1. guard[r] \in GuardState BY DEF Inv, TypeOK
<1>2. ASSUME NEW w \in {"main", "back"}
      PROVE  Tasks(r)[w] = thread[<<r, w>>] /\ Tid(r, w) = <<r, w>>
  <2>1. Tid(r, w) = <<r, w>> BY DEF Tid
  <2>2. w \in Who /\ w # "sweep" /\ <<r, w>> \in Threads /\ <<r, w>> # Sweeper
    BY <2>1, TidFacts DEF Who
  <2>3. <<r, w>>[1] = r OBVIOUS
  <2>4. thread[<<r, w>>].request = r \/ thread[<<r, w>>] = Idle
    BY <2>2, <2>3 DEF Inv, CallersOK
  <2> QED BY <2>1, <2>2, <2>4, TaskTypes DEF Task
<1> QED BY <1>1, <1>2, CellTyped DEF Inv, CellOK

(* A new call of the handler, with nothing pending of the old one. *)
LEMMA CallStartStep ==
    ASSUME Inv, NEW r \in Requests, CallStart(r)
    PROVE  Inv'
<1>1. PICK t, e, g, l, f, h :
         /\ t = Tasks(r) /\ e = entry[r] /\ g = guard[r] /\ l = ledger[r] /\ f = finish[r]
         /\ h = gate[r]
  OBVIOUS
<1>2. PICK c \in Decision : Cell(r, c, t, e, g, l, f, h) /\ Typed(r, c, t, e, g, l, f)
  BY <1>1, CellFacts
<1>3. g \in GuardState /\ g.phase = "ready" BY <1>1, CellFacts DEF CallStart
<1>4. PICK g2 \in GuardState :
         /\ g2 = [g EXCEPT !.phase = "starting"]
         /\ g2.phase = "starting" /\ g2.attempt = g.attempt /\ g2.decided = g.decided
  <2>1. PICK g2 : g2 = [g EXCEPT !.phase = "starting"] OBVIOUS
  <2>2. g2 \in GuardState /\ g2.phase = "starting" /\ g2.attempt = g.attempt /\ g2.decided = g.decided
    BY <1>3, <2>1 DEF GuardState, Phases
  <2> QED BY <2>1, <2>2
<1>5. PICK v \in CallState : /\ v = NewCall(r, "start", NULL, 0) /\ v.pc = "start" /\ v.request = r
                             /\ v.data = NULL /\ v.slot = NULL
  <2>1. "start" \in Pcs \ {"idle"} /\ NULL \in Settlement \cup {NULL} /\ 0 \in Int BY DEF Pcs, StartPcs
  <2> QED BY <2>1, NewCallFacts
<1>6. /\ thread' = [thread EXCEPT ![<<r, "main">>] = v] /\ guard' = [guard EXCEPT ![r] = g2]
      /\ UNCHANGED <<clock, entry, fence, finish, gate, ledger, faults>>
  BY <1>1, <1>4, <1>5 DEF CallStart, Call
<1>7. GuardOK(c, t, e, g, l) /\ t["main"].pc = "idle" BY <1>2, <1>3 DEF Cell, GuardOK
<1>8. TaskOK("main", r, c, v, e, l, f, h)
  BY <1>5 DEF TaskOK, PcsOf, GatePcs, SettlePcs, QuotePcs, StartPcs, AbandonPcs
<1>9. PICK t2 : t2 = [t EXCEPT !["main"] = v] OBVIOUS
<1>10. t2["main"] = v /\ t2["back"] = t["back"] /\ t2["sweep"] = t["sweep"]
  BY <1>2, <1>9, WhoFacts DEF Typed
<1>11. GuardOK(c, t2, e, g2, l)
  <2>1. Quiet(t, e) /\ (e # NULL => e.active = NULL) BY <1>3, <1>7 DEF GuardOK
  <2>2. Quiet(t2, e) BY <1>5, <1>10, <2>1 DEF Quiet, Who
  <2>3. t2["back"].pc = "idle" /\ g2.decided = NULL /\ g2.attempt = NULL
    BY <1>3, <1>4, <1>7, <1>10 DEF GuardOK, Decided
  <2>4. Served(t2, e, g2) BY <1>4 DEF Served
  <2> QED BY <1>4, <1>5, <1>10, <2>1, <2>2, <2>3, <2>4 DEF GuardOK, Decided, StartPcs
<1>12. Cell(r, c, t2, e, g2, l, f, h) BY <1>2, <1>7, <1>8, <1>9, <1>11, MainTask
<1>13. Cell(r, c, [Tasks(r) EXCEPT !["main"] = v], entry[r], g2, ledger[r], finish[r], gate[r])
  BY <1>1, <1>9, <1>12
<1>14. v.pc # "idle" /\ v.request = r BY <1>5
<1> QED BY <1>6, <1>13, <1>14, GuardMoves

LEMMA StartedStep ==
    ASSUME Inv, NEW r \in Requests, Started(r)
    PROVE  Inv'
<1>1. PICK t, e, g, l, f, h :
         /\ t = Tasks(r) /\ e = entry[r] /\ g = guard[r] /\ l = ledger[r] /\ f = finish[r]
         /\ h = gate[r]
  OBVIOUS
<1>2. PICK c \in Decision : Cell(r, c, t, e, g, l, f, h) /\ Typed(r, c, t, e, g, l, f)
  BY <1>1, CellFacts
<1>3. /\ g \in GuardState /\ g.phase = "starting" /\ t["main"] = thread[<<r, "main">>]
      /\ t["main"].pc = "replied" /\ t["main"] \in CallState
  BY <1>1, <1>2, CellFacts, WhoFacts DEF Started, Replied, At, Typed
<1>4. PICK g2 \in GuardState :
         /\ guard' = [guard EXCEPT ![r] = g2] /\ g2.decided = NULL
         /\ \/ g2.phase = "serving" /\ g2.attempt = t["main"].slot /\ t["main"].reply = "started"
            \/ g2.phase = "done" /\ g2.attempt = NULL
  <2>1. PICK g2 : g2 = IF Result(r, "main") = "started"
                       THEN [phase |-> "serving", attempt |-> t["main"].slot, decided |-> NULL]
                       ELSE [phase |-> "done", attempt |-> NULL, decided |-> NULL]
    OBVIOUS
  <2>2. guard' = [guard EXCEPT ![r] = g2] BY <1>3, <2>1 DEF Started
  <2>3. t["main"].slot \in Ordinals \cup {NULL} BY <1>3 DEF CallState
  <2>4. /\ g2 \in GuardState /\ g2.decided = NULL
        /\ \/ g2.phase = "serving" /\ g2.attempt = t["main"].slot /\ t["main"].reply = "started"
           \/ g2.phase = "done" /\ g2.attempt = NULL
    BY <1>3, <2>1, <2>3 DEF GuardState, Phases, Result
  <2> QED BY <2>2, <2>4
<1>5. /\ thread' = [thread EXCEPT ![<<r, "main">>] = Idle]
      /\ UNCHANGED <<clock, entry, fence, finish, gate, ledger, faults>>
  BY DEF Started
<1>6. GuardOK(c, t, e, g, l) BY <1>2 DEF Cell
<1>7. TaskOK("main", r, c, Idle, e, l, f, h) BY IdleOK, WhoFacts
<1>8. PICK t2 : t2 = [t EXCEPT !["main"] = Idle] OBVIOUS
<1>9. t2["main"] = Idle /\ t2["back"] = t["back"] /\ t2["sweep"] = t["sweep"]
  BY <1>2, <1>8, WhoFacts DEF Typed
<1>10. GuardOK(c, t2, e, g2, l)
  <2>1. Starting(t, g) BY <1>3 DEF Starting
  <2>2. Quiet(t, e) /\ (t["main"].slot # NULL => Fresh(t["main"].slot, t, e, l))
        /\ (t["main"].reply = "started" => t["main"].slot # NULL)
    BY <1>3, <1>6, <2>1 DEF GuardOK
  <2>3. Quiet(t2, e) BY <1>9, <2>2, IdleFacts DEF Quiet, Who
  <2>4. \A n : Fresh(n, t, e, l) => Fresh(n, t2, e, l) BY <1>9 DEF Fresh
  <2>5. ~Starting(t2, g2) BY <1>9, IdleFacts DEF Starting, StartPcs, AbandonPcs
  <2>6. t2["back"].pc = "idle" BY <1>3, <1>6, <1>9 DEF GuardOK
  <2>7. Served(t2, e, g2) BY <1>4 DEF Served
  <2> QED BY <1>4, <1>9, <2>2, <2>3, <2>4, <2>5, <2>6, <2>7, IdleFacts DEF GuardOK, Decided
<1>11. Cell(r, c, t2, e, g2, l, f, h) BY <1>2, <1>3, <1>7, <1>8, <1>10, MainTask, IdleFacts
<1>12. Cell(r, c, [Tasks(r) EXCEPT !["main"] = Idle], entry[r], g2, ledger[r], finish[r], gate[r])
  BY <1>1, <1>8, <1>11
<1> QED BY <1>4, <1>5, <1>12, GuardMoves, IdleFacts

(* A decided outcome is sent: once more, or after its quote. *)
LEMMA CopiedFacts ==
    ASSUME NEW d \in Settlement, NEW who \in Callers, NEW n \in Int
    PROVE  Copied(d, who, n) \in Settlement /\ Agree(Copied(d, who, n), d)
<1>1. PICK s : s = [d EXCEPT !.copy = <<who, n>>] OBVIOUS
<1>2. s \in Settlement /\ s.attempt = d.attempt /\ s.kind = d.kind /\ s.finalize = d.finalize
  BY <1>1 DEF Settlement
<1> QED BY <1>1, <1>2 DEF Copied, Agree

LEMMA SendCell ==
    ASSUME NEW r, NEW c, NEW t, NEW e, NEW g, NEW l, NEW f, NEW h,
           Typed(r, c, t, e, g, l, f), Cell(r, c, t, e, g, l, f, h),
           g.decided # NULL, t["main"].pc \in {"idle", "replied"},
           NEW g2, g2.phase = "delivering", g2.decided = g.decided, g2.attempt = g.attempt,
           NEW v \in CallState, v.pc = "settle", v.slot = NULL, v.data # NULL,
           Agree(v.data, g.decided)
    PROVE  Cell(r, c, [t EXCEPT !["main"] = v], e, g2, l, f, h)
<1>1. GuardOK(c, t, e, g, l) BY DEF Cell
<1>2. InPlay(g.decided, c, e, l) BY <1>1 DEF GuardOK
<1>3. InPlay(v.data, c, e, l) BY <1>2 DEF InPlay, Agree
<1>4. TaskOK("main", r, c, v, e, l, f, h)
  BY <1>3 DEF TaskOK, PcsOf, GatePcs, SettlePcs, QuotePcs, StartPcs, AbandonPcs
<1>5. PICK t2 : t2 = [t EXCEPT !["main"] = v] OBVIOUS
<1>6. t2["main"] = v /\ t2["back"] = t["back"] /\ t2["sweep"] = t["sweep"]
  BY <1>5, WhoFacts DEF Typed
<1>7. GuardOK(c, t2, e, g2, l)
  <2>1. t2["back"].pc = "idle" BY <1>1, <1>6 DEF GuardOK, Decided
  <2>2. ~Starting(t2, g2) BY <1>6 DEF Starting, StartPcs, AbandonPcs
  <2>3. Served(t2, e, g2) BY <1>6 DEF Served
  <2> QED BY <1>2, <1>6, <2>1, <2>2, <2>3 DEF GuardOK, Decided, SettlePcs
<1> QED BY <1>4, <1>5, <1>7, MainTask

LEMMA SendStep ==
    ASSUME Inv, NEW r \in Requests, guard[r].phase \in Decided,
           thread[<<r, "main">>].pc \in {"idle", "replied"}, NEW n \in Int,
           NEW d, d = guard[r].decided,
           Call(r, "main", "settle", Copied(d, "main", n), n),
           guard' = [guard EXCEPT ![r].phase = "delivering"],
           UNCHANGED <<clock, entry, fence, finish, gate, ledger, faults>>
    PROVE  Inv'
<1>1. PICK t, e, g, l, f, h :
         /\ t = Tasks(r) /\ e = entry[r] /\ g = guard[r] /\ l = ledger[r] /\ f = finish[r]
         /\ h = gate[r]
  OBVIOUS
<1>2. PICK c \in Decision : Cell(r, c, t, e, g, l, f, h) /\ Typed(r, c, t, e, g, l, f)
  BY <1>1, CellFacts
<1>3. g \in GuardState /\ t["main"] = thread[<<r, "main">>] BY <1>1, CellFacts
<1>4. d # NULL /\ d = g.decided BY <1>1, <1>2 DEF Cell, GuardOK
<1>5. d \in Settlement BY <1>3, <1>4 DEF GuardState
<1>6. PICK s : s = Copied(d, "main", n) OBVIOUS
<1>7. s \in Settlement /\ Agree(s, d) /\ s # NULL
  BY <1>5, <1>6, CopiedFacts, AccountingAssumption DEF Callers
<1>8. PICK v \in CallState : /\ v = NewCall(r, "settle", s, n) /\ v.pc = "settle" /\ v.request = r
                             /\ v.data = s /\ v.slot = NULL
  <2>1. "settle" \in Pcs \ {"idle"} /\ s \in Settlement \cup {NULL} BY <1>7 DEF Pcs, SettlePcs
  <2> QED BY <2>1, NewCallFacts
<1>9. PICK g2 \in GuardState :
         /\ g2 = [g EXCEPT !.phase = "delivering"]
         /\ g2.phase = "delivering" /\ g2.attempt = g.attempt /\ g2.decided = g.decided
  <2>1. PICK g2 : g2 = [g EXCEPT !.phase = "delivering"] OBVIOUS
  <2>2. g2 \in GuardState /\ g2.phase = "delivering" /\ g2.attempt = g.attempt /\ g2.decided = g.decided
    BY <1>3, <2>1 DEF GuardState, Phases, Decided
  <2> QED BY <2>1, <2>2
<1>10. thread' = [thread EXCEPT ![<<r, "main">>] = v] /\ guard' = [guard EXCEPT ![r] = g2]
  <2>1. guard' = [guard EXCEPT ![r] = g2] BY <1>1, <1>9
  <2>2. thread' = [thread EXCEPT ![<<r, "main">>] = NewCall(r, "settle", s, n)] BY <1>6 DEF Call
  <2> QED BY <1>8, <2>1, <2>2
<1>11. Cell(r, c, [t EXCEPT !["main"] = v], e, g2, l, f, h)
  <2>1. /\ g.decided # NULL /\ t["main"].pc \in {"idle", "replied"}
        /\ v.data # NULL /\ Agree(v.data, g.decided)
    BY <1>3, <1>4, <1>7, <1>8
  <2>2. g2.phase = "delivering" /\ g2.decided = g.decided /\ g2.attempt = g.attempt BY <1>9
  <2>3. v.pc = "settle" /\ v.slot = NULL BY <1>8
  <2> QED BY <1>2, <2>1, <2>2, <2>3, SendCell
<1>12. Cell(r, c, [Tasks(r) EXCEPT !["main"] = v], entry[r], g2, ledger[r], finish[r], gate[r])
  BY <1>1, <1>11
<1>13. v.pc # "idle" /\ v.request = r BY <1>8
<1> QED BY <1>10, <1>12, <1>13, GuardMoves

LEMMA SettlePricedStep ==
    ASSUME Inv, NEW r \in Requests, SettlePriced(r)
    PROVE  Inv'
<1>1. PICK c \in Decision : Cell(r, c, Tasks(r), entry[r], guard[r], ledger[r], finish[r], gate[r])
  BY CellFacts
<1>2. Tasks(r)["main"] = thread[<<r, "main">>] BY CellFacts
<1>3. guard[r].phase = "flushed" BY DEF SettlePriced
<1>4. thread[<<r, "main">>].pc = "idle" BY <1>1, <1>2, <1>3 DEF Cell, GuardOK
<1>5. Tries \in Int BY AccountingAssumption
<1> QED BY <1>3, <1>4, <1>5, SendStep DEF SettlePriced, Decided

(* The handler took a reply and has no call. *)
LEMMA EndStep ==
    ASSUME Inv, NEW r \in Requests, thread[<<r, "main">>].pc = "replied",
           thread' = [thread EXCEPT ![<<r, "main">>] = Idle],
           NEW g2 \in GuardState, guard' = [guard EXCEPT ![r] = g2],
           UNCHANGED <<clock, entry, fence, finish, gate, ledger, faults>>,
           NEW c \in Decision,
           Cell(r, c, Tasks(r), entry[r], guard[r], ledger[r], finish[r], gate[r]),
           GuardOK(c, [Tasks(r) EXCEPT !["main"] = Idle], entry[r], g2, ledger[r])
    PROVE  Inv'
<1>1. PICK t, e, g, l, f, h :
         /\ t = Tasks(r) /\ e = entry[r] /\ g = guard[r] /\ l = ledger[r] /\ f = finish[r]
         /\ h = gate[r]
  OBVIOUS
<1>2. Cell(r, c, t, e, g, l, f, h) /\ Typed(r, c, t, e, g, l, f)
  BY <1>1, CellTyped
<1>3. t["main"] = thread[<<r, "main">>] /\ t["main"].pc = "replied" BY <1>1, CellFacts
<1>4. TaskOK("main", r, c, Idle, e, l, f, h) BY IdleOK, WhoFacts
<1>5. GuardOK(c, [t EXCEPT !["main"] = Idle], e, g2, l) BY <1>1
<1>6. Cell(r, c, [t EXCEPT !["main"] = Idle], e, g2, l, f, h)
  BY <1>2, <1>3, <1>4, <1>5, MainTask, IdleFacts
<1>7. Cell(r, c, [Tasks(r) EXCEPT !["main"] = Idle], entry[r], g2, ledger[r], finish[r], gate[r])
  BY <1>1, <1>6
<1> QED BY <1>7, GuardMoves, IdleFacts

LEMMA QuotedStep ==
    ASSUME Inv, NEW r \in Requests, Quoted(r)
    PROVE  Inv'
<1>1. /\ guard[r].phase = "quoting" /\ thread[<<r, "main">>].pc = "replied"
      /\ UNCHANGED <<clock, entry, fence, finish, gate, ledger, faults>>
  BY DEF Quoted, Replied, At
<1>2. CASE Result(r, "main") # "ok"
  <2>1. Tries \in Int BY AccountingAssumption
  <2> QED BY <1>1, <1>2, <2>1, SendStep DEF Quoted, Decided
<1>3. CASE Result(r, "main") = "ok"
  <2>1. PICK t, e, g, l, f, h :
           /\ t = Tasks(r) /\ e = entry[r] /\ g = guard[r] /\ l = ledger[r] /\ f = finish[r]
           /\ h = gate[r]
    OBVIOUS
  <2>2. PICK c \in Decision : Cell(r, c, t, e, g, l, f, h) /\ Typed(r, c, t, e, g, l, f)
    BY <2>1, CellFacts
  <2>3. g \in GuardState /\ t["main"] = thread[<<r, "main">>] BY <2>1, CellFacts
  <2>4. PICK g2 \in GuardState :
           /\ g2 = [g EXCEPT !.phase = "flushed"]
           /\ g2.phase = "flushed" /\ g2.attempt = g.attempt /\ g2.decided = g.decided
    <3>1. PICK g2 : g2 = [g EXCEPT !.phase = "flushed"] OBVIOUS
    <3>2. g2 \in GuardState /\ g2.phase = "flushed" /\ g2.attempt = g.attempt /\ g2.decided = g.decided
      BY <2>3, <3>1 DEF GuardState, Phases, Decided
    <3> QED BY <3>1, <3>2
  <2>5. thread' = [thread EXCEPT ![<<r, "main">>] = Idle] /\ guard' = [guard EXCEPT ![r] = g2]
    BY <1>3, <2>1, <2>4 DEF Quoted
  <2>6. PICK t2 : t2 = [t EXCEPT !["main"] = Idle] OBVIOUS
  <2>7. t2["main"] = Idle /\ t2["back"] = t["back"] /\ t2["sweep"] = t["sweep"]
    BY <2>2, <2>6, WhoFacts DEF Typed
  <2>8. GuardOK(c, t, e, g, l) /\ Served(t, e, g) BY <2>2 DEF Cell, GuardOK
  <2>9. GuardOK(c, t2, e, g2, l)
    <3>1. t2["back"].pc = "idle" BY <1>1, <2>1, <2>7, <2>8 DEF GuardOK
    <3>2. ~Starting(t2, g2) BY <2>7, IdleFacts DEF Starting, StartPcs, AbandonPcs
    <3>3. e # NULL => e.pending # NULL BY <1>1, <1>3, <2>1, <2>3, <2>8 DEF Served, Result
    <3>4. Served(t2, e, g2) BY <2>4, <3>3 DEF Served
    <3>5. g.phase = "quoting" BY <1>1, <2>1
    <3> QED BY <2>4, <2>7, <2>8, <3>1, <3>2, <3>4, <3>5, IdleFacts DEF GuardOK, Decided
  <2>10. GuardOK(c, [Tasks(r) EXCEPT !["main"] = Idle], entry[r], g2, ledger[r])
    BY <2>1, <2>6, <2>9
  <2> QED BY <1>1, <2>1, <2>2, <2>5, <2>10, EndStep
<1> QED BY <1>2, <1>3

LEMMA DeliveredStep ==
    ASSUME Inv, NEW r \in Requests, Delivered(r)
    PROVE  Inv'
<1>1. /\ guard[r].phase = "delivering" /\ thread[<<r, "main">>].pc = "replied"
      /\ UNCHANGED <<clock, entry, fence, finish, gate, ledger, faults>>
  BY DEF Delivered, Replied, At
<1>2. PICK t, e, g, l, f, h :
         /\ t = Tasks(r) /\ e = entry[r] /\ g = guard[r] /\ l = ledger[r] /\ f = finish[r]
         /\ h = gate[r]
  OBVIOUS
<1>3. PICK c \in Decision : Cell(r, c, t, e, g, l, f, h) /\ Typed(r, c, t, e, g, l, f)
  BY <1>2, CellFacts
<1>4. g \in GuardState /\ t["main"] = thread[<<r, "main">>] /\ t["main"] \in CallState
  BY <1>2, <1>3, CellFacts, WhoFacts DEF Typed
<1>5. PICK n \in Int : n = thread[<<r, "main">>].tries BY <1>4 DEF CallState
<1>6. CASE Result(r, "main") = "error" /\ n > 1
  <2>1. Call(r, "main", "settle", Copied(g.decided, "main", n - 1), n - 1) /\ guard' = guard
    BY <1>2, <1>5, <1>6 DEF Delivered
  <2>2. [g EXCEPT !.phase = "delivering"] = g BY <1>1, <1>2, <1>4 DEF GuardState
  <2>3. guard' = [guard EXCEPT ![r].phase = "delivering"]
    BY <1>2, <2>1, <2>2, RestNow DEF Rest
  <2>4. n - 1 \in Int OBVIOUS
  <2> QED BY <1>1, <1>2, <2>1, <2>3, <2>4, SendStep DEF Decided
<1>7. CASE ~(Result(r, "main") = "error" /\ n > 1)
  <2>1. PICK g2 \in GuardState :
           /\ guard' = [guard EXCEPT ![r] = g2]
           /\ \/ g2.phase \in {"done", "ready"} /\ g2.attempt = NULL /\ g2.decided = NULL
              \/ g2.phase = "fatal" /\ g2.attempt = g.attempt /\ g2.decided = g.decided
           /\ g2.phase = "ready" => t["main"].reply = "ok"
    <3>1. PICK ended : ended = [phase |-> "done", attempt |-> NULL, decided |-> NULL] OBVIOUS
    <3>2. PICK g2 : g2 = IF g.decided.finalize THEN ended
                         ELSE IF Result(r, "main") = "ok" THEN [ended EXCEPT !.phase = "ready"]
                         ELSE [g EXCEPT !.phase = "fatal"]
      OBVIOUS
    <3>3. guard' = [guard EXCEPT ![r] = g2] BY <1>2, <1>5, <1>7, <3>1, <3>2 DEF Delivered
    <3>4. ended \in GuardState /\ [ended EXCEPT !.phase = "ready"] \in GuardState
          /\ [g EXCEPT !.phase = "fatal"] \in GuardState
      BY <1>4, <3>1 DEF GuardState, Phases, Decided
    <3>5. g2 \in GuardState BY <3>2, <3>4
    <3>6. CASE g2 = ended BY <3>1, <3>3, <3>5, <3>6
    <3>7. CASE g2 = [ended EXCEPT !.phase = "ready"] /\ Result(r, "main") = "ok"
      BY <1>4, <3>1, <3>3, <3>5, <3>7 DEF Result
    <3>8. CASE g2 = [g EXCEPT !.phase = "fatal"]
      BY <1>4, <3>3, <3>5, <3>8 DEF GuardState
    <3> QED BY <3>2, <3>6, <3>7, <3>8
  <2>2. thread' = [thread EXCEPT ![<<r, "main">>] = Idle] BY <1>5, <1>7 DEF Delivered
  <2>3. PICK t2 : t2 = [t EXCEPT !["main"] = Idle] OBVIOUS
  <2>4. t2["main"] = Idle /\ t2["back"] = t["back"] /\ t2["sweep"] = t["sweep"]
    BY <1>3, <2>3, WhoFacts DEF Typed
  <2>5. /\ GuardOK(c, t, e, g, l) /\ Served(t, e, g)
        /\ TaskOK("back", r, c, t["back"], e, l, f, h)
        /\ TaskOK("sweep", r, c, t["sweep"], e, l, f, h)
    BY <1>3, WhoFacts DEF Cell, GuardOK
  <2>6. g.phase = "delivering" /\ t["main"].pc = "replied" BY <1>1, <1>2, <1>4
  <2>7. t["back"].pc = "idle" /\ t["back"].data = NULL
    <3>1. t["back"].pc = "idle" BY <2>5, <2>6 DEF GuardOK
    <3> QED BY <2>5, <3>1, IdleFacts DEF TaskOK
  <2>8. g2.phase = "ready" => Quiet(t2, e) /\ (e # NULL => e.active = NULL)
    <3> SUFFICES ASSUME g2.phase = "ready" PROVE Quiet(t2, e) /\ (e # NULL => e.active = NULL)
      OBVIOUS
    <3>1. e # NULL => /\ e.pending = NULL /\ e.active = NULL
                      /\ t["sweep"].pc \notin {"swrite", "sdone"}
      BY <2>1, <2>5, <2>6 DEF Served
    <3>2. t["sweep"].pc \in {"swrite", "sdone"} => e # NULL BY <2>5 DEF TaskOK, GatePcs
    <3>3. t["sweep"].pc \in {"idle", "clear"} \cup AbandonPcs
      BY <2>5, <3>1, <3>2 DEF TaskOK, PcsOf
    <3>4. t["sweep"].pc = "clear" \/ t["sweep"].data = NULL
      BY <2>5, <3>3, IdleFacts DEF TaskOK
    <3> QED BY <2>4, <2>7, <3>1, <3>4, IdleFacts DEF Quiet, Who
  <2>9. GuardOK(c, t2, e, g2, l)
    <3>1. ~Starting(t2, g2) BY <2>4, IdleFacts DEF Starting, StartPcs, AbandonPcs
    <3>2. Served(t2, e, g2) BY <2>1 DEF Served
    <3>3. g2.phase = "fatal" => /\ g2.decided # NULL /\ InPlay(g2.decided, c, e, l)
      BY <2>1, <2>5, <2>6 DEF GuardOK, Decided
    <3>4. g2.phase \notin {"absent", "starting", "serving", "quoting", "flushed", "delivering"}
      BY <2>1
    <3>5. t2["main"].pc = "idle" /\ t2["back"].pc = "idle" BY <2>4, <2>7, IdleFacts
    <3> QED BY <2>1, <2>8, <3>1, <3>2, <3>3, <3>4, <3>5 DEF GuardOK, Decided
  <2>10. GuardOK(c, [Tasks(r) EXCEPT !["main"] = Idle], entry[r], g2, ledger[r])
    BY <1>2, <2>3, <2>9
  <2> QED BY <1>1, <1>2, <1>3, <2>1, <2>2, <2>10, EndStep
<1> QED BY <1>6, <1>7

LEMMA RedeliverStep ==
    ASSUME Inv, NEW r \in Requests, Redeliver(r)
    PROVE  Inv'
<1>1. /\ thread[<<r, "back">>].pc = "replied"
      /\ UNCHANGED <<clock, entry, fence, finish, gate, ledger, guard, faults>>
  BY DEF Redeliver, Replied, At
<1>2. PICK t, e, g, l, f, h :
         /\ t = Tasks(r) /\ e = entry[r] /\ g = guard[r] /\ l = ledger[r] /\ f = finish[r]
         /\ h = gate[r]
  OBVIOUS
<1>3. PICK c \in Decision : Cell(r, c, t, e, g, l, f, h) /\ Typed(r, c, t, e, g, l, f)
  BY <1>2, CellFacts
<1>4. t["back"] = thread[<<r, "back">>] /\ t["back"] \in CallState /\ t["back"].pc = "replied"
      /\ Tid(r, "back") = <<r, "back">>
  BY <1>1, <1>2, <1>3, CellFacts, WhoFacts DEF Typed
<1>5. GuardOK(c, t, e, g, l) /\ TaskOK("back", r, c, t["back"], e, l, f, h)
  BY <1>3, WhoFacts DEF Cell
<1>6. g.phase = "done" BY <1>4, <1>5 DEF GuardOK
<1>7. PICK n \in Int : n = t["back"].tries - 1 BY <1>4 DEF CallState
<1>8. \E v \in CallState :
         /\ thread' = [thread EXCEPT ![<<r, "back">>] = v] /\ v.request = r /\ v.slot = NULL
         /\ \/ v.pc = "abandon" /\ v.data = NULL
            \/ v.pc = "settle" /\ v.data # NULL /\ t["back"].data # NULL /\ Agree(v.data, t["back"].data)
  <2>1. CASE t["back"].data = NULL
    <3>1. thread' = [thread EXCEPT ![<<r, "back">>] = NewCall(r, "abandon", NULL, n)]
      BY <1>4, <1>7, <2>1 DEF Redeliver, Call
    <3>2. "abandon" \in Pcs \ {"idle"} /\ NULL \in Settlement \cup {NULL} BY DEF Pcs, AbandonPcs
    <3>3. PICK v \in CallState : /\ v = NewCall(r, "abandon", NULL, n) /\ v.pc = "abandon"
                                 /\ v.request = r /\ v.data = NULL /\ v.slot = NULL
      BY <3>2, NewCallFacts
    <3> QED BY <3>1, <3>3
  <2>2. CASE t["back"].data # NULL
    <3>1. PICK s : s = Copied(t["back"].data, "back", n) OBVIOUS
    <3>2. thread' = [thread EXCEPT ![<<r, "back">>] = NewCall(r, "settle", s, n)]
      BY <1>4, <1>7, <2>2, <3>1 DEF Redeliver, Call
    <3>3. t["back"].data \in Settlement BY <1>4, <2>2 DEF CallState
    <3>4. s \in Settlement /\ Agree(s, t["back"].data) /\ s # NULL
      BY <3>1, <3>3, CopiedFacts, AccountingAssumption DEF Callers
    <3>5. "settle" \in Pcs \ {"idle"} /\ s \in Settlement \cup {NULL} BY <3>4 DEF Pcs, SettlePcs
    <3>6. PICK v \in CallState : /\ v = NewCall(r, "settle", s, n) /\ v.pc = "settle"
                                 /\ v.request = r /\ v.data = s /\ v.slot = NULL
      BY <3>5, NewCallFacts
    <3> QED BY <2>2, <3>2, <3>4, <3>6
  <2> QED BY <2>1, <2>2
<1>9. PICK v \in CallState :
         /\ thread' = [thread EXCEPT ![<<r, "back">>] = v] /\ v.request = r /\ v.slot = NULL
         /\ \/ v.pc = "abandon" /\ v.data = NULL
            \/ v.pc = "settle" /\ v.data # NULL /\ t["back"].data # NULL /\ Agree(v.data, t["back"].data)
  BY <1>8
<1>10. TaskOK("back", r, c, v, e, l, f, h)
  <2>1. CASE v.pc = "abandon" /\ v.data = NULL
    BY <1>9, <2>1 DEF TaskOK, PcsOf, GatePcs, SettlePcs, QuotePcs, StartPcs, AbandonPcs
  <2>2. CASE v.pc = "settle" /\ v.data # NULL /\ t["back"].data # NULL /\ Agree(v.data, t["back"].data)
    <3>1. InPlay(t["back"].data, c, e, l) BY <1>4, <1>5, <2>2 DEF TaskOK
    <3>2. InPlay(v.data, c, e, l) BY <2>2, <3>1 DEF InPlay, Agree
    <3> QED BY <1>9, <2>2, <3>2 DEF TaskOK, PcsOf, GatePcs, SettlePcs, QuotePcs, StartPcs, AbandonPcs
  <2> QED BY <1>9, <2>1, <2>2
<1>11. v.data # NULL => ~Quiet(t, e) BY <1>4, <1>9, WhoFacts DEF Quiet
<1>12. Cell(r, c, [t EXCEPT !["back"] = v], e, g, l, f, h)
  BY <1>3, <1>4, <1>6, <1>9, <1>10, <1>11, OtherTask
<1>13. Cell(r, c, [Tasks(r) EXCEPT !["back"] = v], entry'[r], guard'[r], ledger'[r], finish'[r], gate'[r])
  BY <1>1, <1>2, <1>12
<1>14. Rest' /\ Elsewhere(r) /\ FenceExact'
  BY <1>1, RestNow DEF Rest, Elsewhere, Inv, FenceExact, Live
<1>15. v.pc # "idle" /\ thread' = [thread EXCEPT ![Tid(r, "back")] = v] BY <1>4, <1>9
<1> QED BY <1>9, <1>13, <1>14, <1>15, CellStep, WhoFacts

LEMMA AdmitStep ==
    ASSUME Inv, NEW r \in Requests, Admit(r)
    PROVE  Inv'
<1>1. PICK t, e, g, l, f, h :
         /\ t = Tasks(r) /\ e = entry[r] /\ g = guard[r] /\ l = ledger[r] /\ f = finish[r]
         /\ h = gate[r]
  OBVIOUS
<1>2. PICK c \in Decision : Cell(r, c, t, e, g, l, f, h) /\ Typed(r, c, t, e, g, l, f)
  BY <1>1, CellFacts
<1>3. g \in GuardState /\ g.phase = "absent" BY <1>1, CellFacts DEF Admit
<1>4. UNCHANGED <<clock, fence, finish, gate, thread, faults>> BY DEF Admit
<1>5. PICK phase \in {"ready", "done"} : guard' = [guard EXCEPT ![r].phase = phase] BY DEF Admit
<1>6. PICK g2 \in GuardState :
         /\ guard' = [guard EXCEPT ![r] = g2]
         /\ g2.phase = phase /\ g2.attempt = g.attempt /\ g2.decided = g.decided
  <2>1. PICK g2 : g2 = [g EXCEPT !.phase = phase] OBVIOUS
  <2>2. g2 \in GuardState /\ g2.phase = phase /\ g2.attempt = g.attempt /\ g2.decided = g.decided
    BY <1>3, <2>1 DEF GuardState, Phases
  <2> QED BY <1>1, <1>5, <2>1, <2>2
<1>7. PICK l2 \in LedgerState :
         /\ ledger' = [ledger EXCEPT ![r] = l2] /\ l2.request = "open" /\ l2.attempt = l.attempt
  <2>1. PICK l2 : l2 = [l EXCEPT !.request = "open"] OBVIOUS
  <2>2. l2 \in LedgerState /\ l2.request = "open" /\ l2.attempt = l.attempt
    BY <1>2, <2>1 DEF Typed, LedgerState
  <2>3. ledger' = [ledger EXCEPT ![r] = l2] BY <1>1, <2>1 DEF Admit
  <2> QED BY <2>2, <2>3
<1>8. PICK e2 \in InflightRequest :
         /\ entry' = [entry EXCEPT ![r] = e2] /\ e2.active = NULL /\ e2.pending = NULL
         /\ ~EntryFences(e2) /\ e2 # NULL
  <2>1. PICK e2 : e2 = [total |-> 0, active |-> NULL, pending |-> NULL, abandon |-> FALSE,
                        writeFailed |-> FALSE, abandonFailed |-> FALSE, refused |-> FALSE]
    OBVIOUS
  <2>2. e2 \in InflightRequest /\ e2.active = NULL /\ e2.pending = NULL /\ ~EntryFences(e2)
    BY <2>1, AccountingAssumption DEF InflightRequest, EntryFences
  <2>3. entry' = [entry EXCEPT ![r] = e2] BY <2>1 DEF Admit
  <2> QED BY <2>2, <2>3, AccountingAssumption
<1>9. /\ entry' \in [Requests -> InflightRequest \cup {NULL}] /\ entry'[r] = e2
      /\ \A q \in Requests \ {r} : entry'[q] = entry[q]
  BY <1>8, EntryUpdate
<1>10. /\ ledger' \in [Requests -> LedgerState] /\ ledger'[r] = l2
       /\ \A q \in Requests \ {r} : ledger'[q] = ledger[q]
  BY <1>7, LedgerUpdate
<1>11. /\ guard' \in [Requests -> GuardState] /\ guard'[r] = g2
       /\ \A q \in Requests \ {r} : guard'[q] = guard[q]
  BY <1>6, RestNow DEF Rest
<1>12. GuardOK(c, t, e, g, l) /\ EntryOK(c, t, e, l, f)
       /\ \A w \in Who : TaskOK(w, r, c, t[w], e, l, f, h)
  BY <1>2 DEF Cell
<1>13. /\ e = NULL /\ \A n \in Ordinals : l.attempt[n] = "none"
       /\ \A w \in Who : t[w].pc = "idle"
  BY <1>3, <1>12 DEF GuardOK
<1>14. \A w \in Who : t[w] = Idle BY <1>12, <1>13 DEF TaskOK
<1>15. FenceExact'
  <2>1. r \notin fence BY <1>1, <1>13 DEF Inv, FenceExact, Live
  <2> QED BY <1>4, <1>8, <1>9, <2>1 DEF Inv, FenceExact, Live
<1>16. Cell(r, c, t, e2, g2, l2, f, h)
  <2>1. \A w \in Who : TaskOK(w, r, c, t[w], e2, l2, f, h) BY <1>14, IdleOK
  <2>2. t["main"].pc = "idle" /\ t["back"].pc = "idle" /\ t["sweep"].pc = "idle" BY <1>13, WhoFacts
  <2>3. c.attempt \in Ordinals BY DEF Decision
  <2>4. EntryOK(c, t, e2, l2, f) BY <1>7, <1>8, <1>13, <2>2, <2>3 DEF EntryOK
  <2>5. Quiet(t, e2) BY <1>8, <1>14, IdleFacts DEF Quiet
  <2>6. g.decided = NULL /\ g.attempt = NULL BY <1>3, <1>12 DEF GuardOK, Decided
  <2>7. Served(t, e2, g2) BY <1>6 DEF Served
  <2>8. ~Starting(t, g2) BY <2>2 DEF Starting, StartPcs, AbandonPcs
  <2>9. GuardOK(c, t, e2, g2, l2)
    BY <1>6, <1>8, <2>2, <2>5, <2>6, <2>7, <2>8 DEF GuardOK, Decided
  <2> QED BY <2>1, <2>4, <2>9 DEF Cell
<1>17. \A q \in Requests : Tasks(q)' = Tasks(q) BY <1>4 DEF Tasks, Task
<1>18. CellOK(r, c)' BY <1>1, <1>4, <1>9, <1>10, <1>11, <1>16, <1>17 DEF CellOK
<1>19. TypeOK' /\ CallersOK'
  BY <1>4, <1>9, <1>10, <1>11 DEF Inv, TypeOK, CallersOK
<1>20. Local(r) BY <1>4, <1>9, <1>10, <1>11, <1>17 DEF Local
<1> QED BY <1>15, <1>18, <1>19, <1>20, StepAt

(* A first decision about the attempt the handler serves. *)
LEMMA DecideCell ==
    ASSUME NEW r, NEW c, NEW t, NEW e, NEW g, NEW l, NEW f, NEW h,
           Typed(r, c, t, e, g, l, f), Cell(r, c, t, e, g, l, f, h),
           g.phase = "serving", NEW c2 \in Decision, c2.attempt = g.attempt
    PROVE  /\ Cell(r, c2, t, e, g, l, f, h) /\ Typed(r, c2, t, e, g, l, f)
           /\ \A d : Agree(d, c2) => InPlay(d, c2, e, l)
<1>1. /\ EntryOK(c, t, e, l, f) /\ GuardOK(c, t, e, g, l)
      /\ \A w \in Who : TaskOK(w, r, c, t[w], e, l, f, h)
  BY DEF Cell
<1>2. /\ Quiet(t, e) /\ Fresh(c2.attempt, t, e, l) /\ t["main"].pc = "idle" /\ g.decided = NULL
  BY <1>1 DEF GuardOK, Decided
<1>3. ASSUME NEW w \in Who PROVE TaskOK(w, r, c2, t[w], e, l, f, h)
  <2>1. TaskOK(w, r, c, t[w], e, l, f, h) /\ (t[w].pc = "clear" \/ t[w].data = NULL)
    BY <1>1, <1>2 DEF Quiet
  <2>2. t[w].pc = "clear" => w = "sweep"
    BY <2>1 DEF TaskOK, PcsOf, Who, StartPcs, AbandonPcs, SettlePcs, QuotePcs
  <2>3. t[w].pc = "clear" => t[w].data.attempt # c2.attempt BY <1>2, <2>2 DEF Fresh
  <2> QED BY <2>1, <2>3 DEF TaskOK
<1>4. EntryOK(c2, t, e, l, f)
  <2>1. l.attempt[c2.attempt] \in {"dispatched", "recovered"} /\ c2.attempt \in Ordinals
    BY <1>2 DEF Fresh
  <2>2. e # NULL => e.pending = NULL BY <1>2 DEF Quiet
  <2>3. l.attempt[c2.attempt] # "dispatched" => l.request = "closed" BY <1>1, <2>1 DEF EntryOK
  <2> QED BY <1>1, <2>1, <2>2, <2>3 DEF EntryOK
<1>5. GuardOK(c2, t, e, g, l) BY <1>1, <1>2 DEF GuardOK
<1>6. \A d : Agree(d, c2) => InPlay(d, c2, e, l) BY <1>2 DEF InPlay, Fresh
<1> QED BY <1>3, <1>4, <1>5, <1>6 DEF Cell, Typed

LEMMA DecideStep ==
    ASSUME Inv, NEW r \in Requests, NEW kind \in Kinds, NEW finalize \in BOOLEAN, NEW n \in Int,
           guard[r].phase = "serving", NEW d,
           d = [attempt |-> guard[r].attempt, kind |-> kind, finalize |-> finalize,
                copy |-> <<"main", n>>],
           NEW phase, NEW pc,
           \/ phase = "delivering" /\ pc = "settle"
           \/ phase = "quoting" /\ pc = "quote" /\ finalize,
           guard' = [guard EXCEPT ![r].phase = phase, ![r].decided = d],
           Call(r, "main", pc, d, Tries),
           UNCHANGED <<clock, entry, fence, finish, gate, ledger, faults>>
    PROVE  Inv'
<1>1. PICK t, e, g, l, f, h :
         /\ t = Tasks(r) /\ e = entry[r] /\ g = guard[r] /\ l = ledger[r] /\ f = finish[r]
         /\ h = gate[r]
  OBVIOUS
<1>2. PICK c0 \in Decision : Cell(r, c0, t, e, g, l, f, h) /\ Typed(r, c0, t, e, g, l, f)
  BY <1>1, CellFacts
<1>3. g \in GuardState /\ g.phase = "serving" BY <1>1, CellFacts
<1>4. GuardOK(c0, t, e, g, l) /\ t["main"].pc = "idle" BY <1>2, <1>3 DEF Cell, GuardOK
<1>5. g.attempt \in Ordinals BY <1>3, <1>4 DEF GuardOK, Fresh
<1>6. PICK c \in Decision : c.attempt = g.attempt /\ c.kind = kind /\ c.finalize = finalize
  <2>1. PICK c : c = [attempt |-> g.attempt, kind |-> kind, finalize |-> finalize] OBVIOUS
  <2>2. c \in Decision /\ c.attempt = g.attempt /\ c.kind = kind /\ c.finalize = finalize
    BY <1>5, <2>1, AccountingAssumption DEF Decision
  <2> QED BY <2>2
<1>7. d \in Settlement /\ Agree(d, c) /\ d # NULL /\ d.finalize = finalize
  <2>1. <<"main", n>> \in Callers \X Int BY DEF Callers
  <2>2. d \in Settlement BY <1>1, <1>5, <2>1, AccountingAssumption DEF Settlement
  <2>3. Agree(d, c) /\ d.finalize = finalize BY <1>1, <1>6 DEF Agree
  <2> QED BY <2>2, <2>3, AccountingAssumption
<1>8. /\ Cell(r, c, t, e, g, l, f, h) /\ Typed(r, c, t, e, g, l, f) /\ InPlay(d, c, e, l)
  BY <1>2, <1>3, <1>6, <1>7, DecideCell
<1>9. PICK g2 \in GuardState :
         /\ guard' = [guard EXCEPT ![r] = g2]
         /\ g2.phase = phase /\ g2.attempt = g.attempt /\ g2.decided = d
  <2>1. PICK g2 : g2 = [g EXCEPT !.phase = phase, !.decided = d] OBVIOUS
  <2>2. g2 \in GuardState /\ g2.phase = phase /\ g2.attempt = g.attempt /\ g2.decided = d
    BY <1>3, <1>7, <2>1 DEF GuardState, Phases, Decided
  <2>3. guard' = [guard EXCEPT ![r] = g2] BY <1>1, <2>1
  <2> QED BY <2>2, <2>3
<1>10. PICK v \in CallState : /\ thread' = [thread EXCEPT ![<<r, "main">>] = v]
                              /\ v.pc = pc /\ v.request = r /\ v.data = d /\ v.slot = NULL
  <2>1. pc \in Pcs \ {"idle"} /\ d \in Settlement \cup {NULL} /\ Tries \in Int
    BY <1>7, AccountingAssumption DEF Pcs, SettlePcs, QuotePcs
  <2>2. PICK v \in CallState : /\ v = NewCall(r, pc, d, Tries) /\ v.pc = pc
                               /\ v.request = r /\ v.data = d /\ v.slot = NULL
    BY <2>1, NewCallFacts
  <2> QED BY <2>2 DEF Call
<1>11. TaskOK("main", r, c, v, e, l, f, h)
  BY <1>7, <1>8, <1>10
  DEF TaskOK, PcsOf, GatePcs, SettlePcs, QuotePcs, StartPcs, AbandonPcs
<1>12. PICK t2 : t2 = [t EXCEPT !["main"] = v] OBVIOUS
<1>13. t2["main"] = v /\ t2["back"] = t["back"] /\ t2["sweep"] = t["sweep"]
  BY <1>2, <1>12, WhoFacts DEF Typed
<1>14. GuardOK(c, t2, e, g2, l)
  <2>1. t2["back"].pc = "idle" BY <1>3, <1>4, <1>13 DEF GuardOK
  <2>2. ~Starting(t2, g2) BY <1>10, <1>13 DEF Starting, StartPcs, AbandonPcs
  <2>3. Served(t2, e, g2) BY <1>9, <1>10, <1>13 DEF Served
  <2> QED BY <1>7, <1>8, <1>9, <1>10, <1>13, <2>1, <2>2, <2>3
    DEF GuardOK, Decided, SettlePcs, QuotePcs
<1>15. Cell(r, c, t2, e, g2, l, f, h) BY <1>4, <1>8, <1>11, <1>12, <1>14, MainTask
<1>16. Cell(r, c, [Tasks(r) EXCEPT !["main"] = v], entry[r], g2, ledger[r], finish[r], gate[r])
  BY <1>1, <1>12, <1>15
<1>17. v.pc # "idle" /\ v.request = r BY <1>10
<1> QED BY <1>9, <1>10, <1>16, <1>17, GuardMoves

LEMMA DecideActions ==
    ASSUME Inv, NEW r \in Requests, NEW kind \in Kinds, NEW finalize \in BOOLEAN,
           Decide(r, kind, finalize) \/ DecidePriced(r, kind)
    PROVE  Inv'
<1>1. Tries \in Int /\ 0 \in Int BY AccountingAssumption
<1>2. CASE Decide(r, kind, finalize)
  <2>1. PICK d : d = [attempt |-> guard[r].attempt, kind |-> kind, finalize |-> finalize,
                      copy |-> <<"main", Tries>>]
    OBVIOUS
  <2>2. /\ guard[r].phase = "serving"
        /\ guard' = [guard EXCEPT ![r].phase = "delivering", ![r].decided = d]
        /\ Call(r, "main", "settle", d, Tries)
        /\ UNCHANGED <<clock, entry, fence, finish, gate, ledger, faults>>
    BY <1>2, <2>1 DEF Decide
  <2> QED BY <1>1, <2>1, <2>2, DecideStep
<1>3. CASE DecidePriced(r, kind)
  <2>1. PICK d : d = [attempt |-> guard[r].attempt, kind |-> kind, finalize |-> TRUE,
                      copy |-> <<"main", 0>>]
    OBVIOUS
  <2>2. /\ guard[r].phase = "serving"
        /\ guard' = [guard EXCEPT ![r].phase = "quoting", ![r].decided = d]
        /\ Call(r, "main", "quote", d, Tries)
        /\ UNCHANGED <<clock, entry, fence, finish, gate, ledger, faults>>
    BY <1>3, <2>1 DEF DecidePriced
  <2>3. TRUE \in BOOLEAN OBVIOUS
  <2> QED BY <1>1, <2>1, <2>2, <2>3, DecideStep
<1> QED BY <1>2, <1>3

LEMMA SweepActions ==
    ASSUME Inv, NEW r \in Requests, SweepReplay(r) \/ SweepExpired(r)
    PROVE  Inv'
<1>1. entry[r] # NULL /\ At(Sweeper, "idle") BY DEF SweepReplay, SweepExpired, Live
<1>2. CASE SweepReplay(r)
  <2>1. PICK d : d = entry[r].pending OBVIOUS
  <2>2. /\ SweepCall(r, "swrite", d) /\ d # NULL /\ Acquire(Sweeper, r)
        /\ UNCHANGED <<clock, entry, fence, finish, ledger, guard, faults>>
    BY <1>2, <2>1 DEF SweepReplay
  <2> QED BY <1>1, <2>1, <2>2, SweepStarts
<1>3. CASE SweepExpired(r)
  <2>1. /\ SweepCall(r, "abandon", NULL) /\ gate' = gate
        /\ UNCHANGED <<clock, entry, fence, finish, ledger, guard, faults>>
    BY <1>3 DEF SweepExpired
  <2> QED BY <1>1, <2>1, SweepStarts
<1> QED BY <1>2, <1>3

(* The dropped guard lets go of its handler's call: a reply is discarded,  *)
(* a call under way runs on.                                               *)
LEMMA RetireCell ==
    ASSUME NEW r, NEW c, NEW t, NEW e, NEW g, NEW l, NEW f, NEW h,
           Typed(r, c, t, e, g, l, f), Cell(r, c, t, e, g, l, f, h),
           g.phase \notin {"absent", "done"},
           NEW g2, g2.phase = "done", g2.attempt = NULL, g2.decided = NULL,
           NEW m, m = IF t["main"].pc = "replied" THEN Idle ELSE t["main"]
    PROVE  /\ Cell(r, c, [t EXCEPT !["main"] = m], e, g2, l, f, h)
           /\ [t EXCEPT !["main"] = m] \in [Who -> CallState] /\ m \in CallState
           /\ [t EXCEPT !["main"] = m]["back"] = Idle
           /\ Starting([t EXCEPT !["main"] = m], g2) => Starting(t, g)
<1>1. /\ EntryOK(c, t, e, l, f) /\ GuardOK(c, t, e, g, l)
      /\ \A w \in Who : TaskOK(w, r, c, t[w], e, l, f, h)
  BY DEF Cell
<1>2. m \in CallState /\ t["main"] \in CallState BY WhoFacts, IdleFacts DEF Typed
<1>3. PICK t1 : t1 = [t EXCEPT !["main"] = m] OBVIOUS
<1>4. t1["main"] = m /\ t1["back"] = t["back"] /\ t1["sweep"] = t["sweep"] /\ t1 \in [Who -> CallState]
  BY <1>2, <1>3, WhoFacts DEF Typed
<1>5. t["back"] = Idle BY <1>1, WhoFacts DEF GuardOK, TaskOK
<1>6. Starting(t1, g2) => t["main"].pc \in StartPcs \cup AbandonPcs /\ t1 = t
  <2>1. t["main"].pc # "replied" => t1 = t BY <1>2, <1>3, WhoFacts DEF Typed
  <2>2. Starting(t1, g2) => m.pc \in StartPcs \cup AbandonPcs BY <1>4 DEF Starting
  <2>3. m.pc \in StartPcs \cup AbandonPcs => t["main"].pc # "replied" /\ m = t["main"]
    BY IdleFacts DEF StartPcs, AbandonPcs
  <2> QED BY <2>1, <2>2, <2>3
<1>7. GuardOK(c, t1, e, g2, l)
  <2>1. Served(t1, e, g2) BY DEF Served
  <2>2. Starting(t1, g2) => Starting(t, g) /\ t1 = t BY <1>6 DEF Starting
  <2>3. Starting(t1, g2) =>
            /\ Quiet(t1, e)
            /\ t1["main"].slot = NULL => (e # NULL => e.active = NULL)
            /\ t1["main"].slot # NULL => Fresh(t1["main"].slot, t1, e, l)
            /\ t1["main"].pc = "replied" /\ t1["main"].reply = "started" => t1["main"].slot # NULL
    BY <1>1, <2>2 DEF GuardOK
  <2>4. t1["main"].pc # "replied" BY <1>4, IdleFacts
  <2> QED BY <1>4, <2>1, <2>3, <2>4 DEF GuardOK, Decided
<1>8. Cell(r, c, t1, e, g2, l, f, h)
  <2>1. CASE t["main"].pc = "replied"
    <3>1. TaskOK("main", r, c, m, e, l, f, h) BY <2>1, IdleOK, WhoFacts
    <3> QED BY <1>2, <1>3, <1>7, <2>1, <3>1, MainTask
  <2>2. CASE t["main"].pc # "replied"
    <3>1. t1 = t BY <1>2, <1>3, <2>2, WhoFacts DEF Typed
    <3> QED BY <1>1, <1>7, <3>1 DEF Cell
  <2> QED BY <2>1, <2>2
<1>9. Starting(t1, g2) => Starting(t, g) BY <1>6 DEF Starting
<1> QED BY <1>2, <1>3, <1>4, <1>5, <1>8, <1>9

LEMMA TwoSet ==
    ASSUME Inv, NEW r \in Requests, NEW v \in CallState, NEW m \in CallState,
           v.pc # "idle" /\ v.request = r,
           m = Idle \/ m = thread[<<r, "main">>],
           thread' = [thread EXCEPT ![<<r, "back">>] = v, ![<<r, "main">>] = m]
    PROVE  /\ thread' \in [Threads -> CallState] /\ CallersOK'
           /\ Tasks(r)' = [[Tasks(r) EXCEPT !["main"] = m] EXCEPT !["back"] = v]
           /\ \A q \in Requests \ {r} : Tasks(q)' = Tasks(q)
<1>1. thread \in [Threads -> CallState] BY DEF Inv, TypeOK
<1>2. /\ <<r, "back">> \in Threads /\ <<r, "main">> \in Threads /\ Sweeper \in Threads
      /\ <<r, "back">> # <<r, "main">> /\ Sweeper # <<r, "back">> /\ Sweeper # <<r, "main">>
      /\ Tid(r, "back") = <<r, "back">> /\ Tid(r, "main") = <<r, "main">> /\ Tid(r, "sweep") = Sweeper
  BY TidFacts, WhoFacts DEF Tid, Threads
<1>3. /\ thread'[<<r, "back">>] = v /\ thread'[<<r, "main">>] = m
      /\ \A x \in Threads : x # <<r, "back">> /\ x # <<r, "main">> => thread'[x] = thread[x]
      /\ thread' \in [Threads -> CallState]
  BY <1>1, <1>2
<1>4. CallersOK'
  <2> SUFFICES ASSUME NEW x \in Threads
               PROVE  /\ thread'[x].pc = "idle" <=> thread'[x] = Idle
                      /\ thread'[x].pc # "idle" => thread'[x].request \in Requests
                      /\ x # Sweeper /\ thread'[x].pc # "idle" => thread'[x].request = x[1]
    BY DEF CallersOK
  <2>1. CASE x = <<r, "back">>
    <3>1. x[1] = r BY <2>1
    <3> QED BY <1>3, <2>1, <3>1, IdleFacts
  <2>2. CASE x # <<r, "back">> /\ thread'[x] = thread[x] BY <2>2 DEF Inv, CallersOK
  <2>3. CASE thread'[x] = Idle BY <2>3, IdleFacts
  <2> QED BY <1>3, <2>1, <2>2, <2>3
<1>5. /\ thread[<<r, "main">>].request = r \/ thread[<<r, "main">>] = Idle
  <2>1. <<r, "main">>[1] = r OBVIOUS
  <2> QED BY <1>2, <2>1 DEF Inv, CallersOK
<1>6. Task(r, "back")' = v /\ Task(r, "main")' = m /\ Task(r, "sweep")' = Task(r, "sweep")
  BY <1>2, <1>3, <1>5, IdleFacts DEF Task
<1>7. ASSUME NEW q \in Requests \ {r}, NEW u \in Who PROVE Task(q, u)' = Task(q, u)
  <2>1. Tid(q, u) \in Threads BY TidFacts
  <2>2. Tid(q, u) # Tid(r, "back") /\ Tid(q, u) # Tid(r, "main") BY TidFacts, WhoFacts
  <2>3. thread'[Tid(q, u)] = thread[Tid(q, u)] BY <1>2, <1>3, <2>1, <2>2
  <2> QED BY <2>3 DEF Task
<1>8. \A q \in Requests \ {r} : Tasks(q)' = Tasks(q) BY <1>7 DEF Tasks
<1>9. Tasks(r)' = [[Tasks(r) EXCEPT !["main"] = m] EXCEPT !["back"] = v]
  BY <1>6, WhoFacts DEF Tasks, Who
<1> QED BY <1>3, <1>4, <1>8, <1>9

(* What the dropped guard sends agrees with what was decided, or decides.  *)
LEMMA DropDecision ==
    ASSUME NEW r, NEW c0, NEW t, NEW e, NEW g, NEW l, NEW f, NEW h,
           Typed(r, c0, t, e, g, l, f), Cell(r, c0, t, e, g, l, f, h),
           NEW kind \in Kinds, NEW d, d = DropCall(g, kind)
    PROVE  /\ d \in Settlement \cup {NULL}
           /\ \E c \in Decision :
                /\ Cell(r, c, t, e, g, l, f, h) /\ Typed(r, c, t, e, g, l, f)
                /\ d # NULL => InPlay(d, c, e, l) /\ ~Starting(t, g)
<1>1. GuardOK(c0, t, e, g, l) /\ g \in GuardState /\ c0 \in Decision BY DEF Cell, Typed
<1>2. Tries \in Int /\ "back" \in Callers BY AccountingAssumption DEF Callers
<1>3. CASE g.decided # NULL
  <2>1. g.decided \in Settlement BY <1>1, <1>3 DEF GuardState
  <2>2. d \in Settlement /\ Agree(d, g.decided)
    <3>1. d = Copied(g.decided, "back", Tries) BY <1>3 DEF DropCall
    <3> QED BY <1>2, <2>1, <3>1, CopiedFacts
  <2>3. InPlay(g.decided, c0, e, l) BY <1>1, <1>3 DEF GuardOK
  <2>4. InPlay(d, c0, e, l) BY <2>2, <2>3 DEF InPlay, Agree
  <2>5. ~Starting(t, g)
    BY <1>1, <1>3 DEF GuardOK, Starting, Decided, StartPcs, AbandonPcs, SettlePcs, QuotePcs
  <2> QED BY <1>1, <2>2, <2>4, <2>5
<1>4. CASE g.decided = NULL /\ g.attempt = NULL
  <2>1. d = NULL BY <1>4 DEF DropCall
  <2> QED BY <1>1, <2>1
<1>5. CASE g.decided = NULL /\ g.attempt # NULL
  <2>1. g.phase = "serving" BY <1>1, <1>5 DEF GuardOK
  <2>2. g.attempt \in Ordinals BY <1>1, <1>5 DEF GuardState
  <2>3. d = [attempt |-> g.attempt, kind |-> kind, finalize |-> TRUE, copy |-> <<"back", Tries>>]
    BY <1>5 DEF DropCall
  <2>4. PICK c : c = [attempt |-> g.attempt, kind |-> kind, finalize |-> TRUE] OBVIOUS
  <2>5. c \in Decision /\ c.attempt = g.attempt /\ c.kind = kind /\ c.finalize = TRUE
    BY <2>2, <2>4, AccountingAssumption DEF Decision
  <2>6. d \in Settlement
    <3>1. <<"back", Tries>> \in Callers \X Int BY <1>2
    <3> QED BY <2>2, <2>3, <3>1, AccountingAssumption DEF Settlement
  <2>7. Agree(d, c) BY <2>3, <2>4 DEF Agree
  <2>8. Cell(r, c, t, e, g, l, f, h) /\ Typed(r, c, t, e, g, l, f) /\ InPlay(d, c, e, l)
    BY <2>1, <2>5, <2>7, DecideCell
  <2>9. ~Starting(t, g) BY <1>1, <2>1 DEF GuardOK, Starting, StartPcs, AbandonPcs
  <2> QED BY <2>5, <2>6, <2>8, <2>9
<1> QED BY <1>3, <1>4, <1>5

LEMMA GuardDropStep ==
    ASSUME Inv, NEW r \in Requests, NEW kind \in Kinds, GuardDrop(r, kind)
    PROVE  Inv'
<1>1. PICK t, e, g, l, f, h :
         /\ t = Tasks(r) /\ e = entry[r] /\ g = guard[r] /\ l = ledger[r] /\ f = finish[r]
         /\ h = gate[r]
  OBVIOUS
<1>2. PICK c0 \in Decision : Cell(r, c0, t, e, g, l, f, h) /\ Typed(r, c0, t, e, g, l, f)
  BY <1>1, CellFacts
<1>3. PICK d : d = DropCall(g, kind) OBVIOUS
<1>4. d \in Settlement \cup {NULL} BY <1>2, <1>3, DropDecision
<1>5. PICK c \in Decision :
         /\ Cell(r, c, t, e, g, l, f, h) /\ Typed(r, c, t, e, g, l, f)
         /\ d # NULL => InPlay(d, c, e, l) /\ ~Starting(t, g)
  BY <1>2, <1>3, DropDecision
<1>6. /\ g.phase \notin {"absent", "done"} /\ t["main"] = thread[<<r, "main">>]
      /\ UNCHANGED <<clock, entry, fence, finish, gate, ledger, faults>>
  BY <1>1, CellFacts DEF GuardDrop
<1>7. PICK pc : pc = IF d = NULL THEN "abandon" ELSE "settle" OBVIOUS
<1>8. PICK v \in CallState : /\ v = NewCall(r, pc, d, Tries) /\ v.pc = pc /\ v.request = r
                             /\ v.data = d /\ v.slot = NULL
  <2>1. pc \in Pcs \ {"idle"} /\ Tries \in Int
    BY <1>7, AccountingAssumption DEF Pcs, SettlePcs, AbandonPcs
  <2> QED BY <1>4, <2>1, NewCallFacts
<1>9. PICK m : m = IF t["main"].pc = "replied" THEN Idle ELSE t["main"] OBVIOUS
<1>10. thread' = [thread EXCEPT ![<<r, "back">>] = v, ![<<r, "main">>] = m]
  <2>1. <<r, "main">> # <<r, "back">> OBVIOUS
  <2>2. thread' = [thread EXCEPT ![<<r, "back">>] = NewCall(r, pc, d, Tries),
                       ![<<r, "main">>] = IF @.pc = "replied" THEN Idle ELSE @]
    BY <1>1, <1>3, <1>7 DEF GuardDrop
  <2> QED BY <1>6, <1>8, <1>9, <2>1, <2>2
<1>11. PICK g2 \in GuardState :
         /\ guard' = [guard EXCEPT ![r] = g2]
         /\ g2.phase = "done" /\ g2.attempt = NULL /\ g2.decided = NULL
  <2>1. PICK g2 : g2 = [phase |-> "done", attempt |-> NULL, decided |-> NULL] OBVIOUS
  <2>2. g2 \in GuardState /\ g2.phase = "done" /\ g2.attempt = NULL /\ g2.decided = NULL
    BY <2>1 DEF GuardState, Phases
  <2>3. guard' = [guard EXCEPT ![r] = g2] BY <2>1 DEF GuardDrop
  <2> QED BY <2>2, <2>3
<1>12. PICK t1 : t1 = [t EXCEPT !["main"] = m] OBVIOUS
<1>13. /\ Cell(r, c, t1, e, g2, l, f, h) /\ t1 \in [Who -> CallState] /\ m \in CallState
       /\ t1["back"] = Idle /\ (Starting(t1, g2) => Starting(t, g))
  <2>1. Cell(r, c, t, e, g, l, f, h) /\ Typed(r, c, t, e, g, l, f) BY <1>5
  <2>2. g.phase \notin {"absent", "done"} BY <1>6
  <2>3. g2.phase = "done" /\ g2.attempt = NULL /\ g2.decided = NULL BY <1>11
  <2>4. /\ Cell(r, c, [t EXCEPT !["main"] = m], e, g2, l, f, h)
        /\ [t EXCEPT !["main"] = m] \in [Who -> CallState] /\ m \in CallState
        /\ [t EXCEPT !["main"] = m]["back"] = Idle
        /\ Starting([t EXCEPT !["main"] = m], g2) => Starting(t, g)
    BY <1>9, <2>1, <2>2, <2>3, RetireCell
  <2> QED BY <1>12, <2>4
<1>14. Typed(r, c, t1, e, g2, l, f) BY <1>5, <1>13 DEF Typed
<1>15. TaskOK("back", r, c, v, e, l, f, h)
  <2>1. CASE d = NULL
    BY <1>7, <1>8, <2>1 DEF TaskOK, PcsOf, GatePcs, SettlePcs, QuotePcs, StartPcs, AbandonPcs
  <2>2. CASE d # NULL
    BY <1>5, <1>7, <1>8, <2>2 DEF TaskOK, PcsOf, GatePcs, SettlePcs, QuotePcs, StartPcs, AbandonPcs
  <2> QED BY <2>1, <2>2
<1>16. Cell(r, c, [t1 EXCEPT !["back"] = v], e, g2, l, f, h)
  <2>1. t1["back"].pc # "sdone" /\ v.pc \notin {"sdone", "clear", "swrite"}
    BY <1>7, <1>8, <1>13, IdleFacts
  <2>2. v.data # NULL => ~Quiet(t1, e) \/ (g2.phase = "done" /\ ~Starting(t1, g2))
    BY <1>5, <1>8, <1>11, <1>13
  <2>3. g2.phase # "absent" /\ g2.phase = "done" BY <1>11
  <2> QED BY <1>13, <1>14, <1>15, <2>1, <2>2, <2>3, OtherTask
<1>17. /\ thread' \in [Threads -> CallState] /\ CallersOK'
       /\ Tasks(r)' = [t1 EXCEPT !["back"] = v]
       /\ \A q \in Requests \ {r} : Tasks(q)' = Tasks(q)
  <2>1. m = Idle \/ m = thread[<<r, "main">>] BY <1>6, <1>9
  <2>2. v.pc # "idle" /\ v.request = r BY <1>7, <1>8
  <2>3. /\ thread' \in [Threads -> CallState] /\ CallersOK'
        /\ Tasks(r)' = [[Tasks(r) EXCEPT !["main"] = m] EXCEPT !["back"] = v]
        /\ \A q \in Requests \ {r} : Tasks(q)' = Tasks(q)
    BY <1>10, <1>13, <2>1, <2>2, TwoSet
  <2> QED BY <1>1, <1>12, <2>3
<1>18. /\ guard' \in [Requests -> GuardState] /\ guard'[r] = g2
       /\ \A q \in Requests \ {r} : guard'[q] = guard[q]
  BY <1>11, RestNow DEF Rest
<1>19. TypeOK' /\ FenceExact'
  BY <1>6, <1>17, <1>18 DEF Inv, TypeOK, FenceExact, Live
<1>20. Local(r) BY <1>6, <1>17, <1>18 DEF Local
<1>21. CellOK(r, c)' BY <1>1, <1>6, <1>16, <1>17, <1>18 DEF CellOK
<1> QED BY <1>17, <1>19, <1>20, <1>21, StepAt

-----------------------------------------------------------------------------
(* Every request starts without a row, an entry, a guard or a call. *)
LEMMA InitInv ==
    ASSUME Init
    PROVE  Inv
<1>1. TypeOK
  <2>1. thread \in [Threads -> CallState] BY IdleFacts DEF Init
  <2>2. ledger \in [Requests -> LedgerState] BY DEF Init, LedgerState, Rows
  <2>3. guard \in [Requests -> GuardState] BY DEF Init, GuardState, Phases
  <2>4. /\ clock \in [Requests -> 0..2] /\ entry \in [Requests -> InflightRequest \cup {NULL}]
        /\ fence \subseteq Requests /\ finish \in [Requests -> AllFaults \cup {NULL}]
        /\ gate \in [Requests -> Threads \cup {NULL}] /\ faults \in Nat
    BY DEF Init
  <2> QED BY <2>1, <2>2, <2>3, <2>4 DEF TypeOK
<1>2. CallersOK BY IdleFacts DEF Init, CallersOK
<1>3. FenceExact BY DEF Init, FenceExact, Live
<1>4. ASSUME NEW r \in Requests PROVE \E c \in Decision : CellOK(r, c)
  <2>1. PICK c : c = [attempt |-> 0, kind |-> "exact", finalize |-> TRUE] OBVIOUS
  <2>2. c \in Decision /\ c.attempt \in Ordinals
    BY <2>1, AccountingAssumption DEF Decision, Ordinals, AllKinds
  <2>3. PICK t, e, g, l, f, h :
           /\ t = Tasks(r) /\ e = entry[r] /\ g = guard[r] /\ l = ledger[r] /\ f = finish[r]
           /\ h = gate[r]
    OBVIOUS
  <2>4. /\ e = NULL /\ f = NULL /\ l.request = "none" /\ \A n \in Ordinals : l.attempt[n] = "none"
        /\ g.phase = "absent" /\ g.attempt = NULL /\ g.decided = NULL
    BY <2>3 DEF Init
  <2>5. \A w \in Who : t[w] = Idle
    BY <2>3, TidFacts DEF Init, Tasks, Task
  <2>6. \A w \in Who : TaskOK(w, r, c, t[w], e, l, f, h) BY <2>5, IdleOK
  <2>7. EntryOK(c, t, e, l, f) BY <2>2, <2>4 DEF EntryOK
  <2>8. \A w \in Who : t[w].pc = "idle" BY <2>5, IdleFacts
  <2>9. ~Starting(t, g) BY <2>8, WhoFacts DEF Starting, StartPcs, AbandonPcs
  <2>10. Served(t, e, g) BY <2>4 DEF Served
  <2>11. GuardOK(c, t, e, g, l) BY <2>4, <2>8, <2>9, <2>10, WhoFacts DEF GuardOK, Decided
  <2> QED BY <2>2, <2>3, <2>6, <2>7, <2>11 DEF Cell, CellOK
<1> QED BY <1>1, <1>2, <1>3, <1>4 DEF Inv

LEMMA StutterInv ==
    ASSUME Inv, UNCHANGED vars
    PROVE  Inv'
<1>1. TypeOK' /\ CallersOK' /\ FenceExact' BY DEF Inv, TypeOK, CallersOK, FenceExact, Live, vars
<1>2. \A r \in Requests : Tasks(r)' = Tasks(r) BY DEF Tasks, Task, vars
<1>3. \A r \in Requests, c \in Decision : CellOK(r, c) => CellOK(r, c)'
  BY <1>2 DEF CellOK, vars
<1> QED BY <1>1, <1>3 DEF Inv

LEMMA ThreadStepInv ==
    ASSUME Inv, NEW x \in Threads, ThreadStep(x)
    PROVE  Inv'
<1>1. ASSUME NEW fault \in Outcomes,
             StartClose(x, fault) \/ SettleWrite(x, fault) \/ AbandonWrite(x, fault)
      PROVE  Inv'
  BY <1>1, StartCloseStep, SettleWriteStep, AbandonWriteStep
<1>2. CASE StartEnter(x) BY <1>2, StartEnterStep
<1>3. CASE StartCheck(x) BY <1>3, StartCheckStep
<1>4. CASE StartReserve(x) BY <1>4, StartReserveStep
<1>5. CASE StartBind(x) BY <1>5, StartBindStep
<1>6. CASE StartLeave(x) BY <1>6, StartLeaveStep
<1>7. CASE StartAfter(x) BY <1>7, StartAfterStep
<1>8. CASE SettleRetain(x) BY <1>8, SettleRetainStep
<1>9. CASE SettleGate(x) BY <1>9, SettleGateStep
<1>10. CASE SettleDone(x) BY <1>10, SettleDoneStep
<1>11. CASE QuoteCheck(x) BY <1>11, QuoteCheckStep
<1>12. CASE QuoteRetain(x, TRUE) BY <1>12, QuoteRetainStep
<1>13. CASE QuoteRetain(x, FALSE) BY <1>13, QuoteRetainStep
<1>14. CASE AbandonIntend(x) BY <1>14, AbandonIntendStep
<1>15. CASE AbandonGate(x) BY <1>15, AbandonGateStep
<1>16. CASE AbandonDone(x) BY <1>16, AbandonDoneStep
<1>17. CASE SweepClear(x) BY <1>17, SweepClearStep
<1> QED
  BY <1>1, <1>2, <1>3, <1>4, <1>5, <1>6, <1>7, <1>8, <1>9, <1>10, <1>11, <1>12, <1>13, <1>14,
     <1>15, <1>16, <1>17 DEF ThreadStep

LEMMA NextInv ==
    ASSUME Inv, Next
    PROVE  Inv'
<1>1. ASSUME NEW x \in Threads, ThreadStep(x) PROVE Inv' BY <1>1, ThreadStepInv
<1>2. ASSUME NEW r \in Requests, Sweep(r) PROVE Inv'
  BY <1>2, SweepActions, SweepRetryStep DEF Sweep
<1>3. ASSUME NEW r \in Requests,
             \/ Admit(r) \/ Expire(r) \/ CallStart(r) \/ Started(r) \/ Quoted(r)
             \/ SettlePriced(r) \/ Delivered(r) \/ Redeliver(r)
      PROVE  Inv'
  BY <1>3, AdmitStep, ExpireStep, CallStartStep, StartedStep, QuotedStep, SettlePricedStep,
     DeliveredStep, RedeliverStep
<1>4. ASSUME NEW r \in Requests, NEW kind \in Kinds, GuardDrop(r, kind) PROVE Inv'
  BY <1>4, GuardDropStep
<1>5. ASSUME NEW r \in Requests, NEW kind \in Kinds, DecidePriced(r, kind) PROVE Inv'
  BY <1>5, DecideActions
<1>6. ASSUME NEW r \in Requests, NEW kind \in Kinds, NEW finalize \in BOOLEAN,
             Decide(r, kind, finalize)
      PROVE  Inv'
  BY <1>6, DecideActions
<1> QED BY <1>1, <1>2, <1>3, <1>4, <1>5, <1>6 DEF Next

(* The inductive invariant holds of the registry in every state: each      *)
(* request has one decision in play that every copy of it agrees with, and *)
(* every call is where the gate, the entry, the rows and the guard allow.  *)
THEOREM AccountingInvariant == Spec => []Inv
<1>1. Init => Inv BY InitInv
<1>2. Inv /\ [Next]_vars => Inv' BY NextInv, StutterInv
<1> QED BY <1>1, <1>2, PTL DEF Spec

-----------------------------------------------------------------------------
(* What the invariant says of the rows of a request. *)
LEMMA OneDispatched ==
    ASSUME Inv, NEW r \in Requests, NEW n \in Dispatched(r)
    PROVE  /\ n \in Ordinals /\ r \in Live
           /\ \/ entry[r].active = n
              \/ gate[r] = <<r, "main">> /\ At(<<r, "main">>, "bind") /\ entry[r].total = n
<1>1. n \in Ordinals /\ ledger[r].attempt[n] = "dispatched" BY DEF Dispatched
<1>2. PICK c \in Decision : Cell(r, c, Tasks(r), entry[r], guard[r], ledger[r], finish[r], gate[r])
  BY CellFacts
<1>3. Tasks(r)["main"] = thread[<<r, "main">>] /\ Tid(r, "main") = <<r, "main">> BY CellFacts
<1>4. /\ EntryOK(c, Tasks(r), entry[r], ledger[r], finish[r])
      /\ TaskOK("main", r, c, Tasks(r)["main"], entry[r], ledger[r], finish[r], gate[r])
  BY <1>2, WhoFacts DEF Cell
<1>5. /\ entry[r] # NULL
      /\ entry[r].active = n \/ (Tasks(r)["main"].pc = "bind" /\ entry[r].total = n)
  BY <1>1, <1>4 DEF EntryOK
<1>6. Tasks(r)["main"].pc = "bind" => gate[r] = <<r, "main">> BY <1>3, <1>4 DEF TaskOK, GatePcs
<1> QED BY <1>1, <1>3, <1>5, <1>6 DEF Live, At

(* Every open reservation has an owner that will close it: the entry names *)
(* it active, or start_attempt holds the gate and is about to bind it.     *)
THEOREM ReservationsCorrect == Spec => []ReservationsOwned
<1>1. Inv => ReservationsOwned
  <2> SUFFICES ASSUME Inv, NEW r \in Requests, NEW n \in Dispatched(r)
               PROVE  /\ r \in Live
                      /\ \/ entry[r].active = n
                         \/ \E x \in Threads : gate[r] = x /\ At(x, "bind") /\ entry[r].total = n
    BY DEF ReservationsOwned
  <2>1. <<r, "main">> \in Threads BY DEF Threads, Callers
  <2> QED BY <2>1, OneDispatched
<1> QED BY <1>1, AccountingInvariant, PTL

(* No successor is dispatched over an unsettled attempt: start_attempt runs*)
(* only once the previous settlement was acknowledged.                     *)
THEOREM OneOpenAttemptCorrect == Spec => []OneOpenAttempt
<1>1. ASSUME Inv, NEW r \in Requests, NEW n \in Dispatched(r), NEW k \in Dispatched(r) PROVE n = k
  <2>1. PICK c \in Decision : Cell(r, c, Tasks(r), entry[r], guard[r], ledger[r], finish[r], gate[r])
    BY <1>1, CellFacts
  <2>2. Tasks(r)["main"] = thread[<<r, "main">>] BY <1>1, CellFacts
  <2>3. GuardOK(c, Tasks(r), entry[r], guard[r], ledger[r]) BY <2>1 DEF Cell
  <2>4. TaskOK("main", r, c, Tasks(r)["main"], entry[r], ledger[r], finish[r], gate[r])
    BY <2>1, WhoFacts DEF Cell
  <2>5. At(<<r, "main">>, "bind") => entry[r].active = NULL
    <3> SUFFICES ASSUME Tasks(r)["main"].pc = "bind", entry[r] # NULL PROVE entry[r].active = NULL
      BY <1>1, <2>2, OneDispatched DEF At, Live
    <3>1. Starting(Tasks(r), guard[r]) BY DEF Starting, StartPcs
    <3>2. Tasks(r)["main"].slot = NULL BY <2>4 DEF TaskOK, AbandonPcs
    <3> QED BY <2>3, <3>1, <3>2 DEF GuardOK
  <2>6. n # NULL /\ k # NULL BY <1>1, OneDispatched, OrdinalFacts
  <2> QED BY <1>1, <2>5, <2>6, OneDispatched
<1>2. ASSUME Inv, NEW r \in Requests PROVE Cardinality(Dispatched(r)) <= 1
  <2>1. CASE Dispatched(r) = {} BY <2>1, FS_EmptySet
  <2>2. CASE Dispatched(r) # {}
    <3>1. PICK n : n \in Dispatched(r) BY <2>2
    <3>2. Dispatched(r) = {n} BY <1>1, <1>2, <3>1
    <3> QED BY <3>2, FS_Singleton
  <2> QED BY <2>1, <2>2
<1>3. Inv => OneOpenAttempt BY <1>2 DEF OneOpenAttempt
<1> QED BY <1>3, AccountingInvariant, PTL

(* The index of fenced requests is exactly the live entries that hold a    *)
(* fencing failed write, through every path that sets or clears a flag.    *)
THEOREM FenceCorrect == Spec => []FenceExact
<1>1. Inv => FenceExact BY DEF Inv
<1> QED BY <1>1, AccountingInvariant, PTL

(* A drained registry owes the ledger nothing: recovery_drained implies    *)
(* that no request is open and no attempt is dispatched.                   *)
THEOREM DrainCorrect == Spec => []DrainSafe
<1>1. ASSUME Inv, RecoveryDrained, NEW r \in Requests
      PROVE  ledger[r].request # "open" /\ Dispatched(r) = {}
  <2>1. PICK c \in Decision : Cell(r, c, Tasks(r), entry[r], guard[r], ledger[r], finish[r], gate[r])
    BY <1>1, CellFacts
  <2>2. EntryOK(c, Tasks(r), entry[r], ledger[r], finish[r]) BY <2>1 DEF Cell
  <2>3. Live = {} /\ finish[r] = NULL BY <1>1 DEF RecoveryDrained
  <2>4. entry[r] = NULL BY <2>3 DEF Live
  <2>5. ledger[r].request # "open" BY <2>2, <2>3, <2>4 DEF EntryOK
  <2>6. Dispatched(r) = {} BY <1>1, <2>3, OneDispatched
  <2> QED BY <2>5, <2>6
<1>2. Inv => DrainSafe BY <1>1 DEF DrainSafe
<1> QED BY <1>2, AccountingInvariant, PTL

(* An exact meter whose terminal bytes were released is retained: between  *)
(* the quote and its settlement the live entry holds that very evidence.   *)
THEOREM PricedCorrect == Spec => []PricedRetained
<1>1. ASSUME Inv, NEW r \in Requests, guard[r].phase = "flushed", r \in Live
      PROVE  SameSettlement(entry[r].pending, guard[r].decided)
  <2>1. PICK t, e, g, l, f, h :
           /\ t = Tasks(r) /\ e = entry[r] /\ g = guard[r] /\ l = ledger[r] /\ f = finish[r]
           /\ h = gate[r]
    OBVIOUS
  <2>2. PICK c \in Decision : Cell(r, c, t, e, g, l, f, h) /\ Typed(r, c, t, e, g, l, f)
    BY <1>1, <2>1, CellFacts
  <2>3. GuardOK(c, t, e, g, l) /\ EntryOK(c, t, e, l, f) BY <2>2 DEF Cell
  <2>4. e # NULL /\ g.phase = "flushed" BY <1>1, <2>1 DEF Live
  <2>5. e.pending # NULL /\ g.decided # NULL BY <2>3, <2>4 DEF GuardOK, Served, Decided
  <2>6. Agree(e.pending, c) /\ Agree(g.decided, c)
    BY <2>3, <2>4, <2>5 DEF EntryOK, GuardOK, InPlay
  <2>7. e.pending \in Settlement /\ g.decided \in Settlement
    BY <2>2, <2>4, <2>5 DEF Typed, InflightRequest, GuardState
  <2>8. Agree(e.pending, g.decided) BY <2>6 DEF Agree
  <2> QED BY <2>1, <2>7, <2>8, SameAgree
<1>2. Inv => PricedRetained BY <1>1 DEF PricedRetained
<1> QED BY <1>2, AccountingInvariant, PTL

-----------------------------------------------------------------------------
(* An exact meter the entry of r holds stays, or the ledger has it. *)
Kept(r) ==
    LET d == entry[r].pending IN
    (d # NULL /\ d.kind = "exact") =>
        \/ entry'[r] # NULL /\ SameSettlement(entry'[r].pending, d)
        \/ ledger'[r].attempt[d.attempt] = "exact"

LEMMA PendingTyped ==
    ASSUME Inv, NEW r \in Live
    PROVE  /\ r \in Requests /\ entry[r] \in InflightRequest /\ entry[r] # NULL
           /\ entry[r].pending \in Settlement \cup {NULL}
<1>1. r \in Requests /\ entry[r] \in InflightRequest /\ entry[r] # NULL BY DEF Live, Inv, TypeOK
<1> QED BY <1>1 DEF InflightRequest

LEMMA KeptSame ==
    ASSUME Inv, NEW r \in Live, entry'[r] # NULL, entry'[r].pending = entry[r].pending
    PROVE  Kept(r)
<1>1. entry[r].pending # NULL => entry[r].pending \in Settlement BY PendingTyped
<1>2. entry[r].pending # NULL => SameSettlement(entry[r].pending, entry[r].pending)
  BY <1>1, SameAgree DEF Agree
<1> QED BY <1>2 DEF Kept

(* What the evidence of a call has to do with the evidence of its entry. *)
LEMMA CallEvidence ==
    ASSUME Inv, NEW x \in Threads, thread[x].pc # "idle", NEW r \in Live, r = thread[x].request,
           entry[r].pending # NULL
    PROVE  /\ thread[x].pc # "leave"
           /\ thread[x].pc \in {"swrite", "sdone"} =>
                /\ thread[x].data \in Settlement /\ Agree(thread[x].data, entry[r].pending)
           /\ thread[x].pc \in {"sdone", "clear"} =>
                /\ thread[x].data \in Settlement
                /\ thread[x].data.kind = "exact" => ledger[r].attempt[thread[x].data.attempt] = "exact"
<1>1. PICK q \in Requests, w \in Who, c \in Decision : Opens(x, q, w, c) BY Opened
<1>2. PICK t, e, g, l, f, h :
         /\ t = Tasks(r) /\ e = entry[r] /\ g = guard[r] /\ l = ledger[r] /\ f = finish[r]
         /\ h = gate[r]
  OBVIOUS
<1>3. /\ Typed(r, c, t, e, g, l, f) /\ Cell(r, c, t, e, g, l, f, h) /\ t[w] = thread[x]
      /\ TaskOK(w, r, c, t[w], e, l, f, h)
  BY <1>1, <1>2, Zenon DEF Opens
<1>4. EntryOK(c, t, e, l, f) /\ GuardOK(c, t, e, g, l) /\ e # NULL /\ e.pending # NULL
  BY <1>2, <1>3, PendingTyped DEF Cell
<1>5. Agree(e.pending, c) BY <1>4 DEF EntryOK, InPlay
<1>6. t[w].pc # "leave"
  <2>1. SUFFICES ASSUME t[w].pc = "leave" PROVE FALSE OBVIOUS
  <2>2. w = "main" BY <1>3, <2>1 DEF TaskOK, PcsOf, Who, StartPcs, AbandonPcs, SettlePcs, QuotePcs
  <2>3. Starting(t, g) BY <2>1, <2>2 DEF Starting, StartPcs
  <2>4. Quiet(t, e) BY <1>4, <2>3 DEF GuardOK
  <2> QED BY <1>4, <2>4 DEF Quiet
<1>7. t[w].pc \in {"swrite", "sdone", "clear"} => t[w].data \in Settlement
  <2>1. t[w].pc \in {"swrite", "sdone", "clear"} => t[w].data # NULL BY <1>3 DEF TaskOK, SettlePcs
  <2> QED BY <1>3, <2>1 DEF Typed, CallState
<1>8. t[w].pc \in {"swrite", "sdone"} => Agree(t[w].data, e.pending)
  <2>1. t[w].pc \in {"swrite", "sdone"} => Agree(t[w].data, c) BY <1>3 DEF TaskOK, SettlePcs, InPlay
  <2> QED BY <1>5, <2>1 DEF Agree
<1>9. t[w].pc \in {"sdone", "clear"} =>
         (t[w].data.kind = "exact" => l.attempt[t[w].data.attempt] = "exact")
  BY <1>3 DEF TaskOK
<1> QED BY <1>2, <1>3, <1>6, <1>7, <1>8, <1>9

LEMMA StartKeeps ==
    ASSUME Inv, NEW x \in Threads, StartBind(x) \/ StartLeave(x), NEW r \in Live
    PROVE  Kept(r)
<1>1. entry \in [Requests -> InflightRequest \cup {NULL}] BY DEF Inv, TypeOK
<1>2. thread[x].pc # "idle" BY DEF StartBind, StartLeave, At
<1>3. PICK q \in Requests : q = thread[x].request BY <1>2, Located
<1>4. CASE r # q
  <2>1. entry'[r] = entry[r] BY <1>1, <1>3, <1>4, PendingTyped DEF StartBind, StartLeave, Drop
  <2> QED BY <2>1, KeptSame, PendingTyped
<1>5. CASE r = q /\ StartBind(x)
  <2>1. PICK e, e2 : e = entry[r] /\ e2 = [e EXCEPT !.active = e.total, !.total = e.total + 1]
    OBVIOUS
  <2>2. /\ e = entry[r] /\ e2 = [e EXCEPT !.active = e.total, !.total = e.total + 1]
        /\ entry'[r] = e2
    <3>1. entry' = [entry EXCEPT ![r] = e2] BY <1>3, <1>5, <2>1 DEF StartBind
    <3> QED BY <1>1, <1>5, <2>1, <3>1
  <2>3. e \in InflightRequest /\ e.total \in Int BY <2>2, PendingTyped DEF InflightRequest
  <2>4. e2.pending = e.pending BY <2>2, <2>3 DEF InflightRequest
  <2>5. e2 # NULL
    <3>1. r = thread[x].request BY <1>3, <1>5
    <3>2. thread[x].pc = "bind" BY <1>5 DEF StartBind, At
    <3>3. PICK u \in Requests, w \in Who, c \in Decision : Opens(x, u, w, c) BY <3>2, Opened
    <3>4. e.total < MaxAttempts BY <2>2, <3>1, <3>2, <3>3, Zenon DEF Opens, TaskOK
    <3>5. e2 \in InflightRequest
      <4>1. e.total \in Ordinals /\ e.total + 1 \in 0..MaxAttempts
        BY <2>3, <3>4, AccountingAssumption DEF Ordinals, InflightRequest
      <4> QED BY <2>2, <2>3, <4>1 DEF InflightRequest
    <3> QED BY <3>5, AccountingAssumption
  <2> QED BY <2>2, <2>4, <2>5, KeptSame
<1>6. CASE r = q /\ StartLeave(x)
  <2>1. thread[x].pc = "leave" BY <1>6 DEF StartLeave, At
  <2>2. entry[r].pending = NULL BY <1>2, <1>3, <1>6, <2>1, CallEvidence
  <2> QED BY <2>2 DEF Kept
<1> QED BY <1>4, <1>5, <1>6

LEMMA RetainKeeps ==
    ASSUME Inv, NEW x \in Threads, NEW r \in Live,
           \/ SettleRetain(x) \/ AbandonIntend(x)
           \/ \E priced \in BOOLEAN : QuoteRetain(x, priced)
    PROVE  Kept(r)
<1>1. entry \in [Requests -> InflightRequest \cup {NULL}] BY DEF Inv, TypeOK
<1>2. thread[x].pc # "idle" BY DEF SettleRetain, AbandonIntend, QuoteRetain, At
<1>3. PICK q \in Requests : q = thread[x].request BY <1>2, Located
<1>4. CASE entry' = entry BY <1>4, KeptSame, PendingTyped
<1>5. CASE entry[q].pending = NULL /\ entry' = [entry EXCEPT ![q].pending = thread[x].data]
  <2>1. CASE r = q BY <1>5, <2>1 DEF Kept
  <2>2. CASE r # q
    <3>1. entry'[r] = entry[r] BY <1>1, <1>5, <2>2, PendingTyped
    <3> QED BY <3>1, KeptSame, PendingTyped
  <2> QED BY <2>1, <2>2
<1>6. CASE entry' = [entry EXCEPT ![q].abandon = TRUE]
  <2>1. CASE r = q
    <3>1. PICK e, e2 : e = entry[r] /\ e2 = entry'[r] /\ e2 = [e EXCEPT !.abandon = TRUE]
      BY <1>1, <1>6, <2>1
    <3>2. e \in InflightRequest BY <3>1, PendingTyped
    <3>3. e2 \in InflightRequest /\ e2.pending = e.pending BY <3>1, <3>2 DEF InflightRequest
    <3> QED BY <3>1, <3>3, KeptSame, AccountingAssumption
  <2>2. CASE r # q
    <3>1. entry'[r] = entry[r] BY <1>1, <1>6, <2>2, PendingTyped
    <3> QED BY <3>1, KeptSame, PendingTyped
  <2> QED BY <2>1, <2>2
<1>7. SettleRetain(x) =>
         \/ entry' = entry
         \/ entry[q].pending = NULL /\ entry' = [entry EXCEPT ![q].pending = thread[x].data]
  BY <1>3 DEF SettleRetain
<1>8. AbandonIntend(x) => entry' = entry \/ entry' = [entry EXCEPT ![q].abandon = TRUE]
  BY <1>3 DEF AbandonIntend
<1>9. ASSUME NEW priced \in BOOLEAN, QuoteRetain(x, priced)
      PROVE  \/ entry' = entry
             \/ entry[q].pending = NULL /\ entry' = [entry EXCEPT ![q].pending = thread[x].data]
  BY <1>3, <1>9 DEF QuoteRetain
<1> QED BY <1>4, <1>5, <1>6, <1>7, <1>8, <1>9

LEMMA SettleWriteKeeps ==
    ASSUME Inv, NEW x \in Threads, NEW fault \in Outcomes, SettleWrite(x, fault), NEW r \in Live
    PROVE  Kept(r)
<1>1. entry \in [Requests -> InflightRequest \cup {NULL}] BY DEF Inv, TypeOK
<1>2. thread[x].pc = "swrite" BY DEF SettleWrite, At
<1>3. PICK q \in Requests : q = thread[x].request BY <1>2, Located
<1>4. PICK refused \in BOOLEAN :
        \/ entry' = entry
        \/ entry' = [entry EXCEPT ![q] = [entry[q] EXCEPT !.pending = thread[x].data,
                         !.writeFailed = TRUE, !.refused = refused]]
  BY <1>3, Zenon DEF SettleWrite, SettleFailed, Sync
<1>5. CASE entry' = entry BY <1>5, KeptSame, PendingTyped
<1>6. CASE entry' # entry
  <2>1. CASE r # q
    <3>1. entry'[r] = entry[r] BY <1>1, <1>4, <2>1, PendingTyped
    <3> QED BY <3>1, KeptSame, PendingTyped
  <2>2. CASE r = q /\ entry[r].pending = NULL BY <2>2 DEF Kept
  <2>3. CASE r = q /\ entry[r].pending # NULL
    <3>1. PICK e, e2 : /\ e = entry[r] /\ e2 = entry'[r]
                       /\ e2 = [e EXCEPT !.pending = thread[x].data, !.writeFailed = TRUE,
                                    !.refused = refused]
      BY <1>1, <1>4, <1>6, <2>3, PendingTyped, Zenon
    <3>2. thread[x].data \in Settlement /\ Agree(thread[x].data, entry[r].pending)
      BY <1>2, <1>3, <2>3, CallEvidence
    <3>3. e \in InflightRequest /\ entry[r].pending \in Settlement BY <2>3, <3>1, PendingTyped
    <3>4. e2 \in InflightRequest /\ e2.pending = thread[x].data
      BY <3>1, <3>2, <3>3 DEF InflightRequest
    <3>5. SameSettlement(entry'[r].pending, entry[r].pending) BY <3>1, <3>2, <3>3, <3>4, SameAgree
    <3> QED BY <3>1, <3>4, <3>5, AccountingAssumption DEF Kept
  <2> QED BY <2>1, <2>2, <2>3
<1> QED BY <1>5, <1>6

LEMMA LandedKeeps ==
    ASSUME Inv, NEW x \in Threads, SettleDone(x) \/ SweepClear(x), NEW r \in Live
    PROVE  Kept(r)
<1>1. entry \in [Requests -> InflightRequest \cup {NULL}] BY DEF Inv, TypeOK
<1>2. thread[x].pc \in {"sdone", "clear"} /\ ledger' = ledger BY DEF SettleDone, SweepClear, At
<1>3. PICK q \in Requests : q = thread[x].request BY <1>2, Located
<1>4. \A u \in Requests \ {q} : entry'[u] = entry[u]
  BY <1>1, <1>3 DEF SettleDone, SweepClear, Drop, Sync
<1>5. CASE r # q
  <2>1. entry'[r] = entry[r] BY <1>4, <1>5, PendingTyped
  <2> QED BY <2>1, KeptSame, PendingTyped
<1>6. CASE r = q /\ entry[r].pending = NULL BY <1>6 DEF Kept
<1>7. CASE r = q /\ entry[r].pending # NULL
  <2>1. PICK p, d : p = entry[r].pending /\ d = thread[x].data OBVIOUS
  <2>2. /\ d \in Settlement /\ p \in Settlement
        /\ d.kind = "exact" => ledger[r].attempt[d.attempt] = "exact"
    BY <1>2, <1>3, <1>7, <2>1, CallEvidence, PendingTyped
  <2>3. CASE Agree(p, d)
    <3>1. p.kind = "exact" => ledger'[r].attempt[p.attempt] = "exact" BY <1>2, <2>2, <2>3 DEF Agree
    <3> QED BY <2>1, <3>1 DEF Kept
  <2>4. CASE SweepClear(x) /\ ~Agree(p, d)
    <3>1. ~SameSettlement(p, d) BY <2>2, <2>4, SameAgree
    <3>2. entry' = entry BY <1>3, <1>7, <2>1, <2>4, <3>1 DEF SweepClear
    <3> QED BY <3>2, KeptSame, PendingTyped
  <2>5. CASE SettleDone(x)
    <3>1. thread[x].pc = "sdone" BY <2>5 DEF SettleDone, At
    <3>2. Agree(d, p) BY <1>3, <1>7, <2>1, <3>1, CallEvidence
    <3>3. Agree(p, d) BY <3>2 DEF Agree
    <3> QED BY <2>3, <3>3
  <2> QED BY <2>3, <2>4, <2>5
<1> QED BY <1>5, <1>6, <1>7

LEMMA AbandonKeeps ==
    ASSUME Inv, NEW x \in Threads, NEW r \in Live,
           AbandonDone(x) \/ \E fault \in Outcomes : AbandonWrite(x, fault)
    PROVE  Kept(r)
<1>1. entry \in [Requests -> InflightRequest \cup {NULL}] BY DEF Inv, TypeOK
<1>2. thread[x].pc # "idle" BY Zenon DEF AbandonDone, AbandonWrite, At
<1>3. PICK q \in Requests : q = thread[x].request BY <1>2, Located
<1>4. CASE AbandonDone(x)
  <2>1. entry' = entry \/ (entry[q].pending = NULL /\ entry' = [entry EXCEPT ![q] = NULL])
    BY <1>3, <1>4 DEF AbandonDone, Drop
  <2>2. CASE r = q /\ entry[q].pending = NULL BY <2>2 DEF Kept
  <2>3. CASE r # q \/ entry' = entry
    <3>1. entry'[r] = entry[r] BY <1>1, <2>1, <2>3, PendingTyped
    <3> QED BY <3>1, KeptSame, PendingTyped
  <2> QED BY <2>1, <2>2, <2>3
<1>5. ASSUME NEW fault \in Outcomes, AbandonWrite(x, fault) PROVE Kept(r)
  <2>1. PICK refused \in BOOLEAN :
          \/ entry' = entry
          \/ entry' = [entry EXCEPT ![q] = [entry[q] EXCEPT !.abandonFailed = TRUE,
                                                !.refused = refused]]
    BY <1>3, <1>5, Zenon DEF AbandonWrite, Sync
  <2>2. CASE r # q \/ entry' = entry
    <3>1. entry'[r] = entry[r] BY <1>1, <2>1, <2>2, PendingTyped
    <3> QED BY <3>1, KeptSame, PendingTyped
  <2>3. CASE r = q /\ entry' # entry
    <3>1. PICK e, e2 : /\ e = entry[r] /\ e2 = entry'[r]
                       /\ e2 = [e EXCEPT !.abandonFailed = TRUE, !.refused = refused]
      BY <1>1, <2>1, <2>3, PendingTyped, Zenon
    <3>2. e \in InflightRequest BY <3>1, PendingTyped
    <3>3. e2 \in InflightRequest /\ e2.pending = e.pending BY <3>1, <3>2 DEF InflightRequest
    <3> QED BY <3>1, <3>3, KeptSame, AccountingAssumption
  <2> QED BY <2>2, <2>3
<1> QED BY <1>4, <1>5

LEMMA AdmitKeeps ==
    ASSUME Inv, NEW q \in Requests, Admit(q), NEW r \in Live
    PROVE  Kept(r)
<1>1. entry \in [Requests -> InflightRequest \cup {NULL}] BY DEF Inv, TypeOK
<1>2. PICK c \in Decision : Cell(q, c, Tasks(q), entry[q], guard[q], ledger[q], finish[q], gate[q])
  BY CellFacts
<1>3. entry[q] = NULL BY <1>2 DEF Admit, Cell, GuardOK
<1>4. r # q BY <1>3 DEF Live
<1>5. entry'[r] = entry[r] BY <1>1, <1>4, PendingTyped DEF Admit
<1> QED BY <1>5, KeptSame, PendingTyped

LEMMA NextKeeps ==
    ASSUME Inv, Next, NEW r \in Live
    PROVE  Kept(r)
<1>1. CASE entry' = entry BY <1>1, KeptSame, PendingTyped
<1>2. ASSUME NEW x \in Threads, ThreadStep(x) PROVE Kept(r)
  <2>1. ASSUME NEW fault \in Outcomes, StartClose(x, fault) PROVE entry' = entry
    BY <2>1 DEF StartClose
  <2>2. CASE StartEnter(x) \/ StartCheck(x) \/ StartReserve(x) \/ StartAfter(x)
    <3>1. entry' = entry BY <2>2 DEF StartEnter, StartCheck, StartReserve, StartAfter
    <3> QED BY <1>1, <3>1
  <2>3. CASE SettleGate(x) \/ QuoteCheck(x) \/ AbandonGate(x)
    <3>1. entry' = entry BY <2>3 DEF SettleGate, QuoteCheck, AbandonGate
    <3> QED BY <1>1, <3>1
  <2>4. CASE StartBind(x) \/ StartLeave(x) BY <2>4, StartKeeps
  <2>5. CASE SettleRetain(x) \/ AbandonIntend(x) \/ QuoteRetain(x, TRUE) \/ QuoteRetain(x, FALSE)
    BY <2>5, RetainKeeps
  <2>6. CASE SettleDone(x) \/ SweepClear(x) BY <2>6, LandedKeeps
  <2>7. CASE AbandonDone(x) \/ \E fault \in Outcomes : AbandonWrite(x, fault)
    BY <2>7, AbandonKeeps
  <2>8. CASE \E fault \in Outcomes : SettleWrite(x, fault) BY <2>8, SettleWriteKeeps
  <2> QED BY <1>1, <1>2, <2>1, <2>2, <2>3, <2>4, <2>5, <2>6, <2>7, <2>8 DEF ThreadStep
<1>3. ASSUME NEW q \in Requests, Admit(q) PROVE Kept(r) BY <1>3, AdmitKeeps
<1>4. ASSUME NEW q \in Requests,
             \/ Expire(q) \/ CallStart(q) \/ Started(q) \/ Quoted(q) \/ SettlePriced(q)
             \/ Delivered(q) \/ Redeliver(q)
      PROVE  Kept(r)
  <2>1. entry' = entry
    BY <1>4 DEF Expire, CallStart, Started, Quoted, SettlePriced, Delivered, Redeliver
  <2> QED BY <1>1, <2>1
<1>5. ASSUME NEW q \in Requests, Sweep(q) PROVE Kept(r)
  <2>1. entry' = entry BY <1>5 DEF Sweep, SweepReplay, SweepExpired, SweepRetry
  <2> QED BY <1>1, <2>1
<1>6. ASSUME NEW q \in Requests, NEW kind \in Kinds, GuardDrop(q, kind) \/ DecidePriced(q, kind)
      PROVE  Kept(r)
  <2>1. entry' = entry BY <1>6 DEF GuardDrop, DecidePriced
  <2> QED BY <1>1, <2>1
<1>7. ASSUME NEW q \in Requests, NEW kind \in Kinds, NEW finalize \in BOOLEAN,
             Decide(q, kind, finalize)
      PROVE  Kept(r)
  <2>1. entry' = entry BY <1>7 DEF Decide
  <2> QED BY <1>1, <2>1
<1> QED BY <1>2, <1>3, <1>4, <1>5, <1>6, <1>7 DEF Next

(* Evidence the registry took responsibility for is never lost: in no step *)
(* does an exact meter leave its entry, or the entry the registry, before  *)
(* the ledger has that meter.                                              *)
THEOREM EvidenceCorrect == Spec => EvidenceKept
<1>1. ASSUME Inv, [Next]_vars
      PROVE  [\A r \in Live :
                LET d == entry[r].pending IN
                (d # NULL /\ d.kind = "exact") =>
                    \/ entry'[r] # NULL /\ SameSettlement(entry'[r].pending, d)
                    \/ ledger'[r].attempt[d.attempt] = "exact"]_vars
  <2>1. CASE Next BY <1>1, <2>1, NextKeeps DEF Kept
  <2>2. CASE UNCHANGED vars BY <2>2
  <2> QED BY <1>1, <2>1, <2>2
<1> QED BY <1>1, AccountingInvariant, PTL DEF Spec, EvidenceKept
=============================================================================
