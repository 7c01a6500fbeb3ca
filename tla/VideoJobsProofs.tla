--------------------------- MODULE VideoJobsProofs --------------------------
(***************************************************************************)
(* Theorems about the video job engines: a job is published only after its *)
(* ledger write, a render is bought again only on an error answer,         *)
(* retained evidence leaves an engine only when the ledger holds it, and   *)
(* the engines together keep the promise of paid work.                     *)
(***************************************************************************)
EXTENDS VideoJobs, TLAPS

CreatorState == [pc : {"start", "record", "submit", "accepted", "failover", "settling", "done"},
                 rung : Rungs]
GateState == [pc : {"free", "winner", "finish", "publish", "conflict", "superseded", "unresolved"},
              create : BOOLEAN]
RemoteStates == {"none", "denied", "running", "done", "failed", "forgotten"}

TypeOK ==
    /\ route \in Rungs /\ creator \in CreatorState
    /\ att \in [Rungs -> Attempt]
    /\ row \in [Rungs -> JobRow \cup {NULL}]
    /\ remote \in [Rungs -> RemoteStates]
    /\ pend \in [Engines -> [Rungs -> Pending \cup {NULL}]]
    /\ gate \in [Engines -> [Rungs -> GateState]]
    /\ stops \in Nat

(* An attempt that is not closed carries no evidence, and one that an      *)
(* outcome closed carries some: a meter, or the mark of recovery.          *)
AttemptOK(a) ==
    /\ a.state \in {"none", "open"} => a.meter = "none" /\ ~a.recovery /\ ~a.waived
    /\ a.state \in {"completed", "failed"} => a.recovery \/ a.meter # "none"
Over(a) == a.state \in {"completed", "failed", "crash"}

(* What the ledger holds once it has acknowledged a settlement. *)
Acknowledged(p, a) ==
    /\ Over(a)
    /\ p.event \in Meters => a.meter = p.event
    /\ p.event = "waive" => a.waived

RowOK(j, a) ==
    j # NULL =>
        /\ a.state # "none"
        /\ j.state = "settled" => Over(a) /\ (j.billed # "none" => j.billed = a.meter)

LedgerInv == \A r \in Rungs : AttemptOK(att[r]) /\ RowOK(row[r], att[r])

(* A retained settlement belongs to an attempt; a provider's completion    *)
(* was rendered; what is marked written is acknowledged, and only that is  *)
(* published; a waiver is superseded by an exact meter that stays.         *)
PendOK(p, g, a, job) ==
    /\ g.pc # "free" => p # NULL
    /\ p # NULL =>
        /\ a.state # "none"
        /\ p.event = "full" => job # "none"
        /\ p.written => Acknowledged(p, a)
    /\ g.pc = "publish" => p.written
    /\ g.pc = "superseded" => Over(a) /\ a.meter # "none" /\ ~Provisional(a)
    /\ g.pc # "unresolved"
PendInv ==
    \A e \in Engines, r \in Rungs : PendOK(pend[e][r], gate[e][r], att[r], remote[r])

(* The create call: the rungs after the one it is at are untouched, those  *)
(* before it rendered at most behind an error answer, and its own renders  *)
(* nothing before its one submission.                                      *)
Untouched(r) ==
    /\ att[r].state = "none" /\ row[r] = NULL
    /\ \A e \in Engines : pend[e][r] = NULL
CreatorInv ==
    /\ \A r \in Rungs : r > creator.rung => Untouched(r)
    /\ creator.pc = "start" => Untouched(creator.rung)
    /\ \A r \in Rungs :
        /\ remote[r] # "none" => r <= creator.rung
        /\ remote[r] \notin {"none", "denied"} =>
               r = creator.rung /\ creator.pc \in {"accepted", "settling", "done"}
    /\ creator.pc \in {"start", "record", "submit"} => remote[creator.rung] = "none"
    /\ creator.pc = "failover" => creator.rung < route
    /\ creator.pc = "record" => /\ row[creator.rung] = NULL
                                /\ \A e \in Engines : pend[e][creator.rung] = NULL
    /\ creator.pc \in {"record", "submit"} =>
        /\ att[creator.rung].state # "none" /\ att[creator.rung].meter = "none"
        /\ ~att[creator.rung].waived
        /\ \A e \in Engines : pend[e][creator.rung] # NULL =>
               pend[e][creator.rung].event = "recover"
    /\ creator.pc \in {"submit", "accepted"} => row[creator.rung] # NULL
    /\ creator.pc = "submit" => row[creator.rung].state # "sent"
    /\ \A e \in Engines, r \in Rungs : gate[e][r].create =>
           e = Home /\ r = creator.rung /\ creator.pc \in {"failover", "settling"}

Inv == TypeOK /\ LedgerInv /\ PendInv /\ CreatorInv

-----------------------------------------------------------------------------
(* What a ledger write may do to an attempt: evidence only grows. *)
Grows(a, b) ==
    /\ a.state # "none" => b.state # "none"
    /\ Over(a) => Over(b)
    /\ a.meter # "none" => b.meter = a.meter
    /\ a.waived => b.waived
    /\ Over(a) /\ ~Provisional(a) => ~Provisional(b)

LEMMA SameGrows == \A a : Grows(a, a)
BY DEF Grows

LEMMA SettledFacts ==
    ASSUME NEW a \in Attempt, AttemptOK(a), a.state # "none",
           NEW p \in Pending, Answer(a, p.event) = "ok"
    PROVE  /\ Settled(a, p.event) \in Attempt /\ AttemptOK(Settled(a, p.event))
           /\ Grows(a, Settled(a, p.event)) /\ Acknowledged(p, Settled(a, p.event))
           /\ p.event = "recover" => /\ Settled(a, p.event).meter = a.meter
                                     /\ Settled(a, p.event).waived = a.waived
<1>0. p.event \in {"zero", "full", "recover", "waive"} /\ Meters = {"zero", "full"}
  BY DEF Pending, Events, Meters
<1>1. CASE a.state = "open"
  <2>1. PICK b : b = [state |-> StateOf(p.event), meter |-> MeterOf(p.event),
                      recovery |-> p.event \in {"recover", "waive"},
                      waived |-> p.event = "waive"]
    OBVIOUS
  <2>2. Settled(a, p.event) = b BY <1>1, <2>1 DEF Settled
  <2>3. /\ b.state = StateOf(p.event) /\ b.meter = MeterOf(p.event)
        /\ b.recovery = (p.event \in {"recover", "waive"}) /\ b.waived = (p.event = "waive")
    BY <2>1
  <2>4. StateOf(p.event) \in {"completed", "failed"} /\ MeterOf(p.event) \in {"zero", "full", "none"}
    BY <1>0 DEF StateOf, MeterOf
  <2>5. b \in Attempt BY <2>1, <2>4, <1>0 DEF Attempt
  <2>6. AttemptOK(b) BY <1>0, <2>3, <2>4 DEF AttemptOK, MeterOf
  <2>7. Grows(a, b) BY <1>1, <2>3, <2>4 DEF Grows, Over, AttemptOK
  <2>8. Acknowledged(p, b) BY <1>0, <2>3, <2>4 DEF Acknowledged, Over, MeterOf
  <2>9. p.event = "recover" => b.meter = a.meter /\ b.waived = a.waived
    BY <1>0, <1>1, <2>3 DEF MeterOf, AttemptOK, Attempt
  <2> QED BY <2>2, <2>5, <2>6, <2>7, <2>8, <2>9
<1>2. CASE a.state # "open"
  <2>0. Over(a) BY <1>2 DEF Over, Attempt
  <2>1. CASE p.event = "waive"
    <3>1. Settled(a, p.event) = [a EXCEPT !.waived = TRUE] /\ Provisional(a)
      BY <1>0, <1>2, <2>1 DEF Settled, Answer
    <3> QED BY <1>0, <2>0, <2>1, <3>1
            DEF Attempt, AttemptOK, Grows, Acknowledged, Over, Provisional
  <2>2. CASE p.event \in Meters
    <3>1. Settled(a, p.event) = [a EXCEPT !.meter = p.event] /\ a.meter \in {p.event, "none"}
      BY <1>0, <1>2, <2>2 DEF Settled, Answer
    <3> QED BY <1>0, <2>0, <2>2, <3>1
            DEF Attempt, AttemptOK, Grows, Acknowledged, Over, Provisional
  <2>3. CASE p.event = "recover"
    <3>1. Settled(a, p.event) = a BY <1>0, <1>2, <2>3 DEF Settled
    <3> QED BY <1>0, <2>0, <2>3, <3>1 DEF Grows, Acknowledged
  <2> QED BY <1>0, <2>1, <2>2, <2>3
<1> QED BY <1>1, <1>2

LEMMA RowGrows ==
    ASSUME NEW j, NEW a, NEW b, RowOK(j, a), Grows(a, b), AttemptOK(a),
           j # NULL => j.billed = "none" \/ j.billed # "none"
    PROVE  RowOK(j, b)
BY DEF RowOK, Grows, Over

LEMMA PendGrows ==
    ASSUME NEW p, NEW g, NEW a, NEW b, NEW m, NEW n,
           PendOK(p, g, a, m), Grows(a, b), m # "none" => n # "none",
           p # NULL => p \in Pending
    PROVE  PendOK(p, g, b, n)
<1>1. "none" \notin Meters BY DEF Meters
<1> QED BY <1>1 DEF PendOK, Grows, Acknowledged

-----------------------------------------------------------------------------
(* Updates of one engine's cell. *)
LEMMA CellSet ==
    ASSUME NEW S, NEW f \in [Engines -> [Rungs -> S]], NEW e \in Engines, NEW r \in Rungs,
           NEW v \in S
    PROVE  /\ [f EXCEPT ![e][r] = v] \in [Engines -> [Rungs -> S]]
           /\ [f EXCEPT ![e][r] = v][e][r] = v
           /\ \A d \in Engines, q \in Rungs :
                  d # e \/ q # r => [f EXCEPT ![e][r] = v][d][q] = f[d][q]
OBVIOUS

Elsewhere(e, r) ==
    \A d \in Engines, q \in Rungs :
        d # e \/ q # r => pend'[d][q] = pend[d][q] /\ gate'[d][q] = gate[d][q]

LEMMA GateAtEffect ==
    ASSUME TypeOK, NEW e \in Engines, NEW r \in Rungs,
           NEW pc \in {"free", "winner", "finish", "publish", "conflict", "superseded", "unresolved"},
           GateAt(e, r, pc)
    PROVE  /\ gate' \in [Engines -> [Rungs -> GateState]]
           /\ gate'[e][r].pc = pc /\ gate'[e][r].create = gate[e][r].create
           /\ \A d \in Engines, q \in Rungs : d # e \/ q # r => gate'[d][q] = gate[d][q]
<1>1. gate \in [Engines -> [Rungs -> GateState]] /\ gate[e][r] \in GateState BY DEF TypeOK
<1>2. PICK g \in GateState : g = [gate[e][r] EXCEPT !.pc = pc] /\ g.pc = pc
                             /\ g.create = gate[e][r].create
  <2>1. /\ [gate[e][r] EXCEPT !.pc = pc] \in GateState
        /\ [gate[e][r] EXCEPT !.pc = pc].pc = pc
        /\ [gate[e][r] EXCEPT !.pc = pc].create = gate[e][r].create
    BY <1>1 DEF GateState
  <2> QED BY <2>1
<1>3. gate' = [gate EXCEPT ![e][r] = g] BY <1>1, <1>2 DEF GateAt
<1> QED BY <1>1, <1>2, <1>3, CellSet

(* A step of one engine on one job: what stays, and what is owed for the   *)
(* rest.                                                                   *)
LEMMA EngineStep ==
    ASSUME Inv, NEW e \in Engines, NEW r \in Rungs,
           att' \in [Rungs -> Attempt], AttemptOK(att'[r]), Grows(att[r], att'[r]),
           row' \in [Rungs -> JobRow \cup {NULL}], RowOK(row'[r], att'[r]),
           \A q \in Rungs \ {r} : att'[q] = att[q] /\ row'[q] = row[q],
           pend' \in [Engines -> [Rungs -> Pending \cup {NULL}]],
           gate' \in [Engines -> [Rungs -> GateState]], Elsewhere(e, r),
           PendOK(pend'[e][r], gate'[e][r], att'[r], remote[r]),
           UNCHANGED <<route, remote, stops>>, creator' \in CreatorState, CreatorInv'
    PROVE  Inv'
<1>i. TypeOK /\ LedgerInv /\ PendInv BY DEF Inv
<1>1. TypeOK' BY <1>i DEF TypeOK
<1>2. LedgerInv' BY <1>i DEF LedgerInv
<1>3. PendInv'
  <2> SUFFICES ASSUME NEW d \in Engines, NEW q \in Rungs
               PROVE  PendOK(pend'[d][q], gate'[d][q], att'[q], remote'[q])
    BY DEF PendInv
  <2>1. CASE d = e /\ q = r BY <2>1
  <2>2. CASE d # e \/ q # r
    <3>1. pend'[d][q] = pend[d][q] /\ gate'[d][q] = gate[d][q] BY <2>2 DEF Elsewhere
    <3>2. PendOK(pend[d][q], gate[d][q], att[q], remote[q]) BY <1>i DEF PendInv
    <3>3. Grows(att[q], att'[q]) BY SameGrows
    <3>4. pend[d][q] # NULL => pend[d][q] \in Pending BY <1>i DEF TypeOK
    <3> QED BY <3>1, <3>2, <3>3, <3>4, PendGrows
  <2> QED BY <2>1, <2>2
<1> QED BY <1>1, <1>2, <1>3 DEF Inv

(* The create call is not concerned by a step on a job it has recorded,    *)
(* unless it waits for that job's gate.                                    *)
LEMMA CreatorKept ==
    ASSUME Inv, NEW e \in Engines, NEW r \in Rungs, Elsewhere(e, r),
           \A q \in Rungs \ {r} : att'[q] = att[q] /\ row'[q] = row[q],
           row[r] # NULL \/ pend[e][r] # NULL, att[r].state # "none" => att'[r].state # "none",
           row[r] # NULL <=> row'[r] # NULL,
           row'[r] # NULL => row'[r].state \in {row[r].state, "settled"},
           creator.pc = "submit" /\ creator.rung = r =>
               /\ pend'[e][r] # NULL => pend'[e][r].event = "recover"
               /\ att'[r].meter = att[r].meter /\ att'[r].waived = att[r].waived,
           gate'[e][r].create => gate[e][r].create,
           UNCHANGED <<route, remote, creator>>
    PROVE  CreatorInv'
<1>i. TypeOK /\ CreatorInv BY DEF Inv
<1>0. creator.rung \in Rungs /\ Rungs \subseteq Nat BY <1>i DEF TypeOK, CreatorState, Rungs
<1>1. ~Untouched(r) BY DEF Untouched
<1>2. ASSUME NEW q \in Rungs, Untouched(q) PROVE Untouched(q)'
  BY <1>1, <1>2 DEF Untouched, Elsewhere
<1>3. \A q \in Rungs : q > creator.rung => Untouched(q)' BY <1>2, <1>i DEF CreatorInv
<1>4. creator.pc = "start" => Untouched(creator.rung)'
  BY <1>0, <1>2, <1>i DEF CreatorInv
<1>5. creator.pc = "record" => /\ creator.rung # r /\ row'[creator.rung] = NULL
                               /\ \A d \in Engines : pend'[d][creator.rung] = NULL
  BY <1>0, <1>i DEF CreatorInv, Elsewhere
<1>6. creator.pc \in {"record", "submit"} =>
        /\ att'[creator.rung].state # "none" /\ att'[creator.rung].meter = "none"
        /\ ~att'[creator.rung].waived
        /\ \A d \in Engines : pend'[d][creator.rung] # NULL =>
               pend'[d][creator.rung].event = "recover"
  BY <1>0, <1>5, <1>i DEF CreatorInv, Elsewhere
<1>7. creator.pc \in {"submit", "accepted"} => row'[creator.rung] # NULL
  BY <1>0, <1>i DEF CreatorInv
<1>8. creator.pc = "submit" => row'[creator.rung].state # "sent"
  BY <1>0, <1>7, <1>i DEF CreatorInv
<1>9. \A d \in Engines, q \in Rungs : gate'[d][q].create => gate[d][q].create
  BY DEF Elsewhere
<1> QED BY <1>3, <1>4, <1>5, <1>6, <1>7, <1>8, <1>9, <1>i DEF CreatorInv

(* Leaving a gate the create call waits for sends it on. *)
LEMMA LeaveKept ==
    ASSUME Inv, NEW e \in Engines, NEW r \in Rungs, Leave(e, r), pend[e][r] # NULL,
           Elsewhere(e, r), pend'[e][r] \in {NULL, pend[e][r]},
           \A q \in Rungs \ {r} : row'[q] = row[q],
           row[r] # NULL <=> row'[r] # NULL,
           row'[r] # NULL => row'[r].state \in {row[r].state, "settled"},
           UNCHANGED <<route, remote, att>>
    PROVE  /\ creator' \in CreatorState /\ CreatorInv'
           /\ gate' \in [Engines -> [Rungs -> GateState]] /\ gate'[e][r].pc = "free"
<1>i. TypeOK /\ CreatorInv BY DEF Inv
<1>0. creator.rung \in Rungs /\ Rungs \subseteq Nat /\ route \in Rungs
  BY <1>i DEF TypeOK, CreatorState, Rungs
<1>1. PICK g \in GateState : g = [pc |-> "free", create |-> FALSE] BY DEF GateState
<1>2. gate' = [gate EXCEPT ![e][r] = g] BY <1>1 DEF Leave
<1>3. gate \in [Engines -> [Rungs -> GateState]] BY <1>i DEF TypeOK
<1>4. /\ gate' \in [Engines -> [Rungs -> GateState]] /\ gate'[e][r].pc = "free"
      /\ gate'[e][r].create = FALSE
  BY <1>1, <1>2, <1>3, CellSet
<1>5. CASE ~gate[e][r].create
  <2>1. creator' = creator BY <1>5 DEF Leave
  <2>2. creator.pc = "submit" /\ creator.rung = r =>
           (pend'[e][r] # NULL => pend'[e][r].event = "recover")
    BY <1>i DEF CreatorInv
  <2>3. CreatorInv' BY <2>1, <2>2, <1>4, CreatorKept
  <2> QED BY <1>4, <2>1, <2>3, <1>i DEF TypeOK
<1>6. CASE gate[e][r].create
  <2>1. e = Home /\ r = creator.rung /\ creator.pc \in {"failover", "settling"}
    BY <1>6, <1>i DEF CreatorInv
  <2>2. \A d \in Engines, q \in Rungs : ~gate'[d][q].create
    BY <1>4, <2>1, <1>i DEF CreatorInv, Elsewhere
  <2>3. \A q \in Rungs : q > creator.rung => Untouched(q)'
    BY <2>1, <1>0, <1>i DEF CreatorInv, Untouched, Elsewhere
  <2>4. CASE creator.pc = "failover"
    <3>1. creator' = [pc |-> "start", rung |-> r + 1] BY <1>6, <2>4 DEF Leave
    <3>2. r < route BY <2>1, <2>4, <1>i DEF CreatorInv
    <3>3. r + 1 \in Rungs BY <3>2, <1>0, VideoAssumption DEF Rungs
    <3>4. creator' \in CreatorState /\ creator'.pc = "start" /\ creator'.rung = r + 1
      BY <3>1, <3>3 DEF CreatorState
    <3>5. /\ \A q \in Rungs : remote'[q] \in {"none", "denied"} /\ (remote'[q] # "none" => q <= r)
          /\ remote'[r + 1] = "none"
      BY <2>1, <2>4, <3>3, <1>0, <1>i DEF CreatorInv
    <3>6. \A q \in Rungs : q > r + 1 => q > creator.rung BY <2>1, <1>0
    <3>7. r + 1 > creator.rung BY <2>1, <1>0
    <3>8. (creator.pc = "start" => Untouched(creator.rung))'
      BY <2>3, <3>3, <3>4, <3>7 DEF Untouched
    <3>9. \A q \in Rungs : (q > creator.rung => Untouched(q))' BY <2>3, <3>4, <3>6
    <3>10. CreatorInv' BY <2>2, <3>4, <3>5, <3>8, <3>9, <1>0 DEF CreatorInv
    <3> QED BY <1>4, <3>4, <3>10
  <2>5. CASE creator.pc = "settling"
    <3>1. creator' = [creator EXCEPT !.pc = "done"] BY <1>6, <2>5 DEF Leave
    <3>2. creator' \in CreatorState /\ creator'.pc = "done" /\ creator'.rung = creator.rung
      BY <3>1, <1>i DEF CreatorState, TypeOK
    <3>3. CreatorInv' BY <2>2, <2>3, <3>2, <1>i DEF CreatorInv
    <3> QED BY <1>4, <3>2, <3>3
  <2> QED BY <2>1, <2>4, <2>5
<1> QED BY <1>5, <1>6

-----------------------------------------------------------------------------
(* The steps of an engine under a job's gate. *)
LEMMA Cell ==
    ASSUME Inv, NEW e \in Engines, NEW r \in Rungs
    PROVE  /\ att[r] \in Attempt /\ AttemptOK(att[r]) /\ RowOK(row[r], att[r])
           /\ PendOK(pend[e][r], gate[e][r], att[r], remote[r])
           /\ pend[e][r] # NULL => pend[e][r] \in Pending
           /\ row[r] # NULL => row[r] \in JobRow
           /\ gate[e][r] \in GateState /\ remote[r] \in RemoteStates
           /\ gate[e][r].pc # "free" => pend[e][r] # NULL /\ pend[e][r] \in Pending
BY DEF Inv, TypeOK, LedgerInv, PendInv, PendOK

(* The gate's holder goes on, having written the job row or not. *)
LEMMA GateMovesOn ==
    ASSUME Inv, NEW e \in Engines, NEW r \in Rungs,
           NEW pc \in {"free", "winner", "finish", "publish", "conflict", "superseded"},
           NEW p \in Pending, GateAt(e, r, pc), pend' = [pend EXCEPT ![e][r] = p],
           p # pend[e][r] => /\ row[r] # NULL \/ pend[e][r] # NULL
                             /\ ~p.written /\ att[r].state # "none"
                             /\ p.event = "full" => remote[r] # "none"
                             /\ creator.pc = "submit" /\ creator.rung = r => p.event = "recover",
           pc = "publish" => p.written,
           pc = "superseded" => Over(att[r]) /\ att[r].meter # "none" /\ ~Provisional(att[r]),
           row' \in [Rungs -> JobRow \cup {NULL}], RowOK(row'[r], att[r]),
           \A q \in Rungs \ {r} : row'[q] = row[q],
           row[r] # NULL <=> row'[r] # NULL,
           row'[r] # NULL => row'[r].state \in {row[r].state, "settled"},
           UNCHANGED <<att, route, remote, stops, creator>>
    PROVE  Inv'
<1>i. TypeOK /\ CreatorInv BY DEF Inv
<1>c. /\ AttemptOK(att[r]) /\ RowOK(row[r], att[r])
      /\ PendOK(pend[e][r], gate[e][r], att[r], remote[r])
      /\ pend[e][r] # NULL => pend[e][r] \in Pending
  BY Cell
<1>n. p # NULL BY NullAssumption
<1>1. /\ gate' \in [Engines -> [Rungs -> GateState]]
      /\ gate'[e][r].pc = pc /\ gate'[e][r].create = gate[e][r].create
      /\ \A d \in Engines, q \in Rungs : d # e \/ q # r => gate'[d][q] = gate[d][q]
  BY <1>i, GateAtEffect
<1>2. /\ pend' \in [Engines -> [Rungs -> Pending \cup {NULL}]] /\ pend'[e][r] = p
      /\ \A d \in Engines, q \in Rungs : d # e \/ q # r => pend'[d][q] = pend[d][q]
  <2>1. pend \in [Engines -> [Rungs -> Pending \cup {NULL}]] /\ p \in Pending \cup {NULL}
    BY <1>i DEF TypeOK
  <2> QED BY <2>1, CellSet
<1>3. Elsewhere(e, r) BY <1>1, <1>2 DEF Elsewhere
<1>4. PendOK(pend'[e][r], gate'[e][r], att'[r], remote[r])
  BY <1>1, <1>2, <1>c, <1>n DEF PendOK
<1>5. row[r] # NULL \/ pend[e][r] # NULL BY <1>n
<1>6. creator.pc = "submit" /\ creator.rung = r => p.event = "recover"
  BY <1>n, <1>i DEF CreatorInv
<1>7. CreatorInv' BY <1>1, <1>2, <1>3, <1>5, <1>6, CreatorKept
<1>8. creator' \in CreatorState /\ att' \in [Rungs -> Attempt] BY <1>i DEF TypeOK
<1>9. Grows(att[r], att'[r]) BY SameGrows
<1> QED BY <1>1, <1>2, <1>3, <1>4, <1>7, <1>8, <1>9, <1>c, EngineStep

LEMMA GateMoves ==
    ASSUME Inv, NEW e \in Engines, NEW r \in Rungs,
           NEW pc \in {"free", "winner", "finish", "publish", "conflict", "superseded"},
           NEW p \in Pending, GateAt(e, r, pc), pend' = [pend EXCEPT ![e][r] = p],
           p # pend[e][r] => /\ row[r] # NULL \/ pend[e][r] # NULL
                             /\ ~p.written /\ att[r].state # "none"
                             /\ p.event = "full" => remote[r] # "none"
                             /\ creator.pc = "submit" /\ creator.rung = r => p.event = "recover",
           pc = "publish" => p.written,
           pc = "superseded" => Over(att[r]) /\ att[r].meter # "none" /\ ~Provisional(att[r]),
           UNCHANGED <<att, row, route, remote, stops, creator>>
    PROVE  Inv'
<1>1. row' \in [Rungs -> JobRow \cup {NULL}] BY DEF Inv, TypeOK
<1>2. RowOK(row'[r], att[r]) BY Cell
<1> QED BY <1>1, <1>2, GateMovesOn

LEMMA SamePend ==
    ASSUME Inv, NEW e \in Engines, NEW r \in Rungs
    PROVE  pend = [pend EXCEPT ![e][r] = pend[e][r]]
BY DEF Inv, TypeOK

(* The gate is given back, with the settlement kept or accepted. *)
LEMMA GateLeft ==
    ASSUME Inv, NEW e \in Engines, NEW r \in Rungs, pend[e][r] # NULL,
           Accept(e, r) \/ Keep(e, r),
           row' \in [Rungs -> JobRow \cup {NULL}], RowOK(row'[r], att[r]),
           \A q \in Rungs \ {r} : row'[q] = row[q],
           row[r] # NULL <=> row'[r] # NULL,
           row'[r] # NULL => row'[r].state \in {row[r].state, "settled"},
           UNCHANGED <<att, route, remote, stops>>
    PROVE  Inv'
<1>i. TypeOK BY DEF Inv
<1>c. /\ att[r] \in Attempt /\ AttemptOK(att[r])
      /\ PendOK(pend[e][r], gate[e][r], att[r], remote[r])
  BY Cell
<1>0. Leave(e, r) BY DEF Accept, Keep
<1>1. /\ pend' \in [Engines -> [Rungs -> Pending \cup {NULL}]]
      /\ pend'[e][r] \in {NULL, pend[e][r]}
      /\ \A d \in Engines, q \in Rungs : d # e \/ q # r => pend'[d][q] = pend[d][q]
  <2>1. pend \in [Engines -> [Rungs -> Pending \cup {NULL}]] BY <1>i DEF TypeOK
  <2>2. CASE Accept(e, r)
    <3>1. pend' = [pend EXCEPT ![e][r] = NULL] BY <2>2 DEF Accept
    <3>2. NULL \in Pending \cup {NULL} OBVIOUS
    <3> QED BY <2>1, <3>1, <3>2, CellSet
  <2>3. CASE Keep(e, r) BY <2>1, <2>3 DEF Keep
  <2> QED BY <2>2, <2>3
<1>2. \A d \in Engines, q \in Rungs : d # e \/ q # r => gate'[d][q] = gate[d][q]
  BY <1>0, <1>i DEF Leave, TypeOK
<1>3. Elsewhere(e, r) BY <1>1, <1>2 DEF Elsewhere
<1>4. /\ creator' \in CreatorState /\ CreatorInv'
      /\ gate' \in [Engines -> [Rungs -> GateState]] /\ gate'[e][r].pc = "free"
  BY <1>0, <1>1, <1>3, LeaveKept
<1>5. PendOK(pend'[e][r], gate'[e][r], att'[r], remote[r])
  BY <1>1, <1>4, <1>c DEF PendOK
<1>6. Grows(att[r], att'[r]) BY SameGrows
<1>7. att' \in [Rungs -> Attempt] BY <1>i DEF TypeOK
<1> QED BY <1>1, <1>3, <1>4, <1>5, <1>6, <1>7, <1>c, EngineStep

LEMMA GateLeftQuietly ==
    ASSUME Inv, NEW e \in Engines, NEW r \in Rungs, pend[e][r] # NULL,
           Accept(e, r) \/ Keep(e, r), UNCHANGED <<att, row, route, remote, stops>>
    PROVE  Inv'
<1>1. row' \in [Rungs -> JobRow \cup {NULL}] BY DEF Inv, TypeOK
<1>2. RowOK(row'[r], att[r]) BY Cell
<1> QED BY <1>1, <1>2, GateLeft

LEMMA RetryKeeps ==
    ASSUME Inv, NEW e \in Engines, NEW r \in Rungs, Retry(e, r)
    PROVE  Inv'
<1>1. /\ pend[e][r] # NULL /\ GateAt(e, r, "winner")
      /\ UNCHANGED <<att, row, route, remote, stops, creator, pend>>
  BY DEF Retry, gateStay, ledger
<1>2. pend[e][r] \in Pending BY <1>1, Cell
<1>3. PICK p \in Pending : p = pend[e][r] BY <1>2
<1>4. pend' = [pend EXCEPT ![e][r] = p] BY <1>1, <1>3, SamePend
<1> QED BY <1>1, <1>3, <1>4, GateMoves

LEMMA RefreshKeeps ==
    ASSUME Inv, NEW e \in Engines, NEW r \in Rungs, Refresh(e, r)
    PROVE  Inv'
<1>i. TypeOK /\ CreatorInv BY DEF Inv
<1>1. /\ pend[e][r] = NULL /\ row[r] # NULL /\ row[r].state # "settled"
      /\ Observation(r) # "none" /\ GateAt(e, r, "winner")
      /\ Owned(e, r, Retained(Observation(r), TRUE))
      /\ UNCHANGED <<att, row, route, remote, stops, creator>>
  BY DEF Refresh, gateStay, ledger
<1>2. /\ Observation(r) \in Events
      /\ Observation(r) = "full" => remote[r] # "none"
      /\ row[r].state = "unsent" => Observation(r) = "recover"
  BY <1>1 DEF Observation, PollReply, Events, Meters
<1>3. PICK p \in Pending : /\ p = Retained(Observation(r), TRUE)
                           /\ p.event = Observation(r) /\ ~p.written
  <2>1. PICK event \in Events : event = Observation(r) BY <1>2
  <2>2. /\ Retained(event, TRUE) \in Pending /\ Retained(event, TRUE).event = event
        /\ ~Retained(event, TRUE).written
    BY DEF Retained, Pending
  <2> QED BY <2>1, <2>2
<1>4. pend' = [pend EXCEPT ![e][r] = p] BY <1>1, <1>3, <1>i DEF Owned, TypeOK
<1>5. row[r] \in JobRow /\ att[r].state # "none" BY <1>1, Cell DEF RowOK
<1>6. creator.pc = "submit" /\ creator.rung = r => p.event = "recover"
  BY <1>1, <1>2, <1>3, <1>5, <1>i DEF CreatorInv, JobRow
<1> QED BY <1>1, <1>2, <1>3, <1>4, <1>5, <1>6, GateMoves

LEMMA CheckWinnerKeeps ==
    ASSUME Inv, NEW e \in Engines, NEW r \in Rungs, CheckWinner(e, r)
    PROVE  Inv'
<1>1. gate[e][r].pc = "winner" /\ UNCHANGED <<att, row, route, remote, stops>>
  BY DEF CheckWinner, gateStay, ledger
<1>2. pend[e][r] # NULL /\ pend[e][r] \in Pending BY <1>1, Cell
<1>3. CASE Accept(e, r) BY <1>1, <1>2, <1>3, GateLeftQuietly
<1>4. CASE ~Accept(e, r)
  <2>1. PICK p \in Pending : p = pend[e][r] BY <1>2
  <2>2. PICK pc \in {"publish", "finish"} : pc = IF p.written THEN "publish" ELSE "finish"
    OBVIOUS
  <2>3. GateAt(e, r, pc) /\ UNCHANGED <<pend, creator>>
    BY <1>4, <2>1, <2>2 DEF CheckWinner
  <2>4. pend' = [pend EXCEPT ![e][r] = p] BY <2>1, <2>3, SamePend
  <2> QED BY <1>1, <2>1, <2>2, <2>3, <2>4, GateMoves
<1> QED BY <1>3, <1>4

LEMMA FinishRefusedKeeps ==
    ASSUME Inv, NEW e \in Engines, NEW r \in Rungs, FinishRefused(e, r)
    PROVE  Inv'
<1>1. /\ gate[e][r].pc = "finish" /\ Answer(att[r], pend[e][r].event) # "ok"
      /\ GateAt(e, r, Answer(att[r], pend[e][r].event))
      /\ UNCHANGED <<att, row, route, remote, stops, creator, pend>>
  BY DEF FinishRefused, gateStay, ledger
<1>2. /\ pend[e][r] \in Pending /\ att[r] \in Attempt /\ AttemptOK(att[r])
      /\ att[r].state # "none"
  BY <1>1, Cell DEF PendOK
<1>3. PICK pc \in {"conflict", "superseded"} :
        /\ pc = Answer(att[r], pend[e][r].event)
        /\ pc = "superseded" => Over(att[r]) /\ att[r].meter # "none" /\ ~Provisional(att[r])
  BY <1>1, <1>2 DEF Answer, AttemptOK, Attempt, Over, Provisional
<1>4. PICK p \in Pending : p = pend[e][r] BY <1>2
<1>5. pend' = [pend EXCEPT ![e][r] = p] BY <1>1, <1>4, SamePend
<1>6. GateAt(e, r, pc) /\ pc # "publish" /\ p = pend[e][r] BY <1>1, <1>3, <1>4
<1>7. pc \in {"free", "winner", "finish", "publish", "conflict", "superseded"} BY <1>3
<1>8. pc = "superseded" => Over(att[r]) /\ att[r].meter # "none" /\ ~Provisional(att[r])
  BY <1>3
<1>9. UNCHANGED <<att, row, route, remote, stops, creator>> BY <1>1
<1> QED BY <1>5, <1>6, <1>7, <1>8, <1>9, GateMoves

(* The ledger write, acknowledged or not. *)
LEMMA LedgerWritten ==
    ASSUME Inv, NEW e \in Engines, NEW r \in Rungs,
           NEW pc \in {"publish", "conflict"}, NEW p \in Pending, NEW w \in BOOLEAN,
           p = pend[e][r], gate[e][r].pc = "finish",
           Answer(att[r], p.event) = "ok", Finished(p, r), GateAt(e, r, pc),
           pend' = [pend EXCEPT ![e][r] = [p EXCEPT !.written = w]],
           pc = "publish" => w,
           UNCHANGED <<row, route, remote, stops, creator>>
    PROVE  Inv'
<1>i. TypeOK /\ CreatorInv BY DEF Inv
<1>n. p # NULL BY NullAssumption
<1>c. /\ att[r] \in Attempt /\ AttemptOK(att[r]) /\ RowOK(row[r], att[r])
      /\ PendOK(p, gate[e][r], att[r], remote[r]) /\ (row[r] # NULL => row[r] \in JobRow)
  BY Cell
<1>0. att[r].state # "none" BY <1>n, <1>c DEF PendOK
<1>1. PICK b : b = Settled(att[r], p.event) OBVIOUS
<1>2. /\ b \in Attempt /\ AttemptOK(b) /\ Grows(att[r], b) /\ Acknowledged(p, b)
      /\ p.event = "recover" => b.meter = att[r].meter /\ b.waived = att[r].waived
  BY <1>0, <1>1, <1>c, SettledFacts
<1>3. /\ att' \in [Rungs -> Attempt] /\ att'[r] = b
      /\ \A q \in Rungs \ {r} : att'[q] = att[q]
  BY <1>1, <1>2, <1>i DEF Finished, TypeOK
<1>4. PICK v \in Pending : /\ v = [p EXCEPT !.written = w] /\ v.written = w
                           /\ v.event = p.event
  <2>1. /\ [p EXCEPT !.written = w] \in Pending /\ [p EXCEPT !.written = w].written = w
        /\ [p EXCEPT !.written = w].event = p.event
    BY DEF Pending
  <2> QED BY <2>1
<1>5. v # NULL BY NullAssumption
<1>6. /\ gate' \in [Engines -> [Rungs -> GateState]]
      /\ gate'[e][r].pc = pc /\ gate'[e][r].create = gate[e][r].create
      /\ \A d \in Engines, q \in Rungs : d # e \/ q # r => gate'[d][q] = gate[d][q]
  BY <1>i, GateAtEffect
<1>7. /\ pend' \in [Engines -> [Rungs -> Pending \cup {NULL}]] /\ pend'[e][r] = v
      /\ \A d \in Engines, q \in Rungs : d # e \/ q # r => pend'[d][q] = pend[d][q]
  <2>1. pend \in [Engines -> [Rungs -> Pending \cup {NULL}]] /\ v \in Pending \cup {NULL}
    BY <1>i DEF TypeOK
  <2> QED BY <1>4, <2>1, CellSet
<1>8. Elsewhere(e, r) BY <1>6, <1>7 DEF Elsewhere
<1>9. Acknowledged(v, b) BY <1>2, <1>4 DEF Acknowledged
<1>10. PendOK(pend'[e][r], gate'[e][r], att'[r], remote[r])
  <2>1. b.state # "none" BY <1>2 DEF Acknowledged, Over
  <2> QED BY <2>1, <1>3, <1>4, <1>5, <1>6, <1>7, <1>9, <1>c, <1>n DEF PendOK
<1>11. RowOK(row'[r], att'[r]) BY <1>2, <1>3, <1>c, RowGrows
<1>12. creator.pc = "submit" /\ creator.rung = r => p.event = "recover"
  BY <1>n, <1>i DEF CreatorInv
<1>13. CreatorInv'
  <2>1. creator.pc = "submit" /\ creator.rung = r =>
           /\ pend'[e][r] # NULL => pend'[e][r].event = "recover"
           /\ att'[r].meter = att[r].meter /\ att'[r].waived = att[r].waived
    BY <1>12, <1>2, <1>3, <1>4, <1>7
  <2>2. att'[r].state # "none" BY <1>2, <1>3 DEF Acknowledged, Over
  <2> QED BY <1>3, <1>6, <1>8, <1>n, <2>1, <2>2, CreatorKept
<1>14. creator' \in CreatorState /\ row' \in [Rungs -> JobRow \cup {NULL}]
  BY <1>i DEF TypeOK
<1> QED BY <1>2, <1>3, <1>6, <1>7, <1>8, <1>10, <1>11, <1>13, <1>14, EngineStep

LEMMA FinishAttemptKeeps ==
    ASSUME Inv, NEW e \in Engines, NEW r \in Rungs, FinishAttempt(e, r)
    PROVE  Inv'
<1>i. TypeOK BY DEF Inv
<1>1. /\ gate[e][r].pc = "finish" /\ Answer(att[r], pend[e][r].event) = "ok"
      /\ Finished(pend[e][r], r) /\ GateAt(e, r, "publish")
      /\ pend' = [pend EXCEPT ![e][r].written = TRUE]
      /\ UNCHANGED <<row, route, remote, stops, creator>>
  BY DEF FinishAttempt, gateStay
<1>2. PICK p \in Pending : p = pend[e][r] BY <1>1, Cell
<1>3. pend' = [pend EXCEPT ![e][r] = [p EXCEPT !.written = TRUE]]
  BY <1>1, <1>2, <1>i DEF TypeOK
<1>4. TRUE \in BOOLEAN OBVIOUS
<1> QED BY <1>1, <1>2, <1>3, <1>4, LedgerWritten

LEMMA FinishFailsKeeps ==
    ASSUME Inv, NEW e \in Engines, NEW r \in Rungs, FinishFails(e, r)
    PROVE  Inv'
<1>i. TypeOK BY DEF Inv
<1>1. /\ gate[e][r].pc = "finish" /\ Answer(att[r], pend[e][r].event) = "ok"
      /\ GateAt(e, r, "conflict") /\ (Finished(pend[e][r], r) \/ UNCHANGED att)
      /\ UNCHANGED <<row, route, remote, stops, creator, pend>>
  BY DEF FinishFails, gateStay, ledger
<1>2. PICK p \in Pending : p = pend[e][r] BY <1>1, Cell
<1>3. CASE UNCHANGED att
  <2>1. pend' = [pend EXCEPT ![e][r] = p] BY <1>1, <1>2, SamePend
  <2> QED BY <1>1, <1>2, <1>3, <2>1, GateMoves
<1>4. CASE Finished(pend[e][r], r)
  <2>1. PICK w \in BOOLEAN : w = p.written BY DEF Pending
  <2>2. [p EXCEPT !.written = w] = p BY <2>1 DEF Pending
  <2>3. pend' = [pend EXCEPT ![e][r] = [p EXCEPT !.written = w]]
    BY <1>1, <1>2, <2>2, SamePend
  <2> QED BY <1>1, <1>2, <1>4, <2>3, LedgerWritten
<1> QED BY <1>1, <1>3, <1>4

(* save_open of the closed job publishes what the ledger acknowledged. *)
LEMMA PublishedEffect ==
    ASSUME Inv, NEW e \in Engines, NEW r \in Rungs, gate[e][r].pc = "publish",
           Published(pend[e][r], r)
    PROVE  /\ row' \in [Rungs -> JobRow \cup {NULL}] /\ RowOK(row'[r], att[r])
           /\ \A q \in Rungs \ {r} : row'[q] = row[q]
           /\ row[r] # NULL <=> row'[r] # NULL
           /\ row'[r] # NULL => row'[r].state \in {row[r].state, "settled"}
<1>i. row \in [Rungs -> JobRow \cup {NULL}] BY DEF Inv, TypeOK
<1>c. /\ RowOK(row[r], att[r]) /\ pend[e][r] \in Pending /\ pend[e][r] # NULL
      /\ PendOK(pend[e][r], gate[e][r], att[r], remote[r])
  BY Cell
<1>1. Acknowledged(pend[e][r], att[r]) BY <1>c DEF PendOK
<1>2. CASE row' = row BY <1>2, <1>c, <1>i
<1>3. CASE /\ row[r] # NULL
           /\ row' = [row EXCEPT ![r] = [state |-> "settled", billed |-> MeterOf(pend[e][r].event)]]
  <2>1. PICK j : j = [state |-> "settled", billed |-> MeterOf(pend[e][r].event)] OBVIOUS
  <2>2. /\ j \in JobRow /\ j.state = "settled" /\ j.billed = MeterOf(pend[e][r].event)
    BY <2>1, <1>c DEF JobRow, MeterOf
  <2>3. j # NULL BY <2>2, NullAssumption
  <2>4. /\ row' \in [Rungs -> JobRow \cup {NULL}] /\ row'[r] = j
        /\ \A q \in Rungs \ {r} : row'[q] = row[q]
    BY <1>3, <1>i, <2>1, <2>2
  <2>5. RowOK(j, att[r])
    BY <1>1, <2>2 DEF RowOK, Acknowledged, MeterOf, Over
  <2> QED BY <1>3, <2>2, <2>3, <2>4, <2>5
<1> QED BY <1>2, <1>3 DEF Published

LEMMA PublishKeeps ==
    ASSUME Inv, NEW e \in Engines, NEW r \in Rungs, Publish(e, r)
    PROVE  Inv'
<1>1. /\ gate[e][r].pc = "publish" /\ Published(pend[e][r], r) /\ Accept(e, r)
      /\ UNCHANGED <<att, route, remote, stops>>
  BY DEF Publish, gateStay, ledger
<1>2. pend[e][r] # NULL BY <1>1, Cell
<1> QED BY <1>1, <1>2, PublishedEffect, GateLeft

LEMMA PublishFailsKeeps ==
    ASSUME Inv, NEW e \in Engines, NEW r \in Rungs, PublishFails(e, r)
    PROVE  Inv'
<1>1. /\ gate[e][r].pc = "publish" /\ (Published(pend[e][r], r) \/ UNCHANGED row)
      /\ GateAt(e, r, "conflict") /\ UNCHANGED <<att, route, remote, stops, creator, pend>>
  BY DEF PublishFails, gateStay, ledger
<1>2. PICK p \in Pending : p = pend[e][r] BY <1>1, Cell
<1>3. pend' = [pend EXCEPT ![e][r] = p] BY <1>1, <1>2, SamePend
<1>4. CASE UNCHANGED row BY <1>1, <1>2, <1>3, <1>4, GateMoves
<1>5. CASE Published(pend[e][r], r)
  <2>1. /\ row' \in [Rungs -> JobRow \cup {NULL}] /\ RowOK(row'[r], att[r])
        /\ \A q \in Rungs \ {r} : row'[q] = row[q]
        /\ row[r] # NULL <=> row'[r] # NULL
        /\ row'[r] # NULL => row'[r].state \in {row[r].state, "settled"}
    BY <1>1, <1>5, PublishedEffect
  <2> QED BY <1>1, <1>2, <1>3, <2>1, GateMovesOn
<1> QED BY <1>1, <1>4, <1>5

LEMMA AfterFailureKeeps ==
    ASSUME Inv, NEW e \in Engines, NEW r \in Rungs, AfterFailure(e, r)
    PROVE  Inv'
<1>i. TypeOK /\ CreatorInv BY DEF Inv
<1>1. gate[e][r].pc \in Undelivered /\ UNCHANGED <<att, row, route, remote, stops>>
  BY DEF AfterFailure, gateStay, ledger
<1>2. pend[e][r] # NULL /\ att[r].state # "none" BY <1>1, Cell DEF Undelivered, PendOK
<1>3. CASE Accept(e, r) \/ Keep(e, r) BY <1>1, <1>2, <1>3, GateLeftQuietly
<1>4. CASE /\ Replayable(r) /\ GateAt(e, r, "winner") /\ UNCHANGED creator
           /\ pend' = [pend EXCEPT ![e][r] =
                          [Retained(PollReply(r), TRUE) EXCEPT !.replay = TRUE]]
  <2>1. PICK event \in Events : /\ event = PollReply(r) /\ remote[r] # "none"
    BY <1>4 DEF Replayable, PollReply, Events, Meters
  <2>2. PICK p \in Pending : /\ p = [Retained(event, TRUE) EXCEPT !.replay = TRUE]
                             /\ p.event = event /\ ~p.written
    <3>1. /\ [Retained(event, TRUE) EXCEPT !.replay = TRUE] \in Pending
          /\ [Retained(event, TRUE) EXCEPT !.replay = TRUE].event = event
          /\ ~[Retained(event, TRUE) EXCEPT !.replay = TRUE].written
      BY DEF Retained, Pending
    <3> QED BY <3>1
  <2>3. ~(creator.pc = "submit" /\ creator.rung = r) BY <2>1, <1>i DEF CreatorInv
  <2>4. pend' = [pend EXCEPT ![e][r] = p] BY <1>4, <2>1, <2>2
  <2> QED BY <1>1, <1>2, <1>4, <2>1, <2>2, <2>3, <2>4, GateMoves
<1> QED BY <1>3, <1>4 DEF AfterFailure
-----------------------------------------------------------------------------
(* The provider, time, the ledger's sweep, shutdown and death. *)
LEMMA WorldKeeps ==
    ASSUME Inv, NEW r \in Rungs,
           att' \in [Rungs -> Attempt], AttemptOK(att'[r]), Grows(att[r], att'[r]),
           att'[r].meter = att[r].meter, att'[r].waived = att[r].waived,
           att[r].state = "none" => att'[r] = att[r],
           remote' \in [Rungs -> RemoteStates],
           \A q \in Rungs : remote'[q] # "none" <=> remote[q] # "none",
           \A q \in Rungs : remote'[q] = "denied" <=> remote[q] = "denied",
           \A q \in Rungs \ {r} : att'[q] = att[q],
           stops' \in Nat, UNCHANGED <<route, creator, row, pend, gate>>
    PROVE  Inv'
<1>i. TypeOK /\ LedgerInv /\ PendInv /\ CreatorInv BY DEF Inv
<1>1. TypeOK' BY <1>i DEF TypeOK
<1>0. \A q \in Rungs : Grows(att[q], att'[q]) BY SameGrows
<1>2. LedgerInv'
  <2> SUFFICES ASSUME NEW q \in Rungs PROVE AttemptOK(att'[q]) /\ RowOK(row'[q], att'[q])
    BY DEF LedgerInv
  <2>1. AttemptOK(att'[q]) BY <1>i DEF LedgerInv
  <2>2. RowOK(row[q], att[q]) /\ AttemptOK(att[q]) BY <1>i DEF LedgerInv
  <2>3. RowOK(row[q], att'[q]) BY <2>2, <1>0, RowGrows
  <2> QED BY <2>1, <2>3
<1>3. PendInv'
  <2> SUFFICES ASSUME NEW d \in Engines, NEW q \in Rungs
               PROVE  PendOK(pend'[d][q], gate'[d][q], att'[q], remote'[q])
    BY DEF PendInv
  <2>1. PendOK(pend[d][q], gate[d][q], att[q], remote[q]) BY <1>i DEF PendInv
  <2>2. pend[d][q] # NULL => pend[d][q] \in Pending BY <1>i DEF TypeOK
  <2> QED BY <2>1, <2>2, <1>0, PendGrows
<1>4. CreatorInv'
  <2>1. creator.rung \in Rungs BY <1>i DEF TypeOK, CreatorState
  <2>2. \A q \in Rungs : Untouched(q) => Untouched(q)' BY DEF Untouched
  <2>3. creator.pc \in {"record", "submit"} =>
          /\ att'[creator.rung].state # "none" /\ att'[creator.rung].meter = "none"
          /\ ~att'[creator.rung].waived
    BY <2>1, <1>0, <1>i DEF CreatorInv, Grows
  <2>4. creator.pc = "start" => Untouched(creator.rung)' BY <2>1, <2>2, <1>i DEF CreatorInv
  <2>5. \A q \in Rungs : q > creator.rung => Untouched(q)' BY <2>2, <1>i DEF CreatorInv
  <2>6. /\ \A q \in Rungs :
             /\ remote'[q] # "none" => q <= creator.rung
             /\ remote'[q] \notin {"none", "denied"} =>
                    q = creator.rung /\ creator.pc \in {"accepted", "settling", "done"}
        /\ creator.pc \in {"start", "record", "submit"} => remote'[creator.rung] = "none"
    BY <2>1, <1>i DEF CreatorInv
  <2> QED BY <2>3, <2>4, <2>5, <2>6, <1>i DEF CreatorInv
<1> QED BY <1>1, <1>2, <1>3, <1>4 DEF Inv

LEMMA SomeRung == 1 \in Rungs
BY VideoAssumption DEF Rungs

LEMMA QuietKeeps ==
    ASSUME Inv, stops' \in Nat,
           remote' \in [Rungs -> RemoteStates],
           \A q \in Rungs : remote'[q] # "none" <=> remote[q] # "none",
           \A q \in Rungs : remote'[q] = "denied" <=> remote[q] = "denied",
           UNCHANGED <<route, creator, row, att, pend, gate>>
    PROVE  Inv'
<1>1. att' \in [Rungs -> Attempt] BY DEF Inv, TypeOK
<1>2. AttemptOK(att'[1]) BY SomeRung DEF Inv, LedgerInv
<1>3. Grows(att[1], att'[1]) BY SameGrows
<1> QED BY <1>1, <1>2, <1>3, SomeRung, WorldKeeps

LEMMA WorldSteps ==
    ASSUME Inv,
           \/ \E e \in Engines : Close(e) \/ Exit(e)
           \/ \E r \in Rungs : Sweep(r) \/ Forget(r) \/ Tick(r)
                               \/ \E how \in {"done", "failed"} : RemoteEnds(r, how)
    PROVE  Inv'
<1>i. TypeOK BY DEF Inv
<1>s. stops \in Nat /\ remote \in [Rungs -> RemoteStates] BY <1>i DEF TypeOK
<1>1. ASSUME NEW e \in Engines, Close(e) \/ Exit(e) PROVE Inv'
  <2>1. stops' \in Nat /\ UNCHANGED <<route, creator, row, att, pend, gate, remote>>
    BY <1>1, <1>s DEF Close, Exit, Stop, local, ledger
  <2> QED BY <2>1, <1>s, QuietKeeps
<1>2. ASSUME NEW r \in Rungs, Tick(r) PROVE Inv'
  <2>1. UNCHANGED <<route, creator, row, att, pend, gate, remote, stops>>
    BY <1>2 DEF Tick, local, ledger
  <2> QED BY <2>1, <1>s, QuietKeeps
<1>3. ASSUME NEW r \in Rungs, Forget(r) \/ RemoteEnds(r, "done") \/ RemoteEnds(r, "failed")
      PROVE  Inv'
  <2>1. /\ remote[r] \notin {"none", "denied"}
        /\ UNCHANGED <<route, creator, row, att, pend, gate, stops>>
        /\ \E how \in RemoteStates \ {"none", "denied"} : remote' = [remote EXCEPT ![r] = how]
    BY <1>3 DEF Forget, RemoteEnds, local, ledger, RemoteStates
  <2> QED BY <2>1, <1>s, QuietKeeps
<1>4. ASSUME NEW r \in Rungs, Sweep(r) PROVE Inv'
  <2>1. /\ att[r].state = "open" /\ att' = [att EXCEPT ![r].state = "crash"]
        /\ UNCHANGED <<route, creator, row, pend, gate, remote, stops>>
    BY <1>4 DEF Sweep, local
  <2>2. att \in [Rungs -> Attempt] /\ att[r] \in Attempt /\ AttemptOK(att[r])
    BY <1>i DEF TypeOK, Inv, LedgerInv
  <2>3. PICK b \in Attempt : /\ b = [att[r] EXCEPT !.state = "crash"] /\ b.state = "crash"
                             /\ b.meter = att[r].meter /\ b.waived = att[r].waived
    <3>1. /\ [att[r] EXCEPT !.state = "crash"] \in Attempt
          /\ [att[r] EXCEPT !.state = "crash"].state = "crash"
          /\ [att[r] EXCEPT !.state = "crash"].meter = att[r].meter
          /\ [att[r] EXCEPT !.state = "crash"].waived = att[r].waived
      BY <2>2 DEF Attempt
    <3> QED BY <3>1
  <2>4. /\ att' \in [Rungs -> Attempt] /\ att'[r] = b
        /\ \A q \in Rungs \ {r} : att'[q] = att[q]
    BY <2>1, <2>2, <2>3
  <2>5. AttemptOK(b) /\ Grows(att[r], b) BY <2>1, <2>2, <2>3 DEF AttemptOK, Grows, Over
  <2> QED BY <2>1, <2>3, <2>4, <2>5, <1>s, WorldKeeps
<1> QED BY <1>1, <1>2, <1>3, <1>4

LEMMA DieKeeps ==
    ASSUME Inv, NEW e \in Engines, Die(e)
    PROVE  Inv'
<1>i. TypeOK /\ LedgerInv /\ PendInv /\ CreatorInv BY DEF Inv
<1>1. /\ stops' = stops + 1 /\ UNCHANGED <<att, row, remote, route>>
      /\ pend' = [pend EXCEPT ![e] = [r \in Rungs |-> NULL]]
      /\ gate' = [gate EXCEPT ![e] = [r \in Rungs |-> [pc |-> "free", create |-> FALSE]]]
      /\ creator' = IF e = Home THEN [creator EXCEPT !.pc = "done"] ELSE creator
  BY DEF Die, Stop, ledger
<1>2. /\ pend' \in [Engines -> [Rungs -> Pending \cup {NULL}]]
      /\ \A r \in Rungs : pend'[e][r] = NULL
      /\ \A d \in Engines \ {e}, r \in Rungs : pend'[d][r] = pend[d][r]
  BY <1>1, <1>i DEF TypeOK
<1>3. /\ gate' \in [Engines -> [Rungs -> GateState]]
      /\ \A r \in Rungs : gate'[e][r].pc = "free" /\ ~gate'[e][r].create
      /\ \A d \in Engines \ {e}, r \in Rungs : gate'[d][r] = gate[d][r]
  <2>1. PICK g \in GateState : g = [pc |-> "free", create |-> FALSE] BY DEF GateState
  <2>2. gate' = [gate EXCEPT ![e] = [r \in Rungs |-> g]] BY <1>1, <2>1
  <2>3. gate \in [Engines -> [Rungs -> GateState]] BY <1>i DEF TypeOK
  <2>4. g.pc = "free" /\ ~g.create BY <2>1
  <2> QED BY <2>2, <2>3, <2>4
<1>4. /\ creator' \in CreatorState /\ creator'.rung = creator.rung
      /\ creator'.pc = IF e = Home THEN "done" ELSE creator.pc
  BY <1>1, <1>i DEF TypeOK, CreatorState
<1>5. TypeOK' BY <1>1, <1>2, <1>3, <1>4, <1>i DEF TypeOK
<1>6. LedgerInv' BY <1>1, <1>i DEF LedgerInv
<1>7. PendInv'
  <2> SUFFICES ASSUME NEW d \in Engines, NEW q \in Rungs
               PROVE  PendOK(pend'[d][q], gate'[d][q], att'[q], remote'[q])
    BY DEF PendInv
  <2>1. CASE d = e BY <2>1, <1>2, <1>3 DEF PendOK
  <2>2. CASE d # e BY <2>2, <1>1, <1>2, <1>3, <1>i DEF PendInv
  <2> QED BY <2>1, <2>2
<1>8. CreatorInv'
  <2>1. \A q \in Rungs : Untouched(q) => Untouched(q)' BY <1>1, <1>2 DEF Untouched
  <2>2. creator.rung \in Rungs BY <1>i DEF TypeOK, CreatorState
  <2>3. \A q \in Rungs : (q > creator.rung => Untouched(q))' BY <2>1, <1>4, <1>i DEF CreatorInv
  <2>4. \A d \in Engines : pend'[d][creator.rung] # NULL =>
           pend'[d][creator.rung] = pend[d][creator.rung]
    BY <2>2, <1>2
  <2>5. \A d \in Engines, q \in Rungs : gate'[d][q].create => d # e /\ gate[d][q].create
    BY <1>3
  <2>6. CASE e = Home
    <3>1. creator'.pc = "done" BY <2>6, <1>4
    <3>2. \A d \in Engines, q \in Rungs : ~gate'[d][q].create
      BY <2>5, <2>6, <1>i DEF CreatorInv
    <3> QED BY <2>3, <3>1, <3>2, <1>1, <1>4, <1>i DEF CreatorInv
  <2>7. CASE e # Home
    <3>1. creator' = creator BY <2>7, <1>1
    <3>2. creator.pc = "start" => Untouched(creator.rung)'
      BY <2>2, <3>1, <1>1, <1>2, <1>i DEF CreatorInv, Untouched
    <3> QED BY <2>3, <2>4, <2>5, <3>1, <3>2, <1>1, <1>i DEF CreatorInv
  <2> QED BY <2>6, <2>7
<1> QED BY <1>5, <1>6, <1>7, <1>8 DEF Inv

-----------------------------------------------------------------------------
(* The create call. *)
LEMMA CreatorFacts ==
    ASSUME Inv
    PROVE  /\ Rung \in Rungs /\ Rungs \subseteq Nat /\ route \in Rungs /\ Home \in Engines
           /\ creator \in CreatorState
           /\ att[Rung] \in Attempt /\ AttemptOK(att[Rung]) /\ RowOK(row[Rung], att[Rung])
           /\ creator.pc \in {"start", "record", "submit"} => remote[Rung] = "none"
<1>1. Rung \in Rungs /\ creator \in CreatorState /\ route \in Rungs
  BY DEF Inv, TypeOK, CreatorState, Rung
<1>2. Rungs \subseteq Nat /\ Home \in Engines BY VideoAssumption DEF Rungs
<1>3. att[Rung] \in Attempt /\ AttemptOK(att[Rung]) /\ RowOK(row[Rung], att[Rung])
  BY <1>1 DEF Inv, TypeOK, LedgerInv
<1>4. creator.pc \in {"start", "record", "submit"} => remote[Rung] = "none"
  BY DEF Inv, CreatorInv, Rung
<1> QED BY <1>1, <1>2, <1>3, <1>4

(* Before the submission only earlier rungs rendered, behind their errors. *)
LEMMA EarlierDenied ==
    ASSUME Inv, creator.pc \in {"start", "record", "submit"}, NEW q \in Rungs
    PROVE  remote[q] \in {"none", "denied"} /\ (remote[q] # "none" => q <= Rung)
BY DEF Inv, CreatorInv, Rung

LEMMA CreatorStep ==
    ASSUME Inv, NEW r \in Rungs, r = Rung,
           att' \in [Rungs -> Attempt], AttemptOK(att'[r]), Grows(att[r], att'[r]),
           row' \in [Rungs -> JobRow \cup {NULL}], RowOK(row'[r], att'[r]),
           \A q \in Rungs \ {r} : att'[q] = att[q] /\ row'[q] = row[q],
           remote' \in [Rungs -> RemoteStates],
           \A q \in Rungs : remote[q] # "none" => remote'[q] # "none",
           UNCHANGED <<pend, gate, route, stops>>, creator' \in CreatorState, CreatorInv'
    PROVE  Inv'
<1>i. TypeOK /\ LedgerInv /\ PendInv BY DEF Inv
<1>1. TypeOK' BY <1>i DEF TypeOK
<1>2. LedgerInv' BY <1>i DEF LedgerInv
<1>3. PendInv'
  <2> SUFFICES ASSUME NEW d \in Engines, NEW q \in Rungs
               PROVE  PendOK(pend'[d][q], gate'[d][q], att'[q], remote'[q])
    BY DEF PendInv
  <2>1. PendOK(pend[d][q], gate[d][q], att[q], remote[q]) BY <1>i DEF PendInv
  <2>2. pend[d][q] # NULL => pend[d][q] \in Pending BY <1>i DEF TypeOK
  <2>3. Grows(att[q], att'[q]) BY SameGrows
  <2> QED BY <2>1, <2>2, <2>3, PendGrows
<1> QED BY <1>1, <1>2, <1>3 DEF Inv

LEMMA CreatorAtEffect ==
    ASSUME Inv, NEW pc \in {"start", "record", "submit", "accepted", "failover", "settling", "done"},
           CreatorAt(pc)
    PROVE  creator' \in CreatorState /\ creator'.pc = pc /\ creator'.rung = creator.rung
BY CreatorFacts DEF CreatorAt, CreatorState

(* The call only moves on: its rung is recorded or was given up. *)
LEMMA CreatorMoves ==
    ASSUME Inv, UNCHANGED <<att, route, pend, gate, stops>>,
           NEW pc \in {"submit", "accepted", "done"}, CreatorAt(pc),
           creator.pc \in {"start", "record", "submit", "accepted"},
           row' \in [Rungs -> JobRow \cup {NULL}], RowOK(row'[Rung], att[Rung]),
           \A q \in Rungs \ {Rung} : row'[q] = row[q],
           remote' \in [Rungs -> RemoteStates],
           \A q \in Rungs \ {Rung} : remote'[q] = remote[q],
           remote[Rung] # "none" => remote'[Rung] = remote[Rung],
           remote'[Rung] # remote[Rung] => pc = "accepted",
           pc = "submit" => /\ creator.pc = "record" /\ UNCHANGED remote
                            /\ row'[Rung] # NULL /\ row'[Rung].state # "sent",
           pc = "accepted" => row'[Rung] # NULL
    PROVE  Inv'
<1>i. CreatorInv /\ TypeOK BY DEF Inv
<1>1. Rung \in Rungs /\ Rung = creator.rung /\ AttemptOK(att[Rung]) /\ Rungs \subseteq Nat
  BY CreatorFacts DEF Rung
<1>2. creator' \in CreatorState /\ creator'.pc = pc /\ creator'.rung = creator.rung
  BY CreatorAtEffect
<1>3. PICK r \in Rungs : r = Rung BY <1>1
<1>4. CreatorInv'
  <2>1. \A q \in Rungs : (q > creator.rung => Untouched(q))'
    BY <1>1, <1>2, <1>i DEF CreatorInv, Untouched
  <2>2. \A e \in Engines, q \in Rungs : ~gate'[e][q].create BY <1>i DEF CreatorInv
  <2>3. /\ \A q \in Rungs :
             /\ remote'[q] # "none" => q <= creator.rung
             /\ remote'[q] \notin {"none", "denied"} =>
                    q = creator.rung /\ pc \in {"accepted", "settling", "done"}
        /\ pc = "submit" => remote'[creator.rung] = "none"
    BY <1>1, <1>i DEF CreatorInv
  <2>4. pc = "submit" =>
          /\ att'[creator.rung].state # "none" /\ att'[creator.rung].meter = "none"
          /\ ~att'[creator.rung].waived
          /\ \A e \in Engines : pend'[e][creator.rung] # NULL =>
                 pend'[e][creator.rung].event = "recover"
    BY <1>i DEF CreatorInv
  <2> QED BY <2>1, <2>2, <2>3, <2>4, <1>1, <1>2 DEF CreatorInv
<1>5. att' \in [Rungs -> Attempt] BY <1>i DEF TypeOK
<1>6. Grows(att[r], att'[r]) BY SameGrows
<1>7. \A q \in Rungs : remote[q] # "none" => remote'[q] # "none" BY <1>3
<1>8. AttemptOK(att'[r]) /\ RowOK(row'[r], att'[r]) BY <1>1, <1>3
<1>9. \A q \in Rungs \ {r} : att'[q] = att[q] /\ row'[q] = row[q] BY <1>3
<1> QED BY <1>2, <1>3, <1>4, <1>5, <1>6, <1>7, <1>8, <1>9, CreatorStep

LEMMA StartAttemptKeeps ==
    ASSUME Inv, StartAttempt
    PROVE  Inv'
<1>i. CreatorInv /\ TypeOK BY DEF Inv
<1>1. PICK r \in Rungs : r = Rung BY CreatorFacts
<1>2. /\ creator.pc = "start" /\ att' = [att EXCEPT ![r].state = "open"]
      /\ CreatorAt("record") /\ UNCHANGED <<row, remote, pend, gate, route, stops>>
  BY <1>1 DEF StartAttempt, createStay
<1>3. /\ att[r] \in Attempt /\ AttemptOK(att[r]) /\ att[r].state = "none" /\ row[r] = NULL
      /\ \A e \in Engines : pend[e][r] = NULL
  BY <1>1, <1>2, <1>i, CreatorFacts DEF CreatorInv, Untouched, Rung
<1>4. PICK b \in Attempt : /\ b = [att[r] EXCEPT !.state = "open"] /\ b.state = "open"
                           /\ b.meter = "none" /\ ~b.waived /\ ~b.recovery
  <2>1. /\ [att[r] EXCEPT !.state = "open"] \in Attempt
        /\ [att[r] EXCEPT !.state = "open"].state = "open"
        /\ [att[r] EXCEPT !.state = "open"].meter = att[r].meter
        /\ [att[r] EXCEPT !.state = "open"].waived = att[r].waived
        /\ [att[r] EXCEPT !.state = "open"].recovery = att[r].recovery
    BY <1>3 DEF Attempt
  <2> QED BY <2>1, <1>3 DEF AttemptOK
<1>5. att \in [Rungs -> Attempt] /\ row \in [Rungs -> JobRow \cup {NULL}]
      /\ remote \in [Rungs -> RemoteStates]
  BY <1>i DEF TypeOK
<1>6. /\ att' \in [Rungs -> Attempt] /\ att'[r] = b /\ \A q \in Rungs \ {r} : att'[q] = att[q]
  BY <1>2, <1>4, <1>5
<1>7. AttemptOK(b) /\ Grows(att[r], b) /\ RowOK(row[r], b)
  BY <1>3, <1>4 DEF AttemptOK, Grows, Over, RowOK
<1>8. creator' \in CreatorState /\ creator'.pc = "record" /\ creator'.rung = r
  BY <1>1, <1>2, CreatorAtEffect DEF Rung
<1>9. CreatorInv'
  <2>1. creator.rung = r /\ Rungs \subseteq Nat BY <1>1, CreatorFacts DEF Rung
  <2>2. \A q \in Rungs : (q > creator.rung => Untouched(q))'
    BY <2>1, <1>2, <1>6, <1>8, <1>i DEF CreatorInv, Untouched
  <2>3. \A e \in Engines, q \in Rungs : ~gate'[e][q].create BY <1>2, <1>i DEF CreatorInv
  <2>4. /\ remote'[r] = "none"
        /\ \A q \in Rungs : remote'[q] \in {"none", "denied"} /\ (remote'[q] # "none" => q <= r)
    <3>1. remote[r] = "none" BY <1>1, <1>2, CreatorFacts
    <3>2. \A q \in Rungs : remote[q] \in {"none", "denied"} /\ (remote[q] # "none" => q <= r)
      BY <1>1, <1>2, EarlierDenied
    <3> QED BY <3>1, <3>2, <1>2
  <2> QED BY <2>2, <2>3, <2>4, <1>2, <1>3, <1>4, <1>6, <1>8 DEF CreatorInv
<1> QED BY <1>1, <1>2, <1>5, <1>6, <1>7, <1>8, <1>9, CreatorStep

LEMMA OpenRowEffect ==
    ASSUME Inv, creator.pc = "record", row' = OpenRow \/ UNCHANGED row
    PROVE  /\ row' \in [Rungs -> JobRow \cup {NULL}] /\ RowOK(row'[Rung], att[Rung])
           /\ \A q \in Rungs \ {Rung} : row'[q] = row[q]
           /\ row' = OpenRow => row'[Rung] # NULL /\ row'[Rung].state # "sent"
<1>i. CreatorInv /\ TypeOK BY DEF Inv
<1>1. row \in [Rungs -> JobRow \cup {NULL}] BY <1>i DEF TypeOK
<1>2. Rung \in Rungs /\ RowOK(row[Rung], att[Rung]) /\ att[Rung].state # "none"
  BY <1>i, CreatorFacts DEF CreatorInv, Rung
<1>3. PICK j \in JobRow : /\ j = [state |-> "unsent", billed |-> "none"]
                          /\ j.state = "unsent"
  <2>1. [state |-> "unsent", billed |-> "none"] \in JobRow BY DEF JobRow
  <2> QED BY <2>1
<1>4. j # NULL BY NullAssumption
<1>5. OpenRow = [row EXCEPT ![Rung] = j] BY <1>3 DEF OpenRow
<1>6. RowOK(j, att[Rung]) BY <1>2, <1>3 DEF RowOK
<1>7. CASE UNCHANGED row
  <2>1. row' # OpenRow BY <1>1, <1>2, <1>4, <1>5, <1>7, <1>i
                      DEF CreatorInv, Rung
  <2> QED BY <1>1, <1>2, <1>7, <2>1
<1>8. CASE row' = OpenRow BY <1>1, <1>2, <1>3, <1>4, <1>5, <1>6, <1>8
<1> QED BY <1>7, <1>8

LEMMA CreatorSteps ==
    ASSUME Inv, StartRefused \/ RecordJob \/ SubmitAccepted \/ SaveHandle \/ SaveHandleFails
    PROVE  Inv'
<1>i. CreatorInv /\ TypeOK BY DEF Inv
<1>0. Rung \in Rungs /\ RowOK(row[Rung], att[Rung]) /\ Rung = creator.rung
  BY CreatorFacts DEF Rung
<1>t. row \in [Rungs -> JobRow \cup {NULL}] /\ remote \in [Rungs -> RemoteStates]
  BY <1>i DEF TypeOK
<1>r. UNCHANGED <<att, route, pend, gate, stops>>
  BY DEF StartRefused, RecordJob, SubmitAccepted, SaveHandle, SaveHandleFails, createStay, ledger
<1>1. CASE StartRefused \/ SaveHandleFails
  <2>1. /\ creator.pc \in {"start", "accepted"} /\ CreatorAt("done") /\ UNCHANGED <<row, remote>>
    BY <1>1 DEF StartRefused, SaveHandleFails
  <2> QED BY <2>1, <1>0, <1>t, <1>r, CreatorMoves
<1>2. CASE RecordJob
  <2>1. creator.pc = "record" /\ CreatorAt("submit") /\ UNCHANGED remote /\ row' = OpenRow
    BY <1>2 DEF RecordJob
  <2>2. /\ row' \in [Rungs -> JobRow \cup {NULL}] /\ RowOK(row'[Rung], att[Rung])
        /\ \A q \in Rungs \ {Rung} : row'[q] = row[q]
        /\ row'[Rung] # NULL /\ row'[Rung].state # "sent"
    BY <2>1, OpenRowEffect
  <2> QED BY <2>1, <2>2, <1>t, <1>r, CreatorMoves
<1>3. CASE SubmitAccepted
  <2>1. /\ creator.pc = "submit" /\ CreatorAt("accepted") /\ UNCHANGED row
        /\ remote' = [remote EXCEPT ![Rung] = "running"]
    BY <1>3 DEF SubmitAccepted
  <2>2. /\ remote' \in [Rungs -> RemoteStates] /\ remote[Rung] = "none"
        /\ \A q \in Rungs \ {Rung} : remote'[q] = remote[q]
    BY <2>1, <1>0, <1>t, CreatorFacts DEF RemoteStates
  <2>3. row'[Rung] # NULL BY <2>1, <1>0, <1>i DEF CreatorInv
  <2> QED BY <2>1, <2>2, <2>3, <1>0, <1>t, <1>r, CreatorMoves
<1>4. CASE SaveHandle
  <2>1. /\ creator.pc = "accepted" /\ CreatorAt("done") /\ UNCHANGED remote
        /\ row' = [row EXCEPT ![Rung].state = IF @ = "settled" THEN @ ELSE "sent"]
    BY <1>4 DEF SaveHandle
  <2>2. row[Rung] # NULL /\ row[Rung] \in JobRow BY <2>1, <1>0, <1>t, <1>i DEF CreatorInv
  <2>3. PICK j \in JobRow :
          /\ j = [row[Rung] EXCEPT !.state = IF @ = "settled" THEN @ ELSE "sent"]
          /\ j.billed = row[Rung].billed
          /\ j.state = "settled" => row[Rung].state = "settled"
    <3>1. PICK st \in {"unsent", "sent", "settled"} :
             /\ st = IF row[Rung].state = "settled" THEN row[Rung].state ELSE "sent"
             /\ st = "settled" => row[Rung].state = "settled"
      OBVIOUS
    <3>2. /\ [row[Rung] EXCEPT !.state = st] \in JobRow
          /\ [row[Rung] EXCEPT !.state = st].state = st
          /\ [row[Rung] EXCEPT !.state = st].billed = row[Rung].billed
      BY <2>2 DEF JobRow
    <3> QED BY <3>1, <3>2
  <2>4. row' = [row EXCEPT ![Rung] = j] BY <2>1, <2>3, <1>0, <1>t
  <2>5. RowOK(j, att[Rung]) BY <2>2, <2>3, <1>0 DEF RowOK
  <2>6. /\ row' \in [Rungs -> JobRow \cup {NULL}] /\ RowOK(row'[Rung], att[Rung])
        /\ \A q \in Rungs \ {Rung} : row'[q] = row[q]
    BY <2>3, <2>4, <2>5, <1>0, <1>t
  <2> QED BY <2>1, <2>6, <1>t, <1>r, CreatorMoves
<1> QED BY <1>1, <1>2, <1>3, <1>4

(* _settle_created: the create call hands its outcome to the job's gate. *)
LEMMA SettleCreatedKeeps ==
    ASSUME Inv, creator.pc \in {"record", "submit"}, NEW event \in {"zero", "recover"},
           NEW failover \in BOOLEAN, SettleCreated(event, failover),
           failover => Rung < route /\ remote'[Rung] \in {"none", "denied"},
           UNCHANGED <<att, route, stops>>,
           row' \in [Rungs -> JobRow \cup {NULL}], RowOK(row'[Rung], att[Rung]),
           \A q \in Rungs \ {Rung} : row'[q] = row[q],
           remote' \in [Rungs -> RemoteStates],
           \A q \in Rungs \ {Rung} : remote'[q] = remote[q]
    PROVE  Inv'
<1>i. TypeOK /\ LedgerInv /\ PendInv /\ CreatorInv BY DEF Inv
<1>a. Rung \in Rungs /\ Rung = creator.rung /\ Home \in Engines /\ Rungs \subseteq Nat
  BY CreatorFacts DEF Rung
<1>b. remote[Rung] = "none" BY CreatorFacts
<1>c. \A q \in Rungs : remote[q] \in {"none", "denied"} /\ (remote[q] # "none" => q <= Rung)
  BY EarlierDenied
<1>0. /\ Rung \in Rungs /\ Rung = creator.rung /\ Home \in Engines /\ Rungs \subseteq Nat
      /\ remote[Rung] = "none"
      /\ \A q \in Rungs : remote[q] \in {"none", "denied"} /\ (remote[q] # "none" => q <= Rung)
  BY <1>a, <1>b, <1>c
<1>1. PICK r \in Rungs : r = Rung BY <1>0
<1>2. PICK p \in Pending : /\ p = Retained(event, ~failover) /\ p.event = event /\ ~p.written
  <2>1. PICK b \in BOOLEAN : b = ~failover OBVIOUS
  <2>2. event \in Events BY DEF Events, Meters
  <2>3. /\ Retained(event, b) \in Pending /\ Retained(event, b).event = event
        /\ ~Retained(event, b).written
    BY <2>2 DEF Retained, Pending
  <2> QED BY <2>1, <2>3
<1>n. p # NULL BY NullAssumption
<1>3. PICK v \in Pending : v = IF pend[Home][r] = NULL THEN p ELSE pend[Home][r]
  BY <1>0, <1>i DEF TypeOK
<1>4. pend' = [pend EXCEPT ![Home][r] = v]
  BY <1>0, <1>1, <1>2, <1>3, <1>i DEF SettleCreated, Owned, TypeOK
<1>5. /\ pend' \in [Engines -> [Rungs -> Pending \cup {NULL}]] /\ pend'[Home][r] = v
      /\ \A d \in Engines, q \in Rungs : d # Home \/ q # r => pend'[d][q] = pend[d][q]
  <2>1. pend \in [Engines -> [Rungs -> Pending \cup {NULL}]] /\ v \in Pending \cup {NULL}
    BY <1>i DEF TypeOK
  <2> QED BY <1>0, <1>4, <2>1, CellSet
<1>6. /\ gate' \in [Engines -> [Rungs -> GateState]]
      /\ gate'[Home][r].pc = "winner"
      /\ \A d \in Engines, q \in Rungs : d # Home \/ q # r => gate'[d][q] = gate[d][q]
  <2>1. PICK g \in GateState : g = [pc |-> "winner", create |-> TRUE] /\ g.pc = "winner"
    <3>1. [pc |-> "winner", create |-> TRUE] \in GateState BY DEF GateState
    <3> QED BY <3>1
  <2>2. gate' = [gate EXCEPT ![Home][r] = g] BY <1>1, <2>1 DEF SettleCreated
  <2>3. gate \in [Engines -> [Rungs -> GateState]] BY <1>i DEF TypeOK
  <2> QED BY <1>0, <2>1, <2>2, <2>3, CellSet
<1>7. PICK pc \in {"failover", "settling"} : pc = IF failover THEN "failover" ELSE "settling"
  OBVIOUS
<1>8. creator' \in CreatorState /\ creator'.pc = pc /\ creator'.rung = creator.rung
  <2>1. creator' = [creator EXCEPT !.pc = pc] BY <1>7 DEF SettleCreated
  <2> QED BY <2>1, CreatorFacts DEF CreatorState
<1>9. TypeOK' BY <1>5, <1>6, <1>8, <1>i DEF TypeOK
<1>10. LedgerInv'
  <2> SUFFICES ASSUME NEW q \in Rungs PROVE AttemptOK(att'[q]) /\ RowOK(row'[q], att'[q])
    BY DEF LedgerInv
  <2>1. AttemptOK(att[q]) /\ RowOK(row[q], att[q]) BY <1>i DEF LedgerInv
  <2> QED BY <2>1, <1>0
<1>11. PendInv'
  <2> SUFFICES ASSUME NEW d \in Engines, NEW q \in Rungs
               PROVE  PendOK(pend'[d][q], gate'[d][q], att'[q], remote'[q])
    BY DEF PendInv
  <2>1. PendOK(pend[d][q], gate[d][q], att[q], remote[q]) BY <1>i DEF PendInv
  <2>2. pend[d][q] # NULL => pend[d][q] \in Pending BY <1>i DEF TypeOK
  <2>3. CASE d # Home \/ q # r
    <3>1. remote[q] # "none" => remote'[q] # "none" BY <1>0
    <3>2. Grows(att[q], att'[q]) BY SameGrows
    <3> QED BY <2>1, <2>2, <2>3, <3>1, <3>2, <1>5, <1>6, PendGrows
  <2>4. CASE d = Home /\ q = r
    <3>1. att[r].state # "none" BY <1>0, <1>1, <1>i DEF CreatorInv
    <3>2. v # NULL BY NullAssumption
    <3>3. v = p \/ (v = pend[d][q] /\ pend[d][q] # NULL) BY <1>3, <2>4
    <3>4. /\ v.event = "full" => remote'[q] # "none"
          /\ v.written => Acknowledged(v, att[q])
      BY <2>1, <2>4, <3>3, <1>0, <1>1, <1>2 DEF PendOK
    <3> QED BY <2>4, <3>1, <3>2, <3>4, <1>5, <1>6 DEF PendOK
  <2> QED BY <2>3, <2>4
<1>12. CreatorInv'
  <2>1. \A q \in Rungs : (q > creator.rung => Untouched(q))'
    BY <1>0, <1>1, <1>5, <1>8, <1>i DEF CreatorInv, Untouched
  <2>2. \A q \in Rungs :
          /\ remote'[q] # "none" => q <= creator.rung
          /\ remote'[q] \notin {"none", "denied"} => q = creator.rung /\ pc = "settling"
    BY <1>0, <1>7
  <2>3. pc = "failover" => creator.rung < route BY <1>0, <1>7
  <2>4. \A d \in Engines, q \in Rungs : gate'[d][q].create => d = Home /\ q = creator.rung
    BY <1>0, <1>1, <1>6, <1>i DEF CreatorInv
  <2> QED BY <2>1, <2>2, <2>3, <2>4, <1>8 DEF CreatorInv
<1> QED BY <1>9, <1>10, <1>11, <1>12 DEF Inv

LEMMA SettlingSteps ==
    ASSUME Inv, \/ RecordFails \/ SubmitAmbiguous
                \/ \E eligible \in BOOLEAN : SubmitRejected(eligible)
    PROVE  Inv'
<1>t. row \in [Rungs -> JobRow \cup {NULL}] /\ remote \in [Rungs -> RemoteStates]
  BY DEF Inv, TypeOK
<1>0. Rung \in Rungs /\ RowOK(row[Rung], att[Rung]) BY CreatorFacts
<1>r. UNCHANGED <<att, route, stops>>
  BY DEF RecordFails, SubmitAmbiguous, SubmitRejected, createStay, ledger
<1>f. TRUE \in BOOLEAN /\ FALSE \in BOOLEAN OBVIOUS
<1>1. CASE RecordFails
  <2>1. /\ creator.pc = "record" /\ (row' = OpenRow \/ UNCHANGED row) /\ UNCHANGED remote
        /\ SettleCreated("zero", FALSE)
    BY <1>1 DEF RecordFails
  <2>2. /\ row' \in [Rungs -> JobRow \cup {NULL}] /\ RowOK(row'[Rung], att[Rung])
        /\ \A q \in Rungs \ {Rung} : row'[q] = row[q]
    BY <2>1, OpenRowEffect
  <2> QED BY <2>1, <2>2, <1>t, <1>r, <1>f, SettleCreatedKeeps
<1>2. CASE SubmitAmbiguous
  <2>1. /\ creator.pc = "submit" /\ UNCHANGED row /\ SettleCreated("recover", FALSE)
        /\ remote' \in {remote, [remote EXCEPT ![Rung] = "running"]}
    BY <1>2 DEF SubmitAmbiguous
  <2>2. /\ remote' \in [Rungs -> RemoteStates]
        /\ \A q \in Rungs \ {Rung} : remote'[q] = remote[q]
    BY <2>1, <1>0, <1>t DEF RemoteStates
  <2> QED BY <2>1, <2>2, <1>0, <1>t, <1>r, <1>f, SettleCreatedKeeps
<1>3. ASSUME NEW eligible \in BOOLEAN, SubmitRejected(eligible) PROVE Inv'
  <2>1. PICK failover \in BOOLEAN : failover = (eligible /\ Rung < route) OBVIOUS
  <2>2. /\ creator.pc = "submit" /\ UNCHANGED row /\ SettleCreated("zero", failover)
        /\ remote' \in {remote, [remote EXCEPT ![Rung] = "denied"]}
    BY <1>3, <2>1 DEF SubmitRejected, MayCreate
  <2>3. /\ remote' \in [Rungs -> RemoteStates]
        /\ \A q \in Rungs \ {Rung} : remote'[q] = remote[q]
        /\ remote'[Rung] \in {"none", "denied"}
    BY <2>2, <1>0, <1>t, CreatorFacts DEF RemoteStates
  <2> QED BY <2>1, <2>2, <2>3, <1>0, <1>t, <1>r, SettleCreatedKeeps
<1> QED BY <1>1, <1>2, <1>3
-----------------------------------------------------------------------------
LEMMA InitInv == Init => Inv
<1> SUFFICES ASSUME Init PROVE Inv OBVIOUS
<1>1. PICK a \in Attempt : /\ a = [state |-> "none", meter |-> "none",
                                   recovery |-> FALSE, waived |-> FALSE]
                           /\ a.state = "none" /\ AttemptOK(a)
  <2>1. /\ [state |-> "none", meter |-> "none", recovery |-> FALSE, waived |-> FALSE] \in Attempt
        /\ AttemptOK([state |-> "none", meter |-> "none", recovery |-> FALSE, waived |-> FALSE])
    BY DEF Attempt, AttemptOK
  <2> QED BY <2>1
<1>2. PICK g \in GateState : /\ g = [pc |-> "free", create |-> FALSE]
                             /\ g.pc = "free" /\ ~g.create
  <2>1. [pc |-> "free", create |-> FALSE] \in GateState BY DEF GateState
  <2> QED BY <2>1
<1>3. /\ route \in Rungs /\ att = [r \in Rungs |-> a] /\ row = [r \in Rungs |-> NULL]
      /\ remote = [r \in Rungs |-> "none"] /\ stops = 0
      /\ pend = [e \in Engines |-> [r \in Rungs |-> NULL]]
      /\ gate = [e \in Engines |-> [r \in Rungs |-> g]]
  BY <1>1, <1>2 DEF Init
<1>4. creator \in CreatorState /\ creator.pc = "start" /\ creator.rung = 1
  BY SomeRung DEF Init, CreatorState
<1>5. TypeOK BY <1>3, <1>4 DEF TypeOK, RemoteStates
<1>6. LedgerInv BY <1>1, <1>3 DEF LedgerInv, RowOK
<1>7. PendInv BY <1>2, <1>3 DEF PendInv, PendOK
<1>8. CreatorInv
  <2>1. \A r \in Rungs : Untouched(r) BY <1>1, <1>3 DEF Untouched
  <2>2. \A e \in Engines, r \in Rungs : ~gate[e][r].create BY <1>2, <1>3
  <2> QED BY <2>1, <2>2, <1>3, <1>4, SomeRung DEF CreatorInv
<1> QED BY <1>5, <1>6, <1>7, <1>8 DEF Inv

LEMMA StepInv == Inv /\ [Next]_vars => Inv'
<1> SUFFICES ASSUME Inv, [Next]_vars PROVE Inv' OBVIOUS
<1>1. CASE Create
  BY <1>1, StartAttemptKeeps, CreatorSteps, SettlingSteps DEF Create
<1>2. ASSUME NEW e \in Engines, NEW r \in Rungs, Work(e, r) PROVE Inv'
  BY <1>2, RetryKeeps, RefreshKeeps, CheckWinnerKeeps, FinishAttemptKeeps, FinishRefusedKeeps,
     FinishFailsKeeps, PublishKeeps, PublishFailsKeeps, AfterFailureKeeps DEF Work, GateStep
<1>3. ASSUME NEW e \in Engines, Die(e) PROVE Inv' BY <1>3, DieKeeps
<1>4. CASE \/ \E e \in Engines : Close(e) \/ Exit(e)
           \/ \E r \in Rungs : Sweep(r) \/ Forget(r) \/ Tick(r)
                               \/ \E how \in {"done", "failed"} : RemoteEnds(r, how)
  BY <1>4, WorldSteps
<1>5. CASE UNCHANGED vars
  <2>1. UNCHANGED <<route, creator, row, att, pend, gate, remote, stops>> BY <1>5 DEF vars
  <2>2. stops' \in Nat /\ remote' \in [Rungs -> RemoteStates] BY <2>1 DEF Inv, TypeOK
  <2> QED BY <2>1, <2>2, QuietKeeps
<1> QED BY <1>1, <1>2, <1>3, <1>4, <1>5 DEF Next

(* The invariant of the video engines: what the ledger holds for every     *)
(* settlement an engine retains or has published, and what the create      *)
(* call's position says of the rungs (video/engine.py, create and          *)
(* _settle_pending).                                                       *)
THEOREM VideoInvariant == Spec => []Inv
BY InitInv, StepInv, PTL DEF Spec

(* PublishedAfterLedger: a settled job is published only after its ledger  *)
(* write, and bills what the ledger metered, whichever engines raced,      *)
(* failed or died between the two.                                         *)
THEOREM PublicationFollowsLedger == Spec => []PublishedAfterLedger
<1>1. Inv => PublishedAfterLedger
  BY DEF Inv, LedgerInv, RowOK, Over, PublishedAfterLedger
<1> QED BY <1>1, VideoInvariant, PTL

(* OneRender: after a submission that was accepted, or that may have       *)
(* landed and got no readable answer, no later rung is sent the request; a *)
(* render is bought again only behind an error answer (video/providers.py, *)
(* rejection_failure).                                                     *)
THEOREM RenderedOnce == Spec => []OneRender
<1>1. ASSUME Inv, NEW r \in Rungs, NEW q \in Rungs, r < q, remote[q] # "none"
      PROVE  remote[r] \in {"none", "denied"}
  <2>1. creator.rung \in Nat /\ r \in Nat /\ q \in Nat /\ q <= creator.rung
    BY <1>1, CreatorFacts DEF Inv, CreatorInv, Rung
  <2> QED BY <1>1, <2>1 DEF Inv, CreatorInv
<1>2. Inv => OneRender BY <1>1 DEF OneRender
<1> QED BY <1>2, VideoInvariant, PTL

-----------------------------------------------------------------------------
(* Only the gate of a job lets go of its settlement, and only by Accept. *)
LEMMA PendGone ==
    ASSUME Inv, [Next]_vars, stops' = stops, NEW e \in Engines, NEW r \in Rungs,
           pend[e][r] # NULL, pend'[e][r] = NULL
    PROVE  /\ CheckWinner(e, r) \/ Publish(e, r) \/ AfterFailure(e, r)
           /\ Accept(e, r)
<1>i. TypeOK BY DEF Inv
<1>p. pend \in [Engines -> [Rungs -> Pending \cup {NULL}]] /\ stops \in Nat BY <1>i DEF TypeOK
<1>0. pend' # pend OBVIOUS
<1>1. ASSUME NEW d \in Engines, NEW q \in Rungs, NEW v, v # NULL,
             pend' = [pend EXCEPT ![d][q] = v]
      PROVE  FALSE
  BY <1>1, <1>p
<1>2. ASSUME NEW d \in Engines, NEW q \in Rungs, Accept(d, q) PROVE d = e /\ q = r
  BY <1>2, <1>p DEF Accept
<1>3. ASSUME NEW d \in Engines, NEW q \in Rungs, NEW p \in Pending, Owned(d, q, p) PROVE FALSE
  <2>1. PICK v : v = IF pend[d][q] = NULL THEN p ELSE pend[d][q] OBVIOUS
  <2>2. v # NULL BY <2>1, NullAssumption
  <2>3. pend' = [pend EXCEPT ![d][q] = v] BY <1>3, <2>1, <1>p DEF Owned
  <2> QED BY <2>2, <2>3, <1>1
<1>4. \A event \in Events, b \in BOOLEAN : Retained(event, b) \in Pending
  BY DEF Retained, Pending
<1>5. {"zero", "recover", "full", "waive"} \subseteq Events BY DEF Events, Meters
<1>6. ASSUME Create PROVE FALSE
  <2>1. CASE StartAttempt \/ StartRefused \/ RecordJob \/ SubmitAccepted \/ SaveHandle
             \/ SaveHandleFails
    BY <1>0, <2>1 DEF StartAttempt, StartRefused, RecordJob, SubmitAccepted, SaveHandle,
                      SaveHandleFails
  <2>2. ASSUME NEW event \in {"zero", "recover"}, NEW b \in BOOLEAN,
               SettleCreated(event, b) PROVE FALSE
    <3>1. PICK f \in BOOLEAN : f = ~b OBVIOUS
    <3>2. PICK p \in Pending : p = Retained(event, f) BY <1>4, <1>5
    <3>3. Owned(Home, Rung, p) BY <2>2, <3>1, <3>2 DEF SettleCreated
    <3>4. PICK q \in Rungs : q = Rung BY CreatorFacts
    <3>5. Owned(Home, q, p) BY <3>3, <3>4
    <3> QED BY <3>5, <1>3, VideoAssumption
  <2>3. ASSUME NEW eligible \in BOOLEAN, SubmitRejected(eligible) PROVE FALSE
    <3>1. PICK b \in BOOLEAN : b = (eligible /\ Rung < route) OBVIOUS
    <3> QED BY <2>2, <2>3, <3>1 DEF SubmitRejected
  <2>4. FALSE \in BOOLEAN OBVIOUS
  <2> QED BY <1>6, <2>1, <2>2, <2>3, <2>4 DEF Create, RecordFails, SubmitAmbiguous
<1>7. ASSUME NEW d \in Engines, NEW q \in Rungs, Work(d, q)
      PROVE  /\ d = e /\ q = r /\ Accept(e, r)
             /\ CheckWinner(e, r) \/ Publish(e, r) \/ AfterFailure(e, r)
  <2>1. CASE Retry(d, q) \/ FinishRefused(d, q) \/ FinishFails(d, q) \/ PublishFails(d, q)
    BY <1>0, <2>1 DEF Retry, FinishRefused, FinishFails, PublishFails
  <2>2. CASE Refresh(d, q)
    <3>1. Observation(q) \in Events
      BY <2>2 DEF Refresh, Observation, PollReply, Events, Meters
    <3>2. PICK p \in Pending : p = Retained(Observation(q), TRUE) BY <1>4, <3>1
    <3> QED BY <2>2, <3>2, <1>3 DEF Refresh
  <2>3. CASE FinishAttempt(d, q)
    <3>1. pend[d][q] \in Pending BY <2>3, Cell DEF FinishAttempt
    <3>2. PICK v \in Pending : v = [pend[d][q] EXCEPT !.written = TRUE]
      <4>1. [pend[d][q] EXCEPT !.written = TRUE] \in Pending BY <3>1 DEF Pending
      <4> QED BY <4>1
    <3>3. pend' = [pend EXCEPT ![d][q] = v] BY <2>3, <3>2, <1>p DEF FinishAttempt
    <3> QED BY <3>3, <1>1, NullAssumption
  <2>4. CASE CheckWinner(d, q)
    <3>1. Accept(d, q) BY <2>4, <1>0 DEF CheckWinner
    <3> QED BY <2>4, <3>1, <1>2
  <2>5. CASE Publish(d, q)
    <3>1. Accept(d, q) BY <2>5 DEF Publish
    <3> QED BY <2>5, <3>1, <1>2
  <2>6. CASE AfterFailure(d, q)
    <3>1. ASSUME Replayable(q),
                 pend' = [pend EXCEPT ![d][q] =
                             [Retained(PollReply(q), TRUE) EXCEPT !.replay = TRUE]]
          PROVE  FALSE
      <4>1. PICK event \in Events : event = PollReply(q)
        BY <3>1, <1>5 DEF Replayable, PollReply
      <4>2. [Retained(event, TRUE) EXCEPT !.replay = TRUE] \in Pending BY DEF Retained, Pending
      <4> QED BY <3>1, <4>1, <4>2, <1>1, NullAssumption
    <3>2. Accept(d, q) BY <2>6, <3>1, <1>0 DEF AfterFailure, Keep
    <3> QED BY <2>6, <3>2, <1>2
  <2> QED BY <1>7, <2>1, <2>2, <2>3, <2>4, <2>5, <2>6 DEF Work, GateStep
<1>8. ASSUME NEW d \in Engines, Close(d) \/ Exit(d) \/ Die(d) PROVE FALSE
  BY <1>0, <1>8, <1>p DEF Close, Exit, Die, Stop, local
<1>9. ASSUME NEW q \in Rungs, \/ Sweep(q) \/ Forget(q) \/ Tick(q)
                              \/ \E how \in {"done", "failed"} : RemoteEnds(q, how)
      PROVE  FALSE
  BY <1>0, <1>9 DEF Sweep, Forget, Tick, RemoteEnds, local
<1>10. CASE UNCHANGED vars BY <1>0, <1>10 DEF vars
<1> QED BY <1>6, <1>7, <1>8, <1>9, <1>10 DEF Next

(* A job already published settles the question only if what it bills, or  *)
(* the ledger's own answer, covers the settlement.                         *)
LEMMA WinnerHeld ==
    ASSUME Inv, NEW e \in Engines, NEW r \in Rungs, NEW superseded \in BOOLEAN,
           pend[e][r] # NULL, Winner(pend[e][r], r, superseded),
           superseded => /\ att[r].meter # "none" /\ ~Provisional(att[r])
    PROVE  /\ pend[e][r].event \in Meters => att[r].meter # "none"
           /\ pend[e][r].event = "waive" =>
                  att[r].waived \/ (att[r].meter # "none" /\ ~Provisional(att[r]))
<1>c. /\ PendOK(pend[e][r], gate[e][r], att[r], remote[r]) /\ RowOK(row[r], att[r])
  BY Cell
<1>1. "none" \notin Meters BY DEF Meters
<1>2. CASE pend[e][r].written
  BY <1>1, <1>2, <1>c DEF PendOK, Acknowledged
<1>3. CASE ~pend[e][r].written
  BY <1>1, <1>3, <1>c DEF Winner, RowOK
<1> QED BY <1>2, <1>3

LEMMA EvidenceStep ==
    ASSUME Inv, [Next]_vars, stops' = stops, NEW e \in Engines, NEW r \in Rungs,
           pend[e][r] # NULL, pend'[e][r] = NULL
    PROVE  /\ pend[e][r].event \in Meters => att'[r].meter # "none"
           /\ pend[e][r].event = "waive" =>
                  \/ att'[r].waived
                  \/ att'[r].meter # "none" /\ ~Provisional(att'[r])
<1>1. CheckWinner(e, r) \/ Publish(e, r) \/ AfterFailure(e, r) BY PendGone
<1>2. Accept(e, r) BY PendGone
<1>3. UNCHANGED att BY <1>1 DEF CheckWinner, Publish, AfterFailure, ledger
<1>n. "none" \notin Meters BY DEF Meters
<1>c. PendOK(pend[e][r], gate[e][r], att[r], remote[r]) BY Cell
<1>4. CASE Publish(e, r)
  <2>1. Acknowledged(pend[e][r], att[r]) BY <1>4, <1>c DEF Publish, PendOK
  <2> QED BY <2>1, <1>3, <1>n DEF Acknowledged
<1>5. CASE CheckWinner(e, r)
  <2>1. Winner(pend[e][r], r, FALSE)
    <3>1. SUFFICES ASSUME ~Winner(pend[e][r], r, FALSE) PROVE FALSE OBVIOUS
    <3>2. UNCHANGED pend BY <1>5, <3>1 DEF CheckWinner
    <3> QED BY <3>2
  <2>2. FALSE \in BOOLEAN OBVIOUS
  <2> QED BY <2>1, <2>2, <1>3, WinnerHeld
<1>6. CASE AfterFailure(e, r)
  <2>1. PICK s \in BOOLEAN : s = (gate[e][r].pc # "conflict") OBVIOUS
  <2>2. gate[e][r].pc \in Undelivered BY <1>6 DEF AfterFailure
  <2>3. s => att[r].meter # "none" /\ ~Provisional(att[r])
    BY <2>1, <2>2, <1>c DEF PendOK, Undelivered
  <2>4. Winner(pend[e][r], r, s)
    <3>1. SUFFICES ASSUME ~Winner(pend[e][r], r, s) PROVE FALSE OBVIOUS
    <3>2. ~Keep(e, r) BY DEF Keep
    <3>3. /\ Replayable(r)
          /\ pend' = [pend EXCEPT ![e][r] =
                         [Retained(PollReply(r), TRUE) EXCEPT !.replay = TRUE]]
      BY <1>6, <2>1, <3>1, <3>2 DEF AfterFailure
    <3>4. PICK event \in Events : event = PollReply(r)
      BY <3>3 DEF Replayable, PollReply, Events, Meters
    <3>5. [Retained(event, TRUE) EXCEPT !.replay = TRUE] \in Pending BY DEF Retained, Pending
    <3>6. pend \in [Engines -> [Rungs -> Pending \cup {NULL}]] BY DEF Inv, TypeOK
    <3> QED BY <3>3, <3>4, <3>5, <3>6, NullAssumption
  <2> QED BY <2>3, <2>4, <1>3, WinnerHeld
<1> QED BY <1>1, <1>4, <1>5, <1>6

(* EvidenceAcknowledged: a retained settlement leaves its engine, other    *)
(* than by death, only when the ledger holds its evidence (_settle_pending *)
(* and its error path, video/engine.py).                                   *)
THEOREM EvidenceNeverErased == Spec => EvidenceAcknowledged
<1>1. ASSUME Inv, [Next]_vars
      PROVE  [stops' = stops =>
               \A e \in Engines, r \in Rungs :
                  pend[e][r] # NULL /\ pend'[e][r] = NULL =>
                    /\ pend[e][r].event \in Meters => att'[r].meter # "none"
                    /\ pend[e][r].event = "waive" =>
                           \/ att'[r].waived
                           \/ att'[r].meter # "none" /\ ~Provisional(att'[r])]_vars
  BY <1>1, EvidenceStep
<1> QED BY <1>1, VideoInvariant, PTL DEF Spec, EvidenceAcknowledged

-----------------------------------------------------------------------------
(* The refinement of paid work.  The money of a rung is read off its       *)
(* attempt.                                                                *)
MoneyOf(a) ==
    IF a.state = "none" THEN "none"
    ELSE IF a.waived \/ a.meter = "zero" THEN "released"
    ELSE IF a.meter = "full" THEN "settled" ELSE "reserved"
MoneyMap ==
    [r \in Rungs |->
        CASE att[r].state = "none" -> "none"
          [] att[r].waived \/ att[r].meter = "zero" -> "released"
          [] att[r].meter = "full" /\ ~att[r].waived -> "settled"
          [] OTHER -> "reserved"]
SentMap == [r \in Rungs |-> IF remote[r] = "none" THEN 0 ELSE 1]

LEMMA MoneyRead ==
    ASSUME Inv
    PROVE  MoneyMap = [r \in Rungs |-> MoneyOf(att[r])]
<1>1. ASSUME NEW r \in Rungs
      PROVE  (CASE att[r].state = "none" -> "none"
                [] att[r].waived \/ att[r].meter = "zero" -> "released"
                [] att[r].meter = "full" /\ ~att[r].waived -> "settled"
                [] OTHER -> "reserved") = MoneyOf(att[r])
  <2>1. AttemptOK(att[r]) BY DEF Inv, LedgerInv
  <2> QED BY <2>1 DEF AttemptOK, MoneyOf
<1> QED BY <1>1 DEF MoneyMap

LEMMA PromiseMoves ==
    ASSUME Inv, Inv', NEW r \in Rungs, \A q \in Rungs \ {r} : att'[q] = att[q],
           NEW from, from = MoneyOf(att[r]), NEW to, to = MoneyOf(att'[r])
    PROVE  /\ Promise!Move({r}, from, to)
           /\ (to = from => UNCHANGED MoneyMap)
<1>1. MoneyMap = [q \in Rungs |-> MoneyOf(att[q])] BY MoneyRead
<1>2. MoneyMap' = [q \in Rungs |-> MoneyOf(att'[q])]
  <2>1. \A q \in Rungs : AttemptOK(att'[q]) BY DEF Inv, LedgerInv
  <2>2. ASSUME NEW q \in Rungs
        PROVE  (CASE att'[q].state = "none" -> "none"
                  [] att'[q].waived \/ att'[q].meter = "zero" -> "released"
                  [] att'[q].meter = "full" /\ ~att'[q].waived -> "settled"
                  [] OTHER -> "reserved") = MoneyOf(att'[q])
    BY <2>1 DEF AttemptOK, MoneyOf
  <2> QED BY <2>2 DEF MoneyMap
<1>3. MoneyMap' = [q \in Rungs |-> IF q \in {r} THEN to ELSE MoneyMap[q]]
  BY <1>1, <1>2
<1>4. MoneyMap[r] = from BY <1>1
<1>5. Promise!Move({r}, from, to) BY <1>3, <1>4 DEF Promise!Move, MoneyMap
<1>6. to = from => MoneyMap' = MoneyMap BY <1>1, <1>3, <1>4
<1> QED BY <1>5, <1>6

LEMMA PromiseStutters ==
    ASSUME Inv, Inv', UNCHANGED <<att, remote>>
    PROVE  UNCHANGED Promise!vars
BY DEF Promise!vars

(* What an acknowledged ledger write does to the money of a rung. *)
LEMMA MoneySettles ==
    ASSUME NEW a \in Attempt, AttemptOK(a), a.state # "none",
           NEW p \in Pending, Answer(a, p.event) = "ok"
    PROVE  \/ MoneyOf(Settled(a, p.event)) = MoneyOf(a)
           \/ /\ MoneyOf(a) = "reserved" /\ p.event = "full"
              /\ MoneyOf(Settled(a, p.event)) = "settled"
           \/ MoneyOf(a) = "reserved" /\ MoneyOf(Settled(a, p.event)) = "released"
           \/ MoneyOf(a) = "settled" /\ MoneyOf(Settled(a, p.event)) = "released"
<1>0. p.event \in {"zero", "full", "recover", "waive"} /\ Meters = {"zero", "full"}
  BY DEF Pending, Events, Meters
<1>1. CASE a.state = "open"
  <2>1. PICK b : b = [state |-> StateOf(p.event), meter |-> MeterOf(p.event),
                      recovery |-> p.event \in {"recover", "waive"},
                      waived |-> p.event = "waive"]
    OBVIOUS
  <2>2. Settled(a, p.event) = b BY <1>1, <2>1 DEF Settled
  <2>3. /\ b.state # "none" /\ b.meter = MeterOf(p.event) /\ b.waived = (p.event = "waive")
    BY <2>1 DEF StateOf
  <2>4. MoneyOf(a) = "reserved" BY <1>1 DEF MoneyOf, AttemptOK
  <2> QED BY <1>0, <2>2, <2>3, <2>4 DEF MoneyOf, MeterOf
<1>2. CASE a.state # "open"
  <2>1. CASE p.event = "waive"
    <3>1. PICK b : b = Settled(a, p.event) OBVIOUS
    <3>2. b.state = a.state /\ b.meter = a.meter /\ b.waived = TRUE
      BY <1>0, <1>2, <2>1, <3>1 DEF Settled, Attempt
    <3>3. MoneyOf(b) = "released" BY <3>2 DEF MoneyOf
    <3>4. MoneyOf(a) \in {"released", "settled", "reserved"} BY DEF MoneyOf
    <3> QED BY <3>1, <3>3, <3>4
  <2>2. CASE p.event \in Meters
    <3>1. PICK b : b = Settled(a, p.event) OBVIOUS
    <3>2. b.state = a.state /\ b.meter = p.event /\ b.waived = a.waived
      BY <1>0, <1>2, <2>2, <3>1 DEF Settled, Attempt
    <3>3. a.meter = p.event \/ a.meter = "none" BY <1>0, <1>2, <2>2 DEF Answer
    <3> QED BY <1>0, <2>2, <3>1, <3>2, <3>3 DEF MoneyOf
  <2>3. CASE p.event = "recover" BY <1>0, <1>2, <2>3 DEF Settled
  <2> QED BY <1>0, <2>1, <2>2, <2>3
<1> QED BY <1>1, <1>2

LEMMA PromiseWrites ==
    ASSUME Inv, Inv', NEW e \in Engines, NEW r \in Rungs, gate[e][r].pc = "finish",
           Answer(att[r], pend[e][r].event) = "ok", Finished(pend[e][r], r), UNCHANGED remote
    PROVE  [Promise!Next]_(Promise!vars)
<1>c. /\ att[r] \in Attempt /\ AttemptOK(att[r]) /\ pend[e][r] \in Pending
      /\ pend[e][r] # NULL /\ PendOK(pend[e][r], gate[e][r], att[r], remote[r])
  BY Cell
<1>1. PICK p \in Pending : p = pend[e][r] BY <1>c
<1>2. att[r].state # "none" /\ (p.event = "full" => remote[r] # "none") BY <1>1, <1>c DEF PendOK
<1>3. att \in [Rungs -> Attempt] BY DEF Inv, TypeOK
<1>4. att'[r] = Settled(att[r], p.event) /\ \A q \in Rungs \ {r} : att'[q] = att[q]
  BY <1>1, <1>3 DEF Finished
<1>5. PICK from : from = MoneyOf(att[r]) OBVIOUS
<1>6. PICK to : to = MoneyOf(Settled(att[r], p.event)) OBVIOUS
<1>6a. to = MoneyOf(att'[r]) BY <1>4, <1>6
<1>7. Promise!Move({r}, from, to) /\ (to = from => UNCHANGED MoneyMap)
  BY <1>4, <1>5, <1>6a, PromiseMoves
<1>8. \/ to = from
      \/ from = "reserved" /\ to = "settled" /\ p.event = "full"
      \/ from = "reserved" /\ to = "released"
      \/ from = "settled" /\ to = "released"
  BY <1>1, <1>2, <1>5, <1>6, <1>c, MoneySettles
<1>9. CASE to = from
  <2>1. UNCHANGED MoneyMap BY <1>7, <1>9
  <2> QED BY <2>1 DEF Promise!vars, MoneyMap
<1>10. CASE from = "reserved" /\ to = "settled" /\ p.event = "full"
  <2>1. Promise!Settle(r) BY <1>2, <1>7, <1>10 DEF Promise!Settle
  <2> QED BY <2>1 DEF Promise!Next
<1>11. CASE from = "reserved" /\ to = "released"
  <2>1. Promise!Release({r}) BY <1>7, <1>11 DEF Promise!Release
  <2> QED BY <2>1 DEF Promise!Next
<1>12. CASE from = "settled" /\ to = "released"
  <2>1. Promise!Waive(r) BY <1>7, <1>12 DEF Promise!Waive
  <2> QED BY <2>1 DEF Promise!Next
<1> QED BY <1>8, <1>9, <1>10, <1>11, <1>12

(* The provider takes the render while its reservation is held. *)
LEMMA PromiseSends ==
    ASSUME Inv, Inv', creator.pc = "submit", UNCHANGED att,
           NEW job \in {"running", "denied"}, remote' = [remote EXCEPT ![Rung] = job]
    PROVE  Promise!Next
<1>1. PICK r \in Rungs : r = Rung BY CreatorFacts
<1>2. /\ remote \in [Rungs -> RemoteStates] /\ remote[r] = "none"
      /\ remote'[r] # "none" /\ \A q \in Rungs \ {r} : remote'[q] = remote[q]
  BY <1>1, CreatorFacts DEF Inv, TypeOK
<1>3. MoneyOf(att[r]) = "reserved"
  BY <1>1, CreatorFacts DEF Inv, CreatorInv, Rung, MoneyOf
<1>4. MoneyMap[r] = "reserved" BY <1>3, MoneyRead
<1>5. SentMap' = [q \in Rungs |-> IF q \in {r} THEN 1 ELSE SentMap[q]]
  BY <1>2 DEF SentMap
<1>6. SentMap[r] = 0 BY <1>2 DEF SentMap
<1>7. Promise!Send({r})
  BY <1>4, <1>5, <1>6 DEF Promise!Send, MoneyMap, SentMap
<1> QED BY <1>7 DEF Promise!Next

LEMMA PromiseReserves ==
    ASSUME Inv, Inv', StartAttempt
    PROVE  Promise!Next
<1>1. PICK r \in Rungs : r = Rung BY CreatorFacts
<1>2. /\ creator.pc = "start" /\ att' = [att EXCEPT ![r].state = "open"] /\ UNCHANGED remote
  BY <1>1 DEF StartAttempt
<1>3. att \in [Rungs -> Attempt] /\ att[r] \in Attempt BY DEF Inv, TypeOK
<1>4. att[r].state = "none" /\ AttemptOK(att[r])
  BY <1>1, <1>2 DEF Inv, CreatorInv, Untouched, Rung, LedgerInv
<1>5. /\ \A q \in Rungs \ {r} : att'[q] = att[q]
      /\ att'[r] = [att[r] EXCEPT !.state = "open"]
  BY <1>2, <1>3
<1>6. MoneyOf(att[r]) = "none" BY <1>4 DEF MoneyOf
<1>7. MoneyOf(att'[r]) = "reserved"
  <2>1. /\ att'[r].state = "open" /\ att'[r].meter = att[r].meter
        /\ att'[r].waived = att[r].waived
    BY <1>3, <1>5 DEF Attempt
  <2> QED BY <2>1, <1>4 DEF MoneyOf, AttemptOK
<1>9. Promise!Move({r}, "none", "reserved") BY <1>5, <1>6, <1>7, PromiseMoves
<1>10. remote[r] = "none" BY <1>1, <1>2, CreatorFacts
<1>11. Promise!Reserve(r) BY <1>2, <1>9, <1>10 DEF Promise!Reserve
<1> QED BY <1>11 DEF Promise!Next

LEMMA PromiseSweeps ==
    ASSUME Inv, Inv', NEW r \in Rungs, Sweep(r)
    PROVE  UNCHANGED Promise!vars
<1>1. /\ att[r].state = "open" /\ att' = [att EXCEPT ![r].state = "crash"] /\ UNCHANGED remote
  BY DEF Sweep
<1>2. att \in [Rungs -> Attempt] /\ att[r] \in Attempt BY DEF Inv, TypeOK
<1>3. /\ \A q \in Rungs \ {r} : att'[q] = att[q]
      /\ att'[r].state = "crash" /\ att'[r].meter = att[r].meter
      /\ att'[r].waived = att[r].waived
  BY <1>1, <1>2 DEF Attempt
<1>4. MoneyOf(att'[r]) = MoneyOf(att[r]) BY <1>1, <1>3 DEF MoneyOf
<1>5. UNCHANGED MoneyMap BY <1>3, <1>4, PromiseMoves
<1> QED BY <1>1, <1>5 DEF Promise!vars, MoneyMap

LEMMA PromiseInit == Init => Promise!Init
<1> SUFFICES ASSUME Init PROVE Promise!Init OBVIOUS
<1>1. MoneyMap = [r \in Rungs |-> MoneyOf(att[r])] BY InitInv, MoneyRead
<1>2. \A r \in Rungs : att[r].state = "none" BY DEF Init
<1>3. MoneyMap = [r \in Rungs |-> "none"] BY <1>1, <1>2 DEF MoneyOf
<1>4. \A r \in Rungs : remote[r] = "none" BY DEF Init
<1> QED BY <1>3, <1>4 DEF Promise!Init, MoneyMap

LEMMA PromiseStep ==
    ASSUME Inv, Inv', [Next]_vars
    PROVE  [Promise!Next]_(Promise!vars)
<1>1. CASE Create
  <2>1. CASE StartAttempt BY <2>1, PromiseReserves
  <2>2. CASE StartRefused \/ RecordJob \/ RecordFails \/ SaveHandle \/ SaveHandleFails
    <3>1. UNCHANGED <<att, remote>>
      BY <2>2 DEF StartRefused, RecordJob, RecordFails, SaveHandle, SaveHandleFails, ledger
    <3> QED BY <3>1, PromiseStutters
  <2>3. CASE \/ SubmitAccepted \/ SubmitAmbiguous
             \/ \E eligible \in BOOLEAN : SubmitRejected(eligible)
    <3>1. /\ creator.pc = "submit" /\ UNCHANGED att
          /\ \/ remote' = remote
             \/ \E job \in {"running", "denied"} : remote' = [remote EXCEPT ![Rung] = job]
      BY <2>3 DEF SubmitAccepted, SubmitAmbiguous, SubmitRejected, MayCreate, ledger
    <3> QED BY <3>1, PromiseSends, PromiseStutters
  <2> QED BY <1>1, <2>1, <2>2, <2>3 DEF Create
<1>2. ASSUME NEW e \in Engines, NEW r \in Rungs, Work(e, r)
      PROVE  [Promise!Next]_(Promise!vars)
  <2>1. CASE FinishAttempt(e, r) \/ FinishFails(e, r)
    <3>1. /\ gate[e][r].pc = "finish" /\ Answer(att[r], pend[e][r].event) = "ok"
          /\ UNCHANGED remote /\ (Finished(pend[e][r], r) \/ UNCHANGED att)
      BY <2>1 DEF FinishAttempt, FinishFails, gateStay, ledger
    <3> QED BY <3>1, PromiseWrites, PromiseStutters
  <2>2. CASE Retry(e, r) \/ Refresh(e, r) \/ CheckWinner(e, r) \/ FinishRefused(e, r)
             \/ Publish(e, r) \/ PublishFails(e, r) \/ AfterFailure(e, r)
    <3>1. UNCHANGED <<att, remote>>
      BY <2>2 DEF Retry, Refresh, CheckWinner, FinishRefused, Publish, PublishFails,
                  AfterFailure, gateStay, ledger
    <3> QED BY <3>1, PromiseStutters
  <2> QED BY <1>2, <2>1, <2>2 DEF Work, GateStep
<1>3. ASSUME NEW e \in Engines, Close(e) \/ Exit(e) \/ Die(e)
      PROVE  [Promise!Next]_(Promise!vars)
  <2>1. UNCHANGED <<att, remote>> BY <1>3 DEF Close, Exit, Die, ledger
  <2> QED BY <2>1, PromiseStutters
<1>4. ASSUME NEW r \in Rungs, Sweep(r) PROVE [Promise!Next]_(Promise!vars)
  BY <1>4, PromiseSweeps
<1>5. ASSUME NEW r \in Rungs, \/ Forget(r) \/ Tick(r)
                              \/ \E how \in {"done", "failed"} : RemoteEnds(r, how)
      PROVE  [Promise!Next]_(Promise!vars)
  <2>1. UNCHANGED att BY <1>5 DEF Forget, Tick, RemoteEnds, ledger
  <2>2. \A q \in Rungs : remote'[q] = "none" <=> remote[q] = "none"
    BY <1>5 DEF Forget, Tick, RemoteEnds, Inv, TypeOK
  <2> QED BY <2>1, <2>2 DEF Promise!vars
<1>6. CASE UNCHANGED vars BY <1>6, PromiseStutters DEF vars
<1> QED BY <1>1, <1>2, <1>3, <1>4, <1>5, <1>6 DEF Next

(* PaidWorkSpec: whatever engines race, fail or die, a rung is reserved    *)
(* before it is rendered, rendered at most once, and its reservation is    *)
(* closed once: settled only for a render the provider had; a settled      *)
(* charge may be waived, and a waiver is not taken back.                   *)
THEOREM VideoImplementsPaidWork == Spec => PaidWorkSpec
<1>1. Inv /\ Inv' /\ [Next]_vars => [Promise!Next]_(Promise!vars) BY PromiseStep
<1>2. Spec => Promise!Init /\ [][Promise!Next]_(Promise!vars)
  BY <1>1, PromiseInit, VideoInvariant, PTL DEF Spec
<1> QED BY <1>2 DEF PaidWorkSpec, Promise!Spec
====
