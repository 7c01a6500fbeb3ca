-------------------------- MODULE GroupCommitProofs -------------------------
(***************************************************************************)
(* Theorems about the group-commit writer: it implements write-through     *)
(* durability, and close drains what was queued before it.                 *)
(***************************************************************************)
EXTENDS GroupCommit, TLAPS

Outcomes == {"idle", "waiting", "ok", "failed", "closed", "lost"}
Phases == {"connect", "wait", "drain", "prepare", "apply", "resolve", "exit", "stopped", "down"}

TypeOK ==
    /\ outcome \in [Ops -> Outcomes]
    /\ queue \in Seq(Ops \cup {STOP})
    /\ batch \in Seq(Ops) /\ ready \in Seq(Ops) /\ tx \in Seq(Ops)
    /\ durable \in Seq(Ops) /\ submitted \in Seq(Ops)
    /\ results \in Seq({"ok", "failed"})
    /\ phase \in Phases
    /\ closed \in BOOLEAN /\ stopping \in BOOLEAN /\ connectFailed \in BOOLEAN
    /\ transactionFailed \in BOOLEAN /\ crashes \in Nat

(* What the writer holds in each phase, and what close has shut: behind    *)
(* the sentinel nothing is queued, so a writer that drained it, or that    *)
(* leaves its loop, leaves nothing behind.                                 *)
PhaseInv ==
    /\ phase \notin {"drain", "prepare"} => batch = <<>>
    /\ phase \notin {"prepare", "apply", "resolve"} => ready = <<>>
    /\ phase \notin {"apply", "resolve"} => results = <<>>
    /\ phase = "apply" => Len(results) <= Len(ready)
    /\ phase = "resolve" => Len(results) = Len(ready)
    /\ phase # "apply" => tx = <<>>
CloseInv ==
    /\ STOP \in Elements(queue) => closed
    /\ \A i \in 1..Len(queue) : queue[i] = STOP => i = Len(queue)
    /\ stopping => closed /\ queue = <<>>
    /\ phase = "exit" /\ ~connectFailed => closed /\ queue = <<>>
    /\ connectFailed => phase \in {"exit", "stopped"}

(* The order of submission, which every stage of the pipeline keeps.       *)
Before(q, a, b) == \E m, n \in 1..Len(q) : m < n /\ q[m] = a /\ q[n] = b
Sorted(q, s) == \A i, j \in 1..Len(s) : i < j /\ s[j] # STOP => Before(q, s[i], s[j])
Precedes(q, A, B) == \A a \in A, b \in B \ {STOP} : Before(q, a, b)
Distinct(q) == \A i, j \in 1..Len(q) : q[i] = q[j] => i = j
OrderInv ==
    /\ Distinct(submitted)
    /\ Elements(durable) \subseteq Elements(submitted)
    /\ Sorted(submitted, durable) /\ Sorted(submitted, queue)
    /\ Sorted(submitted, batch) /\ Sorted(submitted, ready)
    /\ Precedes(submitted, Elements(durable), Elements(queue))
    /\ Precedes(submitted, Elements(durable), Elements(batch))
    /\ phase # "resolve" => Precedes(submitted, Elements(durable), Elements(ready))
    /\ Precedes(submitted, Elements(ready), Elements(batch))
    /\ Precedes(submitted, Elements(ready), Elements(queue))
    /\ Precedes(submitted, Elements(batch), Elements(queue))

(* What is in the pipeline still waits for its answer. *)
Pipeline == (Elements(queue) \ {STOP}) \cup Elements(batch) \cup Elements(ready)
WaitInv ==
    /\ \A o \in Pipeline : outcome[o] = "waiting"
    /\ \A o \in Ops : outcome[o] = "waiting" => o \in Elements(submitted)
    /\ \A o \in Elements(submitted) : outcome[o] # "idle"

(* The answers prepared for the callers are the truth about the disk. *)
ResultInv ==
    /\ Sorted(submitted, tx)
    /\ \A o \in Elements(tx) : \E i \in 1..Len(results) : ready[i] = o /\ results[i] = "ok"
    /\ phase = "apply" => \A i \in 1..Len(results) : results[i] = "ok" => ready[i] \in Elements(tx)
    /\ phase = "resolve" => \A i \in 1..Len(ready) :
                                results[i] = "ok" <=> ready[i] \in Elements(durable)

Inv == TypeOK /\ PhaseInv /\ CloseInv /\ OrderInv /\ WaitInv /\ ResultInv

-----------------------------------------------------------------------------
(* Sequences: the ends of a queue, and what their elements are. *)
LEMMA TailFacts ==
    ASSUME NEW S, NEW s \in Seq(S), s # <<>>
    PROVE  /\ Head(s) \in S /\ Tail(s) \in Seq(S) /\ Len(Tail(s)) = Len(s) - 1
           /\ Len(s) \in Nat \ {0} /\ Head(s) = s[1]
           /\ \A i \in 1..Len(Tail(s)) : Tail(s)[i] = s[i + 1]
           /\ Elements(s) = {Head(s)} \cup Elements(Tail(s))
<1>1. /\ Head(s) \in S /\ Tail(s) \in Seq(S) /\ Len(Tail(s)) = Len(s) - 1
      /\ Len(s) \in Nat \ {0} /\ Head(s) = s[1]
      /\ \A i \in 1..Len(Tail(s)) : Tail(s)[i] = s[i + 1]
  OBVIOUS
<1>2. \A i \in 1..Len(s) : i = 1 \/ (i - 1 \in 1..Len(Tail(s)) /\ Tail(s)[i - 1] = s[i])
  BY <1>1
<1>3. \A i \in 1..Len(Tail(s)) : i + 1 \in 1..Len(s)
  BY <1>1
<1> QED BY <1>1, <1>2, <1>3 DEF Elements

LEMMA AppendFacts ==
    ASSUME NEW S, NEW s \in Seq(S), NEW e \in S
    PROVE  /\ Append(s, e) \in Seq(S) /\ Len(Append(s, e)) = Len(s) + 1 /\ Len(s) \in Nat
           /\ Append(s, e)[Len(s) + 1] = e
           /\ \A i \in 1..Len(s) : Append(s, e)[i] = s[i]
           /\ \A i \in 1..(Len(s) + 1) : i \in 1..Len(s) \/ i = Len(s) + 1
           /\ Elements(Append(s, e)) = Elements(s) \cup {e}
<1>1. /\ Append(s, e) \in Seq(S) /\ Len(Append(s, e)) = Len(s) + 1 /\ Len(s) \in Nat
      /\ Append(s, e)[Len(s) + 1] = e
      /\ \A i \in 1..Len(s) : Append(s, e)[i] = s[i]
  OBVIOUS
<1>2. /\ \A i \in 1..(Len(s) + 1) : i \in 1..Len(s) \/ i = Len(s) + 1
      /\ \A i \in 1..Len(s) : i \in 1..(Len(s) + 1)
      /\ Len(s) + 1 \in 1..(Len(s) + 1)
  BY <1>1
<1> QED BY <1>1, <1>2 DEF Elements

LEMMA ElementsType ==
    ASSUME NEW S, NEW s \in Seq(S)
    PROVE  Elements(s) \subseteq S
BY DEF Elements

LEMMA EmptyFacts ==
    /\ Elements(<<>>) = {} /\ \A q : Sorted(q, <<>>)
    /\ \A q, A : Precedes(q, A, {}) /\ Precedes(q, {}, A)
<1>1. Elements(<<>>) = {} BY DEF Elements
<1> QED BY <1>1 DEF Sorted, Precedes

LEMMA OneFacts ==
    ASSUME NEW e, NEW q
    PROVE  Elements(<<e>>) = {e} /\ Sorted(q, <<e>>)
<1>1. Len(<<e>>) = 1 /\ <<e>>[1] = e OBVIOUS
<1>2. 1..1 = {1} OBVIOUS
<1> QED BY <1>1, <1>2 DEF Elements, Sorted

(* Sorted sequences. *)
LEMMA SortedTail ==
    ASSUME NEW S, NEW s \in Seq(S), s # <<>>, NEW q, Sorted(q, s)
    PROVE  Sorted(q, Tail(s)) /\ Precedes(q, {Head(s)}, Elements(Tail(s)))
<1>1. /\ Len(Tail(s)) = Len(s) - 1 /\ Len(s) \in Nat \ {0} /\ Head(s) = s[1]
      /\ \A i \in 1..Len(Tail(s)) : Tail(s)[i] = s[i + 1]
  BY TailFacts
<1>2. Sorted(q, Tail(s))
  <2> SUFFICES ASSUME NEW i \in 1..Len(Tail(s)), NEW j \in 1..Len(Tail(s)),
                      i < j, Tail(s)[j] # STOP
               PROVE  Before(q, Tail(s)[i], Tail(s)[j])
    BY DEF Sorted
  <2>1. i + 1 \in 1..Len(s) /\ j + 1 \in 1..Len(s) /\ i + 1 < j + 1 BY <1>1
  <2> QED BY <2>1, <1>1 DEF Sorted
<1>3. ASSUME NEW i \in 1..Len(Tail(s)), Tail(s)[i] # STOP
      PROVE  Before(q, Head(s), Tail(s)[i])
  <2>1. 1 \in 1..Len(s) /\ i + 1 \in 1..Len(s) /\ 1 < i + 1 BY <1>1
  <2> QED BY <2>1, <1>1, <1>3 DEF Sorted
<1> QED BY <1>2, <1>3 DEF Precedes, Elements

LEMMA SortedAppend ==
    ASSUME NEW S, NEW s \in Seq(S), NEW e \in S, NEW q, Sorted(q, s),
           Precedes(q, Elements(s), {e})
    PROVE  Sorted(q, Append(s, e))
<1>1. /\ Len(Append(s, e)) = Len(s) + 1 /\ Len(s) \in Nat
      /\ Append(s, e)[Len(s) + 1] = e
      /\ \A i \in 1..Len(s) : Append(s, e)[i] = s[i]
      /\ \A i \in 1..(Len(s) + 1) : i \in 1..Len(s) \/ i = Len(s) + 1
  BY AppendFacts
<1> SUFFICES ASSUME NEW i \in 1..(Len(s) + 1), NEW j \in 1..(Len(s) + 1), i < j,
                    Append(s, e)[j] # STOP
             PROVE  Before(q, Append(s, e)[i], Append(s, e)[j])
  BY <1>1 DEF Sorted
<1>2. i \in 1..Len(s) BY <1>1
<1>3. CASE j \in 1..Len(s) BY <1>1, <1>2, <1>3 DEF Sorted
<1>4. CASE j = Len(s) + 1
  BY <1>1, <1>2, <1>4 DEF Precedes, Elements
<1> QED BY <1>1, <1>3, <1>4

(* The order of distinct operations is strict. *)
LEMMA BeforeStrict ==
    ASSUME NEW q, Distinct(q), NEW a, Before(q, a, a)
    PROVE  FALSE
BY DEF Before, Distinct

LEMMA BeforeAppend ==
    ASSUME NEW S, NEW q \in Seq(S), NEW e \in S, NEW a, NEW b
    PROVE  /\ Before(q, a, b) => Before(Append(q, e), a, b)
           /\ a \in Elements(q) => Before(Append(q, e), a, e)
<1>1. /\ Len(Append(q, e)) = Len(q) + 1 /\ Len(q) \in Nat
      /\ Append(q, e)[Len(q) + 1] = e
      /\ \A i \in 1..Len(q) : Append(q, e)[i] = q[i]
  BY AppendFacts
<1>2. \A i \in 1..Len(q) : i \in 1..(Len(q) + 1) /\ i < Len(q) + 1
  BY <1>1
<1>3. Len(q) + 1 \in 1..(Len(q) + 1) BY <1>1
<1>4. Before(q, a, b) => Before(Append(q, e), a, b)
  BY <1>1, <1>2 DEF Before
<1>5. a \in Elements(q) => Before(Append(q, e), a, e)
  BY <1>1, <1>2, <1>3 DEF Before, Elements
<1> QED BY <1>4, <1>5

-----------------------------------------------------------------------------
(* Answering the callers in S: nobody else's future changes. *)
LEMMA ResolveEffect ==
    ASSUME TypeOK, NEW S, NEW result \in Outcomes \ {"idle", "waiting"}, Resolve(S, result)
    PROVE  /\ outcome' \in [Ops -> Outcomes]
           /\ \A o \in Ops : outcome[o] # "waiting" => outcome'[o] = outcome[o]
           /\ \A o \in Ops : o \notin S => outcome'[o] = outcome[o]
           /\ \A o \in Ops : o \in S /\ outcome[o] = "waiting" => outcome'[o] = result
BY DEF TypeOK, Resolve, Unresolved

(* Waiting operations are the only ones whose outcome an action changes;   *)
(* those still in the pipeline are not among them.                         *)
Answers == \A o \in Ops : outcome'[o] = outcome[o] \/ outcome'[o] \notin {"idle", "waiting"}
LEMMA WaitKept ==
    ASSUME TypeOK, WaitInv, UNCHANGED submitted, Answers, outcome' \in [Ops -> Outcomes],
           Pipeline' \subseteq Pipeline, \A o \in Pipeline' : outcome'[o] = outcome[o]
    PROVE  WaitInv'
<1>1. Elements(submitted)' = Elements(submitted) /\ Elements(submitted) \subseteq Ops
  BY ElementsType DEF TypeOK
<1>2. \A o \in Pipeline' : outcome'[o] = "waiting" BY DEF WaitInv
<1>3. \A o \in Ops : outcome'[o] = "waiting" => o \in Elements(submitted)
  BY DEF WaitInv, Answers
<1>4. \A o \in Elements(submitted) : outcome'[o] # "idle"
  BY <1>1 DEF WaitInv, Answers
<1> QED BY <1>1, <1>2, <1>3, <1>4 DEF WaitInv

LEMMA EnqueueKeeps ==
    ASSUME Inv, NEW o \in Ops, Enqueue(o)
    PROVE  Inv'
<1>i. TypeOK /\ PhaseInv /\ CloseInv /\ OrderInv /\ WaitInv /\ ResultInv BY DEF Inv
<1>1. /\ outcome[o] = "idle" /\ ~closed /\ outcome' = [outcome EXCEPT ![o] = "waiting"]
      /\ queue' = Append(queue, o) /\ submitted' = Append(submitted, o)
      /\ UNCHANGED <<closed, transactionFailed, phase, stopping, batch, ready, results,
                     tx, durable, connectFailed, crashes>>
  BY DEF Enqueue
<1>2. o # STOP BY CommitAssumption
<1>3. /\ queue' \in Seq(Ops \cup {STOP}) /\ Len(queue') = Len(queue) + 1 /\ Len(queue) \in Nat
      /\ queue'[Len(queue) + 1] = o
      /\ \A i \in 1..Len(queue) : queue'[i] = queue[i]
      /\ \A i \in 1..(Len(queue) + 1) : i \in 1..Len(queue) \/ i = Len(queue) + 1
      /\ Elements(queue') = Elements(queue) \cup {o}
  <2>1. queue \in Seq(Ops \cup {STOP}) /\ o \in Ops \cup {STOP} BY <1>i DEF TypeOK
  <2> QED BY <1>1, <2>1, AppendFacts
<1>4. /\ submitted' \in Seq(Ops) /\ Len(submitted') = Len(submitted) + 1 /\ Len(submitted) \in Nat
      /\ submitted'[Len(submitted) + 1] = o
      /\ \A i \in 1..Len(submitted) : submitted'[i] = submitted[i]
      /\ \A i \in 1..(Len(submitted) + 1) : i \in 1..Len(submitted) \/ i = Len(submitted) + 1
      /\ Elements(submitted') = Elements(submitted) \cup {o}
  BY <1>1, <1>i, AppendFacts DEF TypeOK
<1>5. o \notin Elements(submitted) BY <1>1, <1>i DEF WaitInv
<1>6. \A a, b : /\ Before(submitted, a, b) => Before(submitted', a, b)
                /\ a \in Elements(submitted) => Before(submitted', a, o)
  BY <1>1, <1>i, BeforeAppend DEF TypeOK
<1>7. \A s : Sorted(submitted, s) => Sorted(submitted', s)
  BY <1>6 DEF Sorted
<1>8. \A A, B : /\ Precedes(submitted, A, B) => Precedes(submitted', A, B)
                /\ A \subseteq Elements(submitted) => Precedes(submitted', A, {o})
  BY <1>6 DEF Precedes
<1>9. /\ Elements(queue) \ {STOP} \subseteq Elements(submitted)
      /\ Elements(batch) \subseteq Elements(submitted) /\ Elements(ready) \subseteq Elements(submitted)
  <2>1. Pipeline \subseteq Ops
    <3>1. Elements(queue) \subseteq Ops \cup {STOP} BY <1>i, ElementsType DEF TypeOK
    <3>2. Elements(batch) \subseteq Ops /\ Elements(ready) \subseteq Ops
      BY <1>i, ElementsType DEF TypeOK
    <3> QED BY <3>1, <3>2 DEF Pipeline
  <2> QED BY <2>1, <1>i DEF WaitInv, Pipeline
<1>10. STOP \notin Elements(queue) BY <1>1, <1>i DEF CloseInv
<1>11. TypeOK'
  BY <1>1, <1>3, <1>4, <1>i DEF TypeOK, Outcomes
<1>12. PhaseInv' BY <1>1, <1>i DEF PhaseInv
<1>13. CloseInv'
  <2>1. \A i \in 1..Len(queue') : queue'[i] # STOP
    BY <1>2, <1>3, <1>10 DEF Elements
  <2>2. STOP \notin Elements(queue') BY <1>2, <1>3, <1>10
  <2> QED BY <2>1, <2>2, <1>1, <1>i DEF CloseInv
<1>14. OrderInv'
  <2>1. Distinct(submitted')
    <3> SUFFICES ASSUME NEW i \in 1..(Len(submitted) + 1), NEW j \in 1..(Len(submitted) + 1),
                        submitted'[i] = submitted'[j]
                 PROVE  i = j
      BY <1>4 DEF Distinct
    <3>1. \A k \in 1..Len(submitted) : submitted'[k] # o BY <1>4, <1>5 DEF Elements
    <3> QED BY <3>1, <1>4, <1>i DEF OrderInv, Distinct
  <2>2. Sorted(submitted', queue')
    <3>1. Precedes(submitted', Elements(queue), {o}) BY <1>8, <1>9, <1>10
    <3>2. Sorted(submitted', queue) BY <1>7, <1>i DEF OrderInv
    <3> QED BY <3>1, <3>2, <1>1, <1>i, SortedAppend DEF TypeOK
  <2>3. \A A : A \subseteq Elements(submitted) /\ Precedes(submitted, A, Elements(queue))
                  => Precedes(submitted', A, Elements(queue'))
    BY <1>3, <1>8 DEF Precedes
  <2>4. Elements(durable) \subseteq Elements(submitted') BY <1>4, <1>i DEF OrderInv
  <2> QED BY <2>1, <2>2, <2>3, <2>4, <1>1, <1>7, <1>8, <1>9, <1>i DEF OrderInv
<1>15. WaitInv'
  <2>1. Pipeline' = Pipeline \cup {o} BY <1>1, <1>2, <1>3 DEF Pipeline
  <2>2. \A p \in Pipeline \cup {o} : outcome'[p] = "waiting"
    BY <1>1, <1>i DEF WaitInv, TypeOK
  <2>3. \A p \in Ops : outcome'[p] = "waiting" => p \in Elements(submitted')
    BY <1>1, <1>4, <1>i DEF WaitInv, TypeOK
  <2>4. \A p \in Elements(submitted') : outcome'[p] # "idle"
    BY <1>1, <1>4, <1>i DEF WaitInv, TypeOK
  <2> QED BY <2>1, <2>2, <2>3, <2>4 DEF WaitInv
<1>16. ResultInv' BY <1>1, <1>7, <1>i DEF ResultInv
<1> QED BY <1>11, <1>12, <1>13, <1>14, <1>15, <1>16 DEF Inv

LEMMA CloseKeeps ==
    ASSUME Inv, Close
    PROVE  Inv'
<1>i. TypeOK /\ PhaseInv /\ CloseInv /\ OrderInv /\ WaitInv /\ ResultInv BY DEF Inv
<1>1. /\ ~closed /\ closed' = TRUE /\ queue' = Append(queue, STOP)
      /\ UNCHANGED <<outcome, transactionFailed, phase, stopping, batch, ready, results,
                     tx, durable, submitted, connectFailed, crashes>>
  BY DEF Close
<1>2. /\ queue' \in Seq(Ops \cup {STOP}) /\ Len(queue') = Len(queue) + 1 /\ Len(queue) \in Nat
      /\ \A i \in 1..Len(queue) : queue'[i] = queue[i]
      /\ \A i \in 1..(Len(queue) + 1) : i \in 1..Len(queue) \/ i = Len(queue) + 1
      /\ Elements(queue') = Elements(queue) \cup {STOP}
  <2>1. queue \in Seq(Ops \cup {STOP}) /\ STOP \in Ops \cup {STOP} BY <1>i DEF TypeOK
  <2> QED BY <1>1, <2>1, AppendFacts
<1>3. TypeOK' BY <1>1, <1>2, <1>i DEF TypeOK
<1>4. PhaseInv' BY <1>1, <1>i DEF PhaseInv
<1>5. CloseInv'
  <2>1. \A i \in 1..Len(queue) : queue'[i] # STOP
    BY <1>1, <1>2, <1>i DEF CloseInv, Elements
  <2> QED BY <2>1, <1>1, <1>2, <1>i DEF CloseInv
<1>6. OrderInv'
  <2>1. Precedes(submitted, Elements(queue), {STOP}) BY DEF Precedes
  <2>2. Sorted(submitted, queue')
    BY <2>1, <1>1, <1>i, SortedAppend DEF OrderInv, TypeOK
  <2>3. \A A : Precedes(submitted, A, Elements(queue)) => Precedes(submitted, A, Elements(queue'))
    BY <1>2 DEF Precedes
  <2> QED BY <2>2, <2>3, <1>1, <1>i DEF OrderInv
<1>7. WaitInv'
  <2>1. Pipeline' = Pipeline BY <1>1, <1>2 DEF Pipeline
  <2> QED BY <2>1, <1>1, <1>i DEF WaitInv
<1>8. ResultInv' BY <1>1, <1>i DEF ResultInv
<1> QED BY <1>3, <1>4, <1>5, <1>6, <1>7, <1>8 DEF Inv

LEMMA TakeKeeps ==
    ASSUME Inv, Take
    PROVE  Inv'
<1>i. TypeOK /\ PhaseInv /\ CloseInv /\ OrderInv /\ WaitInv /\ ResultInv BY DEF Inv
<1> DEFINE h == Head(queue)
<1>1. /\ phase = "wait" /\ queue # <<>> /\ queue' = Tail(queue)
      /\ IF h = STOP THEN phase' = "exit" /\ UNCHANGED batch
                     ELSE phase' = "drain" /\ batch' = <<h>>
      /\ UNCHANGED <<outcome, closed, transactionFailed, stopping, ready, results, tx,
                     durable, submitted, connectFailed, crashes>>
  BY DEF Take
<1>2. /\ h \in Ops \cup {STOP} /\ queue' \in Seq(Ops \cup {STOP}) /\ Len(queue') = Len(queue) - 1
      /\ Len(queue) \in Nat \ {0} /\ h = queue[1]
      /\ \A i \in 1..Len(queue') : queue'[i] = queue[i + 1]
      /\ Elements(queue) = {h} \cup Elements(queue')
  BY <1>1, <1>i, TailFacts DEF TypeOK
<1>3. Sorted(submitted, queue') /\ Precedes(submitted, {h}, Elements(queue'))
  BY <1>1, <1>i, SortedTail DEF TypeOK, OrderInv
<1>4. batch = <<>> /\ ready = <<>> /\ results = <<>> /\ tx = <<>>
  BY <1>1, <1>i DEF PhaseInv
<1>5. Elements(batch) = {} /\ Elements(ready) = {} /\ Elements(batch') = {h} \ {STOP}
      /\ Sorted(submitted, batch') /\ batch' \in Seq(Ops)
  <2>1. CASE h = STOP BY <2>1, <1>1, <1>4, EmptyFacts
  <2>2. CASE h # STOP
    <3>1. batch' = <<h>> /\ h \in Ops BY <2>2, <1>1, <1>2
    <3>2. Elements(<<h>>) = {h} /\ Sorted(submitted, <<h>>) BY OneFacts
    <3>3. <<h>> \in Seq(Ops) BY <3>1
    <3> QED BY <2>2, <3>1, <3>2, <3>3, <1>4, EmptyFacts
  <2> QED BY <2>1, <2>2
<1> HIDE DEF h
<1>6. TypeOK'
  <2>1. batch' \in Seq(Ops) BY <1>5
  <2> QED BY <2>1, <1>1, <1>2, <1>i DEF TypeOK, Phases
<1>7. PhaseInv' BY <1>1, <1>4 DEF PhaseInv
<1>8. CloseInv'
  <2>1. \A i \in 1..Len(queue') : queue'[i] = STOP => i = Len(queue')
    <3> SUFFICES ASSUME NEW i \in 1..Len(queue'), queue'[i] = STOP PROVE i = Len(queue')
      OBVIOUS
    <3>1. i + 1 \in 1..Len(queue) /\ queue[i + 1] = STOP BY <1>2
    <3>2. i + 1 = Len(queue) BY <3>1, <1>i DEF CloseInv
    <3> QED BY <3>2, <1>2
  <2>2. h = STOP => queue' = <<>> /\ closed
    <3>1. 1 \in 1..Len(queue) BY <1>2
    <3>2. h = STOP => Len(queue) = 1 /\ closed BY <3>1, <1>2, <1>i DEF CloseInv
    <3>3. h = STOP => Len(queue') = 0 BY <3>2, <1>2
    <3> QED BY <3>2, <3>3, <1>2
  <2>3. stopping => FALSE BY <1>1, <1>i DEF CloseInv
  <2> QED BY <2>1, <2>2, <2>3, <1>1, <1>2, <1>i DEF CloseInv
<1>9. OrderInv'
  <2>1. Precedes(submitted, Elements(durable), Elements(batch'))
        /\ Precedes(submitted, Elements(durable), Elements(queue'))
    BY <1>2, <1>5, <1>i DEF OrderInv, Precedes
  <2>2. Precedes(submitted, Elements(batch'), Elements(queue'))
    BY <1>3, <1>5 DEF Precedes
  <2>3. Precedes(submitted, Elements(ready), Elements(batch'))
        /\ Precedes(submitted, Elements(ready), Elements(queue'))
    BY <1>5 DEF Precedes
  <2>4. Precedes(submitted, Elements(durable), Elements(ready)) BY <1>5 DEF Precedes
  <2> QED BY <2>1, <2>2, <2>3, <2>4, <1>1, <1>3, <1>5, <1>i DEF OrderInv
<1>10. WaitInv'
  <2>1. Pipeline' = Pipeline BY <1>1, <1>2, <1>5 DEF Pipeline
  <2> QED BY <2>1, <1>1, <1>i DEF WaitInv
<1>11. ResultInv'
  BY <1>1, <1>4, EmptyFacts DEF ResultInv
<1> QED BY <1>6, <1>7, <1>8, <1>9, <1>10, <1>11 DEF Inv

LEMMA TakeExtraKeeps ==
    ASSUME Inv, TakeExtra
    PROVE  Inv'
<1>i. TypeOK /\ PhaseInv /\ CloseInv /\ OrderInv /\ WaitInv /\ ResultInv BY DEF Inv
<1> DEFINE h == Head(queue)
<1>1. /\ phase = "drain" /\ queue # <<>> /\ queue' = Tail(queue)
      /\ IF h = STOP THEN phase' = "prepare" /\ stopping' = TRUE /\ UNCHANGED batch
                     ELSE batch' = Append(batch, h) /\ UNCHANGED <<phase, stopping>>
      /\ UNCHANGED <<outcome, closed, transactionFailed, ready, results, tx,
                     durable, submitted, connectFailed, crashes>>
  BY DEF TakeExtra
<1>2. /\ h \in Ops \cup {STOP} /\ queue' \in Seq(Ops \cup {STOP}) /\ Len(queue') = Len(queue) - 1
      /\ Len(queue) \in Nat \ {0} /\ h = queue[1]
      /\ \A i \in 1..Len(queue') : queue'[i] = queue[i + 1]
      /\ Elements(queue) = {h} \cup Elements(queue')
  BY <1>1, <1>i, TailFacts DEF TypeOK
<1>3. Sorted(submitted, queue') /\ Precedes(submitted, {h}, Elements(queue'))
  BY <1>1, <1>i, SortedTail DEF TypeOK, OrderInv
<1>4. ready = <<>> /\ results = <<>> /\ tx = <<>> /\ Elements(ready) = {}
  BY <1>1, <1>i, EmptyFacts DEF PhaseInv
<1>5. Elements(batch') = Elements(batch) \cup ({h} \ {STOP})
      /\ Sorted(submitted, batch') /\ batch' \in Seq(Ops)
  <2>1. CASE h = STOP BY <2>1, <1>1, <1>i DEF TypeOK, OrderInv
  <2>2. CASE h # STOP
    <3>1. batch' = Append(batch, h) /\ h \in Ops BY <2>2, <1>1, <1>2
    <3>2. batch' \in Seq(Ops) /\ Elements(batch') = Elements(batch) \cup {h}
      BY <3>1, <1>i, AppendFacts DEF TypeOK
    <3>3. Precedes(submitted, Elements(batch), {h})
      BY <1>2, <1>i DEF OrderInv, Precedes
    <3>4. Sorted(submitted, batch')
      BY <3>1, <3>3, <1>i, SortedAppend DEF TypeOK, OrderInv
    <3> QED BY <2>2, <3>2, <3>4
  <2> QED BY <2>1, <2>2
<1> HIDE DEF h
<1>6. TypeOK' BY <1>1, <1>2, <1>5, <1>i DEF TypeOK, Phases
<1>7. PhaseInv' BY <1>1, <1>4 DEF PhaseInv
<1>8. CloseInv'
  <2>1. \A i \in 1..Len(queue') : queue'[i] = STOP => i = Len(queue')
    <3> SUFFICES ASSUME NEW i \in 1..Len(queue'), queue'[i] = STOP PROVE i = Len(queue')
      OBVIOUS
    <3>1. i + 1 \in 1..Len(queue) /\ queue[i + 1] = STOP BY <1>2
    <3>2. i + 1 = Len(queue) BY <3>1, <1>i DEF CloseInv
    <3> QED BY <3>2, <1>2
  <2>2. h = STOP => queue' = <<>> /\ closed
    <3>1. 1 \in 1..Len(queue) BY <1>2
    <3>2. h = STOP => Len(queue) = 1 /\ closed BY <3>1, <1>2, <1>i DEF CloseInv
    <3>3. h = STOP => Len(queue') = 0 BY <3>2, <1>2
    <3> QED BY <3>2, <3>3, <1>2
  <2>3. stopping => FALSE BY <1>1, <1>i DEF CloseInv
  <2> QED BY <2>1, <2>2, <2>3, <1>1, <1>2, <1>i DEF CloseInv
<1>9. OrderInv'
  <2>1. Precedes(submitted, Elements(durable), Elements(batch'))
        /\ Precedes(submitted, Elements(durable), Elements(queue'))
    BY <1>2, <1>5, <1>i DEF OrderInv, Precedes
  <2>2. Precedes(submitted, Elements(batch'), Elements(queue'))
    BY <1>2, <1>3, <1>5, <1>i DEF Precedes, OrderInv
  <2>3. Precedes(submitted, Elements(ready), Elements(batch'))
        /\ Precedes(submitted, Elements(ready), Elements(queue'))
    BY <1>4 DEF Precedes
  <2>4. Precedes(submitted, Elements(durable), Elements(ready)) BY <1>4 DEF Precedes
  <2> QED BY <2>1, <2>2, <2>3, <2>4, <1>1, <1>3, <1>5, <1>i DEF OrderInv
<1>10. WaitInv'
  <2>1. Pipeline' = Pipeline BY <1>1, <1>2, <1>5 DEF Pipeline
  <2> QED BY <2>1, <1>1, <1>i DEF WaitInv
<1>11. ResultInv'
  BY <1>1, <1>4, EmptyFacts DEF ResultInv
<1> QED BY <1>6, <1>7, <1>8, <1>9, <1>10, <1>11 DEF Inv

(* No operation is twice in the pipeline. *)
LEMMA StagesApart ==
    ASSUME Inv
    PROVE  /\ Elements(ready) \cap Elements(batch) = {}
           /\ Elements(ready) \cap Elements(queue) = {}
           /\ Elements(batch) \cap Elements(queue) = {}
           /\ Elements(ready) \subseteq Ops /\ Elements(batch) \subseteq Ops
           /\ Elements(queue) \subseteq Ops \cup {STOP}
           /\ Elements(durable) \cap (Elements(batch) \cup Elements(queue)) = {}
           /\ phase # "resolve" => Elements(durable) \cap Elements(ready) = {}
           /\ Elements(durable) \subseteq Ops
<1>1. TypeOK /\ OrderInv BY DEF Inv
<1>2. /\ Elements(ready) \subseteq Ops /\ Elements(batch) \subseteq Ops
      /\ Elements(queue) \subseteq Ops \cup {STOP} /\ Elements(durable) \subseteq Ops
  BY <1>1, ElementsType DEF TypeOK
<1>3. \A a : ~Before(submitted, a, a) BY <1>1, BeforeStrict DEF OrderInv
<1> QED BY <1>1, <1>2, <1>3, CommitAssumption DEF OrderInv, Precedes

LEMMA PrepareKeeps ==
    ASSUME Inv, NEW success \in BOOLEAN, Prepare(success)
    PROVE  Inv'
<1>i. TypeOK /\ PhaseInv /\ CloseInv /\ OrderInv /\ WaitInv /\ ResultInv BY DEF Inv
<1> DEFINE o == Head(batch)
<1>1. /\ phase = "prepare" /\ batch # <<>> /\ batch' = Tail(batch)
      /\ IF success THEN ready' = Append(ready, o) /\ UNCHANGED outcome
                    ELSE Resolve({o}, "failed") /\ UNCHANGED ready
      /\ UNCHANGED <<queue, closed, transactionFailed, phase, stopping, results, tx,
                     durable, submitted, connectFailed, crashes>>
  BY DEF Prepare
<1>2. o \in Ops /\ batch' \in Seq(Ops) /\ Elements(batch) = {o} \cup Elements(batch')
  BY <1>1, <1>i, TailFacts DEF TypeOK
<1>3. Sorted(submitted, batch') /\ Precedes(submitted, {o}, Elements(batch'))
  BY <1>1, <1>i, SortedTail DEF TypeOK, OrderInv
<1>4. results = <<>> /\ tx = <<>> BY <1>1, <1>i DEF PhaseInv
<1>5. /\ ready' \in Seq(Ops) /\ Sorted(submitted, ready')
      /\ Elements(ready') = Elements(ready) \cup (IF success THEN {o} ELSE {})
  <2>1. CASE success
    <3>0. ready' = Append(ready, o) /\ ready \in Seq(Ops) BY <2>1, <1>1, <1>i DEF TypeOK
    <3>1. ready' \in Seq(Ops) /\ Elements(ready') = Elements(ready) \cup {o}
      BY <3>0, <1>2, AppendFacts
    <3>2. Precedes(submitted, Elements(ready), {o})
      BY <1>2, <1>i DEF OrderInv, Precedes
    <3>3. Sorted(submitted, ready')
      BY <3>0, <3>2, <1>2, <1>i, SortedAppend DEF OrderInv
    <3> QED BY <2>1, <3>1, <3>3
  <2>2. CASE ~success BY <2>2, <1>1, <1>i DEF TypeOK, OrderInv
  <2> QED BY <2>1, <2>2
<1>6. /\ outcome' \in [Ops -> Outcomes] /\ Answers
      /\ \A p \in Ops \ {o} : outcome'[p] = outcome[p]
      /\ success => outcome' = outcome
  <2>1. CASE success BY <2>1, <1>1, <1>i DEF Answers, TypeOK
  <2>2. CASE ~success
    <3>1. /\ outcome' \in [Ops -> Outcomes]
          /\ \A p \in Ops : outcome[p] # "waiting" => outcome'[p] = outcome[p]
          /\ \A p \in Ops : p \notin {o} => outcome'[p] = outcome[p]
          /\ \A p \in Ops : p \in {o} /\ outcome[p] = "waiting" => outcome'[p] = "failed"
      BY <2>2, <1>1, <1>i, ResolveEffect DEF Outcomes
    <3> QED BY <2>2, <3>1 DEF Answers
  <2> QED BY <2>1, <2>2
<1>7. o \notin Elements(batch') /\ o \notin Elements(queue) /\ o \notin Elements(ready)
  <2>1. ~Before(submitted, o, o) BY <1>i, BeforeStrict DEF OrderInv
  <2>2. o # STOP BY <1>2, CommitAssumption
  <2> QED BY <2>1, <2>2, <1>2, <1>3, <1>i DEF OrderInv, Precedes
<1> HIDE DEF o
<1>8. TypeOK' BY <1>1, <1>2, <1>5, <1>6, <1>i DEF TypeOK
<1>9. PhaseInv' BY <1>1, <1>4 DEF PhaseInv
<1>10. CloseInv' BY <1>1, <1>i DEF CloseInv
<1>11. OrderInv'
  <2>1. Precedes(submitted, Elements(durable), Elements(batch'))
        /\ Precedes(submitted, Elements(durable), Elements(ready'))
    BY <1>1, <1>2, <1>5, <1>i DEF OrderInv, Precedes
  <2>2. Precedes(submitted, Elements(ready'), Elements(batch'))
        /\ Precedes(submitted, Elements(ready'), Elements(queue))
    BY <1>2, <1>3, <1>5, <1>i DEF OrderInv, Precedes
  <2>3. Precedes(submitted, Elements(batch'), Elements(queue))
    BY <1>2, <1>i DEF OrderInv, Precedes
  <2> QED BY <2>1, <2>2, <2>3, <1>1, <1>3, <1>5, <1>i DEF OrderInv
<1>12. WaitInv'
  <2>1. Pipeline' \subseteq Pipeline
    BY <1>1, <1>2, <1>5 DEF Pipeline
  <2>2. \A p \in Pipeline' : outcome'[p] = outcome[p]
    <3>1. CASE success BY <3>1, <1>6
    <3>2. CASE ~success
      <4>1. o \notin Pipeline' BY <3>2, <1>1, <1>5, <1>7 DEF Pipeline
      <4>2. Pipeline \subseteq Ops BY StagesApart DEF Pipeline
      <4> QED BY <2>1, <4>1, <4>2, <1>6
    <3> QED BY <3>1, <3>2
  <2> QED BY <2>1, <2>2, <1>1, <1>6, <1>i, WaitKept
<1>13. ResultInv' BY <1>1, <1>4, EmptyFacts DEF ResultInv
<1> QED BY <1>8, <1>9, <1>10, <1>11, <1>12, <1>13 DEF Inv

(* A batch fails: its operations are answered and leave the pipeline. *)
LEMMA FailBatchKeeps ==
    ASSUME Inv, phase \in {"prepare", "apply"}, batch = <<>>, FailBatch, tx' = <<>>,
           UNCHANGED <<queue, closed, stopping, batch, durable, submitted, connectFailed,
                       crashes>>
    PROVE  Inv'
<1>i. TypeOK /\ PhaseInv /\ CloseInv /\ OrderInv /\ WaitInv /\ ResultInv BY DEF Inv
<1>1. /\ Resolve(Elements(ready), "failed") /\ transactionFailed' = TRUE
      /\ ready' = <<>> /\ results' = <<>> /\ phase' = NextBatch
  BY DEF FailBatch
<1>2. /\ outcome' \in [Ops -> Outcomes]
      /\ \A p \in Ops : outcome[p] # "waiting" => outcome'[p] = outcome[p]
      /\ \A p \in Ops : p \notin Elements(ready) => outcome'[p] = outcome[p]
      /\ \A p \in Ops : p \in Elements(ready) /\ outcome[p] = "waiting" => outcome'[p] = "failed"
  BY <1>1, <1>i, ResolveEffect DEF Outcomes
<1>3. phase' \in {"wait", "exit"} /\ (phase' = "exit" => stopping)
  BY <1>1 DEF NextBatch
<1>4. Elements(ready') = {} /\ Elements(batch) = {} /\ Sorted(submitted, ready')
  BY <1>1, EmptyFacts
<1>5. TypeOK' BY <1>1, <1>2, <1>3, <1>i DEF TypeOK, Phases
<1>6. PhaseInv' BY <1>1, <1>3 DEF PhaseInv
<1>7. CloseInv' BY <1>3, <1>i DEF CloseInv
<1>8. OrderInv'
  <2>1. \A A : Precedes(submitted, A, {}) /\ Precedes(submitted, {}, A) BY EmptyFacts
  <2> QED BY <2>1, <1>4, <1>i DEF OrderInv
<1>9. WaitInv'
  <2>1. Pipeline' \subseteq Pipeline BY <1>4 DEF Pipeline
  <2>2. Pipeline' \cap Elements(ready) = {} /\ Pipeline \subseteq Ops
    BY <1>4, StagesApart DEF Pipeline
  <2>3. Answers BY <1>2 DEF Answers
  <2> QED BY <2>1, <2>2, <2>3, <1>2, <1>i, WaitKept
<1>10. ResultInv' BY <1>1, <1>3, EmptyFacts DEF ResultInv
<1> QED BY <1>5, <1>6, <1>7, <1>8, <1>9, <1>10 DEF Inv

(* One operation applied: what its caller will be told is what the         *)
(* transaction holds.                                                      *)
LEMMA ApplyKeeps ==
    ASSUME Inv, NEW success \in BOOLEAN, Apply(success)
    PROVE  Inv'
<1>i. TypeOK /\ PhaseInv /\ CloseInv /\ OrderInv /\ WaitInv /\ ResultInv BY DEF Inv
<1> DEFINE k == Len(results)
           o == ready[k + 1]
           r == IF success THEN "ok" ELSE "failed"
<1>1. /\ phase = "apply" /\ k < Len(ready)
      /\ tx' = IF success THEN Append(tx, o) ELSE tx
      /\ results' = Append(results, r)
      /\ UNCHANGED <<outcome, queue, closed, transactionFailed, phase, stopping, batch,
                     ready, durable, submitted, connectFailed, crashes>>
  BY DEF Apply, Applying
<1>2. k \in Nat /\ k + 1 \in 1..Len(ready) /\ o \in Ops /\ Len(ready) \in Nat
      /\ \A i \in 1..k : i \in 1..Len(ready) /\ i < k + 1
  BY <1>1, <1>i DEF TypeOK
<1>3. /\ results' \in Seq({"ok", "failed"}) /\ Len(results') = k + 1
      /\ results'[k + 1] = r /\ \A i \in 1..k : results'[i] = results[i]
      /\ \A i \in 1..(k + 1) : i \in 1..k \/ i = k + 1
  <2>1. r \in {"ok", "failed"} /\ results \in Seq({"ok", "failed"}) BY <1>i DEF TypeOK
  <2> HIDE DEF r
  <2> QED BY <2>1, <1>1, AppendFacts
<1>4. Precedes(submitted, Elements(tx), {o})
  <2> SUFFICES ASSUME NEW a \in Elements(tx), o # STOP PROVE Before(submitted, a, o)
    BY DEF Precedes
  <2>1. PICK i \in 1..k : ready[i] = a BY <1>i DEF ResultInv
  <2> QED BY <2>1, <1>2, <1>i DEF OrderInv, Sorted
<1>5. /\ tx' \in Seq(Ops) /\ Sorted(submitted, tx')
      /\ Elements(tx') = Elements(tx) \cup (IF success THEN {o} ELSE {})
  <2>1. CASE success
    <3>1. tx' = Append(tx, o) /\ tx \in Seq(Ops) BY <2>1, <1>1, <1>i DEF TypeOK
    <3>2. tx' \in Seq(Ops) /\ Elements(tx') = Elements(tx) \cup {o}
      BY <3>1, <1>2, AppendFacts
    <3>3. Sorted(submitted, tx') BY <3>1, <1>2, <1>4, <1>i, SortedAppend DEF ResultInv
    <3> QED BY <2>1, <3>2, <3>3
  <2>2. CASE ~success BY <2>2, <1>1, <1>i DEF TypeOK, ResultInv
  <2> QED BY <2>1, <2>2
<1>6. TypeOK' BY <1>1, <1>3, <1>5, <1>i DEF TypeOK
<1>7. PhaseInv' BY <1>1, <1>2, <1>3, <1>i DEF PhaseInv
<1>8. CloseInv' /\ OrderInv' BY <1>1, <1>i DEF CloseInv, OrderInv
<1>9. WaitInv'
  <2>1. Pipeline' = Pipeline BY <1>1 DEF Pipeline
  <2> QED BY <2>1, <1>1, <1>i DEF WaitInv
<1>10. ResultInv'
  <2>0. k + 1 \in 1..(k + 1) /\ \A i \in 1..k : i \in 1..(k + 1) BY <1>2
  <2>1. \A p \in Elements(tx') : \E i \in 1..(k + 1) : ready[i] = p /\ results'[i] = "ok"
    <3>1. \A p \in Elements(tx) : \E i \in 1..(k + 1) : ready[i] = p /\ results'[i] = "ok"
      BY <2>0, <1>3, <1>i DEF ResultInv
    <3>2. success => r = "ok" OBVIOUS
    <3> QED BY <3>1, <3>2, <2>0, <1>3, <1>5
  <2>2. \A i \in 1..(k + 1) : results'[i] = "ok" => ready[i] \in Elements(tx')
    <3>1. \A i \in 1..k : results'[i] = "ok" => ready[i] \in Elements(tx')
      BY <1>1, <1>3, <1>5, <1>i DEF ResultInv
    <3>2. results'[k + 1] = "ok" => success BY <1>3
    <3> QED BY <3>1, <3>2, <1>3, <1>5
  <2> QED BY <2>1, <2>2, <1>1, <1>3, <1>5 DEF ResultInv
<1> QED BY <1>6, <1>7, <1>8, <1>9, <1>10 DEF Inv

(* COMMIT: the transaction is appended to the disk. *)
LEMMA ConcatFacts ==
    ASSUME NEW S, NEW s \in Seq(S), NEW t \in Seq(S)
    PROVE  /\ s \o t \in Seq(S) /\ Len(s \o t) = Len(s) + Len(t)
           /\ Len(s) \in Nat /\ Len(t) \in Nat
           /\ \A i \in 1..Len(s) : (s \o t)[i] = s[i]
           /\ \A i \in 1..Len(t) : (s \o t)[Len(s) + i] = t[i]
           /\ \A i \in 1..Len(s \o t) : \/ i \in 1..Len(s)
                                        \/ i - Len(s) \in 1..Len(t) /\ (s \o t)[i] = t[i - Len(s)]
           /\ Elements(s \o t) = Elements(s) \cup Elements(t)
<1>1. /\ s \o t \in Seq(S) /\ Len(s \o t) = Len(s) + Len(t)
      /\ Len(s) \in Nat /\ Len(t) \in Nat
      /\ \A i \in 1..Len(s) : (s \o t)[i] = s[i]
      /\ \A i \in 1..Len(t) : (s \o t)[Len(s) + i] = t[i]
  OBVIOUS
<1>2. \A i \in 1..Len(s \o t) : \/ i \in 1..Len(s)
                                \/ i - Len(s) \in 1..Len(t) /\ (s \o t)[i] = t[i - Len(s)]
  BY <1>1
<1>3. /\ \A i \in 1..Len(s) : i \in 1..Len(s \o t)
      /\ \A i \in 1..Len(t) : Len(s) + i \in 1..Len(s \o t)
  BY <1>1
<1>4. Elements(s \o t) = Elements(s) \cup Elements(t)
  <2>1. Elements(s \o t) \subseteq Elements(s) \cup Elements(t)
    BY <1>1, <1>2 DEF Elements
  <2>2. \A i \in 1..Len(s) : s[i] \in Elements(s \o t)
    <3> TAKE i \in 1..Len(s)
    <3>1. i \in 1..Len(s \o t) /\ (s \o t)[i] = s[i] BY <1>1, <1>3
    <3> QED BY <3>1 DEF Elements
  <2>3. \A i \in 1..Len(t) : t[i] \in Elements(s \o t)
    <3> TAKE i \in 1..Len(t)
    <3>1. Len(s) + i \in 1..Len(s \o t) /\ (s \o t)[Len(s) + i] = t[i] BY <1>1, <1>3
    <3> QED BY <3>1 DEF Elements
  <2> QED BY <2>1, <2>2, <2>3 DEF Elements
<1> QED BY <1>1, <1>2, <1>4

LEMMA SortedConcat ==
    ASSUME NEW S, NEW s \in Seq(S), NEW t \in Seq(S), NEW q, Sorted(q, s), Sorted(q, t),
           Precedes(q, Elements(s), Elements(t))
    PROVE  Sorted(q, s \o t)
<1> DEFINE c == s \o t
<1>1. /\ Len(s) \in Nat /\ Len(t) \in Nat
      /\ \A i \in 1..Len(s) : c[i] = s[i]
      /\ \A i \in 1..Len(c) : \/ i \in 1..Len(s)
                              \/ i - Len(s) \in 1..Len(t) /\ c[i] = t[i - Len(s)]
  BY ConcatFacts
<1> SUFFICES ASSUME NEW i \in 1..Len(c), NEW j \in 1..Len(c), i < j, c[j] # STOP
             PROVE  Before(q, c[i], c[j])
  BY DEF Sorted
<1> HIDE DEF c
<1>2. CASE i \in 1..Len(s) /\ j \in 1..Len(s)
  BY <1>1, <1>2 DEF Sorted
<1>3. CASE i \in 1..Len(s) /\ j - Len(s) \in 1..Len(t) /\ c[j] = t[j - Len(s)]
  BY <1>1, <1>3 DEF Precedes, Elements
<1>4. CASE /\ i - Len(s) \in 1..Len(t) /\ c[i] = t[i - Len(s)]
           /\ j - Len(s) \in 1..Len(t) /\ c[j] = t[j - Len(s)]
  <2>1. i - Len(s) < j - Len(s) BY <1>1
  <2> QED BY <2>1, <1>4 DEF Sorted
<1>5. CASE i - Len(s) \in 1..Len(t) /\ j \in 1..Len(s)
  BY <1>1, <1>5
<1> QED BY <1>1, <1>2, <1>3, <1>4, <1>5

LEMMA TxReady ==
    ASSUME Inv
    PROVE  /\ Elements(tx) \subseteq Elements(ready)
           /\ phase = "apply" => Precedes(submitted, Elements(durable), Elements(tx))
           /\ \A i, j \in 1..Len(ready) : ready[i] = ready[j] => i = j
<1>i. TypeOK /\ PhaseInv /\ OrderInv /\ ResultInv BY DEF Inv
<1>1. Elements(tx) \subseteq Elements(ready)
  <2>1. CASE phase = "apply"
    <3>1. Len(results) <= Len(ready) /\ Len(results) \in Nat /\ Len(ready) \in Nat
      BY <2>1, <1>i DEF PhaseInv, TypeOK
    <3>2. \A i \in 1..Len(results) : ready[i] \in Elements(ready) BY <3>1 DEF Elements
    <3> QED BY <3>2, <1>i DEF ResultInv
  <2>2. CASE phase # "apply" BY <2>2, <1>i, EmptyFacts DEF PhaseInv
  <2> QED BY <2>1, <2>2
<1>2. phase = "apply" => Precedes(submitted, Elements(durable), Elements(tx))
  BY <1>1, <1>i DEF OrderInv, Precedes
<1>3. \A i, j \in 1..Len(ready) : ready[i] = ready[j] => i = j
  <2> SUFFICES ASSUME NEW i \in 1..Len(ready), NEW j \in 1..Len(ready), ready[i] = ready[j], i < j
               PROVE  FALSE
    BY <1>i DEF TypeOK
  <2>1. ready[j] # STOP BY <1>i, CommitAssumption DEF TypeOK
  <2>2. Before(submitted, ready[i], ready[j]) BY <2>1, <1>i DEF OrderInv, Sorted
  <2> QED BY <2>2, <1>i, BeforeStrict DEF OrderInv
<1> QED BY <1>1, <1>2, <1>3

LEMMA CommitKeeps ==
    ASSUME Inv, Commit
    PROVE  Inv'
<1>i. TypeOK /\ PhaseInv /\ CloseInv /\ OrderInv /\ WaitInv /\ ResultInv BY DEF Inv
<1>1. /\ phase = "apply" /\ Len(results) = Len(ready)
      /\ durable' = durable \o tx /\ tx' = <<>> /\ phase' = "resolve"
      /\ UNCHANGED <<outcome, queue, closed, transactionFailed, stopping, batch, ready,
                     results, submitted, connectFailed, crashes>>
  BY DEF Commit, AllApplied
<1>2. durable' \in Seq(Ops) /\ Elements(durable') = Elements(durable) \cup Elements(tx)
  BY <1>1, <1>i, ConcatFacts DEF TypeOK
<1>3. Elements(tx) \subseteq Elements(ready) /\ Precedes(submitted, Elements(durable), Elements(tx))
  BY <1>1, TxReady
<1>4. Sorted(submitted, durable')
  BY <1>1, <1>3, <1>i, SortedConcat DEF TypeOK, OrderInv, ResultInv
<1>5. TypeOK' BY <1>1, <1>2, <1>i DEF TypeOK, Phases
<1>6. PhaseInv' BY <1>1, <1>i DEF PhaseInv
<1>7. CloseInv' BY <1>1, <1>i DEF CloseInv
<1>8. OrderInv'
  <2>1. Elements(durable') \subseteq Elements(submitted)
    <3>1. Elements(ready) \subseteq Ops BY StagesApart
    <3>2. Elements(ready) \subseteq Elements(submitted)
      BY <3>1, <1>i DEF WaitInv, Pipeline
    <3> QED BY <3>2, <1>2, <1>3, <1>i DEF OrderInv
  <2>2. Precedes(submitted, Elements(durable'), Elements(queue))
        /\ Precedes(submitted, Elements(durable'), Elements(batch))
    BY <1>2, <1>3, <1>i DEF OrderInv, Precedes
  <2> QED BY <2>1, <2>2, <1>1, <1>4, <1>i DEF OrderInv
<1>9. WaitInv'
  <2>1. Pipeline' = Pipeline BY <1>1 DEF Pipeline
  <2> QED BY <2>1, <1>1, <1>i DEF WaitInv
<1>10. ResultInv'
  <2>1. \A i \in 1..Len(ready) : results[i] = "ok" <=> ready[i] \in Elements(tx)
    BY <1>1, <1>i, TxReady DEF ResultInv
  <2>2. \A i \in 1..Len(ready) : ready[i] \notin Elements(durable)
    BY <1>1, StagesApart DEF Elements
  <2> QED BY <2>1, <2>2, <1>1, <1>2, EmptyFacts DEF ResultInv
<1> QED BY <1>5, <1>6, <1>7, <1>8, <1>9, <1>10 DEF Inv

LEMMA ResolveNextKeeps ==
    ASSUME Inv, ResolveNext
    PROVE  Inv'
<1>i. TypeOK /\ PhaseInv /\ CloseInv /\ OrderInv /\ WaitInv /\ ResultInv BY DEF Inv
<1> DEFINE o == Head(ready)
<1>1. /\ phase = "resolve" /\ ready # <<>> /\ Resolve({o}, Head(results))
      /\ ready' = Tail(ready) /\ results' = Tail(results)
      /\ UNCHANGED <<queue, closed, transactionFailed, phase, stopping, batch, tx,
                     durable, submitted, connectFailed, crashes>>
  BY DEF ResolveNext
<1>2. /\ o \in Ops /\ ready' \in Seq(Ops) /\ Len(ready') = Len(ready) - 1
      /\ Len(ready) \in Nat \ {0} /\ Elements(ready) = {o} \cup Elements(ready')
      /\ \A i \in 1..Len(ready') : ready'[i] = ready[i + 1]
  BY <1>1, <1>i, TailFacts DEF TypeOK
<1>3. /\ Len(results) = Len(ready) /\ results # <<>> /\ results \in Seq({"ok", "failed"})
      /\ batch = <<>> /\ tx = <<>>
  BY <1>1, <1>2, <1>i DEF PhaseInv, TypeOK
<1>4. /\ Head(results) \in {"ok", "failed"} /\ results' \in Seq({"ok", "failed"})
      /\ Len(results') = Len(results) - 1
      /\ \A i \in 1..Len(results') : results'[i] = results[i + 1]
  BY <1>1, <1>3, TailFacts
<1>5. Sorted(submitted, ready') /\ Precedes(submitted, {o}, Elements(ready'))
  BY <1>1, <1>i, SortedTail DEF TypeOK, OrderInv
<1>6. /\ outcome' \in [Ops -> Outcomes]
      /\ \A p \in Ops : outcome[p] # "waiting" => outcome'[p] = outcome[p]
      /\ \A p \in Ops : p \notin {o} => outcome'[p] = outcome[p]
      /\ \A p \in Ops : p \in {o} /\ outcome[p] = "waiting" => outcome'[p] = Head(results)
  BY <1>1, <1>4, <1>i, ResolveEffect DEF Outcomes
<1>7. o \notin Elements(ready') /\ o \notin Elements(queue) /\ o \notin Elements(batch)
  <2>1. ~Before(submitted, o, o) BY <1>i, BeforeStrict DEF OrderInv
  <2>2. o # STOP BY <1>2, CommitAssumption
  <2> QED BY <2>1, <2>2, <1>2, <1>5, <1>i DEF OrderInv, Precedes
<1> HIDE DEF o
<1>8. TypeOK' BY <1>1, <1>2, <1>4, <1>6, <1>i DEF TypeOK
<1>9. PhaseInv' BY <1>1, <1>2, <1>3, <1>4, <1>i DEF PhaseInv
<1>10. CloseInv' BY <1>1, <1>i DEF CloseInv
<1>11. OrderInv'
  <2>1. Precedes(submitted, Elements(ready'), Elements(batch))
        /\ Precedes(submitted, Elements(ready'), Elements(queue))
    BY <1>2, <1>i DEF OrderInv, Precedes
  <2> QED BY <2>1, <1>1, <1>5, <1>i DEF OrderInv
<1>12. WaitInv'
  <2>1. Pipeline' \subseteq Pipeline /\ o \notin Pipeline'
    BY <1>1, <1>2, <1>7 DEF Pipeline
  <2>2. Pipeline \subseteq Ops BY StagesApart DEF Pipeline
  <2>3. Answers BY <1>4, <1>6 DEF Answers
  <2> QED BY <2>1, <2>2, <2>3, <1>1, <1>6, <1>i, WaitKept
<1>13. ResultInv'
  <2>1. \A i \in 1..Len(ready') : results'[i] = "ok" <=> ready'[i] \in Elements(durable)
    <3> SUFFICES ASSUME NEW i \in 1..Len(ready')
                 PROVE  results'[i] = "ok" <=> ready'[i] \in Elements(durable)
      OBVIOUS
    <3>1. i + 1 \in 1..Len(ready) /\ i \in 1..Len(results') BY <1>2, <1>3, <1>4
    <3> QED BY <3>1, <1>1, <1>2, <1>4, <1>i DEF ResultInv
  <2> QED BY <2>1, <1>1, <1>3, EmptyFacts DEF ResultInv
<1> QED BY <1>8, <1>9, <1>10, <1>11, <1>12, <1>13 DEF Inv

LEMMA ExitKeeps ==
    ASSUME Inv, Exit
    PROVE  Inv'
<1>i. TypeOK /\ PhaseInv /\ CloseInv /\ OrderInv /\ WaitInv /\ ResultInv BY DEF Inv
<1>1. /\ phase = "exit" /\ phase' = "stopped" /\ queue' = <<>> /\ closed' = TRUE
      /\ Resolve(Elements(queue), "closed") /\ tx' = <<>>
      /\ UNCHANGED <<transactionFailed, stopping, batch, ready, results, durable,
                     submitted, connectFailed, crashes>>
  BY DEF Exit
<1>2. batch = <<>> /\ ready = <<>> /\ results = <<>> BY <1>1, <1>i DEF PhaseInv
<1>3. /\ outcome' \in [Ops -> Outcomes]
      /\ \A p \in Ops : outcome[p] # "waiting" => outcome'[p] = outcome[p]
      /\ \A p \in Ops : p \in Elements(queue) /\ outcome[p] = "waiting" => outcome'[p] = "closed"
      /\ \A p \in Ops : p \notin Elements(queue) => outcome'[p] = outcome[p]
  BY <1>1, <1>i, ResolveEffect DEF Outcomes
<1>4. Elements(queue') = {} /\ Elements(batch) = {} /\ Elements(ready) = {}
      /\ Sorted(submitted, queue') /\ Len(queue') = 0
  BY <1>1, <1>2, EmptyFacts
<1>5. TypeOK' BY <1>1, <1>3, <1>i DEF TypeOK, Phases
<1>6. PhaseInv' BY <1>1, <1>2 DEF PhaseInv
<1>7. CloseInv' BY <1>1, <1>4, <1>i DEF CloseInv
<1>8. OrderInv'
  <2>1. \A A : Precedes(submitted, A, {}) /\ Precedes(submitted, {}, A) BY EmptyFacts
  <2> QED BY <2>1, <1>1, <1>4, <1>i DEF OrderInv
<1>9. WaitInv'
  <2>1. Pipeline' = {} BY <1>1, <1>4 DEF Pipeline
  <2>2. Answers BY <1>3 DEF Answers
  <2> QED BY <2>1, <2>2, <1>1, <1>3, <1>i, WaitKept
<1>10. ResultInv' BY <1>1, <1>2, EmptyFacts DEF ResultInv
<1> QED BY <1>5, <1>6, <1>7, <1>8, <1>9, <1>10 DEF Inv

LEMMA CrashKeeps ==
    ASSUME Inv, Crash
    PROVE  Inv'
<1>i. TypeOK /\ PhaseInv /\ CloseInv /\ OrderInv /\ WaitInv /\ ResultInv BY DEF Inv
<1>1. /\ crashes' = crashes + 1 /\ phase' = "down" /\ Resolve(Ops, "lost")
      /\ queue' = <<>> /\ closed' = FALSE /\ transactionFailed' = FALSE
      /\ stopping' = FALSE /\ batch' = <<>> /\ ready' = <<>> /\ results' = <<>>
      /\ tx' = <<>> /\ connectFailed' = FALSE
      /\ UNCHANGED <<durable, submitted>>
  BY DEF Crash
<1>2. /\ outcome' \in [Ops -> Outcomes]
      /\ \A p \in Ops : outcome[p] # "waiting" => outcome'[p] = outcome[p]
      /\ \A p \in Ops : p \in Ops /\ outcome[p] = "waiting" => outcome'[p] = "lost"
  BY <1>1, <1>i, ResolveEffect DEF Outcomes
<1>3. /\ Elements(queue') = {} /\ Elements(batch') = {} /\ Elements(ready') = {}
      /\ Sorted(submitted, queue') /\ Sorted(submitted, batch') /\ Sorted(submitted, ready')
      /\ Len(queue') = 0
  BY <1>1, EmptyFacts
<1>4. TypeOK'
  <2>1. <<>> \in Seq(Ops) /\ <<>> \in Seq(Ops \cup {STOP}) /\ <<>> \in Seq({"ok", "failed"})
    OBVIOUS
  <2>2. "down" \in Phases /\ crashes' \in Nat BY <1>1, <1>i DEF TypeOK, Phases
  <2> QED BY <2>1, <2>2, <1>1, <1>2, <1>i DEF TypeOK
<1>5. PhaseInv' BY <1>1 DEF PhaseInv
<1>6. CloseInv' BY <1>1, <1>3 DEF CloseInv
<1>7. OrderInv'
  <2>1. \A A : Precedes(submitted, A, {}) /\ Precedes(submitted, {}, A) BY EmptyFacts
  <2> QED BY <2>1, <1>1, <1>3, <1>i DEF OrderInv
<1>8. WaitInv'
  <2>1. Pipeline' = {} BY <1>3 DEF Pipeline
  <2>2. Answers BY <1>2 DEF Answers
  <2> QED BY <2>1, <2>2, <1>1, <1>2, <1>i, WaitKept
<1>9. ResultInv' BY <1>1, EmptyFacts DEF ResultInv
<1> QED BY <1>4, <1>5, <1>6, <1>7, <1>8, <1>9 DEF Inv

(* The steps that move no operation. *)
LEMMA RefuseKeeps ==
    ASSUME Inv, NEW o \in Ops, Refuse(o)
    PROVE  Inv'
<1>i. TypeOK /\ PhaseInv /\ CloseInv /\ OrderInv /\ WaitInv /\ ResultInv BY DEF Inv
<1>1. /\ outcome[o] = "idle" /\ outcome' = [outcome EXCEPT ![o] = "closed"]
      /\ UNCHANGED <<queue, closed, transactionFailed, phase, stopping, batch, ready,
                     results, tx, durable, submitted, connectFailed, crashes>>
  BY DEF Refuse
<1>2. TypeOK' BY <1>1, <1>i DEF TypeOK, Outcomes
<1>3. PhaseInv' /\ CloseInv' /\ OrderInv' /\ ResultInv'
  BY <1>1, <1>i DEF PhaseInv, CloseInv, OrderInv, ResultInv
<1>4. WaitInv'
  <2>1. Pipeline' = Pipeline /\ o \notin Pipeline
    BY <1>1, <1>i DEF Pipeline, WaitInv
  <2>2. \A p \in Ops : p # o => outcome'[p] = outcome[p] BY <1>1, <1>i DEF TypeOK
  <2>3. outcome'[o] = "closed" /\ outcome' \in [Ops -> Outcomes]
    BY <1>1, <1>i DEF TypeOK, Outcomes
  <2>4. Answers BY <2>2, <2>3 DEF Answers
  <2>5. Pipeline \subseteq Ops BY StagesApart DEF Pipeline
  <2> QED BY <2>1, <2>2, <2>3, <2>4, <2>5, <1>1, <1>i, WaitKept
<1> QED BY <1>2, <1>3, <1>4 DEF Inv

LEMMA QuietKeeps ==
    ASSUME Inv,
           \/ \E success \in BOOLEAN : Connect(success) \/ Release(success)
           \/ Drained \/ NothingReady \/ Restart
           \/ Begin(TRUE)
           \/ UNCHANGED vars
    PROVE  Inv'
<1>i. TypeOK /\ PhaseInv /\ CloseInv /\ OrderInv /\ WaitInv /\ ResultInv BY DEF Inv
<1>1. UNCHANGED <<outcome, queue, closed, stopping, batch, ready, tx, durable, submitted, crashes>>
  BY DEF Connect, Release, Drained, NothingReady, Restart, Begin, vars
<1>2. TypeOK'
  <2>1. phase' \in Phases
    BY <1>i DEF Connect, Release, Drained, NothingReady, Restart, Begin, vars, TypeOK, Phases,
                NextBatch
  <2>2. /\ transactionFailed' \in BOOLEAN /\ connectFailed' \in BOOLEAN
        /\ results' \in Seq({"ok", "failed"})
    BY <1>i DEF Connect, Release, Drained, NothingReady, Restart, Begin, vars, TypeOK
  <2> QED BY <2>1, <2>2, <1>1, <1>i DEF TypeOK
<1>3. UNCHANGED results
  BY DEF Connect, Release, Drained, NothingReady, Restart, Begin, vars
<1>4. PhaseInv'
  BY <1>1, <1>3, <1>i DEF Connect, Release, Drained, NothingReady, Restart, Begin, vars, PhaseInv,
                NextBatch
<1>5. CloseInv'
  <2>1. /\ phase' = "exit" /\ ~connectFailed' => stopping \/ (phase = "exit" /\ ~connectFailed)
        /\ connectFailed' => phase' \in {"exit", "stopped"}
    <3>1. ASSUME NEW success \in BOOLEAN, Connect(success)
          PROVE  \/ phase' = "wait" /\ ~connectFailed'
                 \/ phase' = "exit" /\ connectFailed'
      <4>1. CASE success = TRUE BY <3>1, <4>1 DEF Connect
      <4>2. CASE success = FALSE BY <3>1, <4>2 DEF Connect
      <4> QED BY <4>1, <4>2
    <3>2. CASE UNCHANGED vars BY <3>2, <1>i DEF vars, CloseInv
    <3>3. CASE \/ \E success \in BOOLEAN : Release(success)
               \/ Drained \/ NothingReady \/ Restart \/ Begin(TRUE)
      <4>1. /\ phase \notin {"exit", "stopped"} /\ UNCHANGED connectFailed
            /\ phase' = "exit" => stopping
        BY <3>3 DEF Release, Drained, NothingReady, Restart, Begin, NextBatch
      <4> QED BY <4>1, <1>i DEF CloseInv
    <3> QED BY <3>1, <3>2, <3>3
  <2> QED BY <2>1, <1>1, <1>i DEF CloseInv
<1>6. OrderInv'
  <2>1. phase' # "resolve" => phase # "resolve" \/ ready = <<>>
    BY <1>i DEF Connect, Release, Drained, NothingReady, Restart, Begin, vars
  <2>2. ready = <<>> => Precedes(submitted, Elements(durable), Elements(ready))
    BY EmptyFacts
  <2> QED BY <2>1, <2>2, <1>1, <1>i DEF OrderInv
<1>7. WaitInv'
  <2>1. Pipeline' = Pipeline BY <1>1 DEF Pipeline
  <2> QED BY <2>1, <1>1, <1>i DEF WaitInv
<1>8. ResultInv'
  <2>1. \/ phase' \notin {"apply", "resolve"}
        \/ phase' = phase
        \/ phase' = "apply" /\ results = <<>>
    BY <1>i DEF Connect, Release, Drained, NothingReady, Restart, Begin, vars, NextBatch, PhaseInv
  <2> QED BY <2>1, <1>1, <1>3, <1>i DEF ResultInv
<1> QED BY <1>2, <1>4, <1>5, <1>6, <1>7, <1>8 DEF Inv

LEMMA InitInv ==
    ASSUME Init PROVE Inv
<1>1. TypeOK
  <2>1. <<>> \in Seq(Ops) /\ <<>> \in Seq(Ops \cup {STOP}) /\ <<>> \in Seq({"ok", "failed"})
    OBVIOUS
  <2>2. "connect" \in Phases /\ "idle" \in Outcomes BY DEF Phases, Outcomes
  <2> QED BY <2>1, <2>2 DEF Init, TypeOK
<1>2. /\ Elements(queue) = {} /\ Elements(batch) = {} /\ Elements(ready) = {}
      /\ Elements(durable) = {} /\ Elements(submitted) = {} /\ Elements(tx) = {}
      /\ Len(queue) = 0 /\ Len(submitted) = 0 /\ Len(results) = 0
  BY EmptyFacts DEF Init
<1>3. PhaseInv /\ CloseInv BY <1>2 DEF Init, PhaseInv, CloseInv
<1>4. OrderInv
  <2>1. Distinct(submitted) BY <1>2 DEF Distinct
  <2>2. \A A : Precedes(submitted, A, {}) /\ Precedes(submitted, {}, A) BY EmptyFacts
  <2>3. /\ Sorted(submitted, durable) /\ Sorted(submitted, queue)
        /\ Sorted(submitted, batch) /\ Sorted(submitted, ready)
    BY EmptyFacts DEF Init
  <2> QED BY <2>1, <2>2, <2>3, <1>2 DEF OrderInv
<1>5. WaitInv BY <1>2 DEF Init, WaitInv, Pipeline
<1>6. ResultInv
  <2>1. Sorted(submitted, tx) BY EmptyFacts DEF Init
  <2> QED BY <2>1, <1>2 DEF Init, ResultInv
<1> QED BY <1>1, <1>3, <1>4, <1>5, <1>6 DEF Inv

(* The three ways in which a batch fails. *)
LEMMA FailingActions ==
    ASSUME Inv, Begin(FALSE) \/ SavepointError \/ CommitError
    PROVE  /\ phase \in {"prepare", "apply"} /\ batch = <<>> /\ FailBatch /\ tx' = <<>>
           /\ UNCHANGED <<queue, closed, stopping, batch, durable, submitted, connectFailed,
                          crashes>>
BY DEF Inv, PhaseInv, Begin, SavepointError, CommitError, Applying, AllApplied

LEMMA InvStep ==
    ASSUME Inv, [Next]_vars
    PROVE  Inv'
<1>1. ASSUME NEW o \in Ops, Enqueue(o) PROVE Inv' BY <1>1, EnqueueKeeps
<1>2. ASSUME NEW o \in Ops, Refuse(o) PROVE Inv' BY <1>2, RefuseKeeps
<1>3. CASE Close BY <1>3, CloseKeeps
<1>4. ASSUME NEW success \in BOOLEAN, Prepare(success) PROVE Inv' BY <1>4, PrepareKeeps
<1>5. ASSUME NEW success \in BOOLEAN, Apply(success) PROVE Inv' BY <1>5, ApplyKeeps
<1>6. ASSUME NEW success \in BOOLEAN, Begin(success) PROVE Inv'
  <2>1. CASE success = TRUE BY <1>6, <2>1, QuietKeeps
  <2>2. CASE success = FALSE BY <1>6, <2>2, FailingActions, FailBatchKeeps
  <2> QED BY <2>1, <2>2
<1>7. ASSUME NEW success \in BOOLEAN, Connect(success) \/ Release(success) PROVE Inv'
  BY <1>7, QuietKeeps
<1>8. CASE Take BY <1>8, TakeKeeps
<1>9. CASE TakeExtra BY <1>9, TakeExtraKeeps
<1>10. CASE Drained \/ NothingReady \/ Restart \/ UNCHANGED vars BY <1>10, QuietKeeps
<1>11. CASE SavepointError \/ CommitError BY <1>11, FailingActions, FailBatchKeeps
<1>12. CASE Commit BY <1>12, CommitKeeps
<1>13. CASE ResolveNext BY <1>13, ResolveNextKeeps
<1>14. CASE Exit BY <1>14, ExitKeeps
<1>15. CASE Crash BY <1>15, CrashKeeps
<1> QED BY <1>1, <1>2, <1>3, <1>4, <1>5, <1>6, <1>7, <1>8, <1>9, <1>10, <1>11, <1>12, <1>13,
           <1>14, <1>15 DEF Next, Writer

(* The inductive invariant of the writer: types, what each phase holds,    *)
(* the sentinel at the end of the queue, the order of submission kept by   *)
(* every stage, and the prepared answers true of the disk.                 *)
THEOREM WriterInvariant == Spec => []Inv
<1>1. Init => Inv BY InitInv
<1>2. Inv /\ [Next]_vars => Inv' BY InvStep
<1> QED BY <1>1, <1>2, PTL DEF Spec

(* "Operations enqueued before close still commit durably", for any number *)
(* of operations and any batch size: a queued operation is failed as       *)
(* closed only by a writer that could not open its connection.             *)
THEOREM CloseDrainsQueue == Spec => CloseDrains
<1>1. Inv /\ [Next]_vars =>
        [\A o \in Ops : outcome[o] = "waiting" /\ outcome'[o] = "closed" => connectFailed]_vars
  <2> SUFFICES ASSUME Inv, [Next]_vars, NEW o \in Ops, outcome[o] = "waiting",
                      outcome'[o] = "closed"
               PROVE  connectFailed
    OBVIOUS
  <2>i. TypeOK /\ CloseInv BY DEF Inv
  <2>1. ASSUME NEW p \in Ops, Enqueue(p) \/ Refuse(p) PROVE FALSE
    BY <2>1, <2>i DEF Enqueue, Refuse, TypeOK
  <2>2. ASSUME NEW S, NEW result \in {"ok", "failed", "lost"}, Resolve(S, result) PROVE FALSE
    BY <2>2 DEF Resolve
  <2>3. ASSUME NEW success \in BOOLEAN, Prepare(success) PROVE FALSE
    BY <2>2, <2>3 DEF Prepare
  <2>4. ASSUME FailBatch PROVE FALSE BY <2>2, <2>4 DEF FailBatch
  <2>5. ASSUME NEW success \in BOOLEAN, Begin(success) PROVE FALSE
    BY <2>4, <2>5 DEF Begin
  <2>6. CASE ResolveNext
    <3>1. ready # <<>> /\ Len(results) = Len(ready) /\ results \in Seq({"ok", "failed"})
          /\ ready \in Seq(Ops) /\ Resolve({Head(ready)}, Head(results))
      BY <2>6 DEF ResolveNext, Inv, PhaseInv, TypeOK
    <3>2. Head(results) \in {"ok", "failed"} BY <3>1
    <3> QED BY <3>1, <3>2, <2>2
  <2>7. CASE Crash BY <2>2, <2>7 DEF Crash
  <2>8. CASE SavepointError \/ CommitError BY <2>4, <2>8 DEF SavepointError, CommitError
  <2>9. CASE UNCHANGED outcome BY <2>9
  <2>10. CASE Exit
    <3>1. phase = "exit" /\ Resolve(Elements(queue), "closed") BY <2>10 DEF Exit
    <3>2. o \in Elements(queue) BY <3>1 DEF Resolve
    <3>3. queue # <<>> BY <3>2, EmptyFacts
    <3> QED BY <3>1, <3>3, <2>i DEF CloseInv
  <2>11. CASE Close \/ Take \/ TakeExtra \/ Drained \/ NothingReady \/ Commit \/ Restart
              \/ UNCHANGED vars
    BY <2>9, <2>11 DEF Close, Take, TakeExtra, Drained, NothingReady, Commit, Restart, vars
  <2>12. ASSUME NEW success \in BOOLEAN, Connect(success) \/ Apply(success) \/ Release(success)
         PROVE  connectFailed
    BY <2>9, <2>12 DEF Connect, Apply, Release
  <2> QED BY <2>1, <2>3, <2>5, <2>6, <2>7, <2>8, <2>10, <2>11, <2>12 DEF Next, Writer
<1> QED BY <1>1, WriterInvariant, PTL DEF Spec, CloseDrains

-----------------------------------------------------------------------------
(* The refinement, step by step. *)
LEMMA FailRefines ==
    ASSUME Inv, NEW S, NEW result \in {"failed", "closed"}, Resolve(S, result),
           S \cap Elements(durable) = {}, UNCHANGED <<submitted, durable>>
    PROVE  Abstract!Next
<1>1. PICK T \in SUBSET Ops : T = S \cap Unresolved BY DEF Unresolved
<1>2. Abstract!Learn(T, result) BY <1>1 DEF Abstract!Learn, Resolve
<1>3. T \subseteq Abstract!Waiting \ Abstract!OnDisk
  BY <1>1 DEF Abstract!Waiting, Abstract!OnDisk, Abstract!Elements, Elements, Unresolved
<1>4. Abstract!Fail(T, result) BY <1>2, <1>3 DEF Abstract!Fail
<1> QED BY <1>4 DEF Abstract!Next

LEMMA CommitRefines ==
    ASSUME Inv, Inv', Commit
    PROVE  Abstract!Next
<1>i. TypeOK /\ OrderInv /\ WaitInv /\ TypeOK' /\ OrderInv' BY DEF Inv
<1>1. phase = "apply" /\ durable' = durable \o tx /\ UNCHANGED <<outcome, submitted>>
  BY DEF Commit, AllApplied
<1>2. /\ Len(durable') = Len(durable) + Len(tx)
      /\ Len(durable) \in Nat /\ Len(tx) \in Nat
      /\ \A i \in 1..Len(durable) : durable'[i] = durable[i]
      /\ \A i \in 1..Len(durable') : \/ i \in 1..Len(durable)
                                     \/ /\ i - Len(durable) \in 1..Len(tx)
                                        /\ durable'[i] = tx[i - Len(durable)]
  BY <1>1, <1>i, ConcatFacts DEF TypeOK
<1>3. SubSeq(durable', 1, Len(durable)) = durable
  BY <1>2, <1>i DEF TypeOK
<1>4. ASSUME NEW i \in (Len(durable) + 1)..Len(durable')
      PROVE  durable'[i] \in Abstract!Waiting \ Abstract!OnDisk
  <2>1. durable'[i] \in Elements(tx) BY <1>2 DEF Elements
  <2>2. durable'[i] \in Elements(ready) BY <2>1, TxReady
  <2>3. durable'[i] \in Ops /\ outcome[durable'[i]] = "waiting"
    BY <2>2, <1>i, StagesApart DEF WaitInv, Pipeline
  <2>4. durable'[i] \notin Elements(durable) BY <2>2, <1>1, StagesApart
  <2> QED BY <2>3, <2>4 DEF Abstract!Waiting, Abstract!OnDisk, Abstract!Elements, Elements
<1>5. Abstract!InOrder(durable')
  <2>1. \A j \in 1..Len(durable') : durable'[j] # STOP
    BY <1>i, CommitAssumption DEF TypeOK
  <2>2. Sorted(submitted, durable') BY <1>1, <1>i DEF OrderInv
  <2> QED BY <2>1, <2>2 DEF Abstract!InOrder, Sorted, Before
<1>6. Abstract!Commit BY <1>1, <1>2, <1>3, <1>4, <1>5 DEF Abstract!Commit
<1> QED BY <1>6 DEF Abstract!Next

LEMMA RefineStep ==
    ASSUME Inv, Inv', [Next]_vars
    PROVE  [Abstract!Next]_(Abstract!vars)
<1>i. TypeOK /\ PhaseInv /\ WaitInv /\ ResultInv BY DEF Inv
<1>1. ASSUME NEW o \in Ops, Enqueue(o) PROVE Abstract!Next
  <2>1. Abstract!Learn({o}, "waiting")
    BY <1>1, <1>i DEF Enqueue, TypeOK, Abstract!Learn
  <2>2. Abstract!Submit(o) BY <1>1, <2>1 DEF Enqueue, Abstract!Submit
  <2> QED BY <2>2 DEF Abstract!Next
<1>2. ASSUME NEW o \in Ops, Refuse(o) PROVE Abstract!Next
  <2>1. Abstract!Learn({o}, "closed")
    BY <1>2, <1>i DEF Refuse, TypeOK, Abstract!Learn
  <2>2. Abstract!Refuse(o) BY <1>2, <2>1 DEF Refuse, Abstract!Refuse
  <2> QED BY <2>2 DEF Abstract!Next
<1>3. ASSUME UNCHANGED <<outcome, submitted, durable>> PROVE [Abstract!Next]_(Abstract!vars)
  BY <1>3 DEF Abstract!vars
<1>4. ASSUME NEW success \in BOOLEAN, Prepare(success) PROVE [Abstract!Next]_(Abstract!vars)
  <2>1. UNCHANGED <<submitted, durable>> /\ (UNCHANGED outcome \/ Resolve({Head(batch)}, "failed"))
        /\ batch # <<>>
    BY <1>4 DEF Prepare
  <2>2. Head(batch) \in Elements(batch) BY <2>1, <1>i, TailFacts DEF TypeOK
  <2>3. {Head(batch)} \cap Elements(durable) = {} BY <2>2, StagesApart
  <2> QED BY <2>1, <2>3, <1>3, FailRefines
<1>5. ASSUME Begin(FALSE) \/ SavepointError \/ CommitError PROVE Abstract!Next
  <2>1. Resolve(Elements(ready), "failed") /\ UNCHANGED <<submitted, durable>>
        /\ phase # "resolve"
    BY <1>5, FailingActions DEF FailBatch
  <2>2. Elements(ready) \cap Elements(durable) = {} BY <2>1, StagesApart
  <2> QED BY <2>1, <2>2, FailRefines
<1>6. ASSUME NEW success \in BOOLEAN, Begin(success) PROVE [Abstract!Next]_(Abstract!vars)
  <2>1. CASE success = FALSE BY <1>5, <1>6, <2>1
  <2>2. CASE success = TRUE BY <1>3, <1>6, <2>2 DEF Begin
  <2> QED BY <2>1, <2>2
<1>7. CASE ResolveNext
  <2>1. /\ phase = "resolve" /\ ready # <<>> /\ Resolve({Head(ready)}, Head(results))
        /\ UNCHANGED <<submitted, durable>>
    BY <1>7 DEF ResolveNext
  <2>2. /\ Head(ready) \in Ops /\ Head(ready) = ready[1] /\ Len(ready) \in Nat \ {0}
        /\ Head(ready) \in Elements(ready)
    BY <2>1, <1>i, TailFacts DEF TypeOK
  <2>3. results # <<>> /\ results \in Seq({"ok", "failed"})
    BY <2>1, <2>2, <1>i DEF PhaseInv, TypeOK
  <2>4. Head(results) \in {"ok", "failed"} /\ Head(results) = results[1]
    BY <2>3, TailFacts
  <2>5. outcome[Head(ready)] = "waiting" BY <2>2, <1>i DEF WaitInv, Pipeline
  <2>6. Head(results) = "ok" <=> Head(ready) \in Elements(durable)
    BY <2>1, <2>2, <2>4, <1>i DEF ResultInv
  <2>7. CASE Head(results) = "ok"
    <3>1. PICK o \in Ops : o = Head(ready) BY <2>2
    <3>2. Abstract!Learn({o}, "ok")
      BY <3>1, <2>1, <2>5, <2>7 DEF Abstract!Learn, Resolve, Unresolved
    <3>3. o \in Abstract!Waiting \cap Abstract!OnDisk
      BY <3>1, <2>5, <2>6, <2>7
         DEF Abstract!Waiting, Abstract!OnDisk, Abstract!Elements, Elements
    <3>4. Abstract!Acknowledge(o) BY <3>2, <3>3, <2>1 DEF Abstract!Acknowledge
    <3> QED BY <3>4 DEF Abstract!Next
  <2>8. CASE Head(results) = "failed"
    <3>1. {Head(ready)} \cap Elements(durable) = {} BY <2>6, <2>8
    <3> QED BY <3>1, <2>1, <2>8, FailRefines
  <2> QED BY <2>4, <2>7, <2>8
<1>8. CASE Exit
  <2>1. Resolve(Elements(queue), "closed") /\ UNCHANGED <<submitted, durable>>
    BY <1>8 DEF Exit
  <2>2. Elements(queue) \cap Elements(durable) = {} BY StagesApart
  <2> QED BY <2>1, <2>2, FailRefines
<1>9. CASE Crash
  <2>1. Abstract!Learn(Abstract!Waiting, "lost")
    BY <1>9 DEF Crash, Resolve, Unresolved, Abstract!Learn, Abstract!Waiting
  <2>2. Abstract!Crash BY <2>1, <1>9 DEF Crash, Abstract!Crash
  <2> QED BY <2>2 DEF Abstract!Next
<1>10. CASE Commit BY <1>10, CommitRefines
<1>11. CASE Close \/ Take \/ TakeExtra \/ Drained \/ NothingReady \/ Restart \/ UNCHANGED vars
  BY <1>3, <1>11 DEF Close, Take, TakeExtra, Drained, NothingReady, Restart, vars
<1>12. ASSUME NEW success \in BOOLEAN, Connect(success) \/ Apply(success) \/ Release(success)
       PROVE  [Abstract!Next]_(Abstract!vars)
  BY <1>3, <1>12 DEF Connect, Apply, Release
<1> QED BY <1>1, <1>2, <1>4, <1>5, <1>6, <1>7, <1>8, <1>9, <1>10, <1>11, <1>12 DEF Next, Writer

(* The batched writer implements write-through durability for any number   *)
(* of operations, batches and process deaths: an answered success is on    *)
(* disk, an answered failure never is, and the disk keeps the order of     *)
(* submission.                                                             *)
THEOREM WriterImplementsWriteThrough == Spec => WriteThroughSpec
<1>1. Init => Abstract!Init BY DEF Init, Abstract!Init
<1>2. Inv /\ Inv' /\ [Next]_vars => [Abstract!Next]_(Abstract!vars) BY RefineStep
<1> QED BY <1>1, <1>2, WriterInvariant, PTL DEF Spec, WriteThroughSpec, Abstract!Spec
====
