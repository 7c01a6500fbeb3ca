------------------------- MODULE PermitQueueProofs -------------------------
(***************************************************************************)
(* No request is served before a waiter it did not outrank.  The queue     *)
(* runs in one of three modes and each has its own reason: a scoped head   *)
(* has nobody of its binding ahead of it, a classed head has nobody ahead  *)
(* of it at all, and without classes the semaphore's own FIFO decides.     *)
(***************************************************************************)
EXTENDS PermitQueue, FiniteSetTheorems, TLAPS

Labels == {"idle", "waiting", "head", "contending", "running", "releasing"}

Typed ==
    /\ bound \in BOOLEAN /\ classes \in BOOLEAN
    /\ pc \in [Requests -> Labels]
    /\ level \in [Requests -> Nat]
    /\ ahead \in [Requests -> SUBSET Requests]
    /\ before \in [Requests -> SUBSET Requests]
    /\ owed \in [Requests -> SUBSET Requests]

(* The semaphore's pending acquires are in one line. *)
InLine ==
    \A r \in At("contending") :
        /\ before[r] \subseteq At("contending") \ {r}
        /\ \A s \in At("contending") : s = r \/ s \in before[r] \/ r \in before[s]
        /\ \A s \in before[r] : before[s] \subseteq before[r]

(* Which waits each mode of the queue has. *)
Modes ==
    \A r \in Requests :
        /\ bound => pc[r] \notin {"head", "contending"}
        /\ ~bound /\ ~classes => pc[r] \notin {"waiting", "head", "releasing"}

(* What a request still owes, by where it is. *)
ScopedDebt ==
    bound => \A r \in Requests :
        /\ pc[r] = "waiting" => owed[r] \subseteq {w \in ahead[r] : Scope[w] = Scope[r]}
        /\ pc[r] = "running" => owed[r] = {}

ClassDebt ==
    ~bound /\ classes => \A r \in Requests :
        /\ pc[r] = "waiting" => owed[r] \subseteq ahead[r]
        /\ pc[r] \in {"head", "contending", "running"} => owed[r] = {}

PlainDebt ==
    ~bound /\ ~classes => \A r \in Requests :
        /\ pc[r] = "contending" => owed[r] \subseteq before[r]
        /\ pc[r] = "running" => \A w \in owed[r] : Assigned(w)

PermitInv == Typed /\ InLine /\ Modes /\ ScopedDebt /\ ClassDebt /\ PlainDebt

-----------------------------------------------------------------------------
(* Counting. *)

LEMMA Counted == (* every set of requests is finite *)
  ASSUME NEW S \in SUBSET Requests
  PROVE  IsFiniteSet(S) /\ Cardinality(S) \in Nat
<1>1. IsFiniteSet(S)
  BY PermitAssumption, FS_Subset
<1>. QED BY <1>1, FS_CardinalityType

LEMMA Smaller == (* a subset has at most as many members, a proper one fewer *)
  ASSUME NEW S \in SUBSET Requests, NEW T \in SUBSET S
  PROVE  /\ Cardinality(T) <= Cardinality(S)
         /\ \A x \in S \ T : Cardinality(T) + 1 <= Cardinality(S)
<1>1. \A U \in SUBSET S : Cardinality(U) <= Cardinality(S) /\ IsFiniteSet(U)
  BY Counted, FS_Subset
<1>2. ASSUME NEW x \in S \ T
      PROVE  Cardinality(T) + 1 <= Cardinality(S)
  <2>1. Cardinality(T \cup {x}) = Cardinality(T) + 1
    BY <1>1, FS_AddElement
  <2>2. T \cup {x} \in SUBSET S
    OBVIOUS
  <2>. QED BY <1>1, <2>1, <2>2
<1>. QED BY <1>1, <1>2

LEMMA Fewer == (* whoever is earlier in the line has fewer before it *)
  ASSUME Typed, InLine, NEW r \in At("contending"), NEW w \in before[r]
  PROVE  /\ Cardinality(before[w]) + 1 <= Cardinality(before[r])
         /\ r \notin before[w]
<1>1. before[r] \in SUBSET Requests /\ before[w] \in SUBSET before[r] /\ w \in At("contending")
  BY DEF Typed, InLine, At
<1>2. w \in before[r] \ before[w] /\ r \notin before[w]
  BY <1>1 DEF InLine
<1>. QED BY <1>1, <1>2, Smaller

LEMMA FreeNumber == (* permits are counted in integers *)
  Free \in Int /\ Permits \in Nat
BY Counted, PermitAssumption DEF Free, At

LEMMA Settled == (* what a waiter that leaves is owed *)
  ASSUME Typed, NEW r \in Requests, NEW debt \in SUBSET Requests, Settle(r, debt)
  PROVE  /\ owed' \in [Requests -> SUBSET Requests]
         /\ owed'[r] = debt
         /\ \A q \in Requests \ {r} : owed'[q] = owed[q] \ {r}
BY DEF Typed, Settle

-----------------------------------------------------------------------------
(* The line. *)

LEMMA SameLine == (* a step that leaves the semaphore alone *)
  ASSUME Typed, InLine, UNCHANGED before,
         \A q \in Requests : pc'[q] = "contending" <=> pc[q] = "contending"
  PROVE  InLine'
BY DEF InLine, At

LEMMA JoinsLine == (* a pending acquire goes to the end *)
  ASSUME Typed, InLine, NEW r \in Requests, pc[r] # "contending",
         pc' = [pc EXCEPT ![r] = "contending"],
         before' = [before EXCEPT ![r] = At("contending")]
  PROVE  InLine'
<1>1. \A q \in Requests : pc'[q] = "contending" <=> q = r \/ pc[q] = "contending"
  BY DEF Typed
<1>2. \A q \in Requests : before'[q] = IF q = r THEN At("contending") ELSE before[q]
  BY DEF Typed
<1>. DEFINE L == At("contending")
            N == {q \in Requests : pc'[q] = "contending"}
<1>3. r \notin L /\ N = L \cup {r} /\ \A q \in L : before'[q] = before[q] /\ before[q] \subseteq L
  BY <1>1, <1>2 DEF At, InLine
<1>4. before'[r] = L
  BY <1>2
<1>5. \A q \in L : /\ before[q] \subseteq L \ {q}
                   /\ \A s \in L : s = q \/ s \in before[q] \/ q \in before[s]
                   /\ \A s \in before[q] : before[s] \subseteq before[q]
  BY DEF InLine
<1>. HIDE DEF L, N
<1>6. \A q \in N : /\ before'[q] \subseteq N \ {q}
                   /\ \A s \in N : s = q \/ s \in before'[q] \/ q \in before'[s]
                   /\ \A s \in before'[q] : before'[s] \subseteq before'[q]
  <2>. SUFFICES ASSUME NEW q \in N
                PROVE  /\ before'[q] \subseteq N \ {q}
                       /\ \A s \in N : s = q \/ s \in before'[q] \/ q \in before'[s]
                       /\ \A s \in before'[q] : before'[s] \subseteq before'[q]
    OBVIOUS
  <2>1. CASE q = r
    BY <1>3, <1>4, <1>5, <2>1
  <2>2. CASE q # r
    BY <1>3, <1>4, <1>5, <2>2
  <2>. QED BY <2>1, <2>2
<1>. QED BY <1>6 DEF InLine, At, N

LEMMA LeavesLine == (* the others close up *)
  ASSUME Typed, InLine, NEW r \in Requests, NEW label, label # "contending",
         pc' = [pc EXCEPT ![r] = label], before' = Without(before, r)
  PROVE  InLine'
<1>1. \A q \in Requests : pc'[q] = "contending" <=> q # r /\ pc[q] = "contending"
  BY DEF Typed
<1>2. \A q \in Requests : q # r => before'[q] = before[q] \ {r}
  BY DEF Without
<1>. QED BY <1>1, <1>2 DEF InLine, At

LEMMA StillAssigned == (* a permit assigned stays assigned while no other is taken *)
  ASSUME Typed, NEW w \in Requests, Assigned(w), pc'[w] = "contending",
         before'[w] \in SUBSET before[w], At("running")' \in SUBSET At("running")
  PROVE  Assigned(w)'
<1>1. Cardinality(before'[w]) <= Cardinality(before[w])
  BY Smaller DEF Typed
<1>2. Cardinality(At("running")') <= Cardinality(At("running"))
  BY Smaller DEF At
<1>3. /\ Cardinality(before'[w]) \in Nat /\ Cardinality(before[w]) \in Nat
      /\ Cardinality(At("running")') \in Nat /\ Cardinality(At("running")) \in Nat
  <2>1. before[w] \in SUBSET Requests /\ before'[w] \in SUBSET Requests
    BY DEF Typed
  <2>2. At("running") \in SUBSET Requests /\ At("running")' \in SUBSET Requests
    BY DEF At
  <2>. QED BY <2>1, <2>2, Counted
<1>4. Cardinality(before[w]) < Permits - Cardinality(At("running"))
  BY DEF Assigned, Free
<1>5. Cardinality(before'[w]) < Permits - Cardinality(At("running")')
  BY <1>1, <1>2, <1>3, <1>4, PermitAssumption
<1>. QED BY <1>5 DEF Assigned, Free

-----------------------------------------------------------------------------
(* Arrivals. *)

LEMMA RegisterKeeps == (* a new waiter owes what its own rank puts ahead of it *)
  ASSUME PermitInv, NEW r \in Requests, NEW class \in Nat, pc[r] = "idle",
         bound \/ classes, classes \/ class = 0,
         Register(r, class), owed' = [owed EXCEPT ![r] = Owes(r, class)],
         UNCHANGED <<config, before>>
  PROVE  PermitInv'
<1>. USE DEF PermitInv
<1>1. /\ pc' = [pc EXCEPT ![r] = "waiting"] /\ level' = [level EXCEPT ![r] = class]
      /\ bound' = bound /\ classes' = classes /\ before' = before
  BY DEF Register, config
<1>2. \A q \in Requests : ahead[q] \subseteq ahead'[q] \/ q = r
  BY DEF Register
<1>3. ahead'[r] = {w \in Waiting : ~(level[w] < class)}
  BY DEF Register
<1>4. ahead' \in [Requests -> SUBSET Requests]
  <2>1. Waiting \subseteq Requests
    BY DEF Waiting, At
  <2>. QED BY <2>1 DEF Register, Typed
<1>5. Owes(r, class) \subseteq {w \in ahead'[r] : bound => Scope[w] = Scope[r]}
  <2>1. \A w \in Waiting : w \in Requests
    BY DEF Waiting, At
  <2>. QED BY <1>3, <2>1 DEF Owes, Typed
<1>6. \A q \in Requests :
        /\ pc'[q] = IF q = r THEN "waiting" ELSE pc[q]
        /\ owed'[q] = IF q = r THEN Owes(r, class) ELSE owed[q]
  BY <1>1 DEF Typed
<1>7. Typed'
  <2>1. Owes(r, class) \in SUBSET Requests
    BY DEF Owes, Waiting, At
  <2>. QED BY <1>1, <1>4, <2>1 DEF Typed, Labels
<1>8. InLine'
  BY <1>1, <1>6, SameLine
<1>9. Modes'
  BY <1>1, <1>6 DEF Modes
<1>10. ScopedDebt'
  BY <1>1, <1>2, <1>5, <1>6 DEF ScopedDebt
<1>11. ClassDebt'
  BY <1>1, <1>2, <1>5, <1>6 DEF ClassDebt
<1>12. PlainDebt'
  BY <1>1 DEF PlainDebt
<1>. QED BY <1>7, <1>8, <1>9, <1>10, <1>11, <1>12

LEMMA PlainArrivesKeeps == (* a plain arrival owes everyone in line *)
  ASSUME PermitInv, NEW r \in Requests, PlainArrives(r)
  PROVE  PermitInv'
<1>. USE DEF PermitInv
<1>1. /\ ~bound /\ ~classes /\ pc[r] = "idle"
      /\ pc' = [pc EXCEPT ![r] = "contending"]
      /\ before' = [before EXCEPT ![r] = At("contending")]
      /\ owed' = [owed EXCEPT ![r] = Owes(r, 0)]
      /\ bound' = bound /\ classes' = classes /\ level' = level /\ ahead' = ahead
  BY DEF PlainArrives, config
<1>2. Owes(r, 0) \subseteq At("contending") /\ At("contending") \subseteq Requests
  BY <1>1 DEF Owes, Waiting, At, Modes
<1>3. \A q \in Requests :
        /\ pc'[q] = IF q = r THEN "contending" ELSE pc[q]
        /\ owed'[q] = IF q = r THEN Owes(r, 0) ELSE owed[q]
        /\ before'[q] = IF q = r THEN At("contending") ELSE before[q]
  BY <1>1 DEF Typed
<1>4. Typed'
  BY <1>1, <1>2 DEF Typed, Labels
<1>5. InLine'
  BY <1>1, JoinsLine
<1>6. Modes' /\ ScopedDebt' /\ ClassDebt'
  BY <1>1, <1>3 DEF Modes, ScopedDebt, ClassDebt
<1>7. PlainDebt'
  <2>1. ASSUME NEW q \in Requests, pc'[q] = "contending"
        PROVE  owed'[q] \subseteq before'[q]
    BY <1>1, <1>2, <1>3, <2>1 DEF PlainDebt
  <2>2. ASSUME NEW q \in Requests, pc'[q] = "running", NEW w \in owed'[q]
        PROVE  Assigned(w)'
    <3>1. q # r /\ pc[q] = "running" /\ w \in owed[q] /\ w \in Requests
      BY <1>3, <2>2 DEF Typed
    <3>2. Assigned(w)
      BY <1>1, <3>1 DEF PlainDebt
    <3>3. w # r /\ pc'[w] = "contending" /\ before'[w] = before[w]
      BY <1>1, <1>3, <3>1, <3>2 DEF Assigned
    <3>4. At("running")' \in SUBSET At("running")
      BY <1>3 DEF At
    <3>. QED BY <3>1, <3>2, <3>3, <3>4, StillAssigned
  <2>. QED BY <2>1, <2>2 DEF PlainDebt
<1>. QED BY <1>4, <1>5, <1>6, <1>7

LEMMA ClassArrivesKeeps == (* past an empty queue, or into it *)
  ASSUME PermitInv, NEW r \in Requests, NEW class \in Nat, ClassArrives(r, class)
  PROVE  PermitInv'
<1>. USE DEF PermitInv
<1>1. /\ ~bound /\ classes /\ pc[r] = "idle" /\ UNCHANGED <<config, before>>
      /\ owed' = [owed EXCEPT ![r] = Owes(r, class)]
  BY DEF ClassArrives
<1>2. CASE ~Passes
  BY <1>1, <1>2, RegisterKeeps DEF ClassArrives
<1>3. CASE Passes
  <2>1. /\ pc' = [pc EXCEPT ![r] = "running"] /\ level' = level /\ ahead' = ahead
        /\ bound' = bound /\ classes' = classes /\ before' = before
    BY <1>1, <1>3 DEF ClassArrives, config
  <2>2. Owes(r, class) = {}
    BY <1>3 DEF Passes, Owes
  <2>3. \A q \in Requests :
          /\ pc'[q] = IF q = r THEN "running" ELSE pc[q]
          /\ owed'[q] = IF q = r THEN {} ELSE owed[q]
    BY <1>1, <2>1, <2>2 DEF Typed
  <2>4. Typed'
    BY <1>1, <2>1, <2>2 DEF Typed, Labels
  <2>5. InLine'
    BY <1>1, <2>1, <2>3, SameLine
  <2>6. Modes' /\ ScopedDebt' /\ ClassDebt' /\ PlainDebt'
    BY <1>1, <2>1, <2>3 DEF Modes, ScopedDebt, ClassDebt, PlainDebt
  <2>. QED BY <2>4, <2>5, <2>6
<1>. QED BY <1>2, <1>3

-----------------------------------------------------------------------------
(* Leaving the queue. *)

LEMMA LeaveKeeps == (* those who stay owe nothing to the one that leaves *)
  ASSUME PermitInv, NEW r \in Waiting, NEW label \in {"idle", "running"},
         NEW debt \in SUBSET Requests, Leave(r, label), Settle(r, debt), UNCHANGED config,
         label = "running" /\ (bound \/ classes) => debt = {},
         ~bound /\ ~classes => PlainDebt'
  PROVE  PermitInv'
<1>. USE DEF PermitInv
<1>1. r \in Requests
  BY DEF Waiting, At
<1>2. /\ pc' = [pc EXCEPT ![r] = label] /\ level' = [level EXCEPT ![r] = 0]
      /\ ahead' = Without(ahead, r) /\ before' = Without(before, r)
      /\ bound' = bound /\ classes' = classes
  BY DEF Leave, config
<1>3. \A q \in Requests :
        /\ pc'[q] = IF q = r THEN label ELSE pc[q]
        /\ q # r => ahead'[q] = ahead[q] \ {r}
        /\ owed'[q] = IF q = r THEN debt ELSE owed[q] \ {r}
  BY <1>1, <1>2, Settled DEF Typed, Without
<1>4. Typed'
  <2>1. owed' \in [Requests -> SUBSET Requests]
    BY <1>1, Settled
  <2>2. ahead' \in [Requests -> SUBSET Requests] /\ before' \in [Requests -> SUBSET Requests]
    BY <1>2 DEF Without, Typed
  <2>. QED BY <1>1, <1>2, <2>1, <2>2 DEF Typed, Labels
<1>5. InLine'
  BY <1>1, <1>2, LeavesLine
<1>6. Modes'
  BY <1>2, <1>3 DEF Modes
<1>7. ScopedDebt'
  BY <1>2, <1>3 DEF ScopedDebt
<1>8. ClassDebt'
  BY <1>2, <1>3 DEF ClassDebt
<1>9. PlainDebt'
  BY <1>2 DEF PlainDebt
<1>. QED BY <1>4, <1>5, <1>6, <1>7, <1>8, <1>9

LEMMA GivesUpKeeps == (* a deadline, a disconnect or a drained worker *)
  ASSUME PermitInv, NEW r \in Waiting, Leave(r, "idle"), Settle(r, {}), UNCHANGED config
  PROVE  PermitInv'
<1>. USE DEF PermitInv
<1>1. ASSUME ~bound, ~classes
      PROVE  PlainDebt'
  <2>1. r \in Requests
    BY DEF Waiting, At
  <2>2. \A q \in Requests :
          /\ pc'[q] = IF q = r THEN "idle" ELSE pc[q]
          /\ q # r => before'[q] = before[q] \ {r}
          /\ owed'[q] = IF q = r THEN {} ELSE owed[q] \ {r}
    BY <2>1, Settled DEF Typed, Without, Leave
  <2>3. ASSUME NEW q \in Requests, pc'[q] = "contending"
        PROVE  owed'[q] \subseteq before'[q]
    BY <1>1, <2>2, <2>3 DEF PlainDebt
  <2>4. ASSUME NEW q \in Requests, pc'[q] = "running", NEW w \in owed'[q]
        PROVE  Assigned(w)'
    <3>1. q # r /\ pc[q] = "running" /\ w \in owed[q] /\ w # r /\ w \in Requests
      BY <2>2, <2>4 DEF Typed
    <3>2. Assigned(w)
      BY <1>1, <3>1 DEF PlainDebt
    <3>3. pc'[w] = "contending" /\ before'[w] \in SUBSET before[w]
      BY <2>2, <3>1, <3>2 DEF Assigned
    <3>4. At("running")' \in SUBSET At("running")
      BY <2>2 DEF At
    <3>. QED BY <3>1, <3>2, <3>3, <3>4, StillAssigned
  <2>. QED BY <2>3, <2>4 DEF PlainDebt
<1>. QED BY <1>1, LeaveKeeps

LEMMA TakeBothKeeps == (* a scoped head has nobody of its binding ahead of it *)
  ASSUME PermitInv, NEW r \in Requests, TakeBoth(r)
  PROVE  PermitInv'
<1>. USE DEF PermitInv
<1>1. bound /\ r \in Waiting /\ Leave(r, "running") /\ Settle(r, owed[r]) /\ UNCHANGED config
  BY DEF TakeBoth, Waiting, At
<1>2. \A w \in owed[r] : w \in ahead[r] /\ Scope[w] = Scope[r]
  BY <1>1 DEF TakeBoth, ScopedDebt
<1>3. ScopeFree(Scope[r]) /\ \A w \in ahead[r] : ~ScopeFree(Scope[w])
  BY <1>1 DEF TakeBoth, IsHead, Eligible
<1>4. owed[r] = {}
  BY <1>2, <1>3
<1>. QED BY <1>1, <1>4, LeaveKeeps

LEMMA TakesOne == (* one more request runs, one permit less is free *)
  ASSUME Typed, NEW r \in Requests, pc[r] = "contending",
         \A q \in Requests : pc'[q] = IF q = r THEN "running" ELSE pc[q]
  PROVE  Free' = Free - 1
<1>. DEFINE S == At("running")
<1>1. S \in SUBSET Requests /\ r \notin S /\ At("running")' = S \cup {r}
  BY DEF At
<1>2. Cardinality(S \cup {r}) = Cardinality(S) + 1 /\ Cardinality(S) \in Nat
  BY <1>1, Counted, FS_AddElement
<1>. HIDE DEF S
<1>3. Free = Permits - Cardinality(S) /\ Free' = Permits - Cardinality(S \cup {r})
  BY <1>1 DEF Free, S
<1>. QED BY <1>2, <1>3, PermitAssumption

LEMMA GrantKeeps == (* a permit goes to the front of the line, which is all the line owes *)
  ASSUME PermitInv, NEW r \in Requests, Grant(r)
  PROVE  PermitInv'
<1>. USE DEF PermitInv
<1>1. /\ r \in Waiting /\ pc[r] = "contending" /\ Assigned(r)
      /\ Leave(r, "running") /\ Settle(r, owed[r]) /\ UNCHANGED config
  BY DEF Grant, Waiting, At
<1>2. bound \/ classes => owed[r] = {}
  BY <1>1 DEF Modes, ClassDebt
<1>3. ASSUME ~bound, ~classes
      PROVE  PlainDebt'
  <2>1. /\ owed' \in [Requests -> SUBSET Requests] /\ owed'[r] = owed[r]
        /\ \A q \in Requests \ {r} : owed'[q] = owed[q] \ {r}
    BY <1>1, Settled DEF Typed
  <2>2. \A q \in Requests :
          /\ pc'[q] = IF q = r THEN "running" ELSE pc[q]
          /\ q # r => before'[q] = before[q] \ {r}
    BY <1>1 DEF Typed, Without, Leave
  <2>3. Free' = Free - 1 /\ Free \in Int
    BY <1>1, <2>2, TakesOne, FreeNumber
  <2>4. ASSUME NEW q \in Requests, pc'[q] = "contending"
        PROVE  owed'[q] \subseteq before'[q]
    BY <1>3, <2>1, <2>2, <2>4 DEF PlainDebt
  <2>5. ASSUME NEW w \in Requests, w # r, pc[w] = "contending",
               Cardinality(before[w]) < Free \/ w \in before[r]
        PROVE  Assigned(w)'
    <3>1. /\ before[w] \in SUBSET Requests /\ before[r] \in SUBSET Requests
          /\ before'[w] = before[w] \ {r}
      BY <2>2, <2>5 DEF Typed
    <3>2. /\ Cardinality(before[w]) \in Nat /\ Cardinality(before[r]) \in Nat
          /\ Cardinality(before'[w]) \in Nat
      BY <3>1, Counted
    <3>3. CASE w \in before[r]
      <4>1. Cardinality(before[w]) + 1 <= Cardinality(before[r]) /\ r \notin before[w]
        BY <1>1, <3>3, Fewer DEF At
      <4>2. before'[w] = before[w]
        BY <3>1, <4>1
      <4>3. Cardinality(before[r]) < Free
        BY <1>1 DEF Assigned
      <4>4. Cardinality(before'[w]) < Free'
        BY <2>3, <3>2, <4>1, <4>2, <4>3
      <4>. QED BY <2>2, <2>5, <4>4 DEF Assigned
    <3>4. CASE w \notin before[r]
      <4>1. r \in before[w] /\ Cardinality(before[w]) < Free
        BY <1>1, <2>5, <3>4 DEF InLine, At
      <4>2. before'[w] \in SUBSET before[w] /\ r \in before[w] \ before'[w]
        BY <3>1, <4>1
      <4>3. Cardinality(before'[w]) + 1 <= Cardinality(before[w])
        BY <3>1, <4>2, Smaller
      <4>4. Cardinality(before'[w]) < Free'
        BY <2>3, <3>2, <4>1, <4>3
      <4>. QED BY <2>2, <2>5, <4>4 DEF Assigned
    <3>. QED BY <3>3, <3>4
  <2>6. ASSUME NEW q \in Requests, pc'[q] = "running", NEW w \in owed'[q]
        PROVE  Assigned(w)'
    <3>1. CASE q = r
      <4>1. w \in before[r]
        BY <1>1, <1>3, <2>1, <2>6, <3>1 DEF PlainDebt
      <4>2. w \in Requests /\ w # r /\ pc[w] = "contending"
        BY <1>1, <4>1 DEF InLine, At
      <4>. QED BY <2>5, <4>1, <4>2
    <3>2. CASE q # r
      <4>1. pc[q] = "running" /\ w \in owed[q] /\ w # r /\ w \in Requests
        BY <2>1, <2>2, <2>6, <3>2 DEF Typed
      <4>2. Assigned(w)
        BY <1>3, <4>1 DEF PlainDebt
      <4>. QED BY <2>5, <4>1, <4>2 DEF Assigned
    <3>. QED BY <3>1, <3>2
  <2>. QED BY <2>4, <2>6 DEF PlainDebt
<1>4. owed[r] \in SUBSET Requests
  BY DEF Typed
<1>. QED BY <1>1, <1>2, <1>3, <1>4, LeaveKeeps

-----------------------------------------------------------------------------
(* The other steps. *)

LEMMA SeesHeadKeeps == (* an unscoped head has nobody ahead of it *)
  ASSUME PermitInv, NEW r \in Requests, SeesHead(r)
  PROVE  PermitInv'
<1>. USE DEF PermitInv
<1>1. /\ ~bound /\ pc[r] = "waiting" /\ pc' = [pc EXCEPT ![r] = "head"]
      /\ bound' = bound /\ classes' = classes /\ level' = level /\ ahead' = ahead
      /\ before' = before /\ owed' = owed
  BY DEF SeesHead, config
<1>2. classes
  BY <1>1 DEF Modes
<1>3. owed[r] = {}
  BY <1>1, <1>2 DEF SeesHead, IsHead, Eligible, ClassDebt
<1>4. \A q \in Requests : pc'[q] = IF q = r THEN "head" ELSE pc[q]
  BY <1>1 DEF Typed
<1>5. Typed'
  BY <1>1 DEF Typed, Labels
<1>6. InLine'
  BY <1>1, <1>4, SameLine
<1>7. Modes' /\ ScopedDebt' /\ ClassDebt' /\ PlainDebt'
  BY <1>1, <1>2, <1>3, <1>4 DEF Modes, ScopedDebt, ClassDebt, PlainDebt
<1>. QED BY <1>5, <1>6, <1>7

LEMMA ContendKeeps == (* it joins the line owing nothing *)
  ASSUME PermitInv, NEW r \in Requests, Contend(r)
  PROVE  PermitInv'
<1>. USE DEF PermitInv
<1>1. /\ pc[r] = "head" /\ pc' = [pc EXCEPT ![r] = "contending"]
      /\ before' = [before EXCEPT ![r] = At("contending")]
      /\ bound' = bound /\ classes' = classes /\ level' = level /\ ahead' = ahead
      /\ owed' = owed
  BY DEF Contend, config
<1>2. ~bound /\ classes
  BY <1>1 DEF Modes, Typed
<1>3. owed[r] = {}
  BY <1>1, <1>2 DEF ClassDebt
<1>4. \A q \in Requests : pc'[q] = IF q = r THEN "contending" ELSE pc[q]
  BY <1>1 DEF Typed
<1>5. Typed'
  <2>1. At("contending") \in SUBSET Requests
    BY DEF At
  <2>. QED BY <1>1, <2>1 DEF Typed, Labels
<1>6. InLine'
  BY <1>1, JoinsLine
<1>7. Modes' /\ ScopedDebt' /\ ClassDebt' /\ PlainDebt'
  BY <1>1, <1>2, <1>3, <1>4 DEF Modes, ScopedDebt, ClassDebt, PlainDebt
<1>. QED BY <1>5, <1>6, <1>7

LEMMA LookAgainKeeps == (* back among the waiters, owing nothing *)
  ASSUME PermitInv, NEW r \in Requests, LookAgain(r)
  PROVE  PermitInv'
<1>. USE DEF PermitInv
<1>1. /\ classes /\ pc[r] = "contending" /\ pc' = [pc EXCEPT ![r] = "waiting"]
      /\ before' = Without(before, r)
      /\ bound' = bound /\ classes' = classes /\ level' = level /\ ahead' = ahead
      /\ owed' = owed
  BY DEF LookAgain, config
<1>2. ~bound /\ owed[r] = {}
  BY <1>1 DEF Modes, ClassDebt
<1>3. \A q \in Requests : pc'[q] = IF q = r THEN "waiting" ELSE pc[q]
  BY <1>1 DEF Typed
<1>4. Typed'
  BY <1>1 DEF Typed, Labels, Without
<1>5. InLine'
  BY <1>1, LeavesLine
<1>6. Modes' /\ ScopedDebt' /\ ClassDebt' /\ PlainDebt'
  BY <1>1, <1>2, <1>3 DEF Modes, ScopedDebt, ClassDebt, PlainDebt
<1>. QED BY <1>4, <1>5, <1>6

LEMMA ReleaseKeeps == (* a permit comes back *)
  ASSUME PermitInv, NEW r \in Requests, Release(r) \/ ReleaseScope(r)
  PROVE  PermitInv'
<1>. USE DEF PermitInv
<1>1. PICK label \in {"idle", "releasing"} : pc' = [pc EXCEPT ![r] = label]
  BY DEF Release, ReleaseScope
<1>2. /\ pc[r] \in {"running", "releasing"} /\ owed' \in {owed, [owed EXCEPT ![r] = {}]}
      /\ bound' = bound /\ classes' = classes /\ level' = level /\ ahead' = ahead
      /\ before' = before
      /\ ~bound /\ pc[r] = "running" => pc'[r] = "idle"
  BY DEF Release, ReleaseScope, config, Typed
<1>3. \A q \in Requests : /\ pc'[q] = IF q = r THEN label ELSE pc[q]
                          /\ q # r => owed'[q] = owed[q]
  BY <1>1, <1>2 DEF Typed
<1>4. Typed'
  BY <1>1, <1>2 DEF Typed, Labels
<1>5. InLine'
  BY <1>2, <1>3, SameLine
<1>6. Modes'
  BY <1>2, <1>3 DEF Modes
<1>7. ScopedDebt' /\ ClassDebt'
  BY <1>2, <1>3 DEF ScopedDebt, ClassDebt
<1>8. PlainDebt'
  <2>. SUFFICES ASSUME ~bound, ~classes PROVE PlainDebt'
    BY <1>2 DEF PlainDebt
  <2>1. ASSUME NEW q \in Requests, pc'[q] = "contending"
        PROVE  owed'[q] \subseteq before'[q]
    BY <1>2, <1>3, <2>1 DEF PlainDebt
  <2>2. ASSUME NEW q \in Requests, pc'[q] = "running", NEW w \in owed'[q]
        PROVE  Assigned(w)'
    <3>1. q # r /\ pc[q] = "running" /\ w \in owed[q] /\ w \in Requests
      BY <1>3, <2>2 DEF Typed
    <3>2. Assigned(w)
      BY <3>1 DEF PlainDebt
    <3>3. pc'[w] = "contending" /\ before'[w] = before[w]
      BY <1>2, <1>3, <3>1, <3>2 DEF Assigned
    <3>4. At("running")' \in SUBSET At("running")
      BY <1>3 DEF At
    <3>. QED BY <3>1, <3>2, <3>3, <3>4, StillAssigned
  <2>. QED BY <1>2, <2>1, <2>2 DEF PlainDebt
<1>. QED BY <1>4, <1>5, <1>6, <1>7, <1>8

LEMMA OtherKeeps == (* nobody moves: aging, the close, a stutter *)
  ASSUME PermitInv, UNCHANGED <<config, pc, ahead, before, owed>>,
         level' \in [Requests -> Nat]
  PROVE  PermitInv'
<1>1. /\ bound' = bound /\ classes' = classes /\ pc' = pc /\ ahead' = ahead
      /\ before' = before /\ owed' = owed
  BY DEF config
<1>2. Typed' /\ InLine' /\ Modes' /\ ScopedDebt' /\ ClassDebt'
  BY <1>1 DEF PermitInv, Typed, InLine, Modes, ScopedDebt, ClassDebt, At
<1>3. PlainDebt'
  BY <1>1 DEF PermitInv, PlainDebt, Assigned, Free, At
<1>. QED BY <1>2, <1>3 DEF PermitInv

LEMMA PermitInvInductive == (* every step keeps the invariant *)
  ASSUME PermitInv, [Next]_vars
  PROVE  PermitInv'
<1>1. ASSUME NEW r \in Requests, NEW class \in 0..MaxClass,
             ScopedArrives(r, class) \/ ClassArrives(r, class)
      PROVE  PermitInv'
  <2>1. class \in Nat
    BY PermitAssumption
  <2>2. CASE ScopedArrives(r, class)
    BY <2>1, <2>2, RegisterKeeps DEF ScopedArrives
  <2>. QED BY <1>1, <2>1, <2>2, ClassArrivesKeeps
<1>2. ASSUME NEW r \in Requests,
             \/ PlainArrives(r) \/ TakeBoth(r) \/ SeesHead(r) \/ Contend(r)
             \/ Grant(r) \/ LookAgain(r)
      PROVE  PermitInv'
  BY <1>2, PlainArrivesKeeps, TakeBothKeeps, SeesHeadKeeps, ContendKeeps, GrantKeeps,
     LookAgainKeeps
<1>3. ASSUME NEW r \in Requests, Expire(r) \/ Refuse(r)
      PROVE  PermitInv'
  <2>1. r \in Waiting /\ Leave(r, "idle") /\ Settle(r, {}) /\ UNCHANGED config
    BY <1>3 DEF Expire, Refuse
  <2>. QED BY <2>1, GivesUpKeeps
<1>4. ASSUME NEW r \in Requests, Release(r) \/ ReleaseScope(r)
      PROVE  PermitInv'
  BY <1>4, ReleaseKeeps
<1>5. ASSUME NEW r \in Requests, Age(r)
      PROVE  PermitInv'
  <2>1. level' \in [Requests -> Nat]
    BY <1>5 DEF Age, Gain, PermitInv, Typed
  <2>. QED BY <1>5, <2>1, OtherKeeps DEF Age
<1>6. CASE Close
  BY <1>6, OtherKeeps DEF Close, PermitInv, Typed
<1>7. CASE UNCHANGED vars
  BY <1>7, OtherKeeps DEF vars, config, PermitInv, Typed
<1>. QED BY <1>1, <1>2, <1>3, <1>4, <1>5, <1>6, <1>7 DEF Next

(* No request is served before a waiter of its own binding that was there  *)
(* first and that it did not outrank, in any mode of the queue and for any *)
(* number of requests, bindings, permits and classes (permit_queue.rs).    *)
THEOREM NobodyOvertakes == Spec => []NoOvertaking
<1>1. Init => PermitInv
  BY DEF Init, PermitInv, Typed, Labels, InLine, Modes, ScopedDebt, ClassDebt, PlainDebt, At
<1>2. PermitInv /\ [Next]_vars => PermitInv'
  BY PermitInvInductive
<1>3. PermitInv => NoOvertaking
  BY DEF PermitInv, Typed, ScopedDebt, ClassDebt, PlainDebt, NoOvertaking, At
<1>. QED BY <1>1, <1>2, <1>3, PTL DEF Spec
=============================================================================
