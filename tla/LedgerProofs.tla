---------------------------- MODULE LedgerProofs ----------------------------
(***************************************************************************)
(* Theorems about Ledger for every value of its constants.                 *)
(*                                                                         *)
(* Part one: the type invariant, and the conservation of the budget        *)
(* counters, whose inductive invariant is TypeOK, ChargesOwned and         *)
(* CountersConserved together.                                             *)
(*                                                                         *)
(* Part two: what the ledger never rewrites.  Terminal outcomes are final, *)
(* a no-effects certificate stays true and a keyed operation has one       *)
(* effective execution: what one step may do to a row (RowStep).  The      *)
(* charges of an attempt follow its one settlement, a waiver and a meter   *)
(* are final, and limits cover their scope: what one step may do to money  *)
(* (MoneyWrite).  Both are proved action by action.                        *)
(***************************************************************************)
EXTENDS Ledger, FiniteSetTheorems, TLAPS

-----------------------------------------------------------------------------
(* Every charge row belongs to a configured limit and a dispatched attempt,*)
(* the foreign keys of gateway_attempt_budget_charges.                     *)
ChargesOwned ==
    \A b \in BudgetIds, a \in AttemptIds :
        charge[b][a] # NULL => budget[b] # NULL /\ attempt[a] # NULL

(* A settlement removes no limit and creates no charge.                    *)
ChargesKept ==
    /\ \A b \in BudgetIds : budget[b] # NULL => budget'[b] # NULL
    /\ \A b \in BudgetIds, a \in AttemptIds :
        charge'[b][a] # NULL => charge[b][a] # NULL

(* No operation deletes a request, an attempt or a limit.                  *)
RowsKept ==
    /\ \A r \in RequestIds : request[r] # NULL => request'[r] # NULL
    /\ \A a \in AttemptIds : attempt[a] # NULL => attempt'[a] # NULL
    /\ \A b \in BudgetIds : budget[b] # NULL => budget'[b] # NULL

(* Counting units. *)

(* A family of amounts has finitely many units, so Total is a natural.     *)
LEMMA UnitsFinite ==
    ASSUME NEW f
    PROVE  IsFiniteSet(Units(f)) /\ Total(f) \in Nat
<1>1. IsFiniteSet(AttemptIds \X (1..MAXIMUM_NANO_USD))
  <2>1. IsFiniteSet(1..MAXIMUM_NANO_USD)
    BY BoundAssumption, FS_Interval, 1 \in Int, MAXIMUM_NANO_USD \in Int
  <2> QED BY <2>1, BoundAssumption, FS_Product
<1>2. Units(f) \in SUBSET (AttemptIds \X (1..MAXIMUM_NANO_USD))
  BY DEF Units
<1>3. IsFiniteSet(Units(f))
  BY <1>1, <1>2, FS_Subset
<1> QED BY <1>3, FS_CardinalityType DEF Total

(* The units of n attempts at amount v number n times v.                   *)
LEMMA BlockCardinality ==
    ASSUME NEW S \in SUBSET AttemptIds, NEW v \in Nano
    PROVE  /\ IsFiniteSet(S \X (1..v))
           /\ Cardinality(S \X (1..v)) = Cardinality(S) * v
           /\ Cardinality(S) \in Nat
<1>1. IsFiniteSet(S) /\ Cardinality(S) \in Nat
  BY BoundAssumption, FS_Subset, FS_CardinalityType
<1>2. v \in Int /\ 1 \in Int /\ v >= 0
  BY BoundAssumption DEF Nano
<1>3. IsFiniteSet(1..v) /\ Cardinality(1..v) = v
  BY <1>2, FS_Interval
<1> QED BY <1>1, <1>3, FS_Product

(* Moving every attempt of S from amount v to amount w moves the total by  *)
(* the number of those attempts times the difference.                      *)
LEMMA TotalUpdate ==
    ASSUME NEW f \in [AttemptIds -> Nano], NEW g \in [AttemptIds -> Nano],
           NEW S \in SUBSET AttemptIds, NEW v \in Nano, NEW w \in Nano,
           \A a \in S : f[a] = v /\ g[a] = w,
           \A a \in AttemptIds \ S : f[a] = g[a]
    PROVE  Total(g) = Total(f) - Cardinality(S) * v + Cardinality(S) * w
<1> DEFINE rest == {u \in Units(f) : u[1] \notin S}
<1>1. Units(f) = rest \cup (S \X (1..v))
  BY BoundAssumption DEF Units, Nano
<1>2. Units(g) = rest \cup (S \X (1..w))
  BY BoundAssumption DEF Units, Nano
<1>3. IsFiniteSet(rest)
  BY UnitsFinite, FS_Subset, rest \in SUBSET Units(f)
<1>4. rest \cap (S \X (1..v)) = {} /\ rest \cap (S \X (1..w)) = {}
  OBVIOUS
<1>5. ASSUME NEW x \in Nano, rest \cap (S \X (1..x)) = {}
      PROVE  Cardinality(rest \cup (S \X (1..x))) = Cardinality(rest) + Cardinality(S) * x
  <2> DEFINE block == S \X (1..x)
  <2>1. IsFiniteSet(block) /\ Cardinality(block) = Cardinality(S) * x
    BY BlockCardinality
  <2>2. Cardinality(rest) \in Nat /\ Cardinality(block) \in Nat
    BY <1>3, <2>1, FS_CardinalityType
  <2>3. Cardinality(rest \cup block) =
          Cardinality(rest) + Cardinality(block) - Cardinality(rest \cap block)
    <3> HIDE DEF rest, block
    <3> QED BY <1>3, <2>1, FS_Union
  <2>4. Cardinality(rest \cap block) = 0
    BY <1>5, FS_EmptySet
  <2> HIDE DEF rest, block
  <2>5. Cardinality(rest \cup block) = Cardinality(rest) + Cardinality(block)
    BY <2>2, <2>3, <2>4
  <2> QED BY <2>1, <2>5 DEF block
<1>6. /\ Total(f) = Cardinality(rest) + Cardinality(S) * v
      /\ Total(g) = Cardinality(rest) + Cardinality(S) * w
  <2> HIDE DEF rest
  <2> QED BY <1>1, <1>2, <1>4, <1>5 DEF Total
<1>7. Cardinality(rest) \in Nat /\ Cardinality(S) \in Nat
  BY <1>3, FS_CardinalityType, BlockCardinality
<1> QED BY <1>6, <1>7, BoundAssumption DEF Nano
-----------------------------------------------------------------------------
(* Type correctness. *)

(* Facts every step uses: rows are typed, and a row is never NULL.         *)
LEMMA RowTypes ==
    ASSUME TypeOK
    PROVE  /\ \A r \in Requests : r \in RequestIds /\ request[r] \in RequestRow
           /\ \A a \in Attempts : /\ a \in AttemptIds /\ attempt[a] \in AttemptRow
                                  /\ attempt[a].request \in Requests
           /\ \A b \in BudgetIds : budget[b] # NULL => budget[b] \in BudgetRow
           /\ \A b \in BudgetIds, a \in AttemptIds :
                charge[b][a] # NULL => charge[b][a] \in ChargeRow
BY DEF TypeOK, Requests, Attempts

LEMMA TypeInit == Init => TypeOK
<1> SUFFICES ASSUME Init PROVE TypeOK
  OBVIOUS
<1>1. now \in 0..MaxTime
  BY BoundAssumption DEF Init
<1>2. Attempts = {}
  BY DEF Init, Attempts
<1> QED BY <1>1, <1>2 DEF Init, TypeOK

LEMMA TypeAccept ==
    ASSUME TypeOK, ChargesOwned, NEW r \in RequestIds, NEW auth \in Authorizations,
           NEW window \in Windows, AcceptRequest(r, auth, window)
    PROVE  TypeOK' /\ ChargesOwned' /\ RowsKept
<1> DEFINE row == [auth |-> auth, deadline |-> now + window, terminal |-> NULL,
                   certified |-> FALSE, searches |-> 0]
<1>1. row \in RequestRow
  BY BoundAssumption, InputAssumption DEF TypeOK, RequestRow
<1>2. request' = [request EXCEPT ![r] = row]
  BY DEF AcceptRequest
<1> HIDE DEF row
<1>3. request' \in [RequestIds -> RequestRow \cup {NULL}]
  BY <1>1, <1>2 DEF TypeOK
<1>4. \A a \in Attempts' : attempt'[a].request \in Requests'
  BY <1>2, r \notin Requests DEF AcceptRequest, TypeOK, Attempts, Requests
<1>5. ChargesOwned'
  BY DEF AcceptRequest, ChargesOwned
<1>6. RowsKept
  BY <1>1, <1>2, NullAssumption DEF AcceptRequest, TypeOK, RowsKept
<1> QED BY <1>3, <1>4, <1>5, <1>6 DEF AcceptRequest, TypeOK

LEMMA TypeFinishRequest ==
    ASSUME TypeOK, ChargesOwned, NEW r \in RequestIds, NEW end \in Closings,
           FinishRequest(r, end[1], end[2], end[3])
    PROVE  TypeOK' /\ ChargesOwned' /\ RowsKept
<1> DEFINE row == request'[r]
<1>1. end[1] \in TerminalStates /\ end[2] \in BOOLEAN /\ end[3] \in {0, 1}
  BY InputAssumption
<1>2. request[r] \in RequestRow
  BY RowTypes DEF FinishRequest
<1>3. \A q \in RequestIds \ {r} : request'[q] = request[q]
  BY DEF FinishRequest, TypeOK
<1>4. row \in RequestRow
  BY <1>1, <1>2 DEF FinishRequest, TypeOK, RequestRow, RequestStates
<1>5. request' \in [RequestIds -> RequestRow \cup {NULL}]
  BY <1>3, <1>4 DEF FinishRequest, TypeOK
<1>6. Requests' = Requests
  BY <1>3, <1>4, NullAssumption DEF FinishRequest, Requests
<1>7. ChargesOwned'
  BY DEF FinishRequest, ChargesOwned
<1>8. RowsKept
  BY <1>3, <1>4, NullAssumption DEF FinishRequest, RowsKept
<1> QED BY <1>5, <1>6, <1>7, <1>8 DEF FinishRequest, TypeOK, Attempts

(* A dispatch writes typed attempt, budget and charge rows.                *)
LEMMA TypeStartAttempt ==
    ASSUME TypeOK, ChargesOwned, NEW a \in AttemptIds, NEW r \in Requests,
           NEW rung \in request[r].auth.rungs, NEW ordinal \in Ordinals,
           NEW cost \in Costs, NEW tierCard \in TierCards,
           StartAttempt(a, r, rung, ordinal, cost, tierCard)
    PROVE  TypeOK' /\ ChargesOwned' /\ RowsKept /\ attempt'[a] # NULL
<1> DEFINE row ==
        [request |-> r, ordinal |-> ordinal, rung |-> rung,
         period |-> Period(now), reserved |-> cost, state |-> "dispatched",
         card |-> rung.card,
         admission |-> IF tierCard = NULL THEN NULL
                       ELSE [standard |-> rung.card, requested |-> tierCard],
         tier |-> NULL, usage |-> NULL, source |-> NULL, cost |-> NULL,
         settled |-> NULL, recovery |-> FALSE]
<1>1. row \in AttemptRow
  <2>1. r \in RequestIds /\ request[r].auth \in Authorizations
    BY RowTypes DEF RequestRow
  <2>2. rung \in Rungs /\ rung.card \in Cards
    BY <2>1, InputAssumption DEF Rungs
  <2>3. cost \in NanoOrNull /\ tierCard \in Cards \cup {NULL}
    BY InputAssumption
  <2>4. Period(now) \in Periods
    BY DEF TypeOK, Period, Periods
  <2> QED BY <2>1, <2>2, <2>3, <2>4 DEF AttemptRow, AttemptStates, NanoOrNull
<1>2. attempt' = [attempt EXCEPT ![a] = row]
  BY DEF StartAttempt
<1> HIDE DEF row
<1>3. attempt' \in [AttemptIds -> AttemptRow \cup {NULL}]
  BY <1>1, <1>2 DEF TypeOK
<1>4. \A x \in Attempts' : attempt'[x].request \in Requests'
  <2>1. attempt'[a].request = r
    BY <1>2 DEF TypeOK, row
  <2> QED BY <1>2, <2>1 DEF StartAttempt, TypeOK, Attempts, Requests
<1>5. /\ budget' \in [BudgetIds -> BudgetRow \cup {NULL}]
      /\ \A b \in BudgetIds : budget[b] # NULL => budget'[b] # NULL
  <2>1. cost \in NanoOrNull
    BY InputAssumption
  <2>2. \A b \in BudgetIds : budget[b] # NULL => Reserve(budget[b], cost) \in BudgetRow
    BY <2>1, RowTypes, BoundAssumption DEF Reserve, BudgetRow, NanoOrNull, Nano
  <2> QED BY <2>2, NullAssumption DEF StartAttempt, TypeOK
<1>6. charge' \in [BudgetIds -> [AttemptIds -> ChargeRow \cup {NULL}]]
  <2>1. [reserved |-> cost, settled |-> NULL] \in ChargeRow
    BY InputAssumption DEF ChargeRow, NanoOrNull
  <2> QED BY <2>1 DEF StartAttempt, TypeOK
<1>7. ChargesOwned' /\ RowsKept /\ attempt'[a] # NULL
  <2>1. /\ attempt'[a] # NULL
        /\ \A x \in AttemptIds : attempt[x] # NULL => attempt'[x] # NULL
    BY <1>1, <1>2, NullAssumption DEF TypeOK
  <2>2. \A b \in BudgetIds, x \in AttemptIds : charge'[b][x] # NULL =>
            charge[b][x] # NULL \/ (x = a /\ budget[b] # NULL)
    BY DEF StartAttempt, TypeOK
  <2>3. ChargesOwned'
    BY <1>5, <2>1, <2>2 DEF ChargesOwned
  <2> QED BY <1>5, <2>1, <2>3 DEF StartAttempt, RowsKept
<1> QED BY <1>3, <1>4, <1>5, <1>6, <1>7 DEF StartAttempt, TypeOK

(* Settling a charge keeps the budget row typed: the guards of             *)
(* settle_attempt_budgets keep every counter in range.                     *)
LEMMA SettleRowType ==
    ASSUME NEW row \in BudgetRow, NEW c \in ChargeRow, NEW amount \in Nano,
           CanSettle(row, c, amount)
    PROVE  SettleRow(row, c, amount) \in BudgetRow
<1>1. amount \in Nat /\ row.settled + amount \in Nano
  BY BoundAssumption DEF CanSettle, BudgetRow, Nano
<1>2. CASE c.reserved = NULL
  <2>1. row.unknown - 1 \in Nat
    BY <1>2 DEF CanSettle, BudgetRow
  <2> QED BY <1>1, <1>2, <2>1 DEF SettleRow, BudgetRow
<1>3. CASE c.reserved # NULL
  <2>1. row.reserved - c.reserved \in Nat
    BY <1>3, BoundAssumption DEF CanSettle, BudgetRow, ChargeRow, NanoOrNull, Nano
  <2> QED BY <1>1, <1>3, <2>1 DEF SettleRow, BudgetRow
<1> QED BY <1>2, <1>3

LEMMA SettleTypes ==
    ASSUME TypeOK, NEW a \in AttemptIds, NEW amount \in NanoOrNull,
           SettleAttemptBudgets(a, amount),
           \A b \in BudgetIds : charge[b][a] # NULL => budget[b] # NULL
    PROVE  /\ budget' \in [BudgetIds -> BudgetRow \cup {NULL}]
           /\ charge' \in [BudgetIds -> [AttemptIds -> ChargeRow \cup {NULL}]]
           /\ ChargesKept
<1> DEFINE open == {b \in BudgetIds : amount # NULL /\ Held(b, a)}
<1>1. \A b \in open : /\ amount \in Nano /\ budget[b] \in BudgetRow
                      /\ charge[b][a] \in ChargeRow
  BY RowTypes DEF Held, NanoOrNull
<1>2. \A b \in open : SettleRow(budget[b], charge[b][a], amount) \in BudgetRow
  BY <1>1, SettleRowType DEF SettleAttemptBudgets
<1>3. \A b \in open : [charge[b][a] EXCEPT !.settled = amount] \in ChargeRow
  BY <1>1 DEF ChargeRow
<1>4. ChargesKept
  BY <1>1, <1>2, NullAssumption DEF SettleAttemptBudgets, TypeOK, ChargesKept
<1> QED BY <1>2, <1>3, <1>4 DEF SettleAttemptBudgets, TypeOK

LEMMA SwapRowType ==
    ASSUME NEW row \in BudgetRow, NEW c \in ChargeRow, NEW previous \in Nano,
           NEW amount \in NanoOrNull, CanSwap(row, c, previous, amount)
    PROVE  SwapRow(row, c, previous, amount) \in BudgetRow
<1>1. CASE amount # NULL
  <2>1. row.settled - previous + amount \in Nano
    BY <1>1, BoundAssumption DEF CanSwap, BudgetRow, NanoOrNull, Nano
  <2> QED BY <1>1, <2>1 DEF SwapRow, BudgetRow
<1>2. CASE amount = NULL
  <2>1. row.settled - previous \in Nano
    BY <1>2, BoundAssumption DEF CanSwap, BudgetRow, Nano
  <2>2. CASE c.reserved = NULL
    <3>1. row.unknown + 1 \in Nat
      BY DEF BudgetRow
    <3> QED BY <1>2, <2>1, <2>2, <3>1 DEF SwapRow, BudgetRow
  <2>3. CASE c.reserved # NULL
    <3>1. row.reserved + c.reserved \in Nat
      BY <2>3, BoundAssumption DEF BudgetRow, ChargeRow, NanoOrNull, Nano
    <3> QED BY <1>2, <2>1, <2>3, <3>1 DEF SwapRow, BudgetRow
  <2> QED BY <2>2, <2>3
<1> QED BY <1>1, <1>2

LEMMA ReplaceTypes ==
    ASSUME TypeOK, NEW a \in AttemptIds, NEW previous \in NanoOrNull,
           NEW amount \in NanoOrNull, ReplaceBudgetCharges(a, previous, amount),
           \A b \in BudgetIds : charge[b][a] # NULL => budget[b] # NULL
    PROVE  /\ budget' \in [BudgetIds -> BudgetRow \cup {NULL}]
           /\ charge' \in [BudgetIds -> [AttemptIds -> ChargeRow \cup {NULL}]]
           /\ ChargesKept
<1> DEFINE swapped == {b \in BudgetIds : Automatic(b, a, previous) /\ previous # amount}
           open == {b \in BudgetIds : amount # NULL /\ Held(b, a)}
<1>1. \A b \in swapped \cup open :
        budget[b] \in BudgetRow /\ charge[b][a] \in ChargeRow
  BY RowTypes DEF Held, Automatic
<1>2. \A b \in open : SettleRow(budget[b], charge[b][a], amount) \in BudgetRow
  BY <1>1, SettleRowType DEF ReplaceBudgetCharges, NanoOrNull
<1>3. \A b \in swapped : SwapRow(budget[b], charge[b][a], previous, amount) \in BudgetRow
  BY <1>1, SwapRowType DEF ReplaceBudgetCharges, NanoOrNull, Automatic
<1>4. \A b \in swapped \cup open : [charge[b][a] EXCEPT !.settled = amount] \in ChargeRow
  BY <1>1 DEF ChargeRow
<1>5. \A b \in BudgetIds : budget'[b] \in BudgetRow \cup {NULL}
  BY <1>2, <1>3 DEF ReplaceBudgetCharges, TypeOK
<1>6. ChargesKept
  <2>1. \A b \in BudgetIds : budget[b] # NULL => budget'[b] # NULL
    BY <1>2, <1>3, NullAssumption DEF ReplaceBudgetCharges
  <2>2. \A b \in BudgetIds, x \in AttemptIds : charge'[b][x] # NULL => charge[b][x] # NULL
    BY <1>1, NullAssumption DEF ReplaceBudgetCharges, TypeOK
  <2> QED BY <2>1, <2>2 DEF ChargesKept
<1> QED BY <1>4, <1>5, <1>6 DEF ReplaceBudgetCharges, TypeOK

(* What a report costs is an amount or unknown, and the card it leaves on  *)
(* the row is a card.                                                      *)
LEMMA CostTypes ==
    ASSUME NEW row \in AttemptRow, NEW t \in Reports, NEW tier \in Tiers \cup {NULL},
           Confirmed(tier) => row.admission # NULL
    PROVE  /\ ReportCost(row, tier, t) \in NanoOrNull
           /\ TierCost(row, tier, t) \in NanoOrNull
           /\ TierCard(row, tier) \in Cards
<1>1. t.usage \in Meters \cup {NULL}
  BY InputAssumption DEF ReportShape
<1>2. \A card \in Cards : CardCost(card, t) \in NanoOrNull
  BY <1>1, InputAssumption DEF CardCost, NanoOrNull
<1>3. row.card \in Cards
  BY DEF AttemptRow
<1>4. Confirmed(tier) => row.admission \in [standard : Cards, requested : Cards]
  BY DEF AttemptRow
<1>5. TierCard(row, tier) \in Cards
  BY <1>3, <1>4 DEF TierCard, Confirmed
<1>6. TierCost(row, tier, t) \in NanoOrNull
  BY <1>2, <1>5 DEF TierCost, NanoOrNull
<1> QED BY <1>2, <1>3, <1>5, <1>6 DEF ReportCost

LEMMA SettledTierType ==
    ASSUME NEW row \in AttemptRow, NEW receipt \in Tiers \cup {NULL}
    PROVE  /\ SettledTier(row, receipt) \in Tiers \cup {NULL}
           /\ Confirmed(SettledTier(row, receipt)) => row.admission # NULL
BY NullAssumption DEF SettledTier, Confirmed, Tiers

LEMMA SettlementTypes ==
    ASSUME TypeOK, NEW a \in Attempts, NEW tier, NEW cost \in NanoOrNull,
           NEW t \in Reports
    PROVE  BudgetSettlement(a, tier, cost, t) \in NanoOrNull /\ 0 \in NanoOrNull
<1>1. attempt[a].reserved \in NanoOrNull
  BY RowTypes DEF AttemptRow
<1>2. 0 \in NanoOrNull
  BY BoundAssumption DEF NanoOrNull, Nano
<1> QED BY <1>1, <1>2 DEF BudgetSettlement, NanoOrNull

LEMMA ReportTypes ==
    ASSUME NEW t \in Reports
    PROVE  /\ t.state \in TerminalStates /\ t.usage \in Meters \cup {NULL}
           /\ t.recovery \in BOOLEAN /\ SourceLabel(t) \in Sources
BY InputAssumption DEF ReportShape, SourceLabel, Sources

(* A write to one attempt row that keeps its request keeps the     *)
(* tables typed and their charges owned when every table it writes does.   *)
LEMMA TypeRewrite ==
    ASSUME TypeOK, ChargesOwned, ChargesKept,
           NEW a \in Attempts, NEW row \in AttemptRow,
           row.request = attempt[a].request,
           attempt' = [attempt EXCEPT ![a] = row], now' = now,
           request' \in [RequestIds -> RequestRow \cup {NULL}], Requests' = Requests,
           budget' \in [BudgetIds -> BudgetRow \cup {NULL}],
           charge' \in [BudgetIds -> [AttemptIds -> ChargeRow \cup {NULL}]],
           assigned' = assigned, waived' \subseteq AttemptIds
    PROVE  TypeOK' /\ ChargesOwned' /\ RowsKept
<1>1. attempt' \in [AttemptIds -> AttemptRow \cup {NULL}]
  BY DEF TypeOK
<1>2. \A x \in Attempts' : attempt'[x].request \in Requests'
  BY RowTypes DEF TypeOK, Attempts
<1>3. \A x \in AttemptIds : attempt[x] # NULL => attempt'[x] # NULL
  BY NullAssumption DEF TypeOK
<1>4. ChargesOwned'
  BY <1>3 DEF ChargesOwned, ChargesKept
<1>5. RowsKept
  BY <1>3, Requests' = Requests DEF RowsKept, ChargesKept, Requests
<1> QED BY <1>1, <1>2, <1>4, <1>5 DEF TypeOK

LEMMA TypeSettleDispatched ==
    ASSUME TypeOK, ChargesOwned, NEW a \in Attempts, NEW t \in Reports,
           NEW receipt \in Receipts, NEW finalize \in BOOLEAN,
           SettleDispatched(a, t, receipt, finalize), UNCHANGED <<now, assigned>>
    PROVE  TypeOK' /\ ChargesOwned' /\ RowsKept
<1> DEFINE row == attempt[a]
           tier == SettledTier(row, receipt)
           cost == ReportCost(row, tier, t)
           settlement == IF t.guardrail \/ t.release THEN 0
                         ELSE BudgetSettlement(a, tier, cost, t)
           new == [row EXCEPT
                    !.state = t.state, !.tier = tier, !.card = TierCard(row, tier),
                    !.usage = t.usage, !.source = SourceLabel(t), !.cost = cost,
                    !.settled = settlement, !.recovery = t.recovery]
<1>1. row \in AttemptRow /\ a \in AttemptIds
  BY RowTypes
<1>2. tier \in Tiers \cup {NULL} /\ (Confirmed(tier) => row.admission # NULL)
  BY <1>1, SettledTierType, InputAssumption
<1>3. cost \in NanoOrNull /\ TierCard(row, tier) \in Cards
  BY <1>1, <1>2, CostTypes
<1>4. settlement \in NanoOrNull
  BY <1>3, SettlementTypes
<1>5. /\ attempt' = [attempt EXCEPT ![a] = new]
      /\ SettleAttemptBudgets(a, settlement) /\ waived' \subseteq AttemptIds
  BY <1>1 DEF SettleDispatched, Waive, TypeOK
<1>6. new \in AttemptRow /\ new.request = row.request
  <2> HIDE DEF tier, cost, settlement
  <2> QED BY <1>1, <1>2, <1>3, <1>4, ReportTypes DEF AttemptRow, AttemptStates
<1>7. /\ request' \in [RequestIds -> RequestRow \cup {NULL}]
      /\ Requests' = Requests
  <2>1. row.request \in RequestIds /\ request[row.request] \in RequestRow
    BY <1>1, RowTypes
  <2>2. [request[row.request] EXCEPT !.terminal = t.state] \in RequestRow
    BY <2>1, ReportTypes DEF RequestRow, RequestStates
  <2>3. \/ request' = request
        \/ request' = [request EXCEPT ![row.request] =
                          [request[row.request] EXCEPT !.terminal = t.state]]
    BY <2>1 DEF SettleDispatched, TypeOK
  <2> QED BY <2>1, <2>2, <2>3, NullAssumption DEF TypeOK, Requests
<1>8. /\ budget' \in [BudgetIds -> BudgetRow \cup {NULL}]
      /\ charge' \in [BudgetIds -> [AttemptIds -> ChargeRow \cup {NULL}]]
      /\ ChargesKept
  BY <1>1, <1>4, <1>5, SettleTypes DEF ChargesOwned
<1> HIDE DEF new
<1> QED BY <1>5, <1>6, <1>7, <1>8, TypeRewrite

LEMMA TypeWaiveTerminal ==
    ASSUME TypeOK, ChargesOwned, NEW a \in Attempts, NEW t \in Reports,
           WaiveTerminal(a, t), UNCHANGED <<now, assigned>>
    PROVE  TypeOK' /\ ChargesOwned' /\ RowsKept
<1> DEFINE new == [attempt[a] EXCEPT !.settled = 0]
<1>1. attempt[a] \in AttemptRow /\ a \in AttemptIds
  BY RowTypes
<1>2. 0 \in NanoOrNull
  BY BoundAssumption DEF NanoOrNull, Nano
<1>3. new \in AttemptRow /\ new.request = attempt[a].request
  BY <1>1, <1>2 DEF AttemptRow
<1>4. /\ attempt' = [attempt EXCEPT ![a] = new] /\ waived' \subseteq AttemptIds
      /\ ReplaceBudgetCharges(a, attempt[a].settled, 0) /\ request' = request
  BY <1>1 DEF WaiveTerminal, Waive, TypeOK
<1>5. /\ budget' \in [BudgetIds -> BudgetRow \cup {NULL}]
      /\ charge' \in [BudgetIds -> [AttemptIds -> ChargeRow \cup {NULL}]]
      /\ ChargesKept
  BY <1>1, <1>2, <1>4, ReplaceTypes DEF ChargesOwned, AttemptRow
<1> HIDE DEF new
<1> QED BY <1>3, <1>4, <1>5, TypeRewrite DEF TypeOK, Requests

LEMMA TypeLateMeter ==
    ASSUME TypeOK, ChargesOwned, NEW a \in Attempts, NEW t \in Reports,
           NEW receipt \in Receipts, LateMeter(a, t, receipt),
           UNCHANGED <<now, assigned>>
    PROVE  TypeOK' /\ ChargesOwned' /\ RowsKept
<1> DEFINE row == attempt[a]
           tier == SettledTier(row, IF receipt = NULL THEN row.tier ELSE receipt)
           cost == ReportCost(row, tier, t)
           settlement == IF ExplicitCharge(a) THEN row.settled
                         ELSE IF t.guardrail THEN 0
                         ELSE BudgetSettlement(a, tier, cost, t)
           new == [row EXCEPT
                    !.tier = tier, !.card = TierCard(row, tier), !.usage = t.usage,
                    !.source = "observed", !.cost = cost, !.settled = settlement]
<1>1. row \in AttemptRow /\ a \in AttemptIds
  BY RowTypes
<1>2. tier \in Tiers \cup {NULL} /\ (Confirmed(tier) => row.admission # NULL)
  <2>1. (IF receipt = NULL THEN row.tier ELSE receipt) \in Tiers \cup {NULL}
    BY <1>1, InputAssumption DEF AttemptRow
  <2> QED BY <1>1, <2>1, SettledTierType
<1>3. cost \in NanoOrNull /\ TierCard(row, tier) \in Cards
  BY <1>1, <1>2, CostTypes
<1>4. settlement \in NanoOrNull /\ row.settled \in NanoOrNull
  BY <1>1, <1>3, SettlementTypes DEF AttemptRow
<1>5. /\ attempt' = [attempt EXCEPT ![a] = new] /\ waived' \subseteq AttemptIds
      /\ ReplaceBudgetCharges(a, row.settled, settlement) /\ request' = request
  BY DEF LateMeter, UpgradeObserved, TypeOK
<1>6. new \in AttemptRow /\ new.request = row.request
  <2> HIDE DEF tier, cost, settlement
  <2> QED BY <1>1, <1>2, <1>3, <1>4, ReportTypes DEF AttemptRow, Sources
<1>7. /\ budget' \in [BudgetIds -> BudgetRow \cup {NULL}]
      /\ charge' \in [BudgetIds -> [AttemptIds -> ChargeRow \cup {NULL}]]
      /\ ChargesKept
  BY <1>1, <1>4, <1>5, ReplaceTypes DEF ChargesOwned
<1> HIDE DEF new
<1> QED BY <1>5, <1>6, <1>7, TypeRewrite DEF TypeOK, Requests

LEMMA TypeRetainTierReceipt ==
    ASSUME TypeOK, ChargesOwned, NEW a \in Attempts, NEW t \in Reports, NEW receipt \in Receipts,
           RetainTierReceipt(a, t, receipt), UNCHANGED <<now, assigned>>
    PROVE  TypeOK' /\ ChargesOwned' /\ RowsKept
<1> DEFINE row == attempt[a]
           new == [row EXCEPT !.tier = receipt, !.card = TierCard(row, receipt)]
<1>1. row \in AttemptRow /\ a \in AttemptIds
  BY RowTypes
<1>2. receipt \in Tiers \cup {NULL} /\ TierCard(row, receipt) \in Cards
  BY <1>1, CostTypes, InputAssumption DEF RetainTierReceipt
<1>3. new \in AttemptRow /\ new.request = row.request
  BY <1>1, <1>2 DEF AttemptRow
<1>4. attempt' = [attempt EXCEPT ![a] = new]
  BY DEF RetainTierReceipt
<1>5. /\ request' \in [RequestIds -> RequestRow \cup {NULL}] /\ Requests' = Requests
      /\ waived' \subseteq AttemptIds
  BY DEF RetainTierReceipt, TypeOK, Requests
<1>6. /\ budget' \in [BudgetIds -> BudgetRow \cup {NULL}]
      /\ charge' \in [BudgetIds -> [AttemptIds -> ChargeRow \cup {NULL}]]
      /\ ChargesKept
  BY DEF RetainTierReceipt, TypeOK, ChargesKept
<1> HIDE DEF new
<1> QED BY <1>3, <1>4, <1>5, <1>6, TypeRewrite

LEMMA TypeReconcileTierReceipt ==
    ASSUME TypeOK, ChargesOwned, NEW a \in Attempts, NEW t \in Reports,
           NEW receipt \in Receipts, ReconcileTierReceipt(a, t, receipt),
           UNCHANGED <<now, assigned>>
    PROVE  TypeOK' /\ ChargesOwned' /\ RowsKept
<1> DEFINE row == attempt[a]
           cost == TierCost(row, receipt, t)
           new == [row EXCEPT !.tier = receipt, !.card = TierCard(row, receipt),
                              !.cost = cost, !.settled = cost]
<1>1. row \in AttemptRow /\ a \in AttemptIds
  BY RowTypes
<1>2. /\ receipt \in Tiers \cup {NULL} /\ TierCard(row, receipt) \in Cards
      /\ cost \in NanoOrNull
  BY <1>1, CostTypes, InputAssumption DEF ReconcileTierReceipt
<1>3. new \in AttemptRow /\ new.request = row.request
  <2> HIDE DEF cost
  <2> QED BY <1>1, <1>2 DEF AttemptRow
<1>4. attempt' = [attempt EXCEPT ![a] = new] /\ SettleAttemptBudgets(a, cost)
  BY DEF ReconcileTierReceipt
<1>5. /\ budget' \in [BudgetIds -> BudgetRow \cup {NULL}]
      /\ charge' \in [BudgetIds -> [AttemptIds -> ChargeRow \cup {NULL}]]
      /\ ChargesKept
  BY <1>1, <1>2, <1>4, SettleTypes DEF ChargesOwned
<1>6. /\ request' \in [RequestIds -> RequestRow \cup {NULL}] /\ Requests' = Requests
      /\ waived' \subseteq AttemptIds
  BY DEF ReconcileTierReceipt, TypeOK, Requests
<1> HIDE DEF new
<1> QED BY <1>3, <1>4, <1>5, <1>6, TypeRewrite

LEMMA TypeFinishAttempt ==
    ASSUME TypeOK, ChargesOwned, NEW a \in AttemptIds, NEW t \in Reports,
           NEW receipt \in Receipts, NEW finalize \in BOOLEAN,
           FinishAttempt(a, t, receipt, finalize)
    PROVE  TypeOK' /\ ChargesOwned' /\ RowsKept
BY TypeSettleDispatched, TypeWaiveTerminal, TypeLateMeter, TypeRetainTierReceipt,
   TypeReconcileTierReceipt DEF FinishAttempt

LEMMA TypeDecisionLiability ==
    ASSUME TypeOK, ChargesOwned, NEW a \in AttemptIds, NEW amount \in Amounts,
           ReconcileDecisionLiability(a, amount)
    PROVE  TypeOK' /\ ChargesOwned' /\ RowsKept
<1> DEFINE new == [attempt[a] EXCEPT !.settled = amount]
<1>1. a \in Attempts /\ attempt[a] \in AttemptRow /\ amount \in NanoOrNull
  BY RowTypes, InputAssumption DEF ReconcileDecisionLiability, Amounts
<1>2. new \in AttemptRow /\ new.request = attempt[a].request
  BY <1>1 DEF AttemptRow
<1>3. /\ budget' \in [BudgetIds -> BudgetRow \cup {NULL}]
      /\ charge' \in [BudgetIds -> [AttemptIds -> ChargeRow \cup {NULL}]]
      /\ ChargesKept
  BY <1>1, SettleTypes DEF ReconcileDecisionLiability, ChargesOwned
<1>4. attempt' = [attempt EXCEPT ![a] = new]
  BY DEF ReconcileDecisionLiability
<1>5. /\ request' \in [RequestIds -> RequestRow \cup {NULL}] /\ Requests' = Requests
      /\ waived' \subseteq AttemptIds
  BY DEF ReconcileDecisionLiability, TypeOK, Requests
<1> HIDE DEF new
<1> QED BY <1>1, <1>2, <1>3, <1>4, <1>5, TypeRewrite DEF ReconcileDecisionLiability

LEMMA UnknownFinite ==
    ASSUME NEW charges
    PROVE  /\ IsFiniteSet(UnknownSet(charges))
           /\ Cardinality(UnknownSet(charges)) \in Nat
<1>1. UnknownSet(charges) \in SUBSET AttemptIds
  BY DEF UnknownSet
<1> QED BY <1>1, BoundAssumption, FS_Subset, FS_CardinalityType

LEMMA TypeUnknownCosts ==
    ASSUME TypeOK, ChargesOwned, NEW b \in BudgetIds, NEW amount \in Amounts,
           ReconcileUnknownCosts(b, amount)
    PROVE  TypeOK' /\ ChargesOwned' /\ RowsKept
<1> DEFINE unknown == UnknownSet(charge[b])
           n == Cardinality(unknown)
           added == amount * n
<1>1. amount \in Nano /\ n \in Nat /\ unknown \subseteq AttemptIds
  BY InputAssumption, UnknownFinite DEF Amounts, NanoOrNull, UnknownSet
<1>2. added \in Nat
  BY <1>1, BoundAssumption DEF Nano
<1>3. budget[b] \in BudgetRow
  BY RowTypes DEF ReconcileUnknownCosts
<1>4. [budget[b] EXCEPT !.unknown = @ - n, !.settled = @ + added] \in BudgetRow
  <2>1. budget[b].unknown - n \in Nat
    BY <1>1, <1>3 DEF ReconcileUnknownCosts, BudgetRow
  <2>2. budget[b].settled + added \in Nano
    <3> HIDE DEF added
    <3>1. budget[b].settled + added <= MAXIMUM_NANO_USD
      BY DEF ReconcileUnknownCosts, added
    <3> QED BY <1>2, <1>3, <3>1, BoundAssumption DEF BudgetRow, Nano
  <2> HIDE DEF added, n
  <2> QED BY <1>3, <2>1, <2>2 DEF BudgetRow
<1>5. \A a \in unknown : [charge[b][a] EXCEPT !.settled = amount] \in ChargeRow
  BY <1>1, RowTypes DEF UnknownSet, IsUnknown, ChargeRow, NanoOrNull
<1>6. budget' \in [BudgetIds -> BudgetRow \cup {NULL}]
  <2> DEFINE new == [budget[b] EXCEPT !.unknown = @ - n, !.settled = @ + added]
  <2>1. budget' = [budget EXCEPT ![b] = new]
    BY DEF ReconcileUnknownCosts
  <2> HIDE DEF new
  <2> QED BY <1>4, <2>1 DEF TypeOK, new
<1>7. charge' \in [BudgetIds -> [AttemptIds -> ChargeRow \cup {NULL}]]
  <2>1. [a \in AttemptIds |->
            IF a \in unknown THEN [charge[b][a] EXCEPT !.settled = amount]
                             ELSE charge[b][a]]
            \in [AttemptIds -> ChargeRow \cup {NULL}]
    BY <1>5 DEF TypeOK
  <2> HIDE DEF unknown
  <2> QED BY <2>1 DEF ReconcileUnknownCosts, TypeOK, unknown
<1>8. assigned' \subseteq BudgetIds \X AttemptIds
  BY <1>1 DEF ReconcileUnknownCosts, TypeOK
<1>9. ChargesOwned' /\ RowsKept
  <2>1. \A c \in BudgetIds, x \in AttemptIds : charge'[c][x] # NULL => charge[c][x] # NULL
    BY DEF ReconcileUnknownCosts, TypeOK, UnknownSet, IsUnknown
  <2>2. \A c \in BudgetIds : budget[c] # NULL => budget'[c] # NULL
    <3> DEFINE new == [budget[b] EXCEPT !.unknown = @ - n, !.settled = @ + added]
    <3>1. budget' = [budget EXCEPT ![b] = new]
      BY DEF ReconcileUnknownCosts
    <3>2. new # NULL
      BY <1>4, NullAssumption
    <3> HIDE DEF new
    <3> QED BY <3>1, <3>2 DEF TypeOK
  <2>3. attempt' = attempt /\ request' = request
    BY DEF ReconcileUnknownCosts
  <2> QED BY <2>1, <2>2, <2>3 DEF ChargesOwned, RowsKept
<1> QED BY <1>6, <1>7, <1>8, <1>9 DEF ReconcileUnknownCosts, TypeOK, Attempts, Requests

LEMMA BackfillTypes ==
    ASSUME TypeOK, NEW b \in BudgetIds
    PROVE  BackfillCharges(b) \in [AttemptIds -> ChargeRow \cup {NULL}]
BY RowTypes DEF BackfillCharges, HistoricalSettlement, AttemptRow, ChargeRow, NanoOrNull

LEMMA TypeLimits ==
    ASSUME TypeOK, ChargesOwned, NEW b \in BudgetIds, NEW limit \in Limits,
           NEW strict \in Strictness,
           CreateLimit(b, limit, strict) \/ ReplaceLimit(b, limit, strict)
    PROVE  TypeOK' /\ ChargesOwned' /\ RowsKept /\ budget'[b] # NULL
<1>1. limit \in Nano /\ strict \in BOOLEAN
  BY InputAssumption
<1>2. CASE CreateLimit(b, limit, strict)
  <2> DEFINE charges == BackfillCharges(b)
  <2>1. /\ ReservedTotal(charges) \in Nat /\ SettledTotal(charges) \in Nat
        /\ Cardinality(UnknownSet(charges)) \in Nat
    BY UnitsFinite, UnknownFinite DEF ReservedTotal, SettledTotal
  <2>2. SettledTotal(charges) \in Nano
    BY <1>2, <2>1, BoundAssumption DEF CreateLimit, Nano
  <2>3. charges \in [AttemptIds -> ChargeRow \cup {NULL}]
    BY BackfillTypes
  <2> HIDE DEF charges
  <2> DEFINE new == [limit |-> limit, strict |-> strict,
                     reserved |-> ReservedTotal(charges),
                     settled |-> SettledTotal(charges),
                     unknown |-> Cardinality(UnknownSet(charges))]
  <2>4. budget' = [budget EXCEPT ![b] = new] /\ charge' = [charge EXCEPT ![b] = charges]
    BY <1>2 DEF CreateLimit, charges
  <2>5. new \in BudgetRow
    BY <1>1, <2>1, <2>2 DEF BudgetRow
  <2> HIDE DEF new
  <2>6. TypeOK'
    BY <1>2, <2>3, <2>4, <2>5 DEF CreateLimit, TypeOK, Attempts, Requests
  <2>7. \A x \in AttemptIds : charges[x] # NULL => attempt[x] # NULL
    BY DEF charges, BackfillCharges, Attempts
  <2>8. ChargesOwned'
    BY <1>2, <2>4, <2>5, <2>7, NullAssumption DEF CreateLimit, TypeOK, ChargesOwned
  <2>9. RowsKept /\ budget'[b] # NULL
    BY <1>2, <2>4, <2>5, NullAssumption DEF CreateLimit, TypeOK, RowsKept
  <2> QED BY <2>6, <2>8, <2>9
<1>3. CASE ReplaceLimit(b, limit, strict)
  <2>1. [budget[b] EXCEPT !.limit = limit, !.strict = strict] \in BudgetRow
    BY <1>1, <1>3, RowTypes DEF ReplaceLimit, BudgetRow
  <2>2. ChargesOwned' /\ RowsKept /\ budget'[b] # NULL
    BY <1>3, <2>1, NullAssumption DEF ReplaceLimit, TypeOK, ChargesOwned, RowsKept
  <2> QED BY <1>3, <2>1, <2>2 DEF ReplaceLimit, TypeOK, Attempts, Requests
<1> QED BY <1>2, <1>3

LEMMA TypeRecovery ==
    ASSUME TypeOK, ChargesOwned, ReconcileCrashedRequests
    PROVE  TypeOK' /\ ChargesOwned' /\ RowsKept
<1>1. \A a \in Crashed : /\ a \in AttemptIds /\ attempt[a] \in AttemptRow
                         /\ attempt'[a] \in AttemptRow
                         /\ attempt'[a].request = attempt[a].request
  <2> SUFFICES ASSUME NEW a \in Crashed
               PROVE  /\ a \in AttemptIds /\ attempt[a] \in AttemptRow
                      /\ attempt'[a] \in AttemptRow
                      /\ attempt'[a].request = attempt[a].request
    OBVIOUS
  <2>1. a \in AttemptIds /\ attempt[a] \in AttemptRow
    BY RowTypes DEF Crashed
  <2>2. attempt'[a] = [attempt[a] EXCEPT !.state = "unknown_after_crash",
                                         !.source = "unknown"]
    BY <2>1 DEF ReconcileCrashedRequests
  <2> QED BY <2>1, <2>2 DEF AttemptRow, AttemptStates, Sources
<1>2. \A a \in AttemptIds \ Crashed : attempt'[a] = attempt[a]
  BY DEF ReconcileCrashedRequests
<1>3. attempt' \in [AttemptIds -> AttemptRow \cup {NULL}]
  BY <1>1, <1>2 DEF ReconcileCrashedRequests, TypeOK
<1>4. \A r \in Requests : request'[r] \in RequestRow
  <2> SUFFICES ASSUME NEW r \in Requests PROVE request'[r] \in RequestRow
    OBVIOUS
  <2>1. r \in RequestIds /\ request[r] \in RequestRow
    BY RowTypes
  <2>2. \/ request'[r] = request[r]
        \/ request'[r] = [request[r] EXCEPT !.terminal = "expired_before_dispatch"]
        \/ request'[r] = [request[r] EXCEPT !.terminal = "unknown_after_crash"]
    BY <2>1 DEF ReconcileCrashedRequests
  <2> QED BY <2>1, <2>2 DEF RequestRow, RequestStates
<1>5. \A r \in RequestIds \ Requests : request'[r] = NULL
  BY DEF ReconcileCrashedRequests, Requests, Expired
<1>6. request' \in [RequestIds -> RequestRow \cup {NULL}]
  BY <1>4, <1>5 DEF ReconcileCrashedRequests, TypeOK
<1>7. Requests' = Requests
  BY <1>4, <1>5, NullAssumption DEF Requests
<1>8. \A a \in Attempts' : attempt'[a].request \in Requests'
  BY <1>1, <1>2, <1>7 DEF TypeOK, Attempts, Crashed
<1>9. ChargesOwned' /\ RowsKept
  <2>1. \A a \in AttemptIds : attempt[a] # NULL => attempt'[a] # NULL
    BY <1>1, <1>2, NullAssumption
  <2> QED BY <1>7, <2>1 DEF ReconcileCrashedRequests, ChargesOwned, RowsKept, Requests
<1> QED BY <1>3, <1>6, <1>8, <1>9 DEF ReconcileCrashedRequests, TypeOK

LEMMA TypeTick ==
    ASSUME TypeOK, ChargesOwned, Tick
    PROVE  TypeOK' /\ ChargesOwned' /\ RowsKept
BY BoundAssumption DEF Tick, TypeOK, Attempts, Requests, ChargesOwned, RowsKept

(* Every step keeps the tables typed, the charges owned and every row.     *)
LEMMA TypeStep ==
    ASSUME TypeOK, ChargesOwned, [Next]_vars
    PROVE  TypeOK' /\ ChargesOwned' /\ RowsKept
<1>1. CASE UNCHANGED vars
  BY <1>1 DEF vars, TypeOK, Attempts, Requests, ChargesOwned, RowsKept
<1>2. CASE Next
  BY <1>2, TypeAccept, TypeFinishRequest, TypeStartAttempt, TypeFinishAttempt,
     TypeDecisionLiability, TypeUnknownCosts, TypeLimits, TypeRecovery, TypeTick
     DEF Next
<1> QED BY <1>1, <1>2

(* Every reachable state of the ledger is well typed: no sequence of       *)
(* dispatches, replays, late meters, waivers, operator assignments and     *)
(* restarts takes a counter below zero or an amount past the column range. *)
THEOREM TypeCorrect == Spec => []TypeOK
<1>1. Init => TypeOK /\ ChargesOwned
  BY TypeInit DEF Init, ChargesOwned
<1>2. TypeOK /\ ChargesOwned /\ [Next]_vars => (TypeOK /\ ChargesOwned)'
  BY TypeStep
<1> QED BY <1>1, <1>2, PTL DEF Spec
-----------------------------------------------------------------------------
(* Conservation of the counters. *)

Charges == [AttemptIds -> ChargeRow \cup {NULL}]
Unknowns(c) == IF IsUnknown(c) THEN 1 ELSE 0

(* The amounts a charge row contributes.                                   *)
LEMMA ContributionTypes ==
    ASSUME NEW c \in ChargeRow \cup {NULL}
    PROVE  ReservedOf(c) \in Nano /\ SettledOf(c) \in Nano
BY BoundAssumption, NullAssumption
   DEF ReservedOf, SettledOf, ChargeRow, NanoOrNull, Nano

LEMMA TotalsNat ==
    ASSUME NEW charges
    PROVE  /\ ReservedTotal(charges) \in Nat /\ SettledTotal(charges) \in Nat
           /\ Cardinality(UnknownSet(charges)) \in Nat
BY UnitsFinite, UnknownFinite DEF ReservedTotal, SettledTotal

(* Writing one charge row moves each sum by what that row contributes.     *)
LEMMA ChargeUpdate ==
    ASSUME NEW old \in Charges, NEW new \in Charges, NEW a \in AttemptIds,
           \A x \in AttemptIds \ {a} : new[x] = old[x]
    PROVE  /\ ReservedTotal(new) =
                ReservedTotal(old) - ReservedOf(old[a]) + ReservedOf(new[a])
           /\ SettledTotal(new) =
                SettledTotal(old) - SettledOf(old[a]) + SettledOf(new[a])
           /\ Cardinality(UnknownSet(new)) =
                Cardinality(UnknownSet(old)) - Unknowns(old[a]) + Unknowns(new[a])
<1>1. Cardinality({a}) = 1 /\ {a} \in SUBSET AttemptIds
  BY FS_Singleton
<1>2. /\ old[a] \in ChargeRow \cup {NULL} /\ new[a] \in ChargeRow \cup {NULL}
      /\ ReservedOf(old[a]) \in Nano /\ ReservedOf(new[a]) \in Nano
      /\ SettledOf(old[a]) \in Nano /\ SettledOf(new[a]) \in Nano
  BY ContributionTypes DEF Charges
<1>3. ReservedTotal(new) = ReservedTotal(old) - ReservedOf(old[a]) + ReservedOf(new[a])
  <2> DEFINE f == [x \in AttemptIds |-> ReservedOf(old[x])]
             g == [x \in AttemptIds |-> ReservedOf(new[x])]
  <2>1. f \in [AttemptIds -> Nano] /\ g \in [AttemptIds -> Nano]
    BY ContributionTypes DEF Charges
  <2>2. /\ \A x \in {a} : f[x] = ReservedOf(old[a]) /\ g[x] = ReservedOf(new[a])
        /\ \A x \in AttemptIds \ {a} : f[x] = g[x]
    OBVIOUS
  <2>3. Total(f) \in Nat
    BY UnitsFinite
  <2>4. ReservedTotal(new) = Total(g) /\ ReservedTotal(old) = Total(f)
    BY DEF ReservedTotal
  <2> HIDE DEF f, g
  <2>5. Total(g) = Total(f) - Cardinality({a}) * ReservedOf(old[a])
                            + Cardinality({a}) * ReservedOf(new[a])
    BY <1>1, <1>2, <2>1, <2>2, TotalUpdate
  <2> QED BY <1>1, <1>2, <2>3, <2>4, <2>5 DEF Nano
<1>4. SettledTotal(new) = SettledTotal(old) - SettledOf(old[a]) + SettledOf(new[a])
  <2> DEFINE f == [x \in AttemptIds |-> SettledOf(old[x])]
             g == [x \in AttemptIds |-> SettledOf(new[x])]
  <2>1. f \in [AttemptIds -> Nano] /\ g \in [AttemptIds -> Nano]
    BY ContributionTypes DEF Charges
  <2>2. /\ \A x \in {a} : f[x] = SettledOf(old[a]) /\ g[x] = SettledOf(new[a])
        /\ \A x \in AttemptIds \ {a} : f[x] = g[x]
    OBVIOUS
  <2>3. Total(f) \in Nat
    BY UnitsFinite
  <2>4. SettledTotal(new) = Total(g) /\ SettledTotal(old) = Total(f)
    BY DEF SettledTotal
  <2> HIDE DEF f, g
  <2>5. Total(g) = Total(f) - Cardinality({a}) * SettledOf(old[a])
                            + Cardinality({a}) * SettledOf(new[a])
    BY <1>1, <1>2, <2>1, <2>2, TotalUpdate
  <2> QED BY <1>1, <1>2, <2>3, <2>4, <2>5 DEF Nano
<1>5. Cardinality(UnknownSet(new)) =
        Cardinality(UnknownSet(old)) - Unknowns(old[a]) + Unknowns(new[a])
  <2> DEFINE base == UnknownSet(old) \ {a}
  <2>1. /\ IsFiniteSet(UnknownSet(old)) /\ Cardinality(UnknownSet(old)) \in Nat
    BY UnknownFinite
  <2>2. /\ IsFiniteSet(base)
        /\ Cardinality(base) = IF a \in UnknownSet(old)
             THEN Cardinality(UnknownSet(old)) - 1 ELSE Cardinality(UnknownSet(old))
    BY <2>1, FS_RemoveElement
  <2>3. UnknownSet(new) = IF IsUnknown(new[a]) THEN base \cup {a} ELSE base
    BY DEF UnknownSet
  <2>4. a \in UnknownSet(old) <=> IsUnknown(old[a])
    BY DEF UnknownSet
  <2>5. a \notin base
    OBVIOUS
  <2> HIDE DEF base
  <2>6. Cardinality(base \cup {a}) = Cardinality(base) + 1
    BY <2>2, <2>5, FS_AddElement
  <2> QED BY <2>1, <2>2, <2>3, <2>4, <2>6 DEF Unknowns
<1> QED BY <1>3, <1>4, <1>5

Matches(row, charges) ==
    /\ row.reserved = ReservedTotal(charges)
    /\ row.settled = SettledTotal(charges)
    /\ row.unknown = Cardinality(UnknownSet(charges))

(* Writing c for attempt a changes a matching row's counters by the        *)
(* difference of the contributions.                                        *)
LEMMA MatchesUpdate ==
    ASSUME NEW row \in BudgetRow, NEW row2 \in BudgetRow, NEW old \in Charges,
           NEW a \in AttemptIds, NEW c \in ChargeRow, Matches(row, old),
           row2.reserved = row.reserved - ReservedOf(old[a]) + ReservedOf(c),
           row2.settled = row.settled - SettledOf(old[a]) + SettledOf(c),
           row2.unknown = row.unknown - Unknowns(old[a]) + Unknowns(c)
    PROVE  Matches(row2, [old EXCEPT ![a] = c])
<1> DEFINE new == [old EXCEPT ![a] = c]
<1>1. new \in Charges /\ new[a] = c /\ \A x \in AttemptIds \ {a} : new[x] = old[x]
  BY DEF Charges
<1> HIDE DEF new
<1>2. /\ ReservedTotal(new) = ReservedTotal(old) - ReservedOf(old[a]) + ReservedOf(c)
      /\ SettledTotal(new) = SettledTotal(old) - SettledOf(old[a]) + SettledOf(c)
      /\ Cardinality(UnknownSet(new)) =
            Cardinality(UnknownSet(old)) - Unknowns(old[a]) + Unknowns(c)
  BY <1>1, ChargeUpdate
<1> QED BY <1>2 DEF Matches, new

LEMMA SettleRowMatches ==
    ASSUME NEW row \in BudgetRow, NEW old \in Charges, NEW a \in AttemptIds,
           NEW amount \in Nano, old[a] # NULL, old[a].settled = NULL,
           CanSettle(row, old[a], amount), Matches(row, old)
    PROVE  Matches(SettleRow(row, old[a], amount),
                   [old EXCEPT ![a] = [old[a] EXCEPT !.settled = amount]])
<1> DEFINE c == [old[a] EXCEPT !.settled = amount]
           row2 == SettleRow(row, old[a], amount)
<1>1. old[a] \in ChargeRow
  BY DEF Charges
<1>2. c \in ChargeRow /\ c.settled = amount /\ c.reserved = old[a].reserved
  BY <1>1 DEF ChargeRow, NanoOrNull
<1>3. amount # NULL /\ amount \in Int
  BY NullAssumption, BoundAssumption DEF Nano
<1>4. row2 \in BudgetRow
  BY <1>1, SettleRowType
<1>5. ReservedOf(c) = 0 /\ SettledOf(c) = amount /\ Unknowns(c) = 0
  BY <1>2, <1>3, NullAssumption DEF ReservedOf, SettledOf, Unknowns, IsUnknown
<1>6. CASE old[a].reserved = NULL
  <2>1. ReservedOf(old[a]) = 0 /\ SettledOf(old[a]) = 0 /\ Unknowns(old[a]) = 1
    BY <1>6 DEF ReservedOf, SettledOf, Unknowns, IsUnknown
  <2>2. /\ row2.reserved = row.reserved /\ row2.settled = row.settled + amount
        /\ row2.unknown = row.unknown - 1
    BY <1>6 DEF SettleRow, BudgetRow
  <2>3. row.reserved \in Int /\ row.settled \in Int /\ row.unknown \in Int
    BY BoundAssumption DEF BudgetRow, Nano
  <2> HIDE DEF c, row2
  <2>4. /\ row2.reserved = row.reserved - ReservedOf(old[a]) + ReservedOf(c)
        /\ row2.settled = row.settled - SettledOf(old[a]) + SettledOf(c)
        /\ row2.unknown = row.unknown - Unknowns(old[a]) + Unknowns(c)
    BY <1>3, <1>5, <2>1, <2>2, <2>3
  <2>5. Matches(row2, [old EXCEPT ![a] = c])
    BY <1>2, <1>4, <2>4, MatchesUpdate
  <2> QED BY <2>5 DEF c, row2
<1>7. CASE old[a].reserved # NULL
  <2>1. /\ ReservedOf(old[a]) = old[a].reserved /\ SettledOf(old[a]) = 0
        /\ Unknowns(old[a]) = 0
    BY <1>7 DEF ReservedOf, SettledOf, Unknowns, IsUnknown
  <2>2. /\ row2.reserved = row.reserved - old[a].reserved
        /\ row2.settled = row.settled + amount /\ row2.unknown = row.unknown
    BY <1>7 DEF SettleRow, BudgetRow
  <2>3. /\ row.reserved \in Int /\ row.settled \in Int /\ row.unknown \in Int
        /\ old[a].reserved \in Int
    BY <1>1, <1>7, BoundAssumption DEF BudgetRow, ChargeRow, NanoOrNull, Nano
  <2> HIDE DEF c, row2
  <2>4. /\ row2.reserved = row.reserved - ReservedOf(old[a]) + ReservedOf(c)
        /\ row2.settled = row.settled - SettledOf(old[a]) + SettledOf(c)
        /\ row2.unknown = row.unknown - Unknowns(old[a]) + Unknowns(c)
    BY <1>3, <1>5, <2>1, <2>2, <2>3
  <2>5. Matches(row2, [old EXCEPT ![a] = c])
    BY <1>2, <1>4, <2>4, MatchesUpdate
  <2> QED BY <2>5 DEF c, row2
<1> QED BY <1>6, <1>7

LEMMA SwapRowMatches ==
    ASSUME NEW row \in BudgetRow, NEW old \in Charges, NEW a \in AttemptIds,
           NEW previous \in Nano, NEW amount \in NanoOrNull,
           old[a] # NULL, old[a].settled = previous,
           CanSwap(row, old[a], previous, amount), Matches(row, old)
    PROVE  Matches(SwapRow(row, old[a], previous, amount),
                   [old EXCEPT ![a] = [old[a] EXCEPT !.settled = amount]])
<1> DEFINE c == [old[a] EXCEPT !.settled = amount]
           row2 == SwapRow(row, old[a], previous, amount)
<1>1. old[a] \in ChargeRow
  BY DEF Charges
<1>2. c \in ChargeRow /\ c.settled = amount /\ c.reserved = old[a].reserved /\ c # NULL
  BY <1>1, NullAssumption DEF ChargeRow
<1>3. previous # NULL /\ previous \in Int
  BY NullAssumption, BoundAssumption DEF Nano
<1>4. row2 \in BudgetRow
  BY <1>1, SwapRowType
<1>5. ReservedOf(old[a]) = 0 /\ SettledOf(old[a]) = previous /\ Unknowns(old[a]) = 0
  BY <1>3 DEF ReservedOf, SettledOf, Unknowns, IsUnknown
<1>6. row.reserved \in Int /\ row.settled \in Int /\ row.unknown \in Int
  BY BoundAssumption DEF BudgetRow, Nano
<1>7. /\ row2.reserved = row.reserved - ReservedOf(old[a]) + ReservedOf(c)
      /\ row2.settled = row.settled - SettledOf(old[a]) + SettledOf(c)
      /\ row2.unknown = row.unknown - Unknowns(old[a]) + Unknowns(c)
  <2>1. CASE amount # NULL
    <3>1. ReservedOf(c) = 0 /\ SettledOf(c) = amount /\ Unknowns(c) = 0
      BY <1>2, <2>1 DEF ReservedOf, SettledOf, Unknowns, IsUnknown
    <3>2. /\ row2.reserved = row.reserved /\ row2.unknown = row.unknown
          /\ row2.settled = row.settled - previous + amount
      BY <2>1 DEF SwapRow, BudgetRow
    <3> HIDE DEF c, row2
    <3> QED BY <1>3, <1>5, <1>6, <3>1, <3>2
  <2>2. CASE amount = NULL /\ old[a].reserved = NULL
    <3>1. ReservedOf(c) = 0 /\ SettledOf(c) = 0 /\ Unknowns(c) = 1
      BY <1>2, <2>2 DEF ReservedOf, SettledOf, Unknowns, IsUnknown
    <3>2. /\ row2.reserved = row.reserved /\ row2.unknown = row.unknown + 1
          /\ row2.settled = row.settled - previous
      BY <2>2 DEF SwapRow, BudgetRow
    <3> HIDE DEF c, row2
    <3> QED BY <1>3, <1>5, <1>6, <3>1, <3>2
  <2>3. CASE amount = NULL /\ old[a].reserved # NULL
    <3>1. ReservedOf(c) = old[a].reserved /\ SettledOf(c) = 0 /\ Unknowns(c) = 0
      BY <1>2, <2>3 DEF ReservedOf, SettledOf, Unknowns, IsUnknown
    <3>2. /\ row2.reserved = row.reserved + old[a].reserved
          /\ row2.unknown = row.unknown /\ row2.settled = row.settled - previous
      BY <2>3 DEF SwapRow, BudgetRow
    <3>3. old[a].reserved \in Int
      BY <1>1, <2>3, BoundAssumption DEF ChargeRow, NanoOrNull, Nano
    <3> HIDE DEF c, row2
    <3> QED BY <1>3, <1>5, <1>6, <3>1, <3>2, <3>3
  <2> QED BY <2>1, <2>2, <2>3
<1> HIDE DEF c, row2
<1>8. Matches(row2, [old EXCEPT ![a] = c])
  BY <1>2, <1>4, <1>7, MatchesUpdate
<1> QED BY <1>8 DEF c, row2

LEMMA ConservedAsMatches ==
    CountersConserved <=> \A b \in BudgetIds : budget[b] # NULL => Matches(budget[b], charge[b])
BY DEF CountersConserved, Matches

LEMMA ConservedAfter ==
    ASSUME \A b \in BudgetIds : budget'[b] # NULL => Matches(budget'[b], charge'[b])
    PROVE  CountersConserved'
BY DEF CountersConserved, Matches, ReservedTotal, SettledTotal, UnknownSet

LEMMA SettleConserves ==
    ASSUME TypeOK, ChargesOwned, CountersConserved, NEW a \in AttemptIds,
           NEW amount \in NanoOrNull, SettleAttemptBudgets(a, amount)
    PROVE  CountersConserved'
<1> SUFFICES ASSUME NEW b \in BudgetIds, budget'[b] # NULL
             PROVE  Matches(budget'[b], charge'[b])
  BY ConservedAfter
<1> DEFINE open == {d \in BudgetIds : amount # NULL /\ Held(d, a)}
<1>1. CASE b \in open
  <2>1. /\ amount \in Nano /\ charge[b] \in Charges /\ charge[b][a] # NULL
        /\ charge[b][a].settled = NULL /\ budget[b] \in BudgetRow
        /\ CanSettle(budget[b], charge[b][a], amount)
    BY <1>1, RowTypes DEF SettleAttemptBudgets, TypeOK, ChargesOwned, Held, NanoOrNull, Charges
  <2>2. Matches(budget[b], charge[b])
    BY <2>1, ConservedAsMatches, NullAssumption
  <2>3. /\ budget'[b] = SettleRow(budget[b], charge[b][a], amount)
        /\ charge'[b] = [charge[b] EXCEPT ![a] = [charge[b][a] EXCEPT !.settled = amount]]
    BY <1>1 DEF SettleAttemptBudgets
  <2> QED BY <2>1, <2>2, <2>3, SettleRowMatches
<1>2. CASE b \notin open
  <2>1. budget'[b] = budget[b] /\ charge'[b] = charge[b]
    BY <1>2 DEF SettleAttemptBudgets
  <2> QED BY <2>1, ConservedAsMatches
<1> QED BY <1>1, <1>2

LEMMA ReplaceConserves ==
    ASSUME TypeOK, ChargesOwned, CountersConserved, NEW a \in AttemptIds,
           NEW previous \in NanoOrNull, NEW amount \in NanoOrNull,
           ReplaceBudgetCharges(a, previous, amount)
    PROVE  CountersConserved'
<1> SUFFICES ASSUME NEW b \in BudgetIds, budget'[b] # NULL
             PROVE  Matches(budget'[b], charge'[b])
  BY ConservedAfter
<1> DEFINE swapped == {d \in BudgetIds : Automatic(d, a, previous) /\ previous # amount}
           open == {d \in BudgetIds : amount # NULL /\ Held(d, a)}
<1>1. CASE b \in swapped
  <2>1. /\ previous \in Nano /\ charge[b] \in Charges /\ charge[b][a] # NULL
        /\ charge[b][a].settled = previous /\ budget[b] \in BudgetRow
        /\ CanSwap(budget[b], charge[b][a], previous, amount)
    BY <1>1, RowTypes
       DEF ReplaceBudgetCharges, TypeOK, ChargesOwned, Automatic, NanoOrNull, Charges
  <2>2. Matches(budget[b], charge[b])
    BY <2>1, ConservedAsMatches, NullAssumption
  <2>3. /\ budget'[b] = SwapRow(budget[b], charge[b][a], previous, amount)
        /\ charge'[b] = [charge[b] EXCEPT ![a] = [charge[b][a] EXCEPT !.settled = amount]]
    <3>1. b \notin open
      BY <1>1 DEF Held, Automatic
    <3> QED BY <1>1, <3>1 DEF ReplaceBudgetCharges
  <2> QED BY <2>1, <2>2, <2>3, SwapRowMatches
<1>2. CASE b \in open
  <2>1. /\ amount \in Nano /\ charge[b] \in Charges /\ charge[b][a] # NULL
        /\ charge[b][a].settled = NULL /\ budget[b] \in BudgetRow
        /\ CanSettle(budget[b], charge[b][a], amount)
    BY <1>2, RowTypes DEF ReplaceBudgetCharges, TypeOK, ChargesOwned, Held, NanoOrNull, Charges
  <2>2. Matches(budget[b], charge[b])
    BY <2>1, ConservedAsMatches, NullAssumption
  <2>3. /\ budget'[b] = SettleRow(budget[b], charge[b][a], amount)
        /\ charge'[b] = [charge[b] EXCEPT ![a] = [charge[b][a] EXCEPT !.settled = amount]]
    <3>1. b \notin swapped
      BY <1>2 DEF Held, Automatic
    <3> QED BY <1>2, <3>1 DEF ReplaceBudgetCharges
  <2> QED BY <2>1, <2>2, <2>3, SettleRowMatches
<1>3. CASE b \notin swapped \cup open
  <2>1. budget'[b] = budget[b] /\ charge'[b] = charge[b]
    BY <1>3 DEF ReplaceBudgetCharges
  <2> QED BY <2>1, ConservedAsMatches
<1> QED BY <1>1, <1>2, <1>3

LEMMA StartConserves ==
    ASSUME TypeOK, ChargesOwned, CountersConserved, NEW a \in AttemptIds,
           NEW r \in Requests, NEW rung \in request[r].auth.rungs,
           NEW ordinal \in Ordinals, NEW cost \in Costs, NEW tierCard \in TierCards,
           StartAttempt(a, r, rung, ordinal, cost, tierCard)
    PROVE  CountersConserved'
<1> SUFFICES ASSUME NEW b \in BudgetIds, budget'[b] # NULL
             PROVE  Matches(budget'[b], charge'[b])
  BY ConservedAfter
<1> DEFINE c == [reserved |-> cost, settled |-> NULL]
           row2 == Reserve(budget[b], cost)
           charged == budget[b] # NULL /\ Applicable(b, request[r].auth, rung, Period(now))
<1>1. CASE ~charged
  <2>1. budget'[b] = budget[b] /\ charge'[b] = charge[b]
    BY <1>1 DEF StartAttempt
  <2> QED BY <2>1, ConservedAsMatches
<1>2. CASE charged
  <2>1. budget'[b] = row2 /\ charge'[b] = [charge[b] EXCEPT ![a] = c]
    BY <1>2 DEF StartAttempt
  <2>2. /\ charge[b] \in Charges /\ charge[b][a] = NULL /\ budget[b] \in BudgetRow
    BY <1>2, RowTypes DEF StartAttempt, TypeOK, ChargesOwned, Charges, Attempts
  <2>3. Matches(budget[b], charge[b])
    BY <1>2, ConservedAsMatches
  <2>4. cost \in NanoOrNull /\ c \in ChargeRow /\ c # NULL
    BY InputAssumption, NullAssumption DEF ChargeRow, NanoOrNull
  <2>5. /\ ReservedOf(charge[b][a]) = 0 /\ SettledOf(charge[b][a]) = 0
        /\ Unknowns(charge[b][a]) = 0
    BY <2>2 DEF ReservedOf, SettledOf, Unknowns, IsUnknown
  <2>6. budget[b].reserved \in Int /\ budget[b].settled \in Int /\ budget[b].unknown \in Int
    BY <2>2, BoundAssumption DEF BudgetRow, Nano
  <2>7. row2 \in BudgetRow /\ row2.settled = budget[b].settled
    BY <2>2, <2>4, BoundAssumption DEF Reserve, BudgetRow, NanoOrNull, Nano
  <2>8. /\ row2.reserved = budget[b].reserved - ReservedOf(charge[b][a]) + ReservedOf(c)
        /\ row2.settled = budget[b].settled - SettledOf(charge[b][a]) + SettledOf(c)
        /\ row2.unknown = budget[b].unknown - Unknowns(charge[b][a]) + Unknowns(c)
    <3>1. CASE cost = NULL
      <4>1. ReservedOf(c) = 0 /\ SettledOf(c) = 0 /\ Unknowns(c) = 1
        BY <2>4, <3>1 DEF ReservedOf, SettledOf, Unknowns, IsUnknown
      <4>2. row2.reserved = budget[b].reserved /\ row2.unknown = budget[b].unknown + 1
        BY <2>2, <3>1 DEF Reserve, BudgetRow
      <4> HIDE DEF c, row2
      <4> QED BY <2>5, <2>6, <2>7, <4>1, <4>2
    <3>2. CASE cost # NULL
      <4>1. ReservedOf(c) = cost /\ SettledOf(c) = 0 /\ Unknowns(c) = 0 /\ cost \in Int
        BY <2>4, <3>2, BoundAssumption
           DEF ReservedOf, SettledOf, Unknowns, IsUnknown, NanoOrNull, Nano
      <4>2. row2.reserved = budget[b].reserved + cost /\ row2.unknown = budget[b].unknown
        BY <2>2, <3>2 DEF Reserve, BudgetRow
      <4> HIDE DEF c, row2
      <4> QED BY <2>5, <2>6, <2>7, <4>1, <4>2
    <3> QED BY <3>1, <3>2
  <2> HIDE DEF c, row2
  <2> QED BY <2>1, <2>2, <2>3, <2>4, <2>7, <2>8, MatchesUpdate
<1> QED BY <1>1, <1>2

(* An operator's assignment settles every unknown charge of one limit at   *)
(* the same amount: the settled counter grows by amount times their number.*)
LEMMA UnknownConserves ==
    ASSUME TypeOK, ChargesOwned, CountersConserved, NEW b \in BudgetIds,
           NEW amount \in Amounts, ReconcileUnknownCosts(b, amount)
    PROVE  CountersConserved'
<1> DEFINE unknown == UnknownSet(charge[b])
           n == Cardinality(unknown)
           added == amount * n
           old == charge[b]
           new == [a \in AttemptIds |->
                    IF a \in unknown THEN [old[a] EXCEPT !.settled = amount] ELSE old[a]]
           row2 == [budget[b] EXCEPT !.unknown = @ - n, !.settled = @ + added]
<1>1. /\ budget' = [budget EXCEPT ![b] = row2] /\ charge' = [charge EXCEPT ![b] = new]
      /\ budget[b] # NULL
  BY DEF ReconcileUnknownCosts
<1>2. /\ old \in Charges /\ budget[b] \in BudgetRow /\ Matches(budget[b], old)
  BY <1>1, RowTypes, ConservedAsMatches DEF TypeOK, Charges
<1>3. /\ amount \in Nano /\ amount # NULL /\ amount \in Int /\ n \in Nat
      /\ unknown \in SUBSET AttemptIds
  <2>1. amount \in Nano /\ amount # NULL /\ amount \in Int
    BY InputAssumption, NullAssumption, BoundAssumption DEF Amounts, NanoOrNull, Nano
  <2>2. n \in Nat
    BY UnknownFinite
  <2>3. unknown \in SUBSET AttemptIds
    BY DEF UnknownSet
  <2> QED BY <2>1, <2>2, <2>3
<1>4. \A a \in unknown : /\ old[a] \in ChargeRow /\ old[a] # NULL
                         /\ old[a].settled = NULL /\ old[a].reserved = NULL
  BY <1>2 DEF UnknownSet, IsUnknown, Charges
<1>5. \A a \in unknown : /\ new[a] \in ChargeRow /\ new[a] # NULL
                         /\ new[a].settled = amount /\ new[a].reserved = NULL
  BY <1>3, <1>4, NullAssumption DEF ChargeRow, NanoOrNull
<1>6. \A a \in AttemptIds \ unknown : new[a] = old[a]
  OBVIOUS
<1>7. new \in Charges
  BY <1>2, <1>5, <1>6 DEF Charges
<1> HIDE DEF new, unknown, old
<1>8. ReservedTotal(new) = ReservedTotal(old)
  <2>1. \A a \in AttemptIds : ReservedOf(new[a]) = ReservedOf(old[a])
    BY <1>4, <1>5, <1>6 DEF ReservedOf
  <2> QED BY <2>1 DEF ReservedTotal
<1>9. SettledTotal(new) = SettledTotal(old) + added
  <2> DEFINE f == [a \in AttemptIds |-> SettledOf(old[a])]
             g == [a \in AttemptIds |-> SettledOf(new[a])]
  <2>1. f \in [AttemptIds -> Nano] /\ g \in [AttemptIds -> Nano]
    BY <1>2, <1>7, ContributionTypes DEF Charges
  <2>2. /\ \A a \in unknown : f[a] = 0 /\ g[a] = amount
        /\ \A a \in AttemptIds \ unknown : f[a] = g[a]
    BY <1>3, <1>4, <1>5, <1>6 DEF SettledOf
  <2>3. 0 \in Nano /\ Total(f) \in Nat
    BY BoundAssumption, UnitsFinite DEF Nano
  <2>4. SettledTotal(new) = Total(g) /\ SettledTotal(old) = Total(f)
    BY DEF SettledTotal
  <2> HIDE DEF f, g
  <2>5. Total(g) = Total(f) - n * 0 + n * amount
    BY <1>3, <2>1, <2>2, <2>3, TotalUpdate
  <2>6. n * 0 = 0 /\ n * amount = added /\ added \in Int
    BY <1>3
  <2> HIDE DEF added, n
  <2> QED BY <2>3, <2>4, <2>5, <2>6
<1>10. Cardinality(UnknownSet(new)) = 0
  <2>1. UnknownSet(new) = {}
    BY <1>3, <1>5, <1>6 DEF UnknownSet, IsUnknown, unknown, old
  <2> QED BY <2>1, FS_EmptySet
<1>11. Matches(row2, new)
  <2>1. /\ row2.reserved = budget[b].reserved /\ row2.settled = budget[b].settled + added
        /\ row2.unknown = budget[b].unknown - n
    <3> HIDE DEF added, n
    <3> QED BY <1>2 DEF BudgetRow
  <2>2. budget[b].unknown = n
    BY <1>2 DEF Matches, unknown, old
  <2>3. row2.unknown = 0
    BY <1>3, <2>1, <2>2
  <2> HIDE DEF row2, added, n
  <2> QED BY <1>2, <1>8, <1>9, <1>10, <2>1, <2>3 DEF Matches
<1>12. ASSUME NEW d \in BudgetIds, budget'[d] # NULL
       PROVE  Matches(budget'[d], charge'[d])
  <2> HIDE DEF row2
  <2>1. CASE d = b
    BY <1>1, <1>11, <2>1 DEF TypeOK
  <2>2. CASE d # b
    BY <1>1, <1>12, <2>2, ConservedAsMatches DEF TypeOK
  <2> QED BY <2>1, <2>2
<1> QED BY <1>12, ConservedAfter

(* A new limit materializes its counters from the rows it adopts.          *)
LEMMA LimitConserves ==
    ASSUME TypeOK, CountersConserved, NEW b \in BudgetIds, NEW limit \in Limits,
           NEW strict \in Strictness,
           CreateLimit(b, limit, strict) \/ ReplaceLimit(b, limit, strict)
    PROVE  CountersConserved'
<1> SUFFICES ASSUME NEW d \in BudgetIds, budget'[d] # NULL
             PROVE  Matches(budget'[d], charge'[d])
  BY ConservedAfter
<1>1. CASE CreateLimit(b, limit, strict)
  <2>1. CASE d = b
    BY <1>1, <2>1 DEF CreateLimit, TypeOK, Matches
  <2>2. CASE d # b
    BY <1>1, <2>2, ConservedAsMatches DEF CreateLimit, TypeOK
  <2> QED BY <2>1, <2>2
<1>2. CASE ReplaceLimit(b, limit, strict)
  <2>1. charge' = charge
    BY <1>2 DEF ReplaceLimit
  <2>2. CASE d = b
    <3>1. /\ budget[b] \in BudgetRow
          /\ budget'[b] = [budget[b] EXCEPT !.limit = limit, !.strict = strict]
      BY <1>2, RowTypes DEF ReplaceLimit, TypeOK
    <3>2. /\ budget'[b].reserved = budget[b].reserved
          /\ budget'[b].settled = budget[b].settled
          /\ budget'[b].unknown = budget[b].unknown
      BY <3>1 DEF BudgetRow
    <3>3. Matches(budget[b], charge[b])
      BY <1>2, ConservedAsMatches DEF ReplaceLimit
    <3> QED BY <2>1, <2>2, <3>2, <3>3 DEF Matches
  <2>3. CASE d # b
    BY <1>2, <2>1, <2>3, ConservedAsMatches DEF ReplaceLimit, TypeOK
  <2> QED BY <2>2, <2>3
<1> QED BY <1>1, <1>2

LEMMA FinishConserves ==
    ASSUME TypeOK, ChargesOwned, CountersConserved, NEW a \in AttemptIds,
           NEW t \in Reports, NEW receipt \in Receipts, NEW finalize \in BOOLEAN,
           FinishAttempt(a, t, receipt, finalize)
    PROVE  CountersConserved'
<1>1. a \in Attempts /\ attempt[a] \in AttemptRow /\ 0 \in NanoOrNull
  BY RowTypes, BoundAssumption DEF FinishAttempt, NanoOrNull, Nano
<1>2. CASE SettleDispatched(a, t, receipt, finalize)
  <2> DEFINE tier == SettledTier(attempt[a], receipt)
             cost == ReportCost(attempt[a], tier, t)
             settlement == IF t.guardrail \/ t.release THEN 0
                           ELSE BudgetSettlement(a, tier, cost, t)
  <2>1. tier \in Tiers \cup {NULL} /\ (Confirmed(tier) => attempt[a].admission # NULL)
    BY <1>1, SettledTierType, InputAssumption
  <2>2. settlement \in NanoOrNull
    BY <1>1, <2>1, CostTypes, SettlementTypes
  <2>3. SettleAttemptBudgets(a, settlement)
    BY <1>2 DEF SettleDispatched
  <2> QED BY <2>2, <2>3, SettleConserves
<1>3. CASE WaiveTerminal(a, t)
  BY <1>1, <1>3, ReplaceConserves DEF WaiveTerminal, AttemptRow
<1>4. CASE LateMeter(a, t, receipt)
  <2> DEFINE row == attempt[a]
             tier == SettledTier(row, IF receipt = NULL THEN row.tier ELSE receipt)
             cost == ReportCost(row, tier, t)
             settlement == IF ExplicitCharge(a) THEN row.settled
                           ELSE IF t.guardrail THEN 0
                           ELSE BudgetSettlement(a, tier, cost, t)
  <2>1. (IF receipt = NULL THEN row.tier ELSE receipt) \in Tiers \cup {NULL}
    BY <1>1, InputAssumption DEF AttemptRow
  <2>2. tier \in Tiers \cup {NULL} /\ (Confirmed(tier) => row.admission # NULL)
    BY <1>1, <2>1, SettledTierType
  <2>3. settlement \in NanoOrNull /\ row.settled \in NanoOrNull
    BY <1>1, <2>2, CostTypes, SettlementTypes DEF AttemptRow
  <2>4. ReplaceBudgetCharges(a, row.settled, settlement)
    BY <1>4 DEF LateMeter, UpgradeObserved
  <2> QED BY <2>3, <2>4, ReplaceConserves
<1>5. CASE RetainTierReceipt(a, t, receipt)
  BY <1>5 DEF RetainTierReceipt, CountersConserved
<1>6. CASE ReconcileTierReceipt(a, t, receipt)
  <2>1. TierCost(attempt[a], receipt, t) \in NanoOrNull
    BY <1>1, <1>6, CostTypes, InputAssumption DEF ReconcileTierReceipt
  <2> QED BY <1>6, <2>1, SettleConserves DEF ReconcileTierReceipt
<1> QED BY <1>2, <1>3, <1>4, <1>5, <1>6 DEF FinishAttempt

LEMMA ConservedStep ==
    ASSUME TypeOK, ChargesOwned, CountersConserved, [Next]_vars
    PROVE  CountersConserved'
<1>1. CASE UNCHANGED <<budget, charge>>
  BY <1>1 DEF CountersConserved
<1>2. ASSUME NEW a \in AttemptIds, NEW amount \in Amounts,
             ReconcileDecisionLiability(a, amount)
      PROVE  CountersConserved'
  BY <1>2, SettleConserves, InputAssumption DEF ReconcileDecisionLiability, Amounts
<1>3. CASE UNCHANGED vars
  BY <1>1, <1>3 DEF vars
<1>4. CASE Next
  BY <1>1, <1>2, <1>4, StartConserves, FinishConserves, UnknownConserves, LimitConserves
     DEF Next, AcceptRequest, FinishRequest, ReconcileCrashedRequests, Tick
<1> QED BY <1>3, <1>4

(* The counters of every monthly limit equal the sums over its charge rows *)
(* in every reachable state, for any number of attempts, limits and months:*)
(* the "monthly budget counters are inconsistent" errors are unreachable   *)
(* and no nano-USD is created or lost by a late meter, waiver or backfill. *)
THEOREM CountersCorrect == Spec => []CountersConserved
<1>1. Init => TypeOK /\ ChargesOwned /\ CountersConserved
  BY TypeInit DEF Init, ChargesOwned, CountersConserved
<1>2. TypeOK /\ ChargesOwned /\ CountersConserved /\ [Next]_vars
        => (TypeOK /\ ChargesOwned /\ CountersConserved)'
  BY TypeStep, ConservedStep
<1> QED BY <1>1, <1>2, PTL DEF Spec

-----------------------------------------------------------------------------
(* Part two: rows and money. *)

(* An attempt keeps its request, lane, reservation and month, and a        *)
(* terminal state is final.                                                *)
AttemptsAdvance ==
    \A a \in AttemptIds : attempt[a] # NULL =>
        /\ attempt'[a].request = attempt[a].request
        /\ attempt'[a].rung = attempt[a].rung
        /\ attempt'[a].reserved = attempt[a].reserved
        /\ attempt'[a].period = attempt[a].period
        /\ attempt[a].state # "dispatched" => attempt'[a].state = attempt[a].state

(* A request keeps its frozen authority, and a terminal one every column.  *)
RequestsAdvance ==
    \A r \in RequestIds : request[r] # NULL =>
        /\ request'[r].auth = request[r].auth
        /\ request[r].terminal # NULL => request'[r] = request[r]

(* A new attempt joins an open request.                                    *)
DispatchesOpen ==
    \A a \in AttemptIds : attempt[a] = NULL /\ attempt'[a] # NULL =>
        /\ attempt'[a].request \in Requests
        /\ request[attempt'[a].request].terminal = NULL

(* A certificate is carried over, or issued with its conditions.           *)
CertificateIssued ==
    \A r \in RequestIds : request'[r] # NULL /\ request'[r].certified =>
        \/ request[r] # NULL /\ request[r].certified
        \/ /\ request'[r].terminal = "failed" /\ request'[r].auth.direct
           /\ request'[r].searches = 0 /\ AttemptsOf(r) = {}
           /\ attempt' = attempt

RowStep ==
    AttemptsAdvance /\ RequestsAdvance /\ DispatchesOpen /\ CertificateIssued

LEMMA UntouchedRows ==
    ASSUME UNCHANGED <<request, attempt>>
    PROVE  RowStep
BY DEF RowStep, AttemptsAdvance, RequestsAdvance, DispatchesOpen, CertificateIssued

LEMMA AcceptRows ==
    ASSUME TypeOK, NEW r \in RequestIds, NEW auth \in Authorizations,
           NEW window \in Windows, AcceptRequest(r, auth, window)
    PROVE  RowStep
<1>1. /\ attempt' = attempt /\ request[r] = NULL
      /\ \A q \in RequestIds \ {r} : request'[q] = request[q]
      /\ request'[r].certified = FALSE
  BY DEF AcceptRequest, TypeOK, Requests
<1> QED BY <1>1 DEF RowStep, AttemptsAdvance, RequestsAdvance, DispatchesOpen, CertificateIssued

LEMMA FinishRows ==
    ASSUME TypeOK, NEW r \in RequestIds, NEW end \in Closings,
           FinishRequest(r, end[1], end[2], end[3])
    PROVE  RowStep
<1>1. request[r] \in RequestRow /\ request[r].terminal = NULL
  BY RowTypes DEF FinishRequest
<1>2. /\ attempt' = attempt /\ request'[r].auth = request[r].auth
      /\ \A q \in RequestIds \ {r} : request'[q] = request[q]
  BY <1>1 DEF FinishRequest, TypeOK, RequestRow
<1>3. request'[r].certified =>
        /\ request'[r].terminal = "failed" /\ request'[r].auth.direct
        /\ request'[r].searches = 0 /\ AttemptsOf(r) = {}
  BY <1>1 DEF FinishRequest, TypeOK, RequestRow
<1> QED BY <1>1, <1>2, <1>3
        DEF RowStep, AttemptsAdvance, RequestsAdvance, DispatchesOpen, CertificateIssued

LEMMA StartRows ==
    ASSUME TypeOK, NEW a \in AttemptIds, NEW r \in Requests,
           NEW rung \in request[r].auth.rungs, NEW ordinal \in Ordinals,
           NEW cost \in Costs, NEW tierCard \in TierCards,
           StartAttempt(a, r, rung, ordinal, cost, tierCard)
    PROVE  RowStep
<1>1. /\ request' = request /\ attempt[a] = NULL /\ request[r].terminal = NULL
      /\ \A x \in AttemptIds \ {a} : attempt'[x] = attempt[x]
      /\ attempt'[a].request = r
  BY DEF StartAttempt, TypeOK, Attempts
<1> QED BY <1>1 DEF RowStep, AttemptsAdvance, RequestsAdvance, DispatchesOpen, CertificateIssued

LEMMA SettleRows ==
    ASSUME TypeOK, NEW a \in Attempts, NEW t \in Reports,
           NEW receipt \in Receipts, NEW finalize \in BOOLEAN,
           SettleDispatched(a, t, receipt, finalize)
    PROVE  RowStep
<1> DEFINE q == attempt[a].request
<1>1. a \in AttemptIds /\ attempt[a] \in AttemptRow /\ attempt[a].state = "dispatched"
  BY RowTypes DEF SettleDispatched
<1>2. /\ \A x \in AttemptIds \ {a} : attempt'[x] = attempt[x]
      /\ attempt'[a].request = q /\ attempt'[a].rung = attempt[a].rung
      /\ attempt'[a].reserved = attempt[a].reserved
      /\ attempt'[a].period = attempt[a].period
  BY <1>1 DEF SettleDispatched, TypeOK, AttemptRow
<1>3. q \in RequestIds /\ request[q] \in RequestRow
  BY <1>1, RowTypes
<1>4. \/ request' = request
      \/ /\ request[q].terminal = NULL
         /\ request'[q].certified = request[q].certified
         /\ request'[q].auth = request[q].auth
         /\ \A r \in RequestIds \ {q} : request'[r] = request[r]
  BY <1>3 DEF SettleDispatched, TypeOK, RequestRow
<1>5. AttemptsAdvance /\ DispatchesOpen
  BY <1>1, <1>2, NullAssumption DEF AttemptsAdvance, DispatchesOpen, Attempts
<1>6. RequestsAdvance
  BY <1>4 DEF RequestsAdvance
<1>7. CertificateIssued
  BY <1>3, <1>4, NullAssumption DEF CertificateIssued
<1> QED BY <1>5, <1>6, <1>7 DEF RowStep

(* Late writes to a terminal attempt touch money and evidence only.        *)
LEMMA LateRows ==
    ASSUME TypeOK, NEW a \in Attempts, NEW t \in Reports, NEW receipt \in Receipts,
           \/ WaiveTerminal(a, t) \/ LateMeter(a, t, receipt)
           \/ RetainTierReceipt(a, t, receipt) \/ ReconcileTierReceipt(a, t, receipt)
    PROVE  RowStep
<1>1. a \in AttemptIds /\ attempt[a] \in AttemptRow /\ request' = request
  BY RowTypes DEF WaiveTerminal, LateMeter, UpgradeObserved, RetainTierReceipt,
                  ReconcileTierReceipt
<1>2. /\ \A x \in AttemptIds \ {a} : attempt'[x] = attempt[x]
      /\ attempt'[a].request = attempt[a].request
      /\ attempt'[a].rung = attempt[a].rung
      /\ attempt'[a].reserved = attempt[a].reserved
      /\ attempt'[a].period = attempt[a].period
      /\ attempt'[a].state = attempt[a].state
  <2>1. CASE WaiveTerminal(a, t)
    BY <1>1, <2>1 DEF WaiveTerminal, TypeOK, AttemptRow
  <2>2. CASE LateMeter(a, t, receipt)
    BY <1>1, <2>2 DEF LateMeter, UpgradeObserved, TypeOK, AttemptRow
  <2>3. CASE RetainTierReceipt(a, t, receipt)
    BY <1>1, <2>3 DEF RetainTierReceipt, TypeOK, AttemptRow
  <2>4. CASE ReconcileTierReceipt(a, t, receipt)
    BY <1>1, <2>4 DEF ReconcileTierReceipt, TypeOK, AttemptRow
  <2> QED BY <2>1, <2>2, <2>3, <2>4
<1> QED BY <1>1, <1>2 DEF RowStep, AttemptsAdvance, RequestsAdvance, DispatchesOpen,
                          CertificateIssued, Attempts

LEMMA DecisionRows ==
    ASSUME TypeOK, NEW a \in AttemptIds, NEW amount \in Amounts,
           ReconcileDecisionLiability(a, amount)
    PROVE  RowStep
<1>1. a \in Attempts /\ attempt[a] \in AttemptRow /\ request' = request
  BY RowTypes DEF ReconcileDecisionLiability
<1>2. /\ \A x \in AttemptIds \ {a} : attempt'[x] = attempt[x]
      /\ attempt'[a].request = attempt[a].request
      /\ attempt'[a].rung = attempt[a].rung
      /\ attempt'[a].reserved = attempt[a].reserved
      /\ attempt'[a].period = attempt[a].period
      /\ attempt'[a].state = attempt[a].state
  BY <1>1 DEF ReconcileDecisionLiability, TypeOK, AttemptRow
<1> QED BY <1>1, <1>2 DEF RowStep, AttemptsAdvance, RequestsAdvance, DispatchesOpen,
                          CertificateIssued, Attempts

(* Recovery closes dispatched attempts and open requests only.             *)
LEMMA RecoveryRows ==
    ASSUME TypeOK, ReconcileCrashedRequests
    PROVE  RowStep
<1>1. ASSUME NEW a \in AttemptIds
      PROVE  /\ attempt[a] = NULL => attempt'[a] = NULL
             /\ attempt[a] # NULL =>
                  /\ attempt'[a].request = attempt[a].request
                  /\ attempt'[a].rung = attempt[a].rung
                  /\ attempt'[a].reserved = attempt[a].reserved
                  /\ attempt'[a].period = attempt[a].period
                  /\ attempt[a].state # "dispatched" =>
                        attempt'[a].state = attempt[a].state
  <2>1. CASE a \in Crashed
    <3>1. attempt[a] \in AttemptRow /\ attempt[a].state = "dispatched" /\ attempt[a] # NULL
      BY <2>1, RowTypes DEF Crashed, Attempts
    <3>2. attempt'[a] = [attempt[a] EXCEPT !.state = "unknown_after_crash",
                                           !.source = "unknown"]
      BY <2>1 DEF ReconcileCrashedRequests
    <3> QED BY <3>1, <3>2 DEF AttemptRow
  <2>2. CASE a \notin Crashed
    BY <2>2 DEF ReconcileCrashedRequests
  <2> QED BY <2>1, <2>2
<1>2. ASSUME NEW r \in RequestIds
      PROVE  \/ request'[r] = request[r]
             \/ /\ request[r] # NULL /\ request[r].terminal = NULL
                /\ request'[r].certified = request[r].certified
                /\ request'[r].auth = request[r].auth
  <2>1. CASE r \in Expired
    <3>1. request[r] \in RequestRow /\ request[r].terminal = NULL /\ request[r] # NULL
      BY <2>1, RowTypes DEF Expired, Requests
    <3>2. request'[r] = [request[r] EXCEPT !.terminal = "expired_before_dispatch"]
      BY <2>1 DEF ReconcileCrashedRequests
    <3> QED BY <3>1, <3>2 DEF RequestRow
  <2>2. CASE /\ r \notin Expired /\ r \in Requests /\ request[r].terminal = NULL
             /\ AttemptsOf(r) \cap Crashed # {}
    <3>1. request[r] \in RequestRow /\ request[r] # NULL
      BY <2>2, RowTypes DEF Requests
    <3>2. request'[r] = [request[r] EXCEPT !.terminal = "unknown_after_crash"]
      BY <2>2 DEF ReconcileCrashedRequests
    <3> QED BY <2>2, <3>1, <3>2 DEF RequestRow
  <2>3. CASE /\ r \notin Expired
             /\ ~(/\ r \in Requests /\ request[r].terminal = NULL
                  /\ AttemptsOf(r) \cap Crashed # {})
    BY <2>3 DEF ReconcileCrashedRequests
  <2> QED BY <2>1, <2>2, <2>3
<1>3. AttemptsAdvance /\ DispatchesOpen
  BY <1>1 DEF AttemptsAdvance, DispatchesOpen
<1>4. RequestsAdvance /\ CertificateIssued
  BY <1>2 DEF RequestsAdvance, CertificateIssued
<1> QED BY <1>3, <1>4 DEF RowStep

LEMMA RowsStep ==
    ASSUME TypeOK, [Next]_vars
    PROVE  RowStep
<1>1. CASE UNCHANGED vars
  BY <1>1, UntouchedRows DEF vars
<1>2. ASSUME NEW a \in AttemptIds, NEW t \in Reports, NEW receipt \in Receipts,
             NEW finalize \in BOOLEAN, FinishAttempt(a, t, receipt, finalize)
      PROVE  RowStep
  BY <1>2, SettleRows, LateRows DEF FinishAttempt
<1>3. CASE UNCHANGED <<request, attempt>>
  BY <1>3, UntouchedRows
<1>4. CASE Next
  BY <1>2, <1>3, <1>4, AcceptRows, FinishRows, StartRows, DecisionRows, RecoveryRows
     DEF Next, ReconcileUnknownCosts, CreateLimit, ReplaceLimit, Tick
<1> QED BY <1>1, <1>4

(* Whatever replays, late meters, waivers, operators and restarts do, the  *)
(* first terminal state of an attempt or request is final, and so are an   *)
(* attempt's reservation and month: for any number of requests, attempts,  *)
(* limits and months.                                                      *)
THEOREM DeliveryFinal == Spec => DeliveryImmutable
<1> DEFINE Final ==
        /\ \A a \in AttemptIds : attempt[a] # NULL =>
             /\ attempt[a].state # "dispatched" => attempt'[a].state = attempt[a].state
             /\ attempt'[a].reserved = attempt[a].reserved
             /\ attempt'[a].period = attempt[a].period
        /\ \A r \in RequestIds :
             request[r] # NULL /\ request[r].terminal # NULL => request'[r] = request[r]
<1>1. TypeOK /\ [Next]_vars => [Final]_vars
  BY RowsStep DEF RowStep, AttemptsAdvance, RequestsAdvance
<1>2. DeliveryImmutable <=> [][Final]_vars
  BY DEF DeliveryImmutable
<1> QED BY <1>1, <1>2, TypeCorrect, PTL DEF Spec

(* A certificate that a failed direct request had no effects stays true:   *)
(* accept_request may re-enter its key, since no attempt was or ever will  *)
(* be dispatched under the certified row.                                  *)
THEOREM CertificatesHold == Spec => []CertificateSound
<1>1. Init => CertificateSound
  BY DEF Init, CertificateSound, Requests
<1>2. TypeOK /\ CertificateSound /\ [Next]_vars => CertificateSound'
  <2> SUFFICES ASSUME TypeOK, CertificateSound, [Next]_vars,
                      NEW r \in Requests', request'[r].certified
               PROVE  /\ request'[r].terminal = "failed" /\ request'[r].auth.direct
                      /\ request'[r].searches = 0 /\ AttemptsOf(r)' = {}
    BY DEF CertificateSound
  <2>1. RowStep /\ r \in RequestIds /\ request'[r] # NULL
    BY RowsStep DEF Requests
  <2>2. CASE request[r] # NULL /\ request[r].certified
    <3>1. /\ request[r].terminal = "failed" /\ request[r].auth.direct
          /\ request[r].searches = 0 /\ AttemptsOf(r) = {}
      BY <2>1, <2>2 DEF CertificateSound, Requests
    <3>2. request'[r] = request[r]
      BY <2>1, <2>2, <3>1, NullAssumption DEF RowStep, RequestsAdvance, RequestStates,
                                              TerminalStates
    <3>3. ASSUME NEW a \in AttemptsOf(r)' PROVE FALSE
      <4>1. a \in AttemptIds /\ attempt'[a] # NULL /\ attempt'[a].request = r
        BY DEF AttemptsOf, Attempts
      <4>2. CASE attempt[a] = NULL
        BY <2>1, <3>1, <4>1, <4>2, NullAssumption
           DEF RowStep, DispatchesOpen, RequestStates, TerminalStates
      <4>3. CASE attempt[a] # NULL
        BY <2>1, <3>1, <4>1, <4>3 DEF RowStep, AttemptsAdvance, AttemptsOf, Attempts
      <4> QED BY <4>2, <4>3
    <3> QED BY <3>1, <3>2, <3>3
  <2>3. CASE ~(request[r] # NULL /\ request[r].certified)
    <3>1. /\ request'[r].terminal = "failed" /\ request'[r].auth.direct
          /\ request'[r].searches = 0 /\ AttemptsOf(r) = {} /\ attempt' = attempt
      BY <2>1, <2>3 DEF RowStep, CertificateIssued
    <3> QED BY <3>1 DEF AttemptsOf, Attempts
  <2> QED BY <2>2, <2>3
<1> QED BY <1>1, <1>2, TypeCorrect, PTL DEF Spec
-----------------------------------------------------------------------------
(* One execution per keyed operation. *)

(* Rowids are dense, and among the rows of one operation there is always a *)
(* newest: the ORDER BY rowid DESC LIMIT 1 of accept_request finds one.    *)
NewestKnown ==
    /\ \A r \in Requests, q \in RequestIds : q < r => q \in Requests
    /\ \A r \in Requests : PriorOf(request[r].auth.op) # {}

(* Only acceptance adds a request row.                                     *)
LEMMA OnlyAcceptanceAdds ==
    ASSUME TypeOK, ChargesOwned, [Next]_vars
    PROVE  \/ Requests' = Requests
           \/ \E r \in RequestIds, auth \in Authorizations, window \in Windows :
                AcceptRequest(r, auth, window)
<1> SUFFICES ASSUME ~ \E r \in RequestIds, auth \in Authorizations, window \in Windows :
                        AcceptRequest(r, auth, window)
             PROVE  Requests' = Requests
  OBVIOUS
<1>1. Requests \subseteq Requests'
  BY TypeStep DEF RowsKept, Requests
<1>2. ASSUME NEW r \in RequestIds, NEW end \in Closings,
             FinishRequest(r, end[1], end[2], end[3])
      PROVE  Requests' \subseteq Requests
  BY <1>2 DEF FinishRequest, TypeOK, Requests
<1>3. ASSUME NEW a \in AttemptIds, NEW t \in Reports, NEW receipt \in Receipts,
             NEW finalize \in BOOLEAN, FinishAttempt(a, t, receipt, finalize)
      PROVE  Requests' \subseteq Requests
  <2>1. a \in Attempts /\ attempt[a].request \in Requests
    BY <1>3, RowTypes DEF FinishAttempt
  <2>2. \A r \in RequestIds \ {attempt[a].request} : request'[r] = request[r]
    BY <1>3, <2>1 DEF FinishAttempt, SettleDispatched, WaiveTerminal, LateMeter,
                      UpgradeObserved, RetainTierReceipt, ReconcileTierReceipt, TypeOK
  <2> QED BY <2>1, <2>2 DEF Requests
<1>4. CASE ReconcileCrashedRequests
  <2>1. \A r \in RequestIds \ Requests : request'[r] = request[r]
    BY <1>4 DEF ReconcileCrashedRequests, Expired
  <2> QED BY <1>1, <2>1 DEF Requests
<1>5. CASE UNCHANGED request
  BY <1>5 DEF Requests
<1>6. \/ \E r \in RequestIds, end \in Closings : FinishRequest(r, end[1], end[2], end[3])
      \/ \E a \in AttemptIds, t \in Reports, receipt \in Receipts, finalize \in BOOLEAN :
            FinishAttempt(a, t, receipt, finalize)
      \/ ReconcileCrashedRequests
      \/ UNCHANGED request
  <2>1. \A a, r, rung, ordinal, cost, tierCard :
            StartAttempt(a, r, rung, ordinal, cost, tierCard) => UNCHANGED request
    BY DEF StartAttempt
  <2>2. /\ \A a, amount : ReconcileDecisionLiability(a, amount) => UNCHANGED request
        /\ \A b, amount : ReconcileUnknownCosts(b, amount) => UNCHANGED request
        /\ \A b, limit, strict : CreateLimit(b, limit, strict) => UNCHANGED request
        /\ \A b, limit, strict : ReplaceLimit(b, limit, strict) => UNCHANGED request
        /\ Tick \/ UNCHANGED vars => UNCHANGED request
    BY DEF ReconcileDecisionLiability, ReconcileUnknownCosts, CreateLimit, ReplaceLimit,
           Tick, vars
  <2> QED BY <2>1, <2>2 DEF Next
<1>7. Requests' \subseteq Requests \/ Requests' = Requests
  BY <1>2, <1>3, <1>4, <1>5, <1>6
<1> QED BY <1>1, <1>7

(* The newest row of an operation survives a step that adds none.          *)
LEMMA NewestStep ==
    ASSUME TypeOK, ChargesOwned, NewestKnown, [Next]_vars
    PROVE  NewestKnown'
<1>1. RowStep
  BY RowsStep
<1>2. CASE Requests' = Requests
  <2>1. \A r \in Requests : request'[r].auth = request[r].auth
    BY <1>1 DEF RowStep, RequestsAdvance, Requests
  <2>2. \A op : PriorOf(op)' = PriorOf(op)
    BY <1>2, <2>1 DEF PriorOf
  <2> QED BY <1>2, <2>1, <2>2 DEF NewestKnown
<1>3. ASSUME NEW r \in RequestIds, NEW auth \in Authorizations, NEW window \in Windows,
             AcceptRequest(r, auth, window)
      PROVE  NewestKnown'
  <2>1. /\ Requests' = Requests \cup {r} /\ r \notin Requests
        /\ request'[r].auth = auth
        /\ \A q \in RequestIds \ {r} : request'[q] = request[q]
    <3>1. request'[r] # NULL
      <4> DEFINE row == [auth |-> auth, deadline |-> now + window, terminal |-> NULL,
                         certified |-> FALSE, searches |-> 0]
      <4>1. row \in RequestRow
        BY BoundAssumption, InputAssumption DEF TypeOK, RequestRow
      <4>2. request' = [request EXCEPT ![r] = row]
        BY <1>3 DEF AcceptRequest
      <4> HIDE DEF row
      <4> QED BY <4>1, <4>2, NullAssumption DEF TypeOK
    <3> QED BY <1>3, <3>1 DEF AcceptRequest, TypeOK, Requests
  <2>2. \A q \in RequestIds : q < r => q \in Requests
    BY <1>3 DEF AcceptRequest
  <2>3. \A q \in Requests : q < r
    BY <2>1, BoundAssumption DEF NewestKnown, RequestIds, Requests
  <2>4. \A p \in Requests', q \in RequestIds : q < p => q \in Requests'
    BY <2>1, <2>2 DEF NewestKnown
  <2>5. ASSUME NEW q \in Requests' PROVE PriorOf(request[q].auth.op)' # {}
    <3>1. CASE request'[q].auth.op = auth.op
      <4>1. \A p \in Requests' : p <= r
        BY <2>1, <2>3, BoundAssumption DEF RequestIds, Requests
      <4>2. r \in PriorOf(request[q].auth.op)'
        BY <2>1, <3>1, <4>1 DEF PriorOf
      <4> QED BY <4>2
    <3>2. CASE request'[q].auth.op # auth.op
      <4>1. q \in Requests /\ request'[q] = request[q]
        BY <2>1, <3>2 DEF Requests
      <4>2. PICK p \in PriorOf(request[q].auth.op) : TRUE
        BY <4>1 DEF NewestKnown
      <4>3. p \in PriorOf(request[q].auth.op)'
        BY <2>1, <3>2, <4>1, <4>2 DEF PriorOf, Requests
      <4> QED BY <4>3
    <3> QED BY <3>1, <3>2
  <2> QED BY <2>4, <2>5 DEF NewestKnown
<1> QED BY <1>2, <1>3, OnlyAcceptanceAdds

(* A row that permits re-entry permits it for ever: its outcome is final   *)
(* and no attempt is dispatched under it.                                  *)
LEMMA ReenterableStays ==
    ASSUME TypeOK, RowStep, NEW q \in Requests, Reenterable(q)
    PROVE  Reenterable(q)'
<1>1. request[q].terminal # NULL /\ q \in RequestIds /\ request[q] # NULL
  BY NullAssumption DEF Reenterable, RequestStates, TerminalStates, Requests
<1>2. request'[q] = request[q]
  BY <1>1 DEF RowStep, RequestsAdvance
<1>3. AttemptsOf(q) = {} => AttemptsOf(q)' = {}
  <2> SUFFICES ASSUME AttemptsOf(q) = {}, NEW a \in AttemptsOf(q)' PROVE FALSE
    OBVIOUS
  <2>1. a \in AttemptIds /\ attempt'[a] # NULL /\ attempt'[a].request = q
    BY DEF AttemptsOf, Attempts
  <2>2. CASE attempt[a] = NULL
    BY <1>1, <2>1, <2>2 DEF RowStep, DispatchesOpen
  <2>3. CASE attempt[a] # NULL
    BY <2>1, <2>3 DEF RowStep, AttemptsAdvance, AttemptsOf, Attempts
  <2> QED BY <2>2, <2>3
<1> QED BY <1>2, <1>3 DEF Reenterable

(* One keyed operation has one effective execution, for any number of      *)
(* accepted requests: accept_request looks only at the newest row of the   *)
(* key, which speaks for every older one because each was accepted under   *)
(* the same rule and an outcome that permits re-entry is final.            *)
THEOREM OneExecution == Spec => []OneExecutionPerOperation
<1> DEFINE IInv == TypeOK /\ ChargesOwned /\ NewestKnown /\ OneExecutionPerOperation
<1>1. Init => IInv
  BY TypeInit DEF Init, ChargesOwned, NewestKnown, OneExecutionPerOperation, Requests
<1>2. IInv /\ [Next]_vars => IInv'
  <2> SUFFICES ASSUME IInv, [Next]_vars PROVE IInv'
    OBVIOUS
  <2>1. TypeOK' /\ ChargesOwned' /\ NewestKnown' /\ RowStep
    BY TypeStep, NewestStep, RowsStep
  <2>2. OneExecutionPerOperation'
    <3> SUFFICES ASSUME NEW q \in Requests', NEW r \in Requests', q < r,
                        request'[q].auth.op # NULL,
                        request'[q].auth.op = request'[r].auth.op
                 PROVE  /\ request'[q].auth.digest = request'[r].auth.digest
                        /\ Reenterable(q)'
      BY DEF OneExecutionPerOperation
    <3>1. CASE q \in Requests /\ r \in Requests
      <4>1. request'[q].auth = request[q].auth /\ request'[r].auth = request[r].auth
        BY <2>1, <3>1 DEF RowStep, RequestsAdvance, Requests
      <4>2. request[q].auth.digest = request[r].auth.digest /\ Reenterable(q)
        BY <3>1, <4>1 DEF OneExecutionPerOperation
      <4> QED BY <2>1, <3>1, <4>1, <4>2, ReenterableStays
    <3>2. CASE ~(q \in Requests /\ r \in Requests)
      <4>1. PICK n \in RequestIds, auth \in Authorizations, window \in Windows :
                AcceptRequest(n, auth, window)
        BY <3>2, OnlyAcceptanceAdds
      <4>2. /\ n \notin Requests /\ request'[n].auth = auth
            /\ \A p \in RequestIds \ {n} : request'[p] = request[p]
        BY <4>1 DEF AcceptRequest, TypeOK
      <4>3. r = n /\ q \in Requests /\ q # n
        <5>1. q = n => r \in Requests
          BY <4>2 DEF Requests, RequestIds
        <5>2. q = n => FALSE
          BY <4>2, <5>1 DEF NewestKnown, Requests
        <5> QED BY <3>2, <4>2, <5>2 DEF Requests
      <4>4. request'[q] = request[q] /\ request[q].auth.op = auth.op /\ auth.op # NULL
        BY <4>2, <4>3 DEF Requests
      <4>5. PICK p \in PriorOf(auth.op) : TRUE
        BY <4>3, <4>4 DEF NewestKnown
      <4>6. /\ p \in Requests /\ q <= p /\ request[p].auth.op = auth.op
            /\ request[p].auth.digest = auth.digest /\ Reenterable(p)
        BY <4>1, <4>3, <4>4, <4>5 DEF AcceptRequest, PriorOf
      <4>7. request[q].auth.digest = auth.digest /\ Reenterable(q)
        <5>1. CASE q = p
          BY <4>6, <5>1
        <5>2. CASE q # p
          <6>1. q < p
            BY <4>3, <4>6, <5>2, BoundAssumption DEF Requests, RequestIds
          <6> QED BY <4>3, <4>4, <4>6, <6>1 DEF OneExecutionPerOperation
        <5> QED BY <5>1, <5>2
      <4> QED BY <2>1, <4>2, <4>3, <4>4, <4>7, ReenterableStays
    <3> QED BY <3>1, <3>2
  <2> QED BY <2>1, <2>2
<1>3. IInv => OneExecutionPerOperation
  OBVIOUS
<1> QED BY <1>1, <1>2, <1>3, PTL DEF Spec
-----------------------------------------------------------------------------
(* Charges, evidence and waivers. *)

(* What the columns of an attempt row say together.  A dispatched row has  *)
(* neither settlement nor evidence; an unsettled row has no cost, so a     *)
(* backfill adopts it as held; a hold is unpriced, so the late price of a  *)
(* hold replaces none; and only a tiered attempt has a confirmed tier.     *)
RowSettled(row) ==
    /\ row.state = "dispatched" =>
            row.settled = NULL /\ row.source = NULL /\ row.tier = NULL
    /\ row.settled = NULL => row.cost = NULL
    /\ row.tier = "hold" => row.cost = NULL
    /\ Confirmed(row.tier) => row.admission # NULL

MoneyInv ==
    /\ \A a \in Attempts : RowSettled(attempt[a])
    /\ ChargesFollowAttempt
    /\ \A a \in waived : a \in Attempts /\ attempt[a].settled = 0

(* The body of EvidenceImmutable. *)
EvidenceHeld(old, new) ==
    /\ old.source = "observed" =>
        /\ new.source = "observed" /\ new.usage = old.usage
        /\ old.cost # NULL => new.cost = old.cost
    /\ Confirmed(old.tier) => new.tier = old.tier

(* Charges of a at the previous settlement move to the new amount; no      *)
(* other charge moves, and none appears or disappears.                     *)
ChargesMove(a, previous, amount) ==
    \A b \in BudgetIds :
        /\ \A x \in AttemptIds : charge'[b][x] # NULL <=> charge[b][x] # NULL
        /\ \A x \in AttemptIds \ {a} : charge'[b][x] = charge[b][x]
        /\ charge[b][a] # NULL /\ charge[b][a].settled = previous =>
                charge'[b][a].settled = amount

LEMMA SettleMoves ==
    ASSUME TypeOK, NEW a \in AttemptIds, NEW amount \in NanoOrNull,
           SettleAttemptBudgets(a, amount)
    PROVE  ChargesMove(a, NULL, amount)
<1> DEFINE open == {d \in BudgetIds : amount # NULL /\ Held(d, a)}
<1> SUFFICES ASSUME NEW b \in BudgetIds
             PROVE  /\ \A x \in AttemptIds : charge'[b][x] # NULL <=> charge[b][x] # NULL
                    /\ \A x \in AttemptIds \ {a} : charge'[b][x] = charge[b][x]
                    /\ charge[b][a] # NULL /\ charge[b][a].settled = NULL =>
                            charge'[b][a].settled = amount
  BY DEF ChargesMove
<1>1. CASE b \in open
  <2>1. charge'[b] = [charge[b] EXCEPT ![a] = [charge[b][a] EXCEPT !.settled = amount]]
    BY <1>1 DEF SettleAttemptBudgets
  <2>2. charge[b][a] # NULL /\ charge[b][a] \in ChargeRow
    BY <1>1, RowTypes DEF Held
  <2>3. /\ [charge[b][a] EXCEPT !.settled = amount] # NULL
        /\ [charge[b][a] EXCEPT !.settled = amount].settled = amount
    BY <2>2, NullAssumption DEF ChargeRow
  <2> QED BY <2>1, <2>2, <2>3 DEF TypeOK
<1>2. CASE b \notin open
  <2>1. charge'[b] = charge[b]
    BY <1>2 DEF SettleAttemptBudgets
  <2> QED BY <1>2, <2>1 DEF Held
<1> QED BY <1>1, <1>2

LEMMA ReplaceMoves ==
    ASSUME TypeOK, NEW a \in AttemptIds, NEW previous \in NanoOrNull,
           NEW amount \in NanoOrNull, ReplaceBudgetCharges(a, previous, amount)
    PROVE  ChargesMove(a, previous, amount)
<1> DEFINE swapped == {d \in BudgetIds : Automatic(d, a, previous) /\ previous # amount}
           open == {d \in BudgetIds : amount # NULL /\ Held(d, a)}
<1> SUFFICES ASSUME NEW b \in BudgetIds
             PROVE  /\ \A x \in AttemptIds : charge'[b][x] # NULL <=> charge[b][x] # NULL
                    /\ \A x \in AttemptIds \ {a} : charge'[b][x] = charge[b][x]
                    /\ charge[b][a] # NULL /\ charge[b][a].settled = previous =>
                            charge'[b][a].settled = amount
  BY DEF ChargesMove
<1>1. CASE b \in swapped \cup open
  <2>1. charge'[b] = [charge[b] EXCEPT ![a] = [charge[b][a] EXCEPT !.settled = amount]]
    BY <1>1 DEF ReplaceBudgetCharges
  <2>2. charge[b][a] # NULL /\ charge[b][a] \in ChargeRow
    BY <1>1, RowTypes DEF Held, Automatic
  <2>3. /\ [charge[b][a] EXCEPT !.settled = amount] # NULL
        /\ [charge[b][a] EXCEPT !.settled = amount].settled = amount
    BY <2>2, NullAssumption DEF ChargeRow
  <2> QED BY <2>1, <2>2, <2>3 DEF TypeOK
<1>2. CASE b \notin swapped \cup open
  <2>1. charge'[b] = charge[b]
    BY <1>2 DEF ReplaceBudgetCharges
  <2> QED BY <1>2, <2>1 DEF Held, Automatic
<1> QED BY <1>1, <1>2

(* What an operation on one attempt may do to money and evidence.          *)
MoneyWrite(a) ==
    /\ \A x \in AttemptIds \ {a} : attempt'[x] = attempt[x]
    /\ RowSettled(attempt'[a]) /\ EvidenceHeld(attempt[a], attempt'[a])
    /\ ChargesMove(a, attempt[a].settled, attempt'[a].settled)
    /\ waived' \subseteq waived \cup {a}
    /\ a \in waived' => attempt'[a].settled = 0

(* Pricing of a report: an unsettled report is unpriced, a hold is unpriced.*)
LEMMA HoldUnpriced ==
    ASSUME NEW row, NEW t
    PROVE  ReportCost(row, "hold", t) = NULL
BY NullAssumption DEF ReportCost, TierCost, Confirmed, Tiers

LEMMA SettleMoney ==
    ASSUME TypeOK, MoneyInv, NEW a \in Attempts, NEW t \in Reports,
           NEW receipt \in Receipts, NEW finalize \in BOOLEAN,
           SettleDispatched(a, t, receipt, finalize)
    PROVE  MoneyWrite(a)
<1> DEFINE row == attempt[a]
           tier == SettledTier(row, receipt)
           cost == ReportCost(row, tier, t)
           settlement == IF t.guardrail \/ t.release THEN 0
                         ELSE BudgetSettlement(a, tier, cost, t)
<1>1. row \in AttemptRow /\ a \in AttemptIds /\ row.state = "dispatched" /\ RowSettled(row)
  BY RowTypes DEF SettleDispatched, MoneyInv
<1>2. row.settled = NULL /\ row.source = NULL /\ row.tier = NULL
  BY <1>1 DEF RowSettled
<1>3. tier \in Tiers \cup {NULL} /\ (Confirmed(tier) => row.admission # NULL)
  BY <1>1, SettledTierType, InputAssumption
<1>4. settlement \in NanoOrNull
  BY <1>1, <1>3, CostTypes, SettlementTypes
<1>5. /\ attempt'[a].state = t.state /\ attempt'[a].tier = tier /\ attempt'[a].cost = cost
      /\ attempt'[a].settled = settlement /\ attempt'[a].admission = row.admission
      /\ \A x \in AttemptIds \ {a} : attempt'[x] = attempt[x]
  <2> HIDE DEF tier, cost, settlement
  <2>1. attempt' = [attempt EXCEPT ![a] = [row EXCEPT
            !.state = t.state, !.tier = tier, !.card = TierCard(row, tier),
            !.usage = t.usage, !.source = SourceLabel(t), !.cost = cost,
            !.settled = settlement, !.recovery = t.recovery]]
    BY DEF SettleDispatched, tier, cost, settlement
  <2> QED BY <1>1, <2>1 DEF TypeOK, AttemptRow
<1>6. settlement = NULL => cost = NULL
  BY NullAssumption DEF BudgetSettlement
<1>7. tier = "hold" => cost = NULL
  BY HoldUnpriced
<1>8. ChargesMove(a, NULL, settlement)
  BY <1>1, <1>4, SettleMoves DEF SettleDispatched
<1>9. /\ waived' \subseteq waived \cup {a} /\ a \notin waived
      /\ a \in waived' => settlement = 0
  <2>1. a \notin waived
    BY <1>2, NullAssumption DEF MoneyInv
  <2> QED BY <2>1 DEF SettleDispatched, Waive
<1>10. t.state # "dispatched"
  BY ReportTypes DEF TerminalStates
<1> HIDE DEF tier, cost, settlement
<1>11. RowSettled(attempt'[a])
  BY <1>3, <1>5, <1>6, <1>7, <1>10 DEF RowSettled
<1>12. EvidenceHeld(row, attempt'[a])
  BY <1>2, NullAssumption DEF EvidenceHeld, Confirmed, Sources, Tiers
<1> QED BY <1>2, <1>5, <1>8, <1>9, <1>11, <1>12 DEF MoneyWrite

LEMMA WaiveMoney ==
    ASSUME TypeOK, MoneyInv, NEW a \in Attempts, NEW t \in Reports,
           attempt[a].state # "dispatched", WaiveTerminal(a, t)
    PROVE  MoneyWrite(a)
<1>1. attempt[a] \in AttemptRow /\ a \in AttemptIds /\ RowSettled(attempt[a])
  BY RowTypes DEF MoneyInv
<1>2. attempt' = [attempt EXCEPT ![a] = [attempt[a] EXCEPT !.settled = 0]]
  BY DEF WaiveTerminal
<1>3. /\ attempt'[a].settled = 0 /\ attempt'[a].state = attempt[a].state
      /\ attempt'[a].tier = attempt[a].tier /\ attempt'[a].cost = attempt[a].cost
      /\ attempt'[a].admission = attempt[a].admission
      /\ attempt'[a].source = attempt[a].source /\ attempt'[a].usage = attempt[a].usage
      /\ \A x \in AttemptIds \ {a} : attempt'[x] = attempt[x]
  BY <1>1, <1>2 DEF TypeOK, AttemptRow
<1>4. ChargesMove(a, attempt[a].settled, 0)
  <2>1. 0 \in NanoOrNull /\ attempt[a].settled \in NanoOrNull
    BY <1>1, BoundAssumption DEF NanoOrNull, Nano, AttemptRow
  <2> QED BY <1>1, <2>1, ReplaceMoves DEF WaiveTerminal
<1>5. RowSettled(attempt'[a]) /\ EvidenceHeld(attempt[a], attempt'[a])
  BY <1>1, <1>3, NullAssumption DEF RowSettled, EvidenceHeld
<1> QED BY <1>3, <1>4, <1>5 DEF MoneyWrite, WaiveTerminal, Waive

(* A late meter keeps an explicit charge, a waiver among them, and moves   *)
(* every other charge together with the attempt's settlement.              *)
LEMMA LateMoney ==
    ASSUME TypeOK, MoneyInv, NEW a \in Attempts, NEW t \in Reports,
           NEW receipt \in Receipts, attempt[a].state # "dispatched",
           LateMeter(a, t, receipt)
    PROVE  MoneyWrite(a)
<1> DEFINE row == attempt[a]
           tier == SettledTier(row, IF receipt = NULL THEN row.tier ELSE receipt)
           cost == ReportCost(row, tier, t)
           settlement == IF ExplicitCharge(a) THEN row.settled
                         ELSE IF t.guardrail THEN 0
                         ELSE BudgetSettlement(a, tier, cost, t)
<1>1. row \in AttemptRow /\ a \in AttemptIds /\ RowSettled(row)
  BY RowTypes DEF MoneyInv
<1>2. tier \in Tiers \cup {NULL} /\ (Confirmed(tier) => row.admission # NULL)
  <2>1. (IF receipt = NULL THEN row.tier ELSE receipt) \in Tiers \cup {NULL}
    BY <1>1, InputAssumption DEF AttemptRow
  <2> QED BY <1>1, <2>1, SettledTierType
<1>3. settlement \in NanoOrNull /\ row.settled \in NanoOrNull
  BY <1>1, <1>2, CostTypes, SettlementTypes DEF AttemptRow
<1>4. /\ attempt'[a].state = row.state /\ attempt'[a].tier = tier
      /\ attempt'[a].cost = cost /\ attempt'[a].settled = settlement
      /\ attempt'[a].admission = row.admission
      /\ attempt'[a].source = "observed" /\ attempt'[a].usage = t.usage
      /\ \A x \in AttemptIds \ {a} : attempt'[x] = attempt[x]
  <2> HIDE DEF tier, cost, settlement
  <2>1. attempt' = [attempt EXCEPT ![a] = [row EXCEPT
            !.tier = tier, !.card = TierCard(row, tier), !.usage = t.usage,
            !.source = "observed", !.cost = cost, !.settled = settlement]]
    BY DEF LateMeter, UpgradeObserved, tier, cost, settlement
  <2> QED BY <1>1, <2>1 DEF TypeOK, AttemptRow
<1>5. settlement = NULL => cost = NULL
  BY NullAssumption DEF ExplicitCharge, BudgetSettlement
<1>6. tier = "hold" => cost = NULL
  BY HoldUnpriced
<1>7. ChargesMove(a, row.settled, settlement)
  BY <1>1, <1>3, ReplaceMoves DEF LateMeter, UpgradeObserved
<1>8. Confirmed(row.tier) => tier = row.tier
  <2>1. Confirmed(row.tier) => row.admission # NULL /\ receipt \in {NULL, row.tier}
    BY <1>1 DEF RowSettled, LateMeter, UpgradeObserved, ReceiptAgrees
  <2> QED BY <2>1, NullAssumption DEF SettledTier, Confirmed, Tiers
<1>9. row.source = "observed" => t.usage = row.usage /\ row.cost = NULL
  <2>1. ASSUME row.source = "observed"
        PROVE  /\ row.usage = t.usage
               /\ row.tier = "hold" \/ row.cost = NULL
    BY <2>1 DEF LateMeter
  <2> QED BY <1>1, <2>1 DEF RowSettled
<1>10. /\ waived' = waived
       /\ a \in waived => settlement = 0
  <2>1. a \in waived => row.settled = 0
    BY DEF MoneyInv
  <2>2. row.settled = 0 => ExplicitCharge(a)
    BY NullAssumption DEF ExplicitCharge
  <2> QED BY <2>1, <2>2 DEF LateMeter, UpgradeObserved
<1> HIDE DEF tier, cost, settlement
<1>11. RowSettled(attempt'[a])
  BY <1>2, <1>4, <1>5, <1>6 DEF RowSettled
<1>12. EvidenceHeld(row, attempt'[a])
  BY <1>4, <1>8, <1>9 DEF EvidenceHeld
<1> QED BY <1>4, <1>7, <1>10, <1>11, <1>12 DEF MoneyWrite

LEMMA RetainMoney ==
    ASSUME TypeOK, MoneyInv, NEW a \in Attempts, NEW t \in Reports,
           NEW receipt \in Receipts, attempt[a].state # "dispatched",
           RetainTierReceipt(a, t, receipt)
    PROVE  MoneyWrite(a)
<1> DEFINE row == attempt[a]
<1>1. row \in AttemptRow /\ a \in AttemptIds /\ RowSettled(row)
  BY RowTypes DEF MoneyInv
<1>2. /\ attempt'[a].settled = row.settled /\ attempt'[a].state = row.state
      /\ attempt'[a].tier = receipt /\ attempt'[a].cost = row.cost
      /\ attempt'[a].admission = row.admission
      /\ attempt'[a].source = row.source /\ attempt'[a].usage = row.usage
      /\ \A x \in AttemptIds \ {a} : attempt'[x] = attempt[x]
  BY <1>1 DEF RetainTierReceipt, TypeOK, AttemptRow
<1>3. ChargesMove(a, row.settled, row.settled) /\ waived' = waived
  BY DEF RetainTierReceipt, ChargesMove
<1>4. /\ row.admission # NULL /\ Confirmed(receipt) /\ ~Confirmed(row.tier)
      /\ receipt # "hold"
  BY DEF RetainTierReceipt, Confirmed
<1>5. RowSettled(attempt'[a]) /\ EvidenceHeld(row, attempt'[a])
  BY <1>1, <1>2, <1>4 DEF RowSettled, EvidenceHeld
<1> QED BY <1>2, <1>3, <1>5 DEF MoneyWrite, MoneyInv

LEMMA ReceiptMoney ==
    ASSUME TypeOK, MoneyInv, NEW a \in Attempts, NEW t \in Reports,
           NEW receipt \in Receipts, attempt[a].state # "dispatched",
           ReconcileTierReceipt(a, t, receipt)
    PROVE  MoneyWrite(a)
<1> DEFINE row == attempt[a]
           cost == TierCost(row, receipt, t)
<1>1. row \in AttemptRow /\ a \in AttemptIds /\ RowSettled(row)
  BY RowTypes DEF MoneyInv
<1>2. cost \in NanoOrNull
  BY <1>1, CostTypes, InputAssumption DEF ReconcileTierReceipt
<1>3. /\ row.admission # NULL /\ Confirmed(receipt) /\ row.settled = NULL /\ cost # NULL
      /\ Confirmed(row.tier) => receipt \in {NULL, row.tier}
      /\ SettleAttemptBudgets(a, cost) /\ waived' = waived
  BY DEF ReconcileTierReceipt, ReceiptAgrees
<1>4. /\ attempt'[a].settled = cost /\ attempt'[a].state = row.state
      /\ attempt'[a].tier = receipt /\ attempt'[a].cost = cost
      /\ attempt'[a].admission = row.admission
      /\ attempt'[a].source = row.source /\ attempt'[a].usage = row.usage
      /\ \A x \in AttemptIds \ {a} : attempt'[x] = attempt[x]
  <2>1. attempt' = [attempt EXCEPT ![a] = [row EXCEPT
            !.tier = receipt, !.card = TierCard(row, receipt),
            !.cost = cost, !.settled = cost]]
    BY DEF ReconcileTierReceipt
  <2> HIDE DEF cost
  <2> QED BY <1>1, <2>1 DEF TypeOK, AttemptRow
<1> HIDE DEF cost
<1>5. ChargesMove(a, row.settled, cost)
  BY <1>1, <1>2, <1>3, SettleMoves
<1>6. a \notin waived
  BY <1>3, NullAssumption DEF MoneyInv
<1>7. RowSettled(attempt'[a])
  BY <1>1, <1>3, <1>4 DEF RowSettled, Confirmed
<1>8. EvidenceHeld(row, attempt'[a])
  <2>1. Confirmed(row.tier) => receipt = row.tier
    BY <1>3, NullAssumption DEF Confirmed, Tiers
  <2> QED BY <1>1, <1>3, <1>4, <2>1 DEF RowSettled, EvidenceHeld
<1> QED BY <1>3, <1>4, <1>5, <1>6, <1>7, <1>8 DEF MoneyWrite

LEMMA DecisionMoney ==
    ASSUME TypeOK, MoneyInv, NEW a \in AttemptIds, NEW amount \in Amounts,
           ReconcileDecisionLiability(a, amount)
    PROVE  MoneyWrite(a)
<1> DEFINE row == attempt[a]
<1>1. /\ a \in Attempts /\ row \in AttemptRow /\ RowSettled(row)
      /\ amount \in NanoOrNull /\ amount # NULL
  BY RowTypes, InputAssumption DEF MoneyInv, ReconcileDecisionLiability, Amounts
<1>2. /\ row.state # "dispatched" /\ row.settled = NULL
      /\ SettleAttemptBudgets(a, amount) /\ waived' = waived
  BY DEF ReconcileDecisionLiability
<1>3. /\ attempt'[a].settled = amount /\ attempt'[a].state = row.state
      /\ attempt'[a].tier = row.tier /\ attempt'[a].cost = row.cost
      /\ attempt'[a].admission = row.admission
      /\ attempt'[a].source = row.source /\ attempt'[a].usage = row.usage
      /\ \A x \in AttemptIds \ {a} : attempt'[x] = attempt[x]
  BY <1>1 DEF ReconcileDecisionLiability, TypeOK, AttemptRow
<1>4. ChargesMove(a, row.settled, amount)
  BY <1>1, <1>2, SettleMoves
<1>5. a \notin waived
  BY <1>2, NullAssumption DEF MoneyInv
<1>6. RowSettled(attempt'[a]) /\ EvidenceHeld(row, attempt'[a])
  BY <1>1, <1>2, <1>3 DEF RowSettled, EvidenceHeld
<1> QED BY <1>2, <1>3, <1>4, <1>5, <1>6 DEF MoneyWrite

(* An operation on one attempt keeps the money invariant and the evidence. *)
LEMMA WriteKeepsMoney ==
    ASSUME TypeOK, MoneyInv, RowsKept, NEW a \in Attempts, MoneyWrite(a),
           assigned' = assigned
    PROVE  /\ MoneyInv'
           /\ \A x \in Attempts : EvidenceHeld(attempt[x], attempt'[x])
<1>1. a \in AttemptIds /\ Attempts' = Attempts
  BY DEF Attempts, RowsKept, MoneyWrite
<1>2. \A x \in Attempts' : RowSettled(attempt[x])'
  BY <1>1 DEF MoneyWrite, MoneyInv, RowSettled, Attempts
<1>3. ChargesFollowAttempt'
  <2> SUFFICES ASSUME NEW b \in BudgetIds, NEW x \in AttemptIds, charge'[b][x] # NULL,
                      <<b, x>> \notin assigned'
               PROVE  charge'[b][x].settled = attempt'[x].settled
    BY DEF ChargesFollowAttempt
  <2>1. charge[b][x] # NULL /\ charge[b][x].settled = attempt[x].settled
    BY DEF MoneyWrite, ChargesMove, MoneyInv, ChargesFollowAttempt
  <2>2. CASE x = a
    BY <2>1, <2>2 DEF MoneyWrite, ChargesMove
  <2>3. CASE x # a
    BY <2>1, <2>3 DEF MoneyWrite, ChargesMove
  <2> QED BY <2>2, <2>3
<1>4. \A x \in waived' : x \in Attempts' /\ attempt'[x].settled = 0
  BY <1>1 DEF MoneyWrite, MoneyInv, Attempts
<1>5. \A x \in Attempts : EvidenceHeld(attempt[x], attempt'[x])
  BY DEF MoneyWrite, EvidenceHeld, Attempts
<1> QED BY <1>2, <1>3, <1>4, <1>5 DEF MoneyInv

LEMMA StartMoney ==
    ASSUME TypeOK, ChargesOwned, MoneyInv, NEW a \in AttemptIds, NEW r \in Requests,
           NEW rung \in request[r].auth.rungs, NEW ordinal \in Ordinals,
           NEW cost \in Costs, NEW tierCard \in TierCards,
           StartAttempt(a, r, rung, ordinal, cost, tierCard)
    PROVE  /\ MoneyInv'
           /\ \A x \in Attempts : EvidenceHeld(attempt[x], attempt'[x])
<1>1. /\ attempt[a] = NULL /\ a \notin Attempts
      /\ \A x \in AttemptIds \ {a} : attempt'[x] = attempt[x]
      /\ attempt'[a].settled = NULL /\ attempt'[a].source = NULL
      /\ attempt'[a].tier = NULL /\ attempt'[a].cost = NULL
      /\ waived' = waived /\ assigned' = assigned
  BY DEF StartAttempt, TypeOK, Attempts
<1>2. \A x \in Attempts' : RowSettled(attempt[x])'
  <2>1. RowSettled(attempt[a])'
    BY <1>1, NullAssumption DEF RowSettled, Confirmed, Tiers
  <2> QED BY <1>1, <2>1 DEF MoneyInv, RowSettled, Attempts
<1>3. ChargesFollowAttempt'
  <2> SUFFICES ASSUME NEW b \in BudgetIds, NEW x \in AttemptIds, charge'[b][x] # NULL,
                      <<b, x>> \notin assigned'
               PROVE  charge'[b][x].settled = attempt'[x].settled
    BY DEF ChargesFollowAttempt
  <2>1. CASE x = a
    <3>1. charge[b][a] = NULL
      BY <1>1 DEF ChargesOwned
    <3>2. charge'[b][a] = charge[b][a] \/ charge'[b][a] = [reserved |-> cost, settled |-> NULL]
      BY DEF StartAttempt, TypeOK
    <3> QED BY <1>1, <2>1, <3>1, <3>2
  <2>2. CASE x # a
    <3>1. charge'[b][x] = charge[b][x]
      BY <2>2 DEF StartAttempt, TypeOK
    <3> QED BY <1>1, <2>2, <3>1 DEF MoneyInv, ChargesFollowAttempt
  <2> QED BY <2>1, <2>2
<1>4. \A x \in waived' : x \in Attempts' /\ attempt'[x].settled = 0
  BY <1>1 DEF MoneyInv, Attempts
<1>5. \A x \in Attempts : EvidenceHeld(attempt[x], attempt'[x])
  BY <1>1 DEF EvidenceHeld, Attempts
<1> QED BY <1>2, <1>3, <1>4, <1>5 DEF MoneyInv

(* An operator's assignment moves charges it marks as assigned; a new limit*)
(* adopts each prior attempt at the attempt's own settlement.              *)
LEMMA LimitMoney ==
    ASSUME TypeOK, MoneyInv, UNCHANGED <<request, attempt, waived>>,
           \/ \E b \in BudgetIds, amount \in Amounts : ReconcileUnknownCosts(b, amount)
           \/ \E b \in BudgetIds, limit \in Limits, strict \in Strictness :
                CreateLimit(b, limit, strict) \/ ReplaceLimit(b, limit, strict)
    PROVE  MoneyInv'
<1>1. ASSUME NEW b \in BudgetIds, NEW amount \in Amounts, ReconcileUnknownCosts(b, amount)
      PROVE  ChargesFollowAttempt'
  <2> SUFFICES ASSUME NEW d \in BudgetIds, NEW x \in AttemptIds, charge'[d][x] # NULL,
                      <<d, x>> \notin assigned'
               PROVE  charge'[d][x].settled = attempt'[x].settled
    BY DEF ChargesFollowAttempt
  <2>1. <<d, x>> \notin assigned /\ ~(d = b /\ x \in UnknownSet(charge[b]))
    BY <1>1 DEF ReconcileUnknownCosts
  <2>2. charge'[d][x] = charge[d][x]
    BY <1>1, <2>1 DEF ReconcileUnknownCosts, TypeOK
  <2> QED BY <2>1, <2>2 DEF MoneyInv, ChargesFollowAttempt
<1>2. ASSUME NEW b \in BudgetIds, NEW limit \in Limits, NEW strict \in Strictness,
             CreateLimit(b, limit, strict)
      PROVE  ChargesFollowAttempt'
  <2> SUFFICES ASSUME NEW d \in BudgetIds, NEW x \in AttemptIds, charge'[d][x] # NULL,
                      <<d, x>> \notin assigned'
               PROVE  charge'[d][x].settled = attempt'[x].settled
    BY DEF ChargesFollowAttempt
  <2>1. CASE d = b
    <3>1. charge'[b][x] = BackfillCharges(b)[x]
      BY <1>2 DEF CreateLimit, TypeOK
    <3>2. x \in Attempts /\ charge'[b][x].settled = HistoricalSettlement(attempt[x])
      BY <2>1, <3>1 DEF BackfillCharges
    <3>3. HistoricalSettlement(attempt[x]) = attempt[x].settled
      BY <3>2 DEF HistoricalSettlement, MoneyInv, RowSettled
    <3> QED BY <2>1, <3>2, <3>3
  <2>2. CASE d # b
    <3>1. charge'[d] = charge[d] /\ assigned' = assigned
      BY <1>2, <2>2 DEF CreateLimit, TypeOK
    <3> QED BY <3>1 DEF MoneyInv, ChargesFollowAttempt
  <2> QED BY <2>1, <2>2
<1>3. ASSUME NEW b \in BudgetIds, NEW limit \in Limits, NEW strict \in Strictness,
             ReplaceLimit(b, limit, strict)
      PROVE  ChargesFollowAttempt'
  BY <1>3 DEF ReplaceLimit, MoneyInv, ChargesFollowAttempt
<1>4. ChargesFollowAttempt'
  BY <1>1, <1>2, <1>3
<1> QED BY <1>4 DEF MoneyInv, RowSettled, Attempts

LEMMA RecoveryMoney ==
    ASSUME TypeOK, MoneyInv, RowsKept, ReconcileCrashedRequests
    PROVE  /\ MoneyInv'
           /\ \A x \in Attempts : EvidenceHeld(attempt[x], attempt'[x])
<1>1. ASSUME NEW x \in Attempts
      PROVE  /\ x \in AttemptIds /\ RowSettled(attempt'[x])
             /\ attempt'[x].settled = attempt[x].settled
             /\ EvidenceHeld(attempt[x], attempt'[x])
  <2>1. attempt[x] \in AttemptRow /\ RowSettled(attempt[x]) /\ x \in AttemptIds
    BY RowTypes DEF MoneyInv
  <2>2. CASE x \in Crashed
    <3>1. attempt'[x] = [attempt[x] EXCEPT !.state = "unknown_after_crash",
                                           !.source = "unknown"]
      BY <2>1, <2>2 DEF ReconcileCrashedRequests
    <3>2. /\ attempt'[x].state = "unknown_after_crash"
          /\ attempt'[x].settled = attempt[x].settled /\ attempt'[x].cost = attempt[x].cost
          /\ attempt'[x].tier = attempt[x].tier
          /\ attempt'[x].admission = attempt[x].admission
      BY <2>1, <3>1 DEF AttemptRow
    <3>3. attempt[x].source = NULL
      BY <2>1, <2>2 DEF Crashed, RowSettled
    <3> QED BY <2>1, <3>2, <3>3, NullAssumption DEF RowSettled, EvidenceHeld, Sources
  <2>3. CASE x \notin Crashed
    BY <2>1, <2>3 DEF ReconcileCrashedRequests, EvidenceHeld
  <2> QED BY <2>2, <2>3
<1>2. Attempts' = Attempts
  BY DEF ReconcileCrashedRequests, RowsKept, Attempts, Crashed
<1>3. \A x \in Attempts' : RowSettled(attempt[x])'
  BY <1>1, <1>2 DEF RowSettled
<1>4. /\ charge' = charge /\ waived' = waived /\ assigned' = assigned
      /\ \A x \in AttemptIds \ Attempts : attempt'[x] = attempt[x]
  BY DEF ReconcileCrashedRequests, Crashed
<1>5. ChargesFollowAttempt'
  BY <1>1, <1>4 DEF MoneyInv, ChargesFollowAttempt
<1>6. \A x \in waived' : x \in Attempts' /\ attempt'[x].settled = 0
  BY <1>1, <1>2, <1>4 DEF MoneyInv
<1> QED BY <1>1, <1>3, <1>5, <1>6 DEF MoneyInv

LEMMA MoneyStep ==
    ASSUME TypeOK, ChargesOwned, MoneyInv, [Next]_vars
    PROVE  /\ MoneyInv'
           /\ \A x \in Attempts : EvidenceHeld(attempt[x], attempt'[x])
<1>1. RowsKept
  BY TypeStep
<1>2. ASSUME NEW a \in AttemptIds, NEW t \in Reports, NEW receipt \in Receipts,
             NEW finalize \in BOOLEAN, FinishAttempt(a, t, receipt, finalize)
      PROVE  /\ MoneyInv'
             /\ \A x \in Attempts : EvidenceHeld(attempt[x], attempt'[x])
  <2>1. a \in Attempts /\ assigned' = assigned
    BY <1>2 DEF FinishAttempt
  <2>2. MoneyWrite(a)
    BY <1>2, <2>1, SettleMoney, WaiveMoney, LateMoney, RetainMoney, ReceiptMoney
       DEF FinishAttempt
  <2> QED BY <1>1, <2>1, <2>2, WriteKeepsMoney
<1>3. ASSUME NEW a \in AttemptIds, NEW amount \in Amounts,
             ReconcileDecisionLiability(a, amount)
      PROVE  /\ MoneyInv'
             /\ \A x \in Attempts : EvidenceHeld(attempt[x], attempt'[x])
  <2>1. a \in Attempts /\ assigned' = assigned
    BY <1>3 DEF ReconcileDecisionLiability
  <2> QED BY <1>1, <1>3, <2>1, DecisionMoney, WriteKeepsMoney
<1>4. CASE UNCHANGED <<attempt, charge, assigned, waived>>
  BY <1>4 DEF MoneyInv, ChargesFollowAttempt, RowSettled, EvidenceHeld, Attempts
<1>5. CASE \/ \E b \in BudgetIds, amount \in Amounts : ReconcileUnknownCosts(b, amount)
           \/ \E b \in BudgetIds, limit \in Limits, strict \in Strictness :
                CreateLimit(b, limit, strict) \/ ReplaceLimit(b, limit, strict)
  <2>1. UNCHANGED <<request, attempt, waived>>
    BY <1>5 DEF ReconcileUnknownCosts, CreateLimit, ReplaceLimit
  <2> QED BY <1>5, <2>1, LimitMoney DEF EvidenceHeld
<1>6. \/ UNCHANGED <<attempt, charge, assigned, waived>>
      \/ ReconcileCrashedRequests
      \/ \E b \in BudgetIds, amount \in Amounts : ReconcileUnknownCosts(b, amount)
      \/ \E b \in BudgetIds, limit \in Limits, strict \in Strictness :
            CreateLimit(b, limit, strict) \/ ReplaceLimit(b, limit, strict)
      \/ \E a \in AttemptIds, t \in Reports, receipt \in Receipts, finalize \in BOOLEAN :
            FinishAttempt(a, t, receipt, finalize)
      \/ \E a \in AttemptIds, amount \in Amounts : ReconcileDecisionLiability(a, amount)
      \/ \E a \in AttemptIds, r \in Requests, ordinal \in Ordinals,
            cost \in Costs, tierCard \in TierCards :
              \E rung \in request[r].auth.rungs :
                StartAttempt(a, r, rung, ordinal, cost, tierCard)
  BY DEF Next, vars, AcceptRequest, FinishRequest, Tick
<1> QED BY <1>1, <1>2, <1>3, <1>4, <1>5, <1>6, StartMoney, RecoveryMoney

LEMMA MoneyInvariant == Spec => [](TypeOK /\ ChargesOwned /\ MoneyInv)
<1>1. Init => TypeOK /\ ChargesOwned /\ MoneyInv
  BY TypeInit DEF Init, ChargesOwned, MoneyInv, ChargesFollowAttempt, Attempts
<1>2. TypeOK /\ ChargesOwned /\ MoneyInv /\ [Next]_vars
        => (TypeOK /\ ChargesOwned /\ MoneyInv)'
  BY TypeStep, MoneyStep
<1> QED BY <1>1, <1>2, PTL DEF Spec

(* All limits an attempt consumes carry its one customer charge, or all    *)
(* hold it, unless an operator assigned one by hand: for any number of     *)
(* limits, late meters, waivers and backfills.                             *)
THEOREM ChargesFollow == Spec => []ChargesFollowAttempt
<1>1. TypeOK /\ ChargesOwned /\ MoneyInv => ChargesFollowAttempt
  BY DEF MoneyInv
<1> QED BY <1>1, MoneyInvariant, PTL

(* A customer waiver is permanent: the settlement stays zero, because a    *)
(* late meter keeps an explicit zero and the other writers ask for an open *)
(* settlement, and every limit carries it.                                 *)
THEOREM WaiversHold == Spec => []WaiverPermanent
<1>1. TypeOK /\ ChargesOwned /\ MoneyInv => WaiverPermanent
  BY DEF MoneyInv, ChargesFollowAttempt, WaiverPermanent, Attempts
<1> QED BY <1>1, MoneyInvariant, PTL

(* Observed evidence is final: no replay, late meter, tier receipt, waiver *)
(* or restart replaces a durable meter, changes a priced cost under it or  *)
(* contradicts a confirmed tier.                                           *)
THEOREM EvidenceFinal == Spec => EvidenceImmutable
<1> DEFINE Kept == \A a \in AttemptIds : attempt[a] # NULL =>
                        EvidenceHeld(attempt[a], attempt'[a])
<1>1. TypeOK /\ ChargesOwned /\ MoneyInv /\ [Next]_vars => [Kept]_vars
  BY MoneyStep DEF Attempts
<1>2. EvidenceImmutable <=> [][Kept]_vars
  BY DEF EvidenceImmutable, EvidenceHeld
<1> QED BY <1>1, <1>2, MoneyInvariant, PTL DEF Spec
-----------------------------------------------------------------------------
(* Limits and their scope. *)

(* The dispatch's SELECT and the backfill's predicate name the same limits *)
(* for a row that froze the dispatch's authority, lane and month.          *)
LEMMA ScopeIsApplicable ==
    ASSUME NEW b \in BudgetIds, NEW a, NEW auth, NEW rung, NEW period,
           attempt'[a].period = period, attempt'[a].rung = rung,
           request'[attempt'[a].request].auth = auth
    PROVE  InScope(b, a)' <=> Applicable(b, auth, rung, period)
<1> DEFINE scope == b[2]
<1>1. scope \in Scopes /\ scope.kind \in {"team", "identity", "pool", "deployment"}
  BY InputAssumption DEF BudgetIds
<1>2. InScope(b, a)' <=>
        /\ period = b[1]
        /\ CASE scope.kind = "team" -> TRUE
             [] scope.kind = "identity" -> scope.identity = auth.identity
             [] scope.kind = "pool" ->
                    /\ scope.alias = auth.alias
                    /\ rung.pool = scope.pool \/ auth.root = scope.pool
             [] OTHER -> /\ scope.alias = auth.alias
                         /\ rung.pool = scope.pool
                         /\ rung.deployment = scope.deployment
  BY DEF InScope, Auth
<1>3. Applicable(b, auth, rung, period) <=>
        /\ b[1] = period
        /\ \/ scope.kind = "team"
           \/ scope.kind = "identity" /\ scope.identity = auth.identity
           \/ /\ scope.kind = "pool" /\ scope.alias = auth.alias
              /\ scope.pool \in {rung.pool, auth.root}
           \/ /\ scope.kind = "deployment" /\ scope.alias = auth.alias
              /\ scope.pool = rung.pool /\ scope.deployment = rung.deployment
  BY DEF Applicable
<1> HIDE DEF scope
<1>4. CASE scope.kind = "team"
  BY <1>2, <1>3, <1>4
<1>5. CASE scope.kind = "identity"
  BY <1>2, <1>3, <1>5
<1>6. CASE scope.kind = "pool"
  BY <1>2, <1>3, <1>6
<1>7. CASE scope.kind = "deployment"
  BY <1>2, <1>3, <1>7
<1> QED BY <1>1, <1>4, <1>5, <1>6, <1>7

(* The columns a scope reads are frozen.                                   *)
LEMMA ScopeFrozen ==
    ASSUME TypeOK, RowStep, NEW a \in Attempts, NEW b \in BudgetIds
    PROVE  InScope(b, a)' <=> InScope(b, a)
<1>1. /\ attempt'[a].period = attempt[a].period /\ attempt'[a].rung = attempt[a].rung
      /\ attempt'[a].request = attempt[a].request
  BY DEF RowStep, AttemptsAdvance, Attempts
<1>2. request'[attempt[a].request].auth = request[attempt[a].request].auth
  BY RowTypes DEF RowStep, RequestsAdvance, Requests
<1>3. Auth(a)' = Auth(a)
  BY <1>1, <1>2 DEF Auth
<1> QED BY <1>1, <1>3 DEF InScope

(* A step that creates no attempt and no limit keeps every charge row.     *)
LEMMA ScopeKept ==
    ASSUME TypeOK, RowStep, ChargesCoverScope,
           \A a \in AttemptIds : attempt'[a] # NULL <=> attempt[a] # NULL,
           \A b \in BudgetIds : budget'[b] # NULL <=> budget[b] # NULL,
           \A b \in BudgetIds, a \in AttemptIds :
                charge'[b][a] # NULL <=> charge[b][a] # NULL
    PROVE  ChargesCoverScope'
<1>1. Attempts' = Attempts
  BY DEF Attempts
<1>2. ASSUME NEW b \in BudgetIds, NEW a \in AttemptIds
      PROVE  charge'[b][a] # NULL <=> budget'[b] # NULL /\ a \in Attempts' /\ InScope(b, a)'
  <2>1. a \in Attempts => (InScope(b, a)' <=> InScope(b, a))
    BY ScopeFrozen
  <2> QED BY <1>1, <2>1 DEF ChargesCoverScope
<1> QED BY <1>2 DEF ChargesCoverScope

LEMMA StartScope ==
    ASSUME TypeOK, ChargesOwned, RowStep, RowsKept, ChargesCoverScope,
           NEW a \in AttemptIds, NEW r \in Requests,
           NEW rung \in request[r].auth.rungs, NEW ordinal \in Ordinals,
           NEW cost \in Costs, NEW tierCard \in TierCards,
           StartAttempt(a, r, rung, ordinal, cost, tierCard), attempt'[a] # NULL
    PROVE  ChargesCoverScope'
<1>1. /\ attempt[a] = NULL /\ request' = request /\ r \in RequestIds
      /\ \A x \in AttemptIds \ {a} : attempt'[x] = attempt[x]
      /\ attempt'[a].request = r /\ attempt'[a].rung = rung
      /\ attempt'[a].period = Period(now)
  BY DEF StartAttempt, TypeOK, Attempts, Requests
<1>2. \A b \in BudgetIds : budget'[b] # NULL <=> budget[b] # NULL
  BY DEF RowsKept, StartAttempt
<1>3. ASSUME NEW b \in BudgetIds, NEW x \in AttemptIds
      PROVE  charge'[b][x] # NULL <=> budget'[b] # NULL /\ x \in Attempts' /\ InScope(b, x)'
  <2>1. CASE x = a
    <3>1. InScope(b, a)' <=> Applicable(b, request[r].auth, rung, Period(now))
      BY <1>1, ScopeIsApplicable
    <3>2. charge[b][a] = NULL
      BY <1>1 DEF ChargesOwned
    <3>3. CASE budget[b] # NULL /\ Applicable(b, request[r].auth, rung, Period(now))
      <4>1. charge'[b][a] = [reserved |-> cost, settled |-> NULL]
        BY <3>3 DEF StartAttempt, TypeOK
      <4>2. [reserved |-> cost, settled |-> NULL] \in ChargeRow
        BY InputAssumption DEF ChargeRow, NanoOrNull
      <4>3. charge'[b][a] # NULL
        BY <4>1, <4>2, NullAssumption
      <4> QED BY <1>2, <2>1, <3>1, <3>3, <4>3 DEF Attempts
    <3>4. CASE ~(budget[b] # NULL /\ Applicable(b, request[r].auth, rung, Period(now)))
      <4>1. charge'[b] = charge[b]
        BY <3>4 DEF StartAttempt
      <4> QED BY <1>2, <2>1, <3>1, <3>2, <3>4, <4>1
    <3> QED BY <3>3, <3>4
  <2>2. CASE x # a
    <3>1. charge'[b][x] = charge[b][x]
      BY <2>2 DEF StartAttempt, TypeOK
    <3>2. x \in Attempts => (InScope(b, x)' <=> InScope(b, x))
      BY ScopeFrozen
    <3>3. x \in Attempts' <=> x \in Attempts
      BY <1>1, <2>2 DEF Attempts
    <3> QED BY <1>2, <3>1, <3>2, <3>3 DEF ChargesCoverScope
  <2> QED BY <2>1, <2>2
<1> QED BY <1>3 DEF ChargesCoverScope

LEMMA CreateScope ==
    ASSUME TypeOK, ChargesOwned, RowStep, RowsKept, ChargesCoverScope,
           NEW b \in BudgetIds, NEW limit \in Limits, NEW strict \in Strictness,
           CreateLimit(b, limit, strict), budget'[b] # NULL
    PROVE  ChargesCoverScope'
<1>1. attempt' = attempt /\ Attempts' = Attempts
  BY DEF CreateLimit, Attempts
<1>2. \A d \in BudgetIds \ {b} : budget'[d] = budget[d] /\ charge'[d] = charge[d]
  BY DEF CreateLimit, TypeOK
<1>3. ASSUME NEW d \in BudgetIds, NEW x \in AttemptIds
      PROVE  charge'[d][x] # NULL <=> budget'[d] # NULL /\ x \in Attempts' /\ InScope(d, x)'
  <2>1. x \in Attempts => (InScope(d, x)' <=> InScope(d, x))
    BY ScopeFrozen
  <2>2. CASE d = b
    <3>1. charge'[b][x] = BackfillCharges(b)[x]
      BY DEF CreateLimit, TypeOK
    <3>2. CASE x \in Attempts /\ InScope(b, x)
      <4> DEFINE settled == HistoricalSettlement(attempt[x])
                 c == [reserved |-> IF settled = NULL THEN attempt[x].reserved ELSE NULL,
                       settled |-> settled]
      <4>1. charge'[b][x] = c
        BY <3>1, <3>2 DEF BackfillCharges
      <4>2. c \in ChargeRow
        BY <3>2, RowTypes DEF HistoricalSettlement, AttemptRow, ChargeRow, NanoOrNull
      <4>3. charge'[b][x] # NULL
        BY <4>1, <4>2, NullAssumption
      <4> QED BY <1>1, <2>1, <2>2, <3>2, <4>3
    <3>3. CASE ~(x \in Attempts /\ InScope(b, x))
      <4>1. charge'[b][x] = NULL
        BY <3>1, <3>3 DEF BackfillCharges
      <4> QED BY <1>1, <2>1, <2>2, <3>3, <4>1
    <3> QED BY <3>2, <3>3
  <2>3. CASE d # b
    BY <1>1, <1>2, <2>1, <2>3 DEF ChargesCoverScope
  <2> QED BY <2>2, <2>3
<1> QED BY <1>3 DEF ChargesCoverScope

(* Only a dispatch adds an attempt row, and only set_limit a limit.        *)
LEMMA OnlyDispatchAdds ==
    ASSUME TypeOK, ChargesOwned, [Next]_vars, NEW a \in AttemptIds,
           attempt[a] = NULL, attempt'[a] # NULL
    PROVE  \E r \in Requests, ordinal \in Ordinals, cost \in Costs, tierCard \in TierCards :
                \E rung \in request[r].auth.rungs :
                    StartAttempt(a, r, rung, ordinal, cost, tierCard)
<1>1. ASSUME NEW x \in AttemptIds, NEW t \in Reports, NEW receipt \in Receipts,
             NEW finalize \in BOOLEAN, FinishAttempt(x, t, receipt, finalize)
      PROVE  FALSE
  <2>1. x # a
    BY <1>1 DEF FinishAttempt, Attempts
  <2>2. attempt'[a] = attempt[a]
    BY <1>1, <2>1 DEF FinishAttempt, SettleDispatched, WaiveTerminal, LateMeter,
                      UpgradeObserved, RetainTierReceipt, ReconcileTierReceipt, TypeOK
  <2> QED BY <2>2
<1>2. ASSUME NEW x \in AttemptIds, NEW amount \in Amounts,
             ReconcileDecisionLiability(x, amount)
      PROVE  FALSE
  BY <1>2 DEF ReconcileDecisionLiability, Attempts, TypeOK
<1>3. ASSUME ReconcileCrashedRequests PROVE FALSE
  BY <1>3 DEF ReconcileCrashedRequests, Crashed, Attempts
<1>4. ASSUME NEW x \in AttemptIds, NEW r \in Requests, NEW ordinal \in Ordinals,
             NEW cost \in Costs, NEW tierCard \in TierCards,
             NEW rung \in request[r].auth.rungs,
             StartAttempt(x, r, rung, ordinal, cost, tierCard)
      PROVE  x = a
  BY <1>4 DEF StartAttempt, TypeOK
<1>5. \/ ReconcileCrashedRequests
      \/ \E x \in AttemptIds, t \in Reports, receipt \in Receipts, finalize \in BOOLEAN :
            FinishAttempt(x, t, receipt, finalize)
      \/ \E x \in AttemptIds, amount \in Amounts : ReconcileDecisionLiability(x, amount)
      \/ \E x \in AttemptIds, r \in Requests, ordinal \in Ordinals,
            cost \in Costs, tierCard \in TierCards :
              \E rung \in request[r].auth.rungs :
                StartAttempt(x, r, rung, ordinal, cost, tierCard)
  <2>1. attempt' # attempt
    OBVIOUS
  <2>2. /\ \A r, auth, window : AcceptRequest(r, auth, window) => attempt' = attempt
        /\ \A r, s, certify, n : FinishRequest(r, s, certify, n) => attempt' = attempt
        /\ \A b, amount : ReconcileUnknownCosts(b, amount) => attempt' = attempt
        /\ \A b, limit, strict : CreateLimit(b, limit, strict) => attempt' = attempt
        /\ \A b, limit, strict : ReplaceLimit(b, limit, strict) => attempt' = attempt
        /\ Tick \/ UNCHANGED vars => attempt' = attempt
    BY DEF AcceptRequest, FinishRequest, ReconcileUnknownCosts, CreateLimit, ReplaceLimit,
           Tick, vars
  <2> QED BY <2>1, <2>2 DEF Next
<1> QED BY <1>1, <1>2, <1>3, <1>4, <1>5

(* A write to one attempt's charges leaves the tables' rows in place.      *)
LEMMA WriteKeepsScope ==
    ASSUME TypeOK, ChargesOwned, RowStep, RowsKept, ChargesCoverScope,
           NEW a \in Attempts, MoneyWrite(a),
           \A b \in BudgetIds : budget'[b] = budget[b] \/ charge[b][a] # NULL
    PROVE  ChargesCoverScope'
<1>1. \A x \in AttemptIds : attempt'[x] # NULL <=> attempt[x] # NULL
  BY DEF RowsKept, MoneyWrite, Attempts
<1>2. \A b \in BudgetIds : budget'[b] # NULL <=> budget[b] # NULL
  BY DEF RowsKept, ChargesOwned, Attempts
<1>3. \A b \in BudgetIds, x \in AttemptIds : charge'[b][x] # NULL <=> charge[b][x] # NULL
  BY DEF MoneyWrite, ChargesMove
<1> QED BY <1>1, <1>2, <1>3, ScopeKept

LEMMA ScopeStep ==
    ASSUME TypeOK, ChargesOwned, MoneyInv, ChargesCoverScope, [Next]_vars
    PROVE  ChargesCoverScope'
<1>1. RowsKept /\ RowStep
  BY TypeStep, RowsStep
<1>2. ASSUME NEW a \in AttemptIds, NEW t \in Reports, NEW receipt \in Receipts,
             NEW finalize \in BOOLEAN, FinishAttempt(a, t, receipt, finalize)
      PROVE  ChargesCoverScope'
  <2>1. a \in Attempts
    BY <1>2 DEF FinishAttempt
  <2>2. MoneyWrite(a)
    BY <1>2, <2>1, SettleMoney, WaiveMoney, LateMoney, RetainMoney, ReceiptMoney
       DEF FinishAttempt
  <2>3. \A amount : SettleAttemptBudgets(a, amount) =>
            \A b \in BudgetIds : budget'[b] = budget[b] \/ charge[b][a] # NULL
    BY DEF SettleAttemptBudgets, Held
  <2>4. \A previous, amount : ReplaceBudgetCharges(a, previous, amount) =>
            \A b \in BudgetIds : budget'[b] = budget[b] \/ charge[b][a] # NULL
    BY DEF ReplaceBudgetCharges, Held, Automatic
  <2>5. \A b \in BudgetIds : budget'[b] = budget[b] \/ charge[b][a] # NULL
    BY <1>2, <2>3, <2>4 DEF FinishAttempt, SettleDispatched, WaiveTerminal, LateMeter,
                            UpgradeObserved, RetainTierReceipt, ReconcileTierReceipt
  <2> QED BY <1>1, <2>1, <2>2, <2>5, WriteKeepsScope
<1>3. ASSUME NEW a \in AttemptIds, NEW amount \in Amounts,
             ReconcileDecisionLiability(a, amount)
      PROVE  ChargesCoverScope'
  <2>1. a \in Attempts /\ MoneyWrite(a)
    BY <1>3, DecisionMoney DEF ReconcileDecisionLiability
  <2>2. \A b \in BudgetIds : budget'[b] = budget[b] \/ charge[b][a] # NULL
    BY <1>3 DEF ReconcileDecisionLiability, SettleAttemptBudgets, Held
  <2> QED BY <1>1, <2>1, <2>2, WriteKeepsScope
<1>4. ASSUME NEW b \in BudgetIds, NEW amount \in Amounts, ReconcileUnknownCosts(b, amount)
      PROVE  ChargesCoverScope'
  <2>1. \A d \in BudgetIds : budget'[d] # NULL <=> budget[d] # NULL
    BY <1>1, <1>4 DEF RowsKept, ReconcileUnknownCosts, TypeOK
  <2>2. \A d \in BudgetIds, x \in AttemptIds : charge'[d][x] # NULL <=> charge[d][x] # NULL
    <3> SUFFICES ASSUME NEW d \in BudgetIds, NEW x \in AttemptIds
                 PROVE  charge'[d][x] # NULL <=> charge[d][x] # NULL
      OBVIOUS
    <3>1. CASE d = b /\ x \in UnknownSet(charge[b])
      <4>1. charge'[b][x] = [charge[b][x] EXCEPT !.settled = amount]
        BY <1>4, <3>1 DEF ReconcileUnknownCosts, TypeOK
      <4>2. charge[b][x] # NULL /\ charge[b][x] \in ChargeRow /\ amount \in NanoOrNull
        BY <3>1, RowTypes, InputAssumption DEF UnknownSet, IsUnknown, Amounts
      <4>3. [charge[b][x] EXCEPT !.settled = amount] \in ChargeRow
        BY <4>2 DEF ChargeRow
      <4> QED BY <3>1, <4>1, <4>2, <4>3, NullAssumption
    <3>2. CASE ~(d = b /\ x \in UnknownSet(charge[b]))
      BY <1>4, <3>2 DEF ReconcileUnknownCosts, TypeOK
    <3> QED BY <3>1, <3>2
  <2>3. attempt' = attempt
    BY <1>4 DEF ReconcileUnknownCosts
  <2> QED BY <1>1, <2>1, <2>2, <2>3, ScopeKept
<1>5. ASSUME NEW b \in BudgetIds, NEW limit \in Limits, NEW strict \in Strictness,
             ReplaceLimit(b, limit, strict)
      PROVE  ChargesCoverScope'
  <2>1. attempt' = attempt /\ charge' = charge
    BY <1>5 DEF ReplaceLimit
  <2>2. \A d \in BudgetIds : budget'[d] # NULL <=> budget[d] # NULL
    BY <1>1, <1>5 DEF RowsKept, ReplaceLimit, TypeOK
  <2> QED BY <1>1, <2>1, <2>2, ScopeKept
<1>6. CASE ReconcileCrashedRequests
  <2>1. budget' = budget /\ charge' = charge
    BY <1>6 DEF ReconcileCrashedRequests
  <2>2. \A a \in AttemptIds : attempt'[a] # NULL <=> attempt[a] # NULL
    BY <1>1, <1>6 DEF RowsKept, ReconcileCrashedRequests, Crashed, Attempts
  <2> QED BY <1>1, <2>1, <2>2, ScopeKept
<1>7. CASE UNCHANGED <<attempt, budget, charge>>
  BY <1>1, <1>7, ScopeKept
<1>8. ASSUME NEW a \in AttemptIds, NEW r \in Requests, NEW ordinal \in Ordinals,
             NEW cost \in Costs, NEW tierCard \in TierCards,
             NEW rung \in request[r].auth.rungs,
             StartAttempt(a, r, rung, ordinal, cost, tierCard)
      PROVE  ChargesCoverScope'
  BY <1>1, <1>8, TypeStartAttempt, StartScope
<1>9. ASSUME NEW b \in BudgetIds, NEW limit \in Limits, NEW strict \in Strictness,
             CreateLimit(b, limit, strict)
      PROVE  ChargesCoverScope'
  BY <1>1, <1>9, TypeLimits, CreateScope
<1>10. \/ UNCHANGED <<attempt, budget, charge>> \/ Next
  BY DEF vars
<1>11. CASE Next
  <2>1. /\ \A r, auth, window :
            AcceptRequest(r, auth, window) => UNCHANGED <<attempt, budget, charge>>
        /\ \A r, s, certify, n :
            FinishRequest(r, s, certify, n) => UNCHANGED <<attempt, budget, charge>>
        /\ Tick => UNCHANGED <<attempt, budget, charge>>
    BY DEF AcceptRequest, FinishRequest, Tick
  <2> QED BY <1>2, <1>3, <1>4, <1>5, <1>6, <1>7, <1>8, <1>9, <1>11, <2>1 DEF Next
<1> QED BY <1>7, <1>10, <1>11

(* A limit charges exactly the attempts of its month and scope, for every  *)
(* set of scopes: the dispatch's SELECT and the backfill's predicate agree *)
(* on the frozen columns, and no later write adds or removes a charge row. *)
THEOREM ScopeCovered == Spec => []ChargesCoverScope
<1>1. Init => ChargesCoverScope
  BY DEF Init, ChargesCoverScope
<1>2. TypeOK /\ ChargesOwned /\ MoneyInv /\ ChargesCoverScope /\ [Next]_vars
        => ChargesCoverScope'
  BY ScopeStep
<1> QED BY <1>1, <1>2, MoneyInvariant, PTL DEF Spec

(* A dispatch never takes a limit past its cap nor adds an unknown cost to *)
(* a strict one.  With CountersCorrect, which makes the counters the sums  *)
(* of the charges, the cap holds for the charges themselves.               *)
THEOREM DispatchesBounded == Spec => DispatchWithinLimits
<1> DEFINE Bounded ==
        \A a \in AttemptIds, b \in BudgetIds :
            (attempt[a] = NULL /\ attempt'[a] # NULL /\ charge'[b][a] # NULL) =>
                /\ budget[b].strict => budget'[b].unknown = 0
                /\ (charge'[b][a].reserved # NULL /\ charge'[b][a].reserved > 0) =>
                    budget'[b].reserved + budget'[b].settled <= budget[b].limit
<1>1. TypeOK /\ ChargesOwned /\ [Next]_vars => [Bounded]_vars
  <2> SUFFICES ASSUME TypeOK, ChargesOwned, [Next]_vars,
                      NEW a \in AttemptIds, NEW b \in BudgetIds,
                      attempt[a] = NULL, attempt'[a] # NULL, charge'[b][a] # NULL
               PROVE  /\ budget[b].strict => budget'[b].unknown = 0
                      /\ (charge'[b][a].reserved # NULL /\ charge'[b][a].reserved > 0) =>
                          budget'[b].reserved + budget'[b].settled <= budget[b].limit
    OBVIOUS
  <2>1. PICK r \in Requests, ordinal \in Ordinals, cost \in Costs, tierCard \in TierCards :
            \E rung \in request[r].auth.rungs :
                StartAttempt(a, r, rung, ordinal, cost, tierCard)
    BY OnlyDispatchAdds
  <2>2. PICK rung \in request[r].auth.rungs :
            StartAttempt(a, r, rung, ordinal, cost, tierCard)
    BY <2>1
  <2>3. charge[b][a] = NULL
    BY DEF ChargesOwned
  <2>4. budget[b] # NULL /\ Applicable(b, request[r].auth, rung, Period(now))
    BY <2>2, <2>3 DEF StartAttempt
  <2>5. /\ HasRoom(budget[b], cost) /\ budget'[b] = Reserve(budget[b], cost)
        /\ charge'[b][a].reserved = cost
    BY <2>2, <2>4 DEF StartAttempt, TypeOK
  <2>6. budget[b] \in BudgetRow /\ cost \in NanoOrNull
    BY <2>4, RowTypes, InputAssumption
  <2>7. CASE cost = NULL
    BY <2>5, <2>7 DEF HasRoom
  <2>8. CASE cost # NULL
    <3>1. /\ budget'[b].unknown = budget[b].unknown
          /\ budget'[b].reserved = budget[b].reserved + cost
          /\ budget'[b].settled = budget[b].settled
      BY <2>5, <2>6, <2>8 DEF Reserve, BudgetRow
    <3>2. /\ budget[b].reserved \in Int /\ budget[b].settled \in Int
          /\ budget[b].limit \in Int /\ cost \in Int
      BY <2>6, <2>8, BoundAssumption DEF BudgetRow, NanoOrNull, Nano
    <3> QED BY <2>5, <2>8, <3>1, <3>2 DEF HasRoom
  <2> QED BY <2>7, <2>8
<1>2. DispatchWithinLimits <=> [][Bounded]_vars
  BY DEF DispatchWithinLimits
<1> QED BY <1>1, <1>2, MoneyInvariant, PTL DEF Spec
=============================================================================
