------------------------------- MODULE Ledger -------------------------------
(***************************************************************************)
(* The durable attempt ledger of one organization: accepted requests, the  *)
(* physical provider attempts they dispatch, monthly hard limits and the   *)
(* charge row each attempt owns on each limit.  Source:                    *)
(* exp/runtime/gateway/{ledger, ledger_requests, ledger_reconciliation,    *)
(* ledger_service_tiers, ledger_valuation, budgets}.py.                    *)
(*                                                                         *)
(* Every operation is one SQLite transaction (BEGIN IMMEDIATE), so each is *)
(* one atomic action.  An operation that raises rolls back: the condition  *)
(* that raises is a guard, and the refused call is no step.                *)
(*                                                                         *)
(* Data is abstract.  A meter is one provider usage report; the rate cards *)
(* of a deployment and of a service tier are elements of Cards, and Price  *)
(* is what the pure pricing helpers return for a card and a meter.         *)
(***************************************************************************)
EXTENDS Integers, FiniteSets

CONSTANTS
    NULL,              \* SQL NULL
    AttemptIds,        \* attempt ids (uuids), finite
    MaxRequests,       \* bound: requests accepted in one behaviour
    MaxTime,           \* bound: last instant of the wall clock
    MonthLength,       \* instants per UTC budget month
    CleanupGrace,      \* cleanup_grace of reconcile_crashed_requests
    MAXIMUM_NANO_USD,  \* largest amount a ledger column holds
    Authorizations,    \* frozen authorities a caller may present
    Windows,           \* remaining deadline budgets at acceptance
    Closings,          \* <<state, certify, searches>> of finish_request calls
    Ordinals,          \* attempt_ordinal values
    Scopes,            \* budget scopes an operator may limit
    Limits,            \* limit_nano_usd values
    Strictness,        \* strict_unknown_cost values
    Costs,             \* maximum_cost_nano_usd values, NULL when unpriced
    Cards,             \* rate cards
    TierCards,         \* requested-tier cards of an admission, NULL when untiered
    Meters,            \* usage reports
    CompleteMeters,    \* those finish_attempt can price: token totals or billed units
    Price,             \* Price[card][meter]: amount, or NULL when unpriced
    Receipts,          \* service-tier receipts of a settlement, NULL when absent
    Reports            \* terminal reports a settlement may carry

Nano == 0..MAXIMUM_NANO_USD
NanoOrNull == Nano \cup {NULL}
RequestIds == 1..MaxRequests
Periods == {t \div MonthLength : t \in 0..MaxTime}
BudgetIds == Periods \X Scopes

(* An authority is a record: op is the keyed identity of the caller        *)
(* operation (identity, alias revision, surface, key) or NULL, digest the  *)
(* canonical request, root the pool of the accepted alias revision, rungs  *)
(* the (pool, deployment, card) cursors its plan authorizes, direct and    *)
(* decisions its target and surface.                                       *)
TerminalStates == {"completed", "incomplete", "failed", "cancelled"}
AttemptStates == TerminalStates \cup {"dispatched", "unknown_after_crash"}
RequestStates ==
    TerminalStates \cup {"unknown_after_crash", "expired_before_dispatch"}
Sources == {"unknown", "estimated", "observed"}
Tiers == {"hold", "default", "requested"}

(* What finish_attempt receives: the normalized delivery outcome, the      *)
(* meter and the private markers of the terminal event.  Conjuncts are the *)
(* validators of GatewayEvent and native_settlement.                       *)
ReportShape ==
    [state : TerminalStates, usage : Meters \cup {NULL}, estimated : BOOLEAN,
     disconnect : BOOLEAN, recovery : BOOLEAN, release : BOOLEAN,
     guardrail : BOOLEAN, rejected : BOOLEAN]
WellFormed(t) ==
    /\ t.disconnect => t.state = "cancelled"
    /\ t.estimated => /\ t.disconnect \/ t.state = "incomplete"
                      /\ t.usage \in CompleteMeters
    /\ t.release => t.recovery
    /\ t.recovery => /\ t.state \in {"failed", "cancelled"} /\ t.usage = NULL
                     /\ ~t.disconnect /\ ~t.guardrail /\ ~t.rejected
    /\ t.guardrail => t.state \in {"failed", "cancelled"}
    /\ t.rejected => t.state = "failed" /\ t.usage = NULL

(* The rows of gateway_requests, gateway_attempts, gateway_monthly_budgets *)
(* and gateway_attempt_budget_charges.                                     *)
RequestRow ==
    [auth : Authorizations, deadline : Nat, terminal : RequestStates \cup {NULL},
     certified : BOOLEAN, searches : {0, 1}]
Rungs == UNION {auth.rungs : auth \in Authorizations}
AttemptRow ==
    [request : RequestIds, ordinal : Ordinals, rung : Rungs, period : Periods,
     reserved : NanoOrNull, state : AttemptStates, card : Cards,
     admission : [standard : Cards, requested : Cards] \cup {NULL},
     tier : Tiers \cup {NULL}, usage : Meters \cup {NULL}, source : Sources \cup {NULL},
     cost : NanoOrNull, settled : NanoOrNull, recovery : BOOLEAN]
BudgetRow ==
    [limit : Nano, strict : BOOLEAN, reserved : Nat, settled : Nano, unknown : Nat]
ChargeRow == [reserved : NanoOrNull, settled : NanoOrNull]

ASSUME NullAssumption ==
    /\ NULL \notin Int /\ NULL \notin Tiers \cup Sources
    /\ NULL \notin AttemptStates \cup RequestStates
    /\ NULL \notin Cards /\ NULL \notin Meters
    /\ NULL \notin RequestRow /\ NULL \notin AttemptRow
    /\ NULL \notin BudgetRow /\ NULL \notin ChargeRow
    /\ NULL \notin [standard : Cards, requested : Cards]
ASSUME BoundAssumption ==
    /\ MaxRequests \in Nat /\ MaxTime \in Nat /\ MonthLength \in Nat \ {0}
    /\ CleanupGrace \in Nat /\ MAXIMUM_NANO_USD \in Nat
    /\ IsFiniteSet(AttemptIds)
ASSUME InputAssumption ==
    /\ Windows \subseteq Nat /\ Limits \subseteq Nano
    /\ Strictness \subseteq BOOLEAN
    /\ \A s \in Scopes : s.kind \in {"team", "identity", "pool", "deployment"}
    /\ Closings \subseteq TerminalStates \X BOOLEAN \X {0, 1}
    /\ Costs \subseteq NanoOrNull /\ TierCards \subseteq Cards \cup {NULL}
    /\ CompleteMeters \subseteq Meters /\ Receipts \subseteq Tiers \cup {NULL}
    /\ \A auth \in Authorizations : \A rung \in auth.rungs : rung.card \in Cards
    /\ Price \in [Cards -> [Meters -> NanoOrNull]]
    /\ \A c \in Cards, m \in Meters \ CompleteMeters : Price[c][m] = NULL
    /\ \A t \in Reports : t \in ReportShape /\ WellFormed(t)

VARIABLES
    now,       \* the ledger clock
    request,   \* gateway_requests, NULL where no row exists; rowid = index
    attempt,   \* gateway_attempts
    budget,    \* gateway_monthly_budgets, one per (month, scope)
    charge,    \* gateway_attempt_budget_charges[budget][attempt]
    assigned,  \* history: charges an operator settled by hand
    waived     \* history: attempts whose customer charge was waived
vars == <<now, request, attempt, budget, charge, assigned, waived>>

Requests == {r \in RequestIds : request[r] # NULL}
Attempts == {a \in AttemptIds : attempt[a] # NULL}
AttemptsOf(r) == {a \in Attempts : attempt[a].request = r}
Auth(a) == request[attempt[a].request].auth

Init ==
    /\ now = 0
    /\ request = [r \in RequestIds |-> NULL]
    /\ attempt = [a \in AttemptIds |-> NULL]
    /\ budget = [b \in BudgetIds |-> NULL]
    /\ charge = [b \in BudgetIds |-> [a \in AttemptIds |-> NULL]]
    /\ assigned = {}
    /\ waived = {}
-----------------------------------------------------------------------------
(* Acceptance: the newest row of a keyed operation decides whether the key *)
(* may be entered again.                                                   *)
OldestOf(op) == \* mutant: ordered the wrong way
    {r \in Requests : request[r].auth.op = op
        /\ \A q \in Requests : request[q].auth.op = op => q >= r}
PriorOf(op) ==
    {r \in Requests : request[r].auth.op = op
        /\ \A q \in Requests : request[q].auth.op = op => q <= r}

Reenterable(r) ==
    \/ request[r].terminal \in {"expired_before_dispatch", "unknown_after_crash"}
    \/ /\ request[r].terminal = "failed" /\ request[r].certified
       /\ AttemptsOf(r) = {}

(* Bound: requests are accepted while their recovery fits the clock.       *)
FitsClock(window) == now + window + CleanupGrace <= MaxTime

AcceptRequest(r, auth, window) ==
    /\ FitsClock(window)
    /\ r \notin Requests /\ \A q \in RequestIds : q < r => q \in Requests
    /\ auth.op # NULL =>
        \A prior \in PriorOf(auth.op) :
            request[prior].auth.digest = auth.digest /\ Reenterable(prior)
    /\ request' = [request EXCEPT ![r] =
            [auth |-> auth, deadline |-> now + window, terminal |-> NULL,
             certified |-> FALSE, searches |-> 0]]
    /\ UNCHANGED <<now, attempt, budget, charge, assigned, waived>>

FinishUnfenced(r, state, certify, searches) == \* mutant: certifies after a dispatch
    /\ r \in Requests /\ request[r].terminal = NULL
    /\ request' = [request EXCEPT
            ![r].terminal = state, ![r].searches = searches,
            ![r].certified = /\ certify /\ searches = 0
                             /\ request[r].auth.direct /\ state = "failed"]
    /\ UNCHANGED <<now, attempt, budget, charge, assigned, waived>>
FinishRequest(r, state, certify, searches) ==
    /\ r \in Requests /\ request[r].terminal = NULL
    /\ searches > 0 => AttemptsOf(r) = {}
    /\ request' = [request EXCEPT
            ![r].terminal = state, ![r].searches = searches,
            ![r].certified = /\ certify /\ searches = 0
                             /\ request[r].auth.direct /\ state = "failed"
                             /\ AttemptsOf(r) = {}]
    /\ UNCHANGED <<now, attempt, budget, charge, assigned, waived>>
-----------------------------------------------------------------------------
(* Monthly limits.  A budget row holds its limit and three counters; an    *)
(* attempt's charge row is a reservation, an unknown cost (reserved NULL), *)
(* or a settled amount.                                                    *)
Period(t) == t \div MonthLength

ApplicableServing(b, auth, rung, period) == \* mutant: only the serving pool
    LET scope == b[2] IN
    /\ b[1] = period
    /\ \/ scope.kind = "team"
       \/ scope.kind = "identity" /\ scope.identity = auth.identity
       \/ /\ scope.kind \in {"pool", "deployment"} /\ scope.alias = auth.alias
          /\ scope.pool = rung.pool
          /\ scope.kind = "deployment" => scope.deployment = rung.deployment

(* The SELECT of require_attempt_budget: the limits a dispatch consumes.   *)
Applicable(b, auth, rung, period) ==
    LET scope == b[2] IN
    /\ b[1] = period
    /\ \/ scope.kind = "team"
       \/ scope.kind = "identity" /\ scope.identity = auth.identity
       \/ /\ scope.kind = "pool" /\ scope.alias = auth.alias
          /\ scope.pool \in {rung.pool, auth.root}
       \/ /\ scope.kind = "deployment" /\ scope.alias = auth.alias
          /\ scope.pool = rung.pool /\ scope.deployment = rung.deployment

HasUnreservedRoom(row, cost) == \* mutant: forgets what was settled
    /\ row.strict => row.unknown = 0 /\ cost # NULL
    /\ cost # NULL => cost = 0 \/ cost <= row.limit - row.reserved
HasRoomLoosely(row, cost) == \* mutant: overlooks an unknown cost adopted before
    /\ row.strict => cost # NULL
    /\ cost # NULL => cost = 0 \/ cost <= row.limit - (row.reserved + row.settled)
HasRoom(row, cost) ==
    /\ row.strict => row.unknown = 0 /\ cost # NULL
    /\ cost # NULL => \/ cost = 0
                      \/ cost <= row.limit - (row.reserved + row.settled)

Reserve(row, cost) ==
    IF cost = NULL THEN [row EXCEPT !.unknown = @ + 1]
                   ELSE [row EXCEPT !.reserved = @ + cost]

(* start_attempt: the attempt row and every reservation commit together.   *)
StartAttempt(a, r, rung, ordinal, cost, tierCard) ==
    LET period == Period(now)
        rows == {b \in BudgetIds : /\ budget[b] # NULL
                    /\ Applicable(b, request[r].auth, rung, period)}
    IN
    /\ a \notin Attempts /\ r \in Requests
    /\ rung \in request[r].auth.rungs
    /\ request[r].terminal = NULL
    /\ \A x \in AttemptsOf(r) : attempt[x].ordinal # ordinal
    /\ \A b \in rows : HasRoom(budget[b], cost)
    /\ attempt' = [attempt EXCEPT ![a] =
            [request |-> r, ordinal |-> ordinal, rung |-> rung,
             period |-> period, reserved |-> cost, state |-> "dispatched",
             card |-> rung.card,
             admission |-> IF tierCard = NULL THEN NULL
                           ELSE [standard |-> rung.card, requested |-> tierCard],
             tier |-> NULL, usage |-> NULL, source |-> NULL, cost |-> NULL,
             settled |-> NULL, recovery |-> FALSE]]
    /\ budget' = [b \in BudgetIds |->
            IF b \in rows THEN Reserve(budget[b], cost) ELSE budget[b]]
    /\ charge' = [b \in BudgetIds |->
            IF b \in rows
            THEN [charge[b] EXCEPT ![a] = [reserved |-> cost, settled |-> NULL]]
            ELSE charge[b]]
    /\ UNCHANGED <<now, request, assigned, waived>>

(* settle_attempt_budgets moves each held charge of a to settled.          *)
Held(b, a) == charge[b][a] # NULL /\ charge[b][a].settled = NULL

CanSettle(row, c, amount) ==
    /\ row.settled + amount <= MAXIMUM_NANO_USD
    /\ IF c.reserved = NULL THEN row.unknown > 0 ELSE row.reserved >= c.reserved

SettleTwice(row, c, amount) == \* mutant: settles without releasing
    [row EXCEPT !.settled = @ + amount]
SettleRow(row, c, amount) ==
    IF c.reserved = NULL
    THEN [row EXCEPT !.unknown = @ - 1, !.settled = @ + amount]
    ELSE [row EXCEPT !.reserved = @ - c.reserved, !.settled = @ + amount]

SettleAttemptBudgets(a, amount) ==
    LET open == {b \in BudgetIds : amount # NULL /\ Held(b, a)} IN
    /\ \A b \in open : CanSettle(budget[b], charge[b][a], amount)
    /\ budget' = [b \in BudgetIds |->
            IF b \in open THEN SettleRow(budget[b], charge[b][a], amount)
                          ELSE budget[b]]
    /\ charge' = [b \in BudgetIds |->
            IF b \in open THEN [charge[b] EXCEPT ![a] = [@ EXCEPT !.settled = amount]]
                          ELSE charge[b]]

(* _replace_budget_charges: charges still at the automatic amount move to  *)
(* the new one (or are held again when it is NULL); held ones are settled; *)
(* a charge at any other amount is taken to be an operator's.              *)
CanSwap(row, c, previous, amount) ==
    /\ row.settled >= previous
    /\ row.settled - previous + (IF amount = NULL THEN 0 ELSE amount)
            <= MAXIMUM_NANO_USD
    /\ (amount = NULL /\ c.reserved # NULL) =>
            row.reserved + c.reserved <= MAXIMUM_NANO_USD

SwapRow(row, c, previous, amount) ==
    IF amount # NULL THEN [row EXCEPT !.settled = @ - previous + amount]
    ELSE IF c.reserved = NULL
    THEN [row EXCEPT !.settled = @ - previous, !.unknown = @ + 1]
    ELSE [row EXCEPT !.settled = @ - previous, !.reserved = @ + c.reserved]

Automatic(b, a, previous) ==
    charge[b][a] # NULL /\ previous # NULL /\ charge[b][a].settled = previous

ReplaceBudgetCharges(a, previous, amount) ==
    LET swapped == {b \in BudgetIds : Automatic(b, a, previous) /\ previous # amount}
        open == {b \in BudgetIds : amount # NULL /\ Held(b, a)}
    IN
    /\ \A b \in swapped : CanSwap(budget[b], charge[b][a], previous, amount)
    /\ \A b \in open : CanSettle(budget[b], charge[b][a], amount)
    /\ budget' = [b \in BudgetIds |->
            CASE b \in swapped -> SwapRow(budget[b], charge[b][a], previous, amount)
              [] b \in open -> SettleRow(budget[b], charge[b][a], amount)
              [] OTHER -> budget[b]]
    /\ charge' = [b \in BudgetIds |->
            IF b \in swapped \cup open
            THEN [charge[b] EXCEPT ![a] = [@ EXCEPT !.settled = amount]]
            ELSE charge[b]]
-----------------------------------------------------------------------------
(* Valuation of a terminal report. *)
Complete(t) ==
    t.usage \in CompleteMeters /\ ~t.estimated /\ ~t.disconnect

CardCost(card, t) ==
    IF t.usage = NULL \/ (t.disconnect /\ ~t.estimated) THEN NULL
    ELSE Price[card][t.usage]

(* settle_tier: the tier evidence a settlement leaves on the row.  A tiered*)
(* attempt without a receipt, or with an unconfirmed one, is a hold.       *)
SettledTier(row, receipt) ==
    IF row.admission = NULL THEN NULL
    ELSE IF receipt = NULL THEN "hold" ELSE receipt

Confirmed(tier) == tier \in {"default", "requested"}

TierCardCleared(row, tier) == \* mutant: a hold clears the frozen rates
    CASE tier = "default" -> row.admission.standard
      [] tier = "requested" -> row.admission.requested
      [] tier = "hold" -> NULL
      [] OTHER -> row.card

TierCard(row, tier) ==
    CASE tier = "default" -> row.admission.standard
      [] tier = "requested" -> row.admission.requested
      [] OTHER -> row.card

TierCost(row, tier, t) ==
    IF Confirmed(tier) THEN CardCost(TierCard(row, tier), t) ELSE NULL

ReportCost(row, tier, t) ==
    IF tier = NULL THEN CardCost(row.card, t) ELSE TierCost(row, tier, t)

(* budget_settlement_nano_usd, and the cost itself for a tiered attempt.   *)
BudgetSettlement(a, tier, cost, t) ==
    IF tier # NULL \/ cost # NULL THEN cost
    ELSE IF ~Auth(a).decisions THEN attempt[a].reserved
    ELSE IF t.rejected THEN 0 ELSE NULL

SourceLabel(t) ==
    IF t.usage = NULL THEN "unknown"
    ELSE IF t.estimated THEN "estimated" ELSE "observed"

Waive(a, t) == waived' = IF t.release THEN waived \cup {a} ELSE waived

(* The first terminal write of an attempt, and of its request when this    *)
(* attempt is the last of the route.                                       *)
SettleDispatched(a, t, receipt, finalize) ==
    LET row == attempt[a]
        tier == SettledTier(row, receipt)
        cost == ReportCost(row, tier, t)
        settlement == IF t.guardrail \/ t.release THEN 0
                      ELSE BudgetSettlement(a, tier, cost, t)
    IN
    /\ row.state = "dispatched"
    /\ row.admission = NULL => receipt = NULL
    /\ attempt' = [attempt EXCEPT ![a] = [row EXCEPT
            !.state = t.state, !.tier = tier, !.card = TierCard(row, tier),
            !.usage = t.usage, !.source = SourceLabel(t), !.cost = cost,
            !.settled = settlement, !.recovery = t.recovery]]
    /\ SettleAttemptBudgets(a, settlement)
    /\ request' = IF finalize /\ request[row.request].terminal = NULL
                  THEN [request EXCEPT ![row.request].terminal = t.state]
                  ELSE request
    /\ Waive(a, t)

Unresolved(row) ==
    row.recovery \/ row.state \in {"cancelled", "unknown_after_crash"}

(* A waiver after the terminal write: only provisional rows take it.       *)
WaiveTerminal(a, t) ==
    /\ t.release /\ Unresolved(attempt[a])
    /\ ReplaceBudgetCharges(a, attempt[a].settled, 0)
    /\ attempt' = [attempt EXCEPT ![a] = [@ EXCEPT !.settled = 0]]
    /\ Waive(a, t)
    /\ UNCHANGED request

(* _upgrade_observed: a complete meter replaces provisional usage; a charge*)
(* that was decided explicitly is kept.                                    *)
ExplicitDecision(a) == \* mutant: only decision charges are kept
    attempt[a].settled # NULL /\ Auth(a).decisions
ExplicitCharge(a) ==
    LET row == attempt[a]
        provisional == IF row.cost = NULL THEN row.reserved ELSE row.cost
    IN  /\ row.settled # NULL
        /\ Auth(a).decisions \/ row.settled # provisional \/ row.settled = 0

(* A confirmed tier is never contradicted by a later receipt.              *)
AnyReceiptAgrees(row, receipt) == TRUE \* mutant: the last receipt wins
ReceiptAgrees(row, receipt) ==
    Confirmed(row.tier) => receipt \in {NULL, row.tier}

UpgradeObserved(a, t, receipt) ==
    LET row == attempt[a]
        tier == SettledTier(row, IF receipt = NULL THEN row.tier ELSE receipt)
        cost == ReportCost(row, tier, t)
        settlement == IF ExplicitCharge(a) THEN row.settled
                      ELSE IF t.guardrail THEN 0
                      ELSE BudgetSettlement(a, tier, cost, t)
    IN
    /\ ReceiptAgrees(row, receipt)
    /\ row.admission = NULL => receipt = NULL
    /\ ReplaceBudgetCharges(a, row.settled, settlement)
    /\ attempt' = [attempt EXCEPT ![a] = [row EXCEPT
            !.tier = tier, !.card = TierCard(row, tier), !.usage = t.usage,
            !.source = "observed", !.cost = cost, !.settled = settlement]]
    /\ UNCHANGED <<request, waived>>

(* When reconcile_terminal_attempt upgrades: provisional usage, or the     *)
(* same observed meter whose tier price is still owed.                     *)
LateMeter(a, t, receipt) ==
    LET row == attempt[a]
        replayed == ReportCost(row, row.tier, t)
    IN
    /\ ~t.release /\ Complete(t)
    /\ \/ row.source = "estimated"
       \/ row.source = "unknown" /\ Unresolved(row)
       \/ /\ row.source = "observed" /\ row.usage = t.usage
          /\ Confirmed(row.tier) => row.cost \in {NULL, replayed}
          /\ \/ row.tier = "hold" /\ receipt # NULL
             \/ /\ Confirmed(row.tier) /\ row.cost = NULL
                /\ row.recovery \/ row.state = "unknown_after_crash"
    /\ UpgradeObserved(a, t, receipt)

(* _retain_unmetered_tier_receipt: tier evidence without a meter.          *)
AcknowledgesFailure(row, t) ==
    /\ t.usage = NULL /\ t.state \in {"failed", "cancelled"}
    /\ row.recovery \/ row.state = "unknown_after_crash"

RetainTierReceipt(a, t, receipt) ==
    LET row == attempt[a] IN
    /\ ~t.release /\ AcknowledgesFailure(row, t)
    /\ row.admission # NULL /\ Confirmed(receipt) /\ ~Confirmed(row.tier)
    /\ attempt' = [attempt EXCEPT ![a] = [row EXCEPT
            !.tier = receipt, !.card = TierCard(row, receipt)]]
    /\ UNCHANGED <<request, budget, charge, waived>>

(* reconcile_tier_receipt: a confirmed receipt prices the durable estimate.*)
ReconcileTierReceipt(a, t, receipt) ==
    LET row == attempt[a]
        cost == TierCost(row, receipt, t)
    IN
    /\ ~t.release /\ ~Complete(t) /\ ~AcknowledgesFailure(row, t)
    /\ row.state \in {t.state, "unknown_after_crash"}
    /\ row.admission # NULL /\ Confirmed(receipt)
    /\ ReceiptAgrees(row, receipt)
    /\ t.usage # NULL /\ t.usage = row.usage
    /\ row.source \in {"observed", "estimated"}
    /\ (row.source = "estimated") = t.estimated
    /\ row.settled = NULL /\ cost # NULL
    /\ attempt' = [attempt EXCEPT ![a] = [row EXCEPT
            !.tier = receipt, !.card = TierCard(row, receipt),
            !.cost = cost, !.settled = cost]]
    /\ SettleAttemptBudgets(a, cost)
    /\ UNCHANGED <<request, waived>>

FinishAttempt(a, t, receipt, finalize) ==
    /\ a \in Attempts
    /\ \/ SettleDispatched(a, t, receipt, finalize)
       \/ /\ attempt[a].state # "dispatched"
          /\ \/ WaiveTerminal(a, t)
             \/ LateMeter(a, t, receipt)
             \/ RetainTierReceipt(a, t, receipt)
             \/ ReconcileTierReceipt(a, t, receipt)
    /\ UNCHANGED <<now, assigned>>
-----------------------------------------------------------------------------
(* Operators and restart. *)
ReconcileDecisionRow(a, amount) == \* mutant: leaves the limits held
    /\ a \in Attempts /\ Auth(a).decisions
    /\ attempt[a].state # "dispatched" /\ attempt[a].source = "unknown"
    /\ attempt[a].reserved # NULL /\ attempt[a].settled = NULL
    /\ attempt' = [attempt EXCEPT ![a] = [@ EXCEPT !.settled = amount]]
    /\ UNCHANGED <<now, request, budget, charge, assigned, waived>>
ReconcileDecisionLiability(a, amount) ==
    LET row == attempt[a] IN
    /\ a \in Attempts /\ Auth(a).decisions
    /\ row.state # "dispatched" /\ row.source = "unknown"
    /\ row.reserved # NULL /\ row.settled = NULL
    /\ SettleAttemptBudgets(a, amount)
    /\ attempt' = [attempt EXCEPT ![a] = [row EXCEPT !.settled = amount]]
    /\ UNCHANGED <<now, request, assigned, waived>>

(* Total(f): the nano-USD of a family of amounts, as the number of units.  *)
Units(f) == {u \in AttemptIds \X (1..MAXIMUM_NANO_USD) : u[2] <= f[u[1]]}
Total(f) == Cardinality(Units(f))

ReservedOf(c) ==
    IF c = NULL \/ c.settled # NULL \/ c.reserved = NULL THEN 0 ELSE c.reserved
SettledOf(c) == IF c = NULL \/ c.settled = NULL THEN 0 ELSE c.settled
IsUnknown(c) == c # NULL /\ c.settled = NULL /\ c.reserved = NULL

ReservedTotal(charges) == Total([a \in AttemptIds |-> ReservedOf(charges[a])])
SettledTotal(charges) == Total([a \in AttemptIds |-> SettledOf(charges[a])])
UnknownSet(charges) == {a \in AttemptIds : IsUnknown(charges[a])}

ReconcileUnknownCosts(b, amount) ==
    LET unknown == UnknownSet(charge[b])
        added == amount * Cardinality(unknown)
    IN
    /\ budget[b] # NULL /\ unknown # {}
    /\ Cardinality(unknown) = budget[b].unknown
    /\ budget[b].settled + added <= MAXIMUM_NANO_USD
    /\ charge' = [charge EXCEPT ![b] = [a \in AttemptIds |->
            IF a \in unknown THEN [charge[b][a] EXCEPT !.settled = amount]
                             ELSE charge[b][a]]]
    /\ budget' = [budget EXCEPT ![b] = [budget[b] EXCEPT
            !.unknown = @ - Cardinality(unknown), !.settled = @ + added]]
    /\ assigned' = assigned \cup ({b} \X unknown)
    /\ UNCHANGED <<now, request, attempt, waived>>

(* _attempt_scope_predicate: the prior attempts a new limit adopts.        *)
InScope(b, a) ==
    LET scope == b[2]  row == attempt[a] IN
    /\ row.period = b[1]
    /\ CASE scope.kind = "team" -> TRUE
         [] scope.kind = "identity" -> scope.identity = Auth(a).identity
         [] scope.kind = "pool" ->
                /\ scope.alias = Auth(a).alias
                /\ row.rung.pool = scope.pool \/ Auth(a).root = scope.pool
         [] OTHER -> /\ scope.alias = Auth(a).alias
                     /\ row.rung.pool = scope.pool
                     /\ row.rung.deployment = scope.deployment

HistoricalSettlement(row) ==
    IF row.settled # NULL THEN row.settled
    ELSE IF row.reserved # NULL THEN NULL ELSE row.cost

BackfillCharges(b) ==
    [a \in AttemptIds |->
        IF a \in Attempts /\ InScope(b, a)
        THEN LET settled == HistoricalSettlement(attempt[a]) IN
             [reserved |-> IF settled = NULL THEN attempt[a].reserved ELSE NULL,
              settled |-> settled]
        ELSE NULL]

(* set_limit creates a limit over every prior attempt of its scope, or     *)
(* replaces limit and strictness without touching the month's spend.       *)
CreateLimit(b, limit, strict) ==
    LET charges == BackfillCharges(b) IN
    /\ budget[b] = NULL
    /\ ReservedTotal(charges) <= MAXIMUM_NANO_USD
    /\ SettledTotal(charges) <= MAXIMUM_NANO_USD
    /\ charge' = [charge EXCEPT ![b] = charges]
    /\ budget' = [budget EXCEPT ![b] =
            [limit |-> limit, strict |-> strict,
             reserved |-> ReservedTotal(charges), settled |-> SettledTotal(charges),
             unknown |-> Cardinality(UnknownSet(charges))]]
    /\ UNCHANGED <<now, request, attempt, assigned, waived>>

ReplaceLimit(b, limit, strict) ==
    /\ budget[b] # NULL
    /\ budget[b].limit # limit \/ budget[b].strict # strict
    /\ budget' = [budget EXCEPT ![b] = [@ EXCEPT !.limit = limit, !.strict = strict]]
    /\ UNCHANGED <<now, request, attempt, charge, assigned, waived>>

(* reconcile_crashed_requests, run at start-up over what a dead process    *)
(* left: expired requests that never dispatched, then dispatched attempts  *)
(* past deadline and grace.  Reservations stay held.                       *)
Expired == {r \in Requests : /\ request[r].terminal = NULL /\ AttemptsOf(r) = {}
                             /\ request[r].deadline <= now}
CrashedAny == {a \in Attempts : \* mutant: settled attempts too
                request[attempt[a].request].deadline + CleanupGrace <= now}
CrashedOpen == {a \in Attempts : \* mutant: only under open requests
                /\ attempt[a].state = "dispatched"
                /\ request[attempt[a].request].terminal = NULL
                /\ request[attempt[a].request].deadline + CleanupGrace <= now}
Crashed == {a \in Attempts :
                /\ attempt[a].state = "dispatched"
                /\ request[attempt[a].request].deadline + CleanupGrace <= now}

ReconcileCrashedRequests ==
    /\ Expired \cup Crashed # {}
    /\ attempt' = [a \in AttemptIds |->
            IF a \in Crashed
            THEN [attempt[a] EXCEPT !.state = "unknown_after_crash",
                                    !.source = "unknown"]
            ELSE attempt[a]]
    /\ request' = [r \in RequestIds |->
            IF r \in Expired
            THEN [request[r] EXCEPT !.terminal = "expired_before_dispatch"]
            ELSE IF /\ r \in Requests /\ request[r].terminal = NULL
                    /\ AttemptsOf(r) \cap Crashed # {}
            THEN [request[r] EXCEPT !.terminal = "unknown_after_crash"]
            ELSE request[r]]
    /\ UNCHANGED <<now, budget, charge, assigned, waived>>

Tick == /\ now < MaxTime /\ now' = now + 1
        /\ UNCHANGED <<request, attempt, budget, charge, assigned, waived>>

Amounts == Costs \ {NULL}
Next ==
    \/ \E r \in RequestIds, auth \in Authorizations, window \in Windows :
            AcceptRequest(r, auth, window)
    \/ \E r \in RequestIds, end \in Closings :
            FinishRequest(r, end[1], end[2], end[3])
    \/ \E a \in AttemptIds, r \in Requests, ordinal \in Ordinals,
          cost \in Costs, tierCard \in TierCards :
            \E rung \in request[r].auth.rungs :
                StartAttempt(a, r, rung, ordinal, cost, tierCard)
    \/ \E a \in AttemptIds, t \in Reports, receipt \in Receipts,
          finalize \in BOOLEAN :
            FinishAttempt(a, t, receipt, finalize)
    \/ \E a \in AttemptIds, amount \in Amounts :
            ReconcileDecisionLiability(a, amount)
    \/ \E b \in BudgetIds, amount \in Amounts : ReconcileUnknownCosts(b, amount)
    \/ \E b \in BudgetIds, limit \in Limits, strict \in Strictness :
            CreateLimit(b, limit, strict) \/ ReplaceLimit(b, limit, strict)
    \/ ReconcileCrashedRequests
    \/ Tick

Spec == Init /\ [][Next]_vars
FairSpec == Spec /\ WF_vars(Tick) /\ WF_vars(ReconcileCrashedRequests)
-----------------------------------------------------------------------------
(* Every table holds rows of its schema, and every attempt row refers to a *)
(* request row: the column types and foreign key of sqlite/migrations.py.  *)
TypeOK ==
    /\ now \in 0..MaxTime
    /\ request \in [RequestIds -> RequestRow \cup {NULL}]
    /\ attempt \in [AttemptIds -> AttemptRow \cup {NULL}]
    /\ budget \in [BudgetIds -> BudgetRow \cup {NULL}]
    /\ charge \in [BudgetIds -> [AttemptIds -> ChargeRow \cup {NULL}]]
    /\ assigned \subseteq BudgetIds \X AttemptIds
    /\ waived \subseteq AttemptIds
    /\ \A a \in Attempts : attempt[a].request \in Requests

(* The materialized counters of every limit are exactly its charge rows:   *)
(* reserved and settled are their sums and unknown_cost_attempts their     *)
(* number, through reservation, settlement, late upgrade, waiver, operator *)
(* assignment and backfill.  The "monthly budget counters are inconsistent"*)
(* errors of budgets.py and ledger_reconciliation.py are then unreachable. *)
CountersConserved ==
    \A b \in BudgetIds : budget[b] # NULL =>
        /\ budget[b].reserved = ReservedTotal(charge[b])
        /\ budget[b].settled = SettledTotal(charge[b])
        /\ budget[b].unknown = Cardinality(UnknownSet(charge[b]))

(* A limit charges exactly the attempts of its month and scope, whether it *)
(* existed at dispatch (require_attempt_budget) or was created later       *)
(* (_backfill_budget), also when the attempt settles in another month.     *)
ChargesCoverScope ==
    \A b \in BudgetIds, a \in AttemptIds :
        charge[b][a] # NULL <=> budget[b] # NULL /\ a \in Attempts /\ InScope(b, a)

(* Every charge an operator did not assign agrees with its attempt: all    *)
(* limits an attempt consumes carry its one customer charge, or all hold.  *)
ChargesFollowAttempt ==
    \A b \in BudgetIds, a \in AttemptIds :
        charge[b][a] # NULL /\ <<b, a>> \notin assigned =>
            charge[b][a].settled = attempt[a].settled

(* A dispatch never takes any limit it consumes past its hard cap, and     *)
(* never adds an unknown cost to a strict limit, however many attempts     *)
(* were reserved, settled or adopted before it.                            *)
DispatchWithinLimits ==
    [][\A a \in AttemptIds, b \in BudgetIds :
        (attempt[a] = NULL /\ attempt'[a] # NULL /\ charge'[b][a] # NULL) =>
            /\ budget[b].strict => budget'[b].unknown = 0
            /\ (charge'[b][a].reserved # NULL /\ charge'[b][a].reserved > 0) =>
                    budget'[b].reserved + budget'[b].settled <= budget[b].limit]_vars

(* One caller operation has one effective execution: an older request row  *)
(* of the same key carries the same content and ended in a state that      *)
(* permits re-entry, and a late write never takes it out of that state.    *)
OneExecutionPerOperation ==
    \A q, r \in Requests :
        (q < r /\ request[q].auth.op # NULL /\ request[q].auth.op = request[r].auth.op)
            => request[q].auth.digest = request[r].auth.digest /\ Reenterable(q)

(* A no-effects certificate is issued only for a failed direct request and *)
(* stays true: no attempt is ever dispatched under a certified request.    *)
CertificateSound ==
    \A r \in Requests : request[r].certified =>
        /\ request[r].terminal = "failed" /\ request[r].auth.direct
        /\ request[r].searches = 0 /\ AttemptsOf(r) = {}

(* The first delivery outcome is final: replays, late meters, waivers and  *)
(* restart recovery never rewrite an attempt's or a request's terminal     *)
(* state, a request's certificate or an attempt's frozen reservation.      *)
DeliveryImmutable ==
    [][/\ \A a \in AttemptIds : attempt[a] # NULL =>
            /\ attempt[a].state # "dispatched" => attempt'[a].state = attempt[a].state
            /\ attempt'[a].reserved = attempt[a].reserved
            /\ attempt'[a].period = attempt[a].period
       /\ \A r \in RequestIds :
            request[r] # NULL /\ request[r].terminal # NULL =>
                request'[r] = request[r]]_vars

(* Observed evidence is final: once a provider meter is durable it is never*)
(* replaced, a priced cost under it never changes, and a confirmed tier is *)
(* never contradicted.                                                     *)
EvidenceImmutable ==
    [][\A a \in AttemptIds : attempt[a] # NULL =>
        LET old == attempt[a]  new == attempt'[a] IN
        /\ old.source = "observed" =>
            /\ new.source = "observed" /\ new.usage = old.usage
            /\ old.cost # NULL => new.cost = old.cost
        /\ Confirmed(old.tier) => new.tier = old.tier]_vars

(* A customer waiver is permanent: a late exact meter, tier receipt or     *)
(* operator assignment records evidence but never charges the customer     *)
(* again (stream_contracts.py, for_accounting_recovery).                   *)
WaiverPermanent ==
    \A a \in waived :
        /\ attempt[a].settled = 0
        /\ \A b \in BudgetIds :
            charge[b][a] # NULL /\ <<b, a>> \notin assigned => charge[b][a].settled = 0

(* Restart recovery is complete for attempts: every dispatched attempt is  *)
(* eventually terminal even if the process that owned it never returns.    *)
AttemptsClose ==
    \A a \in AttemptIds :
        (a \in Attempts) ~> (a \in Attempts /\ attempt[a].state # "dispatched")

(* docs/reference/gateway-architecture.md:561: "The parent request         *)
(* terminalizes once after success, final failure, cancellation,           *)
(* disconnect, or crash reconciliation."                                   *)
RequestsTerminalize ==
    \A r \in RequestIds :
        (r \in Requests) ~> (r \in Requests /\ request[r].terminal # NULL)
=============================================================================
