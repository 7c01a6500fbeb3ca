---------------------------- MODULE RouteHealth ----------------------------
(***************************************************************************)
(* Deployment circuits, throttle windows and lane ejection of one gateway  *)
(* worker (health.py, lane_ejection.py), with the requests that claim,     *)
(* dial, skip and report the rungs of their routes (native_execution.py,   *)
(* failover_pass.py, the reservation walk of native_accounting.py).        *)
(*                                                                         *)
(* Every health method is one acquisition of the registry's lock and one   *)
(* step here, so the claims of several walks interleave between passes.    *)
(* Monotonic instants are kept relative to now: what remains of a window,  *)
(* the age of a failure or of a probe.  Tick lets one unit of time pass.   *)
(***************************************************************************)
EXTENDS Integers, Sequences, SequencesExt, FiniteSets, FiniteSetsExt

CONSTANTS Requests,        \* the requests a worker serves at the same time
          Keys,            \* health keys: (catalog, deployment, connection)
          Lanes,           \* physical lanes: (deployment, connection)
          Lane,            \* the lane behind each key
          Route,           \* the keys of each request's route, in its order
          Outcomes,        \* how a dispatch on each key can end
          Stated,          \* the waits a provider states on a throttle or a window
          Threshold, OpenTime, ThrottleTime,       \* DeploymentHealthRegistry
          RetryMin, RetryMax, PlanMax,             \* the clamps of health.py
          LaneFailures, LaneWindow,                \* LaneEjectionPolicy
          HeaderTimeouts, HeaderWindow, Cooldown,
          MaxTotal, MaxSame, Redials,              \* attempt policy and redial budget
          NULL

ASSUME RouteAssumption ==
  /\ Lane \in [Keys -> Lanes]
  /\ \A r \in Requests : Route[r] \in Seq(Keys)
  /\ {Threshold, OpenTime, ThrottleTime, LaneWindow, HeaderWindow, Cooldown, MaxTotal,
      MaxSame} \subseteq Nat \ {0}
  /\ {LaneFailures, HeaderTimeouts, RetryMin, RetryMax, PlanMax, Redials} \subseteq Nat
  /\ Stated \subseteq Nat

VARIABLES health,   \* per key: DeploymentHealthRegistry._states
          lane,     \* per lane: LaneEjections._lanes
          req       \* per request: the reservation walk and its in-flight dispatch

vars == <<health, lane, req>>

Depths(r) == 1..Len(Route[r])

(***************************************************************************)
(* Failure classification.  An outcome stands for the failure classes the  *)
(* registry, the lanes and the ladder treat alike:                         *)
(*   transport  refused, reset, 5xx: the box is down                       *)
(*   hang       header timeout on the lane's own allowance                 *)
(*   timeout    other timeouts and malformed streams                       *)
(*   credential, throttled, refusal, client   as named                     *)
(*   retired    a connection the provider retired gracefully               *)
(***************************************************************************)
Transport(o)  == o \in {"transport", "hang", "timeout"}
Dead(o)       == o = "transport"
Hung(o)       == HeaderTimeouts > 0 /\ o = "hang"
Redialable(o) == o \in {"transport", "timeout", "retired"}
Advances(o)   == o \in {"transport", "timeout", "retired", "hang", "credential",
                        "throttled", "refusal"}

Failures == {"transport", "hang", "timeout", "credential", "throttled", "refusal", "client"}

Clamp(low, high, n) == Min({Max({n, low}), high})

-----------------------------------------------------------------------------
(* Lane ejection. *)

FreshLane == [failures |-> <<>>, timeouts |-> <<>>, ejected |-> NULL, probe |-> NULL]

ProbeNeverExpires(s) == \* mutant: a probe in flight never expires
  /\ s.ejected # NULL
  /\ s.ejected > 0 \/ s.probe # NULL

\* Ordered last: inside the cooldown, or while a live probe is in flight.
Ejected(s) ==
  /\ s.ejected # NULL
  /\ s.ejected > 0 \/ (s.probe # NULL /\ s.probe < Cooldown)

LaneClaimed(s) ==
  IF s.ejected = 0 /\ (s.probe = NULL \/ s.probe >= Cooldown)
  THEN [s EXCEPT !.probe = 0]
  ELSE s

LaneReleased(s) == [s EXCEPT !.probe = NULL]

\* The streak with a failure added now: its last n entries.
Streak(ages, n) == LET all == Append(ages, 0) IN SubSeq(all, Max({1, Len(all) - n + 1}), Len(all))
Full(ages, n, window) == Len(ages) = n /\ Head(ages) <= window

LaneFailed(s, o) ==
  LET dead  == Streak(s.failures, LaneFailures)
      hung  == Streak(s.timeouts, HeaderTimeouts)
  IN CASE LaneFailures = 0 -> s
       [] LaneFailures > 0 /\ ~(Dead(o) \/ Hung(o)) -> LaneReleased(s)
       [] LaneFailures > 0 /\ (Dead(o) \/ Hung(o)) /\ s.ejected = 0 ->
            [s EXCEPT !.ejected = Cooldown, !.probe = NULL]
       [] LaneFailures > 0 /\ (Dead(o) \/ Hung(o)) /\ s.ejected # 0 ->
            IF \/ Dead(o) /\ Full(dead, LaneFailures, LaneWindow)
               \/ ~Dead(o) /\ Full(hung, HeaderTimeouts, HeaderWindow)
            THEN [FreshLane EXCEPT !.ejected = Cooldown]
            ELSE [s EXCEPT !.failures = IF Dead(o) THEN dead ELSE @,
                           !.timeouts = IF Dead(o) THEN @ ELSE hung,
                           !.probe = NULL]

-----------------------------------------------------------------------------
(* Circuits and throttle windows. *)

FreshHealth ==
  [failures |-> 0, open |-> 0, throttle |-> 0, half |-> FALSE, last |-> FALSE]

\* What claim, claim_last_resort and claim_forced ask of a key, in pass order,
\* and the probe each takes (claim takes one only once the circuit is due).
Tripped(h) == h.failures >= Threshold

Claimable(h) == h.throttle = 0 /\ h.open = 0 /\ ~(Tripped(h) /\ h.half)

Grants(h, pass) ==
  /\ h.throttle = 0
  /\ pass = 1 => Claimable(h)
  /\ pass = 2 => ~h.last

Probe(h, pass) ==
  CASE pass = 1 /\ Tripped(h) -> "half" [] pass = 2 -> "last" [] OTHER -> NULL

Taken(h, probe) == [h EXCEPT !.half = @ \/ probe = "half", !.last = @ \/ probe = "last"]

\* succeeded and dispatch_opened.
Restored(h) == [h EXCEPT !.failures = 0, !.open = 0, !.half = FALSE, !.last = FALSE]

ForgetsHalf(h) == \* mutant: the half-open probe is not given back
  [h EXCEPT !.last = FALSE]

Released(h) == [h EXCEPT !.half = FALSE, !.last = FALSE]

Throttled(h, wait) == [h EXCEPT !.throttle = Max({@, wait})]

\* consecutive_failures counts up to the threshold: only that comparison is made.
Failed(h, o, wait) ==
  LET f == Released(h)
      n == IF o = "credential" THEN Threshold ELSE Min({f.failures + 1, Threshold})
  IN CASE o = "throttled" -> Throttled(f, wait)
       [] o = "credential" \/ Transport(o) ->
            [f EXCEPT !.failures = n, !.open = IF n = Threshold THEN OpenTime ELSE @]
       [] OTHER -> f

\* The window of a throttle: the provider's own wait clamped, or the default.
ThrottleWaits == {ThrottleTime} \cup {Clamp(RetryMin, RetryMax, n) : n \in Stated}
PlanWaits == {Clamp(RetryMin, PlanMax, n) : n \in Stated}

-----------------------------------------------------------------------------
(* A request's reservation walk. *)

Idle(r) ==
  [pc |-> "idle", place |-> <<>>, pass |-> 1, asked |-> {}, cand |-> 0, holds |-> NULL,
   depth |-> 0, fail |-> NULL, counts |-> [d \in Depths(r) |-> 0], redials |-> 0,
   ladder |-> {}, sheds |-> <<>>, forced |-> {}, forcing |-> FALSE, denied |-> FALSE]

Init ==
  /\ health = [k \in Keys |-> FreshHealth]
  /\ lane = [l \in Lanes |-> FreshLane]
  /\ req = [r \in Requests |-> Idle(r)]

Key(r, d) == Route[r][d]

\* The dials of a request: the sum of its counts, kept as a set of dials.
Dials(q) == UNION {{d} \X (1..q.counts[d]) : d \in DOMAIN q.counts}
Total(q) == Cardinality(Dials(q))

\* The place of each depth in S: live lanes in route order, then the ejected ones.
Order(r, S) ==
  [d \in S |-> IF Ejected(lane[Lane[Key(r, d)]]) THEN Len(Route[r]) + d ELSE d]

\* claim_route_from over the depths S: three passes over one fixed order.
Walk(q, r, S) ==
  IF S = {} THEN [q EXCEPT !.pc = "spent"]
            ELSE [q EXCEPT !.pc = "walk", !.place = Order(r, S)]

Unasked(q) == DOMAIN q.place \ q.asked

NextAsk(q, d) ==
  CASE Unasked(q) # {d}                -> [q EXCEPT !.asked = @ \cup {d}]
    [] Unasked(q) = {d} /\ q.pass < 3 -> [q EXCEPT !.asked = {}, !.pass = @ + 1]
    [] Unasked(q) = {d} /\ q.pass = 3 ->
         [q EXCEPT !.pc = "spent", !.place = <<>>, !.asked = {}, !.pass = 1]

Chosen(q, d, probe) ==
  [q EXCEPT !.pc = "claimed", !.cand = d, !.holds = probe,
            !.place = <<>>, !.asked = {}, !.pass = 1]

Claim(r) ==
  LET q == req[r] IN
  /\ q.pc = "walk"
  /\ \E d \in Unasked(q) :
       LET k == Key(r, d)
           probe == Probe(health[k], q.pass)
       IN /\ \A e \in Unasked(q) : q.place[d] <= q.place[e]
          /\ \/ /\ Grants(health[k], q.pass)
                /\ health' = [health EXCEPT ![k] = Taken(@, probe)]
                /\ lane' = [lane EXCEPT ![Lane[k]] = LaneClaimed(@)]
                /\ req' = [req EXCEPT ![r] = Chosen(q, d, probe)]
             \/ /\ ~Grants(health[k], q.pass)
                /\ req' = [req EXCEPT ![r] = NextAsk(q, d)]
                /\ UNCHANGED <<health, lane>>

\* The first dial of a request.
Begin(r) ==
  /\ req[r].pc = "idle"
  /\ req' = [req EXCEPT ![r] = Walk(Idle(r), r, Depths(r))]
  /\ UNCHANGED <<health, lane>>

AnyOther(q) == \* mutant: depths already dialed included
  {d \in DOMAIN q.counts : d # q.depth}

\* Every depth not dispatched yet, earlier ones included.
Untried(q) == {d \in DOMAIN q.counts : q.counts[d] = 0 /\ d # q.depth}

MayRedial(r) ==
  LET q == req[r] IN
  /\ Redialable(q.fail)
  /\ q.counts[q.depth] < MaxSame
  /\ Grants(health[Key(r, q.depth)], 1)

\* next_route_candidate: the same deployment again while its count and a claim allow.
Redial(r) ==
  LET q == req[r]
      k == Key(r, q.depth)
      probe == Probe(health[k], 1)
  IN /\ q.pc = "next"
     /\ Total(q) < MaxTotal
     /\ MayRedial(r)
     /\ health' = [health EXCEPT ![k] = Taken(@, probe)]
     /\ lane' = [lane EXCEPT ![Lane[k]] = LaneClaimed(@)]
     /\ req' = [req EXCEPT ![r] = Chosen([q EXCEPT !.ladder = Untried(q)], q.depth, probe)]

\* After the pool's backoff: through the rung's own throttle window, no probe taken.
RedialThrottled(r) ==
  LET q == req[r] IN
  /\ q.pc = "next"
  /\ Total(q) < MaxTotal
  /\ q.fail = "throttled"
  /\ q.redials < Redials
  /\ health[Key(r, q.depth)].open = 0
  /\ req' = [req EXCEPT ![r] =
       Chosen([q EXCEPT !.ladder = Untried(q), !.redials = @ + 1], q.depth, NULL)]
  /\ UNCHANGED <<health, lane>>

\* Advance to the rungs not dialed yet; a failure that may not advance, or a
\* throttle the pool surfaces to keep its cache, ends the ladder instead.
Failover(r) ==
  LET q == req[r] IN
  /\ q.pc = "next"
  /\ Total(q) < MaxTotal
  /\ ~MayRedial(r)
  /\ Advances(q.fail)
  /\ req' = [req EXCEPT ![r] = Walk([q EXCEPT !.ladder = Untried(q)], r, Untried(q))]
  /\ UNCHANGED <<health, lane>>

EndLadder(r) ==
  LET q == req[r] IN
  /\ q.pc = "next"
  /\ Total(q) >= MaxTotal \/ ~Advances(q.fail) \/ q.fail = "throttled"
  /\ req' = [req EXCEPT ![r] = Idle(r)]
  /\ UNCHANGED <<health, lane>>

KeepClaim(k) == \* mutant: a skipped rung keeps its claim
  UNCHANGED <<health, lane>>

\* release_probe: a claim that never reached dispatch.
Release(k) ==
  /\ health' = [health EXCEPT ![k] = Released(@)]
  /\ lane' = [lane EXCEPT ![Lane[k]] = LaneReleased(@)]

\* Where a shed or skipped candidate spills: a first dial only to later depths,
\* a failover to the rest of its ladder, a forced pass nowhere.
Sideways(q, r) ==
  CASE q.depth = 0 -> Walk(q, r, {d \in Depths(r) : d > q.cand})
    [] q.depth # 0 /\ q.forcing -> [q EXCEPT !.pc = "spent", !.forcing = FALSE]
    [] q.depth # 0 /\ ~q.forcing ->
         LET rest == q.ladder \ {q.cand} IN Walk([q EXCEPT !.ladder = rest], r, rest)

Unclaimed(q) == [q EXCEPT !.holds = NULL]

\* The rung's load registry refuses the slot; a pinned or redialed rung may keep
\* the request, its claim given back, to be forced past the bound.
Shed(r) ==
  LET q == Unclaimed(req[r])
      noted == [q EXCEPT !.sheds = IF q.cand \in ToSet(@) THEN @ ELSE Append(@, q.cand)]
  IN /\ q.pc = "claimed"
     /\ Release(Key(r, q.cand))
     /\ \E next \in {Sideways(noted, r), noted} : req' = [req EXCEPT ![r] = next]

\* The rung's own monthly budget, or its pool, cannot admit the call.
Deny(r) ==
  LET q == Unclaimed(req[r]) IN
  /\ q.pc = "claimed"
  /\ Release(Key(r, q.cand))
  /\ req' = [req EXCEPT ![r] = Sideways([q EXCEPT !.denied = TRUE], r)]

\* Deadline, cancellation, attempt limits, a request-wide budget, a ledger error.
Quit(r) ==
  /\ req[r].pc = "claimed"
  /\ Release(Key(r, req[r].cand))
  /\ req' = [req EXCEPT ![r] = Idle(r)]

Dispatch(r) ==
  LET q == req[r] IN
  /\ q.pc = "claimed"
  /\ req' = [req EXCEPT ![r] =
       [q EXCEPT !.pc = "flight", !.depth = q.cand, !.cand = 0, !.fail = NULL,
                 !.counts = [d \in Depths(r) |-> q.counts[d] + (IF d = q.cand THEN 1 ELSE 0)],
                 !.redials = IF q.cand = q.depth THEN @ ELSE 0,
                 !.ladder = {}, !.sheds = <<>>, !.forced = {}, !.forcing = FALSE,
                 !.denied = FALSE]]
  /\ UNCHANGED <<health, lane>>

\* A first dial whose ladder only shed is put on a shed rung, unclaimed.
Overflow(r, d) ==
  LET q == req[r] IN
  /\ q.pc = "spent"
  /\ q.depth = 0 /\ ~q.denied
  /\ d \in ToSet(q.sheds) \ q.forced
  /\ req' = [req EXCEPT ![r] = Chosen([q EXCEPT !.forced = @ \cup {d}], d, NULL)]
  /\ UNCHANGED <<health, lane>>

\* A dead-lane failover claims its first unforced shed rung again.
ForcedTarget(r) ==
  LET q == req[r]
      Left(d) == d \notin q.forced /\ d # q.depth
  IN /\ q.pc = "spent"
     /\ q.depth # 0 /\ Dead(q.fail)
     /\ \E i \in DOMAIN q.sheds :
          /\ Left(q.sheds[i]) /\ \A j \in 1..(i - 1) : ~Left(q.sheds[j])
          /\ req' = [req EXCEPT ![r] =
               Walk([q EXCEPT !.forced = @ \cup {q.sheds[i]}, !.forcing = TRUE], r, {q.sheds[i]})]
     /\ UNCHANGED <<health, lane>>

\* Nothing claimable, or no shed the bounds let a request force.
GiveUp(r) ==
  /\ req[r].pc = "spent"
  /\ req' = [req EXCEPT ![r] = Idle(r)]
  /\ UNCHANGED <<health, lane>>

-----------------------------------------------------------------------------
(* record_attempt_health: the report of a settled or abandoned dispatch. *)

Succeeds(r) ==
  LET k == Key(r, req[r].depth) IN
  /\ req[r].pc = "flight"
  /\ "success" \in Outcomes[k]
  /\ \E plan \in PlanWaits \cup {0} :
       health' = [health EXCEPT ![k] = Throttled(Restored(@), plan)]
  /\ lane' = [lane EXCEPT ![Lane[k]] = FreshLane]
  /\ req' = [req EXCEPT ![r] = Idle(r)]

Continues(r, o) == [Unclaimed(req[r]) EXCEPT !.pc = "next", !.fail = o]

Fails(r, o) ==
  LET k == Key(r, req[r].depth) IN
  /\ req[r].pc = "flight"
  /\ o \in Outcomes[k]
  /\ \E opened \in BOOLEAN, wait \in ThrottleWaits, plan \in PlanWaits \cup {0} :
       /\ health' = [health EXCEPT ![k] =
            Throttled(Failed(IF opened THEN Restored(@) ELSE @, o, wait), plan)]
       /\ lane' = [lane EXCEPT ![Lane[k]] = LaneFailed(IF opened THEN FreshLane ELSE @, o)]
  /\ \E next \in {Idle(r), Continues(r, o)} : req' = [req EXCEPT ![r] = next]

Retires(r) ==
  LET k == Key(r, req[r].depth) IN
  /\ req[r].pc = "flight"
  /\ "retired" \in Outcomes[k]
  /\ Release(k)
  /\ \E next \in {Idle(r), Continues(r, "retired")} : req' = [req EXCEPT ![r] = next]

\* An abandoned request reports a cancellation, or the failure that came with
\* its abandonment; when the ledger write fails it keeps its attempt and
\* reports again.
Abandon(r, o) ==
  LET k == Key(r, req[r].depth) IN
  /\ req[r].pc = "flight"
  /\ o \in Outcomes[k] \cup {"client"}
  /\ health' = [health EXCEPT ![k] = Failed(@, o, ThrottleTime)]
  /\ lane' = [lane EXCEPT ![Lane[k]] = LaneFailed(@, o)]
  /\ \E next \in {Idle(r), Unclaimed(req[r])} : req' = [req EXCEPT ![r] = next]

Down(n) == Max({n - 1, 0})
Aged(n, bound) == Min({n + 1, bound})
AgedAll(ages, bound) == [i \in DOMAIN ages |-> Aged(ages[i], bound)]

Tick ==
  /\ health' = [k \in Keys |-> [health[k] EXCEPT !.open = Down(@), !.throttle = Down(@)]]
  /\ lane' = [l \in Lanes |->
       [failures |-> AgedAll(lane[l].failures, LaneWindow + 1),
        timeouts |-> AgedAll(lane[l].timeouts, HeaderWindow + 1),
        ejected  |-> IF lane[l].ejected = NULL THEN NULL ELSE Down(lane[l].ejected),
        probe    |-> IF lane[l].probe = NULL THEN NULL ELSE Aged(lane[l].probe, Cooldown)]]
  /\ UNCHANGED req

Candidate(r) == Redial(r) \/ RedialThrottled(r) \/ Failover(r) \/ EndLadder(r)
Reserve(r) == Shed(r) \/ Deny(r) \/ Quit(r) \/ Dispatch(r)
Exhaust(r) == (\E d \in Depths(r) : Overflow(r, d)) \/ ForcedTarget(r) \/ GiveUp(r)
Report(r) ==
  Succeeds(r) \/ Retires(r) \/ \E o \in Failures : Fails(r, o) \/ Abandon(r, o)

\* What the worker's own thread runs to its end once a request asks for a rung.
Reserves(r) == Claim(r) \/ Candidate(r) \/ Reserve(r) \/ Exhaust(r)

Next == Tick \/ \E r \in Requests : Begin(r) \/ Reserves(r) \/ Report(r)

Spec == Init /\ [][Next]_vars

\* Time passes and a reservation runs to its end.  Arrivals are not fair, and
\* neither are reports: a settlement the ledger keeps refusing never arrives.
FairSpec ==
  /\ Spec
  /\ WF_vars(Tick)
  /\ \A r \in Requests : WF_vars(Reserves(r))

-----------------------------------------------------------------------------
(* Properties. *)

\* Whoever a key's probe flag keeps out is waiting for a request that really
\* holds that probe and has not reported yet: every way out of a reservation
\* between a claim and its dispatch (shed, budget, deadline, cancellation)
\* gives the probe back (health.py claim, release_probe; native_accounting.py).
ProbeOwned ==
  \A k \in Keys, probe \in {"half", "last"} :
    (IF probe = "half" THEN health[k].half ELSE health[k].last) =>
      \E r \in Requests :
        /\ req[r].holds = probe
        /\ req[r].pc \in {"claimed", "flight"}
        /\ k = Key(r, IF req[r].pc = "claimed" THEN req[r].cand ELSE req[r].depth)

\* A rung a request dialed and left is never dialed again by it: a second dial
\* of a depth only ever follows its last one, and no walk exceeds the attempt
\* policy (next_route_candidate).
LadderForward ==
  [][\A r \in Requests :
       /\ Total(req'[r]) <= MaxTotal
       /\ \A d \in Depths(r) : req'[r].counts[d] > req[r].counts[d] =>
            /\ req'[r].counts[d] <= MaxSame + Redials
            /\ req[r].counts[d] > 0 => req[r].depth = d]_vars

\* A window or an ejection imposed again.
Suppressing(k) ==
  health'[k].open > health[k].open \/ health'[k].throttle > health[k].throttle

Striking(l) ==
  /\ lane'[l].ejected # NULL
  /\ IF lane[l].ejected = NULL THEN TRUE ELSE lane'[l].ejected > lane[l].ejected

\* Once the failures of a deployment stop and its dispatches report, every
\* normal claim on it succeeds again and again: neither a window nor a
\* forgotten half-open probe keeps it out for ever (health.py claim).
CircuitRecovers ==
  \A k \in Keys :
    (/\ <>[][~Suppressing(k)]_vars
     /\ \A r \in Requests : []<>(req[r].pc # "flight"))
      => []<>Claimable(health[k])

\* Once its failures stop a lane returns to its place in the order, also when
\* the request probing it never reports (lane_ejection.py ejected).
LaneRecovers ==
  \A l \in Lanes : <>[][~Striking(l)]_vars => []<>~Ejected(lane[l])

=============================================================================
