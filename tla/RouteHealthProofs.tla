------------------------- MODULE RouteHealthProofs -------------------------
(***************************************************************************)
(* A probe's flag always has its owner, and a ladder only goes forward.    *)
(* Both follow from one predicate per request, Sound, which says what a    *)
(* request at each point of its walk may still dial.                       *)
(***************************************************************************)
EXTENDS RouteHealth, FiniteSetTheorems, TLAPS

Points == {"idle", "walk", "claimed", "spent", "flight", "next"}

HealthState ==
  [failures : Nat, open : Nat, throttle : Nat, half : BOOLEAN, last : BOOLEAN]

Request(r) ==
  [pc : Points, place : UNION {[S -> Nat] : S \in SUBSET Depths(r)}, pass : 1..3,
   asked : SUBSET Depths(r), cand : 0..Len(Route[r]), holds : {NULL, "half", "last"},
   depth : 0..Len(Route[r]), fail : Failures \cup {"retired", NULL},
   counts : [Depths(r) -> Nat], redials : 0..Redials, ladder : SUBSET Depths(r),
   sheds : Seq(Depths(r)), forced : SUBSET Depths(r), forcing : BOOLEAN, denied : BOOLEAN]

Typed ==
  /\ health \in [Keys -> HealthState]
  /\ DOMAIN req = Requests
  /\ \A r \in Requests : req[r] \in Request(r)

\* The depths a request has not dialed.
Fresh(q) == {d \in DOMAIN q.counts : q.counts[d] = 0}

\* What a request may still dial, and what it has dialed.
Sound(q) ==
  /\ IsFiniteSet(Dials(q))
  /\ Total(q) <= MaxTotal
  /\ q.pc \in {"walk", "claimed", "spent"} => Total(q) < MaxTotal
  /\ q.depth = 0 => Fresh(q) = DOMAIN q.counts
  /\ q.depth # 0 => q.counts[q.depth] <= MaxSame + q.redials
  /\ q.pc \in {"flight", "next"} => q.depth # 0
  /\ q.pc = "walk" => DOMAIN q.place \subseteq Fresh(q)
  /\ q.pc = "claimed" =>
       \/ q.cand \in Fresh(q)
       \/ q.cand = q.depth /\ q.cand # 0 /\ q.counts[q.cand] < MaxSame + q.redials
  /\ q.ladder \subseteq Fresh(q)
  /\ ToSet(q.sheds) \subseteq Fresh(q) \cup {q.depth}

AllSound == \A r \in Requests : Sound(req[r])

LEMMA OneOf == \* the minimum and the maximum of two numbers are one of them
  \A a, b \in Nat : Min({a, b}) \in Nat /\ Max({a, b}) \in Nat
<1>. SUFFICES ASSUME NEW a \in Nat, NEW b \in Nat
              PROVE  Min({a, b}) \in Nat /\ Max({a, b}) \in Nat
  OBVIOUS
<1>1. Min({a, b}) \in {a, b}
  <2>1. \E x \in {a, b} : \A y \in {a, b} : x <= y
    OBVIOUS
  <2>. QED BY <2>1 DEF Min
<1>2. Max({a, b}) \in {a, b}
  <2>1. \E x \in {a, b} : \A y \in {a, b} : x >= y
    OBVIOUS
  <2>. QED BY <2>1 DEF Max
<1>. QED BY <1>1, <1>2

LEMMA WaitsAreNat == \* every window is a natural number of units
  /\ ThrottleWaits \subseteq Nat
  /\ PlanWaits \subseteq Nat
<1>1. \A low, high, n \in Nat : Clamp(low, high, n) \in Nat
  <2>. SUFFICES ASSUME NEW low \in Nat, NEW high \in Nat, NEW n \in Nat
                PROVE  Clamp(low, high, n) \in Nat
    OBVIOUS
  <2>1. Max({n, low}) \in Nat
    BY OneOf, Zenon
  <2>. QED BY <2>1, OneOf, Zenon DEF Clamp
<1>. QED BY <1>1, RouteAssumption DEF ThrottleWaits, PlanWaits

-----------------------------------------------------------------------------
(* What each operator on a key's health does to its probe flags. *)

LEMMA Flags == \* a claim takes at most its own probe, a release gives both back
  ASSUME NEW h \in HealthState
  PROVE  /\ \A probe : /\ Taken(h, probe) \in HealthState
                       /\ Taken(h, probe).half => h.half \/ probe = "half"
                       /\ Taken(h, probe).last => h.last \/ probe = "last"
         /\ Released(h) \in HealthState /\ ~Released(h).half /\ ~Released(h).last
         /\ Restored(h) \in HealthState /\ ~Restored(h).half /\ ~Restored(h).last
BY DEF HealthState, Taken, Released, Restored

LEMMA ThrottledFlags == \* a window leaves the flags alone
  ASSUME NEW h \in HealthState, NEW wait \in Nat
  PROVE  /\ Throttled(h, wait) \in HealthState
         /\ Throttled(h, wait).half = h.half /\ Throttled(h, wait).last = h.last
<1>1. Max({h.throttle, wait}) \in Nat
  <2>1. h.throttle \in Nat
    BY DEF HealthState
  <2>. QED BY <2>1, OneOf, Zenon
<1>. QED BY <1>1 DEF HealthState, Throttled

LEMMA FailedFlags == \* a reported failure gives both probes back
  ASSUME NEW h \in HealthState, NEW o, NEW wait \in Nat
  PROVE  /\ Failed(h, o, wait) \in HealthState
         /\ ~Failed(h, o, wait).half /\ ~Failed(h, o, wait).last
<1>. DEFINE f == Released(h)
            n == IF o = "credential" THEN Threshold ELSE Min({f.failures + 1, Threshold})
            g == [f EXCEPT !.failures = n, !.open = IF n = Threshold THEN OpenTime ELSE @]
<1>1. f \in HealthState /\ ~f.half /\ ~f.last
  BY Flags
<1>2. n \in Nat
  <2>1. f.failures + 1 \in Nat /\ Threshold \in Nat
    BY <1>1, RouteAssumption DEF HealthState
  <2>2. Min({f.failures + 1, Threshold}) \in Nat
    BY <2>1, OneOf, Zenon
  <2>. QED BY <2>1, <2>2
<1>3. g \in HealthState /\ ~g.half /\ ~g.last
  <2>. HIDE DEF f, n
  <2>. QED BY <1>1, <1>2, RouteAssumption DEF HealthState
<1>4. /\ Throttled(f, wait) \in HealthState
      /\ ~Throttled(f, wait).half /\ ~Throttled(f, wait).last
  <2>. HIDE DEF f
  <2>. QED BY <1>1, ThrottledFlags
<1>5. Failed(h, o, wait) = (CASE o = "throttled" -> Throttled(f, wait)
                              [] o = "credential" \/ Transport(o) -> g
                              [] OTHER -> f)
  BY DEF Failed
<1>. HIDE DEF f, n, g
<1>6. Failed(h, o, wait) \in {Throttled(f, wait), g, f}
  BY <1>5 DEF Transport
<1>. QED BY <1>1, <1>3, <1>4, <1>6

-----------------------------------------------------------------------------
(* What each step of a walk does to a request. *)

\* The parts of a request that a step inside its walk leaves alone.
Dialed(q) == <<q.counts, q.depth, q.redials>>

LEMMA SameDials == \* the dials of a request are those of its counts
  ASSUME NEW q, NEW p, p.counts = q.counts
  PROVE  Dials(p) = Dials(q) /\ Total(p) = Total(q) /\ Fresh(p) = Fresh(q)
BY DEF Dials, Total, Fresh

LEMMA NowhereTyped == \* a walk that has not begun or is over
  ASSUME NEW r
  PROVE  /\ <<>> \in UNION {[S -> Nat] : S \in SUBSET Depths(r)}
         /\ {} \in SUBSET Depths(r)
         /\ 1 \in 1..3
         /\ {"walk", "claimed", "spent", "flight", "next"} \subseteq Points
<1>1. <<>> \in [{} -> Nat]
  BY SMT
<1>2. <<>> \in UNION {[S -> Nat] : S \in SUBSET Depths(r)}
  BY <1>1
<1>3. {"walk", "claimed", "spent", "flight", "next"} \subseteq Points
  BY DEF Points
<1>4. {} \in SUBSET Depths(r) /\ 1 \in 1..3
  OBVIOUS
<1>. QED BY <1>2, <1>3, <1>4, Zenon

LEMMA IdleSound == \* a request at rest has dialed nothing
  ASSUME NEW r \in Requests
  PROVE  Idle(r) \in Request(r) /\ Sound(Idle(r))
<1>. DEFINE q == Idle(r)
<1>1. /\ q.counts = [d \in Depths(r) |-> 0] /\ q.pc = "idle" /\ q.depth = 0
      /\ q.ladder = {} /\ q.sheds = <<>>
  BY DEF Idle
<1>2. Dials(q) = {}
  BY <1>1 DEF Dials
<1>3. IsFiniteSet(Dials(q)) /\ Total(q) = 0
  BY <1>2, FS_EmptySet DEF Total
<1>4. Fresh(q) = DOMAIN q.counts
  BY <1>1 DEF Fresh
<1>5. ToSet(q.sheds) = {}
  BY <1>1 DEF ToSet
<1>6. Len(Route[r]) \in Nat
  BY RouteAssumption
<1>7. q \in Request(r)
  <2>1. /\ <<>> \in UNION {[S -> Nat] : S \in SUBSET Depths(r)}
        /\ <<>> \in Seq(Depths(r))
        /\ [d \in Depths(r) |-> 0] \in [Depths(r) -> Nat]
    BY NowhereTyped
  <2>. HIDE DEF q
  <2>2. 0 \in 0..Len(Route[r]) /\ 0 \in 0..Redials /\ 1 \in 1..3
    BY <1>6, RouteAssumption
  <2>. QED BY <2>1, <2>2 DEF Request, Idle, Points, q
<1>. QED BY <1>1, <1>3, <1>4, <1>5, <1>7, RouteAssumption DEF Sound

LEMMA FreshDepths == \* what is not dialed yet is on the route
  ASSUME NEW r, NEW q \in Request(r)
  PROVE  /\ DOMAIN q.counts = Depths(r)
         /\ Fresh(q) \subseteq Depths(r)
         /\ Untried(q) \subseteq Fresh(q)
BY DEF Request, Fresh, Untried

LEMMA WalkSound == \* a walk over depths not dialed yet
  ASSUME NEW r \in Requests, NEW q \in Request(r), Sound(q), Total(q) < MaxTotal,
         NEW S \in SUBSET Fresh(q)
  PROVE  /\ Walk(q, r, S) \in Request(r)
         /\ Sound(Walk(q, r, S))
         /\ Walk(q, r, S).counts = q.counts
         /\ Walk(q, r, S).pc \in {"walk", "spent"}
<1>. DEFINE p == Walk(q, r, S)
<1>1. Order(r, S) \in [S -> Nat] /\ S \subseteq Depths(r)
  <2>1. S \subseteq Depths(r) /\ Depths(r) \subseteq Nat /\ Len(Route[r]) \in Nat
    BY FreshDepths, RouteAssumption DEF Depths
  <2>. QED BY <2>1 DEF Order
<1>2. p = [q EXCEPT !.pc = "spent"] \/ p = [q EXCEPT !.pc = "walk", !.place = Order(r, S)]
  BY DEF Walk
<1>. HIDE DEF p
<1>3. /\ p \in Request(r) /\ p.counts = q.counts /\ p.pc \in {"walk", "spent"}
      /\ p.pc = "walk" => DOMAIN p.place = S
      /\ p.depth = q.depth /\ p.redials = q.redials /\ p.ladder = q.ladder
      /\ p.sheds = q.sheds
  <2>1. CASE p = [q EXCEPT !.pc = "spent"]
    BY <2>1 DEF Request, Points
  <2>2. CASE p = [q EXCEPT !.pc = "walk", !.place = Order(r, S)]
    <3>1. Order(r, S) \in UNION {[T -> Nat] : T \in SUBSET Depths(r)}
      BY <1>1
    <3>. QED BY <1>1, <2>2, <3>1 DEF Request, Points
  <2>. QED BY <1>2, <2>1, <2>2
<1>4. Sound(p)
  BY <1>3, SameDials DEF Sound
<1>. QED BY <1>3, <1>4 DEF p

\* What a request claims: a depth it has not dialed, or the one it dialed last.
Admits(q, d) ==
  \/ d \in Fresh(q)
  \/ d = q.depth /\ d # 0 /\ q.counts[d] < MaxSame + q.redials

LEMMA ChosenSound == \* a claim on a depth the request may dial
  ASSUME NEW r \in Requests, NEW q \in Request(r), Sound(q), Total(q) < MaxTotal,
         NEW d \in Depths(r), Admits(q, d), NEW probe \in {NULL, "half", "last"}
  PROVE  /\ Chosen(q, d, probe) \in Request(r)
         /\ Sound(Chosen(q, d, probe))
         /\ Chosen(q, d, probe).counts = q.counts
<1>. DEFINE p == Chosen(q, d, probe)
<1>1. d \in 0..Len(Route[r])
  BY RouteAssumption DEF Depths
<1>2. /\ p \in Request(r) /\ p.counts = q.counts /\ p.pc = "claimed" /\ p.cand = d
      /\ p.depth = q.depth /\ p.redials = q.redials /\ p.ladder = q.ladder
      /\ p.sheds = q.sheds
  <2>1. /\ <<>> \in UNION {[S -> Nat] : S \in SUBSET Depths(r)}
        /\ {} \in SUBSET Depths(r) /\ 1 \in 1..3 /\ "claimed" \in Points
    BY NowhereTyped
  <2>2. p = [q EXCEPT !.pc = "claimed", !.cand = d, !.holds = probe,
                      !.place = <<>>, !.asked = {}, !.pass = 1]
    BY DEF Chosen
  <2>. HIDE DEF p
  <2>3. p \in Request(r)
    BY <1>1, <2>1, <2>2 DEF Request
  <2>4. /\ p.counts = q.counts /\ p.pc = "claimed" /\ p.cand = d
        /\ p.depth = q.depth /\ p.redials = q.redials /\ p.ladder = q.ladder
        /\ p.sheds = q.sheds
    BY <2>2 DEF Request
  <2>. QED BY <2>3, <2>4
<1>. HIDE DEF p
<1>3. Sound(p)
  BY <1>2, SameDials DEF Sound, Admits
<1>. QED BY <1>2, <1>3 DEF p

LEMMA NextAskSound == \* a refused claim: the next depth, the next pass or none left
  ASSUME NEW r \in Requests, NEW q \in Request(r), Sound(q), q.pc = "walk",
         NEW d \in Unasked(q)
  PROVE  /\ NextAsk(q, d) \in Request(r)
         /\ Sound(NextAsk(q, d))
         /\ NextAsk(q, d).counts = q.counts
         /\ NextAsk(q, d).pc \in {"walk", "spent"}
<1>. DEFINE p == NextAsk(q, d)
<1>1. \/ p = [q EXCEPT !.asked = @ \cup {d}]
      \/ q.pass < 3 /\ p = [q EXCEPT !.asked = {}, !.pass = @ + 1]
      \/ p = [q EXCEPT !.pc = "spent", !.place = <<>>, !.asked = {}, !.pass = 1]
  <2>1. q.pass \in 1..3
    BY DEF Request
  <2>. QED BY <2>1 DEF NextAsk
<1>2. d \in Depths(r)
  BY DEF Unasked, Request
<1>. HIDE DEF p
<1>3. /\ p \in Request(r) /\ p.counts = q.counts /\ p.pc \in {"walk", "spent"}
      /\ p.pc = "walk" => p.place = q.place
      /\ p.depth = q.depth /\ p.redials = q.redials /\ p.ladder = q.ladder
      /\ p.sheds = q.sheds
  <2>1. CASE p = [q EXCEPT !.asked = @ \cup {d}]
    <3>1. q.asked \cup {d} \in SUBSET Depths(r)
      BY <1>2 DEF Request
    <3>. QED BY <2>1, <3>1 DEF Request
  <2>2. CASE q.pass < 3 /\ p = [q EXCEPT !.asked = {}, !.pass = @ + 1]
    <3>1. {} \in SUBSET Depths(r) /\ q.pass + 1 \in 1..3
      BY <2>2 DEF Request
    <3>. QED BY <2>2, <3>1 DEF Request
  <2>3. CASE p = [q EXCEPT !.pc = "spent", !.place = <<>>, !.asked = {}, !.pass = 1]
    <3>1. /\ <<>> \in UNION {[S -> Nat] : S \in SUBSET Depths(r)}
          /\ {} \in SUBSET Depths(r) /\ 1 \in 1..3 /\ "spent" \in Points
      BY NowhereTyped
    <3>2. p \in Request(r)
      BY <2>3, <3>1 DEF Request
    <3>. QED BY <2>3, <3>2 DEF Request
  <2>. QED BY <1>1, <2>1, <2>2, <2>3
<1>4. Sound(p)
  BY <1>3, SameDials DEF Sound
<1>. QED BY <1>3, <1>4 DEF p

LEMMA SidewaysSound == \* a shed or skipped candidate spills to depths not dialed yet
  ASSUME NEW r \in Requests, NEW q \in Request(r), Sound(q), q.pc = "claimed"
  PROVE  /\ Sideways(q, r) \in Request(r)
         /\ Sound(Sideways(q, r))
         /\ Sideways(q, r).counts = q.counts
         /\ Sideways(q, r).pc \in {"walk", "spent"}
<1>. DEFINE later == {d \in Depths(r) : d > q.cand}
            rest  == q.ladder \ {q.cand}
            kept  == [q EXCEPT !.ladder = rest]
            over  == [q EXCEPT !.pc = "spent", !.forcing = FALSE]
<1>0. Total(q) < MaxTotal
  BY DEF Sound
<1>1. CASE q.depth = 0
  <2>1. later \in SUBSET Fresh(q)
    BY <1>1, FreshDepths DEF Sound
  <2>2. Sideways(q, r) = Walk(q, r, later)
    BY <1>1 DEF Sideways
  <2>. HIDE DEF later
  <2>. QED BY <1>0, <2>1, <2>2, WalkSound
<1>2. CASE q.depth # 0 /\ q.forcing
  <2>1. /\ over \in Request(r) /\ over.counts = q.counts /\ over.pc = "spent"
        /\ over.depth = q.depth /\ over.redials = q.redials /\ over.ladder = q.ladder
        /\ over.sheds = q.sheds
    BY NowhereTyped DEF Request
  <2>2. Sideways(q, r) = over
    BY <1>2 DEF Sideways
  <2>. HIDE DEF over
  <2>3. Sound(over)
    BY <1>0, <2>1, SameDials DEF Sound
  <2>. QED BY <2>1, <2>2, <2>3
<1>3. CASE q.depth # 0 /\ ~q.forcing
  <2>1. /\ kept \in Request(r) /\ kept.counts = q.counts /\ kept.pc = q.pc
        /\ kept.depth = q.depth /\ kept.redials = q.redials /\ kept.ladder = rest
        /\ kept.sheds = q.sheds /\ kept.cand = q.cand
    <3>1. rest \in SUBSET Depths(r)
      BY DEF Request
    <3>. HIDE DEF rest
    <3>. QED BY <3>1 DEF Request
  <2>2. rest \in SUBSET Fresh(q)
    BY DEF Sound
  <2>3. Sideways(q, r) = Walk(kept, r, rest)
    BY <1>3 DEF Sideways
  <2>. HIDE DEF kept, rest
  <2>4. Sound(kept) /\ Total(kept) < MaxTotal /\ rest \in SUBSET Fresh(kept)
    BY <1>0, <2>1, <2>2, SameDials DEF Sound
  <2>5. /\ Walk(kept, r, rest) \in Request(r) /\ Sound(Walk(kept, r, rest))
        /\ Walk(kept, r, rest).counts = kept.counts
        /\ Walk(kept, r, rest).pc \in {"walk", "spent"}
    BY <2>1, <2>4, WalkSound
  <2>. QED BY <2>1, <2>3, <2>5
<1>. QED BY <1>1, <1>2, <1>3 DEF Request

\* A claimed rung given back, with the shed or the denial that is noted of it.
Noted(q) ==
  [Unclaimed(q) EXCEPT !.sheds = IF q.cand \in ToSet(@) THEN @ ELSE Append(@, q.cand)]
Denied(q) == [Unclaimed(q) EXCEPT !.denied = TRUE]

LEMMA CandidateOnRoute == \* a claimed depth is one of the route's
  ASSUME NEW r \in Requests, NEW q \in Request(r), Sound(q), q.pc = "claimed"
  PROVE  q.cand \in Depths(r)
<1>1. q.cand \in 0..Len(Route[r]) /\ Len(Route[r]) \in Nat
  BY RouteAssumption DEF Request
<1>2. q.cand \in Fresh(q) \/ q.cand # 0
  BY DEF Sound
<1>. QED BY <1>1, <1>2, FreshDepths DEF Depths

LEMMA NotedSound == \* a shed or denied rung is still one the request could have dialed
  ASSUME NEW r \in Requests, NEW q \in Request(r), Sound(q), q.pc = "claimed",
         NEW p \in {Noted(q), Denied(q)}
  PROVE  p \in Request(r) /\ Sound(p) /\ p.counts = q.counts /\ p.pc = "claimed"
<1>0. q.cand \in Depths(r)
  BY CandidateOnRoute
<1>1. CASE p = Denied(q)
  <2>1. /\ p \in Request(r) /\ p.counts = q.counts /\ p.pc = "claimed" /\ p.cand = q.cand
        /\ p.depth = q.depth /\ p.redials = q.redials /\ p.ladder = q.ladder
        /\ p.sheds = q.sheds
    BY <1>1 DEF Denied, Unclaimed, Request
  <2>. QED BY <2>1, SameDials DEF Sound
<1>2. CASE p = Noted(q)
  <2>. DEFINE s == IF q.cand \in ToSet(q.sheds) THEN q.sheds ELSE Append(q.sheds, q.cand)
  <2>1. s \in Seq(Depths(r)) /\ ToSet(s) \subseteq ToSet(q.sheds) \cup {q.cand}
    <3>1. q.sheds \in Seq(Depths(r))
      BY DEF Request
    <3>2. ToSet(Append(q.sheds, q.cand)) \subseteq ToSet(q.sheds) \cup {q.cand}
      BY <1>0, <3>1 DEF ToSet
    <3>. QED BY <1>0, <3>1, <3>2
  <2>2. p = [q EXCEPT !.holds = NULL, !.sheds = s]
    BY <1>2 DEF Noted, Unclaimed, Request
  <2>. HIDE DEF s
  <2>3. /\ p \in Request(r) /\ p.counts = q.counts /\ p.pc = "claimed" /\ p.cand = q.cand
        /\ p.depth = q.depth /\ p.redials = q.redials /\ p.ladder = q.ladder
        /\ p.sheds = s
    BY <2>1, <2>2 DEF Request
  <2>4. ToSet(p.sheds) \subseteq Fresh(p) \cup {p.depth}
    BY <2>1, <2>3, SameDials DEF Sound
  <2>. QED BY <2>3, <2>4, SameDials DEF Sound
<1>. QED BY <1>1, <1>2

\* The request after a dispatch.
Sent(q, r) ==
  [q EXCEPT !.pc = "flight", !.depth = q.cand, !.cand = 0, !.fail = NULL,
            !.counts = [d \in Depths(r) |-> q.counts[d] + (IF d = q.cand THEN 1 ELSE 0)],
            !.redials = IF q.cand = q.depth THEN @ ELSE 0,
            !.ladder = {}, !.sheds = <<>>, !.forced = {}, !.forcing = FALSE,
            !.denied = FALSE]

\* A step from q to p dials no depth the request has left.
Forward(q, p) ==
  \A d \in DOMAIN p.counts : p.counts[d] > q.counts[d] =>
    /\ p.counts[d] <= MaxSame + Redials
    /\ q.counts[d] > 0 => q.depth = d

LEMMA StillForward == \* a step that dials nothing
  ASSUME NEW r \in Requests, NEW q \in Request(r), NEW p \in Request(r),
         p.counts = q.counts \/ p = Idle(r)
  PROVE  Forward(q, p)
<1>1. CASE p.counts = q.counts
  BY <1>1 DEF Forward, Request
<1>2. CASE p = Idle(r)
  <2>1. p.counts = [d \in Depths(r) |-> 0]
    BY <1>2 DEF Idle
  <2>. QED BY <2>1 DEF Forward, Request
<1>. QED BY <1>1, <1>2

LEMMA SentSound == \* a dispatch dials its candidate once
  ASSUME NEW r \in Requests, NEW q \in Request(r), Sound(q), q.pc = "claimed"
  PROVE  Sent(q, r) \in Request(r) /\ Sound(Sent(q, r)) /\ Forward(q, Sent(q, r))
<1>. DEFINE p == Sent(q, r)
            c == [d \in Depths(r) |-> q.counts[d] + (IF d = q.cand THEN 1 ELSE 0)]
            n == IF q.cand = q.depth THEN q.redials ELSE 0
<1>0. q.cand \in Depths(r) /\ q.cand \in 0..Len(Route[r]) /\ 0 \in 0..Len(Route[r])
      /\ q.cand # 0
  BY CandidateOnRoute, RouteAssumption DEF Depths
<1>1. c \in [Depths(r) -> Nat] /\ q.counts \in [Depths(r) -> Nat]
  BY DEF Request
<1>2. n \in 0..Redials
  BY RouteAssumption DEF Request
<1>3. p = [q EXCEPT !.pc = "flight", !.depth = q.cand, !.cand = 0, !.fail = NULL,
                    !.counts = c, !.redials = n,
                    !.ladder = {}, !.sheds = <<>>, !.forced = {}, !.forcing = FALSE,
                    !.denied = FALSE]
  BY DEF Sent, Request
<1>. HIDE DEF p, n
<1>4. p \in Request(r)
  <2>1. /\ {} \in SUBSET Depths(r) /\ <<>> \in Seq(Depths(r)) /\ "flight" \in Points
        /\ NULL \in Failures \cup {"retired", NULL}
    BY NowhereTyped
  <2>. HIDE DEF c
  <2>. QED BY <1>0, <1>1, <1>2, <1>3, <2>1 DEF Request
<1>5. /\ p.counts = c /\ p.depth = q.cand /\ p.redials = n /\ p.pc = "flight"
      /\ p.ladder = {} /\ p.sheds = <<>>
  <2>. HIDE DEF c
  <2>. QED BY <1>3 DEF Request
<1>6. c[q.cand] <= MaxSame + n /\ (q.cand \in Fresh(q) \/ q.cand = q.depth)
  <2>1. q.cand \in Fresh(q) \/ (q.cand = q.depth /\ q.counts[q.cand] < MaxSame + q.redials)
    BY DEF Sound
  <2>2. c[q.cand] = q.counts[q.cand] + 1 /\ q.redials \in Nat /\ q.counts[q.cand] \in Nat
    BY <1>0, <1>1, RouteAssumption DEF Request
  <2>3. MaxSame \in Nat \ {0} /\ n \in Nat
    BY <1>2, RouteAssumption
  <2>4. CASE q.cand \in Fresh(q)
    <3>1. q.counts[q.cand] = 0
      BY <2>4 DEF Fresh
    <3>. HIDE DEF c
    <3>. QED BY <2>2, <2>3, <2>4, <3>1
  <2>5. CASE q.cand = q.depth /\ q.counts[q.cand] < MaxSame + q.redials
    <3>1. n = q.redials
      BY <2>5 DEF n
    <3>. HIDE DEF c
    <3>. QED BY <2>2, <2>3, <2>5, <3>1
  <2>. QED BY <2>1, <2>4, <2>5
<1>7. IsFiniteSet(Dials(p)) /\ Total(p) <= MaxTotal
  <2>. DEFINE x == <<q.cand, q.counts[q.cand] + 1>>
  <2>1. Dials(p) = Dials(q) \cup {x}
    <3>1. Dials(p) = UNION {{d} \X (1..c[d]) : d \in Depths(r)}
      BY <1>1, <1>5 DEF Dials
    <3>2. Dials(q) = UNION {{d} \X (1..q.counts[d]) : d \in Depths(r)}
      BY <1>1 DEF Dials
    <3>3. \A d \in Depths(r) :
            {d} \X (1..c[d]) = ({d} \X (1..q.counts[d])) \cup (IF d = q.cand THEN {x} ELSE {})
      <4>. SUFFICES ASSUME NEW d \in Depths(r)
                    PROVE  {d} \X (1..c[d]) =
                             ({d} \X (1..q.counts[d])) \cup (IF d = q.cand THEN {x} ELSE {})
        OBVIOUS
      <4>1. q.counts[d] \in Nat /\ c[d] = q.counts[d] + (IF d = q.cand THEN 1 ELSE 0)
        BY <1>1
      <4>2. 1..c[d] = (1..q.counts[d]) \cup (IF d = q.cand THEN {q.counts[d] + 1} ELSE {})
        BY <4>1
      <4>. HIDE DEF c
      <4>. QED BY <4>2
    <3>. HIDE DEF c, x
    <3>. QED BY <1>0, <3>1, <3>2, <3>3
  <2>2. IsFiniteSet(Dials(q)) /\ Cardinality(Dials(q)) < MaxTotal
    BY DEF Sound, Total
  <2>3. Cardinality(Dials(q)) \in Nat
    BY <2>2, FS_CardinalityType
  <2>4. /\ IsFiniteSet(Dials(q) \cup {x})
        /\ \/ Cardinality(Dials(q) \cup {x}) = Cardinality(Dials(q))
           \/ Cardinality(Dials(q) \cup {x}) = Cardinality(Dials(q)) + 1
    BY <2>2, FS_AddElement
  <2>. QED BY <2>1, <2>2, <2>3, <2>4, RouteAssumption DEF Total
<1>8. Sound(p)
  <2>1. ToSet(p.sheds) = {}
    BY <1>5 DEF ToSet
  <2>. HIDE DEF c
  <2>. QED BY <1>0, <1>5, <1>6, <1>7, <2>1 DEF Sound
<1>9. Forward(q, p)
  <2>. SUFFICES ASSUME NEW d \in Depths(r), c[d] > q.counts[d]
                PROVE  c[d] <= MaxSame + Redials /\ (q.counts[d] > 0 => q.depth = d)
    BY <1>1, <1>5 DEF Forward
  <2>1. d = q.cand
    BY <1>1
  <2>2. q.cand \in Fresh(q) => q.counts[d] = 0
    BY <2>1 DEF Fresh
  <2>3. MaxSame \in Nat /\ n <= Redials /\ c[d] \in Nat
    BY <1>1, <1>2, RouteAssumption
  <2>. QED BY <1>2, <1>6, <2>1, <2>2, <2>3, RouteAssumption
<1>. QED BY <1>4, <1>8, <1>9 DEF p

-----------------------------------------------------------------------------
(* Who holds a probe, and what one step does to its flag. *)

Flag(h, probe) == IF probe = "half" THEN h.half ELSE h.last

Holds(q, r, k, probe) ==
  /\ q.holds = probe
  /\ q.pc \in {"claimed", "flight"}
  /\ k = Key(r, IF q.pc = "claimed" THEN q.cand ELSE q.depth)

\* Of the step that takes request r to p: a flag that is set afterwards is one
\* that r holds now, or one it did not hold and that was set before.
FlagsOwned(r, p) ==
  \A k \in Keys, probe \in {"half", "last"} :
    Flag(health'[k], probe) =>
      \/ Holds(p, r, k, probe)
      \/ Flag(health[k], probe) /\ ~Holds(req[r], r, k, probe)

\* A step of request r to p.
Steps(r, p) ==
  /\ req' = [req EXCEPT ![r] = p]
  /\ p \in Request(r) /\ Sound(p) /\ Forward(req[r], p)
  /\ health' \in [Keys -> HealthState]
  /\ FlagsOwned(r, p)

LEMMA ElsewhereSteps == \* a step outside the registry by a request that holds no probe
  ASSUME NEW r \in Requests, Typed, NEW p \in Request(r), Sound(p),
         req[r].pc \notin {"claimed", "flight"}, UNCHANGED health,
         req' = [req EXCEPT ![r] = p], p.counts = req[r].counts \/ p = Idle(r)
  PROVE  Steps(r, p)
<1>1. Forward(req[r], p)
  BY StillForward DEF Typed
<1>. QED BY <1>1 DEF Steps, FlagsOwned, Holds, Typed

LEMMA ClaimSteps == \* a claim takes the probe its request holds from then on
  ASSUME NEW r \in Requests, Typed, AllSound, NEW q \in Request(r), Sound(q),
         Total(q) < MaxTotal, NEW d \in Depths(r), Admits(q, d),
         q.counts = req[r].counts, req[r].pc \notin {"claimed", "flight"},
         NEW probe \in {NULL, "half", "last"},
         health' = [health EXCEPT ![Key(r, d)] = Taken(@, probe)],
         req' = [req EXCEPT ![r] = Chosen(q, d, probe)]
  PROVE  Steps(r, Chosen(q, d, probe))
<1>. DEFINE p == Chosen(q, d, probe)
<1>1. p \in Request(r) /\ Sound(p) /\ p.counts = req[r].counts
  BY ChosenSound
<1>2. Forward(req[r], p)
  BY <1>1, StillForward DEF Typed
<1>3. p.pc = "claimed" /\ p.cand = d /\ p.holds = probe
  BY DEF Chosen, Request
<1>. HIDE DEF p
<1>4. health' \in [Keys -> HealthState]
  BY Flags DEF Typed
<1>5. FlagsOwned(r, p)
  <2>. SUFFICES ASSUME NEW k \in Keys, NEW flag \in {"half", "last"}, Flag(health'[k], flag)
                PROVE  Holds(p, r, k, flag) \/ Flag(health[k], flag)
    BY DEF FlagsOwned, Holds
  <2>1. health[k] \in HealthState
    BY DEF Typed
  <2>2. CASE k = Key(r, d)
    <3>1. health'[k] = Taken(health[k], probe)
      BY <2>2 DEF Typed
    <3>2. Flag(health[k], flag) \/ probe = flag
      BY <2>1, <3>1, Flags DEF Flag
    <3>. QED BY <1>3, <2>2, <3>2 DEF Holds
  <2>3. CASE k # Key(r, d)
    BY <2>3 DEF Typed
  <2>. QED BY <2>2, <2>3
<1>. QED BY <1>1, <1>2, <1>4, <1>5 DEF Steps, p

\* The key of a claimed or dispatched rung.
Held(q, r) == Key(r, IF q.pc = "claimed" THEN q.cand ELSE q.depth)

LEMMA ReleaseSteps == \* a step that gives back both probes of the rung it holds
  ASSUME NEW r \in Requests, Typed, NEW p \in Request(r), Sound(p),
         p.counts = req[r].counts \/ p = Idle(r), NEW k, k = Held(req[r], r),
         NEW h, k \in Keys => h \in HealthState /\ ~h.half /\ ~h.last,
         health' = [health EXCEPT ![k] = h], req' = [req EXCEPT ![r] = p]
  PROVE  Steps(r, p)
<1>1. Forward(req[r], p)
  BY StillForward DEF Typed
<1>2. health' \in [Keys -> HealthState]
  BY DEF Typed
<1>3. FlagsOwned(r, p)
  <2>. SUFFICES ASSUME NEW j \in Keys, NEW flag \in {"half", "last"}, Flag(health'[j], flag)
                PROVE  Flag(health[j], flag) /\ ~Holds(req[r], r, j, flag)
    BY DEF FlagsOwned
  <2>1. j # k
    BY DEF Typed, Flag
  <2>. QED BY <2>1 DEF Typed, Holds, Held
<1>. QED BY <1>1, <1>2, <1>3 DEF Steps

LEMMA DispatchSteps == \* a dispatch keeps the probe of its claim
  ASSUME NEW r \in Requests, Typed, AllSound, Dispatch(r)
  PROVE  Steps(r, Sent(req[r], r))
<1>. DEFINE q == req[r]
            p == Sent(q, r)
<1>1. q \in Request(r) /\ Sound(q) /\ q.pc = "claimed" /\ req' = [req EXCEPT ![r] = p]
  BY DEF Typed, AllSound, Dispatch, Sent
<1>2. p \in Request(r) /\ Sound(p) /\ Forward(q, p)
  BY <1>1, SentSound
<1>3. p.pc = "flight" /\ p.depth = q.cand /\ p.holds = q.holds
  BY <1>1 DEF Sent, Request
<1>4. UNCHANGED health
  BY DEF Dispatch
<1>. HIDE DEF p
<1>5. FlagsOwned(r, p)
  BY <1>1, <1>3, <1>4 DEF FlagsOwned, Holds
<1>. QED BY <1>1, <1>2, <1>4, <1>5 DEF Steps, Typed, p

-----------------------------------------------------------------------------
(* One lemma per group of actions. *)

LEMMA BeginSteps == \* a first dial walks its whole route
  ASSUME NEW r \in Requests, Typed, Begin(r)
  PROVE  \E p : Steps(r, p)
<1>. DEFINE p == Walk(Idle(r), r, Depths(r))
<1>1. Idle(r) \in Request(r) /\ Sound(Idle(r))
  BY IdleSound
<1>2. Idle(r).counts = [d \in Depths(r) |-> 0] /\ Idle(r).depth = 0
  BY DEF Idle
<1>3. Dials(Idle(r)) = {}
  BY <1>2 DEF Dials
<1>4. Total(Idle(r)) < MaxTotal
  BY <1>3, FS_EmptySet, RouteAssumption DEF Total
<1>5. Depths(r) \in SUBSET Fresh(Idle(r))
  BY <1>2 DEF Fresh
<1>6. p \in Request(r) /\ Sound(p) /\ p.counts = Idle(r).counts
  BY <1>1, <1>4, <1>5, WalkSound
<1>7. Forward(req[r], p)
  <2>1. req[r].counts \in [Depths(r) -> Nat]
    BY DEF Typed, Request
  <2>. HIDE DEF p
  <2>. QED BY <1>2, <1>6, <2>1 DEF Forward
<1>8. req' = [req EXCEPT ![r] = p] /\ UNCHANGED health /\ req[r].pc = "idle"
  BY DEF Begin
<1>. HIDE DEF p
<1>. QED BY <1>6, <1>7, <1>8 DEF Steps, FlagsOwned, Holds, Typed

LEMMA WalkingSteps == \* one question of a walk
  ASSUME NEW r \in Requests, Typed, AllSound, Claim(r)
  PROVE  \E p : Steps(r, p)
<1>. DEFINE q == req[r]
<1>1. q \in Request(r) /\ Sound(q) /\ q.pc = "walk"
  BY DEF Typed, AllSound, Claim
<1>2. PICK d \in Unasked(q) :
        LET k == Key(r, d)
            probe == Probe(health[k], q.pass)
        IN \/ /\ health' = [health EXCEPT ![k] = Taken(@, probe)]
              /\ req' = [req EXCEPT ![r] = Chosen(q, d, probe)]
           \/ /\ req' = [req EXCEPT ![r] = NextAsk(q, d)]
              /\ UNCHANGED health
  BY DEF Claim
<1>. DEFINE k == Key(r, d)
            probe == Probe(health[k], q.pass)
<1>3. d \in Fresh(q) /\ d \in Depths(r) /\ Total(q) < MaxTotal
  <2>1. d \in DOMAIN q.place
    BY DEF Unasked
  <2>2. DOMAIN q.place \subseteq Fresh(q) /\ Total(q) < MaxTotal
    BY <1>1 DEF Sound
  <2>. QED BY <1>1, <2>1, <2>2, FreshDepths
<1>4. CASE /\ health' = [health EXCEPT ![k] = Taken(@, probe)]
           /\ req' = [req EXCEPT ![r] = Chosen(q, d, probe)]
  <2>1. probe \in {NULL, "half", "last"}
    BY DEF Probe
  <2>2. Admits(q, d)
    BY <1>3 DEF Admits
  <2>. HIDE DEF probe
  <2>3. Steps(r, Chosen(q, d, probe))
    BY <1>1, <1>3, <1>4, <2>1, <2>2, ClaimSteps
  <2>. QED BY <2>3
<1>5. CASE req' = [req EXCEPT ![r] = NextAsk(q, d)] /\ UNCHANGED health
  <2>1. NextAsk(q, d) \in Request(r) /\ Sound(NextAsk(q, d)) /\ NextAsk(q, d).counts = q.counts
    BY <1>1, NextAskSound
  <2>2. Steps(r, NextAsk(q, d))
    BY <1>1, <1>5, <2>1, ElsewhereSteps
  <2>. QED BY <2>2
<1>. QED BY <1>2, <1>4, <1>5

\* The request next_route_candidate goes on with, after n throttled redials.
Onward(q, n) == [q EXCEPT !.ladder = Untried(q), !.redials = n]

LEMMA OnwardSound == \* the ladder left is what the request has not dialed
  ASSUME NEW r \in Requests, NEW q \in Request(r), Sound(q), q.pc = "next",
         NEW n \in 0..Redials, n >= q.redials
  PROVE  /\ Onward(q, n) \in Request(r) /\ Sound(Onward(q, n))
         /\ Total(Onward(q, n)) = Total(q) /\ Fresh(Onward(q, n)) = Fresh(q)
         /\ Onward(q, n).counts = q.counts /\ Onward(q, n).depth = q.depth
         /\ Onward(q, n).redials = n /\ Onward(q, n).pc = "next"
         /\ q.depth \in Depths(r) /\ q.depth # 0 /\ Untried(q) \subseteq Fresh(q)
<1>. DEFINE p == Onward(q, n)
<1>1. Untried(q) \subseteq Fresh(q) /\ Untried(q) \in SUBSET Depths(r)
  BY FreshDepths
<1>2. /\ p \in Request(r) /\ p.counts = q.counts /\ p.pc = "next" /\ p.depth = q.depth
      /\ p.redials = n /\ p.ladder = Untried(q) /\ p.sheds = q.sheds
  BY <1>1 DEF Request, Onward
<1>. HIDE DEF p
<1>3. Total(p) = Total(q) /\ Fresh(p) = Fresh(q) /\ Dials(p) = Dials(q)
  BY <1>2, SameDials
<1>4. q.depth \in Depths(r) /\ q.depth # 0
  BY RouteAssumption DEF Sound, Request, Depths
<1>5. q.depth # 0 => p.counts[p.depth] <= MaxSame + p.redials
  <2>1. q.counts[q.depth] \in Nat /\ MaxSame \in Nat /\ n \in Nat /\ q.redials \in Nat
    BY <1>4, RouteAssumption DEF Request
  <2>2. q.counts[q.depth] <= MaxSame + q.redials
    BY <1>4 DEF Sound
  <2>. QED BY <1>2, <2>1, <2>2
<1>6. Sound(p)
  BY <1>1, <1>2, <1>3, <1>4, <1>5 DEF Sound
<1>. QED BY <1>1, <1>2, <1>3, <1>4, <1>6 DEF p

LEMMA CandidateSteps == \* a redial, a failover or the end of the ladder
  ASSUME NEW r \in Requests, Typed, AllSound, Candidate(r)
  PROVE  \E p : Steps(r, p)
<1>. DEFINE q == req[r]
            same == Onward(q, q.redials)
            more == Onward(q, q.redials + 1)
<1>1. q \in Request(r) /\ Sound(q) /\ q.pc = "next"
  BY DEF Typed, AllSound, Candidate, Redial, RedialThrottled, Failover, EndLadder
<1>2. q.redials \in 0..Redials /\ Redials \in Nat /\ q.redials >= q.redials
  BY <1>1, RouteAssumption DEF Request
<1>3. same = [q EXCEPT !.ladder = Untried(q)]
  BY <1>1 DEF Request, Onward
<1>4. /\ same \in Request(r) /\ Sound(same) /\ Total(same) = Total(q)
      /\ Fresh(same) = Fresh(q) /\ same.counts = q.counts /\ same.depth = q.depth
      /\ same.redials = q.redials /\ same.pc = "next"
      /\ q.depth \in Depths(r) /\ q.depth # 0 /\ Untried(q) \subseteq Fresh(q)
  BY <1>1, <1>2, OnwardSound
<1>5. MaxSame \in Nat /\ q.counts[q.depth] \in Nat
  BY <1>1, <1>4, RouteAssumption DEF Request
<1>6. CASE Redial(r)
  <2>. DEFINE k == Key(r, q.depth)
              probe == Probe(health[k], 1)
  <2>1. /\ Total(q) < MaxTotal /\ q.counts[q.depth] < MaxSame
        /\ health' = [health EXCEPT ![k] = Taken(@, probe)]
        /\ req' = [req EXCEPT ![r] = Chosen(same, q.depth, probe)]
    BY <1>3, <1>6 DEF Redial, MayRedial
  <2>2. probe \in {NULL, "half", "last"}
    BY DEF Probe
  <2>. HIDE DEF probe, same
  <2>3. Admits(same, q.depth)
    BY <1>2, <1>4, <1>5, <2>1 DEF Admits
  <2>4. Steps(r, Chosen(same, q.depth, probe))
    BY <1>1, <1>4, <2>1, <2>2, <2>3, ClaimSteps
  <2>. QED BY <2>4
<1>7. CASE RedialThrottled(r)
  <2>1. /\ Total(q) < MaxTotal /\ q.redials < Redials /\ UNCHANGED health
        /\ req' = [req EXCEPT ![r] = Chosen(more, q.depth, NULL)]
    BY <1>1, <1>7 DEF RedialThrottled, Request, Onward
  <2>2. q.redials + 1 \in 0..Redials /\ q.redials + 1 >= q.redials
    BY <1>2, <2>1
  <2>3. /\ more \in Request(r) /\ Sound(more) /\ Total(more) = Total(q)
        /\ more.counts = q.counts /\ more.depth = q.depth /\ more.redials = q.redials + 1
    BY <1>1, <2>2, OnwardSound
  <2>. HIDE DEF more
  <2>4. q.counts[q.depth] <= MaxSame + q.redials
    BY <1>1, <1>4 DEF Sound
  <2>5. Admits(more, q.depth)
    BY <1>2, <1>4, <1>5, <2>3, <2>4 DEF Admits
  <2>6. /\ Chosen(more, q.depth, NULL) \in Request(r) /\ Sound(Chosen(more, q.depth, NULL))
        /\ Chosen(more, q.depth, NULL).counts = q.counts
    BY <1>4, <2>1, <2>3, <2>5, ChosenSound
  <2>7. Steps(r, Chosen(more, q.depth, NULL))
    BY <1>1, <2>1, <2>6, ElsewhereSteps
  <2>. QED BY <2>7
<1>8. CASE Failover(r)
  <2>. DEFINE p == Walk(same, r, Untried(q))
  <2>1. Total(q) < MaxTotal /\ UNCHANGED health /\ req' = [req EXCEPT ![r] = p]
    BY <1>3, <1>8 DEF Failover
  <2>. HIDE DEF same
  <2>2. p \in Request(r) /\ Sound(p) /\ p.counts = q.counts
    BY <1>4, <2>1, WalkSound
  <2>3. Steps(r, p)
    BY <1>1, <2>1, <2>2, ElsewhereSteps
  <2>. QED BY <2>3
<1>9. CASE EndLadder(r)
  <2>1. Steps(r, Idle(r))
    BY <1>1, <1>9, IdleSound, ElsewhereSteps DEF EndLadder
  <2>. QED BY <2>1
<1>. QED BY <1>6, <1>7, <1>8, <1>9 DEF Candidate

LEMMA GivesBack == \* release_probe clears both flags of the key
  ASSUME NEW r \in Requests, Typed, NEW k, NEW p \in Request(r), Sound(p),
         p.counts = req[r].counts \/ p = Idle(r), k = Held(req[r], r),
         Release(k), req' = [req EXCEPT ![r] = p]
  PROVE  Steps(r, p)
<1>1. k \in Keys => /\ Released(health[k]) \in HealthState
                   /\ ~Released(health[k]).half /\ ~Released(health[k]).last
  BY Flags DEF Typed
<1>2. health' = [health EXCEPT ![k] = Released(health[k])]
  BY DEF Release
<1>. QED BY <1>1, <1>2, ReleaseSteps

LEMMA ReserveSteps == \* what becomes of a claimed rung
  ASSUME NEW r \in Requests, Typed, AllSound, Reserve(r)
  PROVE  \E p : Steps(r, p)
<1>. DEFINE q == req[r]
            k == Key(r, q.cand)
<1>1. q \in Request(r) /\ Sound(q)
  BY DEF Typed, AllSound
<1>2. Unclaimed(q).cand = q.cand /\ Unclaimed(q).pc = q.pc
  BY <1>1 DEF Unclaimed, Request
<1>3. CASE Shed(r)
  <2>1. q.pc = "claimed" /\ Release(k)
    BY <1>2, <1>3 DEF Shed
  <2>2. PICK p \in {Sideways(Noted(q), r), Noted(q)} : req' = [req EXCEPT ![r] = p]
    BY <1>2, <1>3 DEF Shed, Noted
  <2>3. Noted(q) \in Request(r) /\ Sound(Noted(q)) /\ Noted(q).counts = q.counts
        /\ Noted(q).pc = "claimed"
    BY <1>1, <2>1, NotedSound
  <2>4. /\ Sideways(Noted(q), r) \in Request(r) /\ Sound(Sideways(Noted(q), r))
        /\ Sideways(Noted(q), r).counts = Noted(q).counts
    BY <2>3, SidewaysSound
  <2>5. p \in Request(r) /\ Sound(p) /\ p.counts = q.counts
    BY <2>3, <2>4
  <2>6. k = Held(q, r)
    BY <2>1 DEF Held
  <2>7. Steps(r, p)
    BY <2>1, <2>2, <2>5, <2>6, GivesBack
  <2>. QED BY <2>7
<1>4. CASE Deny(r)
  <2>. DEFINE p == Sideways(Denied(q), r)
  <2>1. q.pc = "claimed" /\ Release(k) /\ req' = [req EXCEPT ![r] = p]
    BY <1>2, <1>4 DEF Deny, Denied
  <2>2. Denied(q) \in Request(r) /\ Sound(Denied(q)) /\ Denied(q).counts = q.counts
        /\ Denied(q).pc = "claimed"
    BY <1>1, <2>1, NotedSound
  <2>3. p \in Request(r) /\ Sound(p) /\ p.counts = Denied(q).counts
    BY <2>2, SidewaysSound
  <2>4. k = Held(q, r)
    BY <2>1 DEF Held
  <2>5. Steps(r, p)
    BY <2>1, <2>2, <2>3, <2>4, GivesBack
  <2>. QED BY <2>5
<1>5. CASE Quit(r)
  <2>1. q.pc = "claimed" /\ Release(k) /\ req' = [req EXCEPT ![r] = Idle(r)]
    BY <1>5 DEF Quit
  <2>2. k = Held(q, r)
    BY <2>1 DEF Held
  <2>3. Steps(r, Idle(r))
    BY <2>1, <2>2, IdleSound, GivesBack
  <2>. QED BY <2>3
<1>6. CASE Dispatch(r)
  BY <1>6, DispatchSteps
<1>. QED BY <1>3, <1>4, <1>5, <1>6 DEF Reserve

\* The request while it forces depth d.
Forcing(q, d, forcing) == [q EXCEPT !.forced = @ \cup {d}, !.forcing = forcing]

LEMMA ForcingSound == \* a shed rung other than the dialed one is not dialed yet
  ASSUME NEW r \in Requests, NEW q \in Request(r), Sound(q), q.pc = "spent",
         NEW d \in ToSet(q.sheds), d # q.depth \/ q.depth = 0, NEW forcing \in BOOLEAN
  PROVE  /\ Forcing(q, d, forcing) \in Request(r) /\ Sound(Forcing(q, d, forcing))
         /\ Forcing(q, d, forcing).counts = q.counts
         /\ Total(Forcing(q, d, forcing)) < MaxTotal
         /\ d \in Fresh(Forcing(q, d, forcing)) /\ d \in Depths(r)
<1>. DEFINE p == Forcing(q, d, forcing)
<1>1. d \in Depths(r)
  <2>1. q.sheds \in Seq(Depths(r))
    BY DEF Request
  <2>. QED BY <2>1 DEF ToSet
<1>2. d \in Fresh(q)
  <2>1. d \in Fresh(q) \/ d = q.depth
    BY DEF Sound
  <2>2. d # 0
    BY <1>1, RouteAssumption DEF Depths
  <2>. QED BY <2>1, <2>2
<1>3. q.forced \cup {d} \in SUBSET Depths(r)
  BY <1>1 DEF Request
<1>4. /\ p \in Request(r) /\ p.counts = q.counts /\ p.pc = "spent" /\ p.depth = q.depth
      /\ p.redials = q.redials /\ p.ladder = q.ladder /\ p.sheds = q.sheds
  BY <1>3 DEF Request, Forcing
<1>. HIDE DEF p
<1>5. Sound(p) /\ Fresh(p) = Fresh(q) /\ Total(p) < MaxTotal
  BY <1>4, SameDials DEF Sound
<1>. QED BY <1>1, <1>2, <1>4, <1>5 DEF p

LEMMA ExhaustSteps == \* a ladder with nothing left to claim
  ASSUME NEW r \in Requests, Typed, AllSound, Exhaust(r)
  PROVE  \E p : Steps(r, p)
<1>. DEFINE q == req[r]
<1>1. q \in Request(r) /\ Sound(q) /\ q.pc = "spent" /\ UNCHANGED health
  BY DEF Typed, AllSound, Exhaust, Overflow, ForcedTarget, GiveUp
<1>2. ASSUME NEW d \in Depths(r), Overflow(r, d)
      PROVE  \E p : Steps(r, p)
  <2>. DEFINE f == Forcing(q, d, q.forcing)
              p == Chosen(f, d, NULL)
  <2>1. d \in ToSet(q.sheds) /\ q.depth = 0
    BY <1>2 DEF Overflow
  <2>2. req' = [req EXCEPT ![r] = p]
    <3>1. f = [q EXCEPT !.forced = @ \cup {d}]
      BY <1>1 DEF Forcing, Request
    <3>. QED BY <1>2, <3>1 DEF Overflow
  <2>3. q.forcing \in BOOLEAN
    BY <1>1 DEF Request
  <2>4. /\ f \in Request(r) /\ Sound(f) /\ f.counts = q.counts /\ Total(f) < MaxTotal
        /\ d \in Fresh(f)
    BY <1>1, <2>1, <2>3, ForcingSound
  <2>. HIDE DEF f
  <2>5. p \in Request(r) /\ Sound(p) /\ p.counts = q.counts
    BY <2>4, ChosenSound DEF Admits
  <2>6. Steps(r, p)
    BY <1>1, <2>2, <2>5, ElsewhereSteps
  <2>. QED BY <2>6
<1>3. CASE ForcedTarget(r)
  <2>1. PICK i \in DOMAIN q.sheds :
          /\ q.sheds[i] # q.depth
          /\ req' = [req EXCEPT ![r] =
               Walk(Forcing(q, q.sheds[i], TRUE), r, {q.sheds[i]})]
    BY <1>3 DEF ForcedTarget, Forcing
  <2>. DEFINE d == q.sheds[i]
              f == Forcing(q, d, TRUE)
              p == Walk(f, r, {d})
  <2>2. d \in ToSet(q.sheds)
    BY DEF ToSet
  <2>3. /\ f \in Request(r) /\ Sound(f) /\ f.counts = q.counts /\ Total(f) < MaxTotal
        /\ {d} \in SUBSET Fresh(f)
    <3>. HIDE DEF d
    <3>1. d # q.depth
      BY <2>1 DEF d
    <3>. QED BY <1>1, <2>2, <3>1, ForcingSound
  <2>. HIDE DEF f
  <2>4. p \in Request(r) /\ Sound(p) /\ p.counts = q.counts
    BY <2>3, WalkSound
  <2>5. req' = [req EXCEPT ![r] = p]
    BY <2>1 DEF f
  <2>6. Steps(r, p)
    BY <1>1, <2>4, <2>5, ElsewhereSteps
  <2>. QED BY <2>6
<1>4. CASE GiveUp(r)
  <2>1. Steps(r, Idle(r))
    BY <1>1, <1>4, IdleSound, ElsewhereSteps DEF GiveUp
  <2>. QED BY <2>1
<1>. QED BY <1>2, <1>3, <1>4 DEF Exhaust

LEMMA ReportedSound == \* a reported request goes on from the depth it dialed
  ASSUME NEW r \in Requests, Typed, AllSound, req[r].pc = "flight",
         NEW o \in Failures \cup {"retired"}
  PROVE  /\ Continues(r, o) \in Request(r) /\ Sound(Continues(r, o))
         /\ Continues(r, o).counts = req[r].counts
         /\ Unclaimed(req[r]) \in Request(r) /\ Sound(Unclaimed(req[r]))
         /\ Unclaimed(req[r]).counts = req[r].counts
<1>. DEFINE q == req[r]
            p == Continues(r, o)
            u == Unclaimed(q)
<1>1. q \in Request(r) /\ Sound(q)
  BY DEF Typed, AllSound
<1>2. /\ u \in Request(r) /\ u.counts = q.counts /\ u.pc = "flight" /\ u.depth = q.depth
      /\ u.redials = q.redials /\ u.ladder = q.ladder /\ u.sheds = q.sheds
  BY <1>1 DEF Request, Unclaimed
<1>3. p = [u EXCEPT !.pc = "next", !.fail = o]
  BY DEF Continues
<1>. HIDE DEF u, p
<1>4. /\ p \in Request(r) /\ p.counts = q.counts /\ p.pc = "next" /\ p.depth = q.depth
      /\ p.redials = q.redials /\ p.ladder = q.ladder /\ p.sheds = q.sheds
  BY <1>2, <1>3, NowhereTyped DEF Request
<1>5. Sound(u)
  BY <1>1, <1>2, SameDials DEF Sound
<1>6. Sound(p)
  BY <1>1, <1>4, SameDials DEF Sound
<1>. QED BY <1>2, <1>4, <1>5, <1>6 DEF u, p

LEMMA ReportSteps == \* a report gives back the probe of its dispatch
  ASSUME NEW r \in Requests, Typed, AllSound, Report(r)
  PROVE  \E p : Steps(r, p)
<1>. DEFINE q == req[r]
            k == Key(r, q.depth)
<1>1. q.pc = "flight" /\ k = Held(q, r)
  BY DEF Report, Succeeds, Retires, Abandon, Fails, Held
<1>2. k \in Keys => health[k] \in HealthState
  BY DEF Typed
<1>3. Idle(r) \in Request(r) /\ Sound(Idle(r))
  BY IdleSound
<1>4. CASE Succeeds(r)
  <2>1. PICK plan \in PlanWaits \cup {0} :
          health' = [health EXCEPT ![k] = Throttled(Restored(health[k]), plan)]
    BY <1>4 DEF Succeeds
  <2>. DEFINE h == Throttled(Restored(health[k]), plan)
  <2>2. plan \in Nat
    BY WaitsAreNat
  <2>3. k \in Keys => h \in HealthState /\ ~h.half /\ ~h.last
    BY <1>2, <2>2, Flags, ThrottledFlags
  <2>4. req' = [req EXCEPT ![r] = Idle(r)]
    BY <1>4 DEF Succeeds
  <2>. HIDE DEF h
  <2>5. health' = [health EXCEPT ![k] = h]
    BY <2>1 DEF h
  <2>6. Steps(r, Idle(r))
    BY <1>1, <1>3, <2>3, <2>4, <2>5, ReleaseSteps
  <2>. QED BY <2>6
<1>5. ASSUME NEW o \in Failures, Fails(r, o)
      PROVE  \E p : Steps(r, p)
  <2>1. PICK opened \in BOOLEAN, wait \in ThrottleWaits, plan \in PlanWaits \cup {0} :
          health' = [health EXCEPT ![k] =
            Throttled(Failed(IF opened THEN Restored(health[k]) ELSE health[k], o, wait), plan)]
    BY <1>5 DEF Fails
  <2>2. PICK p \in {Idle(r), Continues(r, o)} : req' = [req EXCEPT ![r] = p]
    BY <1>5 DEF Fails
  <2>. DEFINE g == IF opened THEN Restored(health[k]) ELSE health[k]
              f == Failed(g, o, wait)
              h == Throttled(f, plan)
  <2>3. wait \in Nat /\ plan \in Nat
    BY WaitsAreNat
  <2>4. k \in Keys => g \in HealthState
    BY <1>2, Flags
  <2>. HIDE DEF g
  <2>5a. k \in Keys => f \in HealthState /\ ~f.half /\ ~f.last
    BY <2>3, <2>4, FailedFlags
  <2>7. health' = [health EXCEPT ![k] = h]
    BY <2>1 DEF g
  <2>. HIDE DEF f
  <2>5. k \in Keys => h \in HealthState /\ ~h.half /\ ~h.last
    BY <2>3, <2>5a, ThrottledFlags
  <2>6. p \in Request(r) /\ Sound(p) /\ (p.counts = q.counts \/ p = Idle(r))
    BY <1>1, <1>3, ReportedSound
  <2>. HIDE DEF h
  <2>8. Steps(r, p)
    BY <1>1, <2>2, <2>5, <2>6, <2>7, ReleaseSteps
  <2>. QED BY <2>8
<1>6. CASE Retires(r)
  <2>1. PICK p \in {Idle(r), Continues(r, "retired")} : req' = [req EXCEPT ![r] = p]
    BY <1>6 DEF Retires
  <2>2. p \in Request(r) /\ Sound(p) /\ (p.counts = q.counts \/ p = Idle(r))
    BY <1>1, <1>3, ReportedSound
  <2>3. Release(k)
    BY <1>6 DEF Retires
  <2>4. Steps(r, p)
    BY <1>1, <2>1, <2>2, <2>3, GivesBack
  <2>. QED BY <2>4
<1>7. ASSUME NEW o \in Failures, Abandon(r, o)
      PROVE  \E p : Steps(r, p)
  <2>1. PICK p \in {Idle(r), Unclaimed(q)} : req' = [req EXCEPT ![r] = p]
    BY <1>7 DEF Abandon
  <2>2. p \in Request(r) /\ Sound(p) /\ (p.counts = q.counts \/ p = Idle(r))
    BY <1>1, <1>3, ReportedSound
  <2>. DEFINE h == Failed(health[k], o, ThrottleTime)
  <2>3. k \in Keys => h \in HealthState /\ ~h.half /\ ~h.last
    BY <1>2, RouteAssumption, FailedFlags
  <2>4. health' = [health EXCEPT ![k] = h]
    BY <1>7 DEF Abandon
  <2>. HIDE DEF h
  <2>5. Steps(r, p)
    BY <1>1, <2>1, <2>2, <2>3, <2>4, ReleaseSteps
  <2>. QED BY <2>5
<1>. QED BY <1>4, <1>5, <1>6, <1>7 DEF Report

LEMMA TickKeeps == \* time moves windows, never a flag
  ASSUME Typed, Tick
  PROVE  /\ health' \in [Keys -> HealthState]
         /\ \A k \in Keys : health'[k].half = health[k].half /\ health'[k].last = health[k].last
<1>1. \A n \in Nat : Down(n) \in Nat
  <2>. SUFFICES ASSUME NEW n \in Nat PROVE Down(n) \in Nat
    OBVIOUS
  <2>1. CASE n = 0
    <3>1. Down(n) = Max({-1, 0})
      BY <2>1 DEF Down
    <3>2. Max({-1, 0}) \in Nat
      <4>1. \E x \in {-1, 0} : \A y \in {-1, 0} : x >= y
        OBVIOUS
      <4>2. Max({-1, 0}) \in {-1, 0} /\ \A y \in {-1, 0} : Max({-1, 0}) >= y
        BY <4>1 DEF Max
      <4>. QED BY <4>2
    <3>. QED BY <3>1, <3>2
  <2>2. CASE n # 0
    <3>1. n - 1 \in Nat /\ 0 \in Nat
      BY <2>2
    <3>. QED BY <3>1, OneOf, Zenon DEF Down
  <2>. QED BY <2>1, <2>2
<1>2. \A k \in Keys :
        /\ health'[k] = [health[k] EXCEPT !.open = Down(@), !.throttle = Down(@)]
        /\ health[k] \in HealthState
  BY DEF Tick, Typed
<1>3. \A h \in HealthState :
        LET g == [h EXCEPT !.open = Down(@), !.throttle = Down(@)]
        IN g \in HealthState /\ g.half = h.half /\ g.last = h.last
  BY <1>1 DEF HealthState
<1>4. health' = [k \in Keys |-> health'[k]]
  BY DEF Tick
<1>. QED BY <1>2, <1>3, <1>4

-----------------------------------------------------------------------------
(* The theorems. *)

LEMMA RequestSteps == \* every action of a request
  ASSUME NEW r \in Requests, Typed, AllSound, Begin(r) \/ Reserves(r) \/ Report(r)
  PROVE  \E p : Steps(r, p)
BY BeginSteps, WalkingSteps, CandidateSteps, ReserveSteps, ExhaustSteps, ReportSteps
   DEF Reserves

RouteInv == Typed /\ AllSound /\ ProbeOwned

LEMMA InitRoute == Init => RouteInv \* a worker starts with fresh circuits and no request
<1>. SUFFICES ASSUME Init PROVE RouteInv
  OBVIOUS
<1>1. \A r \in Requests : req[r] \in Request(r) /\ Sound(req[r])
  BY IdleSound DEF Init
<1>2. FreshHealth \in HealthState /\ ~FreshHealth.half /\ ~FreshHealth.last
  BY DEF FreshHealth, HealthState
<1>3. Typed /\ AllSound
  BY <1>1, <1>2 DEF Init, Typed, AllSound
<1>4. ProbeOwned
  BY <1>2 DEF Init, ProbeOwned
<1>. QED BY <1>3, <1>4 DEF RouteInv

\* What LadderForward asks of one step.
LadderStep ==
  \A r \in Requests :
    /\ Total(req'[r]) <= MaxTotal
    /\ \A d \in Depths(r) : req'[r].counts[d] > req[r].counts[d] =>
         /\ req'[r].counts[d] <= MaxSame + Redials
         /\ req[r].counts[d] > 0 => req[r].depth = d

LEMMA StillLadder == \* a step that moves no request dials nothing
  ASSUME Typed, AllSound, UNCHANGED req
  PROVE  LadderStep
<1>. SUFFICES ASSUME NEW r \in Requests
              PROVE  /\ Total(req[r]) <= MaxTotal
                     /\ \A d \in Depths(r) : ~(req[r].counts[d] > req[r].counts[d])
  BY DEF LadderStep
<1>1. Total(req[r]) <= MaxTotal /\ req[r].counts \in [Depths(r) -> Nat]
  BY DEF AllSound, Sound, Typed, Request
<1>. QED BY <1>1

LEMMA NextRoute == \* every step keeps the invariant and goes forward
  ASSUME RouteInv, [Next]_vars
  PROVE  RouteInv' /\ LadderStep
<1>. USE DEF RouteInv
<1>0. \A k \in Keys, probe \in {"half", "last"} :
        Flag(health[k], probe) => \E r \in Requests : Holds(req[r], r, k, probe)
  BY DEF ProbeOwned, Flag, Holds
<1>1. CASE Tick
  <2>1. UNCHANGED req
    BY <1>1 DEF Tick
  <2>2. Typed'
    BY <1>1, <2>1, TickKeeps DEF Typed
  <2>3. AllSound'
    BY <2>1 DEF AllSound
  <2>4. ProbeOwned'
    BY <1>1, <2>1, TickKeeps DEF ProbeOwned, Key
  <2>. QED BY <2>1, <2>2, <2>3, <2>4, StillLadder
<1>2. ASSUME NEW r \in Requests, Begin(r) \/ Reserves(r) \/ Report(r)
      PROVE  RouteInv' /\ LadderStep
  <2>1. PICK p : Steps(r, p)
    BY <1>2, RequestSteps
  <2>2. \A s \in Requests : req'[s] = IF s = r THEN p ELSE req[s]
    BY <2>1 DEF Steps, Typed
  <2>3. Typed'
    BY <2>1, <2>2 DEF Steps, Typed
  <2>4. AllSound'
    BY <2>1, <2>2 DEF Steps, AllSound
  <2>5. \A k \in Keys, probe \in {"half", "last"} :
          Flag(health'[k], probe) => \E s \in Requests : Holds(req'[s], s, k, probe)
    <3>. SUFFICES ASSUME NEW k \in Keys, NEW probe \in {"half", "last"},
                         Flag(health'[k], probe)
                  PROVE  \E s \in Requests : Holds(req'[s], s, k, probe)
      OBVIOUS
    <3>1. CASE Holds(p, r, k, probe)
      BY <2>2, <3>1
    <3>2. CASE Flag(health[k], probe) /\ ~Holds(req[r], r, k, probe)
      <4>1. PICK s \in Requests : Holds(req[s], s, k, probe)
        BY <1>0, <3>2
      <4>2. s # r
        BY <3>2, <4>1
      <4>. QED BY <2>2, <4>1, <4>2
    <3>. QED BY <2>1, <3>1, <3>2 DEF Steps, FlagsOwned
  <2>6. ProbeOwned'
    BY <2>5 DEF ProbeOwned, Flag, Holds
  <2>7. LadderStep
    <3>. SUFFICES ASSUME NEW s \in Requests
                  PROVE  /\ Total(req'[s]) <= MaxTotal
                         /\ \A d \in Depths(s) : req'[s].counts[d] > req[s].counts[d] =>
                              /\ req'[s].counts[d] <= MaxSame + Redials
                              /\ req[s].counts[d] > 0 => req[s].depth = d
      BY DEF LadderStep
    <3>1. CASE s = r
      <4>1. DOMAIN p.counts = Depths(r) /\ Total(p) <= MaxTotal /\ Forward(req[r], p)
        BY <2>1 DEF Steps, Sound, Request
      <4>. QED BY <2>2, <3>1, <4>1 DEF Forward
    <3>2. CASE s # r
      <4>1. req'[s] = req[s] /\ req[s].counts \in [Depths(s) -> Nat] /\ Total(req[s]) <= MaxTotal
        BY <2>2, <3>2 DEF Typed, AllSound, Sound, Request
      <4>. QED BY <4>1
    <3>. QED BY <3>1, <3>2
  <2>. QED BY <2>3, <2>4, <2>6, <2>7
<1>3. CASE UNCHANGED vars
  <2>1. UNCHANGED health /\ UNCHANGED req
    BY <1>3 DEF vars
  <2>. QED BY <2>1, StillLadder DEF Typed, AllSound, ProbeOwned
<1>. QED BY <1>1, <1>2, <1>3 DEF Next

\* A probe flag that keeps a deployment's callers out always belongs to a
\* request that holds that probe and has not reported: every way out of a
\* reservation gives it back (health.py claim, release_probe).
THEOREM ProbesOwned == Spec => []ProbeOwned
<1>1. Init => RouteInv
  BY InitRoute
<1>2. RouteInv /\ [Next]_vars => RouteInv'
  BY NextRoute
<1>3. RouteInv => ProbeOwned
  BY DEF RouteInv
<1>. QED BY <1>1, <1>2, <1>3, PTL DEF Spec

\* No request dials a depth it has left, and none dials more often than the
\* attempt policy and the pool's redial budget allow (next_route_candidate).
THEOREM LaddersGoForward == Spec => LadderForward
<1>1. Init => RouteInv
  BY InitRoute
<1>2. RouteInv /\ [Next]_vars => RouteInv'
  BY NextRoute
<1>3. RouteInv /\ [Next]_vars => [LadderStep]_vars
  BY NextRoute
<1>4. Spec => [][LadderStep]_vars
  BY <1>1, <1>2, <1>3, PTL DEF Spec
<1>. QED BY <1>4 DEF LadderForward, LadderStep
=============================================================================
