---------------------------- MODULE PermitQueue ----------------------------
(***************************************************************************)
(* Worker admission permits of the data plane                              *)
(* (exp/runtime/gateway/native/src/permit_queue.rs, dispatch_capacity.rs). *)
(* A request waits for one of the worker's permits and, when a host binds  *)
(* its execution, for one of the binding's own at the same time.           *)
(*                                                                         *)
(* A step is one section under the waiters' mutex or one poll of a         *)
(* semaphore.  Every wait ends after REEVALUATE at the latest, so a waiter *)
(* may look again at any time and no notification is needed to allow it.   *)
(*                                                                         *)
(* A waiter's rank is its class plus its age in aging periods.  All ages   *)
(* grow alike, so two waiters never change places: ahead keeps who         *)
(* outranks whom, and a rank is only ever compared with the class of a     *)
(* new arrival, for which its whole part, up to the highest class, is      *)
(* enough.  That part is level.                                            *)
(***************************************************************************)
EXTENDS Integers, FiniteSets

CONSTANTS
    Requests,
    Scope,      \* the execution binding of each request
    Capacity,   \* active permits of each binding
    Permits,    \* max_active_requests of the worker
    MaxClass    \* highest request class

ASSUME PermitAssumption ==
    /\ IsFiniteSet(Requests)
    /\ Permits \in Nat \ {0} /\ MaxClass \in Nat
    /\ DOMAIN Scope = Requests
    /\ \A r \in Requests : Scope[r] \in DOMAIN Capacity /\ Capacity[Scope[r]] \in Nat \ {0}

VARIABLES
    bound,    \* the host binds executions: every request is scoped
    classes,  \* permit_priority_aging_seconds is configured
    pc,       \* where each request is
    level,    \* rank of a waiter, as far as an arrival can tell
    ahead,    \* the registered waiters of a higher rank than each
    before,   \* the pending acquires before each in the worker semaphore's FIFO
    closed,   \* semaphore and queue are closed for draining
    owed      \* history: the waiters an arrival did not outrank
vars == <<bound, classes, pc, level, ahead, before, closed, owed>>
config == <<bound, classes>>

Init ==
    /\ bound \in BOOLEAN /\ classes \in BOOLEAN
    /\ pc = [r \in Requests |-> "idle"]
    /\ level = [r \in Requests |-> 0]
    /\ ahead = [r \in Requests |-> {}] /\ before = [r \in Requests |-> {}]
    /\ closed = FALSE
    /\ owed = [r \in Requests |-> {}]

-----------------------------------------------------------------------------
At(label) == {r \in Requests : pc[r] = label}
Waiting == At("waiting") \cup At("head") \cup At("contending")

(* Permits of the worker and of a binding that are not held.  A release    *)
(* returns the worker's permit first and the binding's after it.           *)
Free == Permits - Cardinality(At("running"))
ScopeFree(s) == Capacity[s] > Cardinality({r \in At("running") \cup At("releasing") : Scope[r] = s})

(* try_acquire fails while pending acquires have a claim on every permit.  *)
TryAcquire == Free > Cardinality(At("contending"))

(* The waiter that contends next: of those whose binding has room, the one *)
(* of the highest rank.                                                    *)
Eligible(r) == ~bound \/ ScopeFree(Scope[r])
IsHead(r) == Eligible(r) /\ \A w \in ahead[r] : ~Eligible(w)

(* A new waiter goes behind all it does not outrank; ties go to the        *)
(* earliest arrival.                                                       *)
Register(r, class) ==
    LET yields == {w \in Waiting : level[w] < class}
    IN /\ ahead' = [w \in Requests |-> IF w = r THEN Waiting \ yields
                                      ELSE IF w \in yields THEN ahead[w] \cup {r}
                                      ELSE ahead[w]]
       /\ level' = [level EXCEPT ![r] = class]
       /\ pc' = [pc EXCEPT ![r] = "waiting"]

(* A request leaves the queue with a permit (running) or without (idle). *)
Without(f, r) == [w \in Requests |-> IF w = r THEN {} ELSE f[w] \ {r}]
Leave(r, label) ==
    /\ pc' = [pc EXCEPT ![r] = label]
    /\ ahead' = Without(ahead, r)
    /\ before' = Without(before, r)
    /\ level' = [level EXCEPT ![r] = 0]

(* What an arrival of this class owes: those already waiting it does not   *)
(* outrank, in its own binding if bindings are on.  Those who leave are    *)
(* owed nothing.                                                           *)
Owes(r, class) ==
    {w \in Waiting : (classes => level[w] >= class) /\ (bound => Scope[w] = Scope[r])}
Settle(r, debt) ==
    owed' = [q \in Requests |-> IF q = r THEN debt ELSE owed[q] \ {r}]

-----------------------------------------------------------------------------
(* Arrival.  A scoped request always registers.  Without a configured      *)
(* class order its class is zero, and an unscoped one joins the semaphore. *)
(* With one, it takes a free permit if nobody waits, and else registers.   *)
ScopedArrives(r, class) ==
    /\ bound /\ pc[r] = "idle" /\ ~closed
    /\ classes \/ class = 0
    /\ Register(r, class) /\ owed' = [owed EXCEPT ![r] = Owes(r, class)]
    /\ UNCHANGED <<config, before, closed>>

PlainArrives(r) ==
    /\ ~bound /\ ~classes /\ pc[r] = "idle" /\ ~closed
    /\ pc' = [pc EXCEPT ![r] = "contending"]
    /\ before' = [before EXCEPT ![r] = At("contending")]
    /\ owed' = [owed EXCEPT ![r] = Owes(r, 0)]
    /\ UNCHANGED <<config, level, ahead, closed>>

PassesAny == TryAcquire \* mutant: a free permit is taken past the waiters
Passes == Waiting = {} /\ TryAcquire
ClassArrives(r, class) ==
    /\ ~bound /\ classes /\ pc[r] = "idle" /\ ~closed
    /\ IF Passes
          THEN pc' = [pc EXCEPT ![r] = "running"] /\ UNCHANGED <<level, ahead>>
          ELSE Register(r, class)
    /\ owed' = [owed EXCEPT ![r] = Owes(r, class)]
    /\ UNCHANGED <<config, before, closed>>

-----------------------------------------------------------------------------
(* A scoped waiter that is the head takes both permits or neither. *)
TakeBoth(r) ==
    /\ bound /\ pc[r] = "waiting" /\ ~closed
    /\ IsHead(r) /\ TryAcquire
    /\ Leave(r, "running") /\ Settle(r, owed[r])
    /\ UNCHANGED <<config, closed>>

(* An unscoped head queues at the semaphore, after it let go of the        *)
(* waiters.  A later arrival may outrank it meanwhile or there: it stays in*)
(* line, no longer the head, until it looks again.  The select is biased:  *)
(* nobody looks again while a permit is there for it.                      *)
SeesHead(r) ==
    /\ ~bound /\ pc[r] = "waiting" /\ ~closed /\ IsHead(r)
    /\ pc' = [pc EXCEPT ![r] = "head"]
    /\ UNCHANGED <<config, level, ahead, before, closed, owed>>

Contend(r) ==
    /\ pc[r] = "head" /\ ~closed
    /\ pc' = [pc EXCEPT ![r] = "contending"]
    /\ before' = [before EXCEPT ![r] = At("contending")]
    /\ UNCHANGED <<config, level, ahead, closed, owed>>

Assigned(r) == pc[r] = "contending" /\ Cardinality(before[r]) < Free
Grant(r) ==
    /\ pc[r] = "contending" /\ ~closed /\ Assigned(r)
    /\ Leave(r, "running") /\ Settle(r, owed[r])
    /\ UNCHANGED <<config, closed>>

LookAgain(r) ==
    /\ classes /\ pc[r] = "contending" /\ ~closed /\ ~Assigned(r)
    /\ pc' = [pc EXCEPT ![r] = "waiting"]
    /\ before' = Without(before, r)
    /\ UNCHANGED <<config, level, ahead, closed, owed>>

(* Deadline or disconnect, at any wait. *)
Expire(r) ==
    /\ r \in Waiting
    /\ Leave(r, "idle") /\ Settle(r, {})
    /\ UNCHANGED <<config, closed>>

(* A closed worker answers every waiter that it is draining. *)
Refuse(r) ==
    /\ closed /\ r \in Waiting
    /\ Leave(r, "idle") /\ Settle(r, {})
    /\ UNCHANGED <<config, closed>>

(* The last clone of the permit is dropped, after the request's final      *)
(* accounting: the worker's permit, then the binding's.                    *)
Release(r) ==
    /\ pc[r] = "running"
    /\ pc' = [pc EXCEPT ![r] = IF bound THEN "releasing" ELSE "idle"]
    /\ owed' = [owed EXCEPT ![r] = {}]
    /\ UNCHANGED <<config, level, ahead, before, closed>>

ReleaseScope(r) ==
    /\ pc[r] = "releasing"
    /\ pc' = [pc EXCEPT ![r] = "idle"]
    /\ UNCHANGED <<config, level, ahead, before, closed, owed>>

Close ==
    /\ ~closed /\ closed' = TRUE
    /\ UNCHANGED <<config, pc, level, ahead, before, owed>>

(* An aging period of a waiter ends: it gains one class.  Those of higher  *)
(* rank got there before it.                                               *)
GainNothing(r) == level[r] \* mutant: the age restarts with every look
Gain(r) == level[r] + 1
Age(r) ==
    /\ classes /\ r \in Waiting
    /\ \A w \in ahead[r] : level[w] > level[r] \/ level[w] = MaxClass
    /\ level[r] < MaxClass
    /\ level' = [level EXCEPT ![r] = Gain(r)]
    /\ UNCHANGED <<config, pc, ahead, before, closed, owed>>

Next ==
    \/ \E r \in Requests :
        \/ \E class \in 0..MaxClass : ScopedArrives(r, class) \/ ClassArrives(r, class)
        \/ PlainArrives(r)
        \/ TakeBoth(r) \/ SeesHead(r) \/ Contend(r) \/ Grant(r) \/ LookAgain(r)
        \/ Expire(r) \/ Refuse(r) \/ Release(r) \/ ReleaseScope(r) \/ Age(r)
    \/ Close

Spec == Init /\ [][Next]_vars

(* Polls happen, time passes, and a running request ends: its deadline and *)
(* the settlement's bounded retries see to that.  Nothing is assumed of    *)
(* arrivals, deadlines of waiters or the close.                            *)
FairSpec ==
    /\ Spec
    /\ \A r \in Requests :
        /\ WF_vars(TakeBoth(r)) /\ WF_vars(SeesHead(r)) /\ WF_vars(Contend(r))
        /\ WF_vars(Grant(r))
        /\ WF_vars(LookAgain(r)) /\ WF_vars(Refuse(r))
        /\ WF_vars(Release(r)) /\ WF_vars(ReleaseScope(r)) /\ WF_vars(Age(r))

-----------------------------------------------------------------------------
(* A request is not served before a waiter of its own binding that was     *)
(* there first and that it did not outrank, whatever the classes and ages, *)
(* stale heads and cancelled waiters in between, unless that waiter has    *)
(* been assigned a permit and has only to pick it up.                      *)
NoOvertaking ==
    \A r \in At("running") : \A w \in owed[r] : Assigned(w)

(* "A low class is never starved": whatever arrives meanwhile, a waiter is *)
(* served unless it gives up or the worker drains, and draining answers    *)
(* everyone.                                                               *)
WaitersServed ==
    \A r \in Requests : r \in Waiting ~> r \notin Waiting
=============================================================================
