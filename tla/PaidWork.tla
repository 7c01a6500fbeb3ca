------------------------------ MODULE PaidWork ------------------------------
(***************************************************************************)
(* What a durable job engine of the gateway promises about paid work, with *)
(* nothing said of stores, pollers or crashes.  A unit of work is reserved *)
(* before anything is sent, sent at most once and only while its whole     *)
(* reservation is held, and closed at most once: settled against the       *)
(* provider's result, which needs the unit to have been sent, or released. *)
(* Some engines may waive a settled charge later; none takes a waiver back *)
(***************************************************************************)
EXTENDS Naturals

CONSTANTS
    Units,
    Waivable   \* units whose customer charge may be waived after settlement

VARIABLES
    money,   \* "none", "reserved", "settled" or "released", for each unit
    sent     \* how often the provider accepted each unit
vars == <<money, sent>>

Init == money = [u \in Units |-> "none"] /\ sent = [u \in Units |-> 0]

Move(S, from, to) ==
    /\ \A u \in S : money[u] = from
    /\ money' = [u \in Units |-> IF u \in S THEN to ELSE money[u]]

Reserve(u) == sent[u] = 0 /\ Move({u}, "none", "reserved") /\ UNCHANGED sent

Send(S) ==
    /\ \A u \in S : money[u] = "reserved" /\ sent[u] = 0
    /\ sent' = [u \in Units |-> IF u \in S THEN 1 ELSE sent[u]]
    /\ UNCHANGED money

Settle(u) == sent[u] = 1 /\ Move({u}, "reserved", "settled") /\ UNCHANGED sent
Release(S) == Move(S, "reserved", "released") /\ UNCHANGED sent

Waive(u) == u \in Waivable /\ Move({u}, "settled", "released") /\ UNCHANGED sent

Next ==
    \/ \E u \in Units : Reserve(u) \/ Settle(u) \/ Waive(u)
    \/ \E S \in SUBSET Units : Send(S) \/ Release(S)

Spec == Init /\ [][Next]_vars
=============================================================================
