-------------------------- MODULE DeliveryPromise --------------------------
(***************************************************************************)
(* What the outbox promises about each delivery, without rows, leases,     *)
(* workers or time.  A delivery is enqueued at most once; the provider is  *)
(* asked at most once per attempt, MaxAttempts times in all (at-least-once *)
(* delivery with a bound, not exactly-once: an attempt whose answer is     *)
(* lost may be repeated); and a delivery ends in one way for good.         *)
(***************************************************************************)
EXTENDS Naturals

CONSTANTS Delivery, MaxAttempts

VARIABLES
    outcome,    \* none, open, sent, dead, cancelled, or gone with its event
    used,       \* the attempts for which the provider was asked
    accepted    \* the deliveries the provider accepted at least once

vars == <<outcome, used, accepted>>

Init ==
    /\ outcome = [d \in Delivery |-> "none"]
    /\ used = [d \in Delivery |-> {}]
    /\ accepted = {}

\* How the outcome of one delivery may change.
MayBecome(d) ==
    CASE outcome[d] = "none" -> {"none", "open", "gone"}
      [] outcome[d] = "open" ->
            {"open", "dead", "cancelled", "gone"}
                \cup (IF d \in accepted THEN {"sent"} ELSE {})
      [] outcome[d] \in {"sent", "dead", "cancelled"} -> {outcome[d], "gone"}
      [] OTHER -> {"gone"}

\* Deliveries are enqueued, settled and removed, several at a time.
Settle ==
    /\ outcome' \in [Delivery -> {"none", "open", "sent", "dead", "cancelled",
                                  "gone"}]
    /\ \A d \in Delivery : outcome'[d] \in MayBecome(d)
    /\ UNCHANGED <<used, accepted>>

\* An attempt reaches the provider, which accepts the message or not.  An
\* attempt under way may reach it after the delivery was settled or removed.
Ask(d) ==
    /\ outcome[d] # "none"
    /\ \E n \in (1..MaxAttempts) \ used[d] :
          used' = [used EXCEPT ![d] = @ \cup {n}]
    /\ accepted' \in {accepted, accepted \cup {d}}
    /\ UNCHANGED outcome

Next == Settle \/ \E d \in Delivery : Ask(d)

Spec == Init /\ [][Next]_vars
=============================================================================
