-------------------------- MODULE RequestLifecycle --------------------------
(***************************************************************************)
(* What the request store promises about one workspace request: it is      *)
(* claimed at most once and only while pending, a claimed request leaves   *)
(* that state only with a recorded outcome, never by expiry or removal,    *)
(* and an outcome is final.                                                *)
(***************************************************************************)
VARIABLE request

Outcome == {"Applied", "Failed", "RolledBack"}

Init == request \in {"unused", "Pending"}

Create == request = "unused" /\ request' = "Pending"

Expire == request = "Pending" /\ request' = "Expired"

Prune == request = "Pending" /\ request' = "removed"

Claim == request = "Pending" /\ request' = "Claimed"

Settle == request = "Claimed" /\ request' \in Outcome

Next == Create \/ Expire \/ Prune \/ Claim \/ Settle

Spec == Init /\ [][Next]_request

=============================================================================
