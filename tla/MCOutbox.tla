------------------------------ MODULE MCOutbox ------------------------------
(* Instances of Outbox for TLC. *)
EXTENDS Outbox, TLC

\* One webhook, which every delivery is for.
OneHook == [d \in Deliveries |-> CHOOSE h \in Hooks : TRUE]
=============================================================================
