--------------------------- MODULE ResponseStore ---------------------------
(***************************************************************************)
(* What submitting promises, apart from requests, tokens and transactions  *)
(* (docs/decisions/0169 and 0024): a response is stored whole, with the    *)
(* deliveries it triggers, the files it claims and one audit row, or not   *)
(* at all; it is stored once; and no file belongs to two responses.        *)
(***************************************************************************)
CONSTANTS Ids, Files, Hooks

VARIABLE store  \* the responses, each with all that was written for it

Init == store = {}

Store(id, files) ==
    /\ \A r \in store : r.id # id /\ r.files \cap files = {}
    /\ store' = store \cup {[id |-> id, files |-> files, deliveries |-> Hooks, audited |-> TRUE]}

Next == \E id \in Ids, files \in SUBSET Files : Store(id, files)

Spec == Init /\ [][Next]_store
=============================================================================
