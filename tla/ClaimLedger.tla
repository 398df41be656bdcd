---------------------------- MODULE ClaimLedger ----------------------------
(***************************************************************************)
(* What claiming promises of uploaded files (docs/decisions/0055), apart   *)
(* from leases, bytes, retries and clocks.  A submission is accepted       *)
(* together with every file it names, or not at all; a file is given away  *)
(* once.  The collector is let to lose what it chose while nobody had it,  *)
(* also where a submission was accepted with it since: that much the code  *)
(* allows, and FileLifecycle says where it says otherwise.                 *)
(***************************************************************************)
CONSTANTS Files, Subs, None

VARIABLES
    accepted,   \* what was accepted: each submission with the files it names
    place,      \* where a file is: absent, free, held by a submission, gone
    owner,      \* the submission that holds a file, or None
    doomed      \* the files chosen for collection

Init ==
    /\ accepted = {}
    /\ place = [f \in Files |-> "absent"]
    /\ owner = [f \in Files |-> None]
    /\ doomed = {}

Arrive(f) ==
    /\ place[f] = "absent"
    /\ place' = [place EXCEPT ![f] = "free"]
    /\ UNCHANGED <<accepted, owner, doomed>>

Accept(s, named) ==
    /\ \A a \in accepted : a.by # s
    /\ \A f \in named : place[f] = "free"
    /\ accepted' = accepted \cup {[by |-> s, files |-> named]}
    /\ place' = [f \in Files |-> IF f \in named THEN "held" ELSE place[f]]
    /\ owner' = [f \in Files |-> IF f \in named THEN s ELSE owner[f]]
    /\ UNCHANGED doomed

Choose(chosen) ==
    /\ \A f \in chosen : place[f] \in {"absent", "free"}
    /\ doomed' = doomed \cup chosen
    /\ UNCHANGED <<accepted, place, owner>>

Collect(lost, left) ==
    /\ lost \cup left \subseteq doomed
    /\ doomed' = left
    /\ place' = [f \in Files |-> IF f \in lost THEN "gone" ELSE place[f]]
    /\ owner' = [f \in Files |-> IF f \in lost THEN None ELSE owner[f]]
    /\ UNCHANGED accepted

Next ==
    \/ \E f \in Files : Arrive(f)
    \/ \E s \in Subs, named \in SUBSET Files : Accept(s, named)
    \/ \E chosen \in SUBSET Files : Choose(chosen)
    \/ \E lost, left \in SUBSET Files : Collect(lost, left)

Spec == Init /\ [][Next]_<<accepted, place, owner, doomed>>
=============================================================================
