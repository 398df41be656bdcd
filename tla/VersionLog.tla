----------------------------- MODULE VersionLog -----------------------------
(***************************************************************************)
(* What publishing promises of a form, apart from requests, races and      *)
(* refusals (docs/decisions/0025): its versions are a log of documents     *)
(* that only grows, one entry at a time, and holds no document twice.      *)
(***************************************************************************)
EXTENDS Naturals, Sequences

CONSTANT Docs

VARIABLE log

Init == log = <<>>

Append1(doc) ==
    /\ \A n \in DOMAIN log : log[n] # doc
    /\ log' = Append(log, doc)

Next == \E doc \in Docs : Append1(doc)

Spec == Init /\ [][Next]_log
=============================================================================
