---------------------------- MODULE MCSubmitting ----------------------------
(* Instances of Submitting for TLC: a send and its retry, whose answers may *)
(* have been edited in between, and a send of another response.             *)
EXTENDS Submitting, TLC

CONSTANTS first, retry, other, t1, t2, f1, f2

Sent ==
    first :> {[token |-> t1, files |-> {f1, f2}]}
    @@ retry :> {[token |-> t1, files |-> {f1, f2}], [token |-> t1, files |-> {}]}
    @@ other :> {[token |-> t2, files |-> {f1, f2}], [token |-> None, files |-> {f2}]}
=============================================================================
