---------------------------- MODULE EngineChecks ----------------------------
(***************************************************************************)
(* The checks of a form engine: core/engine.ts, from `runChecksFor' to     *)
(* `settle' and `submit'.  A check is a validator the deployment answers,  *)
(* later and in any order.                                                 *)
(*                                                                         *)
(* A commit to the store asks the checks of every field it touches, one    *)
(* field after the other in document order.  The person goes on typing     *)
(* while the answers come in, and a host awaits settle() before it submits. *)
(* The engine is single-threaded: a commit and everything it sets off is   *)
(* one step, and so is an answer.  Between the promise of settle() and the *)
(* host that awaited it nothing else runs.                                 *)
(*                                                                         *)
(* What a check is asked about is left out, save that it is not empty: its *)
(* verdict is any.  A rule is the number it has among its field's rules.   *)
(*                                                                         *)
(* A definition named Slip... is no part of the model: it is a mistake the *)
(* code could have made in the definition that follows it.                 *)
(***************************************************************************)
EXTENDS Naturals, FiniteSets

CONSTANTS
    Fields,         \* 1..n, in document order
    Rules,          \* the check rules of each field, 1..n
    Unsupplied,     \* rules whose check this deployment has not supplied
    Hosts,          \* callers of settle() and submit()
    MaxWrites       \* bound: commits to one field

ASSUME ChecksConstants ==
    /\ Fields \subseteq Nat
    /\ Rules \in [Fields -> SUBSET (Nat \ {0})]
    /\ \A f \in Fields : IsFiniteSet(Rules[f])
    /\ Unsupplied \subseteq Fields \X Nat
    /\ MaxWrites \in Nat

VARIABLES
    filled,         \* fields whose value is not empty
    generation,     \* checkGeneration
    flight,         \* calls not answered; inFlight is their number
    refusals,       \* checkErrorsByWire: the rules that refused the field
    checking,       \* checkingWires
    host,           \* what a host is doing; those waiting are idleWaiters
    fresh,          \* history: calls about what their field still holds
    verdicts        \* history: what each rule said of what its field holds

engine == <<filled, generation, flight, refusals, checking>>
checksVars == <<filled, generation, flight, refusals, checking, host, fresh, verdicts>>

Calls == [field : Fields, rule : Nat, at : Nat]

AllRules == UNION {Rules[f] : f \in Fields}

ChecksTypeOK ==
    /\ filled \subseteq Fields
    /\ generation \in [Fields -> 0..MaxWrites]
    /\ flight \subseteq Calls
    /\ \A c \in flight : c.rule \in Rules[c.field] /\ c.at \in 1..generation[c.field]
    /\ refusals \in [Fields -> SUBSET AllRules]
    /\ checking \subseteq filled
    /\ host \in [Hosts -> {"idle", "waiting", "settled", "sent"}]
    /\ fresh \subseteq flight
    /\ verdicts \in [Fields -> [AllRules -> {"unasked", "waiting", "fine", "refused"}]]

\* The form opens with what it is handed: nothing is asked about that.
ChecksInit ==
    /\ filled \in SUBSET Fields
    /\ generation = [f \in Fields |-> 0]
    /\ flight = {}
    /\ refusals = [f \in Fields |-> {}]
    /\ checking = {}
    /\ host = [h \in Hosts |-> "idle"]
    /\ fresh = {}
    /\ verdicts = [f \in Fields |-> [r \in AllRules |-> "unasked"]]

-----------------------------------------------------------------------------
\* Answered in the loop that asks: no checker, or one that throws at once.
AtOnce(f, thrown) == {r \in Rules[f] : <<f, r>> \in Unsupplied \cup thrown}

\* The calls that wait.
Asked(f, thrown) ==
    {[field |-> f, rule |-> r, at |-> generation[f] + 1] : r \in Rules[f] \ AtOnce(f, thrown)}

\* A refusal in the loop finds nothing in flight, and the field stops
\* checking: no rule before it waits, nor a field before this one.
StopsAtOnce(f, held, thrown) ==
    /\ flight = {}
    /\ \A g \in held : g < f => Asked(g, thrown) = {}
    /\ \E r \in AtOnce(f, thrown) : \A c \in Asked(f, thrown) : r < c.rule

\* An emptied field keeps its generation.
SlipEmptyKeepsGeneration(written, held) ==
    [f \in Fields |-> IF f \in held THEN generation[f] + 1 ELSE generation[f]]

\* Every field written moves on, so an answer to what it held is dropped.
NextGeneration(written, held) ==
    [f \in Fields |-> IF f \in written THEN generation[f] + 1 ELSE generation[f]]

\* store.subscribe: a commit writes some fields, `held' of them not empty.
Write(written, held, thrown) ==
    /\ \A h \in Hosts : host[h] # "settled"
    /\ \A f \in written : generation[f] < MaxWrites
    /\ filled' = (filled \ written) \cup held
    /\ generation' = NextGeneration(written, held)
    /\ flight' = flight \cup UNION {Asked(f, thrown) : f \in held}
    /\ refusals' = [f \in Fields |->
           IF f \notin written THEN refusals[f]
           ELSE IF f \in held THEN AtOnce(f, thrown) ELSE {}]
    /\ checking' = (checking \ written)
                     \cup {f \in held : Rules[f] # {} /\ ~StopsAtOnce(f, held, thrown)}
    /\ fresh' = {c \in fresh : c.field \notin written} \cup UNION {Asked(f, thrown) : f \in held}
    /\ verdicts' = [f \in Fields |->
           IF f \notin written THEN verdicts[f]
           ELSE [r \in AllRules |->
                   IF f \notin held \/ r \notin Rules[f] THEN "unasked"
                   ELSE IF r \in AtOnce(f, thrown) THEN "refused" ELSE "waiting"]]
    /\ UNCHANGED host

\* A dropped answer wakes nobody.
SlipStaleWakesNobody(c) ==
    IF flight = {c} /\ generation[c.field] = c.at
    THEN [h \in Hosts |-> IF host[h] = "waiting" THEN "settled" ELSE host[h]]
    ELSE host

\* Whoever waits is woken by any answer to a current question.
SlipWakesEarly(c) ==
    IF generation[c.field] = c.at
    THEN [h \in Hosts |-> IF host[h] = "waiting" THEN "settled" ELSE host[h]]
    ELSE host

\* settleWaiters, after the call c is answered.
Woken(c) ==
    IF flight = {c}
    THEN [h \in Hosts |-> IF host[h] = "waiting" THEN "settled" ELSE host[h]]
    ELSE host

\* settled(): a verdict about a value nobody holds any more is dropped.  A
\* promise that rejects is a refusal too.
Settled(c, verdict) ==
    /\ flight' = flight \ {c}
    /\ IF generation[c.field] = c.at
       THEN /\ refusals' = [refusals EXCEPT ![c.field] =
                               IF verdict = "refused" THEN @ \cup {c.rule} ELSE @]
            /\ checking' = IF flight' = {} THEN checking \ {c.field} ELSE checking
       ELSE UNCHANGED <<refusals, checking>>

Answer(c, verdict) ==
    /\ c \in flight
    /\ Settled(c, verdict)
    /\ host' = Woken(c)
    /\ fresh' = fresh \ {c}
    /\ verdicts' = IF c \in fresh THEN [verdicts EXCEPT ![c.field][c.rule] = verdict] ELSE verdicts
    /\ UNCHANGED <<filled, generation>>

\* Resolves at once when nothing is in flight.
Settle(h) ==
    /\ host[h] \in {"idle", "sent"}
    /\ host' = [host EXCEPT ![h] = IF flight = {} THEN "settled" ELSE "waiting"]
    /\ UNCHANGED <<engine, fresh, verdicts>>

\* submit: ok when the model and the validate rules are, which are any here;
\* a host need not have settled.
Submit(h, ok) ==
    /\ host[h] \in {"idle", "settled"}
    /\ host' = [host EXCEPT ![h] = IF ok THEN "sent" ELSE "idle"]
    /\ UNCHANGED <<engine, fresh, verdicts>>

ChecksNext ==
    \/ \E written \in (SUBSET Fields) \ {{}} : \E held \in SUBSET written :
          \E thrown \in SUBSET ((UNION {{f} \X Rules[f] : f \in held}) \ Unsupplied) :
             Write(written, held, thrown)
    \/ \E c \in flight, verdict \in {"fine", "refused"} : Answer(c, verdict)
    \/ \E h \in Hosts : Settle(h) \/ \E ok \in BOOLEAN : Submit(h, ok)

ChecksSpec == ChecksInit /\ [][ChecksNext]_checksVars

\* Every checker answers in the end, though the person may type on.
ChecksFairSpec == ChecksSpec /\ WF_checksVars(\E c \in flight, verdict \in {"fine", "refused"} : Answer(c, verdict))

-----------------------------------------------------------------------------
(* A field shows exactly the refusals of what it now holds: no answer to an *)
(* earlier value lands on this one, in whatever order answers come, and no  *)
(* refusal of this one is lost.                                             *)
ErrorsAreVerdicts ==
    \A f \in Fields : refusals[f] = {r \in AllRules : verdicts[f][r] = "refused"}

(* settle() resolves no sooner than every question about what the form now  *)
(* holds is answered, so a host that awaits it does not outrun a verdict.   *)
SettledIsAnswered ==
    (\E h \in Hosts : host[h] = "settled") =>
        \A f \in Fields, r \in AllRules : verdicts[f][r] # "waiting"

(* A host that awaits settle() is resumed: an answer that is dropped counts *)
(* as one that came.                                                        *)
EverySettleResolves == \A h \in Hosts : host[h] = "waiting" ~> host[h] = "settled"

(* engine.ts: a check that cannot be answered, or refuses, fails the field  *)
(* closed, so a form whose settled checks refused does not submit.          *)
RefusedIsNotSent ==
    [][\A h \in Hosts :
          host[h] = "settled" /\ host'[h] = "sent" => \A f \in Fields : refusals[f] = {}]_checksVars
=============================================================================
