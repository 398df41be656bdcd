------------------------------- MODULE Intake -------------------------------
(***************************************************************************)
(* What an anonymous response passes before the server looks at it: the    *)
(* limit of its route, counted in the database every replica shares        *)
(* (server/postgres-rate-limits.ts), then the proof of work, verified and  *)
(* spent (server/routes/submissions.ts, packages/challenge), with the      *)
(* sweeps that forget ended windows and expired challenges.                *)
(*                                                                         *)
(* All requests are one client's, to one route, with one solved challenge: *)
(* there is one counter row and one spent-challenge row.  Time is in ticks *)
(* of which a second has two, as an expiry is in seconds and a sweep is    *)
(* not; the replicas' clocks and the database's agree.  What happens to a  *)
(* response that passed is Submitting.  Logging is left out.               *)
(*                                                                         *)
(* A definition named Slip... is no part of the model: it is a mistake the *)
(* code could have made in the definition that follows it.                 *)
(***************************************************************************)
EXTENDS Integers, Sequences, FiniteSets, SequencesExt

CONSTANTS
    MaxReplicas,    \* processes of the server, numbered as they are first asked
    MaxRequests,    \* bound: requests of the client, numbered as they arrive
    AtOnce,         \* COUNTS_AT_ONCE: statements sent and not answered, a replica
    Budget,         \* requests a window admits
    Window,         \* ticks a window lasts
    SweepEvery,     \* ticks between two sweeps of a replica, at least
    Expires,        \* the second the challenge expires in
    WhenUncounted,  \* what the limit does without a count: admit, or refuse
    MaxTime,        \* bound: ticks
    None

TicksASecond == 2
Replicas == 1..MaxReplicas
Requests == 1..MaxRequests

ASSUME IntakeConstants ==
    /\ AtOnce \in Nat \ {0} /\ Budget \in Nat \ {0} /\ Window \in Nat \ {0} /\ SweepEvery \in Nat \ {0}
    /\ Expires \in Nat /\ MaxTime \in Nat /\ MaxRequests \in Nat /\ MaxReplicas \in Nat
    /\ WhenUncounted \in {"admit", "refuse"}
    /\ None \notin Replicas

VARIABLES
    time,
    counter,    \* the row of rate_limit_counters: hits and resets_at; no hits, no row
    running,    \* a replica's statements sent and not answered, its sweep with them
    waiting,    \* a replica's counts not sent yet, in order
    sweeping,   \* a replica's sweep is under way
    sweptAt,    \* when a replica last began one
    spent,      \* the challenge's row in spent_challenges is there
    request,    \* the requests, each with the statement that counts it
    within,     \* history: the requests counted within the budget, and when
    spends      \* history: times the challenge was spent, before it expired and after

vars == <<time, counter, running, waiting, sweeping, sweptAt, spent, request, within, spends>>
slots == <<running, waiting, sweeping, sweptAt>>
history == <<within, spends>>

\* Where a request is: its count awaited, let through by the limit, verified,
\* or answered; and where the statement is that counts it.
Steps == {"out", "counting", "admitted", "verified", "done"}
Statements == {"none", "waiting", "sent", "ran", "over"}
Now == 0..MaxTime

\* `hit` is the number a count gave it, until its answer is read.
Records ==
    [step : Steps, on : Replicas \cup {None}, statement : Statements, hit : Nat]

TypeOK ==
    /\ time \in Now
    /\ counter \in [hits : Nat, ends : Nat]
    /\ running \in [Replicas -> 0..AtOnce]
    /\ waiting \in [Replicas -> Seq(Requests)]
    /\ sweeping \in [Replicas -> BOOLEAN]
    /\ sweptAt \in [Replicas -> Now]
    /\ spent \in BOOLEAN
    /\ request \in [Requests -> Records]
    /\ within \subseteq [by : Requests, at : Now]
    /\ spends \in [early : Nat, late : Nat]

Init ==
    /\ time = 0
    /\ counter = [hits |-> 0, ends |-> 0]
    /\ running = [p \in Replicas |-> 0]
    /\ waiting = [p \in Replicas |-> <<>>]
    /\ sweeping = [p \in Replicas |-> FALSE]
    /\ sweptAt = [p \in Replicas |-> 0]
    /\ spent = FALSE
    /\ request = [r \in Requests |-> [step |-> "out", on |-> None, statement |-> "none", hit |-> 0]]
    /\ within = {}
    /\ spends = [early |-> 0, late |-> 0]

-----------------------------------------------------------------------------
Tick ==
    /\ time < MaxTime
    /\ time' = time + 1
    /\ UNCHANGED <<counter, slots, spent, request, history>>

\* A sweep is begun on the back of a count, with n statements under way: one
\* at a time, never past the limit on statements, and at most once an interval.
MaySweep(p, n) == ~sweeping[p] /\ n < AtOnce /\ time - sweptAt[p] >= SweepEvery

\* incr: the count is sent, or waits for a slot, and a sweep may follow it.
Incr(r, p) ==
    LET sends == running[p] < AtOnce
        n == IF sends THEN running[p] + 1 ELSE running[p]
        sweeps == MaySweep(p, n)
    IN  /\ request[r].step = "out"
        /\ \A q \in 1..(r - 1) : request[q].step # "out"
        /\ \A o \in 1..(p - 1) : \E q \in 1..(r - 1) : request[q].on = o
        /\ request' = [request EXCEPT ![r].step = "counting", ![r].on = p,
                                      ![r].statement = IF sends THEN "sent" ELSE "waiting"]
        /\ waiting' = IF sends THEN waiting ELSE [waiting EXCEPT ![p] = Append(@, r)]
        /\ running' = [running EXCEPT ![p] = IF sweeps THEN n + 1 ELSE n]
        /\ sweeping' = IF sweeps THEN [sweeping EXCEPT ![p] = TRUE] ELSE sweeping
        /\ sweptAt' = IF sweeps THEN [sweptAt EXCEPT ![p] = time] ELSE sweptAt
        /\ UNCHANGED <<time, counter, spent, history>>

\* The row is not counted up where it is there.
SlipCountsNothing ==
    IF counter.ends <= time THEN [hits |-> 1, ends |-> time + Window] ELSE counter

\* The upsert: a new row, a row whose window is over counted as new, or one more.
Counted ==
    IF counter.hits = 0 \/ counter.ends <= time THEN [hits |-> 1, ends |-> time + Window]
    ELSE [counter EXCEPT !.hits = @ + 1]

\* The database runs a count.  Its request may have stopped waiting for it.
RunCount(r) ==
    /\ request[r].statement = "sent"
    /\ counter' = Counted
    /\ request' = [request EXCEPT ![r].statement = "ran", ![r].hit = Counted.hits]
    /\ within' = IF Counted.hits <= Budget THEN within \cup {[by |-> r, at |-> time]} ELSE within
    /\ UNCHANGED <<time, slots, spent, spends>>

\* What the plugin does with a count, and with none.
Limited(q) == [q EXCEPT !.step = IF q.hit <= Budget THEN "admitted" ELSE "done"]

Uncounted(q) == [q EXCEPT !.step = IF WhenUncounted = "admit" THEN "admitted" ELSE "done"]

\* done(): the slot is given back, and goes to whoever waits longest.
Released(p, requests) ==
    IF waiting[p] = <<>>
    THEN /\ request' = requests
         /\ running' = [running EXCEPT ![p] = @ - 1]
         /\ UNCHANGED waiting
    ELSE /\ request' = [requests EXCEPT ![Head(waiting[p])].statement = "sent"]
         /\ waiting' = [waiting EXCEPT ![p] = Tail(@)]
         /\ UNCHANGED running

\* What a request's answer does, to one that still waits and to one that does not.
Decided(q, row) ==
    LET over == [q EXCEPT !.statement = "over", !.hit = 0]
    IN  IF q.step # "counting" THEN over
        ELSE IF row THEN [Limited(q) EXCEPT !.statement = "over", !.hit = 0]
        ELSE Uncounted(over)

\* The slot of a count nobody waits for any more is not handed on.
SlipSlotStops(r, row) ==
    LET q == request[r]
        requests == [request EXCEPT ![r] = Decided(q, row)]
    IN  /\ q.statement = "ran" \/ (q.statement = "sent" /\ ~row)
        /\ IF q.step = "counting" THEN Released(q.on, requests)
           ELSE /\ request' = requests
                /\ running' = [running EXCEPT ![q.on] = @ - 1]
                /\ UNCHANGED waiting
        /\ UNCHANGED <<time, counter, sweeping, sweptAt, spent, history>>

\* A count is answered with its row, or with an error: the database ended it
\* at its bound, or the connection was lost before it ran or after.
Answered(r, row) ==
    LET q == request[r] IN
    /\ q.statement = "ran" \/ (q.statement = "sent" /\ ~row)
    /\ Released(q.on, [request EXCEPT ![r] = Decided(q, row)])
    /\ UNCHANGED <<time, counter, sweeping, sweptAt, spent, history>>

\* The timer looks after the counts that were sent, and not those that wait.
SlipWaitsForSlot(r) ==
    /\ request[r].step = "counting" /\ request[r].statement # "waiting"
    /\ request' = [request EXCEPT ![r] = Uncounted(request[r])]
    /\ UNCHANGED <<time, counter, slots, spent, history>>

\* The count did not come back within the bound.  One that was not sent never
\* is; one that was goes on, and still counts when it lands.
Late(r) ==
    LET q == request[r] IN
    /\ q.step = "counting"
    /\ IF q.statement = "waiting"
       THEN /\ \E i \in 1..Len(waiting[q.on]) :
                  waiting[q.on][i] = r /\ waiting' = [waiting EXCEPT ![q.on] = RemoveAt(@, i)]
            /\ request' = [request EXCEPT ![r] = Uncounted([q EXCEPT !.statement = "over"])]
       ELSE /\ request' = [request EXCEPT ![r] = Uncounted(q)]
            /\ UNCHANGED waiting
    /\ UNCHANGED <<time, counter, running, sweeping, sweptAt, spent, history>>

\* A sweep ends: it deleted the rows whose window is over, or it failed.
SweepEnds(p) ==
    /\ sweeping[p]
    /\ sweeping' = [sweeping EXCEPT ![p] = FALSE]
    /\ counter' \in {counter, IF counter.ends <= time THEN [hits |-> 0, ends |-> 0] ELSE counter}
    /\ Released(p, request)
    /\ UNCHANGED <<time, sweptAt, spent, history>>

-----------------------------------------------------------------------------
Ends(r) == request' = [request EXCEPT ![r].step = "done"]

\* verifySolution, in whole seconds: the second of the expiry still passes.
Verify(r) ==
    /\ request[r].step = "admitted"
    /\ IF time \div TicksASecond > Expires
       THEN Ends(r)
       ELSE request' = [request EXCEPT ![r].step = "verified"]
    /\ UNCHANGED <<time, counter, slots, spent, history>>

Expired == time > TicksASecond * Expires

SpentNow ==
    /\ spent' = TRUE
    /\ spends' = IF Expired THEN [spends EXCEPT !.late = @ + 1] ELSE [spends EXCEPT !.early = @ + 1]

\* The row is looked for, and whoever does not find it passes.
SlipConflictPasses(r) ==
    /\ request[r].step = "verified"
    /\ Ends(r) /\ SpentNow
    /\ UNCHANGED <<time, counter, slots, within>>

\* spendChallenge: the insert is the claim, and only one of two has it.  The
\* other is refused.
Spend(r) ==
    /\ request[r].step = "verified"
    /\ Ends(r)
    /\ IF spent THEN UNCHANGED <<spent, spends>> ELSE SpentNow
    /\ UNCHANGED <<time, counter, slots, within>>

\* The database fails a request, before its spend or after it.
Fail(r) ==
    /\ request[r].step \in {"admitted", "verified"}
    /\ Ends(r)
    /\ \/ UNCHANGED <<spent, spends>>
       \/ request[r].step = "verified" /\ ~spent /\ SpentNow
    /\ UNCHANGED <<time, counter, slots, within>>

\* forgetExpiredChallenges, to the millisecond, by any replica's sweeper.
ForgetExpired ==
    /\ spent /\ Expired
    /\ spent' = FALSE
    /\ UNCHANGED <<time, counter, slots, request, history>>

Own(r) == Late(r) \/ Verify(r) \/ Spend(r) \/ Fail(r)

Next ==
    \/ Tick
    \/ \E r \in Requests, p \in Replicas : Incr(r, p)
    \/ \E r \in Requests : RunCount(r) \/ Answered(r, TRUE) \/ Answered(r, FALSE) \/ Own(r)
    \/ \E p \in Replicas : SweepEnds(p)
    \/ ForgetExpired

Spec == Init /\ [][Next]_vars

\* A timer runs out, and storage answers or fails; the counter need not answer.
FairSpec == Spec /\ \A r \in Requests : WF_vars(Own(r))

-----------------------------------------------------------------------------
UnderWay(p) == {r \in Requests : request[r].on = p /\ request[r].statement \in {"sent", "ran"}}

(* A slot is taken by a statement that is under way and by nothing else,   *)
(* there are never more than the limit, and whoever waits waits for one    *)
(* that is taken: an abandoned count, a failed one and a sweep all give    *)
(* theirs back, and to a request that still wants it.                      *)
SlotsAreUsed ==
    \A p \in Replicas :
        /\ running[p] = Cardinality(UnderWay(p)) + (IF sweeping[p] THEN 1 ELSE 0)
        /\ running[p] <= AtOnce
        /\ waiting[p] # <<>> => running[p] = AtOnce
        /\ \A i, j \in 1..Len(waiting[p]) : waiting[p][i] = waiting[p][j] => i = j
        /\ {waiting[p][i] : i \in 1..Len(waiting[p])} =
              {r \in Requests : request[r].on = p /\ request[r].step = "counting" /\ request[r].statement = "waiting"}

CountedIn(ticks) == Cardinality({c \in within : c.at \in ticks})

(* The budget is the client's, not a replica's: however its requests are   *)
(* spread, abandoned and swept around, no stretch as long as a window      *)
(* counts more than two budgets in, the end of one window and the start of *)
(* the next, and the row refuses only who has used up a budget within the  *)
(* last window, never for one that is over.                                *)
BudgetIsShared ==
    /\ \A from \in 0..time : CountedIn(from..(from + Window - 1)) <= 2 * Budget
    /\ (counter.hits >= Budget /\ counter.ends > time) =>
          CountedIn((time - Window + 1)..time) >= Budget

(* A solved challenge passes one request as long as it has not expired,    *)
(* however requests that verified it together race, and whatever sweeps.   *)
OnePassesInTime == spends.early <= 1

(* Every request is decided, though the counter may never answer and the   *)
(* slots may stay taken for good: the limit has its bound, and the ones    *)
(* that wait for a slot have it too.  Requests are bounded, so there is a  *)
(* time at which none is left.                                             *)
EveryRequestIsDecided == []<>(\A r \in Requests : request[r].step \in {"out", "done"})
=============================================================================
