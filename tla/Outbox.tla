------------------------------- MODULE Outbox -------------------------------
(***************************************************************************)
(* Delivering webhooks: server-core/outbox.ts and breaker.ts, run by the   *)
(* timer of server/outbox-worker.ts, with the statements of                *)
(* server/postgres-storage.ts and the replay of server/routes/deliveries.ts *)
(*                                                                         *)
(* One worker claims a batch of due deliveries and takes them one by one:  *)
(* it reads the webhook's health, posts, writes the delivery and then the  *)
(* health, from the records it read.  Between two of these the process may *)
(* die or a statement fail, which ends the batch, and an operator may put  *)
(* a dead delivery back in the queue.                                      *)
(*                                                                         *)
(* Time.  A batch reads the clock once and everything it decides or stores *)
(* is relative to that reading.  So a delivery holds the ticks to its next *)
(* attempt and a webhook the ticks its breaker stays open, both counted    *)
(* from `the worker's now`: the present while it rests, the start of the   *)
(* batch while it works, when the time that passes gathers in `late`.      *)
(*                                                                         *)
(* A definition named Slip... is no part of the model: it is a mistake the *)
(* code could have made in the definition that follows it.                 *)
(***************************************************************************)
EXTENDS Naturals, FiniteSets, FiniteSetsExt

CONSTANTS
    Deliveries,     \* rows of the outbox, each queued at most once
    Hooks,
    HookOf,         \* the webhook of each delivery
    Operators,      \* replay requests
    MaxAttempts,    \* MAX_ATTEMPTS
    Threshold,      \* BREAKER_THRESHOLD
    Cooldown,       \* BREAKER_COOLDOWN_MS, in ticks
    BatchLimit,     \* deliveries in a batch
    MaxLate,        \* bound: ticks a batch lasts
    MaxAborts,      \* bound: batches that die
    MaxReplays      \* bound: replays

ASSUME OutboxConstants ==
    /\ HookOf \in [Deliveries -> Hooks]
    /\ {MaxAttempts, Threshold, Cooldown, BatchLimit} \subseteq Nat \ {0}
    /\ {MaxLate, MaxAborts, MaxReplays} \subseteq Nat
    /\ MaxLate < Cooldown   \* BatchLimit posts of ten seconds, against five minutes

VARIABLES
    delivery,   \* the deliveries table
    hook,       \* webhooks: consecutive failures, and ticks to half-open
    worker,     \* the batch in hand
    late,       \* ticks since the batch read the clock
    replay,     \* the replay requests: the delivery each found dead
    posts,      \* history: posts of a delivery since it was queued or revived
    accepted,   \* history: deliveries their receiver took
    probes,     \* history: posts to a webhook since its cool-down ended
    quiet,      \* history: ticks since a webhook's last failure was recorded
    outdated,   \* history: deliveries revived by a replay that read them before another's
    aborts,     \* batches that died
    replays     \* replays so far

history == <<posts, accepted, probes, quiet, outdated>>
vars == <<delivery, hook, worker, late, replay, posts, accepted, probes, quiet, outdated,
          aborts, replays>>

States == {"absent", "pending", "delivered", "dead"}

\* Base of the retry schedule, thirty seconds doubled for every attempt; full
\* jitter takes any delay below it.
RetryDelays(attempt) == 0..(2^(attempt - 1) - 1)

Records == [state : States, attempt : 0..MaxAttempts, wait : Nat]

\* A batch: the step of the delivery d in hand, what is left to do, the attempts
\* it read, and how the post went.
Batches ==
    [pc : {"idle", "next", "sending", "recording", "settling"}, todo : SUBSET Deliveries,
     seen : [Deliveries -> 0..MaxAttempts], d : SUBSET Deliveries, ok : BOOLEAN]

Nobody == [pc |-> "idle", todo |-> {}, seen |-> [d \in Deliveries |-> 0], d |-> {}, ok |-> FALSE]

TypeOK ==
    /\ delivery \in [Deliveries -> Records]
    /\ hook \in [Hooks -> [failures : 0..Threshold, cooling : 0..Cooldown]]
    /\ worker \in Batches
    /\ late \in 0..MaxLate
    /\ replay \in [Operators -> SUBSET Deliveries]
    /\ posts \in [Deliveries -> Nat]
    /\ accepted \subseteq Deliveries
    /\ probes \in [Hooks -> Nat]
    /\ quiet \in [Hooks -> 0..Cooldown]
    /\ outdated \subseteq Deliveries
    /\ aborts \in 0..MaxAborts
    /\ replays \in 0..MaxReplays

Init ==
    /\ delivery = [d \in Deliveries |-> [state |-> "absent", attempt |-> 0, wait |-> 0]]
    /\ hook = [h \in Hooks |-> [failures |-> 0, cooling |-> 0]]
    /\ worker = Nobody
    /\ late = 0
    /\ replay = [o \in Operators |-> {}]
    /\ posts = [d \in Deliveries |-> 0]
    /\ accepted = {}
    /\ probes = [h \in Hooks |-> 0]
    /\ quiet = [h \in Hooks |-> Cooldown]
    /\ outdated = {}
    /\ aborts = 0
    /\ replays = 0

\* The breaker never half-opens.
SlipNeverHalfOpen(h) == hook[h].failures = Threshold

Open(h) == hook[h].failures = Threshold /\ hook[h].cooling > 0

Sooner(ticks, n) == IF ticks > n THEN ticks - n ELSE 0

\* n ticks pass for what is stored; a cool-down that ends earns a probe.
Pass(n) ==
    /\ delivery' = [d \in Deliveries |-> [delivery[d] EXCEPT !.wait = Sooner(@, n)]]
    /\ hook' = [h \in Hooks |-> [hook[h] EXCEPT !.cooling = Sooner(@, n)]]
    /\ probes' = [h \in Hooks |-> IF hook[h].cooling \in 1..n THEN 0 ELSE probes[h]]

\* The batch is over, done or dead: what it counted from its start is
\* counted from now.
EndBatch ==
    /\ worker' = Nobody
    /\ late' = 0
    /\ Pass(late)
    /\ UNCHANGED <<replay, posts, accepted, quiet, outdated, replays>>

-----------------------------------------------------------------------------
\* insertSubmission queues a delivery, due now.
Queue(d) ==
    /\ delivery[d].state = "absent"
    /\ delivery' = [delivery EXCEPT ![d] = [state |-> "pending", attempt |-> 0, wait |-> late]]
    /\ UNCHANGED <<hook, worker, late, replay, history, aborts, replays>>

Due == {d \in Deliveries : delivery[d].state = "pending" /\ delivery[d].wait = 0}

\* drainOutbox reads the clock and claimDueDeliveries the oldest due rows;
\* which of them are oldest is a choice.
Claim ==
    /\ worker.pc = "idle"
    /\ Due # {}
    /\ \E batch \in SUBSET Due :
          /\ Cardinality(batch) = Min({BatchLimit, Cardinality(Due)})
          /\ worker' = [Nobody EXCEPT !.pc = "next", !.todo = batch,
                           !.seen = [d \in Deliveries |-> IF d \in batch THEN delivery[d].attempt ELSE 0]]
    /\ UNCHANGED <<delivery, hook, late, replay, history, aborts, replays>>

\* A skipped delivery is charged an attempt.
SlipSkipCosts(d) ==
    /\ worker.pc = "next" /\ d \in worker.todo /\ Open(HookOf[d])
    /\ delivery' = [delivery EXCEPT ![d] = [state |-> "pending", wait |-> Cooldown,
                       attempt |-> Min({MaxAttempts, worker.seen[d] + 1})]]
    /\ worker' = [worker EXCEPT !.todo = @ \ {d}, !.seen[d] = 0]
    /\ UNCHANGED <<hook, late, replay, history, aborts, replays>>

\* The breaker is open: the delivery is pushed out and keeps its attempts.
Skip(d) ==
    /\ worker.pc = "next" /\ d \in worker.todo /\ Open(HookOf[d])
    /\ delivery' = [delivery EXCEPT ![d] = [state |-> "pending", wait |-> Cooldown,
                                            attempt |-> worker.seen[d]]]
    /\ worker' = [worker EXCEPT !.todo = @ \ {d}, !.seen[d] = 0]
    /\ UNCHANGED <<hook, late, replay, history, aborts, replays>>

\* The breaker is closed, or half-open: the delivery is posted.
Post(d) ==
    /\ worker.pc = "next" /\ d \in worker.todo /\ ~Open(HookOf[d])
    /\ worker' = [worker EXCEPT !.pc = "sending", !.todo = @ \ {d}, !.d = {d}]
    /\ posts' = [posts EXCEPT ![d] = @ + 1]
    /\ probes' = IF hook[HookOf[d]].failures = Threshold
                 THEN [probes EXCEPT ![HookOf[d]] = @ + 1]
                 ELSE probes
    /\ UNCHANGED <<delivery, hook, late, replay, accepted, quiet, outdated, aborts, replays>>

\* The receiver takes it, and its answer may be lost; or it does not.
Receive(took, heard) ==
    /\ worker.pc = "sending"
    /\ heard => took
    /\ worker' = [worker EXCEPT !.pc = "recording", !.ok = heard]
    /\ accepted' = IF took THEN accepted \cup worker.d ELSE accepted
    /\ UNCHANGED <<delivery, hook, late, replay, posts, probes, quiet, outdated, aborts, replays>>

\* The last attempt is taken for a success.
SlipDeadIsDelivered(d) ==
    LET attempt == worker.seen[d] + 1
    IN  IF worker.ok \/ attempt >= MaxAttempts
        THEN {[state |-> "delivered", attempt |-> attempt, wait |-> 0]}
        ELSE {[state |-> "pending", attempt |-> attempt, wait |-> w] : w \in RetryDelays(attempt)}

\* afterAttempt: what a delivery may become.
AfterAttempt(d) ==
    LET attempt == worker.seen[d] + 1
    IN  IF worker.ok
        THEN {[state |-> "delivered", attempt |-> attempt, wait |-> 0]}
        ELSE IF attempt >= MaxAttempts
        THEN {[state |-> "dead", attempt |-> attempt, wait |-> 0]}
        ELSE {[state |-> "pending", attempt |-> attempt, wait |-> w] : w \in RetryDelays(attempt)}

\* updateDelivery.
Record(d) ==
    /\ worker.pc = "recording" /\ d \in worker.d
    /\ \E r \in AfterAttempt(d) : delivery' = [delivery EXCEPT ![d] = r]
    /\ worker' = [worker EXCEPT !.pc = "settling", !.seen[d] = 0]
    /\ UNCHANGED <<hook, late, replay, history, aborts, replays>>

\* A probe that fails does not start the cool-down again.
SlipProbeKeepsStamp(h) ==
    LET failures == Min({Threshold, hook[h].failures + 1})
    IN  IF worker.ok
        THEN [failures |-> 0, cooling |-> 0]
        ELSE [failures |-> failures,
              cooling |-> IF failures = Threshold /\ hook[h].failures < Threshold
                          THEN Cooldown ELSE hook[h].cooling]

\* afterWebhookAttempt; failures past the threshold are not told apart.
AfterWebhookAttempt(h) ==
    LET failures == Min({Threshold, hook[h].failures + 1})
    IN  IF worker.ok
        THEN [failures |-> 0, cooling |-> 0]
        ELSE [failures |-> failures, cooling |-> IF failures = Threshold THEN Cooldown ELSE hook[h].cooling]

\* updateWebhook, from the record read before the post; nobody else writes it.
Settle(d) ==
    /\ worker.pc = "settling" /\ d \in worker.d
    /\ hook' = [hook EXCEPT ![HookOf[d]] = AfterWebhookAttempt(HookOf[d])]
    /\ probes' = IF worker.ok THEN [probes EXCEPT ![HookOf[d]] = 0] ELSE probes
    /\ quiet' = IF worker.ok THEN quiet ELSE [quiet EXCEPT ![HookOf[d]] = 0]
    /\ worker' = [worker EXCEPT !.pc = "next", !.d = {}, !.ok = FALSE]
    /\ UNCHANGED <<delivery, late, replay, posts, accepted, outdated, aborts, replays>>

Finish ==
    /\ worker.pc = "next" /\ worker.todo = {}
    /\ EndBatch
    /\ UNCHANGED aborts

\* The process dies, or a statement fails and the timer comes back.
Abort ==
    /\ worker.pc # "idle"
    /\ aborts < MaxAborts
    /\ aborts' = aborts + 1
    /\ EndBatch

\* replayDelivery reads the delivery, and refuses one that is not dead.
AskReplay(o, d) ==
    /\ replay[o] = {}
    /\ replays < MaxReplays
    /\ delivery[d].state = "dead"
    /\ replay' = [replay EXCEPT ![o] = {d}]
    /\ replays' = replays + 1
    /\ UNCHANGED <<delivery, hook, worker, late, history, aborts>>

\* Due now, with all its attempts; the audit row after it changes nothing.
Revive(o, d) ==
    /\ d \in replay[o]
    /\ delivery' = [delivery EXCEPT ![d] = [state |-> "pending", attempt |-> 0, wait |-> late]]
    /\ replay' = [replay EXCEPT ![o] = {}]
    /\ posts' = [posts EXCEPT ![d] = 0]
    /\ outdated' = IF delivery[d].state = "dead" THEN outdated ELSE outdated \cup {d}
    /\ UNCHANGED <<hook, worker, late, accepted, probes, quiet, aborts, replays>>

\* A tick: of what is stored while the worker rests, of the batch otherwise.
Tick ==
    /\ IF worker.pc = "idle"
       THEN Pass(1) /\ UNCHANGED late
       ELSE /\ late < MaxLate
            /\ late' = late + 1
            /\ UNCHANGED <<delivery, hook, probes>>
    /\ quiet' = [h \in Hooks |-> Min({Cooldown, quiet[h] + 1})]
    /\ UNCHANGED <<worker, replay, posts, accepted, outdated, aborts, replays>>

Work ==
    \/ Claim
    \/ \E d \in Deliveries : Skip(d) \/ Post(d) \/ Record(d) \/ Settle(d)
    \/ \E took, heard \in BOOLEAN : Receive(took, heard)
    \/ Finish

Next ==
    \/ Work
    \/ Abort
    \/ Tick
    \/ \E d \in Deliveries : Queue(d)
    \/ \E o \in Operators, d \in Deliveries : AskReplay(o, d) \/ Revive(o, d)

Spec == Init /\ [][Next]_vars

\* The timer comes back, a post is answered or times out, and time passes.
FairSpec == Spec /\ WF_vars(Work) /\ WF_vars(Tick)

-----------------------------------------------------------------------------
(* Attempts and posts agree: every attempt charged to a delivery was posted *)
(* (a skip costs nothing), and every post is charged, except the one in     *)
(* hand and those whose batch died.  So a run is at most MaxAttempts posts  *)
(* and one more for every batch that dies.  Only the replay that writes     *)
(* what it read before another replay's breaks the count.                   *)
PostsAreCharged ==
    \A d \in Deliveries \ outdated :
        /\ delivery[d].attempt <= posts[d]
        /\ posts[d] <= delivery[d].attempt + aborts
                         + (IF d \in worker.d /\ worker.pc \in {"sending", "recording"} THEN 1 ELSE 0)

(* Dead is the evidence of something never sent: every attempt was made,    *)
(* but for that same replay, and delivered means that the receiver took it. *)
EndsAreEarned ==
    \A d \in Deliveries :
        /\ delivery[d].state = "dead" /\ d \notin outdated => posts[d] >= MaxAttempts
        /\ delivery[d].state = "delivered" => d \in accepted

(* A cool-down earns one post: another goes to a webhook that has not       *)
(* answered only if the batch that sent the first died.                     *)
OneProbe == \A h \in Hooks : probes[h] <= 1 + aborts

(* A webhook that failed Threshold times in a row is left alone until its   *)
(* cool-down has passed since the last failure, less at most the time the   *)
(* batch that saw it had run: openedAt is the batch's clock, read once at   *)
(* its start (breaker.ts, outbox.ts).                                       *)
CooldownIsWaited ==
    [][\A d \in Deliveries :
          posts'[d] > posts[d] /\ hook[HookOf[d]].failures = Threshold =>
              quiet[HookOf[d]] + MaxLate >= Cooldown]_vars

(* Every queued delivery is delivered or found dead, however its receiver   *)
(* answers and its breaker opens: no skip and no schedule starves it.       *)
EveryDeliveryEnds ==
    \A d \in Deliveries : delivery[d].state = "pending" ~> delivery[d].state \in {"delivered", "dead"}
=============================================================================
