---------------------------- MODULE Outbox_proofs ----------------------------
(***************************************************************************)
(* What Outbox promises of attempts, deaths, probes and cool-downs, for    *)
(* every number of deliveries, webhooks and operators.  The argument: a    *)
(* delivery of the batch in hand is as the batch read it, unless a replay  *)
(* wrote what it had read before another's; a cool-down and what has       *)
(* passed since the failure it was given for add up to a whole one, less   *)
(* the batch that gave it.                                                 *)
(***************************************************************************)
EXTENDS Outbox, TLAPS

Working == worker.pc \in {"sending", "recording", "settling"}
InHand(d) == d \in worker.d /\ worker.pc \in {"sending", "recording"}

(* The worker has one delivery in hand while it works on it, and else none. *)
HandInv ==
    /\ worker.pc = "idle" => worker.todo = {}
    /\ Working => \E d \in Deliveries : worker.d = {d}
    /\ ~Working => worker.d = {} /\ ~worker.ok
    /\ worker.todo \cap worker.d = {}

(* A delivery that is queued, in the table or in a batch, has attempts left. *)
LeftInv ==
    \A d \in Deliveries :
        /\ worker.seen[d] < MaxAttempts
        /\ delivery[d].state = "pending" => delivery[d].attempt < MaxAttempts
        /\ delivery[d].state = "absent" => delivery[d].attempt = 0

(* What the batch read of a delivery it is still to write is what is there. *)
SeenInv ==
    \A d \in Deliveries \ outdated :
        d \in worker.todo \/ InHand(d) =>
            delivery[d].state = "pending" /\ delivery[d].attempt = worker.seen[d]

(* The post in hand is one more than the attempts recorded. *)
PostInv == \A d \in Deliveries \ outdated : InHand(d) => delivery[d].attempt + 1 <= posts[d]

(* A success was taken. *)
OkInv == worker.ok => worker.d \subseteq accepted

(* A webhook ready for its probe, with none in hand, has had no probe but  *)
(* those whose batch died.                                                 *)
ProbeInv ==
    \A h \in Hooks :
        hook[h].failures = Threshold /\ hook[h].cooling = 0 /\ (\A d \in worker.d : HookOf[d] # h) =>
            probes[h] <= aborts

(* A cool-down that runs and what has passed since the failure are a whole *)
(* one, but for what is left of the longest batch.                         *)
QuietInv ==
    \A h \in Hooks :
        hook[h].failures = Threshold => hook[h].cooling + quiet[h] + MaxLate >= Cooldown + late

IInv ==
    /\ TypeOK /\ HandInv /\ LeftInv /\ SeenInv /\ PostInv /\ OkInv /\ ProbeInv /\ QuietInv
    /\ PostsAreCharged /\ EndsAreEarned /\ OneProbe

-----------------------------------------------------------------------------
(* The library's least member of a set, of a pair. *)
LEMMA MinOfTwo ==
  ASSUME NEW a \in Nat, NEW b \in Nat
  PROVE  Min({a, b}) = IF a <= b THEN a ELSE b
<1> DEFINE least == IF a <= b THEN a ELSE b
<1>1. least \in {a, b} /\ \A y \in {a, b} : least <= y
  OBVIOUS
<1>2. \A x \in {a, b} : (\A y \in {a, b} : x <= y) => x = least
  OBVIOUS
<1> QED BY <1>1, <1>2 DEF Min

(* The bounds, for the provers. *)
LEMMA Bounds ==
    /\ HookOf \in [Deliveries -> Hooks]
    /\ MaxAttempts \in Nat /\ MaxAttempts > 0 /\ Threshold \in Nat /\ Threshold > 0
    /\ Cooldown \in Nat /\ Cooldown > 0 /\ MaxLate \in Nat /\ MaxAborts \in Nat /\ MaxReplays \in Nat
  BY OutboxConstants

(* Nothing is queued at first. *)
LEMMA InitInv == Init => IInv
<1> SUFFICES ASSUME Init PROVE IInv
  OBVIOUS
<1> USE Bounds
<1>1. TypeOK
  BY DEF Init, TypeOK, Records, States, Nobody, Batches
<1>2. HandInv /\ LeftInv /\ SeenInv /\ PostInv /\ OkInv
  BY DEF Init, HandInv, LeftInv, SeenInv, PostInv, OkInv, Working, InHand, Nobody
<1>3. ProbeInv /\ QuietInv /\ OneProbe
  BY DEF Init, ProbeInv, QuietInv, OneProbe
<1>4. PostsAreCharged /\ EndsAreEarned
  BY DEF Init, PostsAreCharged, EndsAreEarned, Nobody
<1> QED BY <1>1, <1>2, <1>3, <1>4 DEF IInv

(* A step that leaves everything as it is keeps everything. *)
LEMMA StutterKeeps == IInv /\ UNCHANGED vars => IInv'
  BY DEF vars, IInv, TypeOK, HandInv, LeftInv, SeenInv, PostInv, OkInv, ProbeInv, QuietInv,
         PostsAreCharged, EndsAreEarned, OneProbe, Working, InHand

(* Queueing: a delivery nobody has touched becomes due. *)
LEMMA QueueKeeps ==
  ASSUME NEW d \in Deliveries, IInv, Queue(d)
  PROVE  IInv'
<1> USE Bounds
<1> DEFINE r == [state |-> "pending", attempt |-> 0, wait |-> late]
<1>0. /\ delivery[d].state = "absent" /\ delivery' = [delivery EXCEPT ![d] = r]
      /\ UNCHANGED <<hook, worker, late, replay, posts, accepted, probes, quiet, outdated, aborts, replays>>
  BY DEF Queue, history
<1>1. TypeOK'
  <2>1. r \in Records
    BY DEF IInv, TypeOK, Records, States
  <2> QED BY <1>0, <2>1 DEF IInv, TypeOK
<1>2. HandInv' /\ LeftInv' /\ OkInv' /\ ProbeInv' /\ QuietInv' /\ OneProbe'
  BY <1>0 DEF IInv, TypeOK, HandInv, LeftInv, OkInv, ProbeInv, QuietInv, OneProbe, Working
<1>3. \A c \in Deliveries \ outdated : c \in worker.todo \/ InHand(c) => c # d
  BY <1>0 DEF IInv, SeenInv
<1>4. SeenInv' /\ PostInv'
  BY <1>0, <1>3 DEF IInv, TypeOK, SeenInv, PostInv, InHand
<1>5. delivery[d].attempt = 0
  BY <1>0 DEF IInv, LeftInv
<1>6. PostsAreCharged' /\ EndsAreEarned'
  BY <1>0, <1>5 DEF IInv, TypeOK, PostsAreCharged, EndsAreEarned
<1> QED BY <1>1, <1>2, <1>4, <1>6 DEF IInv

(* Claiming: the batch is what is due. *)
LEMMA ClaimKeeps == IInv /\ Claim => IInv'
<1> SUFFICES ASSUME IInv, Claim PROVE IInv'
  OBVIOUS
<1> USE Bounds
<1>1. PICK batch \in SUBSET Due :
         worker' = [Nobody EXCEPT !.pc = "next", !.todo = batch,
                      !.seen = [d \in Deliveries |-> IF d \in batch THEN delivery[d].attempt ELSE 0]]
  BY DEF Claim
<1>2. /\ worker.pc = "idle"
      /\ UNCHANGED <<delivery, hook, late, replay, posts, accepted, probes, quiet, outdated, aborts, replays>>
  BY DEF Claim, history
<1>3. /\ worker'.pc = "next" /\ worker'.todo = batch /\ worker'.d = {} /\ worker'.ok = FALSE
      /\ worker'.seen = [d \in Deliveries |-> IF d \in batch THEN delivery[d].attempt ELSE 0]
      /\ batch \subseteq Deliveries
  BY <1>1 DEF Nobody, Due
<1>4. \A d \in batch : delivery[d].state = "pending"
  BY DEF Due
<1>5. TypeOK'
  <2>1. worker'.seen \in [Deliveries -> 0..MaxAttempts]
    BY <1>3 DEF IInv, TypeOK, Records
  <2>2. worker' \in Batches
    BY <1>1, <1>3, <2>1 DEF Nobody, Batches
  <2> QED BY <1>2, <2>2 DEF IInv, TypeOK
<1>6. HandInv' /\ OkInv'
  BY <1>3 DEF HandInv, OkInv, Working
<1>7. LeftInv' /\ SeenInv' /\ PostInv'
  BY <1>2, <1>3, <1>4 DEF IInv, LeftInv, SeenInv, PostInv, InHand
<1>8. ~Working
  BY <1>2 DEF Working
<1>9. ProbeInv' /\ QuietInv' /\ OneProbe'
  BY <1>2, <1>3, <1>8 DEF IInv, HandInv, ProbeInv, QuietInv, OneProbe
<1>10. PostsAreCharged' /\ EndsAreEarned'
  BY <1>2, <1>3, <1>8 DEF IInv, HandInv, PostsAreCharged, EndsAreEarned
<1> QED BY <1>5, <1>6, <1>7, <1>9, <1>10 DEF IInv

(* Skipping costs nothing. *)
LEMMA SkipKeeps ==
  ASSUME NEW d \in Deliveries, IInv, Skip(d)
  PROVE  IInv'
<1> USE Bounds
<1> DEFINE r == [state |-> "pending", wait |-> Cooldown, attempt |-> worker.seen[d]]
<1>0. /\ worker.pc = "next" /\ d \in worker.todo
      /\ delivery' = [delivery EXCEPT ![d] = r]
      /\ worker' = [worker EXCEPT !.todo = @ \ {d}, !.seen[d] = 0]
      /\ UNCHANGED <<hook, late, replay, posts, accepted, probes, quiet, outdated, aborts, replays>>
  BY DEF Skip, history
<1>t. TypeOK
  BY DEF IInv
<1>1. /\ worker'.pc = "next" /\ worker'.todo = worker.todo \ {d} /\ worker'.d = worker.d
      /\ worker'.ok = worker.ok /\ worker'.seen = [worker.seen EXCEPT ![d] = 0]
      /\ worker.seen \in [Deliveries -> 0..MaxAttempts]
  BY <1>0, <1>t DEF TypeOK, Batches
<1>2. ~Working /\ worker.d = {}
  BY <1>0 DEF IInv, HandInv, Working
<1>3. TypeOK'
  <2>1. r \in Records
    BY <1>1 DEF Records, States
  <2>2. worker'.seen \in [Deliveries -> 0..MaxAttempts]
    BY <1>1
  <2>3. worker' = [worker EXCEPT !.todo = worker.todo \ {d}, !.seen = worker'.seen]
    BY <1>0, <1>1, <1>t DEF TypeOK, Batches
  <2>4. worker' \in Batches
    BY <2>2, <2>3, <1>t DEF TypeOK, Batches
  <2> QED BY <1>0, <1>t, <2>1, <2>4 DEF TypeOK
<1>4. HandInv' /\ OkInv'
  BY <1>0, <1>1, <1>2 DEF IInv, HandInv, OkInv, Working
<1>5. LeftInv'
  BY <1>0, <1>1, <1>t DEF IInv, LeftInv, TypeOK
<1>6. SeenInv' /\ PostInv'
  BY <1>0, <1>1, <1>2, <1>t DEF IInv, SeenInv, PostInv, InHand, TypeOK
<1>7. ProbeInv' /\ QuietInv' /\ OneProbe'
  BY <1>0, <1>1 DEF IInv, ProbeInv, QuietInv, OneProbe
<1>8. d \notin outdated => delivery[d].attempt = worker.seen[d]
  BY <1>0 DEF IInv, SeenInv
<1>9. \A c \in Deliveries \ outdated : delivery'[c].attempt = delivery[c].attempt
  BY <1>0, <1>8, <1>t DEF TypeOK, Records
<1>10. PostsAreCharged'
  BY <1>0, <1>1, <1>2, <1>9 DEF IInv, PostsAreCharged
<1>11. EndsAreEarned'
  BY <1>0, <1>t DEF IInv, EndsAreEarned, TypeOK
<1> QED BY <1>3, <1>4, <1>5, <1>6, <1>7, <1>10, <1>11 DEF IInv

(* Posting: one more post, and a probe if the webhook was waiting for one. *)
LEMMA PostKeeps ==
  ASSUME NEW d \in Deliveries, IInv, Post(d)
  PROVE  IInv'
<1> USE Bounds
<1> DEFINE h == HookOf[d]
<1>t. TypeOK
  BY DEF IInv
<1>0. /\ worker.pc = "next" /\ d \in worker.todo /\ ~Open(h)
      /\ worker' = [worker EXCEPT !.pc = "sending", !.todo = @ \ {d}, !.d = {d}]
      /\ posts' = [posts EXCEPT ![d] = @ + 1]
      /\ probes' = IF hook[h].failures = Threshold THEN [probes EXCEPT ![h] = @ + 1] ELSE probes
      /\ UNCHANGED <<delivery, hook, late, replay, accepted, quiet, outdated, aborts, replays>>
  BY DEF Post
<1>1. /\ worker'.pc = "sending" /\ worker'.todo = worker.todo \ {d} /\ worker'.d = {d}
      /\ worker'.ok = worker.ok /\ worker'.seen = worker.seen
  BY <1>0, <1>t DEF TypeOK, Batches
<1>2. worker.d = {} /\ ~worker.ok
  BY <1>0 DEF IInv, HandInv, Working
<1>3. h \in Hooks
  OBVIOUS
<1>4. TypeOK'
  <2>1. worker' \in Batches
    BY <1>0, <1>t DEF TypeOK, Batches
  <2>2. posts' \in [Deliveries -> Nat] /\ probes' \in [Hooks -> Nat]
    BY <1>0, <1>3, <1>t DEF TypeOK
  <2> QED BY <1>0, <1>t, <2>1, <2>2 DEF TypeOK
<1>5. HandInv' /\ OkInv'
  BY <1>1, <1>2 DEF IInv, HandInv, OkInv, Working
<1>6. LeftInv'
  BY <1>0, <1>1 DEF IInv, LeftInv
<1>7. SeenInv'
  BY <1>0, <1>1 DEF IInv, SeenInv, InHand
<1>8. posts'[d] = posts[d] + 1 /\ \A c \in Deliveries : c # d => posts'[c] = posts[c]
  BY <1>0, <1>t DEF TypeOK, Batches
<1>9. \A c \in Deliveries : delivery[c].attempt \in Nat /\ posts[c] \in Nat /\ aborts \in Nat
  BY <1>t DEF TypeOK, Records
<1>10. PostInv'
  BY <1>0, <1>1, <1>8, <1>9 DEF IInv, PostInv, InHand, PostsAreCharged
<1>11. PostsAreCharged'
  BY <1>0, <1>1, <1>2, <1>8, <1>9 DEF IInv, PostsAreCharged
<1>12. EndsAreEarned'
  BY <1>0, <1>8, <1>9 DEF IInv, EndsAreEarned
<1>13. hook[h].failures = Threshold => probes[h] <= aborts
  BY <1>0, <1>2, <1>3, <1>t DEF IInv, ProbeInv, Open, TypeOK
<1>14. OneProbe'
  BY <1>0, <1>3, <1>9, <1>13, <1>t DEF IInv, OneProbe, TypeOK
<1>15. ProbeInv'
  BY <1>0, <1>1, <1>2, <1>3, <1>t DEF IInv, ProbeInv, TypeOK
<1>16. QuietInv'
  BY <1>0 DEF IInv, QuietInv
<1> QED BY <1>4, <1>5, <1>6, <1>7, <1>10, <1>11, <1>12, <1>14, <1>15, <1>16 DEF IInv

(* Receiving: what is heard was taken. *)
LEMMA ReceiveKeeps ==
  ASSUME NEW took \in BOOLEAN, NEW heard \in BOOLEAN, IInv, Receive(took, heard)
  PROVE  IInv'
<1>t. TypeOK
  BY DEF IInv
<1>0. /\ worker.pc = "sending" /\ (heard => took)
      /\ worker' = [worker EXCEPT !.pc = "recording", !.ok = heard]
      /\ accepted' = IF took THEN accepted \cup worker.d ELSE accepted
      /\ UNCHANGED <<delivery, hook, late, replay, posts, probes, quiet, outdated, aborts, replays>>
  BY DEF Receive
<1>1. /\ worker'.pc = "recording" /\ worker'.todo = worker.todo /\ worker'.d = worker.d
      /\ worker'.ok = heard /\ worker'.seen = worker.seen
  BY <1>0, <1>t DEF TypeOK, Batches
<1>2. TypeOK'
  <2>1. worker' \in Batches
    BY <1>0, <1>t DEF TypeOK, Batches
  <2>2. accepted' \subseteq Deliveries
    BY <1>0, <1>t DEF TypeOK, Batches
  <2> QED BY <1>0, <1>t, <2>1, <2>2 DEF TypeOK
<1>3. HandInv' /\ OkInv'
  BY <1>0, <1>1 DEF IInv, HandInv, OkInv, Working
<1>4. LeftInv' /\ SeenInv' /\ PostInv'
  BY <1>0, <1>1 DEF IInv, LeftInv, SeenInv, PostInv, InHand
<1>5. ProbeInv' /\ QuietInv' /\ OneProbe'
  BY <1>0, <1>1 DEF IInv, ProbeInv, QuietInv, OneProbe
<1>6. PostsAreCharged' /\ EndsAreEarned'
  BY <1>0, <1>1 DEF IInv, PostsAreCharged, EndsAreEarned
<1> QED BY <1>2, <1>3, <1>4, <1>5, <1>6 DEF IInv

(* What a delivery may become: one attempt more, taken only if it was heard. *)
LEMMA AfterAttempts ==
  ASSUME NEW d \in Deliveries, IInv, NEW r \in AfterAttempt(d)
  PROVE  /\ r \in Records /\ r.attempt = worker.seen[d] + 1
         /\ r.state \in {"pending", "delivered", "dead"}
         /\ r.state = "pending" => r.attempt < MaxAttempts
         /\ r.state = "delivered" => worker.ok
         /\ r.state = "dead" => r.attempt >= MaxAttempts
<1> USE Bounds
<1> DEFINE n == worker.seen[d] + 1
<1>1. worker.seen[d] \in Nat /\ n \in 1..MaxAttempts
  BY DEF IInv, TypeOK, Batches, LeftInv
<1>2. RetryDelays(n) \subseteq Nat
  BY DEF RetryDelays
<1>3. CASE worker.ok
  BY <1>1, <1>3 DEF AfterAttempt, Records, States
<1>4. CASE ~worker.ok /\ n >= MaxAttempts
  BY <1>1, <1>4 DEF AfterAttempt, Records, States
<1>5. CASE ~worker.ok /\ ~(n >= MaxAttempts)
  <2>1. PICK w \in RetryDelays(n) : r = [state |-> "pending", attempt |-> n, wait |-> w]
    BY <1>5 DEF AfterAttempt
  <2> QED BY <2>1, <1>1, <1>2, <1>5 DEF Records, States
<1> QED BY <1>3, <1>4, <1>5

(* Recording: the attempt in hand is charged. *)
LEMMA RecordKeeps ==
  ASSUME NEW d \in Deliveries, IInv, Record(d)
  PROVE  IInv'
<1> USE Bounds
<1>t. TypeOK
  BY DEF IInv
<1>0. /\ worker.pc = "recording" /\ d \in worker.d
      /\ worker' = [worker EXCEPT !.pc = "settling", !.seen[d] = 0]
      /\ UNCHANGED <<hook, late, replay, posts, accepted, probes, quiet, outdated, aborts, replays>>
  BY DEF Record, history
<1>r. PICK r \in AfterAttempt(d) : delivery' = [delivery EXCEPT ![d] = r]
  BY DEF Record
<1>1. /\ worker'.pc = "settling" /\ worker'.todo = worker.todo /\ worker'.d = worker.d
      /\ worker'.ok = worker.ok /\ worker'.seen = [worker.seen EXCEPT ![d] = 0]
      /\ worker.seen \in [Deliveries -> 0..MaxAttempts]
  BY <1>0, <1>t DEF TypeOK, Batches
<1>2. worker.d = {d}
  BY <1>0 DEF IInv, HandInv, Working
<1>3. /\ r \in Records /\ r.attempt = worker.seen[d] + 1
      /\ r.state \in {"pending", "delivered", "dead"}
      /\ r.state = "pending" => r.attempt < MaxAttempts
      /\ r.state = "delivered" => worker.ok
      /\ r.state = "dead" => r.attempt >= MaxAttempts
  BY <1>r, AfterAttempts
<1>4. delivery'[d] = r /\ \A c \in Deliveries : c # d => delivery'[c] = delivery[c]
  BY <1>r, <1>t DEF TypeOK
<1>5. TypeOK'
  <2>1. worker'.seen \in [Deliveries -> 0..MaxAttempts]
    BY <1>1
  <2>2. worker' = [worker EXCEPT !.pc = "settling", !.seen = worker'.seen]
    BY <1>0, <1>1, <1>t DEF TypeOK, Batches
  <2>3. worker' \in Batches
    BY <2>1, <2>2, <1>t DEF TypeOK, Batches
  <2> QED BY <1>0, <1>r, <1>3, <1>t, <2>3 DEF TypeOK
<1>6. HandInv' /\ OkInv'
  BY <1>0, <1>1 DEF IInv, HandInv, OkInv, Working
<1>7. LeftInv'
  BY <1>1, <1>3, <1>4 DEF IInv, LeftInv
<1>8. d \notin worker.todo
  BY <1>2 DEF IInv, HandInv
<1>9. \A c \in Deliveries : ~InHand(c)'
  BY <1>1 DEF InHand
<1>10. SeenInv' /\ PostInv'
  BY <1>0, <1>1, <1>4, <1>8, <1>9 DEF IInv, SeenInv, PostInv
<1>11. ProbeInv' /\ QuietInv' /\ OneProbe'
  BY <1>0, <1>1 DEF IInv, ProbeInv, QuietInv, OneProbe
<1>12. d \notin outdated => delivery[d].attempt = worker.seen[d] /\ delivery[d].attempt + 1 <= posts[d]
  BY <1>0 DEF IInv, SeenInv, PostInv, InHand
<1>13. \A c \in Deliveries : delivery[c].attempt \in Nat /\ posts[c] \in Nat /\ aborts \in Nat
  BY <1>t DEF TypeOK, Records
<1>14. PostsAreCharged'
  BY <1>0, <1>1, <1>2, <1>3, <1>4, <1>12, <1>13 DEF IInv, PostsAreCharged
<1>15. EndsAreEarned'
  BY <1>0, <1>2, <1>3, <1>4, <1>12, <1>13 DEF IInv, EndsAreEarned, OkInv
<1> QED BY <1>5, <1>6, <1>7, <1>10, <1>11, <1>14, <1>15 DEF IInv

(* Settling: a failure at the threshold starts a cool-down. *)
LEMMA SettleKeeps ==
  ASSUME NEW d \in Deliveries, IInv, Settle(d)
  PROVE  IInv'
<1> USE Bounds
<1> DEFINE h == HookOf[d]
           after == AfterWebhookAttempt(h)
<1>t. TypeOK
  BY DEF IInv
<1>0. /\ worker.pc = "settling" /\ d \in worker.d
      /\ hook' = [hook EXCEPT ![h] = after]
      /\ probes' = IF worker.ok THEN [probes EXCEPT ![h] = 0] ELSE probes
      /\ quiet' = IF worker.ok THEN quiet ELSE [quiet EXCEPT ![h] = 0]
      /\ worker' = [worker EXCEPT !.pc = "next", !.d = {}, !.ok = FALSE]
      /\ UNCHANGED <<delivery, late, replay, posts, accepted, outdated, aborts, replays>>
  BY DEF Settle
<1>1. /\ worker'.pc = "next" /\ worker'.todo = worker.todo /\ worker'.d = {}
      /\ worker'.ok = FALSE /\ worker'.seen = worker.seen
  BY <1>0, <1>t DEF TypeOK, Batches
<1>2. h \in Hooks /\ worker.d = {d}
  BY <1>0 DEF IInv, HandInv, Working
<1>3. /\ hook[h].failures \in 0..Threshold /\ hook[h].cooling \in 0..Cooldown
      /\ late \in 0..MaxLate
  BY <1>2, <1>t DEF TypeOK
<1>4. /\ after \in [failures : 0..Threshold, cooling : 0..Cooldown]
      /\ after.failures = Threshold => ~worker.ok /\ after.cooling = Cooldown
  <2> DEFINE n == Min({Threshold, hook[h].failures + 1})
  <2>1. n \in 0..Threshold
    BY <1>3, MinOfTwo
  <2>2. after = IF worker.ok THEN [failures |-> 0, cooling |-> 0]
                ELSE [failures |-> n, cooling |-> IF n = Threshold THEN Cooldown ELSE hook[h].cooling]
    BY DEF AfterWebhookAttempt
  <2> HIDE DEF n, after
  <2> QED BY <1>3, <2>1, <2>2
<1>5. TypeOK'
  <2>1. worker' \in Batches
    BY <1>0, <1>t DEF TypeOK, Batches
  <2>2. hook' \in [Hooks -> [failures : 0..Threshold, cooling : 0..Cooldown]]
    BY <1>0, <1>2, <1>4, <1>t DEF TypeOK
  <2>3. probes' \in [Hooks -> Nat] /\ quiet' \in [Hooks -> 0..Cooldown]
    BY <1>0, <1>2, <1>t DEF TypeOK
  <2> QED BY <1>0, <1>t, <2>1, <2>2, <2>3 DEF TypeOK
<1>6. HandInv' /\ OkInv'
  BY <1>1 DEF HandInv, OkInv, Working
<1>7. LeftInv' /\ SeenInv' /\ PostInv'
  BY <1>0, <1>1 DEF IInv, LeftInv, SeenInv, PostInv, InHand
<1>8. PostsAreCharged' /\ EndsAreEarned'
  BY <1>0, <1>1 DEF IInv, PostsAreCharged, EndsAreEarned
<1>9. hook'[h] = after /\ \A k \in Hooks : k # h => hook'[k] = hook[k] /\ quiet'[k] = quiet[k] /\ probes'[k] = probes[k]
  BY <1>0, <1>2, <1>t DEF TypeOK
<1>10. \A k \in Hooks : probes'[k] \in Nat /\ probes'[k] <= probes[k] /\ aborts' = aborts
  BY <1>0, <1>2, <1>t DEF TypeOK
<1>11. OneProbe'
  BY <1>10, <1>t DEF IInv, OneProbe, TypeOK
<1>12. \A k \in Hooks : k # h => \A c \in worker.d : HookOf[c] # k
  BY <1>2
<1>13. ProbeInv'
  BY <1>4, <1>9, <1>10, <1>12 DEF IInv, ProbeInv
<1>14. QuietInv'
  <2> SUFFICES ASSUME NEW k \in Hooks, hook'[k].failures = Threshold
               PROVE  hook'[k].cooling + quiet'[k] + MaxLate >= Cooldown + late
    BY <1>0 DEF QuietInv
  <2>1. CASE k = h
    <3>1. quiet'[h] \in Nat
      BY <1>5, <1>2 DEF TypeOK
    <3> QED BY <2>1, <3>1, <1>3, <1>4, <1>9
  <2>2. CASE k # h
    BY <2>2, <1>9 DEF IInv, QuietInv
  <2> QED BY <2>1, <2>2
<1> HIDE DEF after
<1> QED BY <1>5, <1>6, <1>7, <1>8, <1>11, <1>13, <1>14 DEF IInv

(* What passes for the tables, and what stays. *)
LEMMA PassTypes ==
  ASSUME NEW n \in Nat, IInv, Pass(n)
  PROVE  /\ delivery' \in [Deliveries -> Records]
         /\ hook' \in [Hooks -> [failures : 0..Threshold, cooling : 0..Cooldown]]
         /\ probes' \in [Hooks -> Nat]
         /\ \A d \in Deliveries : delivery'[d].state = delivery[d].state /\ delivery'[d].attempt = delivery[d].attempt
         /\ \A h \in Hooks :
               /\ hook'[h].failures = hook[h].failures /\ hook'[h].cooling = Sooner(hook[h].cooling, n)
               /\ probes'[h] <= probes[h]
               /\ hook[h].cooling # 0 /\ hook'[h].cooling = 0 => probes'[h] = 0
<1> USE Bounds
<1>t. TypeOK
  BY DEF IInv
<1>1. \A m \in Nat : Sooner(m, n) \in Nat /\ Sooner(m, n) <= m /\ (m # 0 /\ Sooner(m, n) = 0 => m \in 1..n)
  BY DEF Sooner
<1>2. delivery' = [d \in Deliveries |-> [delivery[d] EXCEPT !.wait = Sooner(delivery[d].wait, n)]]
  BY DEF Pass
<1>3. hook' = [h \in Hooks |-> [hook[h] EXCEPT !.cooling = Sooner(hook[h].cooling, n)]]
  BY DEF Pass
<1>4. \A d \in Deliveries : /\ delivery'[d] \in Records /\ delivery'[d].state = delivery[d].state
                            /\ delivery'[d].attempt = delivery[d].attempt
  BY <1>1, <1>2, <1>t DEF TypeOK, Records
<1>5. \A h \in Hooks : /\ hook'[h] \in [failures : 0..Threshold, cooling : 0..Cooldown]
                       /\ hook'[h].failures = hook[h].failures /\ hook'[h].cooling = Sooner(hook[h].cooling, n)
  BY <1>1, <1>3, <1>t DEF TypeOK
<1>6. /\ probes' = [h \in Hooks |-> IF hook[h].cooling \in 1..n THEN 0 ELSE probes[h]]
      /\ probes \in [Hooks -> Nat]
  BY <1>t DEF Pass, TypeOK
<1>7. \A h \in Hooks : hook[h].cooling \in Nat
  BY <1>t DEF TypeOK
<1>8. \A h \in Hooks : hook[h].cooling # 0 /\ hook'[h].cooling = 0 => probes'[h] = 0
  BY <1>1, <1>5, <1>6, <1>7
<1> QED BY <1>2, <1>3, <1>4, <1>5, <1>6, <1>8

(* The end of a batch, done or dead, if a death is counted. *)
LEMMA EndBatchKeeps ==
  ASSUME IInv, EndBatch, aborts' \in 0..MaxAborts,
         (aborts' = aborts /\ worker.d = {}) \/ aborts' = aborts + 1
  PROVE  IInv'
<1> USE Bounds
<1>t. TypeOK
  BY DEF IInv
<1>0. /\ worker' = Nobody /\ late' = 0 /\ Pass(late) /\ late \in Nat /\ late <= MaxLate
      /\ UNCHANGED <<replay, posts, accepted, quiet, outdated, replays>>
  BY <1>t DEF EndBatch, TypeOK
<1>1. /\ worker'.pc = "idle" /\ worker'.todo = {} /\ worker'.d = {} /\ worker'.ok = FALSE
      /\ worker'.seen = [d \in Deliveries |-> 0] /\ worker' \in Batches
  BY <1>0 DEF Nobody, Batches
<1>2. /\ delivery' \in [Deliveries -> Records]
      /\ hook' \in [Hooks -> [failures : 0..Threshold, cooling : 0..Cooldown]]
      /\ probes' \in [Hooks -> Nat]
      /\ \A d \in Deliveries : delivery'[d].state = delivery[d].state /\ delivery'[d].attempt = delivery[d].attempt
      /\ \A h \in Hooks :
            /\ hook'[h].failures = hook[h].failures /\ hook'[h].cooling = Sooner(hook[h].cooling, late)
            /\ probes'[h] <= probes[h]
            /\ hook[h].cooling # 0 /\ hook'[h].cooling = 0 => probes'[h] = 0
  BY <1>0, PassTypes
<1>3. TypeOK'
  BY <1>0, <1>1, <1>2, <1>t DEF TypeOK
<1>4. HandInv' /\ OkInv' /\ LeftInv'
  BY <1>1, <1>2 DEF IInv, HandInv, OkInv, LeftInv, Working
<1>5. SeenInv' /\ PostInv'
  BY <1>1 DEF SeenInv, PostInv, InHand
<1>6. \A d \in Deliveries : delivery[d].attempt \in Nat /\ posts[d] \in Nat /\ aborts \in Nat
  BY <1>t DEF TypeOK, Records
<1>7. PostsAreCharged'
  BY <1>0, <1>1, <1>2, <1>6 DEF IInv, PostsAreCharged
<1>8. EndsAreEarned'
  BY <1>0, <1>2 DEF IInv, EndsAreEarned
<1>9. \A h \in Hooks : probes[h] \in Nat /\ probes'[h] \in Nat /\ probes'[h] <= probes[h]
  BY <1>2, <1>t DEF TypeOK
<1>10. OneProbe'
  BY <1>6, <1>9, <1>t DEF IInv, OneProbe, TypeOK
<1>11. ProbeInv'
  <2> SUFFICES ASSUME NEW h \in Hooks, hook'[h].failures = Threshold, hook'[h].cooling = 0
               PROVE  probes'[h] <= aborts'
    BY DEF ProbeInv
  <2>1. CASE hook[h].cooling # 0
    BY <2>1, <1>2, <1>3 DEF TypeOK
  <2>2. CASE hook[h].cooling = 0 /\ worker.d = {}
    <3>1. probes[h] <= aborts
      BY <2>2, <1>2 DEF IInv, ProbeInv
    <3> QED BY <3>1, <1>9, <1>t DEF TypeOK
  <2>3. CASE aborts' = aborts + 1
    BY <2>3, <1>9, <1>t DEF IInv, OneProbe, TypeOK
  <2> QED BY <2>1, <2>2, <2>3
<1>12. QuietInv'
  <2> SUFFICES ASSUME NEW h \in Hooks, hook'[h].failures = Threshold
               PROVE  hook'[h].cooling + quiet'[h] + MaxLate >= Cooldown + late'
    BY DEF QuietInv
  <2>1. hook[h].cooling + quiet[h] + MaxLate >= Cooldown + late
    BY <1>2 DEF IInv, QuietInv
  <2>2. hook[h].cooling \in Nat /\ quiet[h] \in Nat /\ quiet'[h] = quiet[h]
    BY <1>0, <1>t DEF TypeOK
  <2> QED BY <2>1, <2>2, <1>0, <1>2 DEF Sooner
<1> QED BY <1>3, <1>4, <1>5, <1>7, <1>8, <1>10, <1>11, <1>12 DEF IInv

(* The batch is done: nothing is in hand. *)
LEMMA FinishKeeps == IInv /\ Finish => IInv'
<1> SUFFICES ASSUME IInv, Finish PROVE IInv'
  OBVIOUS
<1>1. worker.d = {} /\ EndBatch /\ aborts' = aborts /\ aborts \in 0..MaxAborts
  BY DEF IInv, TypeOK, HandInv, Working, Finish
<1> QED BY <1>1, EndBatchKeeps

(* The batch dies, and is counted. *)
LEMMA AbortKeeps == IInv /\ Abort => IInv'
<1> SUFFICES ASSUME IInv, Abort PROVE IInv'
  OBVIOUS
<1>1. EndBatch /\ aborts' = aborts + 1 /\ aborts' \in 0..MaxAborts
  BY Bounds DEF IInv, TypeOK, Abort
<1> QED BY <1>1, EndBatchKeeps

(* An operator's reading changes nothing that is stored. *)
LEMMA AskReplayKeeps ==
  ASSUME NEW o \in Operators, NEW d \in Deliveries, IInv, AskReplay(o, d)
  PROVE  IInv'
<1>0. /\ replays < MaxReplays /\ replays' = replays + 1 /\ replay' = [replay EXCEPT ![o] = {d}]
      /\ UNCHANGED <<delivery, hook, worker, late, posts, accepted, probes, quiet, outdated, aborts>>
  BY DEF AskReplay, history
<1>1. TypeOK'
  BY <1>0, Bounds DEF IInv, TypeOK
<1>2. HandInv' /\ LeftInv' /\ SeenInv' /\ PostInv' /\ OkInv' /\ ProbeInv' /\ QuietInv'
  BY <1>0 DEF IInv, HandInv, LeftInv, SeenInv, PostInv, OkInv, ProbeInv, QuietInv, Working, InHand
<1>3. PostsAreCharged' /\ EndsAreEarned' /\ OneProbe'
  BY <1>0 DEF IInv, PostsAreCharged, EndsAreEarned, OneProbe
<1> QED BY <1>1, <1>2, <1>3 DEF IInv

(* Reviving: a delivery that is still dead is in no batch, so its counts    *)
(* start anew; any other is outdated.                                      *)
LEMMA ReviveKeeps ==
  ASSUME NEW o \in Operators, NEW d \in Deliveries, IInv, Revive(o, d)
  PROVE  IInv'
<1> USE Bounds
<1> DEFINE r == [state |-> "pending", attempt |-> 0, wait |-> late]
<1>t. TypeOK
  BY DEF IInv
<1>0. /\ delivery' = [delivery EXCEPT ![d] = r]
      /\ replay' = [replay EXCEPT ![o] = {}]
      /\ posts' = [posts EXCEPT ![d] = 0]
      /\ outdated' = IF delivery[d].state = "dead" THEN outdated ELSE outdated \cup {d}
      /\ UNCHANGED <<hook, worker, late, accepted, probes, quiet, aborts, replays>>
  BY DEF Revive
<1>1. r \in Records
  BY <1>t DEF TypeOK, Records, States
<1>2. TypeOK'
  BY <1>0, <1>1, <1>t DEF TypeOK
<1>3. HandInv' /\ OkInv' /\ ProbeInv' /\ QuietInv' /\ OneProbe'
  BY <1>0 DEF IInv, HandInv, OkInv, ProbeInv, QuietInv, OneProbe, Working
<1>4. delivery'[d] = r /\ posts'[d] = 0
  BY <1>0, <1>t DEF TypeOK
<1>5. \A c \in Deliveries : c # d => delivery'[c] = delivery[c] /\ posts'[c] = posts[c]
  BY <1>0, <1>t DEF TypeOK
<1>6. LeftInv'
  BY <1>0, <1>4, <1>5 DEF IInv, LeftInv
<1>7. d \notin outdated' => d \notin outdated /\ d \notin worker.todo /\ ~InHand(d)
  BY <1>0 DEF IInv, SeenInv
<1>8. \A c \in Deliveries : (InHand(c)' <=> InHand(c)) /\ (c \notin outdated' => c \notin outdated)
  BY <1>0 DEF InHand
<1>9. SeenInv' /\ PostInv'
  BY <1>0, <1>5, <1>7, <1>8 DEF IInv, SeenInv, PostInv
<1>10. aborts \in Nat
  BY <1>t DEF TypeOK
<1>11. PostsAreCharged'
  BY <1>0, <1>4, <1>5, <1>8, <1>10 DEF IInv, PostsAreCharged
<1>12. EndsAreEarned'
  BY <1>0, <1>4, <1>5, <1>8 DEF IInv, EndsAreEarned
<1> QED BY <1>2, <1>3, <1>6, <1>9, <1>11, <1>12 DEF IInv

(* A tick: what it takes from a cool-down, or adds to a batch, it adds to  *)
(* what has passed since the failure.                                      *)
LEMMA TickKeeps == IInv /\ Tick => IInv'
<1> SUFFICES ASSUME IInv, Tick PROVE IInv'
  OBVIOUS
<1> USE Bounds
<1>t. TypeOK
  BY DEF IInv
<1>0. /\ quiet' = [h \in Hooks |-> Min({Cooldown, quiet[h] + 1})]
      /\ UNCHANGED <<worker, replay, posts, accepted, outdated, aborts, replays>>
  BY DEF Tick
<1>1. \A h \in Hooks : /\ quiet[h] \in 0..Cooldown /\ quiet'[h] \in 0..Cooldown
                       /\ quiet'[h] = IF Cooldown <= quiet[h] + 1 THEN Cooldown ELSE quiet[h] + 1
  BY <1>0, <1>t, MinOfTwo DEF TypeOK
<1>2. quiet' \in [Hooks -> 0..Cooldown]
  BY <1>0, <1>1
<1>3. CASE worker.pc = "idle"
  <2>0. Pass(1) /\ late' = late
    BY <1>3 DEF Tick
  <2>1. /\ delivery' \in [Deliveries -> Records]
        /\ hook' \in [Hooks -> [failures : 0..Threshold, cooling : 0..Cooldown]]
        /\ probes' \in [Hooks -> Nat]
        /\ \A d \in Deliveries : delivery'[d].state = delivery[d].state /\ delivery'[d].attempt = delivery[d].attempt
        /\ \A h \in Hooks :
              /\ hook'[h].failures = hook[h].failures /\ hook'[h].cooling = Sooner(hook[h].cooling, 1)
              /\ probes'[h] <= probes[h]
              /\ hook[h].cooling # 0 /\ hook'[h].cooling = 0 => probes'[h] = 0
    BY <2>0, PassTypes
  <2>2. TypeOK'
    BY <1>0, <1>2, <2>0, <2>1, <1>t DEF TypeOK
  <2>3. HandInv' /\ OkInv' /\ LeftInv' /\ SeenInv' /\ PostInv'
    BY <1>0, <2>1 DEF IInv, HandInv, OkInv, LeftInv, SeenInv, PostInv, Working, InHand
  <2>4. PostsAreCharged' /\ EndsAreEarned'
    BY <1>0, <2>1 DEF IInv, PostsAreCharged, EndsAreEarned
  <2>5. \A h \in Hooks : probes[h] \in Nat /\ probes'[h] \in Nat /\ probes'[h] <= probes[h]
    BY <2>1, <1>t DEF TypeOK
  <2>6. OneProbe'
    BY <1>0, <2>5, <1>t DEF IInv, OneProbe, TypeOK
  <2>7. ProbeInv'
    BY <1>0, <2>1, <2>5, <1>t DEF IInv, ProbeInv, TypeOK
  <2>8. QuietInv'
    <3> SUFFICES ASSUME NEW h \in Hooks, hook'[h].failures = Threshold
                 PROVE  hook'[h].cooling + quiet'[h] + MaxLate >= Cooldown + late'
      BY DEF QuietInv
    <3>1. hook[h].cooling + quiet[h] + MaxLate >= Cooldown + late
      BY <2>1 DEF IInv, QuietInv
    <3>2. hook[h].cooling \in Nat /\ late \in 0..MaxLate
      BY <1>t DEF TypeOK
    <3> QED BY <3>1, <3>2, <1>1, <2>0, <2>1 DEF Sooner
  <2> QED BY <2>2, <2>3, <2>4, <2>6, <2>7, <2>8 DEF IInv
<1>4. CASE worker.pc # "idle"
  <2>0. late < MaxLate /\ late' = late + 1 /\ UNCHANGED <<delivery, hook, probes>>
    BY <1>4 DEF Tick
  <2>1. TypeOK'
    BY <1>0, <1>2, <2>0, <1>t DEF TypeOK
  <2>2. HandInv' /\ OkInv' /\ LeftInv' /\ SeenInv' /\ PostInv' /\ ProbeInv' /\ OneProbe'
    BY <1>0, <2>0 DEF IInv, HandInv, OkInv, LeftInv, SeenInv, PostInv, ProbeInv, OneProbe, Working, InHand
  <2>3. PostsAreCharged' /\ EndsAreEarned'
    BY <1>0, <2>0 DEF IInv, PostsAreCharged, EndsAreEarned
  <2>4. QuietInv'
    <3> SUFFICES ASSUME NEW h \in Hooks, hook'[h].failures = Threshold
                 PROVE  hook'[h].cooling + quiet'[h] + MaxLate >= Cooldown + late'
      BY DEF QuietInv
    <3>1. hook[h].cooling + quiet[h] + MaxLate >= Cooldown + late
      BY <2>0 DEF IInv, QuietInv
    <3>2. hook'[h].cooling = hook[h].cooling /\ hook[h].cooling \in Nat /\ late \in 0..MaxLate
      BY <2>0, <1>t DEF TypeOK
    <3> QED BY <3>1, <3>2, <1>1, <2>0
  <2> QED BY <2>1, <2>2, <2>3, <2>4 DEF IInv
<1> QED BY <1>3, <1>4

-----------------------------------------------------------------------------
(* Every step keeps the invariant. *)
LEMMA NextKeeps == IInv /\ [Next]_vars => IInv'
<1> SUFFICES ASSUME IInv, [Next]_vars PROVE IInv'
  OBVIOUS
<1>1. CASE Work
  BY <1>1, ClaimKeeps, SkipKeeps, PostKeeps, RecordKeeps, SettleKeeps, ReceiveKeeps, FinishKeeps DEF Work
<1>2. CASE Abort
  BY <1>2, AbortKeeps
<1>3. CASE Tick
  BY <1>3, TickKeeps
<1>4. CASE \E d \in Deliveries : Queue(d)
  BY <1>4, QueueKeeps
<1>5. CASE \E o \in Operators, d \in Deliveries : AskReplay(o, d) \/ Revive(o, d)
  BY <1>5, AskReplayKeeps, ReviveKeeps
<1>6. CASE UNCHANGED vars
  BY <1>6, StutterKeeps
<1> QED BY <1>1, <1>2, <1>3, <1>4, <1>5, <1>6 DEF Next

(* The invariant holds always. *)
LEMMA Invariant == Spec => []IInv
  BY InitInv, NextKeeps, PTL DEF Spec

(* Every reachable state is well typed: no attempt past the last, no        *)
(* cool-down longer than one (outbox.ts, breaker.ts).                      *)
THEOREM TypeCorrect == Spec => []TypeOK
<1>1. IInv => TypeOK
  BY DEF IInv
<1> QED BY <1>1, Invariant, PTL

(* Attempts are posts and posts are attempts, but for batches that died and *)
(* replays that read before another's (drainOutbox, replayDelivery).       *)
THEOREM PostsCharged == Spec => []PostsAreCharged
<1>1. IInv => PostsAreCharged
  BY DEF IInv
<1> QED BY <1>1, Invariant, PTL

(* Dead after every attempt, delivered only if taken (afterAttempt). *)
THEOREM EndsEarned == Spec => []EndsAreEarned
<1>1. IInv => EndsAreEarned
  BY DEF IInv
<1> QED BY <1>1, Invariant, PTL

(* A cool-down earns one post (afterWebhookAttempt). *)
THEOREM ProbesAreOne == Spec => []OneProbe
<1>1. IInv => OneProbe
  BY DEF IInv
<1> QED BY <1>1, Invariant, PTL

(* A post to a webhook past the threshold comes when its breaker is not    *)
(* open, so its cool-down is at its end.                                   *)
LEMMA PostsWait ==
  ASSUME IInv, [Next]_vars, NEW d \in Deliveries, posts'[d] > posts[d],
         hook[HookOf[d]].failures = Threshold
  PROVE  quiet[HookOf[d]] + MaxLate >= Cooldown
<1> USE Bounds
<1>t. TypeOK
  BY DEF IInv
<1>1. posts[d] \in Nat
  BY <1>t DEF TypeOK
<1>2. ~UNCHANGED posts
  BY <1>1
<1>3. \A o \in Operators, c \in Deliveries : ~Revive(o, c)
  <2> SUFFICES ASSUME NEW o \in Operators, NEW c \in Deliveries, Revive(o, c) PROVE FALSE
    OBVIOUS
  <2>1. posts' = [posts EXCEPT ![c] = 0] /\ posts \in [Deliveries -> Nat]
    BY <1>t DEF Revive, TypeOK
  <2> QED BY <2>1
<1>4. ~Abort /\ ~Tick /\ ~Finish /\ ~Claim
  BY <1>2 DEF Abort, EndBatch, Tick, Finish, Claim, history
<1>5. \A c \in Deliveries : ~Queue(c) /\ ~Skip(c) /\ ~Record(c) /\ ~Settle(c)
  BY <1>2 DEF Queue, Skip, Record, Settle, history
<1>6. \A took, heard \in BOOLEAN : ~Receive(took, heard)
  BY <1>2 DEF Receive
<1>7. \A o \in Operators, c \in Deliveries : ~AskReplay(o, c)
  BY <1>2 DEF AskReplay, history
<1>8. PICK c \in Deliveries : Post(c)
  BY <1>2, <1>3, <1>4, <1>5, <1>6, <1>7 DEF Next, Work, vars
<1>9. c = d
  <2>1. posts' = [posts EXCEPT ![c] = posts[c] + 1] /\ posts \in [Deliveries -> Nat]
    BY <1>8, <1>t DEF Post, TypeOK
  <2> QED BY <2>1
<1> DEFINE h == HookOf[d]
<1>10. h \in Hooks /\ hook[h].cooling \in Nat /\ quiet[h] \in Nat /\ late \in Nat
  BY <1>t DEF TypeOK
<1>11. hook[h].cooling = 0
  BY <1>8, <1>9, <1>10 DEF Post, Open
<1>12. hook[h].cooling + quiet[h] + MaxLate >= Cooldown + late
  BY <1>10 DEF IInv, QuietInv
<1> QED BY <1>10, <1>11, <1>12

(* No post outruns a cool-down by more than a batch lasts. *)
THEOREM CooldownsWaited == Spec => CooldownIsWaited
<1>1. IInv /\ [Next]_vars =>
        [\A d \in Deliveries :
            posts'[d] > posts[d] /\ hook[HookOf[d]].failures = Threshold =>
                quiet[HookOf[d]] + MaxLate >= Cooldown]_vars
  BY PostsWait
<1> QED BY <1>1, Invariant, PTL DEF Spec, CooldownIsWaited
=============================================================================
