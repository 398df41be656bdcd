---------------------------- MODULE Intake_proofs ----------------------------
(***************************************************************************)
(* What Intake promises of a replica's slots, of the budget and of the     *)
(* challenge, for every number of replicas and requests.  The argument: a  *)
(* request is in the queue of one replica, or under way from one, or       *)
(* neither, and a step that gives a slot back gives it to the head of the  *)
(* queue or to nobody because there is none; the row's number is that of   *)
(* the counts since its window began, and the ticks before it counted one  *)
(* budget at most; and a challenge that was spent in time is still         *)
(* remembered, or has expired.                                             *)
(***************************************************************************)
EXTENDS Intake, FiniteSetTheorems, SequenceTheorems, TLAPS

Held(s) == {s[i] : i \in 1..Len(s)}
Distinct(s) == \A i, j \in 1..Len(s) : s[i] = s[j] => i = j

Waiters(p) ==
    {r \in Requests : request[r].on = p /\ request[r].step = "counting" /\ request[r].statement = "waiting"}

(* A request is asked of a replica, and has a statement, once it is in; its *)
(* statement waits only while it waits for the count.                       *)
RequestInv ==
    \A r \in Requests :
        /\ request[r].step = "out" <=> request[r].on = None
        /\ request[r].step = "out" <=> request[r].statement = "none"
        /\ request[r].statement = "waiting" => request[r].step = "counting"

(* The parts of SlotsAreUsed, of one replica. *)
SlotInv ==
    \A p \in Replicas :
        /\ running[p] = Cardinality(UnderWay(p)) + (IF sweeping[p] THEN 1 ELSE 0)
        /\ running[p] <= AtOnce
        /\ waiting[p] # <<>> => running[p] = AtOnce

QueueInv == \A p \in Replicas : Distinct(waiting[p]) /\ Held(waiting[p]) = Waiters(p)

(* A challenge spent in time is remembered until it has expired. *)
SpentInv ==
    /\ spends.early <= 1
    /\ spends.early > 0 => spent \/ Expired

IInv == TypeOK /\ RequestInv /\ SlotInv /\ QueueInv /\ SpentInv

-----------------------------------------------------------------------------
(* What a sequence holds after an element is appended, taken or removed. *)
LEMMA AppendHolds ==
    ASSUME NEW S, NEW s \in Seq(S), NEW e \in S, e \notin Held(s), Distinct(s)
    PROVE  /\ Append(s, e) \in Seq(S) /\ Append(s, e) # <<>>
           /\ Distinct(Append(s, e)) /\ Held(Append(s, e)) = Held(s) \cup {e}
<1>1. /\ Append(s, e) \in Seq(S) /\ Append(s, e) # <<>>
      /\ Len(Append(s, e)) = Len(s) + 1
      /\ \A i \in 1..Len(s) : Append(s, e)[i] = s[i]
      /\ Append(s, e)[Len(s) + 1] = e
  BY AppendProperties
<1>2. Len(s) \in Nat
  BY LenProperties
<1> QED
  BY <1>1, <1>2 DEF Held, Distinct

LEMMA TailHolds ==
    ASSUME NEW S, NEW s \in Seq(S), s # <<>>, Distinct(s)
    PROVE  /\ Head(s) \in Held(s)
           /\ Tail(s) \in Seq(S) /\ Distinct(Tail(s)) /\ Held(Tail(s)) = Held(s) \ {Head(s)}
<1>1. Len(s) \in Nat /\ Len(s) # 0
  BY EmptySeq, LenProperties
<1>2. /\ Head(s) = s[1] /\ Tail(s) \in Seq(S) /\ Len(Tail(s)) = Len(s) - 1
      /\ \A i \in 1..Len(Tail(s)) : Tail(s)[i] = s[i + 1]
  BY HeadTailProperties, <1>1
<1>3. \A i \in 1..(Len(s) - 1) : i + 1 \in 1..Len(s) /\ i + 1 # 1
  BY <1>1
<1>4. \A i \in 1..Len(s) : i = 1 \/ (i - 1 \in 1..(Len(s) - 1) /\ s[i] = Tail(s)[i - 1])
  BY <1>1, <1>2
<1>5. Held(Tail(s)) = Held(s) \ {Head(s)}
  BY <1>1, <1>2, <1>3, <1>4 DEF Held, Distinct
<1>6. Distinct(Tail(s))
  BY <1>1, <1>2, <1>3 DEF Distinct
<1>7. Head(s) \in Held(s)
  BY <1>1, <1>2 DEF Held
<1> QED
  BY <1>2, <1>5, <1>6, <1>7

LEMMA RemoveHolds ==
    ASSUME NEW S, NEW s \in Seq(S), NEW i \in 1..Len(s), Distinct(s)
    PROVE  /\ RemoveAt(s, i) \in Seq(S)
           /\ Distinct(RemoveAt(s, i)) /\ Held(RemoveAt(s, i)) = Held(s) \ {s[i]}
<1> DEFINE t == RemoveAt(s, i)
<1>1. Len(s) \in Nat
  BY LenProperties
<1>2. /\ SubSeq(s, 1, i - 1) \in Seq(S) /\ Len(SubSeq(s, 1, i - 1)) = i - 1
      /\ \A j \in 1..(i - 1) : SubSeq(s, 1, i - 1)[j] = s[j]
  BY <1>1, SubSeqProperties
<1>3. /\ SubSeq(s, i + 1, Len(s)) \in Seq(S) /\ Len(SubSeq(s, i + 1, Len(s))) = Len(s) - i
      /\ \A j \in 1..(Len(s) - i) : SubSeq(s, i + 1, Len(s))[j] = s[i + j]
  BY <1>1, SubSeqProperties
<1>4. /\ t \in Seq(S) /\ Len(t) = Len(s) - 1
      /\ \A j \in 1..(Len(s) - 1) : t[j] = IF j < i THEN s[j] ELSE s[j + 1]
  <2> DEFINE a == SubSeq(s, 1, i - 1)
             b == SubSeq(s, i + 1, Len(s))
  <2>1. /\ a \o b \in Seq(S) /\ Len(a \o b) = Len(a) + Len(b)
        /\ \A j \in 1..(Len(a) + Len(b)) : (a \o b)[j] = IF j <= Len(a) THEN a[j] ELSE b[j - Len(a)]
    BY <1>2, <1>3, ConcatProperties
  <2>2. t = a \o b
    BY DEF RemoveAt
  <2> HIDE DEF a, b, t
  <2>3. /\ Len(a) = i - 1 /\ \A j \in 1..(i - 1) : a[j] = s[j]
        /\ Len(b) = Len(s) - i /\ \A j \in 1..(Len(s) - i) : b[j] = s[i + j]
    BY <1>2, <1>3 DEF a, b
  <2>4. t \in Seq(S) /\ Len(t) = Len(s) - 1
    <3>1. t \in Seq(S) /\ Len(t) = Len(a) + Len(b)
      BY <2>1, <2>2, Zenon
    <3>2. Len(a) + Len(b) = Len(s) - 1
      BY <1>1, <2>3
    <3> QED
      BY <3>1, <3>2, Zenon
  <2>5. ASSUME NEW j \in 1..(Len(s) - 1) PROVE t[j] = IF j < i THEN s[j] ELSE s[j + 1]
    <3>1. t[j] = IF j <= i - 1 THEN a[j] ELSE b[j - (i - 1)]
      BY <1>1, <2>1, <2>2, <2>3
    <3>2. CASE j < i
      BY <1>1, <2>3, <3>1, <3>2
    <3>3. CASE ~(j < i)
      <4>1. j - (i - 1) \in 1..(Len(s) - i) /\ i + (j - (i - 1)) = j + 1 /\ ~(j <= i - 1)
        BY <1>1, <3>3
      <4>2. b[j - (i - 1)] = s[i + (j - (i - 1))]
        BY <2>3, <4>1
      <4> QED
        BY <3>1, <3>3, <4>1, <4>2
    <3> QED
      BY <3>2, <3>3
  <2> QED
    BY <2>4, <2>5
<1> HIDE DEF t
<1>5. Held(t) = Held(s) \ {s[i]}
  <2>1. ASSUME NEW j \in 1..(Len(s) - 1) PROVE t[j] \in Held(s) \ {s[i]}
    BY <1>1, <1>4 DEF Held, Distinct
  <2>2. ASSUME NEW j \in 1..Len(s), j # i PROVE \E k \in 1..(Len(s) - 1) : t[k] = s[j]
    <3>1. CASE j < i
      BY <1>1, <1>4, <3>1
    <3>2. CASE j > i
      <4>1. j - 1 \in 1..(Len(s) - 1) /\ t[j - 1] = s[j]
        BY <1>1, <1>4, <3>2
      <4> QED
        BY <4>1
    <3> QED
      BY <2>2, <3>1, <3>2
  <2>3. Held(s) \ {s[i]} \subseteq Held(t)
    BY <1>4, <2>2 DEF Held
  <2>4. Held(t) \subseteq Held(s) \ {s[i]}
    BY <1>4, <2>1 DEF Held
  <2> QED
    BY <2>3, <2>4
<1>6. Distinct(t)
  BY <1>1, <1>4 DEF Distinct
<1> QED
  BY <1>4, <1>5, <1>6 DEF t

-----------------------------------------------------------------------------
(* The requests under way are finitely many. *)
LEMMA FiniteUnderWay ==
    ASSUME IntakeConstants, NEW p
    PROVE  IsFiniteSet(UnderWay(p)) /\ Cardinality(UnderWay(p)) \in Nat
<1>1. IsFiniteSet(Requests)
  BY FS_Interval DEF IntakeConstants, Requests
<1>2. UnderWay(p) \in SUBSET Requests
  BY DEF UnderWay
<1> QED
  BY <1>1, <1>2, FS_Subset, FS_CardinalityType

(* The invariant gives the property that the runs check. *)
LEMMA SlotsFollow == IInv => SlotsAreUsed
BY DEF IInv, SlotInv, QueueInv, SlotsAreUsed, Held, Distinct, Waiters

(* What a count that ends leaves of its request. *)
LEMMA DecidedFacts ==
    ASSUME NEW q \in Records, NEW row, q.step # "out"
    PROVE  /\ Decided(q, row) \in Records
           /\ Decided(q, row).on = q.on /\ Decided(q, row).statement = "over"
           /\ Decided(q, row).step # "out"
BY DEF Decided, Limited, Uncounted, Records, Steps, Statements

(* A count is sent, or waits. *)
LEMMA IncrKeeps == ASSUME IInv, NEW r \in Requests, NEW p \in Replicas, Incr(r, p) PROVE IInv'
<1> DEFINE sends == running[p] < AtOnce
           n == IF sends THEN running[p] + 1 ELSE running[p]
           sweeps == MaySweep(p, n)
<1> USE IntakeConstants
<1>1. /\ request[r].step = "out" /\ request[r].on = None /\ request[r].statement = "none"
      /\ request' = [request EXCEPT ![r].step = "counting", ![r].on = p,
                                    ![r].statement = IF sends THEN "sent" ELSE "waiting"]
      /\ waiting' = IF sends THEN waiting ELSE [waiting EXCEPT ![p] = Append(@, r)]
      /\ running' = [running EXCEPT ![p] = IF sweeps THEN n + 1 ELSE n]
      /\ sweeping' = IF sweeps THEN [sweeping EXCEPT ![p] = TRUE] ELSE sweeping
      /\ sweptAt' = IF sweeps THEN [sweptAt EXCEPT ![p] = time] ELSE sweptAt
      /\ UNCHANGED <<time, counter, spent, within, spends>>
  BY DEF IInv, RequestInv, Incr, history
<1>2. /\ running[p] \in 0..AtOnce /\ n \in 0..AtOnce
      /\ sweeps => n + 1 \in 0..AtOnce /\ ~sweeping[p]
      /\ ~sends => running[p] = AtOnce /\ ~sweeps
      /\ None \notin Replicas
  BY DEF IInv, TypeOK, MaySweep, IntakeConstants
<1>w. /\ waiting[p] \in Seq(Requests) /\ Distinct(waiting[p]) /\ Held(waiting[p]) = Waiters(p)
      /\ r \notin Waiters(p)
  BY <1>1 DEF IInv, TypeOK, QueueInv, Waiters
<1>a. /\ Append(waiting[p], r) \in Seq(Requests) /\ Append(waiting[p], r) # <<>>
      /\ Distinct(Append(waiting[p], r)) /\ Held(Append(waiting[p], r)) = Waiters(p) \cup {r}
  BY <1>w, AppendHolds
<1>b. /\ request \in [Requests -> Records] /\ request' \in [Requests -> Records]
      /\ \A o \in Requests : o # r => request'[o] = request[o]
      /\ request'[r].on = p /\ request'[r].step = "counting"
      /\ request'[r].statement = IF sends THEN "sent" ELSE "waiting"
  <2> DEFINE x == IF sends THEN "sent" ELSE "waiting"
  <2>1. x \in Statements
    BY DEF Statements
  <2>2. request' = [request EXCEPT ![r].step = "counting", ![r].on = p, ![r].statement = x]
    BY <1>1
  <2> HIDE DEF x
  <2>3. /\ request \in [Requests -> Records] /\ request' \in [Requests -> Records]
        /\ \A o \in Requests : o # r => request'[o] = request[o]
        /\ request'[r].on = p /\ request'[r].step = "counting" /\ request'[r].statement = x
    BY <2>1, <2>2 DEF IInv, TypeOK, Records, Steps
  <2> QED
    BY <2>3 DEF x
<1>c. sends \in BOOLEAN /\ sweeps \in BOOLEAN
  BY DEF MaySweep
<1> HIDE DEF sends, n, sweeps
<1>3. TypeOK'
  <2>1. running' \in [Replicas -> 0..AtOnce]
    BY <1>1, <1>2, <1>c DEF IInv, TypeOK
  <2>2. waiting' \in [Replicas -> Seq(Requests)]
    BY <1>1, <1>a, <1>c DEF IInv, TypeOK
  <2>3. sweeping' \in [Replicas -> BOOLEAN] /\ sweptAt' \in [Replicas -> Now]
    BY <1>1, <1>c DEF IInv, TypeOK
  <2> QED
    BY <1>1, <1>b, <2>1, <2>2, <2>3 DEF IInv, TypeOK
<1>4. RequestInv'
  BY <1>2, <1>b, <1>c DEF IInv, RequestInv
<1>5. ASSUME NEW o \in Replicas, o # p PROVE UnderWay(o)' = UnderWay(o) /\ Waiters(o)' = Waiters(o)
  BY <1>1, <1>5, <1>b, <1>c DEF UnderWay, Waiters
<1>6. sends => UnderWay(p)' = UnderWay(p) \cup {r} /\ Waiters(p)' = Waiters(p)
  <2> SUFFICES ASSUME sends PROVE UnderWay(p)' = UnderWay(p) \cup {r} /\ Waiters(p)' = Waiters(p)
    OBVIOUS
  <2>1. request'[r].statement = "sent"
    BY <1>b
  <2>2. UnderWay(p)' = UnderWay(p) \cup {r}
    BY <1>b, <2>1 DEF UnderWay
  <2>3. Waiters(p)' = Waiters(p)
    BY <1>1, <1>b, <2>1 DEF Waiters
  <2> QED
    BY <2>2, <2>3
<1>7. ~sends => UnderWay(p)' = UnderWay(p) /\ Waiters(p)' = Waiters(p) \cup {r}
  BY <1>1, <1>b, <1>c DEF UnderWay, Waiters
<1>8. Cardinality(UnderWay(p) \cup {r}) = Cardinality(UnderWay(p)) + 1 /\ Cardinality(UnderWay(p)) \in Nat
  <2>1. r \notin UnderWay(p)
    BY <1>1 DEF UnderWay
  <2> QED
    BY <2>1, FiniteUnderWay, FS_AddElement
<1>9. SlotInv'
  <2> SUFFICES ASSUME NEW o \in Replicas
               PROVE  /\ running'[o] = Cardinality(UnderWay(o)') + (IF sweeping'[o] THEN 1 ELSE 0)
                      /\ running'[o] <= AtOnce
                      /\ waiting'[o] # <<>> => running'[o] = AtOnce
    BY DEF SlotInv
  <2>1. CASE o # p
    BY <1>1, <1>5, <2>1 DEF IInv, TypeOK, SlotInv
  <2>2. CASE o = p /\ sends
    <3>1. waiting[p] = <<>> /\ n = running[p] + 1
      BY <2>2 DEF IInv, TypeOK, SlotInv, sends, n
    <3>2. running'[p] = (IF sweeps THEN running[p] + 2 ELSE running[p] + 1) /\ waiting'[p] = <<>>
      BY <1>1, <1>c, <2>2, <3>1 DEF IInv, TypeOK
    <3>3. sweeping'[p] = (sweeps \/ sweeping[p])
      BY <1>1, <1>c DEF IInv, TypeOK
    <3>4. Cardinality(UnderWay(p)') = Cardinality(UnderWay(p)) + 1
      BY <1>6, <1>8, <2>2
    <3> QED
      BY <1>2, <1>8, <1>c, <2>2, <3>1, <3>2, <3>3, <3>4 DEF IInv, TypeOK, SlotInv
  <2>3. CASE o = p /\ ~sends
    BY <1>1, <1>2, <1>7, <2>3 DEF IInv, TypeOK, SlotInv, n
  <2> QED
    BY <2>1, <2>2, <2>3
<1>10. QueueInv'
  <2> SUFFICES ASSUME NEW o \in Replicas
               PROVE  Distinct(waiting'[o]) /\ Held(waiting'[o]) = Waiters(o)'
    BY DEF QueueInv
  <2>1. CASE o # p
    BY <1>1, <1>5, <2>1 DEF IInv, TypeOK, QueueInv
  <2>2. CASE o = p
    BY <1>1, <1>6, <1>7, <1>a, <1>w, <2>2 DEF IInv, TypeOK
  <2> QED
    BY <2>1, <2>2
<1>11. SpentInv'
  BY <1>1 DEF IInv, SpentInv, Expired
<1> QED
  BY <1>3, <1>4, <1>9, <1>10, <1>11 DEF IInv

(* Where nothing of a request changes but what no part of the invariant reads. *)
LEMMA SlotsStay ==
    ASSUME IInv, TypeOK', UNCHANGED slots,
           \A o \in Requests :
               /\ request'[o].on = request[o].on
               /\ request[o].statement \in {"sent", "ran"} <=> request'[o].statement \in {"sent", "ran"}
               /\ (request[o].statement = "waiting" /\ request[o].step = "counting")
                     <=> (request'[o].statement = "waiting" /\ request'[o].step = "counting")
    PROVE  SlotInv' /\ QueueInv'
<1>1. \A p \in Replicas : UnderWay(p)' = UnderWay(p) /\ Waiters(p)' = Waiters(p)
  BY DEF UnderWay, Waiters
<1> QED
  BY <1>1 DEF IInv, SlotInv, QueueInv, slots

(* The database runs a count. *)
LEMMA RunCountKeeps == ASSUME IInv, NEW r \in Requests, RunCount(r) PROVE IInv'
<1> USE IntakeConstants
<1>1. Counted \in [hits : Nat, ends : Nat]
  <2>1. counter \in [hits : Nat, ends : Nat] /\ time + Window \in Nat
    BY DEF IInv, TypeOK, Now, IntakeConstants
  <2>2. [counter EXCEPT !.hits = @ + 1] \in [hits : Nat, ends : Nat]
    BY <2>1
  <2>3. [hits |-> 1, ends |-> time + Window] \in [hits : Nat, ends : Nat]
    BY <2>1
  <2> QED
    BY <2>2, <2>3 DEF Counted
<1>2. /\ request[r].statement = "sent" /\ request[r].step # "out" /\ request[r].on # None
      /\ UNCHANGED <<time, running, waiting, sweeping, sweptAt, spent, spends>>
      /\ counter' = Counted
  BY DEF IInv, RequestInv, RunCount, slots
<1>3. /\ request \in [Requests -> Records] /\ request' \in [Requests -> Records]
      /\ \A o \in Requests : o # r => request'[o] = request[o]
      /\ request'[r].on = request[r].on /\ request'[r].step = request[r].step
      /\ request'[r].statement = "ran"
  <2>1. request' = [request EXCEPT ![r].statement = "ran", ![r].hit = Counted.hits]
    BY DEF RunCount
  <2>2. Counted.hits \in Nat
    BY <1>1
  <2> QED
    BY <2>1, <2>2 DEF IInv, TypeOK, Records, Statements
<1>4. within' \subseteq [by : Requests, at : Now]
  BY DEF IInv, TypeOK, RunCount
<1>5. TypeOK'
  BY <1>1, <1>2, <1>3, <1>4 DEF IInv, TypeOK
<1>6. RequestInv'
  BY <1>2, <1>3 DEF IInv, RequestInv
<1>7. SlotInv' /\ QueueInv'
  BY <1>2, <1>3, <1>5, SlotsStay DEF slots
<1>8. SpentInv'
  BY <1>2 DEF IInv, SpentInv, Expired
<1> QED
  BY <1>5, <1>6, <1>7, <1>8 DEF IInv

(* A statement of p ends: what is under way from p is less by the requests   *)
(* gone, of which a sweep has none, and the slot is given back.              *)
Returns(p, requests, gone) ==
    /\ Released(p, requests)
    /\ \A o \in Requests : o \notin gone => requests[o] = request[o]
    /\ \A o \in gone : /\ o \in UnderWay(p) /\ requests[o].on = p
                       /\ requests[o].statement = "over" /\ requests[o].step # "out"
    /\ running[p] = Cardinality(UnderWay(p) \ gone) + (IF sweeping'[p] THEN 1 ELSE 0) + 1
    /\ sweeping' \in [Replicas -> BOOLEAN] /\ \A o \in Replicas : o # p => sweeping'[o] = sweeping[o]

(* The slot goes to the head of the queue, or to nobody where none waits. *)
LEMMA ReleasedKeeps ==
    ASSUME IInv, NEW p \in Replicas, NEW requests \in [Requests -> Records],
           NEW gone \in SUBSET Requests, Returns(p, requests, gone)
    PROVE  /\ running' \in [Replicas -> 0..AtOnce] /\ waiting' \in [Replicas -> Seq(Requests)]
           /\ request' \in [Requests -> Records]
           /\ RequestInv' /\ SlotInv' /\ QueueInv'
<1> USE IntakeConstants DEF Returns
<1> DEFINE left == UnderWay(p) \ gone
<1>t. /\ running \in [Replicas -> 0..AtOnce] /\ waiting \in [Replicas -> Seq(Requests)]
      /\ request \in [Requests -> Records] /\ AtOnce \in Nat
  BY DEF IInv, TypeOK, IntakeConstants
<1>n. Cardinality(left) \in Nat /\ IsFiniteSet(left)
  <2>1. IsFiniteSet(UnderWay(p)) /\ left \in SUBSET UnderWay(p)
    BY FiniteUnderWay
  <2> QED
    BY <2>1, FS_Subset, FS_CardinalityType
<1>r. \A o \in Requests : requests[o].on = request[o].on
  BY DEF UnderWay
<1>1. CASE waiting[p] = <<>>
  <2>1. /\ request' = requests /\ running' = [running EXCEPT ![p] = @ - 1] /\ waiting' = waiting
    BY <1>1 DEF Released
  <2>2. running'[p] = running[p] - 1 /\ running' \in [Replicas -> 0..AtOnce]
    BY <1>n, <1>t, <2>1
  <2>3. RequestInv'
    BY <1>t, <2>1 DEF IInv, RequestInv, UnderWay
  <2>4. UnderWay(p)' = left
    BY <2>1 DEF UnderWay
  <2>5. ASSUME NEW o \in Replicas, o # p PROVE UnderWay(o)' = UnderWay(o)
    BY <2>1, <2>5 DEF UnderWay
  <2>6. ASSUME NEW o \in Replicas PROVE Waiters(o)' = Waiters(o)
    BY <2>1 DEF UnderWay, Waiters
  <2>7. SlotInv'
    <3> SUFFICES ASSUME NEW o \in Replicas
                 PROVE  /\ running'[o] = Cardinality(UnderWay(o)') + (IF sweeping'[o] THEN 1 ELSE 0)
                        /\ running'[o] <= AtOnce
                        /\ waiting'[o] # <<>> => running'[o] = AtOnce
      BY DEF SlotInv
    <3>1. CASE o # p
      BY <1>t, <2>1, <2>5, <3>1 DEF IInv, SlotInv
    <3>2. CASE o = p
      <4>1. running'[p] = Cardinality(left) + (IF sweeping'[p] THEN 1 ELSE 0)
        BY <1>n, <1>t, <2>2
      <4>2. running'[p] <= AtOnce /\ waiting'[p] = <<>>
        BY <1>1, <1>t, <2>1, <2>2
      <4> QED
        BY <2>4, <3>2, <4>1, <4>2
    <3> QED
      BY <3>1, <3>2
  <2>8. QueueInv'
    BY <2>1, <2>6 DEF IInv, QueueInv
  <2> QED
    BY <1>t, <2>1, <2>2, <2>3, <2>7, <2>8
<1>2. CASE waiting[p] # <<>>
  <2> DEFINE h == Head(waiting[p])
  <2>1. /\ request' = [requests EXCEPT ![h].statement = "sent"]
        /\ waiting' = [waiting EXCEPT ![p] = Tail(@)] /\ running' = running
    BY <1>2 DEF Released
  <2>2. /\ h \in Waiters(p) /\ Tail(waiting[p]) \in Seq(Requests)
        /\ Distinct(Tail(waiting[p])) /\ Held(Tail(waiting[p])) = Waiters(p) \ {h}
    BY <1>2, <1>t, TailHolds DEF IInv, QueueInv
  <2> HIDE DEF h
  <2>3. /\ h \in Requests /\ h \notin gone /\ request[h].on = p
        /\ request[h].statement = "waiting" /\ request[h].step = "counting"
    BY <2>2 DEF Waiters, UnderWay
  <2>4. /\ request' \in [Requests -> Records]
        /\ \A o \in Requests : o # h => request'[o] = requests[o]
        /\ request'[h].on = p /\ request'[h].statement = "sent" /\ request'[h].step = "counting"
    BY <2>1, <2>3 DEF Records, Statements
  <2>5. waiting' \in [Replicas -> Seq(Requests)] /\ waiting'[p] = Tail(waiting[p])
    BY <1>t, <2>1, <2>2
  <2>6. RequestInv'
    BY <2>3, <2>4 DEF IInv, RequestInv, UnderWay
  <2>7. UnderWay(p)' = left \cup {h}
    BY <2>3, <2>4 DEF UnderWay
  <2>8. Cardinality(UnderWay(p)') = Cardinality(left) + 1
    <3>1. h \notin left
      BY <2>3 DEF UnderWay
    <3>2. Cardinality(left \cup {h}) = Cardinality(left) + 1
      BY <1>n, <3>1, FS_AddElement
    <3> QED
      BY <2>7, <3>2
  <2>9. ASSUME NEW o \in Replicas, o # p
        PROVE  UnderWay(o)' = UnderWay(o) /\ Waiters(o)' = Waiters(o)
    <3>1. UnderWay(o)' = UnderWay(o)
      BY <2>3, <2>4, <2>9 DEF UnderWay
    <3>2. Waiters(o)' = Waiters(o)
      BY <2>3, <2>4, <2>9 DEF UnderWay, Waiters
    <3> QED
      BY <3>1, <3>2
  <2>10. Waiters(p)' = Waiters(p) \ {h}
    BY <2>3, <2>4 DEF UnderWay, Waiters
  <2>11. SlotInv'
    <3> SUFFICES ASSUME NEW o \in Replicas
                 PROVE  /\ running'[o] = Cardinality(UnderWay(o)') + (IF sweeping'[o] THEN 1 ELSE 0)
                        /\ running'[o] <= AtOnce
                        /\ waiting'[o] # <<>> => running'[o] = AtOnce
      BY DEF SlotInv
    <3>1. CASE o # p
      BY <1>t, <2>1, <2>9, <3>1 DEF IInv, SlotInv
    <3>2. CASE o = p
      <4>1. running[p] = AtOnce
        BY <1>2 DEF IInv, SlotInv
      <4> QED
        BY <1>n, <1>t, <2>1, <2>8, <3>2, <4>1
    <3> QED
      BY <3>1, <3>2
  <2>12. QueueInv'
    <3> SUFFICES ASSUME NEW o \in Replicas
                 PROVE  Distinct(waiting'[o]) /\ Held(waiting'[o]) = Waiters(o)'
      BY DEF QueueInv
    <3>1. CASE o # p
      BY <1>t, <2>1, <2>9, <3>1 DEF IInv, QueueInv
    <3>2. CASE o = p
      BY <2>2, <2>5, <2>10, <3>2
    <3> QED
      BY <3>1, <3>2
  <2> QED
    BY <1>t, <2>1, <2>4, <2>5, <2>6, <2>11, <2>12
<1> QED
  BY <1>1, <1>2

(* A count is answered, with its row or without. *)
LEMMA AnsweredKeeps == ASSUME IInv, NEW r \in Requests, NEW row, Answered(r, row) PROVE IInv'
<1> USE IntakeConstants
<1> DEFINE p == request[r].on
           requests == [request EXCEPT ![r] = Decided(request[r], row)]
<1>1. /\ request[r].statement \in {"sent", "ran"} /\ request[r].step # "out"
      /\ Released(p, requests)
      /\ UNCHANGED <<time, counter, sweeping, sweptAt, spent, within, spends>>
  BY DEF IInv, RequestInv, Answered, history
<1>2. request[r] \in Records /\ p \in Replicas
  BY <1>1 DEF IInv, TypeOK, RequestInv, Records
<1>3. /\ Decided(request[r], row) \in Records
      /\ Decided(request[r], row).on = p /\ Decided(request[r], row).statement = "over"
      /\ Decided(request[r], row).step # "out"
  BY <1>1, <1>2, DecidedFacts
<1>4. /\ requests \in [Requests -> Records]
      /\ \A o \in Requests \ {r} : requests[o] = request[o]
      /\ requests[r].on = p /\ requests[r].statement = "over" /\ requests[r].step # "out"
  BY <1>3 DEF IInv, TypeOK
<1>5. r \in UnderWay(p)
  BY <1>1 DEF UnderWay
<1>6. /\ Cardinality(UnderWay(p)) \in Nat /\ Cardinality(UnderWay(p) \ {r}) = Cardinality(UnderWay(p)) - 1
      /\ Cardinality(UnderWay(p) \ {r}) \in Nat
  <2>1. IsFiniteSet(UnderWay(p)) /\ Cardinality(UnderWay(p)) \in Nat
    BY FiniteUnderWay
  <2>2. IsFiniteSet(UnderWay(p) \ {r}) /\ Cardinality(UnderWay(p) \ {r}) = Cardinality(UnderWay(p)) - 1
    BY <1>5, <2>1, FS_RemoveElement
  <2>3. Cardinality(UnderWay(p) \ {r}) \in Nat
    BY <2>2, FS_CardinalityType
  <2> QED
    BY <2>1, <2>2, <2>3
<1> HIDE DEF p, requests
<1>7. /\ running[p] = Cardinality(UnderWay(p) \ {r}) + (IF sweeping'[p] THEN 1 ELSE 0) + 1
      /\ running[p] > 0
  BY <1>1, <1>2, <1>6 DEF IInv, SlotInv
<1>8. /\ running' \in [Replicas -> 0..AtOnce] /\ waiting' \in [Replicas -> Seq(Requests)]
      /\ request' \in [Requests -> Records]
      /\ RequestInv' /\ SlotInv' /\ QueueInv'
  <2>1. sweeping' \in [Replicas -> BOOLEAN] /\ sweeping' = sweeping
    BY <1>1 DEF IInv, TypeOK
  <2> DEFINE gone == {r}
  <2>2. gone \in SUBSET Requests
    OBVIOUS
  <2>3. \A o \in {r} : /\ o \in UnderWay(p) /\ requests[o].on = p
                       /\ requests[o].statement = "over" /\ requests[o].step # "out"
    BY <1>4, <1>5
  <2>4. Returns(p, requests, gone)
    BY <1>1, <1>4, <1>7, <2>1, <2>3 DEF Returns
  <2> HIDE DEF gone
  <2> QED
    BY <1>2, <1>4, <2>2, <2>4, ReleasedKeeps
<1>9. TypeOK'
  BY <1>1, <1>8 DEF IInv, TypeOK
<1>10. SpentInv'
  BY <1>1 DEF IInv, SpentInv, Expired
<1> QED
  BY <1>8, <1>9, <1>10 DEF IInv

(* A sweep ends. *)
LEMMA SweepEndsKeeps == ASSUME IInv, NEW p \in Replicas, SweepEnds(p) PROVE IInv'
<1> USE IntakeConstants
<1>1. /\ sweeping[p] /\ sweeping' = [sweeping EXCEPT ![p] = FALSE]
      /\ counter' \in {counter, IF counter.ends <= time THEN [hits |-> 0, ends |-> 0] ELSE counter}
      /\ Released(p, request)
      /\ UNCHANGED <<time, sweptAt, spent, within, spends>>
  BY DEF SweepEnds, history
<1>2. request \in [Requests -> Records] /\ {} \in SUBSET Requests /\ counter' \in [hits : Nat, ends : Nat]
  BY <1>1 DEF IInv, TypeOK
<1>3. /\ sweeping' \in [Replicas -> BOOLEAN] /\ ~sweeping'[p]
      /\ \A o \in Replicas : o # p => sweeping'[o] = sweeping[o]
  BY <1>1 DEF IInv, TypeOK
<1>4. /\ running[p] = Cardinality(UnderWay(p) \ {}) + (IF sweeping'[p] THEN 1 ELSE 0) + 1
      /\ running[p] > 0
  <2>1. UnderWay(p) \ {} = UnderWay(p) /\ Cardinality(UnderWay(p)) \in Nat
    BY FiniteUnderWay
  <2> QED
    BY <1>1, <1>3, <2>1 DEF IInv, SlotInv
<1>5. /\ running' \in [Replicas -> 0..AtOnce] /\ waiting' \in [Replicas -> Seq(Requests)]
      /\ request' \in [Requests -> Records]
      /\ RequestInv' /\ SlotInv' /\ QueueInv'
  <2> DEFINE gone == {}
  <2>1. Returns(p, request, gone)
    BY <1>1, <1>3, <1>4 DEF Returns
  <2>2. gone \in SUBSET Requests
    OBVIOUS
  <2> HIDE DEF gone
  <2> QED
    BY <1>2, <2>1, <2>2, ReleasedKeeps
<1>6. TypeOK'
  BY <1>1, <1>2, <1>3, <1>5 DEF IInv, TypeOK
<1>7. SpentInv'
  BY <1>1 DEF IInv, SpentInv, Expired
<1> QED
  BY <1>5, <1>6, <1>7 DEF IInv

(* A count is given up: it leaves the queue, or what is under way stays so. *)
LEMMA LateKeeps == ASSUME IInv, NEW r \in Requests, Late(r) PROVE IInv'
<1> USE IntakeConstants
<1> DEFINE q == request[r]
           p == request[r].on
<1>1. /\ q.step = "counting" /\ q \in Records /\ p \in Replicas
      /\ UNCHANGED <<time, counter, running, sweeping, sweptAt, spent, within, spends>>
  BY DEF IInv, TypeOK, RequestInv, Late, Records, history
<1>2. SpentInv'
  BY <1>1 DEF IInv, SpentInv, Expired
<1>3. CASE q.statement = "waiting"
  <2>1. PICK i \in 1..Len(waiting[p]) :
            /\ waiting[p][i] = r /\ waiting' = [waiting EXCEPT ![p] = RemoveAt(@, i)]
            /\ request' = [request EXCEPT ![r] = Uncounted([q EXCEPT !.statement = "over"])]
    BY <1>3 DEF Late
  <2>2. /\ Uncounted([q EXCEPT !.statement = "over"]) \in Records
        /\ Uncounted([q EXCEPT !.statement = "over"]).on = p
        /\ Uncounted([q EXCEPT !.statement = "over"]).statement = "over"
        /\ Uncounted([q EXCEPT !.statement = "over"]).step \in {"admitted", "done"}
    BY <1>1 DEF Uncounted, Records, Steps, Statements
  <2>3. /\ request' \in [Requests -> Records]
        /\ \A o \in Requests : o # r => request'[o] = request[o]
        /\ request'[r].on = p /\ request'[r].statement = "over" /\ request'[r].step \in {"admitted", "done"}
    BY <2>1, <2>2 DEF IInv, TypeOK
  <2>4. /\ waiting \in [Replicas -> Seq(Requests)] /\ waiting[p] \in Seq(Requests)
        /\ Distinct(waiting[p]) /\ Held(waiting[p]) = Waiters(p)
    BY <1>1 DEF IInv, TypeOK, QueueInv
  <2>5. /\ RemoveAt(waiting[p], i) \in Seq(Requests) /\ Distinct(RemoveAt(waiting[p], i))
        /\ Held(RemoveAt(waiting[p], i)) = Waiters(p) \ {r}
    BY <2>1, <2>4, RemoveHolds
  <2>6. /\ waiting' \in [Replicas -> Seq(Requests)] /\ waiting'[p] = RemoveAt(waiting[p], i)
        /\ \A o \in Replicas : o # p => waiting'[o] = waiting[o]
    BY <1>1, <2>1, <2>4, <2>5
  <2>7. waiting[p] # <<>>
    BY <2>1, EmptySeq, <2>4
  <2>8. TypeOK'
    BY <1>1, <2>3, <2>6 DEF IInv, TypeOK
  <2>9. RequestInv'
    BY <1>1, <1>3, <2>3 DEF IInv, RequestInv
  <2>10. ASSUME NEW o \in Replicas PROVE UnderWay(o)' = UnderWay(o)
    BY <1>3, <2>3 DEF UnderWay
  <2>11. ASSUME NEW o \in Replicas PROVE Waiters(o)' = Waiters(o) \ {r}
    BY <1>3, <2>3 DEF Waiters
  <2>12. ASSUME NEW o \in Replicas, o # p PROVE Waiters(o)' = Waiters(o)
    BY <2>11, <2>12 DEF Waiters
  <2>13. SlotInv'
    <3>1. \A o \in Replicas : waiting'[o] # <<>> => waiting[o] # <<>>
      BY <2>6, <2>7
    <3> QED
      BY <1>1, <2>10, <3>1 DEF IInv, SlotInv
  <2>14. QueueInv'
    <3> SUFFICES ASSUME NEW o \in Replicas
                 PROVE  Distinct(waiting'[o]) /\ Held(waiting'[o]) = Waiters(o)'
      BY DEF QueueInv
    <3>1. CASE o = p
      BY <2>5, <2>6, <2>11, <3>1
    <3>2. CASE o # p
      BY <2>6, <2>12, <3>2 DEF IInv, QueueInv
    <3> QED
      BY <3>1, <3>2
  <2> QED
    BY <1>2, <2>8, <2>9, <2>13, <2>14 DEF IInv
<1>4. CASE q.statement # "waiting"
  <2>1. request' = [request EXCEPT ![r] = Uncounted(q)] /\ waiting' = waiting
    BY <1>4 DEF Late
  <2>2. /\ Uncounted(q) \in Records /\ Uncounted(q).on = p /\ Uncounted(q).statement = q.statement
        /\ Uncounted(q).step \in {"admitted", "done"}
    BY <1>1 DEF Uncounted, Records, Steps
  <2>3. /\ request' \in [Requests -> Records]
        /\ \A o \in Requests : o # r => request'[o] = request[o]
        /\ request'[r].on = p /\ request'[r].statement = q.statement /\ request'[r].step \in {"admitted", "done"}
    BY <2>1, <2>2 DEF IInv, TypeOK
  <2>4. TypeOK'
    BY <1>1, <2>1, <2>3 DEF IInv, TypeOK
  <2>5. RequestInv'
    BY <1>1, <1>4, <2>3 DEF IInv, RequestInv
  <2>6. SlotInv' /\ QueueInv'
    <3>1. \A o \in Requests :
               /\ request'[o].on = request[o].on
               /\ request[o].statement \in {"sent", "ran"} <=> request'[o].statement \in {"sent", "ran"}
               /\ (request[o].statement = "waiting" /\ request[o].step = "counting")
                     <=> (request'[o].statement = "waiting" /\ request'[o].step = "counting")
      BY <1>4, <2>3
    <3>2. UNCHANGED slots
      BY <1>1, <2>1 DEF slots
    <3> QED
      BY <2>4, <3>1, <3>2, SlotsStay
  <2> QED
    BY <1>2, <2>4, <2>5, <2>6 DEF IInv
<1> QED
  BY <1>3, <1>4

-----------------------------------------------------------------------------
(* The steps of a request past the limit change its step and nothing else of it. *)
LEMMA StepOnKeeps ==
    ASSUME IInv, NEW r \in Requests, NEW to \in {"verified", "done"},
           request[r].step \in {"admitted", "verified"},
           request' = [request EXCEPT ![r].step = to],
           UNCHANGED <<time, counter, slots, within>>,
           spent' \in BOOLEAN, spends' \in [early : Nat, late : Nat]
    PROVE  TypeOK' /\ RequestInv' /\ SlotInv' /\ QueueInv'
<1>1. /\ request' \in [Requests -> Records]
      /\ \A o \in Requests : request'[o].on = request[o].on /\ request'[o].statement = request[o].statement
      /\ \A o \in Requests : o # r => request'[o] = request[o]
      /\ request'[r].step = to
  BY DEF IInv, TypeOK, Records, Steps
<1>2. TypeOK'
  BY <1>1 DEF IInv, TypeOK, slots
<1>3. RequestInv'
  BY <1>1 DEF IInv, RequestInv
<1>4. \A o \in Requests :
           (request[o].statement = "waiting" /\ request[o].step = "counting")
             <=> (request'[o].statement = "waiting" /\ request'[o].step = "counting")
  BY <1>1
<1> QED
  BY <1>1, <1>2, <1>3, <1>4, SlotsStay

(* The challenge is spent, when it was not. *)
LEMMA SpentNowKeeps ==
    ASSUME IInv, ~spent, SpentNow, time' = time
    PROVE  spent' \in BOOLEAN /\ spends' \in [early : Nat, late : Nat] /\ SpentInv'
<1>1. spends \in [early : Nat, late : Nat] /\ spent' = TRUE
  BY DEF IInv, TypeOK, SpentNow
<1>2. CASE Expired
  <2>1. spends' = [spends EXCEPT !.late = @ + 1]
    BY <1>2 DEF SpentNow
  <2> QED
    BY <1>1, <2>1 DEF IInv, SpentInv
<1>3. CASE ~Expired
  <2>1. spends' = [spends EXCEPT !.early = @ + 1] /\ spends.early = 0
    BY <1>1, <1>3 DEF IInv, SpentInv, SpentNow
  <2> QED
    BY <1>1, <2>1 DEF SpentInv
<1> QED
  BY <1>2, <1>3

LEMMA StepOnSteps ==
    ASSUME IInv, NEW r \in Requests, Verify(r) \/ Spend(r) \/ Fail(r)
    PROVE  IInv'
<1>s. spent \in BOOLEAN /\ spends \in [early : Nat, late : Nat]
  BY DEF IInv, TypeOK
<1>u. UNCHANGED <<time, spent, spends>> => SpentInv'
  BY DEF IInv, SpentInv, Expired
<1>1. CASE Verify(r)
  <2>1. /\ request[r].step = "admitted" /\ UNCHANGED <<time, counter, slots, within, spent, spends>>
        /\ \E to \in {"verified", "done"} : request' = [request EXCEPT ![r].step = to]
    BY <1>1 DEF Verify, Ends, history
  <2>2. TypeOK' /\ RequestInv' /\ SlotInv' /\ QueueInv'
    BY <1>s, <2>1, StepOnKeeps
  <2> QED
    BY <1>u, <2>1, <2>2 DEF IInv
<1>2. CASE Spend(r) \/ Fail(r)
  <2>1. /\ request[r].step \in {"admitted", "verified"} /\ request' = [request EXCEPT ![r].step = "done"]
        /\ UNCHANGED <<time, counter, slots, within>>
        /\ UNCHANGED <<spent, spends>> \/ (~spent /\ SpentNow)
    BY <1>2 DEF Spend, Fail, Ends
  <2>2. spent' \in BOOLEAN /\ spends' \in [early : Nat, late : Nat] /\ SpentInv'
    BY <1>s, <1>u, <2>1, SpentNowKeeps
  <2>3. TypeOK' /\ RequestInv' /\ SlotInv' /\ QueueInv'
    BY <2>1, <2>2, StepOnKeeps
  <2> QED
    BY <2>2, <2>3 DEF IInv
<1> QED
  BY <1>1, <1>2

(* Time passes, or the sweeper forgets an expired challenge. *)
LEMMA TimeKeeps == ASSUME IInv, Tick \/ ForgetExpired PROVE IInv'
<1> USE IntakeConstants
<1>1. /\ UNCHANGED <<counter, slots, request, within, spends>>
      /\ time' \in Now /\ time' >= time /\ time \in Nat
      /\ spent' \in BOOLEAN /\ (spent' = spent \/ Expired)
  <2>1. /\ UNCHANGED <<counter, slots, request, within, spends>>
        /\ time' \in Now /\ time' >= time /\ time \in Nat
    BY DEF IInv, TypeOK, Tick, ForgetExpired, Now, history, IntakeConstants
  <2>2. spent \in BOOLEAN
    BY DEF IInv, TypeOK
  <2>3. spent' = spent \/ (Expired /\ spent' = FALSE)
    BY DEF Tick, ForgetExpired
  <2> QED
    BY <2>1, <2>2, <2>3, Zenon
<1>2. TypeOK' /\ RequestInv'
  <2>1. /\ counter' = counter /\ running' = running /\ waiting' = waiting /\ sweeping' = sweeping
        /\ sweptAt' = sweptAt /\ request' = request /\ within' = within /\ spends' = spends
    BY <1>1 DEF slots
  <2>2. TypeOK'
    <3>1. TypeOK
      BY DEF IInv
    <3>2. time' \in Now /\ spent' \in BOOLEAN
      BY <1>1
    <3> QED
      BY <2>1, <3>1, <3>2 DEF TypeOK
  <2>3. RequestInv'
    BY <2>1 DEF IInv, RequestInv
  <2> QED
    BY <2>2, <2>3
<1>3. SlotInv' /\ QueueInv'
  BY <1>1, <1>2, SlotsStay
<1>4. SpentInv'
  <2>1. Expired => Expired'
    BY <1>1 DEF Expired, IntakeConstants, TicksASecond, Now
  <2> QED
    BY <1>1, <2>1 DEF IInv, SpentInv
<1> QED
  BY <1>2, <1>3, <1>4 DEF IInv

LEMMA InitHolds == Init => IInv
<1> USE IntakeConstants
<1> SUFFICES ASSUME Init PROVE IInv
  OBVIOUS
<1>1. \A p \in Replicas : UnderWay(p) = {} /\ Waiters(p) = {}
  BY DEF Init, UnderWay, Waiters
<1>2. \A p \in Replicas : waiting[p] = <<>> /\ <<>> \in Seq(Requests) /\ Len(<<>>) = 0
  BY EmptySeq DEF Init
<1>3. Cardinality({}) = 0
  BY FS_EmptySet
<1>4. TypeOK
  <2>1. time \in Now /\ counter \in [hits : Nat, ends : Nat] /\ spends \in [early : Nat, late : Nat]
    BY DEF Init, Now, IntakeConstants
  <2>2. /\ running \in [Replicas -> 0..AtOnce] /\ sweeping \in [Replicas -> BOOLEAN]
        /\ sweptAt \in [Replicas -> Now] /\ within \subseteq [by : Requests, at : Now]
        /\ spent \in BOOLEAN
    <3>1. 0 \in 0..AtOnce /\ 0 \in 0..MaxTime /\ 0 \in Nat
      BY DEF IntakeConstants
    <3> QED
      BY <3>1 DEF Init, Now
  <2>3. request \in [Requests -> Records]
    BY DEF Init, Records, Steps, Statements
  <2>4. waiting \in [Replicas -> Seq(Requests)]
    BY <1>2 DEF Init
  <2> QED
    BY <2>1, <2>2, <2>3, <2>4 DEF TypeOK
<1>5. RequestInv
  BY DEF Init, RequestInv
<1>6. SlotInv
  <2> SUFFICES ASSUME NEW p \in Replicas
               PROVE  /\ running[p] = Cardinality(UnderWay(p)) + (IF sweeping[p] THEN 1 ELSE 0)
                      /\ running[p] <= AtOnce
                      /\ waiting[p] # <<>> => running[p] = AtOnce
    BY DEF SlotInv
  <2>1. running[p] = 0 /\ sweeping[p] = FALSE /\ waiting[p] = <<>> /\ AtOnce \in Nat
    BY DEF Init, IntakeConstants
  <2>2. Cardinality(UnderWay(p)) = 0
    BY <1>1, <1>3
  <2> QED
    BY <2>1, <2>2
<1>7. QueueInv
  BY <1>1, <1>2 DEF QueueInv, Held, Distinct
<1>8. SpentInv
  BY DEF Init, SpentInv
<1> QED
  BY <1>4, <1>5, <1>6, <1>7, <1>8 DEF IInv

LEMMA NextKeeps == IInv /\ [Next]_vars => IInv'
<1> SUFFICES ASSUME IInv, [Next]_vars PROVE IInv'
  OBVIOUS
<1>1. ASSUME NEW r \in Requests, Answered(r, TRUE) \/ Answered(r, FALSE) \/ Own(r) PROVE IInv'
  BY <1>1, AnsweredKeeps, LateKeeps, StepOnSteps DEF Own
<1>2. CASE Next
  BY <1>1, <1>2, TimeKeeps, IncrKeeps, RunCountKeeps, SweepEndsKeeps DEF Next
<1>3. CASE UNCHANGED vars
  <2>1. TypeOK' /\ RequestInv' /\ SpentInv' /\ UNCHANGED slots
    BY <1>3 DEF IInv, TypeOK, RequestInv, SpentInv, Expired, vars, slots
  <2> QED
    BY <1>3, <2>1, SlotsStay DEF IInv, vars
<1> QED
  BY <1>2, <1>3

LEMMA Invariance == Spec => []IInv
BY InitHolds, NextKeeps, PTL DEF Spec

-----------------------------------------------------------------------------
(* How many of some counts came at some ticks. *)
CountOf(counts, ticks) == Cardinality({c \in counts : c.at \in ticks})

(* The window of the row that is there. *)
Start == counter.ends - Window

(* Counts are past and of statements that ran.  The row's number is that of *)
(* the counts since its window began, up to the budget; the ticks before,   *)
(* as many as are in a stretch with it, counted one budget at most.         *)
BudgetInv ==
    /\ IsFiniteSet(within)
    /\ \A c \in within : c.at <= time /\ request[c.by].statement \in {"ran", "over"}
    /\ counter.hits = 0 => /\ \A c \in within : c.at < time
                           /\ CountOf(within, (time - Window + 1)..time) <= Budget
    /\ counter.hits > 0 => /\ Start <= time
                           /\ \A c \in within : c.at < counter.ends
                           /\ CountOf(within, Start..time) = IF counter.hits < Budget THEN counter.hits ELSE Budget
                           /\ CountOf(within, (Start - Window + 1)..(Start - 1)) <= Budget
    /\ \A from \in 0..time : CountOf(within, from..(from + Window - 1)) <= 2 * Budget

(* Counts at fewer ticks are no more. *)
LEMMA CountsGrow ==
    ASSUME NEW counts, IsFiniteSet(counts), NEW S, NEW T, \A c \in counts : c.at \in S => c.at \in T
    PROVE  /\ CountOf(counts, S) \in Nat /\ CountOf(counts, T) \in Nat
           /\ CountOf(counts, S) <= CountOf(counts, T)
<1>1. IsFiniteSet({c \in counts : c.at \in T}) /\ IsFiniteSet({c \in counts : c.at \in S})
  BY FS_Subset
<1>2. {c \in counts : c.at \in S} \in SUBSET {c \in counts : c.at \in T}
  OBVIOUS
<1> QED
  BY <1>1, <1>2, FS_Subset, FS_CardinalityType DEF CountOf

(* Counts at ticks of two sets are no more than those of each together. *)
LEMMA CountsAdd ==
    ASSUME NEW counts, IsFiniteSet(counts), NEW S, NEW T, NEW U,
           \A c \in counts : c.at \in U => c.at \in S \/ c.at \in T
    PROVE  CountOf(counts, U) <= CountOf(counts, S) + CountOf(counts, T)
<1> DEFINE At(V) == {c \in counts : c.at \in V}
<1>1. IsFiniteSet(At(S)) /\ IsFiniteSet(At(T)) /\ IsFiniteSet(At(S) \cap At(T))
  BY FS_Subset
<1>2. /\ IsFiniteSet(At(S) \cup At(T))
      /\ Cardinality(At(S) \cup At(T)) = Cardinality(At(S)) + Cardinality(At(T)) - Cardinality(At(S) \cap At(T))
  BY <1>1, FS_Union
<1>3. At(U) \in SUBSET (At(S) \cup At(T))
  OBVIOUS
<1>4. Cardinality(At(U)) <= Cardinality(At(S) \cup At(T)) /\ IsFiniteSet(At(U))
  BY <1>2, <1>3, FS_Subset
<1>5. /\ Cardinality(At(S)) \in Nat /\ Cardinality(At(T)) \in Nat /\ Cardinality(At(S) \cap At(T)) \in Nat
      /\ Cardinality(At(U)) \in Nat
  BY <1>1, <1>4, FS_CardinalityType
<1> HIDE DEF At
<1>6. Cardinality(At(U)) <= Cardinality(At(S)) + Cardinality(At(T))
  BY <1>2, <1>4, <1>5
<1> QED
  BY <1>6 DEF CountOf, At

(* One more count is one more wherever its tick is. *)
LEMMA OneMoreCount ==
    ASSUME NEW counts, IsFiniteSet(counts), NEW e, e \notin counts, NEW S
    PROVE  /\ IsFiniteSet(counts \cup {e})
           /\ CountOf(counts, S) \in Nat
           /\ CountOf(counts \cup {e}, S) =
                IF e.at \in S THEN CountOf(counts, S) + 1 ELSE CountOf(counts, S)
<1>1. IsFiniteSet({c \in counts : c.at \in S})
  BY FS_Subset
<1>2. {c \in counts \cup {e} : c.at \in S} =
        IF e.at \in S THEN {c \in counts : c.at \in S} \cup {e} ELSE {c \in counts : c.at \in S}
  OBVIOUS
<1>3. IsFiniteSet(counts \cup {e})
  BY FS_AddElement
<1>4. Cardinality({c \in counts : c.at \in S} \cup {e}) = Cardinality({c \in counts : c.at \in S}) + 1
  BY <1>1, FS_AddElement
<1> QED
  BY <1>1, <1>2, <1>3, <1>4, FS_CardinalityType DEF CountOf

(* What ran is not sent again. *)
LEMMA RanStays ==
    ASSUME IInv, [Next]_vars, NEW r \in Requests, request[r].statement \in {"ran", "over"}
    PROVE  request'[r].statement \in {"ran", "over"}
<1>t. request \in [Requests -> Records]
  BY DEF IInv, TypeOK
<1>1. ASSUME NEW p \in Replicas, NEW requests \in [Requests -> Records], Released(p, requests),
             requests[r].statement \in {"ran", "over"}
      PROVE  request'[r].statement \in {"ran", "over"}
  <2>1. CASE waiting[p] = <<>>
    BY <1>1, <2>1 DEF Released
  <2>2. CASE waiting[p] # <<>>
    <3>1. waiting[p] \in Seq(Requests) /\ Distinct(waiting[p]) /\ Held(waiting[p]) = Waiters(p)
      BY <1>1 DEF IInv, TypeOK, QueueInv
    <3>2. Head(waiting[p]) # r
      BY <2>2, <3>1, TailHolds DEF Waiters
    <3> QED
      BY <1>1, <2>2, <3>2 DEF Released
  <2> QED
    BY <2>1, <2>2
<1>2. ASSUME NEW q \in Requests, Answered(q, TRUE) \/ Answered(q, FALSE) PROVE request'[r].statement \in {"ran", "over"}
  <2>1. PICK row \in BOOLEAN : Answered(q, row)
    BY <1>2
  <2> DEFINE requests == [request EXCEPT ![q] = Decided(request[q], row)]
  <2>2. request[q] \in Records /\ request[q].step # "out" /\ request[q].on \in Replicas
    BY <1>t, <2>1 DEF IInv, RequestInv, Answered, Records
  <2>3. Decided(request[q], row) \in Records /\ Decided(request[q], row).statement = "over"
    BY <2>2, DecidedFacts
  <2>4. requests \in [Requests -> Records] /\ requests[r].statement \in {"ran", "over"}
    BY <1>t, <2>3
  <2>5. Released(request[q].on, requests)
    BY <2>1 DEF Answered
  <2> HIDE DEF requests
  <2> QED
    BY <1>1, <2>2, <2>4, <2>5
<1>3. ASSUME NEW q \in Requests, Late(q) PROVE request'[r].statement \in {"ran", "over"}
  BY <1>t, <1>3 DEF Late, Uncounted, Records
<1>4. ASSUME NEW q \in Requests, RunCount(q) \/ Verify(q) \/ Spend(q) \/ Fail(q)
      PROVE  request'[r].statement \in {"ran", "over"}
  BY <1>t, <1>4 DEF RunCount, Verify, Spend, Fail, Ends, Records
<1>5. ASSUME NEW q \in Requests, NEW p \in Replicas, Incr(q, p) PROVE request'[r].statement \in {"ran", "over"}
  <2>1. q # r
    BY <1>5 DEF IInv, RequestInv, Incr
  <2> QED
    BY <1>5, <1>t, <2>1 DEF Incr
<1>6. ASSUME NEW p \in Replicas, SweepEnds(p) PROVE request'[r].statement \in {"ran", "over"}
  BY <1>1, <1>6, <1>t DEF SweepEnds
<1>7. CASE Tick \/ ForgetExpired \/ UNCHANGED vars
  BY <1>7 DEF Tick, ForgetExpired, vars
<1> QED
  BY <1>2, <1>3, <1>4, <1>5, <1>6, <1>7 DEF Next, Own

(* A stretch that has the present tick in it reaches back over the row's    *)
(* window and the ticks before it, which count one budget each.             *)
LEMMA RunCountKeepsBudget ==
    ASSUME IInv, BudgetInv, NEW r \in Requests, RunCount(r), NEW e, e = [by |-> r, at |-> time]
    PROVE  BudgetInv'
<1> USE IntakeConstants
<1> DEFINE fits == Counted.hits <= Budget
           start == Start'
<1>t. /\ time \in Nat /\ counter \in [hits : Nat, ends : Nat] /\ within \subseteq [by : Requests, at : Now]
      /\ \A c \in within : c.at \in Nat
      /\ IsFiniteSet(within) /\ Budget \in Nat \ {0} /\ Window \in Nat \ {0}
  BY DEF IInv, TypeOK, Now, BudgetInv
<1>1. /\ request[r].statement = "sent" /\ time' = time /\ counter' = Counted
      /\ within' = IF fits THEN within \cup {e} ELSE within
  BY DEF RunCount
<1>2. e \notin within /\ e.at = time /\ e.by = r
  BY <1>1 DEF BudgetInv
<1>3. /\ \A c \in within' : c.at <= time' /\ request'[c.by].statement \in {"ran", "over"}
      /\ IsFiniteSet(within')
  <2>1. request'[r].statement = "ran"
    BY DEF IInv, TypeOK, Records, RunCount
  <2>2. \A c \in within : c.by \in Requests /\ request[c.by].statement \in {"ran", "over"} /\ c.at <= time
    BY <1>t DEF BudgetInv
  <2>3. \A c \in within : request'[c.by].statement \in {"ran", "over"}
    BY <2>2, RanStays DEF Next
  <2> QED
    BY <1>1, <1>2, <1>t, <2>1, <2>2, <2>3, OneMoreCount
<1>4. ASSUME NEW S
      PROVE  /\ CountOf(within, S) \in Nat
             /\ CountOf(within', S) = IF fits /\ time \in S THEN CountOf(within, S) + 1 ELSE CountOf(within, S)
  <2>1. /\ CountOf(within, S) \in Nat
        /\ CountOf(within \cup {e}, S) = IF time \in S THEN CountOf(within, S) + 1 ELSE CountOf(within, S)
    BY <1>2, <1>t, OneMoreCount
  <2> HIDE DEF fits
  <2> QED
    BY <1>1, <2>1
\* What the row says of the counts after the step.
<1>5. /\ start \in Int /\ start <= time /\ counter'.hits \in Nat \ {0} /\ time < counter'.ends
      /\ CountOf(within', start..time) = IF counter'.hits < Budget THEN counter'.hits ELSE Budget
      /\ CountOf(within', (start - Window + 1)..(start - 1)) <= Budget
      /\ \A c \in within : c.at < counter'.ends
  <2>1. CASE counter.hits = 0 \/ counter.ends <= time
    <3>1. counter' = [hits |-> 1, ends |-> time + Window] /\ start = time /\ fits
      BY <1>1, <1>t, <2>1 DEF Counted, Start
    <3>2. \A c \in within : c.at < time
      BY <1>t, <2>1 DEF BudgetInv
    <3>3. CountOf(within, (time - Window + 1)..(time - 1)) <= Budget
      <4>1. CASE counter.hits = 0
        <5>1. CountOf(within, (time - Window + 1)..(time - 1)) <= CountOf(within, (time - Window + 1)..time)
          BY <1>t, CountsGrow
        <5> QED
          BY <1>4, <1>t, <4>1, <5>1 DEF BudgetInv
      <4>2. CASE counter.hits > 0
        <5>1. Start \in Int /\ Start <= time - Window /\ CountOf(within, Start..time) <= Budget
          BY <1>t, <2>1, <4>2 DEF BudgetInv, Start
        <5>2. CountOf(within, (time - Window + 1)..(time - 1)) <= CountOf(within, Start..time)
          BY <1>t, <5>1, CountsGrow
        <5> QED
          BY <1>4, <1>t, <5>1, <5>2
      <4> QED
        BY <1>t, <4>1, <4>2
    <3>4. CountOf(within, time..time) = 0
      <4>1. {c \in within : c.at \in time..time} = {}
        BY <1>t, <3>2
      <4> QED
        BY <4>1, FS_EmptySet DEF CountOf
    <3>5. CountOf(within', time..time) = 1
      BY <1>4, <1>t, <3>1, <3>4
    <3>6. CountOf(within', (time - Window + 1)..(time - 1)) = CountOf(within, (time - Window + 1)..(time - 1))
      BY <1>4, <1>t
    <3> QED
      BY <1>1, <1>t, <3>1, <3>2, <3>3, <3>5, <3>6
  <2>2. CASE counter.hits > 0 /\ counter.ends > time
    <3>1. /\ counter'.hits = counter.hits + 1 /\ counter'.ends = counter.ends /\ start = Start
          /\ fits <=> counter.hits < Budget
      BY <1>1, <1>t, <2>2 DEF Counted, Start
    <3>2. /\ Start <= time /\ Start \in Int
          /\ CountOf(within, Start..time) = IF counter.hits < Budget THEN counter.hits ELSE Budget
          /\ CountOf(within, (Start - Window + 1)..(Start - 1)) <= Budget
      BY <1>t, <2>2 DEF BudgetInv, Start
    <3>3. CountOf(within', Start..time) = IF fits THEN CountOf(within, Start..time) + 1 ELSE CountOf(within, Start..time)
      BY <1>4, <1>t, <3>2
    <3>4. CountOf(within', (Start - Window + 1)..(Start - 1)) = CountOf(within, (Start - Window + 1)..(Start - 1))
      BY <1>4, <1>t, <3>2
    <3>5. CountOf(within', Start..time) = IF counter'.hits < Budget THEN counter'.hits ELSE Budget
      BY <1>t, <3>1, <3>2, <3>3
    <3> QED
      BY <1>t, <2>2, <3>1, <3>2, <3>4, <3>5 DEF BudgetInv
  <2> QED
    BY <1>t, <2>1, <2>2
<1> HIDE DEF start, fits
<1>6. ASSUME NEW from \in 0..time PROVE CountOf(within', from..(from + Window - 1)) <= 2 * Budget
  <2> DEFINE stretch == from..(from + Window - 1)
             now == start..time
             before == (start - Window + 1)..(start - 1)
  <2>1. CASE time \notin stretch
    BY <1>4, <1>6, <1>t, <2>1 DEF BudgetInv
  <2>2. CASE time \in stretch
    <3>1. \A c \in within' : c.at \in stretch => c.at \in now \/ c.at \in before
      BY <1>1, <1>2, <1>3, <1>5, <1>6, <1>t, <2>2 DEF fits
    <3>2. CountOf(within', stretch) <= CountOf(within', now) + CountOf(within', before)
      BY <1>3, <3>1, CountsAdd
    <3>3. CountOf(within', now) \in Nat /\ CountOf(within', before) \in Nat /\ CountOf(within', stretch) \in Nat
      BY <1>3, CountsGrow
    <3>4. CountOf(within', now) <= Budget /\ CountOf(within', before) <= Budget
      BY <1>5, <1>t
    <3> HIDE DEF now, before, stretch
    <3>5. CountOf(within', stretch) <= 2 * Budget
      BY <1>t, <3>2, <3>3, <3>4
    <3> QED
      BY <3>5 DEF stretch
  <2> QED
    BY <2>1, <2>2
<1> QED
  BY <1>1, <1>2, <1>3, <1>5, <1>6, <1>t DEF BudgetInv, start


(* What no count changes: the row stays, or goes when its window is over,   *)
(* and time may pass.                                                       *)
LEMMA OthersKeepBudget ==
    ASSUME IInv, BudgetInv, TypeOK', [Next]_vars, within' = within,
           \/ counter' = counter /\ time' \in {time, time + 1}
           \/ counter.ends <= time /\ counter' = [hits |-> 0, ends |-> 0] /\ time' = time
    PROVE  BudgetInv'
<1> USE IntakeConstants
<1>t. /\ time \in Nat /\ counter \in [hits : Nat, ends : Nat] /\ within \subseteq [by : Requests, at : Now]
      /\ \A c \in within : c.at \in Nat /\ c.at <= time
      /\ IsFiniteSet(within) /\ Budget \in Nat \ {0} /\ Window \in Nat \ {0}
      /\ time' \in {time, time + 1}
  BY DEF IInv, TypeOK, Now, BudgetInv
<1>1. \A c \in within' : c.at <= time' /\ request'[c.by].statement \in {"ran", "over"}
  <2>1. \A c \in within : c.by \in Requests /\ request[c.by].statement \in {"ran", "over"}
    BY <1>t DEF BudgetInv
  <2> QED
    BY <1>t, <2>1, RanStays
<1>2. ASSUME NEW S, NEW T, \A c \in within : c.at \in S => c.at \in T
      PROVE  CountOf(within, S) <= CountOf(within, T) /\ CountOf(within, S) \in Nat /\ CountOf(within, T) \in Nat
  BY <1>2, <1>t, CountsGrow
<1>3. ASSUME NEW from \in 0..time' PROVE CountOf(within, from..(from + Window - 1)) <= 2 * Budget
  <2>1. CASE from \in 0..time
    BY <2>1 DEF BudgetInv
  <2>2. CASE from = time + 1
    <3>1. CountOf(within, from..(from + Window - 1)) <= CountOf(within, 0..(0 + Window - 1))
      BY <1>2, <1>t, <2>2
    <3>2. CountOf(within, 0..(0 + Window - 1)) <= 2 * Budget
      BY <1>t DEF BudgetInv
    <3> QED
      BY <1>2, <1>t, <3>1, <3>2
  <2> QED
    BY <1>3, <1>t, <2>1, <2>2
<1>4. counter'.hits = 0 => /\ \A c \in within : c.at < time'
                           /\ CountOf(within, (time' - Window + 1)..time') <= Budget
  <2> SUFFICES ASSUME counter'.hits = 0
               PROVE  /\ \A c \in within : c.at < time'
                      /\ CountOf(within, (time' - Window + 1)..time') <= Budget
    OBVIOUS
  <2>1. CASE counter.hits = 0
    <3>1. CountOf(within, (time' - Window + 1)..time') <= CountOf(within, (time - Window + 1)..time)
      BY <1>2, <1>t
    <3>2. CountOf(within, (time - Window + 1)..time) <= Budget /\ \A c \in within : c.at < time
      BY <2>1 DEF BudgetInv
    <3> QED
      BY <1>2, <1>t, <3>1, <3>2
  <2>2. CASE counter.hits > 0
    <3>1. counter.ends <= time /\ time' = time
      BY <1>t, <2>2
    <3>2. Start \in Int /\ Start <= time - Window /\ CountOf(within, Start..time) <= Budget
      BY <1>t, <2>2, <3>1 DEF BudgetInv, Start
    <3>3. CountOf(within, (time - Window + 1)..time) <= CountOf(within, Start..time)
      BY <1>2, <1>t, <3>2
    <3>4. \A c \in within : c.at < time
      BY <1>t, <2>2, <3>1 DEF BudgetInv
    <3> QED
      BY <1>2, <1>t, <3>1, <3>2, <3>3, <3>4
  <2> QED
    BY <1>t, <2>1, <2>2
<1>5. counter'.hits > 0 =>
         /\ Start' <= time'
         /\ \A c \in within : c.at < counter'.ends
         /\ CountOf(within, (Start')..time') = IF counter'.hits < Budget THEN counter'.hits ELSE Budget
         /\ CountOf(within, (Start' - Window + 1)..(Start' - 1)) <= Budget
  <2> SUFFICES ASSUME counter'.hits > 0
               PROVE  /\ Start' <= time'
                      /\ \A c \in within : c.at < counter'.ends
                      /\ CountOf(within, (Start')..time') = IF counter'.hits < Budget THEN counter'.hits ELSE Budget
                      /\ CountOf(within, (Start' - Window + 1)..(Start' - 1)) <= Budget
    OBVIOUS
  <2>1. counter' = counter /\ Start' = Start /\ Start \in Int
    BY <1>t DEF Start
  <2>2. Start <= time
    BY <2>1 DEF BudgetInv
  <2>3. {c \in within : c.at \in Start..time'} = {c \in within : c.at \in Start..time}
    BY <1>t, <2>1
  <2>4. CountOf(within, Start..time') = CountOf(within, Start..time)
    BY <2>3 DEF CountOf
  <2>5. /\ \A c \in within : c.at < counter.ends
        /\ CountOf(within, Start..time) = IF counter.hits < Budget THEN counter.hits ELSE Budget
        /\ CountOf(within, (Start - Window + 1)..(Start - 1)) <= Budget
    BY <2>1 DEF BudgetInv
  <2>6. Start <= time'
    BY <1>t, <2>1, <2>2
  <2> HIDE DEF Start
  <2> QED
    BY <2>1, <2>4, <2>5, <2>6
<1> QED
  BY <1>1, <1>3, <1>4, <1>5, <1>t DEF BudgetInv

LEMMA BudgetHolds == Init => BudgetInv
<1> USE IntakeConstants
<1> SUFFICES ASSUME Init PROVE BudgetInv
  OBVIOUS
<1>1. within = {} /\ counter.hits = 0 /\ IsFiniteSet(within)
  BY FS_EmptySet DEF Init
<1>2. \A S : CountOf(within, S) = 0
  BY <1>1, FS_EmptySet DEF CountOf
<1> QED
  BY <1>1, <1>2 DEF BudgetInv

LEMMA BudgetKept == IInv /\ BudgetInv /\ [Next]_vars => BudgetInv'
<1> SUFFICES ASSUME IInv, BudgetInv, [Next]_vars PROVE BudgetInv'
  OBVIOUS
<1>1. TypeOK'
  BY NextKeeps DEF IInv
<1>2. ASSUME NEW r \in Requests, RunCount(r) PROVE BudgetInv'
  BY <1>2, RunCountKeepsBudget
<1>3. ASSUME NEW p \in Replicas, SweepEnds(p) PROVE BudgetInv'
  <2>1. counter' = counter \/ (counter.ends <= time /\ counter' = [hits |-> 0, ends |-> 0])
    BY <1>3 DEF SweepEnds
  <2>2. time' = time /\ within' = within
    BY <1>3 DEF SweepEnds, history
  <2> QED
    BY <1>1, <2>1, <2>2, OthersKeepBudget
<1>4. CASE \/ Tick \/ ForgetExpired \/ UNCHANGED vars
           \/ \E r \in Requests, p \in Replicas : Incr(r, p)
           \/ \E r \in Requests : Answered(r, TRUE) \/ Answered(r, FALSE) \/ Own(r)
  <2>1. counter' = counter /\ within' = within /\ time' \in {time, time + 1}
    BY <1>4 DEF Tick, ForgetExpired, vars, Incr, Answered, Own, Late, Verify, Spend, Fail, history
  <2> QED
    BY <1>1, <2>1, OthersKeepBudget
<1> QED
  BY <1>2, <1>3, <1>4 DEF Next

LEMMA BudgetFollows == IInv /\ BudgetInv => BudgetIsShared
<1> USE IntakeConstants
<1> SUFFICES ASSUME IInv, BudgetInv PROVE BudgetIsShared
  OBVIOUS
<1>1. \A from \in 0..time : CountedIn(from..(from + Window - 1)) <= 2 * Budget
  BY DEF BudgetInv, CountedIn, CountOf
<1>2. ASSUME counter.hits >= Budget, counter.ends > time
      PROVE  CountedIn((time - Window + 1)..time) >= Budget
  <2>1. /\ time \in Nat /\ counter \in [hits : Nat, ends : Nat]
        /\ IsFiniteSet(within) /\ Budget \in Nat \ {0} /\ Window \in Nat \ {0}
    BY DEF IInv, TypeOK, Now, BudgetInv
  <2>2. Start \in Int /\ Start >= time - Window + 1 /\ CountOf(within, Start..time) = Budget
    BY <1>2, <2>1 DEF BudgetInv, Start
  <2>3. CountOf(within, Start..time) <= CountOf(within, (time - Window + 1)..time)
        /\ CountOf(within, (time - Window + 1)..time) \in Nat
    <3>1. \A c \in within : c.at \in Start..time => c.at \in (time - Window + 1)..time
      BY <2>1, <2>2
    <3> QED
      BY <2>1, <3>1, CountsGrow
  <2> QED
    BY <2>1, <2>2, <2>3 DEF CountedIn, CountOf
<1> QED
  BY <1>1, <1>2 DEF BudgetIsShared

-----------------------------------------------------------------------------
-----------------------------------------------------------------------------
(* Every reachable state is well typed: above all, the number of statements *)
(* a replica has under way is never below none or above its limit, and only *)
(* its own requests wait for it.                                            *)
THEOREM TypeCorrect == Spec => []TypeOK
<1>1. IInv => TypeOK
  BY DEF IInv
<1> QED
  BY <1>1, Invariance, PTL

(* A slot of postgres-rate-limits.ts is never lost and never given twice,   *)
(* whatever is abandoned, failed or swept (done, the timer, sweep).         *)
THEOREM SlotsNeverLeak == Spec => []SlotsAreUsed
BY SlotsFollow, Invariance, PTL

(* A challenge passes one request before it expires (spendChallenge): none  *)
(* of the requests that verified it together is the second, and no sweep    *)
(* forgets it in time for another.                                          *)
THEOREM OnePasses == Spec => []OnePassesInTime
<1>1. IInv => OnePassesInTime
  BY DEF IInv, SpentInv, OnePassesInTime
<1> QED
  BY <1>1, Invariance, PTL

(* The budget is the client's, however its requests are spread, abandoned   *)
(* and swept around (incr's upsert): two budgets at most in any stretch as  *)
(* long as a window, and nobody refused who has not used up one.            *)
THEOREM BudgetHeld == Spec => []BudgetIsShared
<1>1. Spec => []BudgetInv
  BY BudgetHolds, BudgetKept, Invariance, PTL DEF Spec
<1> QED
  BY <1>1, Invariance, BudgetFollows, PTL
=============================================================================
