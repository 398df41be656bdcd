---------------------------- MODULE Filling_proofs ----------------------------
(***************************************************************************)
(* What is promised of a form as it is filled in: by the engine of a page, *)
(* which has its answers checked (EngineChecks), and by the draft that the *)
(* pages keep of them (Drafts).  The two share nothing but the form, and   *)
(* are proved one after the other.                                         *)
(***************************************************************************)
EXTENDS Drafts, EngineChecks, SequenceTheorems, TLAPS

(***************************************************************************)
(* Checks: for every form, deployment and number of hosts.  The argument:  *)
(* the calls about what a field still holds are those of its present       *)
(* generation, and each is exactly one verdict waited for; a host is       *)
(* resumed only when no call is left.                                      *)
(***************************************************************************)
CurrentCall(f, r) == [field |-> f, rule |-> r, at |-> generation[f]]

(* The generation tells the fresh calls from the rest. *)
FreshIsCurrent == fresh = {c \in flight : c.at = generation[c.field]}

(* A verdict is waited for as long as its call is in flight. *)
WaitingIsAsked ==
    \A f \in Fields, r \in AllRules : verdicts[f][r] = "waiting" <=> CurrentCall(f, r) \in flight

(* A host goes on when nothing is in flight, before anything else happens. *)
SettledIsIdle == \A h \in Hosts : host[h] = "settled" => flight = {}

ChecksInv == ChecksTypeOK /\ FreshIsCurrent /\ WaitingIsAsked /\ SettledIsIdle /\ ErrorsAreVerdicts

(* A form opens with nothing asked. *)
LEMMA ChecksInitInv == ChecksInit => ChecksInv
  BY ChecksConstants
  DEF ChecksInit, ChecksInv, ChecksTypeOK, FreshIsCurrent, WaitingIsAsked, SettledIsIdle, ErrorsAreVerdicts, Calls

(* The rules of a field are rules. *)
LEMMA RulesAreRules == \A f \in Fields : Rules[f] \subseteq AllRules /\ Rules[f] \subseteq Nat \ {0}
  BY ChecksConstants DEF AllRules

(* A commit preserves the invariant: it moves the generation of what it    *)
(* writes, so what was in flight about it is current no more.              *)
LEMMA WriteKeeps ==
  ASSUME NEW written \in SUBSET Fields, NEW held \in SUBSET written, NEW thrown,
         ChecksInv, Write(written, held, thrown)
  PROVE  ChecksInv'
<1> DEFINE asked == UNION {Asked(f, thrown) : f \in held}
<1>t. ChecksTypeOK /\ FreshIsCurrent /\ WaitingIsAsked /\ SettledIsIdle /\ ErrorsAreVerdicts
  BY DEF ChecksInv
<1>g. generation' = [f \in Fields |-> IF f \in written THEN generation[f] + 1 ELSE generation[f]]
  BY DEF Write, NextGeneration
<1>n. \A f \in Fields : generation[f] \in 0..MaxWrites /\ generation'[f] \in 0..MaxWrites
  BY <1>t, <1>g, ChecksConstants DEF ChecksTypeOK, Write
<1>a. \A c : c \in asked <=>
         \E f \in held : \E r \in Rules[f] \ AtOnce(f, thrown) :
            c = [field |-> f, rule |-> r, at |-> generation[f] + 1]
  BY DEF Asked
<1>b. \A c \in asked : c \in Calls /\ c.field \in held /\ c.rule \in Rules[c.field]
                        /\ c.at = generation'[c.field] /\ c.at \in 1..generation'[c.field]
  <2> TAKE c \in asked
  <2>0. PICK f \in held : \E r \in Rules[f] \ AtOnce(f, thrown) :
           c = [field |-> f, rule |-> r, at |-> generation[f] + 1]
    BY <1>a
  <2>1. PICK r \in Rules[f] \ AtOnce(f, thrown) :
           c = [field |-> f, rule |-> r, at |-> generation[f] + 1]
    BY <2>0
  <2>2. generation'[f] = generation[f] + 1 /\ f \in Fields /\ r \in Nat
    BY <1>g, RulesAreRules
  <2> QED BY <2>1, <2>2, <1>n DEF Calls
<1>f. flight' = flight \cup asked
  BY DEF Write
<1>o. \A c \in flight : c \in Calls /\ c.field \in Fields /\ c.at \in 1..generation[c.field]
                         /\ (c.field \in written => c.at # generation'[c.field])
                         /\ c.rule \in Rules[c.field] /\ c.at \in 1..generation'[c.field]
  BY <1>t, <1>g, <1>n DEF ChecksTypeOK, Calls
<1> HIDE DEF asked
<1>1. ChecksTypeOK'
  <2>1. flight' \subseteq Calls /\ \A c \in flight' : c.rule \in Rules[c.field] /\ c.at \in 1..generation'[c.field]
    BY <1>b, <1>f, <1>o
  <2>2. refusals' \in [Fields -> SUBSET AllRules]
    BY <1>t, RulesAreRules DEF ChecksTypeOK, Write, AtOnce
  <2>3. checking' \subseteq filled' /\ filled' \subseteq Fields
    BY <1>t DEF ChecksTypeOK, Write
  <2>4. fresh' \subseteq flight'
    BY <1>t, <1>f DEF ChecksTypeOK, Write, asked
  <2>5. verdicts' \in [Fields -> [AllRules -> {"unasked", "waiting", "fine", "refused"}]]
    BY <1>t DEF ChecksTypeOK, Write
  <2> QED BY <1>t, <1>g, <1>n, <2>1, <2>2, <2>3, <2>4, <2>5 DEF ChecksTypeOK, Write
<1>2. FreshIsCurrent'
  <2>1. fresh' = {c \in fresh : c.field \notin written} \cup asked
    BY DEF Write, asked
  <2>2. \A c \in flight : c.field \notin written => generation'[c.field] = generation[c.field]
    BY <1>o, <1>g
  <2> QED BY <2>1, <2>2, <1>t, <1>b, <1>f, <1>o DEF FreshIsCurrent
<1>3. WaitingIsAsked'
  <2> SUFFICES ASSUME NEW f \in Fields, NEW r \in AllRules
               PROVE  verdicts'[f][r] = "waiting" <=>
                         [field |-> f, rule |-> r, at |-> generation'[f]] \in flight'
    BY DEF WaitingIsAsked, CurrentCall
  <2> DEFINE c == [field |-> f, rule |-> r, at |-> generation'[f]]
  <2>0. c.field = f /\ c.rule = r /\ c.at = generation'[f]
    OBVIOUS
  <2>1. CASE f \notin written
    <3>1. verdicts'[f] = verdicts[f] /\ generation'[f] = generation[f]
      BY <2>1, <1>g DEF Write
    <3>2. c \notin asked
      BY <2>0, <2>1, <1>b
    <3> QED BY <3>1, <3>2, <1>f, <1>t DEF WaitingIsAsked, CurrentCall
  <2>2. CASE f \in written
    <3>1. c \notin flight
      BY <2>0, <2>2, <1>o
    <3>2. verdicts'[f][r] = "waiting" <=> (f \in held /\ r \in Rules[f] \ AtOnce(f, thrown))
      BY <2>2 DEF Write
    <3>3. generation'[f] = generation[f] + 1
      BY <2>2, <1>g
    <3>4. c \in asked <=> (f \in held /\ r \in Rules[f] \ AtOnce(f, thrown))
      <4>1. ASSUME c \in asked PROVE f \in held /\ r \in Rules[f] \ AtOnce(f, thrown)
        <5>0. PICK g \in held : \E s \in Rules[g] \ AtOnce(g, thrown) :
                 c = [field |-> g, rule |-> s, at |-> generation[g] + 1]
          BY <4>1, <1>a
        <5>1. PICK s \in Rules[g] \ AtOnce(g, thrown) :
                 c = [field |-> g, rule |-> s, at |-> generation[g] + 1]
          BY <5>0
        <5>2. c.field = g /\ c.rule = s
          BY <5>1
        <5> QED BY <5>1, <5>2, <2>0
      <4> QED BY <4>1, <3>3, <1>a
    <3> QED BY <3>1, <3>2, <3>4, <1>f
  <2> QED BY <2>1, <2>2
<1>4. SettledIsIdle'
  BY DEF SettledIsIdle, Write
<1>5. ErrorsAreVerdicts'
  <2> SUFFICES ASSUME NEW f \in Fields
               PROVE  refusals'[f] = {r \in AllRules : verdicts'[f][r] = "refused"}
    BY DEF ErrorsAreVerdicts
  <2>1. CASE f \notin written
    BY <2>1, <1>t DEF Write, ErrorsAreVerdicts
  <2>2. CASE f \in written \ held
    BY <2>2 DEF Write
  <2>3. CASE f \in held
    <3>1. refusals'[f] = AtOnce(f, thrown) /\ AtOnce(f, thrown) \subseteq Rules[f]
      BY <2>3 DEF Write, AtOnce
    <3>2. \A r \in AllRules : verdicts'[f][r] = "refused" <=> r \in Rules[f] /\ r \in AtOnce(f, thrown)
      BY <2>3 DEF Write
    <3> QED BY <3>1, <3>2, RulesAreRules
  <2> QED BY <2>1, <2>2, <2>3
<1> QED BY <1>1, <1>2, <1>3, <1>4, <1>5 DEF ChecksInv

(* An answer preserves the invariant: only one about what its field holds  *)
(* lands, and the last one wakes whoever waits.                            *)
LEMMA AnswerKeeps ==
  ASSUME NEW c \in flight, NEW verdict \in {"fine", "refused"}, ChecksInv, Answer(c, verdict)
  PROVE  ChecksInv'
<1>t. ChecksTypeOK /\ FreshIsCurrent /\ WaitingIsAsked /\ SettledIsIdle /\ ErrorsAreVerdicts
  BY DEF ChecksInv
<1>e. flight' = flight \ {c} /\ fresh' = fresh \ {c} /\ generation' = generation /\ filled' = filled
  BY DEF Answer, Settled
<1>c. c \in Calls /\ c.field \in Fields /\ c.rule \in Rules[c.field] /\ c.rule \in AllRules
      /\ c = [field |-> c.field, rule |-> c.rule, at |-> c.at]
  BY <1>t, RulesAreRules DEF ChecksTypeOK, Calls
<1>h. host' \in [Hosts -> {"idle", "waiting", "settled", "sent"}]
      /\ (flight' # {} => host' = host)
  BY <1>t, <1>e DEF ChecksTypeOK, Answer, Woken
<1>1. CASE c.at = generation[c.field]
  <2>0. c \in fresh /\ c = CurrentCall(c.field, c.rule)
    BY <1>1, <1>t, <1>c DEF FreshIsCurrent, CurrentCall
  <2>1. verdicts' = [verdicts EXCEPT ![c.field][c.rule] = verdict]
    BY <2>0 DEF Answer
  <2>2. refusals' = [refusals EXCEPT ![c.field] = IF verdict = "refused" THEN @ \cup {c.rule} ELSE @]
    BY <1>1 DEF Answer, Settled
  <2>3. checking' \subseteq checking
    BY <1>1 DEF Answer, Settled
  <2>4. verdicts[c.field][c.rule] = "waiting"
    BY <2>0, <1>c, <1>t DEF WaitingIsAsked
  <2>5. \A f \in Fields, r \in AllRules :
           verdicts'[f][r] = IF f = c.field /\ r = c.rule THEN verdict ELSE verdicts[f][r]
    BY <2>1, <1>c, <1>t DEF ChecksTypeOK
  <2>6. ChecksTypeOK'
    <3>1. verdicts' \in [Fields -> [AllRules -> {"unasked", "waiting", "fine", "refused"}]]
      BY <2>1, <1>c, <1>t DEF ChecksTypeOK
    <3>2. refusals' \in [Fields -> SUBSET AllRules]
      BY <2>2, <1>c, <1>t DEF ChecksTypeOK
    <3> QED BY <3>1, <3>2, <2>3, <1>t, <1>e, <1>h DEF ChecksTypeOK
  <2>7. FreshIsCurrent'
    BY <1>t, <1>e DEF FreshIsCurrent
  <2>8. WaitingIsAsked'
    <3> SUFFICES ASSUME NEW f \in Fields, NEW r \in AllRules
                 PROVE  verdicts'[f][r] = "waiting" <=> CurrentCall(f, r) \in flight'
      BY <1>e DEF WaitingIsAsked, CurrentCall
    <3>1. CurrentCall(f, r) = c <=> (f = c.field /\ r = c.rule)
      BY <2>0 DEF CurrentCall
    <3> QED BY <3>1, <2>5, <1>e, <1>t DEF WaitingIsAsked
  <2>9. ErrorsAreVerdicts'
    <3> SUFFICES ASSUME NEW f \in Fields
                 PROVE  refusals'[f] = {r \in AllRules : verdicts'[f][r] = "refused"}
      BY DEF ErrorsAreVerdicts
    <3>1. refusals'[f] = IF f = c.field /\ verdict = "refused" THEN refusals[f] \cup {c.rule} ELSE refusals[f]
      BY <2>2, <1>t DEF ChecksTypeOK
    <3> QED BY <3>1, <2>4, <2>5, <1>c, <1>t DEF ErrorsAreVerdicts
  <2> QED BY <2>6, <2>7, <2>8, <2>9, <1>h, <1>t, <1>e DEF ChecksInv, SettledIsIdle
<1>2. CASE c.at # generation[c.field]
  <2>1. c \notin fresh
    BY <1>2, <1>t DEF FreshIsCurrent
  <2>2. UNCHANGED <<verdicts, refusals, checking>>
    BY <2>1, <1>2 DEF Answer, Settled
  <2>3. \A f \in Fields, r \in AllRules : CurrentCall(f, r) # c
    BY <1>2 DEF CurrentCall
  <2>4. ChecksTypeOK'
    BY <2>2, <1>e, <1>h, <1>t, <2>1 DEF ChecksTypeOK
  <2>5. FreshIsCurrent'
    BY <1>t, <1>e DEF FreshIsCurrent
  <2>6. WaitingIsAsked'
    BY <2>2, <2>3, <1>e, <1>t DEF WaitingIsAsked, CurrentCall
  <2> QED BY <2>2, <2>4, <2>5, <2>6, <1>h, <1>e, <1>t DEF ChecksInv, SettledIsIdle, ErrorsAreVerdicts
<1> QED BY <1>1, <1>2

(* What a host does changes nothing of the engine, and it goes on at once   *)
(* only when nothing is in flight.                                         *)
LEMMA HostKeeps ==
  ASSUME NEW h \in Hosts, ChecksInv, Settle(h) \/ \E ok \in BOOLEAN : Submit(h, ok)
  PROVE  ChecksInv'
<1>1. UNCHANGED <<filled, generation, flight, refusals, checking, fresh, verdicts>>
  BY DEF Settle, Submit, engine
<1>2. host' \in [Hosts -> {"idle", "waiting", "settled", "sent"}]
      /\ \A k \in Hosts : host'[k] = "settled" => host[k] = "settled" \/ flight = {}
  BY DEF Settle, Submit, ChecksInv, ChecksTypeOK
<1>3. ChecksTypeOK'
  BY <1>1, <1>2 DEF ChecksInv, ChecksTypeOK
<1> QED
  BY <1>1, <1>2, <1>3 DEF ChecksInv, FreshIsCurrent, WaitingIsAsked, CurrentCall, SettledIsIdle, ErrorsAreVerdicts

(* Every step preserves the invariant. *)
LEMMA ChecksStepInv == ChecksInv /\ [ChecksNext]_checksVars => ChecksInv'
<1> SUFFICES ASSUME ChecksInv, [ChecksNext]_checksVars PROVE ChecksInv'
  OBVIOUS
<1>1. CASE ChecksNext
  BY <1>1, WriteKeeps, AnswerKeeps, HostKeeps DEF ChecksNext
<1>2. CASE UNCHANGED checksVars
  BY <1>2
  DEF checksVars, ChecksInv, ChecksTypeOK, FreshIsCurrent, WaitingIsAsked, CurrentCall, SettledIsIdle,
      ErrorsAreVerdicts
<1> QED BY <1>1, <1>2

(* The invariant holds in every reachable state. *)
LEMMA ChecksInvariance == ChecksSpec => []ChecksInv
  BY ChecksInitInv, ChecksStepInv, PTL DEF ChecksSpec

(* Every state is well typed: a field that checks is not empty, and no call *)
(* is of a generation that has not come.                                   *)
THEOREM ChecksTypeCorrect == ChecksSpec => []ChecksTypeOK
<1>1. ChecksInv => ChecksTypeOK
  BY DEF ChecksInv
<1> QED BY <1>1, ChecksInvariance, PTL

(* A field shows exactly the refusals of what it now holds, in whatever     *)
(* order the answers come.                                                 *)
THEOREM LateAnswersDoNotLand == ChecksSpec => []ErrorsAreVerdicts
<1>1. ChecksInv => ErrorsAreVerdicts
  BY DEF ChecksInv
<1> QED BY <1>1, ChecksInvariance, PTL

(* A host that awaits settle() goes on when every verdict is in.            *)
THEOREM SettleWaitsForAll == ChecksSpec => []SettledIsAnswered
<1>1. ChecksInv => SettledIsAnswered
  BY DEF ChecksInv, SettledIsIdle, WaitingIsAsked, SettledIsAnswered
<1> QED BY <1>1, ChecksInvariance, PTL

-----------------------------------------------------------------------------
(***************************************************************************)
(* Drafts: for every sequence of documents, every number of pages, answers *)
(* and resumes.  The argument is in two parts.  Of a migration: where each *)
(* answer goes, that no two answers go to one path, and that one which is  *)
(* then off the form is set aside.  Of the requests: every copy of the     *)
(* data, the row's, a page's, a save's and a resume's, is as good as what  *)
(* is proved of the row.                                                   *)
(***************************************************************************)
(* The functions from some of S to T. *)
Partial(S, T) == UNION {[U -> T] : U \in SUBSET S}

Data == [own : Partial(Paths, Edits), aside : Partial(Paths, SUBSET Edits)]

(* The path of an answer: its last key is a leaf's, its first a container's. *)
LeafPath(q) ==
    /\ \E g \in AllFields : g.key = q[2] /\ g.kind = "leaf"
    /\ q[1] = Top \/ \E g \in AllFields : g.key = q[1] /\ g.kind # "leaf"

(* What Excusable says of the path an answer was at. *)
ExcusablePath(b, s, own, q) ==
    \E f \in s.fields \cup b.fields :
        \/ f.kind = "rows" /\ q[1] \in {f.key, f.from}
        \/ f.kind = "group" /\ f.from # NoKey /\ q[1] \in {f.key, f.from}
        \/ f.from = q[2] /\ \E r \in DOMAIN own : r[2] = f.key

(* Where the renames at the top and those in a group take what is at a path. *)
TopMove(s, own, q) ==
    IF q[1] = Top THEN <<Top, TopKey(s, own, q[2])>> ELSE <<TopKey(s, own, q[1]), q[2]>>

GroupMove(s, own, q) ==
    IF \E f \in GroupRenames(s, own) : q = <<f.in, f.from>>
    THEN PathOf(CHOOSE f \in GroupRenames(s, own) : q = <<f.in, f.from>>) ELSE q

Move(s, own, q) == GroupMove(s, WithTopRenames(s, own), TopMove(s, own, q))

(* No two answers are one, and no answer is also set aside. *)
Once(d) ==
    /\ \A q, r \in DOMAIN d.own : q # r => d.own[q] # d.own[r]
    /\ \A q \in DOMAIN d.own, r \in DOMAIN d.aside : d.own[q] \notin d.aside[r]
    /\ \A r \in DOMAIN d.aside : d.aside[r] # {}

-----------------------------------------------------------------------------
(* The values and the arguments of such a function. *)
LEMMA PartialFacts ==
    ASSUME NEW S, NEW T
    PROVE  /\ \A f \in Partial(S, T) : /\ DOMAIN f \in SUBSET S /\ f \in [DOMAIN f -> T]
                                       /\ \A x \in DOMAIN f : x \in S /\ f[x] \in T
           /\ \A U \in SUBSET S : \A f \in [U -> T] : f \in Partial(S, T)
<1>1. ASSUME NEW f \in Partial(S, T)
      PROVE  DOMAIN f \in SUBSET S /\ f \in [DOMAIN f -> T] /\ \A x \in DOMAIN f : x \in S /\ f[x] \in T
  <2>1. PICK U \in SUBSET S : f \in [U -> T]
    BY DEF Partial
  <2> QED
    BY <2>1
<1>2. ASSUME NEW U \in SUBSET S, NEW f \in [U -> T] PROVE f \in Partial(S, T)
  BY DEF Partial
<1> QED
  BY <1>1, <1>2

(* The keys and kinds of fields. *)
LEMMA FieldFacts ==
    /\ \A f \in AllFields : f.kind \in {"leaf", "group", "rows"} /\ f.key # Top /\ f.key # NoKey /\ f.from # Top
    /\ \A f, g \in AllFields : f.key = g.key \/ f.key = g.from => f.kind = g.kind
    /\ \A f \in AllFields : f.key \in Keys
    /\ \A s \in Documents : \A f \in s.fields : f \in AllFields
    /\ Top \notin Keys
<1>1. \A s \in Documents : \A f \in s.fields : f \in AllFields
  BY DEF AllFields
<1>2. \A f \in AllFields : f.key \in Keys
  BY DEF Keys
<1>3. Top \notin Keys /\ NoKey \notin Keys
  BY DocumentsAssumption
<1> QED
  BY <1>1, <1>2, <1>3, DocumentsAssumption

(* The fields of one document. *)
LEMMA DocumentFacts ==
    ASSUME NEW s \in Documents
    PROVE  /\ \A f, g \in s.fields : f.key = g.key => f = g
           /\ \A f, g \in s.fields : f.from = g.from /\ f.from # NoKey => f = g
           /\ \A f \in s.fields : f.in # Top =>
                 \E g \in s.fields : g.key = f.in /\ g.kind # "leaf" /\ g.in = Top /\ f.kind = "leaf"
           /\ \A f \in s.fields : At(s, f.key) = f
           /\ PathsOf(s) \subseteq Paths
<1>1. /\ \A f, g \in s.fields : f.key = g.key => f = g
      /\ \A f, g \in s.fields : f.from = g.from /\ f.from # NoKey => f = g
      /\ \A f \in s.fields : f.in # Top =>
            \E g \in s.fields : g.key = f.in /\ g.kind # "leaf" /\ g.in = Top /\ f.kind = "leaf"
  BY DocumentsAssumption DEF Valid
<1>2. \A f \in s.fields : At(s, f.key) = f
  BY <1>1 DEF At
<1>3. \A f \in s.fields : f.key \in Keys /\ f.in \in {Top} \cup Keys
  BY <1>1, FieldFacts
<1>4. PathsOf(s) \subseteq Paths
  BY <1>3 DEF PathsOf, PathOf, Paths
<1> QED
  BY <1>1, <1>2, <1>4

(* What Moved does, and that it loses nothing when it takes no two to one. *)
LEMMA MovedFacts ==
    ASSUME NEW own, NEW m
    PROVE  /\ \A q : q \in DOMAIN Moved(own, m) <=> \E p \in DOMAIN own : q = m[p]
           /\ (\A p, q \in DOMAIN own : m[p] = m[q] => p = q) =>
                \A p \in DOMAIN own : Moved(own, m)[m[p]] = own[p]
<1>1. \A q \in {m[p] : p \in DOMAIN own} :
        /\ (CHOOSE p \in DOMAIN own : m[p] = q) \in DOMAIN own
        /\ m[CHOOSE p \in DOMAIN own : m[p] = q] = q
        /\ Moved(own, m)[q] = own[CHOOSE p \in DOMAIN own : m[p] = q]
  BY DEF Moved
<1>2. \A q : q \in DOMAIN Moved(own, m) <=> \E p \in DOMAIN own : q = m[p]
  BY DEF Moved
<1> QED
  BY <1>1, <1>2

(* A key at the top goes where the one rename of it takes it, or stays. *)
LEMMA TopKeyFacts ==
    ASSUME NEW s, NEW own, NEW k
    PROVE  \/ TopKey(s, own, k) = k /\ \A f \in TopRenames(s, own) : f.from # k
           \/ \E f \in TopRenames(s, own) : f.from = k /\ TopKey(s, own, k) = f.key
BY DEF TopKey

(* A rename takes a key that is held to one that is not, each to its own. *)
LEMMA TopKeyInjective ==
    ASSUME NEW s \in Documents, NEW own, NEW k, NEW l, HoldsKey(own, k), HoldsKey(own, l),
           TopKey(s, own, k) = TopKey(s, own, l)
    PROVE  k = l
<1>1. \A f \in TopRenames(s, own) : f \in s.fields /\ ~HoldsKey(own, f.key)
  BY DEF TopRenames
<1> QED
  BY <1>1, TopKeyFacts, DocumentFacts

(* So no two paths come to be one by the renames at the top. *)
LEMMA TopMoveInjective ==
    ASSUME NEW s \in Documents, NEW own, DOMAIN own \subseteq Paths,
           NEW p \in DOMAIN own, NEW q \in DOMAIN own, TopMove(s, own, p) = TopMove(s, own, q)
    PROVE  p = q
<1>1. p \in Paths /\ q \in Paths /\ p = <<p[1], p[2]>> /\ q = <<q[1], q[2]>>
  BY DEF Paths
<1>2. \A k : TopKey(s, own, k) = Top => k = Top
  BY TopKeyFacts, FieldFacts DEF TopRenames
<1>3. ASSUME NEW r \in DOMAIN own PROVE r[1] # Top => HoldsKey(own, r[1])
  BY <1>3 DEF HoldsKey
<1>4. ASSUME NEW r \in DOMAIN own, r = <<r[1], r[2]>> PROVE r[1] = Top => HoldsKey(own, r[2])
  BY <1>4 DEF HoldsKey
<1>5. CASE p[1] = Top /\ q[1] = Top
  BY <1>1, <1>4, <1>5, TopKeyInjective DEF TopMove
<1>6. CASE p[1] # Top /\ q[1] # Top
  BY <1>1, <1>3, <1>6, TopKeyInjective DEF TopMove
<1>7. CASE (p[1] = Top) # (q[1] = Top)
  BY <1>1, <1>2, <1>7 DEF TopMove
<1> QED
  BY <1>5, <1>6, <1>7

(* The renames at the top move each answer, and change none. *)
LEMMA WithTopRenamesFacts ==
    ASSUME NEW s \in Documents, NEW own, DOMAIN own \subseteq Paths
    PROVE  /\ \A r : r \in DOMAIN WithTopRenames(s, own) <=> \E q \in DOMAIN own : r = TopMove(s, own, q)
           /\ \A q \in DOMAIN own : WithTopRenames(s, own)[TopMove(s, own, q)] = own[q]
<1> DEFINE m == [q \in DOMAIN own |-> TopMove(s, own, q)]
<1>1. WithTopRenames(s, own) = Moved(own, m)
  BY DEF WithTopRenames, TopMove
<1>2. \A p, q \in DOMAIN own : m[p] = m[q] => p = q
  BY TopMoveInjective
<1>3. \A q \in DOMAIN own : m[q] = TopMove(s, own, q)
  OBVIOUS
<1> HIDE DEF m
<1>4. \A p \in DOMAIN own : Moved(own, m)[m[p]] = own[p]
  BY <1>2, MovedFacts
<1>5. \A q : q \in DOMAIN Moved(own, m) <=> \E p \in DOMAIN own : q = m[p]
  BY MovedFacts
<1> QED
  BY <1>1, <1>3, <1>4, <1>5

(* A path in a group goes where the one rename of it takes it, or stays. *)
LEMMA GroupMoveFacts ==
    ASSUME NEW s, NEW own, NEW q
    PROVE  \/ GroupMove(s, own, q) = q /\ \A f \in GroupRenames(s, own) : q # <<f.in, f.from>>
           \/ \E f \in GroupRenames(s, own) : q = <<f.in, f.from>> /\ GroupMove(s, own, q) = PathOf(f)
BY DEF GroupMove

(* A rename in a group takes a path to one that holds nothing. *)
LEMMA GroupMoveInjective ==
    ASSUME NEW s \in Documents, NEW own, NEW p \in DOMAIN own, NEW q \in DOMAIN own,
           GroupMove(s, own, p) = GroupMove(s, own, q)
    PROVE  p = q
<1>1. \A f \in GroupRenames(s, own) : f \in s.fields /\ PathOf(f) \notin DOMAIN own
  BY DEF GroupRenames
<1>2. \A f, g \in s.fields : PathOf(f) = PathOf(g) => f = g
  BY DocumentFacts DEF PathOf
<1> QED
  BY <1>1, <1>2, GroupMoveFacts

(* The renames in groups move each answer, and change none. *)
LEMMA WithGroupRenamesFacts ==
    ASSUME NEW s \in Documents, NEW own
    PROVE  /\ \A r : r \in DOMAIN WithGroupRenames(s, own) <=> \E q \in DOMAIN own : r = GroupMove(s, own, q)
           /\ \A q \in DOMAIN own : WithGroupRenames(s, own)[GroupMove(s, own, q)] = own[q]
<1> DEFINE m == [q \in DOMAIN own |-> GroupMove(s, own, q)]
<1>1. WithGroupRenames(s, own) = Moved(own, m)
  BY DEF WithGroupRenames, GroupMove
<1>2. \A p, q \in DOMAIN own : m[p] = m[q] => p = q
  BY GroupMoveInjective
<1>3. \A q \in DOMAIN own : m[q] = GroupMove(s, own, q)
  OBVIOUS
<1> HIDE DEF m
<1>4. \A p \in DOMAIN own : Moved(own, m)[m[p]] = own[p]
  BY <1>2, MovedFacts
<1>5. \A q : q \in DOMAIN Moved(own, m) <=> \E p \in DOMAIN own : q = m[p]
  BY MovedFacts
<1> QED
  BY <1>1, <1>3, <1>4, <1>5

(* A key goes to itself or to one a document of ours renames it to. *)
KeyStep(k, l) == l = k \/ \E f \in AllFields : f.from = k /\ f.key = l

(* A rename at the top takes a path to a path, by steps of its keys. *)
LEMMA TopMoveFacts ==
    ASSUME NEW s \in Documents, NEW own, NEW q \in Paths
    PROVE  LET r == TopMove(s, own, q) IN
           /\ r \in Paths /\ KeyStep(q[1], r[1]) /\ KeyStep(q[2], r[2])
           /\ q[1] = Top <=> r[1] = Top
<1>1. q[2] \in Keys /\ q[1] \in {Top} \cup Keys
  BY DEF Paths
<1>2. \A f \in TopRenames(s, own) : f \in AllFields
  BY FieldFacts DEF TopRenames
<1>3. \A k : KeyStep(k, TopKey(s, own, k)) /\ (k \in Keys => TopKey(s, own, k) \in Keys)
  BY <1>2, TopKeyFacts, FieldFacts DEF KeyStep
<1>4. CASE q[1] = Top
  BY <1>1, <1>3, <1>4 DEF TopMove, Paths, KeyStep
<1>5. CASE q[1] # Top
  <2>1. TopMove(s, own, q) = <<TopKey(s, own, q[1]), q[2]>> /\ TopKey(s, own, q[1]) \in Keys
    BY <1>1, <1>3, <1>5 DEF TopMove
  <2> QED
    BY <1>1, <1>3, <1>5, <2>1, FieldFacts DEF Paths, KeyStep
<1> QED
  BY <1>4, <1>5

(* One in a group takes a path to a path in the same container. *)
LEMMA GroupMoveSteps ==
    ASSUME NEW s \in Documents, NEW own, NEW q \in Paths
    PROVE  LET r == GroupMove(s, own, q) IN
           r \in Paths /\ r[1] = q[1] /\ KeyStep(q[2], r[2]) /\ (q[1] = Top => r = q)
<1>1. \A f \in GroupRenames(s, own) : f \in s.fields /\ f \in AllFields /\ f.in # Top
  BY FieldFacts DEF GroupRenames
<1>2. \A f \in s.fields : PathOf(f) \in Paths
  BY DocumentFacts DEF PathsOf
<1>3. CASE GroupMove(s, own, q) = q
  BY <1>3 DEF KeyStep
<1>4. ASSUME NEW f \in GroupRenames(s, own), q = <<f.in, f.from>>, GroupMove(s, own, q) = PathOf(f)
      PROVE  LET r == GroupMove(s, own, q) IN
             r \in Paths /\ r[1] = q[1] /\ KeyStep(q[2], r[2]) /\ (q[1] = Top => r = q)
  BY <1>1, <1>2, <1>4 DEF PathOf, KeyStep
<1> QED
  BY <1>3, <1>4, GroupMoveFacts

(* A leaf's key goes to a leaf's, a container's to a container's. *)
LEMMA KeyStepKeepsKind ==
    ASSUME NEW k, NEW l, KeyStep(k, l)
    PROVE  /\ (\E g \in AllFields : g.key = k /\ g.kind = "leaf") => \E g \in AllFields : g.key = l /\ g.kind = "leaf"
           /\ (\E g \in AllFields : g.key = k /\ g.kind # "leaf") => \E g \in AllFields : g.key = l /\ g.kind # "leaf"
           /\ \A x : <<x, k>> \in Led => <<x, l>> \in Led
<1>1. CASE l = k
  BY <1>1
<1>2. ASSUME NEW f \in AllFields, f.from = k, f.key = l
      PROVE  /\ \A g \in AllFields : g.key = k => f.kind = g.kind
             /\ \A x : <<x, k>> \in Led => <<x, l>> \in Led
  <2>1. \A g \in AllFields : g.key = k => f.kind = g.kind
    BY <1>2, FieldFacts
  <2>2. ASSUME NEW x, <<x, k>> \in Led PROVE <<x, l>> \in Led
    <3>1. <<x, k>>[2] = f.from /\ <<x, k>>[1] = x
      BY <1>2
    <3>2. <<<<x, k>>[1], f.key>> \in Led
      BY <2>2, <3>1, LedAssumption
    <3> QED
      BY <1>2, <3>1, <3>2
  <2> QED
    BY <2>1, <2>2
<1> QED
  BY <1>1, <1>2 DEF KeyStep

(* Where an answer goes: to one path, its own, that is still of its kind and *)
(* of its question.                                                          *)
LEMMA MoveFacts ==
    ASSUME NEW s \in Documents, NEW own, DOMAIN own \subseteq Paths
    PROVE  /\ \A r : r \in DOMAIN ApplyRenames(s, own) <=> \E q \in DOMAIN own : r = Move(s, own, q)
           /\ \A q \in DOMAIN own :
                /\ ApplyRenames(s, own)[Move(s, own, q)] = own[q]
                /\ Move(s, own, q) \in Paths
                /\ LeafPath(q) => LeafPath(Move(s, own, q))
                /\ \A x : \A i \in 1..2 : <<x, q[i]>> \in Led => <<x, Move(s, own, q)[i]>> \in Led
<1> DEFINE top == WithTopRenames(s, own)
<1>1. /\ \A r : r \in DOMAIN top <=> \E q \in DOMAIN own : r = TopMove(s, own, q)
      /\ \A q \in DOMAIN own : top[TopMove(s, own, q)] = own[q]
  BY WithTopRenamesFacts
<1>2. ApplyRenames(s, own) = WithGroupRenames(s, top)
  BY DEF ApplyRenames
<1>3. \A q : Move(s, own, q) = GroupMove(s, top, TopMove(s, own, q))
  BY DEF Move
<1> HIDE DEF top
<1>4. /\ \A r : r \in DOMAIN WithGroupRenames(s, top) <=> \E q \in DOMAIN top : r = GroupMove(s, top, q)
      /\ \A q \in DOMAIN top : WithGroupRenames(s, top)[GroupMove(s, top, q)] = top[q]
  BY WithGroupRenamesFacts
<1>5. \A r : r \in DOMAIN ApplyRenames(s, own) <=> \E q \in DOMAIN own : r = Move(s, own, q)
  BY <1>1, <1>2, <1>3, <1>4
<1>6. ASSUME NEW q \in DOMAIN own
      PROVE  /\ ApplyRenames(s, own)[Move(s, own, q)] = own[q]
             /\ Move(s, own, q) \in Paths
             /\ LeafPath(q) => LeafPath(Move(s, own, q))
             /\ \A x : \A i \in 1..2 : <<x, q[i]>> \in Led => <<x, Move(s, own, q)[i]>> \in Led
  <2> DEFINE t == TopMove(s, own, q)
             r == GroupMove(s, top, t)
  <2>1. /\ q \in Paths /\ t \in Paths /\ KeyStep(q[1], t[1]) /\ KeyStep(q[2], t[2])
        /\ q[1] = Top <=> t[1] = Top
    BY TopMoveFacts
  <2>2. r \in Paths /\ r[1] = t[1] /\ KeyStep(t[2], r[2])
    BY <2>1, GroupMoveSteps
  <2>3. ApplyRenames(s, own)[r] = own[q]
    BY <1>1, <1>2, <1>4
  <2>4. r = Move(s, own, q)
    BY <1>3
  <2> HIDE DEF t, r
  <2>5. LeafPath(q) => LeafPath(r)
    BY <2>1, <2>2, KeyStepKeepsKind DEF LeafPath
  <2>6. \A x : \A i \in 1..2 : <<x, q[i]>> \in Led => <<x, r[i]>> \in Led
    <3>1. \A x : <<x, q[1]>> \in Led => <<x, r[1]>> \in Led
      BY <2>1, <2>2, KeyStepKeepsKind
    <3>a. \A x : <<x, q[2]>> \in Led => <<x, t[2]>> \in Led
      BY <2>1, KeyStepKeepsKind
    <3>b. \A x : <<x, t[2]>> \in Led => <<x, r[2]>> \in Led
      BY <2>2, KeyStepKeepsKind
    <3>2. \A x : <<x, q[2]>> \in Led => <<x, r[2]>> \in Led
      BY <3>a, <3>b
    <3>3. \A i \in 1..2 : i = 1 \/ i = 2
      OBVIOUS
    <3> QED
      BY <3>1, <3>2, <3>3
  <2> QED
    BY <2>2, <2>3, <2>4, <2>5, <2>6
<1> QED
  BY <1>5, <1>6

-----------------------------------------------------------------------------
(* Paths of a removal that are taken whole. *)
LEMMA RemovedAtTop ==
    ASSUME NEW b, NEW s, NEW own, NEW k, <<Top, k>> \in Removed(b, s),
           NEW q \in DOMAIN own, q = <<Top, k>> \/ q[1] = k
    PROVE  <<Top, k>> \in SetAside(b, s, own) /\ q \in Taken(own, <<Top, k>>)
<1>1. Taken(own, <<Top, k>>) = {r \in DOMAIN own : r = <<Top, k>> \/ r[1] = k}
  BY DEF Taken
<1>2. <<Top, k>>[1] = Top
  OBVIOUS
<1>3. q \in Taken(own, <<Top, k>>)
  BY <1>1
<1> QED
  BY <1>2, <1>3 DEF SetAside

(* An answer at the top that was on the form and is not any more is set aside, *)
(* or stays by a rename whose key is taken.                                    *)
LEMMA TopStaysOrGoes ==
    ASSUME NEW b \in Documents, NEW s \in Documents, NEW own, DOMAIN own \subseteq Paths,
           \A r \in DOMAIN own : LeafPath(r),
           NEW q \in DOMAIN own, q[1] = Top, q \in PathsOf(b), ~ExcusablePath(b, s, own, q),
           NEW now, Move(s, own, q) \in DOMAIN now
    PROVE  \/ Move(s, own, q) \in PathsOf(s)
           \/ \E r \in SetAside(b, s, now) : Move(s, own, q) \in Taken(now, r)
<1> DEFINE k == q[2]
           t == TopMove(s, own, q)
<1>1. q = <<Top, k>> /\ t = <<Top, TopKey(s, own, k)>> /\ t \in Paths /\ HoldsKey(own, k)
  <2>1. q \in Paths /\ t \in Paths
    BY TopMoveFacts
  <2>2. q = <<Top, k>>
    BY <2>1 DEF Paths
  <2>3. t = <<Top, TopKey(s, own, k)>>
    BY DEF TopMove
  <2>4. HoldsKey(own, k)
    BY <2>2 DEF HoldsKey
  <2> QED
    BY <2>1, <2>2, <2>3, <2>4
<1>2. Move(s, own, q) = t
  <2>1. t[1] = Top
    BY <1>1
  <2> QED
    BY <1>1, <2>1, GroupMoveSteps DEF Move
<1>3. ASSUME NEW f \in TopRenames(s, own), TopKey(s, own, k) = f.key PROVE t \in PathsOf(s)
  BY <1>1, <1>3 DEF TopRenames, PathsOf, PathOf
<1>4. CASE TopKey(s, own, k) = k /\ \A f \in TopRenames(s, own) : f.from # k
  <2>1. t = q
    BY <1>1, <1>4
  <2>2. ASSUME q \notin PathsOf(s) PROVE q \in Removed(b, s)
    <3> SUFFICES ASSUME q \in Matched(b, s) PROVE FALSE
      BY DEF Removed
    <3>1. PICK f \in s.fields : q = IF RenamedBy(b, s, f) THEN SourceOf(s, f) ELSE OwnBefore(s, f)
      BY DEF Matched
    <3>2. ScopeBefore(s, f) = Top => f.in = Top
      <4>1. f.in # Top => \E g \in s.fields : g.key = f.in /\ At(s, f.in) = g /\ g \in AllFields
        BY DocumentFacts, FieldFacts
      <4> QED
        BY <4>1, FieldFacts DEF ScopeBefore
    <3>3. CASE RenamedBy(b, s, f)
      <4>1. f.in = Top /\ f.from = k /\ f.from # NoKey
        BY <1>1, <3>1, <3>2, <3>3 DEF SourceOf, RenamedBy
      <4>2. HoldsKey(own, f.key)
        BY <1>1, <1>4, <4>1 DEF TopRenames
      <4>3. \A r \in DOMAIN own : r[2] # f.key
        BY <4>1, <3>1 DEF ExcusablePath
      <4>4. PICK r \in DOMAIN own : r[1] = f.key
        BY <4>2, <4>3 DEF HoldsKey
      <4>5. f \in AllFields /\ f.key # Top
        BY FieldFacts
      <4>6. f.kind # "leaf"
        BY <4>4, <4>5, FieldFacts DEF LeafPath
      <4>7. f.kind = "leaf"
        BY <4>1, <4>5, FieldFacts DEF LeafPath
      <4> QED
        BY <4>6, <4>7
    <3>4. CASE ~RenamedBy(b, s, f)
      <4>1. f.in = Top /\ f.key = k
        BY <1>1, <3>1, <3>2, <3>4 DEF OwnBefore
      <4> QED
        BY <1>1, <2>2, <4>1 DEF PathsOf, PathOf
    <3> QED
      BY <3>3, <3>4
  <2>3. CASE q \in PathsOf(s)
    BY <1>2, <2>1, <2>3
  <2>4. CASE q \notin PathsOf(s)
    BY <1>1, <1>2, <2>1, <2>2, <2>4, RemovedAtTop
  <2> QED
    BY <2>3, <2>4
<1> QED
  BY <1>2, <1>3, <1>4, TopKeyFacts

(* One in a container likewise, when the container is a group that no document *)
(* says was renamed; the rest is Excusable.                                    *)
LEMMA InnerStaysOrGoes ==
    ASSUME NEW b \in Documents, NEW s \in Documents, NEW own, DOMAIN own \subseteq Paths,
           NEW q \in DOMAIN own, q[1] # Top, q \in PathsOf(b), ~ExcusablePath(b, s, own, q),
           NEW now, Move(s, own, q) \in DOMAIN now
    PROVE  \/ Move(s, own, q) \in PathsOf(s)
           \/ \E r \in SetAside(b, s, now) : Move(s, own, q) \in Taken(now, r)
<1> DEFINE c == q[1]
           k == q[2]
           top == WithTopRenames(s, own)
<1>0. q \in Paths /\ q = <<c, k>> /\ c \in Keys /\ c # NoKey
  <2>1. q \in Paths
    OBVIOUS
  <2> QED
    BY <2>1, DocumentsAssumption DEF Paths
<1>1. PICK g \in b.fields : g.key = c /\ g.kind # "leaf" /\ g.in = Top
  <2>1. PICK f \in b.fields : f.in = c /\ f.key = k
    BY <1>0 DEF PathsOf, PathOf
  <2> QED
    BY <2>1, DocumentFacts
\* The container is a group, and no field says it was renamed.
<1>2. g.kind = "group" /\ \A f \in s.fields \cup b.fields : c \in {f.key, f.from} => f.kind = "group" /\ f.from = NoKey
  <2>1. \A f \in s.fields \cup b.fields : f \in AllFields
    BY FieldFacts
  <2>2. g.kind = "group"
    BY <1>1, <2>1, FieldFacts DEF ExcusablePath
  <2>3. \A f \in s.fields \cup b.fields : c \in {f.key, f.from} => f.kind = g.kind
    BY <1>1, <2>1, FieldFacts
  <2> QED
    BY <2>2, <2>3 DEF ExcusablePath
<1>3. TopMove(s, own, q) = q
  <2>1. \A f \in TopRenames(s, own) : f \in s.fields /\ f.from # NoKey
    BY DEF TopRenames
  <2>2. TopKey(s, own, c) = c
    BY <1>2, <2>1, TopKeyFacts
  <2> QED
    BY <1>0, <2>2 DEF TopMove
<1>4. Move(s, own, q) = GroupMove(s, top, q) /\ q \in DOMAIN top
  BY <1>3, WithTopRenamesFacts DEF Move
<1>5. ASSUME NEW f \in GroupRenames(s, top), GroupMove(s, top, q) = PathOf(f) PROVE PathOf(f) \in PathsOf(s)
  BY DEF GroupRenames, PathsOf
<1>6. CASE GroupMove(s, top, q) = q /\ \A f \in GroupRenames(s, top) : q # <<f.in, f.from>>
  <2>1. ASSUME q \notin PathsOf(s) PROVE q \in Removed(b, s)
    <3> SUFFICES ASSUME q \in Matched(b, s) PROVE FALSE
      BY DEF Removed
    <3>1. PICK f \in s.fields : q = IF RenamedBy(b, s, f) THEN SourceOf(s, f) ELSE OwnBefore(s, f)
      BY DEF Matched
    <3>2. ScopeBefore(s, f) = c
      BY <1>0, <3>1 DEF SourceOf, OwnBefore
    <3>3. f.in # Top
      BY <1>0, <3>2, FieldFacts DEF ScopeBefore
    <3>4. PICK h \in s.fields : h.key = f.in /\ At(s, f.in) = h
      BY <3>3, DocumentFacts
    <3>5. h.from = NoKey /\ h.key = c /\ h.kind = "group"
      <4>1. IF h.from = NoKey THEN h.key = c ELSE h.from = c
        BY <3>2, <3>3, <3>4 DEF ScopeBefore
      <4> QED
        BY <1>2, <4>1
    <3>6. f.in = c /\ At(s, f.in).kind = "group"
      BY <3>4, <3>5
    <3>7. CASE RenamedBy(b, s, f)
      <4>1. f.from = k /\ f.from # NoKey
        BY <1>0, <3>1, <3>7 DEF SourceOf, RenamedBy
      <4>2. q = <<f.in, f.from>>
        BY <1>0, <3>6, <4>1
      <4>3. PathOf(f) \in DOMAIN top
        BY <1>4, <1>6, <3>3, <3>6, <4>1, <4>2 DEF GroupRenames
      <4>4. PICK r \in DOMAIN own : PathOf(f) = TopMove(s, own, r)
        BY <4>3, WithTopRenamesFacts
      <4>5. r[2] = f.key
        BY <3>3, <4>4 DEF TopMove, PathOf
      <4> QED
        BY <4>1, <4>5 DEF ExcusablePath
    <3>8. CASE ~RenamedBy(b, s, f)
      <4>1. f.key = k
        BY <1>0, <3>1, <3>8 DEF OwnBefore
      <4> QED
        BY <1>0, <2>1, <3>6, <4>1 DEF PathsOf, PathOf
    <3> QED
      BY <3>7, <3>8
  <2>2. ASSUME q \in Removed(b, s), q \in DOMAIN now PROVE \E r \in SetAside(b, s, now) : q \in Taken(now, r)
    <3>1. CASE <<Top, c>> \in Removed(b, s)
      BY <2>2, <3>1, RemovedAtTop
    <3>2. CASE <<Top, c>> \notin Removed(b, s)
      <4>1. q \in Taken(now, q)
        BY <2>2 DEF Taken
      <4>2. At(b, c).kind = "group"
        BY <1>1, <1>2, DocumentFacts
      <4> QED
        BY <2>2, <3>2, <4>1, <4>2 DEF SetAside
    <3> QED
      BY <3>1, <3>2
  <2> QED
    BY <1>4, <1>6, <2>1, <2>2
<1> QED
  BY <1>4, <1>5, <1>6, GroupMoveFacts


-----------------------------------------------------------------------------
(* What is set aside is what was not moved. *)
LEMMA TakenFacts ==
    ASSUME NEW b \in Documents, NEW s \in Documents, NEW own
    PROVE  \A r \in SetAside(b, s, own) : r \in Paths /\ Taken(own, r) # {} /\ Taken(own, r) \subseteq DOMAIN own
BY DocumentFacts DEF SetAside, Removed, Taken

(* A migration keeps every answer once, on the form or aside, but for what *)
(* was aside under a path it sets aside again.                             *)
THEOREM MigratedData ==
    ASSUME NEW b \in Documents, NEW s \in Documents, NEW d \in Data, Once(d)
    PROVE  LET m == Migrated(b, s, d)
               now == ApplyRenames(s, d.own)
               gone == SetAside(b, s, now)
           IN /\ m \in Data /\ Once(m)
              /\ \A q \in DOMAIN m.own :
                    q \in DOMAIN now /\ m.own[q] = now[q] /\ \A r \in gone : q \notin Taken(now, r)
              /\ Answers(m) \subseteq Answers(d)
              /\ Answers(d) \ UNION {d.aside[r] : r \in gone \cap DOMAIN d.aside} \subseteq Answers(m)
<1> DEFINE m == Migrated(b, s, d)
           now == ApplyRenames(s, d.own)
           gone == SetAside(b, s, now)
<1>d. /\ d.own \in Partial(Paths, Edits) /\ d.aside \in Partial(Paths, SUBSET Edits)
      /\ DOMAIN d.own \subseteq Paths /\ DOMAIN d.aside \subseteq Paths
      /\ \A q \in DOMAIN d.own : d.own[q] \in Edits
      /\ \A r \in DOMAIN d.aside : d.aside[r] \in SUBSET Edits
  BY PartialFacts DEF Data
<1>n. /\ \A r : r \in DOMAIN now <=> \E q \in DOMAIN d.own : r = Move(s, d.own, q)
      /\ \A q \in DOMAIN d.own : now[Move(s, d.own, q)] = d.own[q] /\ Move(s, d.own, q) \in Paths
  BY <1>d, MoveFacts
<1>g. \A r \in gone : r \in Paths /\ Taken(now, r) # {} /\ Taken(now, r) \subseteq DOMAIN now
  BY TakenFacts
<1>x. m = Migrated(b, s, d) /\ now = ApplyRenames(s, d.own) /\ gone = SetAside(b, s, now)
  OBVIOUS
<1> HIDE DEF m, now, gone
<1>m. /\ m = [own |-> m.own, aside |-> m.aside]
      /\ \A q : q \in DOMAIN m.own <=> q \in DOMAIN now /\ \A r \in gone : q \notin Taken(now, r)
      /\ m.own = [q \in DOMAIN m.own |-> now[q]]
      /\ DOMAIN m.aside = DOMAIN d.aside \cup gone
      /\ m.aside = [r \in DOMAIN m.aside |-> m.aside[r]]
      /\ \A r \in gone : \A e : e \in m.aside[r] <=> \E q \in Taken(now, r) : e = now[q]
      /\ \A r \in DOMAIN d.aside : r \notin gone => m.aside[r] = d.aside[r]
  BY <1>x DEF Migrated
<1>1. /\ \A q \in DOMAIN m.own : q \in DOMAIN now /\ m.own[q] = now[q] /\ \A r \in gone : q \notin Taken(now, r)
      /\ \A q \in DOMAIN now : q \in DOMAIN m.own \/ \E r \in gone : q \in Taken(now, r)
  BY <1>m
<1>2. /\ \A r \in gone : \A e : e \in m.aside[r] <=> \E q \in Taken(now, r) : e = now[q]
      /\ \A r \in DOMAIN d.aside : r \notin gone => m.aside[r] = d.aside[r]
  BY <1>m
\* Renamed answers are the answers, each once.
<1>3. /\ \A q \in DOMAIN now : q \in Paths /\ now[q] \in Edits /\ now[q] \in ValuesOf(d.own)
      /\ \A q \in DOMAIN d.own : \E r \in DOMAIN now : now[r] = d.own[q]
      /\ \A q, r \in DOMAIN now : now[q] = now[r] => q = r
  BY <1>d, <1>n DEF ValuesOf, Once
<1>4. m \in Data
  <2>1. m.own \in Partial(Paths, Edits)
    <3>1. DOMAIN m.own \in SUBSET Paths /\ m.own \in [DOMAIN m.own -> Edits]
      BY <1>1, <1>3, <1>m
    <3> QED
      BY <3>1, PartialFacts
  <2>2. m.aside \in Partial(Paths, SUBSET Edits)
    <3>1. DOMAIN m.aside \in SUBSET Paths
      BY <1>d, <1>g, <1>m
    <3>2. \A r \in DOMAIN m.aside : m.aside[r] \in SUBSET Edits
      BY <1>2, <1>3, <1>d, <1>g, <1>m
    <3>3. m.aside \in [DOMAIN m.aside -> SUBSET Edits]
      BY <1>m, <3>2
    <3> QED
      BY <3>1, <3>3, PartialFacts
  <2> QED
    BY <1>m, <2>1, <2>2 DEF Data
<1>5. Once(m)
  <2>1. \A q, r \in DOMAIN m.own : q # r => m.own[q] # m.own[r]
    BY <1>1, <1>3
  <2>2. ASSUME NEW q \in DOMAIN m.own, NEW r \in DOMAIN m.aside PROVE m.own[q] \notin m.aside[r]
    <3>1. CASE r \in gone
      BY <1>1, <1>2, <1>3, <1>g, <3>1
    <3>2. CASE r \notin gone
      <4>1. r \in DOMAIN d.aside /\ m.aside[r] = d.aside[r]
        BY <1>2, <1>m, <3>2
      <4>2. m.own[q] \in ValuesOf(d.own)
        BY <1>1, <1>3
      <4> QED
        BY <4>1, <4>2 DEF Once, ValuesOf
    <3> QED
      BY <3>1, <3>2
  <2>3. ASSUME NEW r \in DOMAIN m.aside PROVE m.aside[r] # {}
    <3>1. CASE r \in gone
      BY <1>2, <1>g, <3>1
    <3>2. CASE r \notin gone
      BY <1>2, <1>m, <3>2 DEF Once
    <3> QED
      BY <3>1, <3>2
  <2> QED
    BY <2>1, <2>2, <2>3 DEF Once
<1>a. \A x, e : e \in Answers(x) <=> \/ \E q \in DOMAIN x.own : e = x.own[q]
                                     \/ \E r \in DOMAIN x.aside : e \in x.aside[r]
  BY DEF Answers, ValuesOf
<1>6. Answers(m) \subseteq Answers(d)
  <2> SUFFICES ASSUME NEW e \in Answers(m) PROVE e \in Answers(d)
    OBVIOUS
  <2>1. CASE \E q \in DOMAIN m.own : e = m.own[q]
    BY <1>1, <1>3, <1>a, <2>1 DEF ValuesOf
  <2>2. CASE \E r \in DOMAIN m.aside : e \in m.aside[r]
    <3>1. PICK r \in DOMAIN m.aside : e \in m.aside[r]
      BY <2>2
    <3>2. CASE r \in gone
      BY <1>2, <1>3, <1>a, <1>g, <3>1, <3>2 DEF ValuesOf
    <3>3. CASE r \notin gone
      BY <1>2, <1>a, <1>m, <3>1, <3>3
    <3> QED
      BY <3>2, <3>3
  <2> QED
    BY <1>a, <2>1, <2>2
<1>7. ASSUME NEW e \in Answers(d), e \notin UNION {d.aside[r] : r \in gone \cap DOMAIN d.aside} PROVE e \in Answers(m)
  <2>1. CASE \E q \in DOMAIN d.own : e = d.own[q]
    <3>1. PICK q \in DOMAIN now : e = now[q]
      BY <1>3, <2>1
    <3>2. CASE q \in DOMAIN m.own
      BY <1>1, <1>a, <3>1, <3>2
    <3>3. CASE \E r \in gone : q \in Taken(now, r)
      BY <1>2, <1>a, <1>m, <3>1, <3>3
    <3> QED
      BY <1>1, <3>2, <3>3
  <2>2. CASE \E r \in DOMAIN d.aside : e \in d.aside[r]
    BY <1>2, <1>7, <1>a, <1>m, <2>2
  <2> QED
    BY <1>7, <1>a, <2>1, <2>2
<1> QED
  BY <1>1, <1>4, <1>5, <1>6, <1>7 DEF m, now, gone

(* Of an answer that stays on the form: the path it was at is the one it is  *)
(* now at, or one that leads there; and a form that had it there has it      *)
(* still, but for the cases of Excusable.                                    *)
THEOREM MigratedPaths ==
    ASSUME NEW b \in Documents, NEW s \in Documents, NEW d \in Data, Once(d),
           \A r \in DOMAIN d.own : LeafPath(r),
           NEW q \in DOMAIN Migrated(b, s, d).own
    PROVE  \E p \in DOMAIN d.own :
              /\ Migrated(b, s, d).own[q] = d.own[p] /\ LeafPath(q)
              /\ \A x : \A i \in 1..2 : <<x, p[i]>> \in Led => <<x, q[i]>> \in Led
              /\ p \in PathsOf(b) => q \in PathsOf(s) \/ ExcusablePath(b, s, d.own, p)
<1> DEFINE m == Migrated(b, s, d)
           now == ApplyRenames(s, d.own)
<1>1. DOMAIN d.own \subseteq Paths
  BY PartialFacts DEF Data
<1>2. q \in DOMAIN now /\ m.own[q] = now[q] /\ \A r \in SetAside(b, s, now) : q \notin Taken(now, r)
  BY MigratedData
<1>3. PICK p \in DOMAIN d.own : q = Move(s, d.own, p)
  BY <1>1, <1>2, MoveFacts
<1>4. /\ now[q] = d.own[p] /\ LeafPath(q)
      /\ \A x : \A i \in 1..2 : <<x, p[i]>> \in Led => <<x, q[i]>> \in Led
  BY <1>1, <1>3, MoveFacts
<1> HIDE DEF now
<1>5. ASSUME p \in PathsOf(b), ~ExcusablePath(b, s, d.own, p) PROVE q \in PathsOf(s)
  <2>1. CASE p[1] = Top
    BY <1>1, <1>2, <1>3, <1>5, <2>1, TopStaysOrGoes
  <2>2. CASE p[1] # Top
    BY <1>1, <1>2, <1>3, <1>5, <2>2, InnerStaysOrGoes
  <2> QED
    BY <2>1, <2>2
<1> QED
  BY <1>2, <1>4, <1>5


-----------------------------------------------------------------------------
PageStates == [at : {"closed", "ready", "readOnly"}, version : Nat, data : Data, fresh : BOOLEAN]
SaveStates == [pc : {"none", "sent", "bound"}, version : Nat, rendered : Nat, data : Data, mine : BOOLEAN,
               fresh : BOOLEAN]
ResumeStates == [pc : {"none", "asked", "read"}, version : Nat, from : Nat, data : Data, fresh : BOOLEAN]

Types ==
    /\ versions \in Seq(Documents) /\ Current >= 1
    /\ row \in [at : Nat, data : Data]
    /\ page \in [Pages -> PageStates]
    /\ save \in [Pages -> SaveStates]
    /\ resume \in [Pages -> ResumeStates]
    /\ typed \in Seq(Paths) /\ Len(typed) <= MaxEdits
    /\ resumes \in 0..MaxResumes
    /\ excused \subseteq Edits

(* A version anyone holds is one published. *)
VersionInv ==
    /\ row.at <= Current
    /\ \A p \in Pages :
        /\ page[p].version <= Current
        /\ page[p].at # "closed" => page[p].version >= 1
        /\ save[p].version <= Current /\ save[p].rendered <= Current
        /\ save[p].pc = "bound" => save[p].version >= 1
        /\ resume[p].version <= Current /\ resume[p].from <= Current
        /\ resume[p].pc # "none" => resume[p].version >= 1
        /\ resume[p].pc = "read" => resume[p].from >= 1

(* Answers were typed, at a path that leads to where they are. *)
WereTyped(t, d) ==
    /\ \A q \in DOMAIN d.own : /\ LeafPath(q) /\ d.own[q] \in 1..Len(t)
                               /\ \A i \in 1..2 : <<t[d.own[q]][i], q[i]>> \in Led
    /\ \A r \in DOMAIN d.aside : \A e \in d.aside[r] : e \in 1..Len(t)

(* They are on the form of a version, or excused. *)
OnForm(vs, ex, d, v) ==
    \A q \in DOMAIN d.own : d.own[q] \in ex \/ (v \in 1..Len(vs) /\ q \in PathsOf(vs[v]))

Copy(vs, ex, t, d, v) == Once(d) /\ WereTyped(t, d) /\ OnForm(vs, ex, d, v)

(* Whoever holds a copy holds one as good as the row's. *)
CopiesInv ==
    /\ Copy(versions, excused, typed, row.data, row.at)
    /\ \A p \in Pages :
        /\ Copy(versions, excused, typed, page[p].data, page[p].version)
        /\ Copy(versions, excused, typed, save[p].data, save[p].rendered)
        /\ Copy(versions, excused, typed, resume[p].data, resume[p].from)

(* What was read since the last write has all the row has; and a page that *)
(* was not loaded again has what it is saving.                             *)
FreshInv ==
    /\ row.at = 0 => Answers(row.data) = {}
    /\ \A p \in Pages :
        /\ page[p].fresh => Answers(row.data) \subseteq Answers(page[p].data)
        /\ save[p].fresh => Answers(row.data) \subseteq Answers(save[p].data)
        /\ resume[p].fresh => Answers(row.data) \subseteq Answers(resume[p].data)
        /\ save[p].mine => /\ Answers(save[p].data) \subseteq Answers(page[p].data)
                           /\ resume[p].pc = "none" /\ page[p].at # "closed"

IInv == Types /\ VersionInv /\ CopiesInv /\ FreshInv

-----------------------------------------------------------------------------
(* The states of pages, saves and resumes, by their parts. *)
LEMMA StatesFacts ==
    /\ \A x \in PageStates : /\ x.at \in {"closed", "ready", "readOnly"} /\ x.version \in Nat /\ x.data \in Data
                             /\ x.fresh \in BOOLEAN
    /\ \A x \in SaveStates : /\ x.pc \in {"none", "sent", "bound"} /\ x.version \in Nat /\ x.rendered \in Nat
                             /\ x.data \in Data /\ x.mine \in BOOLEAN /\ x.fresh \in BOOLEAN
    /\ \A x \in ResumeStates : /\ x.pc \in {"none", "asked", "read"} /\ x.version \in Nat /\ x.from \in Nat
                               /\ x.data \in Data /\ x.fresh \in BOOLEAN
    /\ \A a \in {"closed", "ready", "readOnly"}, v \in Nat, d \in Data, e \in BOOLEAN :
          [at |-> a, version |-> v, data |-> d, fresh |-> e] \in PageStates
    /\ \A c \in {"none", "sent", "bound"}, v \in Nat, r \in Nat, d \in Data, e \in BOOLEAN, h \in BOOLEAN :
          [pc |-> c, version |-> v, rendered |-> r, data |-> d, mine |-> e, fresh |-> h] \in SaveStates
    /\ \A c \in {"none", "asked", "read"}, v \in Nat, r \in Nat, d \in Data, h \in BOOLEAN :
          [pc |-> c, version |-> v, from |-> r, data |-> d, fresh |-> h] \in ResumeStates
BY DEF PageStates, SaveStates, ResumeStates

(* What no one has typed in holds nothing. *)
LEMMA EmptyFacts ==
    /\ Empty \in Data /\ Answers(Empty) = {}
    /\ \A vs, ex, t, v : Copy(vs, ex, t, Empty, v)
<1>1. <<>> \in [{} -> Edits] /\ <<>> \in [{} -> SUBSET Edits] /\ DOMAIN <<>> = {}
  OBVIOUS
<1>2. <<>> \in Partial(Paths, Edits) /\ <<>> \in Partial(Paths, SUBSET Edits)
  BY <1>1, PartialFacts
<1>3. Empty \in Data /\ DOMAIN Empty.own = {} /\ DOMAIN Empty.aside = {}
  BY <1>1, <1>2 DEF Empty, Data
<1>4. Answers(Empty) = {}
  BY <1>3 DEF Answers, ValuesOf
<1> QED
  BY <1>3, <1>4 DEF Copy, Once, WereTyped, OnForm

(* A copy stays one as versions are published, answers typed and excused. *)
LEMMA CopyStays ==
    ASSUME NEW vs, NEW ex, NEW t, NEW d, NEW v, Copy(vs, ex, t, d, v),
           NEW ws, NEW ey, NEW u, ex \subseteq ey,
           Len(vs) \in Nat, Len(ws) \in Nat, Len(vs) <= Len(ws), \A i \in 1..Len(vs) : ws[i] = vs[i],
           Len(t) \in Nat, Len(u) \in Nat, Len(t) <= Len(u), \A i \in 1..Len(t) : u[i] = t[i]
    PROVE  Copy(ws, ey, u, d, v)
<1>1. WereTyped(u, d)
  <2>1. \A i \in 1..Len(t) : i \in 1..Len(u) /\ u[i] = t[i]
    OBVIOUS
  <2>2. ASSUME NEW q \in DOMAIN d.own
        PROVE  /\ LeafPath(q) /\ d.own[q] \in 1..Len(u)
               /\ \A i \in 1..2 : <<u[d.own[q]][i], q[i]>> \in Led
    <3>1. /\ LeafPath(q) /\ d.own[q] \in 1..Len(t)
          /\ \A i \in 1..2 : <<t[d.own[q]][i], q[i]>> \in Led
      BY DEF Copy, WereTyped
    <3>2. u[d.own[q]] = t[d.own[q]] /\ d.own[q] \in 1..Len(u)
      BY <2>1, <3>1
    <3> QED
      BY <3>1, <3>2
  <2>3. \A r \in DOMAIN d.aside : \A e \in d.aside[r] : e \in 1..Len(u)
    BY <2>1 DEF Copy, WereTyped
  <2> QED
    BY <2>2, <2>3 DEF WereTyped
<1>2. OnForm(ws, ey, d, v)
  BY DEF Copy, OnForm
<1> QED
  BY <1>1, <1>2 DEF Copy

(* The copies are kept when each is one that was there, or is a copy. *)
LEMMA CopiesKept ==
    ASSUME Types, Types', CopiesInv, excused \subseteq excused',
           Len(versions) <= Len(versions'), \A i \in 1..Len(versions) : versions'[i] = versions[i],
           Len(typed) <= Len(typed'), \A i \in 1..Len(typed) : typed'[i] = typed[i],
           \/ Copy(versions', excused', typed', row'.data, row'.at)
           \/ row'.data = row.data /\ row'.at = row.at,
           \A p \in Pages :
              /\ \/ Copy(versions', excused', typed', page'[p].data, page'[p].version)
                 \/ page'[p].data = page[p].data /\ page'[p].version = page[p].version
              /\ \/ Copy(versions', excused', typed', save'[p].data, save'[p].rendered)
                 \/ save'[p].data = save[p].data /\ save'[p].rendered = save[p].rendered
              /\ \/ Copy(versions', excused', typed', resume'[p].data, resume'[p].from)
                 \/ resume'[p].data = resume[p].data /\ resume'[p].from = resume[p].from
    PROVE  CopiesInv'
<1>1. Len(versions) \in Nat /\ Len(versions') \in Nat /\ Len(typed) \in Nat /\ Len(typed') \in Nat
  BY LenProperties DEF Types
<1>2. ASSUME NEW d, NEW v, Copy(versions, excused, typed, d, v) PROVE Copy(versions', excused', typed', d, v)
  BY <1>1, <1>2, CopyStays
<1>3. Copy(versions', excused', typed', row'.data, row'.at)
  BY <1>2 DEF CopiesInv
<1>4. ASSUME NEW p \in Pages
      PROVE  /\ Copy(versions', excused', typed', page'[p].data, page'[p].version)
             /\ Copy(versions', excused', typed', save'[p].data, save'[p].rendered)
             /\ Copy(versions', excused', typed', resume'[p].data, resume'[p].from)
  BY <1>2 DEF CopiesInv
<1> QED
  BY <1>3, <1>4 DEF CopiesInv

(* What most steps leave alone. *)
LEMMA NothingTypedOrPublished ==
    ASSUME Types, UNCHANGED <<versions, typed>>
    PROVE  /\ Len(versions) <= Len(versions') /\ \A i \in 1..Len(versions) : versions'[i] = versions[i]
           /\ Len(typed) <= Len(typed') /\ \A i \in 1..Len(typed) : typed'[i] = typed[i]
           /\ Current' = Current /\ Current \in Nat
BY LenProperties DEF Types, Current

(* A version is published. *)
LEMMA PublishKeeps == ASSUME IInv, Publish PROVE IInv'
<1>1. PICK h \in Histories : /\ Current < Len(h) /\ SubSeq(h, 1, Current) = versions
                             /\ versions' = SubSeq(h, 1, Current + 1)
  BY DEF Publish
<1>2. h \in Seq(Documents) /\ Len(h) \in Nat /\ Current \in Nat /\ Len(versions) = Current
  BY DocumentsAssumption, LenProperties DEF IInv, Types, Current
<1>3. /\ versions' \in Seq(Documents) /\ Len(versions') = Current + 1
      /\ \A i \in 1..(Current + 1) : versions'[i] = h[i]
  BY <1>1, <1>2, SubSeqProperties
<1>4. \A i \in 1..Current : versions[i] = h[i]
  BY <1>1, <1>2, SubSeqProperties
<1>5. UNCHANGED <<row, page, save, resume, typed, resumes, excused>>
  BY DEF Publish
<1>6. Types' /\ Current' = Current + 1
  BY <1>2, <1>3, <1>5 DEF IInv, Types, Current
<1>7. VersionInv'
  <2>1. \A p \in Pages : /\ page[p].version \in Nat /\ save[p].version \in Nat /\ save[p].rendered \in Nat
                         /\ resume[p].version \in Nat /\ resume[p].from \in Nat
    BY StatesFacts DEF IInv, Types
  <2>2. row.at \in Nat
    BY DEF IInv, Types
  <2> QED
    BY <1>2, <1>5, <1>6, <2>1, <2>2 DEF IInv, VersionInv
<1>8. CopiesInv'
  <2>1. Len(versions) <= Len(versions') /\ \A i \in 1..Len(versions) : versions'[i] = versions[i]
    BY <1>2, <1>3, <1>4
  <2>2. Len(typed) <= Len(typed') /\ \A i \in 1..Len(typed) : typed'[i] = typed[i]
    BY <1>5, LenProperties DEF IInv, Types
  <2> QED
    BY <1>5, <1>6, <2>1, <2>2, CopiesKept DEF IInv
<1>9. FreshInv'
  BY <1>5 DEF IInv, FreshInv
<1> QED
  BY <1>6, <1>7, <1>8, <1>9 DEF IInv

(* The first page opens, on an empty draft. *)
LEMMA OpenKeeps == ASSUME IInv, NEW p \in Pages, Open(p) PROVE IInv'
<1> DEFINE new == Shown("ready", Current, Empty)
<1>1. /\ page' = [page EXCEPT ![p] = new] /\ row.at = 0 /\ page[p].at = "closed"
      /\ UNCHANGED <<versions, row, save, resume, typed, resumes, excused>>
  BY DEF Open
<1>2. Current \in Nat /\ Current >= 1 /\ Current' = Current
  BY <1>1, LenProperties DEF IInv, Types, Current
<1>3. Types'
  <2>1. new \in PageStates
    BY <1>2, EmptyFacts, StatesFacts DEF Shown
  <2> QED
    BY <1>1, <1>2, <2>1 DEF IInv, Types
<1>4. page'[p] = new /\ \A q \in Pages : q # p => page'[q] = page[q]
  BY <1>1 DEF IInv, Types
<1>5. VersionInv'
  BY <1>1, <1>2, <1>4 DEF IInv, VersionInv, Shown
<1>6. CopiesInv'
  BY <1>1, <1>3, <1>4, EmptyFacts, NothingTypedOrPublished, CopiesKept DEF IInv, Shown
<1>7. FreshInv'
  BY <1>1, <1>4 DEF IInv, FreshInv, Shown
<1> QED
  BY <1>3, <1>5, <1>6, <1>7 DEF IInv

(* An answer is typed, at a path that was empty. *)
LEMMA TypeKeeps ==
    ASSUME IInv, NEW p \in Pages, NEW f \in AllFields, Type(p, f)
    PROVE  IInv'
<1> DEFINE n == Len(typed) + 1
           d == page[p].data
           own == [q \in DOMAIN d.own \cup {PathOf(f)} |-> IF q = PathOf(f) THEN n ELSE d.own[q]]
           e == [own |-> own, aside |-> d.aside]
           new == [page[p] EXCEPT !.data = e]
<1>1. /\ page[p].at = "ready" /\ resume[p].pc = "none" /\ Len(typed) < MaxEdits
      /\ f \in versions[page[p].version].fields /\ f.kind = "leaf" /\ PathOf(f) \notin DOMAIN d.own
      /\ typed' = Append(typed, PathOf(f))
      /\ UNCHANGED <<versions, row, save, resume, resumes, excused>>
  BY DEF Type
<1>2. /\ page[p] \in PageStates
      /\ d \in Data /\ Once(d) /\ WereTyped(typed, d) /\ OnForm(versions, excused, d, page[p].version)
      /\ page[p].version \in 1..Current /\ Current \in Nat /\ Current = Len(versions)
  BY <1>1, LenProperties, StatesFacts DEF IInv, Types, CopiesInv, Copy, VersionInv, Current
<1>3. page' = [page EXCEPT ![p] = new]
  <2>1. new = [page[p] EXCEPT !.data.own = own]
    BY <1>2 DEF Data, PageStates
  <2>2. page' = [page EXCEPT ![p] = [page[p] EXCEPT !.data.own = own]]
    BY DEF Type
  <2> QED
    BY <2>1, <2>2
<1>4. /\ page'[p] = new /\ \A q \in Pages : q # p => page'[q] = page[q]
      /\ new.at = page[p].at /\ new.version = page[p].version /\ new.fresh = page[p].fresh /\ new.data = e
  BY <1>2, <1>3 DEF IInv, Types, PageStates
<1>5. PathOf(f) \in PathsOf(versions[page[p].version]) /\ PathOf(f) \in Paths /\ LeafPath(PathOf(f))
  <2>1. versions[page[p].version] \in Documents
    BY <1>2, ElementOfSeq DEF IInv, Types
  <2>2. PathOf(f) \in PathsOf(versions[page[p].version]) /\ PathOf(f) \in Paths
    BY <1>1, <2>1, DocumentFacts DEF PathsOf
  <2>3. PathOf(f)[1] = f.in /\ PathOf(f)[2] = f.key
    BY DEF PathOf
  <2>4. f.in = Top \/ \E g \in AllFields : g.key = f.in /\ g.kind # "leaf"
    BY <1>1, <2>1, DocumentFacts, FieldFacts
  <2> QED
    BY <1>1, <2>2, <2>3, <2>4 DEF LeafPath
<1>6. n \in Edits /\ Len(typed) \in Nat /\ typed \in Seq(Paths)
  BY <1>1, LenProperties, DocumentsAssumption DEF IInv, Types, Edits
<1>7. /\ typed' \in Seq(Paths) /\ Len(typed') = n /\ typed'[n] = PathOf(f)
      /\ \A i \in 1..Len(typed) : typed'[i] = typed[i]
  BY <1>1, <1>5, <1>6, AppendProperties
<1>8. DOMAIN own = DOMAIN d.own \cup {PathOf(f)} /\ own[PathOf(f)] = n /\ \A q \in DOMAIN d.own : own[q] = d.own[q]
  BY <1>1
<1>9. e \in Data
  <2>1. d.own \in Partial(Paths, Edits) /\ d.aside \in Partial(Paths, SUBSET Edits)
    BY <1>2 DEF Data
  <2>2. DOMAIN d.own \in SUBSET Paths /\ \A q \in DOMAIN d.own : d.own[q] \in Edits
    BY <2>1, PartialFacts
  <2>3. DOMAIN own \in SUBSET Paths /\ own \in [DOMAIN own -> Edits]
    BY <1>5, <1>6, <2>2
  <2>4. own \in Partial(Paths, Edits)
    BY <2>3, PartialFacts
  <2> QED
    BY <2>1, <2>4 DEF Data
<1>n. n = Len(typed) + 1
  OBVIOUS
<1>a. WereTyped(typed, d)
  BY <1>2
<1> HIDE DEF own, d, n, new
<1>10. Copy(versions, excused, typed', e, page[p].version)
  <2>a. \A q \in DOMAIN d.own : d.own[q] \in 1..Len(typed)
    BY <1>a DEF WereTyped
  <2>1. \A q \in DOMAIN d.own : d.own[q] \in 1..Len(typed) /\ d.own[q] # n
    BY <1>6, <1>n, <2>a
  <2>2. \A r \in DOMAIN d.aside : \A a \in d.aside[r] : a \in 1..Len(typed) /\ a # n
    BY <1>6, <1>a, <1>n DEF WereTyped
  <2>3. Once(e)
    BY <1>2, <1>8, <2>1, <2>2 DEF Once
  <2>4. WereTyped(typed', e)
    <3>1. ASSUME NEW q \in DOMAIN d.own
          PROVE  LeafPath(q) /\ own[q] \in 1..n /\ \A i \in 1..2 : <<typed'[own[q]][i], q[i]>> \in Led
      <4>1. own[q] = d.own[q] /\ typed'[d.own[q]] = typed[d.own[q]] /\ own[q] \in 1..n
        BY <1>6, <1>7, <1>8, <1>n, <2>1
      <4> QED
        BY <1>a, <4>1 DEF WereTyped
    <3>2. \A i \in 1..2 : <<typed'[own[PathOf(f)]][i], PathOf(f)[i]>> \in Led
      <4>1. typed'[own[PathOf(f)]] = PathOf(f)
        BY <1>7, <1>8
      <4>2. \A i \in 1..2 : PathOf(f)[i] \in {Top} \cup Keys
        BY <1>5 DEF Paths
      <4> QED
        BY <4>1, <4>2, LedAssumption
    <3>3. \A r \in DOMAIN e.aside : \A a \in e.aside[r] : a \in 1..n
      BY <1>6, <1>n, <2>2
    <3>4. own[PathOf(f)] \in 1..n
      BY <1>6, <1>8, <1>n
    <3> QED
      BY <1>5, <1>7, <1>8, <3>1, <3>2, <3>3, <3>4 DEF WereTyped
  <2>5. OnForm(versions, excused, e, page[p].version)
    BY <1>2, <1>5, <1>8 DEF OnForm
  <2> QED
    BY <2>3, <2>4, <2>5 DEF Copy
<1>11. Answers(d) \subseteq Answers(e)
  BY <1>8 DEF Answers, ValuesOf
<1>12. new \in PageStates
  BY <1>2, <1>9 DEF new, PageStates
<1> HIDE DEF e
<1>13. Types'
  <2>1. n <= MaxEdits /\ Current' = Current
    BY <1>1, <1>6, DocumentsAssumption DEF Current, Edits
  <2> QED
    BY <1>1, <1>3, <1>7, <1>12, <2>1 DEF IInv, Types
<1>14. VersionInv'
  BY <1>1, <1>4 DEF IInv, VersionInv, Current
<1>15. CopiesInv'
  <2>1. Len(typed) <= Len(typed')
    BY <1>6, <1>7, <1>n
  <2>2. Len(versions) <= Len(versions') /\ \A i \in 1..Len(versions) : versions'[i] = versions[i]
    BY <1>1, <1>2
  <2>3. Copy(versions', excused', typed', page'[p].data, page'[p].version)
    BY <1>1, <1>4, <1>10
  <2> QED
    BY <1>1, <1>4, <1>7, <1>13, <2>1, <2>2, <2>3, CopiesKept DEF IInv
<1>16. FreshInv'
  BY <1>1, <1>4, <1>11 DEF IInv, FreshInv, d
<1> QED
  BY <1>13, <1>14, <1>15, <1>16 DEF IInv

(* A save is sent with what the page shows. *)
LEMMA SaveSentKeeps == ASSUME IInv, NEW p \in Pages, SaveSent(p) PROVE IInv'
<1> DEFINE new == [pc |-> "sent", version |-> 0, rendered |-> page[p].version,
                   data |-> page[p].data, mine |-> TRUE, fresh |-> page[p].fresh]
<1>1. /\ page[p].at = "ready" /\ resume[p].pc = "none"
      /\ save' = [save EXCEPT ![p] = new]
      /\ UNCHANGED <<versions, row, page, resume, typed, resumes, excused>>
  BY DEF SaveSent
<1>2. page[p] \in PageStates /\ Current \in Nat /\ Current' = Current
  BY <1>1, LenProperties DEF IInv, Types, Current
<1>3. /\ new \in SaveStates /\ new.pc = "sent" /\ new.version = 0 /\ new.rendered = page[p].version
      /\ new.data = page[p].data /\ new.mine = TRUE /\ new.fresh = page[p].fresh
  BY <1>2, StatesFacts
<1> HIDE DEF new
<1>4. Types'
  BY <1>1, <1>2, <1>3 DEF IInv, Types
<1>5. save'[p] = new /\ \A q \in Pages : q # p => save'[q] = save[q]
  BY <1>1 DEF IInv, Types
<1>6. VersionInv'
  BY <1>1, <1>2, <1>3, <1>5 DEF IInv, VersionInv
<1>7. CopiesInv'
  <2>1. Copy(versions', excused', typed', save'[p].data, save'[p].rendered)
    BY <1>1, <1>3, <1>5 DEF IInv, CopiesInv
  <2> QED
    BY <1>1, <1>4, <1>5, <2>1, NothingTypedOrPublished, CopiesKept DEF IInv
<1>8. FreshInv'
  <2>1. new.fresh => Answers(row.data) \subseteq Answers(page[p].data)
    BY <1>3 DEF IInv, FreshInv
  <2> QED
    BY <1>1, <1>3, <1>5, <2>1 DEF IInv, FreshInv
<1> QED
  BY <1>4, <1>6, <1>7, <1>8 DEF IInv

(* It reads the version that is current. *)
LEMMA SaveReadsKeeps == ASSUME IInv, NEW p \in Pages, SaveReads(p) PROVE IInv'
<1> DEFINE new == [save[p] EXCEPT !.pc = "bound", !.version = Current]
<1>1. /\ save[p].pc = "sent" /\ save' = [save EXCEPT ![p] = new]
      /\ UNCHANGED <<versions, row, page, resume, typed, resumes, excused>>
  BY DEF SaveReads
<1>2. Current \in Nat /\ Current >= 1 /\ Current' = Current
  BY <1>1, LenProperties DEF IInv, Types, Current
<1>3. /\ new \in SaveStates /\ new.pc = "bound" /\ new.version = Current /\ new.rendered = save[p].rendered
      /\ new.data = save[p].data /\ new.mine = save[p].mine /\ new.fresh = save[p].fresh
  <2>1. save[p] \in SaveStates
    BY DEF IInv, Types
  <2> QED
    BY <1>2, <2>1 DEF SaveStates
<1> HIDE DEF new
<1>4. Types'
  BY <1>1, <1>2, <1>3 DEF IInv, Types
<1>5. save'[p] = new /\ \A q \in Pages : q # p => save'[q] = save[q]
  BY <1>1 DEF IInv, Types
<1>6. VersionInv'
  BY <1>1, <1>2, <1>3, <1>5 DEF IInv, VersionInv
<1>7. CopiesInv'
  BY <1>1, <1>3, <1>4, <1>5, NothingTypedOrPublished, CopiesKept DEF IInv
<1>8. FreshInv'
  BY <1>1, <1>3, <1>5 DEF IInv, FreshInv
<1> QED
  BY <1>4, <1>6, <1>7, <1>8 DEF IInv

(* What Stale changes. *)
LEMMA StaleFacts ==
    ASSUME Types
    PROVE  /\ Stale(page) \in [Pages -> PageStates]
           /\ Stale(save) \in [Pages -> SaveStates]
           /\ Stale(resume) \in [Pages -> ResumeStates]
           /\ \A p \in Pages :
                /\ Stale(page)[p].at = page[p].at /\ Stale(page)[p].version = page[p].version
                /\ Stale(page)[p].data = page[p].data /\ Stale(page)[p].fresh = FALSE
                /\ Stale(save)[p].pc = save[p].pc /\ Stale(save)[p].version = save[p].version
                /\ Stale(save)[p].rendered = save[p].rendered /\ Stale(save)[p].data = save[p].data
                /\ Stale(save)[p].mine = save[p].mine /\ Stale(save)[p].fresh = FALSE
                /\ Stale(resume)[p].pc = resume[p].pc /\ Stale(resume)[p].version = resume[p].version
                /\ Stale(resume)[p].from = resume[p].from /\ Stale(resume)[p].data = resume[p].data
                /\ Stale(resume)[p].fresh = FALSE
<1>1. \A f : Stale(f) = [p \in Pages |-> [f[p] EXCEPT !.fresh = FALSE]]
  BY DEF Stale
<1>2. \A p \in Pages : page[p] \in PageStates /\ save[p] \in SaveStates /\ resume[p] \in ResumeStates
  BY DEF Types
<1>3. ASSUME NEW p \in Pages
      PROVE  /\ Stale(page)[p] \in PageStates
             /\ Stale(page)[p].at = page[p].at /\ Stale(page)[p].version = page[p].version
             /\ Stale(page)[p].data = page[p].data /\ Stale(page)[p].fresh = FALSE
  <2>1. Stale(page)[p] = [page[p] EXCEPT !.fresh = FALSE] /\ page[p] \in PageStates
    BY <1>1, <1>2
  <2> QED
    BY <2>1 DEF PageStates
<1>4. ASSUME NEW p \in Pages
      PROVE  /\ Stale(save)[p] \in SaveStates
             /\ Stale(save)[p].pc = save[p].pc /\ Stale(save)[p].version = save[p].version
             /\ Stale(save)[p].rendered = save[p].rendered /\ Stale(save)[p].data = save[p].data
             /\ Stale(save)[p].mine = save[p].mine /\ Stale(save)[p].fresh = FALSE
  <2>1. Stale(save)[p] = [save[p] EXCEPT !.fresh = FALSE] /\ save[p] \in SaveStates
    BY <1>1, <1>2
  <2> QED
    BY <2>1 DEF SaveStates
<1>5. ASSUME NEW p \in Pages
      PROVE  /\ Stale(resume)[p] \in ResumeStates
             /\ Stale(resume)[p].pc = resume[p].pc /\ Stale(resume)[p].version = resume[p].version
             /\ Stale(resume)[p].from = resume[p].from /\ Stale(resume)[p].data = resume[p].data
             /\ Stale(resume)[p].fresh = FALSE
  <2>1. Stale(resume)[p] = [resume[p] EXCEPT !.fresh = FALSE] /\ resume[p] \in ResumeStates
    BY <1>1, <1>2
  <2> QED
    BY <2>1 DEF ResumeStates
<1>6. /\ Stale(page) \in [Pages -> PageStates] /\ Stale(save) \in [Pages -> SaveStates]
      /\ Stale(resume) \in [Pages -> ResumeStates]
  BY <1>1, <1>3, <1>4, <1>5
<1> QED
  BY <1>3, <1>4, <1>5, <1>6

(* It writes what it was sent with, bound to the version it read. *)
LEMMA SaveWritesKeeps == ASSUME IInv, NEW p \in Pages, SaveWrites(p) PROVE IInv'
<1>1. /\ save[p].pc = "bound" /\ row' = [at |-> save[p].version, data |-> save[p].data]
      /\ page' = [Stale(page) EXCEPT ![p] = [Stale(page)[p] EXCEPT !.fresh = save[p].mine]]
      /\ save' = [Stale(save) EXCEPT ![p] = NoSave] /\ resume' = Stale(resume)
      /\ excused' = IF save[p].version = save[p].rendered THEN excused ELSE excused \cup ValuesOf(save[p].data.own)
      /\ UNCHANGED <<versions, typed, resumes>>
  BY DEF SaveWrites
<1>2. /\ save[p].version \in Nat /\ save[p].data \in Data /\ save[p].mine \in BOOLEAN
      /\ save[p].version >= 1 /\ save[p].version <= Current
      /\ Current \in Nat /\ Current' = Current
  <2>1. save[p] \in SaveStates
    BY DEF IInv, Types
  <2> QED
    BY <1>1, <2>1, StatesFacts, LenProperties DEF IInv, Types, VersionInv, Current
<1>3. /\ NoSave \in SaveStates /\ NoSave.pc = "none" /\ NoSave.version = 0 /\ NoSave.rendered = 0
      /\ NoSave.data = Empty /\ NoSave.mine = FALSE /\ NoSave.fresh = FALSE
  BY EmptyFacts, StatesFacts DEF NoSave
<1>4. excused' \subseteq Edits /\ excused \subseteq excused'
  <2>1. \A q \in DOMAIN save[p].data.own : save[p].data.own[q] \in Edits
    BY <1>2, PartialFacts DEF Data
  <2> QED
    BY <1>1, <2>1 DEF IInv, Types, ValuesOf
<1>5. Types
  BY DEF IInv
<1>6. /\ page'[p] \in PageStates /\ page'[p].at = page[p].at /\ page'[p].version = page[p].version
      /\ page'[p].data = page[p].data /\ page'[p].fresh = save[p].mine
  <2>1. Stale(page)[p] \in PageStates /\ page'[p] = [Stale(page)[p] EXCEPT !.fresh = save[p].mine]
    BY <1>1, <1>5, StaleFacts
  <2>2. /\ page'[p] \in PageStates /\ page'[p].at = Stale(page)[p].at /\ page'[p].version = Stale(page)[p].version
        /\ page'[p].data = Stale(page)[p].data /\ page'[p].fresh = save[p].mine
    BY <1>2, <2>1 DEF PageStates
  <2> QED
    BY <1>5, <2>2, StaleFacts
<1>7. /\ \A q \in Pages : q # p => page'[q] = Stale(page)[q]
      /\ page' = [page' EXCEPT ![p] = page'[p]] /\ page' \in [Pages -> PageStates]
  BY <1>1, <1>5, <1>6, StaleFacts
<1>8. /\ save'[p] = NoSave /\ \A q \in Pages : q # p => save'[q] = Stale(save)[q]
      /\ save' \in [Pages -> SaveStates]
  BY <1>1, <1>3, <1>5, StaleFacts
<1>9. row' \in [at : Nat, data : Data] /\ row'.at = save[p].version /\ row'.data = save[p].data
  BY <1>1, <1>2
<1>10. Types'
  BY <1>1, <1>2, <1>4, <1>5, <1>7, <1>8, <1>9, StaleFacts DEF Types
<1>s. \A q \in Pages :
        /\ page'[q].at = page[q].at /\ page'[q].version = page[q].version /\ page'[q].data = page[q].data
        /\ q # p => page'[q].fresh = FALSE
        /\ q # p => /\ save'[q].pc = save[q].pc /\ save'[q].version = save[q].version
                    /\ save'[q].rendered = save[q].rendered /\ save'[q].data = save[q].data
                    /\ save'[q].mine = save[q].mine /\ save'[q].fresh = FALSE
        /\ resume'[q].pc = resume[q].pc /\ resume'[q].version = resume[q].version
        /\ resume'[q].from = resume[q].from /\ resume'[q].fresh = FALSE
  BY <1>1, <1>5, <1>6, <1>7, <1>8, StaleFacts
<1>11. VersionInv'
  BY <1>2, <1>3, <1>8, <1>9, <1>s DEF IInv, VersionInv
<1>12. Copy(versions', excused', typed', row'.data, row'.at)
  <2>1. Copy(versions, excused, typed, save[p].data, save[p].rendered)
    BY DEF IInv, CopiesInv
  <2>2. OnForm(versions, excused', save[p].data, save[p].version)
    <3>1. CASE save[p].version = save[p].rendered
      BY <1>1, <2>1, <3>1 DEF Copy
    <3>2. CASE save[p].version # save[p].rendered
      BY <1>1, <3>2 DEF OnForm, ValuesOf
    <3> QED
      BY <3>1, <3>2
  <2> QED
    BY <1>1, <1>9, <2>1, <2>2 DEF Copy
<1>13. CopiesInv'
  <2>1. Copy(versions', excused', typed', save'[p].data, save'[p].rendered)
    BY <1>3, <1>8, EmptyFacts
  <2> QED
    BY <1>1, <1>4, <1>5, <1>6, <1>7, <1>8, <1>10, <1>12, <2>1, StaleFacts, NothingTypedOrPublished, CopiesKept
    DEF IInv
<1>14. FreshInv'
  <2>1. save[p].mine => Answers(row'.data) \subseteq Answers(page[p].data)
    BY <1>9 DEF IInv, FreshInv
  <2>2. row'.at # 0
    BY <1>2, <1>9
  <2> SUFFICES ASSUME NEW q \in Pages
               PROVE  /\ page'[q].fresh => Answers(row'.data) \subseteq Answers(page'[q].data)
                      /\ save'[q].fresh => Answers(row'.data) \subseteq Answers(save'[q].data)
                      /\ resume'[q].fresh => Answers(row'.data) \subseteq Answers(resume'[q].data)
                      /\ save'[q].mine => /\ Answers(save'[q].data) \subseteq Answers(page'[q].data)
                                          /\ resume'[q].pc = "none" /\ page'[q].at # "closed"
    BY <2>2 DEF FreshInv
  <2>3. ~resume'[q].fresh
    BY <1>s
  <2>4. CASE q = p
    <3>1. ~save'[q].fresh /\ ~save'[q].mine
      BY <1>3, <1>8, <2>4
    <3>2. page'[q].fresh => Answers(row'.data) \subseteq Answers(page'[q].data)
      BY <1>6, <2>1, <2>4
    <3> QED
      BY <2>3, <3>1, <3>2
  <2>5. CASE q # p
    <3>1. ~save'[q].fresh /\ ~page'[q].fresh
      BY <1>s, <2>5
    <3>2. save'[q].mine => /\ Answers(save'[q].data) \subseteq Answers(page'[q].data)
                           /\ resume'[q].pc = "none" /\ page'[q].at # "closed"
      <4>1. save[q].mine => /\ Answers(save[q].data) \subseteq Answers(page[q].data)
                            /\ resume[q].pc = "none" /\ page[q].at # "closed"
        BY DEF IInv, FreshInv
      <4> QED
        BY <1>s, <2>5, <4>1
    <3> QED
      BY <2>3, <3>1, <3>2
  <2> QED
    BY <2>4, <2>5
<1> QED
  BY <1>10, <1>11, <1>13, <1>14 DEF IInv

(* A page is loaded again, and has nothing until it gets the draft. *)
LEMMA ResumeReadsKeeps == ASSUME IInv, NEW p \in Pages, ResumeReads(p) PROVE IInv'
<1> DEFINE new == [pc |-> "asked", version |-> Current, from |-> 0, data |-> Empty, fresh |-> FALSE]
           kept == [save[p] EXCEPT !.mine = FALSE]
<1>1. /\ resume' = [resume EXCEPT ![p] = new] /\ page' = [page EXCEPT ![p] = Closed]
      /\ save' = [save EXCEPT ![p] = kept] /\ resumes < MaxResumes /\ resumes' = resumes + 1
      /\ UNCHANGED <<versions, row, typed, excused>>
  BY DEF ResumeReads
<1>2. Current \in Nat /\ Current >= 1 /\ Current' = Current
  BY <1>1, LenProperties DEF IInv, Types, Current
<1>3. /\ Closed \in PageStates /\ Closed.at = "closed" /\ Closed.version = 0 /\ Closed.data = Empty
      /\ Closed.fresh = FALSE
  BY EmptyFacts, StatesFacts DEF Closed
<1>4. /\ new \in ResumeStates /\ new.pc = "asked" /\ new.version = Current /\ new.from = 0 /\ new.data = Empty
      /\ new.fresh = FALSE
  BY <1>2, EmptyFacts, StatesFacts
<1>5. /\ kept \in SaveStates /\ kept.pc = save[p].pc /\ kept.version = save[p].version
      /\ kept.rendered = save[p].rendered /\ kept.data = save[p].data /\ kept.fresh = save[p].fresh
      /\ kept.mine = FALSE
  <2>1. save[p] \in SaveStates
    BY DEF IInv, Types
  <2> QED
    BY <2>1 DEF SaveStates
<1> HIDE DEF new, kept
<1>6. Types'
  <2>1. resumes' \in 0..MaxResumes
    BY <1>1, DocumentsAssumption DEF IInv, Types
  <2> QED
    BY <1>1, <1>2, <1>3, <1>4, <1>5, <2>1 DEF IInv, Types
<1>7. /\ page'[p] = Closed /\ resume'[p] = new /\ save'[p] = kept
      /\ \A q \in Pages : q # p => page'[q] = page[q] /\ resume'[q] = resume[q] /\ save'[q] = save[q]
  BY <1>1 DEF IInv, Types
<1>8. VersionInv'
  BY <1>1, <1>2, <1>3, <1>4, <1>5, <1>7 DEF IInv, VersionInv
<1>9. CopiesInv'
  <2>1. /\ Copy(versions', excused', typed', page'[p].data, page'[p].version)
        /\ Copy(versions', excused', typed', resume'[p].data, resume'[p].from)
    BY <1>3, <1>4, <1>7, EmptyFacts
  <2> QED
    BY <1>1, <1>5, <1>6, <1>7, <2>1, NothingTypedOrPublished, CopiesKept DEF IInv
<1>10. FreshInv'
  <2> SUFFICES ASSUME NEW q \in Pages
               PROVE  /\ page'[q].fresh => Answers(row.data) \subseteq Answers(page'[q].data)
                      /\ save'[q].fresh => Answers(row.data) \subseteq Answers(save'[q].data)
                      /\ resume'[q].fresh => Answers(row.data) \subseteq Answers(resume'[q].data)
                      /\ save'[q].mine => /\ Answers(save'[q].data) \subseteq Answers(page'[q].data)
                                          /\ resume'[q].pc = "none" /\ page'[q].at # "closed"
    BY <1>1 DEF IInv, FreshInv
  <2>1. CASE q = p
    BY <1>3, <1>4, <1>5, <1>7, <2>1 DEF IInv, FreshInv
  <2>2. CASE q # p
    BY <1>7, <2>2 DEF IInv, FreshInv
  <2> QED
    BY <2>1, <2>2
<1> QED
  BY <1>6, <1>8, <1>9, <1>10 DEF IInv

(* It gets the draft: it has none to show, shows it, or is to migrate it. *)
LEMMA ResumeGetsKeeps == ASSUME IInv, NEW p \in Pages, ResumeGets(p) PROVE IInv'
<1> DEFINE v == resume[p].version
           shown == {Shown("ready", row.at, row.data), Shown("readOnly", row.at, row.data)}
           read == [pc |-> "read", version |-> v, from |-> row.at, data |-> row.data, fresh |-> TRUE]
<1>1. /\ resume[p].pc = "asked" /\ UNCHANGED <<versions, row, save, typed, resumes, excused>>
      /\ \/ page' = page /\ resume' = [resume EXCEPT ![p] = NoResume]
         \/ /\ row.at # 0 /\ \E x \in shown : page' = [page EXCEPT ![p] = x]
            /\ resume' = [resume EXCEPT ![p] = NoResume]
         \/ row.at # 0 /\ page' = page /\ resume' = [resume EXCEPT ![p] = read]
  BY DEF ResumeGets
<1>2. /\ v \in Nat /\ 1 <= v /\ v <= Current /\ row.at \in Nat /\ row.at <= Current /\ row.data \in Data
      /\ Current \in Nat /\ Current' = Current
  <2>1. resume[p] \in ResumeStates
    BY DEF IInv, Types
  <2> QED
    BY <1>1, <2>1, StatesFacts, LenProperties DEF IInv, Types, VersionInv, Current
<1>3. /\ NoResume \in ResumeStates /\ NoResume.pc = "none" /\ NoResume.version = 0 /\ NoResume.from = 0
      /\ NoResume.data = Empty /\ NoResume.fresh = FALSE
  BY EmptyFacts, StatesFacts DEF NoResume
<1>4. /\ read \in ResumeStates /\ read.pc = "read" /\ read.version = v /\ read.from = row.at
      /\ read.data = row.data /\ read.fresh = TRUE
  BY <1>2, StatesFacts
<1>5. \A x \in shown : /\ x \in PageStates /\ x.version = row.at /\ x.data = row.data /\ x.fresh = TRUE
                       /\ x.at # "closed"
  <2>1. ASSUME NEW a \in {"ready", "readOnly"}
        PROVE  /\ Shown(a, row.at, row.data) \in PageStates /\ Shown(a, row.at, row.data).version = row.at
               /\ Shown(a, row.at, row.data).data = row.data /\ Shown(a, row.at, row.data).fresh = TRUE
               /\ Shown(a, row.at, row.data).at # "closed"
    BY <1>2 DEF Shown, PageStates
  <2> QED
    BY <2>1
<1> HIDE DEF v, shown, read
<1>6. /\ \A q \in Pages : q # p => page'[q] = page[q] /\ resume'[q] = resume[q]
      /\ page'[p] = page[p] \/ (row.at # 0 /\ page'[p] \in shown)
      /\ resume'[p] = NoResume \/ (row.at # 0 /\ resume'[p] = read)
  BY <1>1 DEF IInv, Types
<1>7. Types'
  BY <1>1, <1>2, <1>3, <1>4, <1>5 DEF IInv, Types
<1>8. VersionInv'
  BY <1>1, <1>2, <1>3, <1>4, <1>5, <1>6 DEF IInv, VersionInv
<1>9. CopiesInv'
  <2>1. Copy(versions', excused', typed', row'.data, row'.at)
    BY <1>1 DEF IInv, CopiesInv
  <2>2. \/ Copy(versions', excused', typed', page'[p].data, page'[p].version)
        \/ page'[p] = page[p]
    BY <1>1, <1>5, <1>6, <2>1
  <2>3. Copy(versions', excused', typed', resume'[p].data, resume'[p].from)
    BY <1>1, <1>3, <1>4, <1>6, <2>1, EmptyFacts
  <2> QED
    BY <1>1, <1>6, <1>7, <2>2, <2>3, NothingTypedOrPublished, CopiesKept DEF IInv
<1>10. FreshInv'
  <2>1. ~save[p].mine
    BY <1>1 DEF IInv, FreshInv
  <2> QED
    BY <1>1, <1>3, <1>4, <1>5, <1>6, <2>1 DEF IInv, FreshInv
<1> QED
  BY <1>7, <1>8, <1>9, <1>10 DEF IInv

(* What is migrated is as good a copy of the version it is migrated to, once *)
(* what Excusable allows is excused.                                         *)
LEMMA ReboundIsCopy ==
    ASSUME IInv, NEW p \in Pages, resume[p].pc = "read"
    PROVE  /\ Rebound(p) \in Data
           /\ Copy(versions, excused \cup Excusable(p), typed, Rebound(p), resume[p].version)
           /\ Excusable(p) \subseteq Edits
<1> DEFINE d == resume[p].data
           m == Rebound(p)
           b == Before(p)
           s == After(p)
<1>1. /\ d \in Data /\ resume[p].from \in 1..Len(versions) /\ resume[p].version \in 1..Len(versions)
      /\ Len(versions) \in Nat
  <2>1. resume[p] \in ResumeStates
    BY DEF IInv, Types
  <2> QED
    BY <2>1, StatesFacts, LenProperties DEF IInv, Types, VersionInv, Current
<1>2. /\ b \in Documents /\ s \in Documents /\ b = versions[resume[p].from] /\ s = versions[resume[p].version]
      /\ m = Migrated(b, s, d)
  BY <1>1, ElementOfSeq DEF IInv, Types, Before, After, Rebound
<1>3. Once(d) /\ WereTyped(typed, d) /\ OnForm(versions, excused, d, resume[p].from)
  BY DEF IInv, CopiesInv, Copy
<1>4. DOMAIN d.own \subseteq Paths /\ \A q \in DOMAIN d.own : d.own[q] \in Edits /\ LeafPath(q)
  <2>1. d.own \in Partial(Paths, Edits)
    BY <1>1 DEF Data
  <2>2. DOMAIN d.own \subseteq Paths /\ \A q \in DOMAIN d.own : d.own[q] \in Edits
    BY <2>1, PartialFacts
  <2> QED
    BY <1>3, <2>2 DEF WereTyped
<1>e. \A q \in DOMAIN d.own : ExcusablePath(b, s, d.own, q) => d.own[q] \in Excusable(p)
  BY DEF Excusable, ExcusablePath
<1>f. Excusable(p) \subseteq Edits
  BY <1>4 DEF Excusable
<1> HIDE DEF d, m, b, s
<1>5. m \in Data /\ Once(m) /\ Answers(m) \subseteq Answers(d)
  BY <1>1, <1>2, <1>3, MigratedData
<1>6. ASSUME NEW q \in DOMAIN m.own
      PROVE  /\ LeafPath(q) /\ m.own[q] \in 1..Len(typed)
             /\ \A i \in 1..2 : <<typed[m.own[q]][i], q[i]>> \in Led
             /\ m.own[q] \in excused \cup Excusable(p) \/ q \in PathsOf(s)
  <2>1. PICK r \in DOMAIN d.own :
           /\ m.own[q] = d.own[r] /\ LeafPath(q)
           /\ \A x : \A i \in 1..2 : <<x, r[i]>> \in Led => <<x, q[i]>> \in Led
           /\ r \in PathsOf(b) => q \in PathsOf(s) \/ ExcusablePath(b, s, d.own, r)
    BY <1>1, <1>2, <1>3, <1>4, MigratedPaths
  <2>2. d.own[r] \in 1..Len(typed) /\ \A i \in 1..2 : <<typed[d.own[r]][i], r[i]>> \in Led
    BY <1>3 DEF WereTyped
  <2>3. \A i \in 1..2 : <<typed[m.own[q]][i], q[i]>> \in Led
    BY <2>1, <2>2
  <2>4. d.own[r] \in excused \/ r \in PathsOf(b)
    BY <1>2, <1>3 DEF OnForm
  <2> QED
    BY <1>e, <2>1, <2>2, <2>3, <2>4
<1>7. \A r \in DOMAIN m.aside : \A e \in m.aside[r] : e \in 1..Len(typed)
  <2>1. \A x, e : e \in Answers(x) <=> \/ \E q \in DOMAIN x.own : e = x.own[q]
                                       \/ \E r \in DOMAIN x.aside : e \in x.aside[r]
    BY DEF Answers, ValuesOf
  <2>2. \A e \in Answers(d) : e \in 1..Len(typed)
    BY <1>3, <2>1 DEF WereTyped
  <2> QED
    BY <1>5, <2>1, <2>2
<1>8. WereTyped(typed, m)
  BY <1>6, <1>7 DEF WereTyped
<1>9. OnForm(versions, excused \cup Excusable(p), m, resume[p].version)
  BY <1>1, <1>2, <1>6 DEF OnForm
<1> QED
  BY <1>5, <1>8, <1>9, <1>f DEF Copy, m

(* What was migrated is written over what is there by now. *)
LEMMA ResumeWritesKeeps == ASSUME IInv, NEW p \in Pages, ResumeWrites(p) PROVE IInv'
<1> DEFINE v == resume[p].version
           m == Rebound(p)
           new == Shown("ready", v, m)
<1>1. /\ resume[p].pc = "read" /\ row' = [at |-> v, data |-> m]
      /\ page' = [Stale(page) EXCEPT ![p] = new] /\ save' = Stale(save)
      /\ resume' = [Stale(resume) EXCEPT ![p] = NoResume] /\ excused' = excused \cup Excusable(p)
      /\ UNCHANGED <<versions, typed, resumes>>
  BY DEF ResumeWrites
<1>2. v \in Nat /\ 1 <= v /\ v <= Current /\ Current \in Nat /\ Current' = Current
  <2>1. resume[p] \in ResumeStates
    BY DEF IInv, Types
  <2> QED
    BY <1>1, <2>1, StatesFacts, LenProperties DEF IInv, Types, VersionInv, Current
<1>3. /\ NoResume \in ResumeStates /\ NoResume.pc = "none" /\ NoResume.version = 0 /\ NoResume.from = 0
      /\ NoResume.data = Empty /\ NoResume.fresh = FALSE
  BY EmptyFacts, StatesFacts DEF NoResume
<1>4. m \in Data /\ Copy(versions', excused', typed', m, v) /\ excused' \subseteq Edits /\ excused \subseteq excused'
  BY <1>1, ReboundIsCopy DEF IInv, Types
<1> HIDE DEF v, m
<1>5. new \in PageStates /\ new.at = "ready" /\ new.version = v /\ new.data = m /\ new.fresh = TRUE
  BY <1>2, <1>4 DEF Shown, PageStates
<1> HIDE DEF new
<1>6. row' \in [at : Nat, data : Data] /\ row'.at = v /\ row'.data = m
  BY <1>1, <1>2, <1>4
<1>7. Types
  BY DEF IInv
<1>8. /\ page'[p] = new /\ resume'[p] = NoResume
      /\ page' \in [Pages -> PageStates] /\ save' \in [Pages -> SaveStates] /\ resume' \in [Pages -> ResumeStates]
      /\ \A q \in Pages : /\ q # p => page'[q] = Stale(page)[q] /\ resume'[q] = Stale(resume)[q]
                          /\ save'[q] = Stale(save)[q]
  BY <1>1, <1>3, <1>5, <1>7, StaleFacts
<1>9. Types'
  BY <1>1, <1>2, <1>4, <1>6, <1>7, <1>8 DEF Types
<1>s. \A q \in Pages :
        /\ q # p => /\ page'[q].at = page[q].at /\ page'[q].version = page[q].version
                    /\ page'[q].data = page[q].data /\ page'[q].fresh = FALSE
                    /\ resume'[q].pc = resume[q].pc /\ resume'[q].version = resume[q].version
                    /\ resume'[q].from = resume[q].from /\ resume'[q].data = resume[q].data
                    /\ resume'[q].fresh = FALSE
        /\ save'[q].pc = save[q].pc /\ save'[q].version = save[q].version
        /\ save'[q].rendered = save[q].rendered /\ save'[q].data = save[q].data
        /\ save'[q].mine = save[q].mine /\ save'[q].fresh = FALSE
  <2> SUFFICES ASSUME NEW q \in Pages
               PROVE  /\ q # p => /\ page'[q].at = page[q].at /\ page'[q].version = page[q].version
                                  /\ page'[q].data = page[q].data /\ page'[q].fresh = FALSE
                                  /\ resume'[q].pc = resume[q].pc /\ resume'[q].version = resume[q].version
                                  /\ resume'[q].from = resume[q].from /\ resume'[q].data = resume[q].data
                                  /\ resume'[q].fresh = FALSE
                      /\ save'[q].pc = save[q].pc /\ save'[q].version = save[q].version
                      /\ save'[q].rendered = save[q].rendered /\ save'[q].data = save[q].data
                      /\ save'[q].mine = save[q].mine /\ save'[q].fresh = FALSE
    OBVIOUS
  <2>1. save'[q] = Stale(save)[q] /\ (q # p => page'[q] = Stale(page)[q] /\ resume'[q] = Stale(resume)[q])
    BY <1>8
  <2>2. /\ Stale(page)[q].at = page[q].at /\ Stale(page)[q].version = page[q].version
        /\ Stale(page)[q].data = page[q].data /\ Stale(page)[q].fresh = FALSE
        /\ Stale(resume)[q].pc = resume[q].pc /\ Stale(resume)[q].version = resume[q].version
        /\ Stale(resume)[q].from = resume[q].from /\ Stale(resume)[q].data = resume[q].data
        /\ Stale(resume)[q].fresh = FALSE
    BY <1>7, StaleFacts
  <2>3. /\ Stale(save)[q].pc = save[q].pc /\ Stale(save)[q].version = save[q].version
        /\ Stale(save)[q].rendered = save[q].rendered /\ Stale(save)[q].data = save[q].data
        /\ Stale(save)[q].mine = save[q].mine /\ Stale(save)[q].fresh = FALSE
    BY <1>7, StaleFacts
  <2> QED
    BY <2>1, <2>2, <2>3
<1>10. VersionInv'
  BY <1>2, <1>3, <1>5, <1>6, <1>8, <1>s DEF IInv, VersionInv
<1>11. CopiesInv'
  <2>1. /\ Copy(versions', excused', typed', row'.data, row'.at)
        /\ Copy(versions', excused', typed', page'[p].data, page'[p].version)
        /\ Copy(versions', excused', typed', resume'[p].data, resume'[p].from)
    BY <1>3, <1>4, <1>5, <1>6, <1>8, EmptyFacts
  <2> QED
    BY <1>1, <1>4, <1>7, <1>9, <1>s, <2>1, NothingTypedOrPublished, CopiesKept DEF IInv
<1>12. FreshInv'
  <2>1. row'.at # 0
    BY <1>2, <1>6
  <2> SUFFICES ASSUME NEW q \in Pages
               PROVE  /\ page'[q].fresh => Answers(row'.data) \subseteq Answers(page'[q].data)
                      /\ save'[q].fresh => Answers(row'.data) \subseteq Answers(save'[q].data)
                      /\ resume'[q].fresh => Answers(row'.data) \subseteq Answers(resume'[q].data)
                      /\ save'[q].mine => /\ Answers(save'[q].data) \subseteq Answers(page'[q].data)
                                          /\ resume'[q].pc = "none" /\ page'[q].at # "closed"
    BY <2>1 DEF FreshInv
  <2>2. CASE q = p
    <3>1. ~save[q].mine
      BY <1>1, <2>2 DEF IInv, FreshInv
    <3>2. ~save'[q].mine /\ ~save'[q].fresh /\ ~resume'[q].fresh
      BY <1>3, <1>8, <1>s, <2>2, <3>1
    <3> QED
      BY <1>5, <1>6, <1>8, <2>2, <3>2
  <2>3. CASE q # p
    <3>1. ~save'[q].fresh /\ ~page'[q].fresh /\ ~resume'[q].fresh
      BY <1>s, <2>3
    <3>2. save'[q].mine => /\ Answers(save'[q].data) \subseteq Answers(page'[q].data)
                           /\ resume'[q].pc = "none" /\ page'[q].at # "closed"
      <4>1. save[q].mine => /\ Answers(save[q].data) \subseteq Answers(page[q].data)
                            /\ resume[q].pc = "none" /\ page[q].at # "closed"
        BY DEF IInv, FreshInv
      <4> QED
        BY <1>s, <2>3, <4>1
    <3> QED
      BY <3>1, <3>2
  <2> QED
    BY <2>2, <2>3
<1> QED
  BY <1>9, <1>10, <1>11, <1>12 DEF IInv

(* A draft begins with nothing typed. *)
LEMMA InitHolds == Init => IInv
<1> SUFFICES ASSUME Init PROVE IInv
  OBVIOUS
<1>1. PICK h \in Histories : versions = <<h[1]>>
  BY DEF Init
<1>2. h[1] \in Documents
  BY DocumentsAssumption, ElementOfSeq, EmptySeq
<1>3. versions \in Seq(Documents) /\ Current = 1
  BY <1>1, <1>2 DEF Current
<1>4. /\ Closed \in PageStates /\ NoSave \in SaveStates /\ NoResume \in ResumeStates
      /\ Closed.at = "closed" /\ Closed.version = 0 /\ Closed.data = Empty /\ Closed.fresh = FALSE
      /\ NoSave.pc = "none" /\ NoSave.version = 0 /\ NoSave.rendered = 0 /\ NoSave.data = Empty
      /\ NoSave.mine = FALSE /\ NoSave.fresh = FALSE
      /\ NoResume.pc = "none" /\ NoResume.version = 0 /\ NoResume.from = 0 /\ NoResume.data = Empty
      /\ NoResume.fresh = FALSE
  BY EmptyFacts, StatesFacts DEF Closed, NoSave, NoResume
<1>5. /\ row = [at |-> 0, data |-> Empty] /\ page = [p \in Pages |-> Closed]
      /\ save = [p \in Pages |-> NoSave] /\ resume = [p \in Pages |-> NoResume]
      /\ typed = <<>> /\ resumes = 0 /\ excused = {}
  BY DEF Init
<1>6. Types
  <2>1. row \in [at : Nat, data : Data]
    BY <1>5, EmptyFacts
  <2>2. typed \in Seq(Paths) /\ Len(typed) <= MaxEdits /\ resumes \in 0..MaxResumes
    BY <1>5, DocumentsAssumption
  <2> QED
    BY <1>3, <1>4, <1>5, <2>1, <2>2 DEF Types
<1>7. VersionInv
  BY <1>3, <1>4, <1>5 DEF VersionInv
<1>8. CopiesInv
  BY <1>4, <1>5, EmptyFacts DEF CopiesInv
<1>9. FreshInv
  BY <1>4, <1>5, EmptyFacts DEF FreshInv
<1> QED
  BY <1>6, <1>7, <1>8, <1>9 DEF IInv

(* Every step keeps the invariant. *)
LEMMA NextKeeps == IInv /\ [Next]_vars => IInv'
<1> SUFFICES ASSUME IInv, [Next]_vars PROVE IInv'
  OBVIOUS
<1>1. CASE Publish
  BY <1>1, PublishKeeps
<1>2. ASSUME NEW p \in Pages, PageStep(p) PROVE IInv'
  <2>1. ASSUME NEW f \in AllFields, Type(p, f) PROVE IInv'
    BY <2>1, TypeKeeps
  <2> QED
    BY <1>2, <2>1, OpenKeeps, SaveSentKeeps, SaveReadsKeeps, SaveWritesKeeps, ResumeReadsKeeps, ResumeGetsKeeps,
       ResumeWritesKeeps DEF PageStep
<1>3. CASE UNCHANGED vars
  <2>1. Types' /\ VersionInv'
    BY <1>3 DEF vars, IInv, Types, VersionInv, Current
  <2>2. CopiesInv' /\ FreshInv'
    BY <1>3 DEF vars, IInv, CopiesInv, FreshInv
  <2> QED
    BY <2>1, <2>2 DEF IInv
<1> QED
  BY <1>1, <1>2, <1>3 DEF Next

(* The invariant holds of every state. *)
LEMMA Invariance == Spec => []IInv
BY InitHolds, NextKeeps, PTL DEF Spec

-----------------------------------------------------------------------------
(* Data whose parts have their types and that holds each answer once. *)
LEMMA DataIsData ==
    ASSUME NEW d \in Data, Once(d)
    PROVE  IsData(d)
<1>1. /\ DOMAIN d.own \subseteq Paths /\ \A q \in DOMAIN d.own : d.own[q] \in Edits
      /\ DOMAIN d.aside \subseteq Paths /\ \A r \in DOMAIN d.aside : d.aside[r] \in SUBSET Edits
  BY PartialFacts DEF Data
<1>2. ValuesOf(d.own) \subseteq Edits
  BY <1>1 DEF ValuesOf
<1>3. \A r \in DOMAIN d.aside : d.aside[r] \in (SUBSET Edits) \ {{}}
  BY <1>1 DEF Once
<1>4. ValuesOf(d.own) \cap UNION ValuesOf(d.aside) = {}
  BY DEF Once, ValuesOf
<1> QED
  BY <1>1, <1>2, <1>3, <1>4 DEF IsData, Once

(* Whatever is published, typed, saved and resumed in whatever order, every   *)
(* copy of a draft holds each answer once, in place or aside, and every       *)
(* version anyone holds is one that was published.                            *)
THEOREM TypeCorrect == Spec => []TypeOK
<1>1. IInv => TypeOK
  <2> SUFFICES ASSUME IInv PROVE TypeOK
    OBVIOUS
  <2>1. /\ Current \in Nat /\ row.at \in Nat /\ row.data \in Data /\ row.at <= Current
        /\ Once(row.data)
    BY LenProperties DEF IInv, Types, VersionInv, CopiesInv, Copy, Current
  <2>2. ASSUME NEW p \in Pages
        PROVE  /\ page[p].at \in {"closed", "ready", "readOnly"} /\ page[p].version \in 0..Current
               /\ IsData(page[p].data)
               /\ save[p].pc \in {"none", "sent", "bound"} /\ save[p].version \in 0..Current /\ IsData(save[p].data)
               /\ resume[p].pc \in {"none", "asked", "read"} /\ resume[p].version \in 0..Current
               /\ IsData(resume[p].data)
    <3>1. page[p] \in PageStates /\ save[p] \in SaveStates /\ resume[p] \in ResumeStates
      BY DEF IInv, Types
    <3>2. Once(page[p].data) /\ Once(save[p].data) /\ Once(resume[p].data)
      BY DEF IInv, CopiesInv, Copy
    <3>3. IsData(page[p].data) /\ IsData(save[p].data) /\ IsData(resume[p].data)
      BY <3>1, <3>2, StatesFacts, DataIsData
    <3>4. page[p].version <= Current /\ save[p].version <= Current /\ resume[p].version <= Current
      BY DEF IInv, VersionInv
    <3> QED
      BY <2>1, <3>1, <3>3, <3>4, StatesFacts
  <2>3. IsData(row.data) /\ row.at \in 0..Current
    BY <2>1, DataIsData
  <2> QED
    BY <2>2, <2>3 DEF TypeOK, IInv, Types
<1> QED
  BY <1>1, Invariance, PTL

(* Every answer of the draft is where the version it is bound to has a field,  *)
(* but for those excused: saves bound to another version than their page       *)
(* showed, and the renames and removals of Excusable, which migrateDraftData   *)
(* leaves where they are.                                                      *)
THEOREM AnswersStayOnTheForm == Spec => []AnswersAreOnTheForm
<1>1. IInv => AnswersAreOnTheForm
  BY DEF IInv, CopiesInv, Copy, OnForm, AnswersAreOnTheForm
<1> QED
  BY <1>1, Invariance, PTL

(* No migration takes an answer to another question: it is where it was typed, *)
(* or where the renames that documents declare lead from there.                *)
THEOREM AnswersStayWithTheirQuestion == Spec => []AnswersKeepTheirQuestion
<1>1. IInv => AnswersKeepTheirQuestion
  BY DEF IInv, CopiesInv, Copy, WereTyped, AnswersKeepTheirQuestion
<1> QED
  BY <1>1, Invariance, PTL

(* A save or a resume whose copy was read after the last write drops nothing   *)
(* that the draft holds, but what its removals displace in __orphaned.         *)
THEOREM NothingElseIsLost == Spec => OnlyRacesLose
<1>1. ASSUME IInv, NEW p \in Pages, SaveWrites(p), save[p].fresh
      PROVE  Answers(row.data) \subseteq Answers(row'.data)
  BY <1>1 DEF IInv, FreshInv, SaveWrites
<1>2. ASSUME IInv, NEW p \in Pages, ResumeWrites(p), resume[p].fresh
      PROVE  Answers(row.data) \ Displaced(p) \subseteq Answers(row'.data)
  <2> DEFINE d == resume[p].data
             b == Before(p)
             s == After(p)
  <2>1. /\ d \in Data /\ resume[p].from \in 1..Len(versions) /\ resume[p].version \in 1..Len(versions)
        /\ Once(d) /\ Answers(row.data) \subseteq Answers(d) /\ resume[p].pc = "read"
    <3>1. resume[p] \in ResumeStates /\ resume[p].pc = "read"
      BY <1>2 DEF IInv, Types, ResumeWrites
    <3> QED
      BY <1>2, <3>1, StatesFacts, LenProperties DEF IInv, Types, VersionInv, CopiesInv, Copy, FreshInv, Current
  <2>2. b \in Documents /\ s \in Documents
    BY <1>2, <2>1, ElementOfSeq DEF IInv, Types, Before, After
  <2>3. /\ Displaced(p) = UNION {d.aside[r] : r \in SetAside(b, s, ApplyRenames(s, d.own)) \cap DOMAIN d.aside}
        /\ row'.data = Migrated(b, s, d)
    BY <1>2 DEF Displaced, ResumeWrites, Rebound
  <2> HIDE DEF d, b, s
  <2>4. Answers(d) \ UNION {d.aside[r] : r \in SetAside(b, s, ApplyRenames(s, d.own)) \cap DOMAIN d.aside}
          \subseteq Answers(Migrated(b, s, d))
    BY <2>1, <2>2, MigratedData
  <2> QED
    BY <2>1, <2>3, <2>4
<1>3. IInv => \A p \in Pages :
        /\ SaveWrites(p) /\ save[p].fresh => Answers(row.data) \subseteq Answers(row'.data)
        /\ ResumeWrites(p) /\ resume[p].fresh => Answers(row.data) \ Displaced(p) \subseteq Answers(row'.data)
  BY <1>1, <1>2
<1> QED
  BY <1>3, Invariance, PTL DEF OnlyRacesLose

=============================================================================
