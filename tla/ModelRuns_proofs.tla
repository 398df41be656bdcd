-------------------------- MODULE ModelRuns_proofs --------------------------
(***************************************************************************)
(* What ModelRuns promises of the three runs and of what they hold, for    *)
(* every number of askings, edits, messages and forms.  The argument: an   *)
(* asking that was not stopped is the one its run waits for, so the turn   *)
(* on the relay and every answer belong to a run in flight; no run holds   *)
(* the answer to an asking still alive; an edit is held against the very   *)
(* document its model was shown, and a translation, with the answer it     *)
(* continues, against a document it only adds missing words to.            *)
(***************************************************************************)
EXTENDS ModelRuns, TLAPS

(* A run in flight is an asking of its own, still alive. *)
InFlight ==
    \A r \in Runs : Busy(r) => /\ runs[r].running \in Live
                               /\ asks[runs[r].running].run = r
                               /\ runs[r].for = runs[r].running

(* An asking that was not stopped is the one its run waits for. *)
Awaited == \A i \in Live : asks[i].turn # "stopped" => runs[asks[i].run].running = i

(* The relay carries the one turn that waits on it. *)
Carried ==
    /\ relay # None => /\ relay \in Live /\ asks[relay].turn = "waiting"
                       /\ asks[relay].host = "relay"
    /\ \A i \in Live : asks[i].turn = "waiting" /\ asks[i].host = "relay" => relay = i

(* A host that has yet to answer is no relay. *)
Direct == \A i \in Live : i \in out => asks[i].host = "direct"

(* An asking that was stopped never has a turn again. *)
Stops == stopped \subseteq 1 .. asked /\ \A i \in Live : i \in stopped => asks[i].turn = "stopped"

(* What is held answers an asking that is over and was not stopped. *)
HeldInv ==
    \A r \in Runs : LET of == runs[r].proposal.of IN
        of # None => /\ of \in 1 .. asked /\ of \notin Live /\ of \notin stopped
                     /\ r # "translation" => of = runs[r].for

(* A translation leaves its basis as it is but for what was missing. *)
Sound(p) ==
    /\ p.document.edits = p.basedOn.edits /\ p.document.form = p.basedOn.form
    /\ \A m \in Messages :
          p.basedOn.words[m] # "nobody" => p.document.words[m] = p.basedOn.words[m]

(* An edit is held against the document the model was shown, and a         *)
(* translation, with the answer it continues, against one it only adds to. *)
SoundInv ==
    /\ runs["prompt"].proposal.of # None =>
          runs["prompt"].proposal.basedOn = runs["prompt"].proposal.shown[1]
    /\ runs["translation"].proposal.of # None => Sound(runs["translation"].proposal)
    /\ \A i \in Live : asks[i].after # <<>> => Sound(asks[i].after[1])

IInv ==
    /\ TypeOK
    /\ InFlight /\ Awaited /\ Carried /\ Direct /\ Stops
    /\ HeldInv /\ SoundInv

-----------------------------------------------------------------------------
(* Steps by which askings go on as they are or end, runs are left as they *)
(* are or let go, and the document becomes whatever it becomes.           *)
LEMMA GoingOnKeeps ==
    ASSUME IInv, SessionTypes', edits' \in 0 .. MaxEdits, asked' = asked, out' \subseteq out,
           NEW S \in SUBSET Live,
           stopped' = stopped \cup S, relay' = IF relay \in S THEN None ELSE relay,
           DOMAIN asks' = Live,
           \A i \in Live : /\ asks'[i] \in Askings
                           /\ asks'[i].run = asks[i].run /\ asks'[i].host = asks[i].host
                           /\ asks'[i].after = asks[i].after
                           /\ asks'[i].turn = IF i \in S THEN "stopped" ELSE asks[i].turn,
           runs' \in [Runs -> Holders],
           \A r \in Runs :
              \/ runs'[r] = runs[r]
              \/ /\ runs'[r].proposal = NoProposal
                 /\ \/ runs'[r].running = runs[r].running /\ runs'[r].for = runs[r].for
                    \/ runs'[r].running = None /\ (runs[r].running # None => runs[r].running \in S)
    PROVE  IInv'
<1> USE BoundsAssumption DEF Live
<1>t. RunTypes /\ AskTypes /\ CountTypes /\ \A i \in Live : i # None /\ i \in Asks
  BY DEF IInv, TypeOK, AskTypes, CountTypes, Asks, None
<1>1. TypeOK'
  <2>1. RunTypes'
    BY <1>t DEF RunTypes, Held
  <2>2. AskTypes' /\ CountTypes'
    BY <1>t DEF AskTypes, CountTypes
  <2> QED
    BY <2>1, <2>2 DEF TypeOK
<1>2. InFlight'
  <2> SUFFICES ASSUME NEW r \in Runs, runs'[r].running # None
               PROVE  /\ runs'[r].running \in Live
                      /\ asks'[runs'[r].running].run = r
                      /\ runs'[r].for = runs'[r].running
    BY DEF InFlight, Busy
  <2>1. runs'[r].running = runs[r].running /\ runs'[r].for = runs[r].for
    OBVIOUS
  <2> QED
    BY <2>1 DEF IInv, InFlight, Busy
<1>3. Awaited'
  <2> SUFFICES ASSUME NEW i \in Live, asks'[i].turn # "stopped" PROVE runs'[asks[i].run].running = i
    BY DEF Awaited
  <2>1. i \notin S /\ asks[i].turn # "stopped" /\ asks[i].run \in Runs
    BY <1>t DEF AskTypes, Askings
  <2> QED
    BY <1>t, <2>1 DEF IInv, Awaited
<1>4. Carried'
  BY DEF IInv, Carried
<1>5. Direct' /\ Stops'
  BY <1>t DEF IInv, Direct, Stops, AskTypes
<1>6. HeldInv'
  <2>1. NoProposal.of = None
    BY DEF NoProposal
  <2> QED
    BY <2>1 DEF IInv, HeldInv
<1>7. SoundInv'
  <2>1. NoProposal.of = None /\ "prompt" \in Runs /\ "translation" \in Runs
    BY DEF NoProposal, Runs
  <2> QED
    BY <2>1 DEF IInv, SoundInv, Sound
<1> QED
  BY <1>1, <1>2, <1>3, <1>4, <1>5, <1>6, <1>7 DEF IInv

(* The same, where no asking ends. *)
LEMMA NothingEnds ==
    ASSUME IInv, SessionTypes', edits' \in 0 .. MaxEdits, out' \subseteq out,
           UNCHANGED <<asked, relay, stopped>>, DOMAIN asks' = Live,
           \A i \in Live : /\ asks'[i] \in Askings
                           /\ asks'[i].run = asks[i].run /\ asks'[i].host = asks[i].host
                           /\ asks'[i].after = asks[i].after /\ asks'[i].turn = asks[i].turn,
           runs' \in [Runs -> Holders],
           \A r \in Runs :
              \/ runs'[r] = runs[r]
              \/ /\ runs'[r].proposal = NoProposal
                 /\ \/ runs'[r].running = runs[r].running /\ runs'[r].for = runs[r].for
                    \/ runs'[r].running = None /\ runs[r].running = None
    PROVE  IInv'
<1> DEFINE S == {}
<1>1. S \in SUBSET Live /\ stopped' = stopped \cup S /\ relay' = (IF relay \in S THEN None ELSE relay)
  OBVIOUS
<1>2. \A i \in Live : asks'[i].turn = IF i \in S THEN "stopped" ELSE asks[i].turn
  OBVIOUS
<1>3. \A r \in Runs :
         \/ runs'[r] = runs[r]
         \/ /\ runs'[r].proposal = NoProposal
            /\ \/ runs'[r].running = runs[r].running /\ runs'[r].for = runs[r].for
               \/ runs'[r].running = None /\ (runs[r].running # None => runs[r].running \in S)
  OBVIOUS
<1> HIDE DEF S
<1> QED
  BY <1>1, <1>2, <1>3, GoingOnKeeps

(* Where an asking is as it was, in full. *)
LEMMA AskingsStay ==
    ASSUME IInv, asks' = asks
    PROVE  /\ DOMAIN asks' = Live
           /\ \A i \in Live : /\ asks'[i] \in Askings
                              /\ asks'[i].run = asks[i].run /\ asks'[i].host = asks[i].host
                              /\ asks'[i].after = asks[i].after /\ asks'[i].turn = asks[i].turn
BY DEF IInv, TypeOK, AskTypes, Live

(* Where the askings of S are stopped, and the rest are as they were. *)
LEMMA AskingsStop ==
    ASSUME IInv, NEW S \in SUBSET Live,
           asks' = [i \in Live |-> IF i \in S THEN [asks[i] EXCEPT !.turn = "stopped"] ELSE asks[i]]
    PROVE  /\ DOMAIN asks' = Live
           /\ \A i \in Live : /\ asks'[i] \in Askings
                              /\ asks'[i].run = asks[i].run /\ asks'[i].host = asks[i].host
                              /\ asks'[i].after = asks[i].after
                              /\ asks'[i].turn = IF i \in S THEN "stopped" ELSE asks[i].turn
<1>1. DOMAIN asks' = Live
  OBVIOUS
<1>2. ASSUME NEW i \in Live
      PROVE  /\ asks'[i] \in Askings
             /\ asks'[i].run = asks[i].run /\ asks'[i].host = asks[i].host
             /\ asks'[i].after = asks[i].after
             /\ asks'[i].turn = IF i \in S THEN "stopped" ELSE asks[i].turn
  <2>1. asks[i] \in Askings /\ "stopped" \in Turns
    BY DEF IInv, TypeOK, AskTypes, Turns
  <2> QED
    BY <2>1 DEF Askings
<1> QED
  BY <1>1, <1>2

(* What undo and redo take up is a document. *)
LEMMA SequencesOfDocuments ==
    ASSUME NEW s \in Seq(Document), s # <<>>
    PROVE  Last(s) \in Document /\ Front(s) \in Seq(Document)
BY DEF Last, Front

(* What is written over a document is a document. *)
LEMMA RewritingsAreDocuments ==
    ASSUME NEW doc \in Document, NEW writer, NEW by \in -MaxAsks .. MaxEdits
    PROVE  Rewritings(doc, writer, by) \subseteq Document
BY DEF Rewritings, Document

-----------------------------------------------------------------------------
(* The session: edits, undo and redo, another view of the document. *)
LEMMA SessionKeeps == ASSUME IInv, EditByHand \/ Undo \/ Redo \/ Reopen PROVE IInv'
<1> USE BoundsAssumption DEF Live
<1>t. SessionTypes /\ RunTypes /\ AskTypes /\ CountTypes
  BY DEF IInv, TypeOK
<1>r. runs' = runs => /\ runs' \in [Runs -> Holders]
                      /\ \A r \in Runs : runs'[r] = runs[r]
  BY <1>t DEF RunTypes
<1>1. CASE EditByHand
  <2>1. edits < MaxEdits /\ edits' = edits + 1 /\ UNCHANGED <<runs, asks, relay, out, asked, stopped>>
    BY <1>1 DEF EditByHand
  <2>2. PICK doc : Commit(doc) /\ (\/ doc = [present EXCEPT !.edits = @ \cup {edits'}]
                                   \/ \E m \in Messages : doc = [present EXCEPT !.words[m] = "hand"])
    BY <1>1 DEF EditByHand
  <2>3. doc \in Document
    <3>1. CASE doc = [present EXCEPT !.edits = @ \cup {edits'}]
      <4>1. edits' \in -MaxAsks .. MaxEdits
        BY <1>t, <2>1 DEF CountTypes
      <4> QED
        BY <1>t, <3>1, <4>1 DEF SessionTypes, Document
    <3>2. CASE \E m \in Messages : doc = [present EXCEPT !.words[m] = "hand"]
      <4>1. PICK m \in Messages : doc = [present EXCEPT !.words[m] = "hand"]
        BY <3>2
      <4>2. [present.words EXCEPT ![m] = "hand"] \in [Messages -> Writers]
        BY <1>t DEF SessionTypes, Document, Writers
      <4> QED
        BY <1>t, <4>1, <4>2 DEF SessionTypes, Document
    <3> QED
      BY <2>2, <3>1, <3>2
  <2>4. SessionTypes'
    BY <1>t, <2>2, <2>3 DEF SessionTypes, Commit
  <2>5. edits' \in 0 .. MaxEdits
    BY <1>t, <2>1 DEF CountTypes
  <2> QED
    BY <1>r, <2>1, <2>4, <2>5, AskingsStay, NothingEnds
<1>2. CASE Undo \/ Redo
  <2>1. UNCHANGED <<runs, asks, relay, out, edits, asked, stopped>>
    BY <1>2 DEF Undo, Redo
  <2>2. SessionTypes'
    <3>1. CASE Undo
      <4>1. Last(past) \in Document /\ Front(past) \in Seq(Document)
        BY <1>t, <3>1, SequencesOfDocuments DEF SessionTypes, Undo
      <4> QED
        BY <1>t, <3>1, <4>1 DEF SessionTypes, Undo
    <3>2. CASE Redo
      <4>1. Last(future) \in Document /\ Front(future) \in Seq(Document)
        BY <1>t, <3>2, SequencesOfDocuments DEF SessionTypes, Redo
      <4> QED
        BY <1>t, <3>2, <4>1 DEF SessionTypes, Redo
    <3> QED
      BY <1>2, <3>1, <3>2
  <2>3. edits' \in 0 .. MaxEdits
    BY <1>t, <2>1 DEF CountTypes
  <2> QED
    BY <1>r, <2>1, <2>2, <2>3, AskingsStay, NothingEnds
<1>3. CASE Reopen
  <2>1. /\ edits < MaxEdits /\ edits' = edits + 1 /\ UNCHANGED <<runs, relay, out, asked, stopped>>
        /\ past' = <<>> /\ future' = <<>>
        /\ asks' = [i \in Live |->
                     [asks[i] EXCEPT !.session = IF @ = <<>> THEN <<present>> ELSE @]]
    BY <1>3 DEF Reopen
  <2>2. present' \in Rewritings(present, "hand", edits')
    BY <1>3 DEF Reopen
  <2>3. SessionTypes'
    <3>1. present' \in Document
      <4>1. edits' \in -MaxAsks .. MaxEdits
        BY <1>t, <2>1 DEF CountTypes
      <4> QED
        BY <1>t, <2>2, <4>1, RewritingsAreDocuments DEF SessionTypes
    <3> QED
      BY <2>1, <3>1 DEF SessionTypes
  <2>4. edits' \in 0 .. MaxEdits
    BY <1>t, <2>1 DEF CountTypes
  <2>5. ASSUME NEW i \in Live
        PROVE  /\ asks'[i] \in Askings
               /\ asks'[i].run = asks[i].run /\ asks'[i].host = asks[i].host
               /\ asks'[i].after = asks[i].after /\ asks'[i].turn = asks[i].turn
    <3> DEFINE kept == IF asks[i].session = <<>> THEN <<present>> ELSE asks[i].session
    <3>1. asks[i] \in Askings
      BY <1>t DEF AskTypes
    <3>2. asks'[i] = [asks[i] EXCEPT !.session = kept]
      BY <2>1, <3>1 DEF Askings
    <3>3. kept \in Seq(Document)
      BY <1>t, <3>1 DEF Askings, SessionTypes
    <3> HIDE DEF kept
    <3> QED
      BY <3>1, <3>2, <3>3 DEF Askings
  <2>6. DOMAIN asks' = Live
    BY <2>1
  <2> QED
    BY <1>r, <2>1, <2>3, <2>4, <2>5, <2>6, NothingEnds
<1> QED
  BY <1>1, <1>2, <1>3

-----------------------------------------------------------------------------
(* What Ended and Cleared do to the asking of a run, or to none. *)
LEMMA EndedFacts ==
    ASSUME IInv, NEW i \in Live \cup {None}, asks' = Ended(i), relay' = Cleared(i)
    PROVE  /\ {i} \ {None} \in SUBSET Live
           /\ relay' = IF relay \in {i} \ {None} THEN None ELSE relay
           /\ DOMAIN asks' = Live
           /\ \A j \in Live : /\ asks'[j] \in Askings
                              /\ asks'[j].run = asks[j].run /\ asks'[j].host = asks[j].host
                              /\ asks'[j].after = asks[j].after
                              /\ asks'[j].turn = IF j \in {i} \ {None} THEN "stopped" ELSE asks[j].turn
<1> USE DEF Live
<1>t. \A j \in Live : asks[j] \in Askings /\ j # None
  BY BoundsAssumption DEF IInv, TypeOK, AskTypes, None
<1>1. relay' = IF relay \in {i} \ {None} THEN None ELSE relay
  BY DEF Cleared
<1>2. CASE i = None
  <2>1. asks' = asks
    BY <1>2 DEF Ended
  <2>2. \A j \in Live : j \notin {i} \ {None}
    BY <1>2
  <2> QED
    BY <1>1, <1>2, <2>1, <2>2, AskingsStay
<1>3. CASE i # None
  <2>1. asks' = [asks EXCEPT ![i].turn = "stopped"] /\ i \in Live
    BY <1>3 DEF Ended
  <2>2. asks' = [j \in Live |-> IF j \in {i} \ {None} THEN [asks[j] EXCEPT !.turn = "stopped"] ELSE asks[j]]
    BY <1>3, <2>1
  <2>3. {i} \ {None} \in SUBSET Live
    BY <2>1
  <2> QED
    BY <1>1, <2>2, <2>3, AskingsStop
<1> QED
  BY <1>2, <1>3

(* What a run waits for is an asking alive, if anything. *)
LEMMA RunningLives ==
    ASSUME IInv, NEW r \in Runs
    PROVE  runs[r] \in Holders /\ runs[r].running \in Live \cup {None}
BY DEF IInv, TypeOK, RunTypes, InFlight, Busy

(* Runs are stopped, discarded, or forgotten with the form. *)
LEMMA StopsKeep == ASSUME IInv, (\E r \in Runs : PressStop(r) \/ Discard(r)) \/ OpenForm PROVE IInv'
<1> USE BoundsAssumption DEF Live
<1>t. SessionTypes /\ RunTypes /\ AskTypes /\ CountTypes
  BY DEF IInv, TypeOK
<1>n. Nothing \in Holders /\ Nothing.proposal = NoProposal /\ Nothing.running = None
  BY DEF Nothing, Holders, Held
<1>u. UNCHANGED session => SessionTypes'
  BY <1>t DEF session, SessionTypes
<1>1. ASSUME NEW r \in Runs, PressStop(r) PROVE IInv'
  <2> DEFINE i == runs[r].running
             S == {i} \ {None}
  <2>1. /\ asks' = Ended(i) /\ relay' = Cleared(i) /\ stopped' = stopped \cup {i} /\ i # None
        /\ UNCHANGED <<session, runs, out, edits, asked>>
    BY <1>1 DEF PressStop, Busy
  <2>2. i \in Live \cup {None}
    BY RunningLives
  <2> HIDE DEF i
  <2>3. stopped' = stopped \cup S
    BY <2>1
  <2>4. runs' \in [Runs -> Holders] /\ \A q \in Runs : runs'[q] = runs[q]
    BY <1>t, <2>1 DEF RunTypes
  <2>5. edits' \in 0 .. MaxEdits /\ SessionTypes'
    BY <1>t, <1>u, <2>1 DEF CountTypes
  <2>6. /\ S \in SUBSET Live
        /\ relay' = IF relay \in S THEN None ELSE relay
        /\ DOMAIN asks' = Live
        /\ \A j \in Live : /\ asks'[j] \in Askings
                           /\ asks'[j].run = asks[j].run /\ asks'[j].host = asks[j].host
                           /\ asks'[j].after = asks[j].after
                           /\ asks'[j].turn = IF j \in S THEN "stopped" ELSE asks[j].turn
    BY <2>1, <2>2, EndedFacts
  <2> HIDE DEF S
  <2> QED
    BY <2>1, <2>3, <2>4, <2>5, <2>6, GoingOnKeeps
<1>2. ASSUME NEW r \in Runs, Discard(r) PROVE IInv'
  <2> DEFINE i == runs[r].running
             S == {i} \ {None}
  <2>1. /\ asks' = Ended(i) /\ relay' = Cleared(i) /\ stopped' = stopped \cup S
        /\ runs' = [runs EXCEPT ![r] = Nothing]
        /\ UNCHANGED <<session, out, edits, asked>>
    BY <1>2 DEF Discard
  <2>2. i \in Live \cup {None}
    BY RunningLives
  <2>3. /\ runs' \in [Runs -> Holders]
        /\ \A q \in Runs : \/ runs'[q] = runs[q]
                           \/ /\ runs'[q].proposal = NoProposal /\ runs'[q].running = None
                              /\ runs[q].running # None => runs[q].running \in S
    BY <1>t, <1>n, <2>1 DEF RunTypes
  <2> HIDE DEF i
  <2>5. edits' \in 0 .. MaxEdits /\ SessionTypes'
    BY <1>t, <1>u, <2>1 DEF CountTypes
  <2>6. /\ S \in SUBSET Live
        /\ relay' = IF relay \in S THEN None ELSE relay
        /\ DOMAIN asks' = Live
        /\ \A j \in Live : /\ asks'[j] \in Askings
                           /\ asks'[j].run = asks[j].run /\ asks'[j].host = asks[j].host
                           /\ asks'[j].after = asks[j].after
                           /\ asks'[j].turn = IF j \in S THEN "stopped" ELSE asks[j].turn
    BY <2>1, <2>2, EndedFacts
  <2> HIDE DEF S
  <2> QED
    BY <2>1, <2>3, <2>5, <2>6, GoingOnKeeps
<1>3. CASE OpenForm
  <2> DEFINE S == {runs[r].running : r \in Runs} \ {None}
  <2>1. /\ edits < MaxEdits /\ edits' = edits + 1 /\ past' = <<>> /\ future' = <<>>
        /\ \E f \in Forms \ {present.form} : present' = Fresh(f)
        /\ runs' = [r \in Runs |-> Nothing]
        /\ asks' = [i \in Live |-> IF i \in S THEN [asks[i] EXCEPT !.turn = "stopped"] ELSE asks[i]]
        /\ relay' = IF relay \in S THEN None ELSE relay
        /\ stopped' = stopped \cup S /\ UNCHANGED <<out, asked>>
    BY <1>3 DEF OpenForm
  <2>2. S \in SUBSET Live
    BY RunningLives
  <2>3. SessionTypes' /\ edits' \in 0 .. MaxEdits
    <3>1. PICK f \in Forms : present' = Fresh(f)
      BY <2>1
    <3>2. Fresh(f) \in Document
      BY DEF Fresh, Document, Writers
    <3> QED
      BY <1>t, <2>1, <3>1, <3>2 DEF SessionTypes, CountTypes
  <2>4. /\ runs' \in [Runs -> Holders]
        /\ \A q \in Runs : /\ runs'[q].proposal = NoProposal /\ runs'[q].running = None
                           /\ runs[q].running # None => runs[q].running \in S
    BY <1>n, <2>1
  <2> HIDE DEF S
  <2>5. /\ DOMAIN asks' = Live
        /\ \A i \in Live : /\ asks'[i] \in Askings
                           /\ asks'[i].run = asks[i].run /\ asks'[i].host = asks[i].host
                           /\ asks'[i].after = asks[i].after
                           /\ asks'[i].turn = IF i \in S THEN "stopped" ELSE asks[i].turn
    BY <2>1, <2>2, AskingsStop
  <2> QED
    BY <2>1, <2>2, <2>3, <2>4, <2>5, GoingOnKeeps
<1> QED
  BY <1>1, <1>2, <1>3

-----------------------------------------------------------------------------
(* A run that waits for nothing lets go of what it holds: it is applied, *)
(* kept or discarded, or a translation finds nothing missing.           *)
LEMMA LettingGoKeeps ==
    ASSUME IInv, \/ \E r \in Runs : Apply(r)
                 \/ LetDraftGo
                 \/ Translate /\ Missing(present) = {}
                 \/ \E i \in out : HostAnswers(i) /\ i \notin Live
    PROVE  IInv'
<1> USE BoundsAssumption DEF Live
<1>t. SessionTypes /\ RunTypes /\ AskTypes /\ CountTypes
  BY DEF IInv, TypeOK
<1>n. /\ Nothing \in Holders /\ Nothing.proposal = NoProposal /\ Nothing.running = None
      /\ NoProposal \in Held("draft") /\ NoProposal.of = None
  BY DEF Nothing, Holders, Held, NoProposal
<1>u. UNCHANGED session => SessionTypes'
  BY <1>t DEF session, SessionTypes
<1>1. ASSUME NEW r \in Runs, Apply(r) PROVE IInv'
  <2> DEFINE p == runs[r].proposal
  <2>1. /\ r \in {"prompt", "translation"} /\ runs[r].running = None /\ p.of # None /\ Commit(p.document)
        /\ runs' = [runs EXCEPT ![r] = Nothing]
        /\ UNCHANGED <<asks, relay, out, edits, asked, stopped>>
    BY <1>1 DEF Apply, Busy
  <2>2. p \in Proposals
    BY <1>t, <1>n, <2>1 DEF RunTypes, Held
  <2>3. SessionTypes'
    BY <1>t, <2>1, <2>2 DEF SessionTypes, Commit, Proposals
  <2>4. /\ runs' \in [Runs -> Holders]
        /\ \A q \in Runs : \/ runs'[q] = runs[q]
                           \/ runs'[q].proposal = NoProposal /\ runs'[q].running = None /\ runs[q].running = None
    BY <1>t, <1>n, <2>1 DEF RunTypes
  <2>5. edits' \in 0 .. MaxEdits
    BY <1>t, <2>1 DEF CountTypes
  <2> QED
    BY <2>1, <2>3, <2>4, <2>5, AskingsStay, NothingEnds
<1>2. CASE LetDraftGo
  <2>1. /\ runs' = [runs EXCEPT !["draft"].proposal = NoProposal]
        /\ UNCHANGED <<session, asks, relay, out, edits, asked, stopped>>
    BY <1>2 DEF LetDraftGo
  <2>2. "draft" \in Runs /\ runs["draft"] \in Holders
    BY <1>t DEF RunTypes, Runs
  <2>3. /\ runs' \in [Runs -> Holders]
        /\ \A q \in Runs : \/ runs'[q] = runs[q]
                           \/ /\ runs'[q].proposal = NoProposal
                              /\ runs'[q].running = runs[q].running /\ runs'[q].for = runs[q].for
    <3> DEFINE held == [runs["draft"] EXCEPT !.proposal = NoProposal]
    <3>1. runs' = [runs EXCEPT !["draft"] = held]
      BY <1>t, <2>1, <2>2 DEF RunTypes
    <3>2. /\ held \in Holders /\ held.proposal = NoProposal
          /\ held.running = runs["draft"].running /\ held.for = runs["draft"].for
      BY <1>n, <2>2 DEF Holders
    <3> HIDE DEF held
    <3> QED
      BY <1>t, <2>2, <3>1, <3>2 DEF RunTypes
  <2>4. edits' \in 0 .. MaxEdits /\ SessionTypes'
    BY <1>t, <1>u, <2>1 DEF CountTypes
  <2> QED
    BY <2>1, <2>3, <2>4, AskingsStay, NothingEnds
<1>3. CASE Translate /\ Missing(present) = {}
  <2>1. /\ runs["translation"].running = None
        /\ runs' = [runs EXCEPT !["translation"] = Nothing]
        /\ UNCHANGED <<session, asks, relay, out, edits, asked, stopped>>
    BY <1>3 DEF Translate, Busy
  <2>2. /\ runs' \in [Runs -> Holders]
        /\ \A q \in Runs : \/ runs'[q] = runs[q]
                           \/ runs'[q].proposal = NoProposal /\ runs'[q].running = None /\ runs[q].running = None
    BY <1>t, <1>n, <2>1 DEF RunTypes
  <2>3. edits' \in 0 .. MaxEdits /\ SessionTypes'
    BY <1>t, <1>u, <2>1 DEF CountTypes
  <2> QED
    BY <2>1, <2>2, <2>3, AskingsStay, NothingEnds
<1>4. ASSUME NEW i \in out, HostAnswers(i), i \notin Live PROVE IInv'
  <2>1. out' = out \ {i} /\ UNCHANGED <<session, asks, runs, relay, edits, asked, stopped>>
    BY <1>4 DEF HostAnswers
  <2>2. runs' \in [Runs -> Holders] /\ \A q \in Runs : runs'[q] = runs[q]
    BY <1>t, <2>1 DEF RunTypes
  <2>3. edits' \in 0 .. MaxEdits /\ SessionTypes' /\ out' \subseteq out
    BY <1>t, <1>u, <2>1 DEF CountTypes
  <2> QED
    BY <2>1, <2>2, <2>3, AskingsStay, NothingEnds
<1> QED
  BY <1>1, <1>2, <1>3, <1>4

-----------------------------------------------------------------------------
(* A turn is answered, by the person at the relay or by a host. *)
LEMMA AnswerKeeps ==
    ASSUME IInv, PasteAnswer \/ \E i \in out : HostAnswers(i) /\ i \in Live
    PROVE  IInv'
<1> USE BoundsAssumption DEF Live
<1>t. SessionTypes /\ RunTypes /\ AskTypes /\ CountTypes
  BY DEF IInv, TypeOK
<1>1. PICK i \in Live, a \in Answers \cup {"unreachable"} :
         /\ asks[i].turn = "waiting" /\ asks' = [asks EXCEPT ![i].turn = a]
         /\ relay' = (IF relay = i THEN None ELSE relay) /\ out' \subseteq out
         /\ UNCHANGED <<session, runs, edits, asked, stopped>>
  <2>1. CASE PasteAnswer
    <3>1. relay \in Live /\ asks[relay].turn = "waiting"
      BY <2>1 DEF PasteAnswer, IInv, Carried
    <3>2. PICK a \in Answers : asks' = [asks EXCEPT ![relay].turn = a]
      BY <2>1 DEF PasteAnswer
    <3> QED
      BY <2>1, <3>1, <3>2 DEF PasteAnswer
  <2>2. ASSUME NEW i \in out, HostAnswers(i), i \in Live
        PROVE \E a \in Answers \cup {"unreachable"} :
                 /\ asks[i].turn = "waiting" /\ asks' = [asks EXCEPT ![i].turn = a]
                 /\ relay' = (IF relay = i THEN None ELSE relay) /\ out' \subseteq out
                 /\ UNCHANGED <<session, runs, edits, asked, stopped>>
    <3>1. asks[i].turn = "waiting" /\ asks[i].host = "direct"
      BY <2>2 DEF HostAnswers, Quiet, IInv, Direct
    <3>2. relay # i
      BY <1>t, <2>2, <3>1 DEF IInv, Carried, AskTypes, None
    <3> QED
      BY <2>2, <3>1, <3>2 DEF HostAnswers
  <2> QED
    BY <2>1, <2>2
<1>2. /\ DOMAIN asks' = Live
      /\ \A j \in Live : j # i => asks'[j] = asks[j]
      /\ asks'[i] \in Askings /\ asks'[i].turn = a /\ a \notin {"waiting", "stopped"}
      /\ asks'[i].run = asks[i].run /\ asks'[i].host = asks[i].host /\ asks'[i].after = asks[i].after
  <2>1. asks[i] \in Askings /\ a \in Turns /\ a \notin {"waiting", "stopped"}
    BY <1>t DEF AskTypes, Turns, Answers
  <2>2. asks'[i] = [asks[i] EXCEPT !.turn = a] /\ DOMAIN asks' = Live /\ \A j \in Live : j # i => asks'[j] = asks[j]
    BY <1>1
  <2> QED
    BY <2>1, <2>2 DEF Askings
<1>3. TypeOK'
  <2>1. SessionTypes'
    BY <1>t, <1>1 DEF SessionTypes, session
  <2>2. RunTypes' /\ AskTypes' /\ CountTypes'
    BY <1>t, <1>1, <1>2 DEF RunTypes, AskTypes, CountTypes
  <2> QED
    BY <2>1, <2>2 DEF TypeOK
<1>4. InFlight' /\ Awaited'
  BY <1>1, <1>2 DEF IInv, InFlight, Awaited, Busy
<1>5. Carried'
  BY <1>1, <1>2 DEF IInv, Carried
<1>6. Direct' /\ Stops'
  BY <1>1, <1>2 DEF IInv, Direct, Stops
<1>7. HeldInv' /\ SoundInv'
  BY <1>1, <1>2 DEF IInv, HeldInv, SoundInv, Sound
<1> QED
  BY <1>3, <1>4, <1>5, <1>6, <1>7 DEF IInv

-----------------------------------------------------------------------------
(* An asking comes to its end: its run, if it is the one it waits for, holds *)
(* what it held or what this asking answered.                               *)
LEMMA EndingKeeps ==
    ASSUME IInv, NEW i \in Live, NEW p \in Held(asks[i].run), asks[i].turn # "waiting", Ending(i, p),
           UNCHANGED <<session, relay, out, edits, asked, stopped>>,
           \/ p = Kept(i)
           \/ /\ p.of = i /\ asks[i].turn # "stopped"
              /\ asks[i].run = "prompt" => p.basedOn = p.shown[1]
              /\ asks[i].run = "translation" => Sound(p)
    PROVE  IInv'
<1> USE BoundsAssumption DEF Live
<1> DEFINE r == asks[i].run
<1>t. /\ SessionTypes /\ RunTypes /\ AskTypes /\ CountTypes
      /\ r \in Runs /\ i \in 1 .. asked /\ i # None
  BY DEF IInv, TypeOK, AskTypes, Askings, CountTypes, None
<1>1. /\ DOMAIN asks' = Live \ {i} /\ \A j \in Live : j # i => asks'[j] = asks[j]
  BY DEF Ending
<1>2. /\ runs' \in [Runs -> Holders]
      /\ \A q \in Runs : q # r \/ runs[r].running # i => runs'[q] = runs[q]
      /\ runs[r].running = i => /\ runs'[r].running = None /\ runs'[r].proposal = p
                                /\ runs'[r].for = runs[r].for
  <2> DEFINE h == [[runs[r] EXCEPT !.running = None] EXCEPT !.proposal = p]
  <2>1. runs' = IF runs[r].running = i THEN [runs EXCEPT ![r] = h] ELSE runs
    BY <1>t DEF Ending, RunTypes
  <2>2. p \in Held("draft") \cup Held("prompt")
    BY DEF Held
  <2>3. h \in Holders /\ h.running = None /\ h.proposal = p /\ h.for = runs[r].for
    BY <1>t, <2>2 DEF RunTypes, Holders
  <2> HIDE DEF h, r
  <2> QED
    BY <1>t, <2>1, <2>3 DEF RunTypes
<1>3. TypeOK'
  <2>1. SessionTypes'
    BY <1>t DEF SessionTypes, session
  <2>2. RunTypes'
    BY <1>t, <1>2 DEF RunTypes
  <2>3. AskTypes' /\ CountTypes'
    BY <1>t, <1>1 DEF AskTypes, CountTypes
  <2> QED
    BY <2>1, <2>2, <2>3 DEF TypeOK
<1>4. InFlight'
  <2> SUFFICES ASSUME NEW q \in Runs, runs'[q].running # None
               PROVE  /\ runs'[q].running \in DOMAIN asks'
                      /\ asks'[runs'[q].running].run = q
                      /\ runs'[q].for = runs'[q].running
    BY DEF InFlight, Busy
  <2>1. runs[q].running # i /\ runs'[q] = runs[q]
    BY <1>2 DEF IInv, InFlight, Busy
  <2> QED
    BY <1>1, <2>1 DEF IInv, InFlight, Busy
<1>5. Awaited'
  <2> SUFFICES ASSUME NEW j \in DOMAIN asks', asks'[j].turn # "stopped"
               PROVE  runs'[asks'[j].run].running = j
    BY DEF Awaited
  <2>1. j \in Live /\ j # i /\ asks'[j] = asks[j]
    BY <1>1
  <2>2. runs[asks[j].run].running = j /\ asks[j].run \in Runs
    BY <2>1 DEF IInv, Awaited, TypeOK, AskTypes, Askings
  <2> QED
    BY <1>2, <2>1, <2>2
<1>6. Carried' /\ Direct' /\ Stops'
  BY <1>1 DEF IInv, Carried, Direct, Stops
<1>7. HeldInv'
  <2> SUFFICES ASSUME NEW q \in Runs, runs'[q].proposal.of # None
               PROVE  LET of == runs'[q].proposal.of IN
                      /\ of \in 1 .. asked /\ of \notin DOMAIN asks' /\ of \notin stopped
                      /\ q # "translation" => of = runs'[q].for
    BY DEF HeldInv
  <2>1. CASE runs'[q].proposal = runs[q].proposal
    <3>1. runs'[q].for = runs[q].for
      BY <1>2
    <3> QED
      BY <1>1, <2>1, <3>1 DEF IInv, HeldInv
  <2>2. CASE runs'[q].proposal # runs[q].proposal
    <3>1. q = r /\ runs[r].running = i /\ runs'[r].proposal = p /\ runs'[r].for = runs[r].for
      BY <1>2, <2>2
    <3>2. p # Kept(i)
      BY <2>2, <3>1 DEF Kept
    <3>3. i \notin stopped /\ runs[r].for = i
      BY <1>t, <3>1, <3>2 DEF IInv, Stops, InFlight, Busy
    <3> QED
      BY <1>t, <1>1, <3>1, <3>2, <3>3
  <2> QED
    BY <2>1, <2>2
<1>8. SoundInv'
  <2>1. ASSUME runs'["prompt"].proposal.of # None
        PROVE  runs'["prompt"].proposal.basedOn = runs'["prompt"].proposal.shown[1]
    <3>1. "prompt" \in Runs
      BY DEF Runs
    <3>2. CASE runs'["prompt"].proposal = runs["prompt"].proposal
      BY <2>1, <3>2 DEF IInv, SoundInv
    <3>3. CASE runs'["prompt"].proposal # runs["prompt"].proposal
      BY <1>2, <3>1, <3>3 DEF Kept
    <3> QED
      BY <3>2, <3>3
  <2>2. ASSUME runs'["translation"].proposal.of # None PROVE Sound(runs'["translation"].proposal)
    <3>1. "translation" \in Runs
      BY DEF Runs
    <3>2. CASE runs'["translation"].proposal = runs["translation"].proposal
      BY <2>2, <3>2 DEF IInv, SoundInv
    <3>3. CASE runs'["translation"].proposal # runs["translation"].proposal
      BY <1>2, <3>1, <3>3 DEF Kept
    <3> QED
      BY <3>2, <3>3
  <2>3. ASSUME NEW j \in DOMAIN asks', asks'[j].after # <<>> PROVE Sound(asks'[j].after[1])
    BY <1>1, <2>3 DEF IInv, SoundInv
  <2> QED
    BY <2>1, <2>2, <2>3 DEF SoundInv, Sound
<1> QED
  BY <1>3, <1>4, <1>5, <1>6, <1>7, <1>8 DEF IInv

(* What a translation is held as is sound. *)
LEMMA TranslatedIsSound ==
    ASSUME IInv, NEW i \in Live, NEW wrote \in SUBSET Messages
    PROVE  Translated(i, asks[i], wrote) \in Proposals /\ Sound(Translated(i, asks[i], wrote))
<1> USE BoundsAssumption DEF Live
<1> DEFINE ask == asks[i]
           current == IF ask.session = <<>> THEN present ELSE ask.session[1]
           start == IF ask.after = <<>> THEN current ELSE ask.after[1].document
           words == [m \in Messages |-> IF m \in wrote \cap Missing(start) THEN "model" ELSE start.words[m]]
           document == [start EXCEPT !.words = words]
           basis == Basis(current, ask)
<1>1. ask \in Askings /\ present \in Document /\ i \in Asks
  BY DEF IInv, TypeOK, AskTypes, SessionTypes, CountTypes, Asks
<1>2. ask.session \in Seq(Document) /\ ask.after \in Seq(Proposals)
  BY <1>1 DEF Askings
<1>3. current \in Document
  BY <1>1, <1>2
<1>4. ask.after # <<>> => /\ ask.after[1] \in Proposals /\ Sound(ask.after[1])
                          /\ start = ask.after[1].document /\ basis = ask.after[1].basedOn
  BY <1>2 DEF IInv, SoundInv, Basis
<1>5. ask.after = <<>> => start = current /\ basis = current
  BY DEF Basis
<1>6. /\ start \in Document /\ basis \in Document
      /\ start.edits = basis.edits /\ start.form = basis.form
      /\ \A m \in Messages : basis.words[m] # "nobody" => start.words[m] = basis.words[m]
  BY <1>3, <1>4, <1>5 DEF Proposals, Sound
<1> HIDE DEF start, basis, current
<1>7. words \in [Messages -> Writers] /\ \A m \in Messages : start.words[m] # "nobody" => words[m] = start.words[m]
  BY <1>6 DEF Document, Writers, Missing
<1> HIDE DEF words
<1>8. document \in Document /\ document.words = words /\ document.edits = start.edits /\ document.form = start.form
  BY <1>6, <1>7 DEF Document
<1>9. Translated(i, ask, wrote) = [of |-> i, shown |-> <<>>, basedOn |-> basis, document |-> document]
  BY DEF Translated, start, basis, current, words
<1> HIDE DEF document, ask
<1> QED
  <2>1. Translated(i, ask, wrote) \in Proposals
    BY <1>1, <1>2, <1>6, <1>8, <1>9 DEF Proposals
  <2>2. Sound(Translated(i, ask, wrote))
    BY <1>6, <1>7, <1>8, <1>9 DEF Sound
  <2> QED
    BY <2>1, <2>2 DEF ask

(* Every way in which an asking ends. *)
LEMMA EndingsKeep == ASSUME IInv, NEW i \in Live, EndsWithNothing(i) \/ EndsWithAnAnswer(i) PROVE IInv'
<1> USE BoundsAssumption DEF Live
<1>t. /\ RunTypes /\ asks[i] \in Askings /\ i \in Asks
  BY DEF IInv, TypeOK, AskTypes, CountTypes, Asks
<1>1. asks[i].turn # "waiting" /\ UNCHANGED <<session, relay, out, edits, asked, stopped>>
  BY DEF EndsWithNothing, EndsWithAnAnswer
<1>2. CASE EndsWithNothing(i)
  <2>1. Kept(i) \in Held(asks[i].run)
    BY <1>t DEF RunTypes, Kept, Askings
  <2> QED
    BY <1>1, <1>2, <2>1, EndingKeeps DEF EndsWithNothing
<1>3. CASE EndsWithAnAnswer(i)
  <2>0. asks[i].turn # "stopped"
    BY <1>3 DEF EndsWithAnAnswer
  <2>1. ASSUME asks[i].run = "prompt", NEW answer \in Rewritings(asks[i].shown[1], "model", -i),
               Ending(i, Edited(i, asks[i], answer))
        PROVE IInv'
    <3> DEFINE p == Edited(i, asks[i], answer)
    <3>1. asks[i].shown \in Seq(Document) /\ asks[i].shown # <<>>
      BY <1>t, <2>1 DEF Askings
    <3>2. asks[i].shown[1] \in Document
      BY <3>1
    <3>a. answer \in Document
      <4>1. -i \in -MaxAsks .. MaxEdits
        BY <1>t DEF Asks
      <4> QED
        BY <3>2, <4>1, RewritingsAreDocuments
    <3>3. p = [of |-> i, shown |-> asks[i].shown, basedOn |-> asks[i].shown[1], document |-> answer]
      BY DEF Edited
    <3>4. p \in Proposals /\ p.of = i /\ p.basedOn = p.shown[1]
      BY <1>t, <3>1, <3>2, <3>a, <3>3 DEF Proposals
    <3>5. p \in Held(asks[i].run)
      BY <2>1, <3>4 DEF Held
    <3> HIDE DEF p
    <3> QED
      BY <1>1, <2>0, <2>1, <3>4, <3>5, EndingKeeps DEF p
  <2>2. CASE asks[i].run = "draft" /\ Ending(i, [of |-> i])
    <3>1. [of |-> i] \in Held(asks[i].run)
      BY <1>t, <2>2 DEF Held
    <3> QED
      BY <1>1, <2>0, <2>2, <3>1, EndingKeeps
  <2>3. ASSUME NEW wrote \in SUBSET asks[i].sent, asks[i].run = "translation",
               Ending(i, Translated(i, asks[i], wrote))
        PROVE IInv'
    <3> DEFINE p == Translated(i, asks[i], wrote)
    <3>1. wrote \in SUBSET Messages
      BY <1>t DEF Askings
    <3>2. p \in Proposals /\ Sound(p) /\ p.of = i
      <4>1. p \in Proposals /\ Sound(p)
        BY <3>1, TranslatedIsSound
      <4>2. p.of = i
        BY DEF Translated
      <4> QED
        BY <4>1, <4>2
    <3>3. p \in Held(asks[i].run)
      BY <2>3, <3>2 DEF Held
    <3>4. Ending(i, p)
      BY <2>3
    <3> HIDE DEF p
    <3> QED
      BY <1>1, <2>0, <2>3, <3>2, <3>3, <3>4, EndingKeeps
  <2> QED
    BY <1>3, <2>1, <2>2, <2>3 DEF EndsWithAnAnswer
<1> QED
  BY <1>2, <1>3

-----------------------------------------------------------------------------
(* What the taking of a turn does to the askings, the relay and the hosts. *)
LEMMA TakeFacts ==
    ASSUME NEW i, NEW ask \in Askings, NEW others, NEW carried, Take(i, ask, others, carried)
    PROVE  /\ DOMAIN asks' = {i} \cup DOMAIN others
           /\ \A j \in DOMAIN others : j # i => asks'[j] = others[j]
           /\ asks'[i] \in Askings /\ asks'[i].run = ask.run /\ asks'[i].host = ask.host
           /\ asks'[i].after = ask.after /\ asks'[i].turn \in {"waiting", "busy"}
           /\ asks'[i].turn = "waiting" /\ ask.host = "relay" => carried = None
           /\ relay' = IF ask.host = "relay" /\ asks'[i].turn = "waiting" THEN i ELSE carried
           /\ out' = IF ask.host = "direct" THEN out \cup {i} ELSE out
<1> DEFINE full == ask.host = "relay" /\ carried # None
           turn == IF full THEN "busy" ELSE "waiting"
           rec == [ask EXCEPT !.turn = turn]
<1>1. /\ asks' = [j \in {i} \cup DOMAIN others |-> IF j = i THEN rec ELSE others[j]]
      /\ relay' = IF ask.host = "relay" /\ ~full THEN i ELSE carried
      /\ out' = IF ask.host = "direct" THEN out \cup {i} ELSE out
  BY DEF Take
<1>2. turn \in {"waiting", "busy"} /\ turn \in Turns /\ (turn = "waiting" <=> ~full)
  BY DEF Turns
<1>3. rec \in Askings /\ rec.run = ask.run /\ rec.host = ask.host /\ rec.after = ask.after /\ rec.turn = turn
  <2> HIDE DEF turn
  <2> QED
    BY <1>2 DEF Askings
<1> HIDE DEF rec, turn
<1>4. DOMAIN asks' = {i} \cup DOMAIN others /\ asks'[i] = rec /\ \A j \in DOMAIN others : j # i => asks'[j] = others[j]
  BY <1>1
<1> QED
  BY <1>1, <1>2, <1>3, <1>4

(* An answer that failed its check is asked again. *)
LEMMA AskingAgainKeeps == ASSUME IInv, NEW i \in Live, AsksAgain(i) PROVE IInv'
<1> USE BoundsAssumption DEF Live
<1>t. /\ SessionTypes /\ RunTypes /\ AskTypes /\ CountTypes
      /\ asks[i] \in Askings /\ i \in 1 .. asked /\ i # None
  BY DEF IInv, TypeOK, AskTypes, CountTypes, None
<1> DEFINE ask == [asks[i] EXCEPT !.attempt = @ + 1]
<1>1. /\ asks[i].turn = "wrong" /\ asks[i].attempt < Attempts /\ Take(i, ask, asks, relay)
      /\ UNCHANGED <<session, runs, edits, asked, stopped>>
  BY DEF AsksAgain
<1>2. /\ ask \in Askings /\ ask.run = asks[i].run /\ ask.host = asks[i].host /\ ask.after = asks[i].after
  <2> DEFINE n == asks[i].attempt + 1
  <2>1. n \in 1 .. Attempts
    BY <1>t, <1>1 DEF Askings
  <2>2. ask = [asks[i] EXCEPT !.attempt = n]
    BY <1>t DEF Askings
  <2> HIDE DEF n, ask
  <2> QED
    BY <1>t, <2>1, <2>2 DEF Askings
<1> HIDE DEF ask
<1>3. /\ DOMAIN asks' = Live /\ \A j \in Live : j # i => asks'[j] = asks[j]
      /\ asks'[i] \in Askings /\ asks'[i].run = asks[i].run /\ asks'[i].host = asks[i].host
      /\ asks'[i].after = asks[i].after /\ asks'[i].turn \in {"waiting", "busy"}
      /\ asks'[i].turn = "waiting" /\ asks[i].host = "relay" => relay = None
      /\ relay' = IF asks[i].host = "relay" /\ asks'[i].turn = "waiting" THEN i ELSE relay
      /\ out' = IF asks[i].host = "direct" THEN out \cup {i} ELSE out
  <2>1. /\ DOMAIN asks' = {i} \cup DOMAIN asks
        /\ \A j \in DOMAIN asks : j # i => asks'[j] = asks[j]
        /\ asks'[i] \in Askings /\ asks'[i].run = ask.run /\ asks'[i].host = ask.host
        /\ asks'[i].after = ask.after /\ asks'[i].turn \in {"waiting", "busy"}
        /\ asks'[i].turn = "waiting" /\ ask.host = "relay" => relay = None
        /\ relay' = IF ask.host = "relay" /\ asks'[i].turn = "waiting" THEN i ELSE relay
        /\ out' = IF ask.host = "direct" THEN out \cup {i} ELSE out
    BY <1>1, <1>2, TakeFacts, Zenon
  <2>2. {i} \cup DOMAIN asks = Live
    OBVIOUS
  <2> QED
    BY <1>2, <2>1, <2>2
<1>4. TypeOK'
  <2>1. SessionTypes'
    BY <1>t, <1>1 DEF SessionTypes, session
  <2>2. RunTypes'
    BY <1>t, <1>1 DEF RunTypes
  <2>3. AskTypes'
    BY <1>t, <1>1, <1>3 DEF AskTypes
  <2>4. CountTypes'
    <3>1. i \in Asks
      BY <1>t DEF CountTypes, Asks
    <3>2. relay' \in {i, relay} /\ out' \subseteq out \cup {i}
      BY <1>3
    <3> QED
      BY <1>t, <1>1, <3>1, <3>2 DEF CountTypes
  <2> QED
    BY <2>1, <2>2, <2>3, <2>4 DEF TypeOK
<1>5. InFlight' /\ Awaited'
  BY <1>1, <1>3 DEF IInv, InFlight, Awaited, Busy
<1>6. Carried'
  <2>1. relay # i
    BY <1>1, <1>t DEF IInv, Carried
  <2>2. relay' # None => relay' \in DOMAIN asks' /\ asks'[relay'].turn = "waiting" /\ asks'[relay'].host = "relay"
    BY <1>t, <1>3, <2>1 DEF IInv, Carried
  <2>3. ASSUME NEW j \in DOMAIN asks', asks'[j].turn = "waiting", asks'[j].host = "relay" PROVE relay' = j
    BY <1>t, <1>3, <2>3 DEF IInv, Carried, AskTypes, None
  <2> QED
    BY <2>2, <2>3 DEF Carried
<1>7. Direct' /\ Stops'
  BY <1>1, <1>3 DEF IInv, Direct, Stops
<1>8. HeldInv' /\ SoundInv'
  BY <1>1, <1>3 DEF IInv, HeldInv, SoundInv, Sound
<1> QED
  BY <1>4, <1>5, <1>6, <1>7, <1>8 DEF IInv

(* A run is asked, in place of one of its own that is forgotten, if any. *)
LEMMA AskingKeeps ==
    ASSUME IInv, NEW r \in Runs, NEW shown \in Seq(Document), NEW after \in Seq(Proposals),
           r = "prompt" => shown # <<>>,
           NEW sent \in SUBSET Messages, NEW keeping \in Held(r),
           Asking(r, [shown |-> shown, after |-> after, sent |-> sent], keeping, runs[r].running),
           keeping = NoProposal \/ (r = "translation" /\ keeping = runs[r].proposal /\ keeping.of # None),
           after # <<>> => Sound(after[1])
    PROVE  IInv'
<1> USE BoundsAssumption DEF Live
<1> DEFINE i == asked + 1
           f == runs[r].running
           S == {f} \ {None}
<1>t. /\ SessionTypes /\ RunTypes /\ AskTypes /\ CountTypes /\ asked \in Nat /\ i \in Asks /\ i # None
      /\ i \notin Live /\ f \in Live \cup {None}
  <2>1. asked < MaxAsks
    BY DEF Asking
  <2>2. SessionTypes /\ RunTypes /\ AskTypes /\ CountTypes
    BY DEF IInv, TypeOK
  <2>3. asked \in Nat /\ i \in Asks /\ i # None
    BY <2>1, <2>2 DEF CountTypes, Asks, None
  <2>4. i \notin Live
    BY <2>2, <2>3 DEF AskTypes
  <2>5. f \in Live \cup {None}
    BY RunningLives
  <2> QED
    BY <2>2, <2>3, <2>4, <2>5
<1>1. PICK h \in Hosts :
         Take(i, [run |-> r, host |-> h, attempt |-> 1, turn |-> "waiting", session |-> <<>>,
                  shown |-> shown, after |-> after, sent |-> sent], Ended(f), Cleared(f))
  BY DEF Asking
<1>2. /\ asked' = i /\ stopped' = stopped \cup S /\ UNCHANGED <<session, edits>>
      /\ runs' = [runs EXCEPT ![r] = [running |-> i, for |-> i, proposal |-> keeping,
                                      form |-> IF r = "draft" THEN present.form ELSE None]]
  BY DEF Asking
<1> DEFINE ask == [run |-> r, host |-> h, attempt |-> 1, turn |-> "waiting", session |-> <<>>,
                   shown |-> shown, after |-> after, sent |-> sent]
<1>3. ask \in Askings /\ ask.run = r /\ ask.host = h /\ ask.after = after
  BY DEF Askings, Turns
<1>4. /\ DOMAIN Ended(f) = Live
      /\ \A j \in Live : /\ Ended(f)[j] \in Askings
                         /\ Ended(f)[j].run = asks[j].run /\ Ended(f)[j].host = asks[j].host
                         /\ Ended(f)[j].after = asks[j].after
                         /\ Ended(f)[j].turn = IF j \in S THEN "stopped" ELSE asks[j].turn
      /\ Cleared(f) = IF relay \in S THEN None ELSE relay
      /\ S \in SUBSET Live
  <2>1. Cleared(f) = IF relay \in S THEN None ELSE relay
    BY DEF Cleared
  <2>2. \A j \in Live : asks[j] \in Askings /\ j # None
    BY <1>t DEF AskTypes, None
  <2>3. CASE f = None
    BY <1>t, <2>1, <2>2, <2>3 DEF Ended
  <2>4. CASE f # None
    <3>1. Ended(f) = [asks EXCEPT ![f].turn = "stopped"] /\ f \in Live
      BY <1>t, <2>4 DEF Ended
    <3>2. asks[f] \in Askings /\ "stopped" \in Turns
      BY <2>2, <3>1 DEF Turns
    <3> DEFINE g == [asks[f] EXCEPT !.turn = "stopped"]
    <3>3. /\ g \in Askings /\ g.turn = "stopped" /\ g.run = asks[f].run /\ g.host = asks[f].host
          /\ g.after = asks[f].after
      BY <3>2 DEF Askings
    <3>4. DOMAIN Ended(f) = Live /\ Ended(f)[f] = g /\ \A j \in Live : j # f => Ended(f)[j] = asks[j]
      BY <3>1
    <3> HIDE DEF g, f
    <3> QED
      BY <2>1, <2>2, <2>4, <3>1, <3>3, <3>4
  <2> QED
    BY <2>3, <2>4
<1> HIDE DEF ask, f, S
<1>5. /\ DOMAIN asks' = {i} \cup Live
      /\ \A j \in Live : asks'[j] = Ended(f)[j]
      /\ asks'[i] \in Askings /\ asks'[i].run = r /\ asks'[i].host = h
      /\ asks'[i].after = after /\ asks'[i].turn \in {"waiting", "busy"}
      /\ asks'[i].turn = "waiting" /\ h = "relay" => Cleared(f) = None
      /\ relay' = IF h = "relay" /\ asks'[i].turn = "waiting" THEN i ELSE Cleared(f)
      /\ out' = IF h = "direct" THEN out \cup {i} ELSE out
  <2>1. Take(i, ask, Ended(f), Cleared(f))
    BY <1>1 DEF ask
  <2> HIDE DEF i
  <2>2. /\ DOMAIN asks' = {i} \cup DOMAIN Ended(f)
        /\ \A j \in DOMAIN Ended(f) : j # i => asks'[j] = Ended(f)[j]
        /\ asks'[i] \in Askings /\ asks'[i].run = ask.run /\ asks'[i].host = ask.host
        /\ asks'[i].after = ask.after /\ asks'[i].turn \in {"waiting", "busy"}
        /\ asks'[i].turn = "waiting" /\ ask.host = "relay" => Cleared(f) = None
        /\ relay' = IF ask.host = "relay" /\ asks'[i].turn = "waiting" THEN i ELSE Cleared(f)
        /\ out' = IF ask.host = "direct" THEN out \cup {i} ELSE out
    BY <1>3, <2>1, TakeFacts, Zenon
  <2> QED
    BY <1>t, <1>3, <1>4, <2>2
<1>6. /\ runs' \in [Runs -> Holders] /\ \A q \in Runs : q # r => runs'[q] = runs[q]
      /\ runs'[r].running = i /\ runs'[r].for = i /\ runs'[r].proposal = keeping
  <2> DEFINE form == IF r = "draft" THEN present.form ELSE None
             holder == [running |-> i, for |-> i, proposal |-> keeping, form |-> form]
  <2>1. form \in Forms \cup {None}
    BY <1>t DEF SessionTypes, Document
  <2>2. keeping \in Held("draft") \cup Held("prompt")
    BY DEF Held
  <2>3. runs' = [runs EXCEPT ![r] = holder]
    BY <1>2
  <2> HIDE DEF form, i
  <2>4. holder \in Holders /\ holder.running = i /\ holder.for = i /\ holder.proposal = keeping
    BY <1>t, <2>1, <2>2 DEF Holders
  <2> HIDE DEF holder
  <2> QED
    BY <1>t, <2>3, <2>4 DEF RunTypes
<1>s. S = {} \/ S = {f}
  BY DEF S
<1>f. f = runs[r].running /\ \A j : j \in S <=> j = f /\ j # None
  BY DEF f, S
<1>7. TypeOK'
  <2>1. SessionTypes'
    BY <1>t, <1>2 DEF SessionTypes, session
  <2>2. RunTypes'
    BY <1>t, <1>6 DEF RunTypes
  <2>3. AskTypes'
    <3> SUFFICES ASSUME NEW j \in DOMAIN asks' PROVE j \in 1 .. asked' /\ asks'[j] \in Askings
      BY DEF AskTypes
    <3>1. CASE j = i
      BY <1>t, <1>2, <1>5, <3>1
    <3>2. CASE j # i
      BY <1>t, <1>2, <1>4, <1>5, <3>2 DEF AskTypes
    <3> QED
      BY <3>1, <3>2
  <2>4. CountTypes'
    <3>1. Live \subseteq Asks
      BY <1>t DEF CountTypes, AskTypes, Asks
    <3>2. stopped' \subseteq Asks
      BY <1>t, <1>2, <1>4, <3>1 DEF CountTypes
    <3>3. relay' \in Asks \cup {None}
      BY <1>t, <1>4, <1>5 DEF CountTypes
    <3>4. out' \subseteq 1 .. asked'
      <4>1. out \subseteq 1 .. asked /\ out' \subseteq out \cup {i}
        BY <1>t, <1>5 DEF CountTypes
      <4>2. 1 .. asked \subseteq 1 .. asked' /\ i \in 1 .. asked'
        BY <1>t, <1>2
      <4> HIDE DEF i
      <4> QED
        BY <4>1, <4>2
    <3>5. edits' \in 0 .. MaxEdits /\ asked' \in 0 .. MaxAsks
      BY <1>t, <1>2 DEF CountTypes, Asks, session
    <3> QED
      BY <3>2, <3>3, <3>4, <3>5 DEF CountTypes
  <2> QED
    BY <2>1, <2>2, <2>3, <2>4 DEF TypeOK
<1>8. InFlight'
  <2> SUFFICES ASSUME NEW q \in Runs, runs'[q].running # None
               PROVE  /\ runs'[q].running \in DOMAIN asks'
                      /\ asks'[runs'[q].running].run = q
                      /\ runs'[q].for = runs'[q].running
    BY DEF InFlight, Busy
  <2>1. CASE q = r
    BY <1>5, <1>6, <2>1
  <2>2. CASE q # r
    BY <1>4, <1>5, <1>6, <2>2 DEF IInv, InFlight, Busy
  <2> QED
    BY <2>1, <2>2
<1>9. Awaited'
  <2> SUFFICES ASSUME NEW j \in DOMAIN asks', asks'[j].turn # "stopped"
               PROVE  runs'[asks'[j].run].running = j
    BY DEF Awaited
  <2>1. CASE j = i
    BY <1>5, <1>6, <2>1
  <2>2. CASE j # i
    <3>1. j \in Live /\ j \notin S /\ asks[j].turn # "stopped" /\ asks'[j].run = asks[j].run /\ asks[j].run \in Runs
      BY <1>t, <1>4, <1>5, <2>2 DEF AskTypes, Askings
    <3>2. runs[asks[j].run].running = j /\ j # None
      BY <1>t, <3>1 DEF IInv, Awaited, AskTypes, None
    <3>3. asks[j].run # r
      BY <1>f, <3>1, <3>2
    <3> QED
      BY <1>6, <3>1, <3>2, <3>3
  <2> QED
    BY <2>1, <2>2
<1>10. Carried'
  <2>1. relay' # None => relay' \in DOMAIN asks' /\ asks'[relay'].turn = "waiting" /\ asks'[relay'].host = "relay"
    <3>1. CASE relay' = i
      BY <1>t, <1>4, <1>5, <3>1 DEF IInv, Carried
    <3>2. CASE relay' # i /\ relay' # None
      <4>1. relay' = relay /\ relay \notin S /\ relay \in Live
        BY <1>4, <1>5, <3>2 DEF IInv, Carried
      <4> QED
        BY <1>4, <1>5, <3>2, <4>1 DEF IInv, Carried
    <3> QED
      BY <3>1, <3>2
  <2>2. ASSUME NEW j \in DOMAIN asks', asks'[j].turn = "waiting", asks'[j].host = "relay" PROVE relay' = j
    <3>1. CASE j = i
      BY <1>5, <2>2, <3>1
    <3>2. CASE j # i
      <4>1. j \in Live /\ j \notin S /\ asks[j].turn = "waiting" /\ asks[j].host = "relay"
        BY <1>4, <1>5, <2>2, <3>2
      <4>2. relay = j /\ j # None
        BY <1>t, <4>1 DEF IInv, Carried, AskTypes, None
      <4>3. Cleared(f) # None
        BY <1>4, <4>1, <4>2
      <4> QED
        BY <1>4, <1>5, <4>1, <4>2, <4>3
    <3> QED
      BY <3>1, <3>2
  <2> QED
    BY <2>1, <2>2 DEF Carried
<1>11. Direct'
  <2> SUFFICES ASSUME NEW j \in DOMAIN asks', j \in out' PROVE asks'[j].host = "direct"
    BY DEF Direct
  <2>1. CASE j = i
    <3>1. i \notin out
      BY <1>t DEF CountTypes
    <3> QED
      BY <1>5, <2>1, <3>1
  <2>2. CASE j # i
    BY <1>4, <1>5, <2>2 DEF IInv, Direct
  <2> QED
    BY <2>1, <2>2
<1>12. Stops'
  <2>1. stopped' \subseteq 1 .. asked /\ 1 .. asked \subseteq 1 .. asked' /\ i \notin 1 .. asked
    <3>1. Live \subseteq 1 .. asked
      BY <1>t DEF AskTypes
    <3>2. stopped \subseteq 1 .. asked
      BY DEF IInv, Stops
    <3>3. 1 .. asked \subseteq 1 .. asked' /\ i \notin 1 .. asked
      BY <1>t, <1>2
    <3> QED
      BY <1>2, <1>4, <3>1, <3>2, <3>3
  <2> QED
    BY <1>2, <1>4, <1>5, <2>1 DEF IInv, Stops
<1>13. HeldInv'
  <2> SUFFICES ASSUME NEW q \in Runs, runs'[q].proposal.of # None
               PROVE  LET of == runs'[q].proposal.of IN
                      /\ of \in 1 .. asked' /\ of \notin DOMAIN asks' /\ of \notin stopped'
                      /\ q # "translation" => of = runs'[q].for
    BY DEF HeldInv
  <2>1. /\ runs'[q].proposal = runs[q].proposal /\ (q # "translation" => runs'[q].for = runs[q].for)
    <3>1. NoProposal.of = None
      BY DEF NoProposal
    <3> QED
      BY <1>6, <3>1
  <2>2. LET of == runs[q].proposal.of IN
        /\ of \in 1 .. asked /\ of \notin Live /\ of \notin stopped
        /\ q # "translation" => of = runs[q].for
    BY <2>1 DEF IInv, HeldInv
  <2> QED
    BY <1>t, <1>2, <1>4, <1>5, <2>1, <2>2
<1>14. SoundInv'
  <2>1. "prompt" \in Runs /\ "translation" \in Runs /\ NoProposal.of = None
    BY DEF Runs, NoProposal
  <2>2. \A q \in Runs : runs'[q].proposal.of # None => runs'[q].proposal = runs[q].proposal
    BY <1>6, <2>1
  <2>3. ASSUME NEW j \in DOMAIN asks', asks'[j].after # <<>> PROVE Sound(asks'[j].after[1])
    <3>1. CASE j = i
      BY <1>5, <2>3, <3>1
    <3>2. CASE j # i
      BY <1>4, <1>5, <2>3, <3>2 DEF IInv, SoundInv
    <3> QED
      BY <3>1, <3>2
  <2> QED
    BY <2>1, <2>2, <2>3 DEF IInv, SoundInv, Sound
<1> QED
  BY <1>7, <1>8, <1>9, <1>10, <1>11, <1>12, <1>13, <1>14 DEF IInv

(* The four ways to ask. *)
LEMMA AskingsKeep ==
    ASSUME IInv, Write \/ (Translate /\ Missing(present) # {}) \/ TranslateTheRest \/ DraftExamples
    PROVE  IInv'
<1>t. present \in Document /\ RunTypes /\ Missing(present) \in SUBSET Messages
  BY DEF IInv, TypeOK, SessionTypes, Missing
<1>n. <<>> \in Seq(Proposals) /\ <<>> \in Seq(Document) /\ {} \in SUBSET Messages /\ (\A r \in Runs : NoProposal \in Held(r))
      /\ NoProposal.of = None
  BY DEF Held, NoProposal
<1>r. "prompt" \in Runs /\ "translation" \in Runs /\ "draft" \in Runs
  BY DEF Runs
<1>1. CASE Write
  <2>1. Asking("prompt", [shown |-> <<present>>, after |-> <<>>, sent |-> {}], NoProposal, runs["prompt"].running)
    BY <1>1 DEF Write, Busy, Over
  <2>2. <<present>> \in Seq(Document) /\ <<present>> # <<>>
    BY <1>t
  <2> QED
    BY <1>t, <1>n, <1>r, <2>1, <2>2, AskingKeeps
<1>2. CASE Translate /\ Missing(present) # {}
  <2>1. Asking("translation", [shown |-> <<>>, after |-> <<>>, sent |-> Missing(present)], NoProposal,
               runs["translation"].running)
    BY <1>2 DEF Translate, Busy, Over
  <2> QED
    BY <1>t, <1>n, <1>r, <2>1, AskingKeeps
<1>3. CASE TranslateTheRest
  <2> DEFINE p == runs["translation"].proposal
             rest == Missing(p.document)
  <2>1. p.of # None /\ Asking("translation", [shown |-> <<>>, after |-> <<p>>, sent |-> rest], p,
                              runs["translation"].running)
    BY <1>3 DEF TranslateTheRest, Busy, Reviewed
  <2>2. p \in Held("translation") /\ p \in Proposals
    BY <1>t, <1>n, <1>r, <2>1 DEF RunTypes, Held
  <2>3. Sound(p)
    BY <2>1 DEF IInv, SoundInv
  <2>4. rest \in SUBSET Messages
    BY DEF Missing
  <2>5. <<p>> \in Seq(Proposals) /\ <<p>>[1] = p
    BY <2>2
  <2> HIDE DEF rest
  <2> QED
    BY <1>n, <1>r, <2>1, <2>2, <2>3, <2>4, <2>5, AskingKeeps
<1>4. CASE DraftExamples
  <2>1. Asking("draft", [shown |-> <<>>, after |-> <<>>, sent |-> {}], NoProposal, runs["draft"].running)
    BY <1>4 DEF DraftExamples, Over
  <2> QED
    BY <1>t, <1>n, <1>r, <2>1, AskingKeeps
<1> QED
  BY <1>1, <1>2, <1>3, <1>4

-----------------------------------------------------------------------------
LEMMA InitHolds == Init => IInv
<1> SUFFICES ASSUME Init PROVE IInv
  OBVIOUS
<1> USE BoundsAssumption
<1>1. Nothing \in Holders /\ Nothing.proposal = NoProposal /\ Nothing.running = None /\ NoProposal.of = None
      /\ \A r \in Runs : NoProposal \in Held(r)
  BY DEF Nothing, Holders, Held, NoProposal
<1>2. \A r \in Runs : runs[r] = Nothing
  BY DEF Init
<1>3. DOMAIN asks = {}
  BY DEF Init
<1>4. TypeOK
  <2>1. \A f \in Forms : Fresh(f) \in Document
    BY DEF Fresh, Document, Writers
  <2>2. SessionTypes
    BY <2>1 DEF Init, SessionTypes
  <2>3. RunTypes
    BY <1>1, <1>2 DEF Init, RunTypes
  <2>4. AskTypes /\ CountTypes
    BY <1>3 DEF Init, AskTypes, CountTypes, Live
  <2> QED
    BY <2>2, <2>3, <2>4 DEF TypeOK
<1>5. InFlight /\ Awaited /\ Carried /\ Direct /\ Stops
  BY <1>1, <1>2, <1>3 DEF Init, InFlight, Awaited, Carried, Direct, Stops, Live, Busy
<1>6. HeldInv /\ SoundInv
  <2>1. "prompt" \in Runs /\ "translation" \in Runs
    BY DEF Runs
  <2> QED
    BY <1>1, <1>2, <1>3, <2>1 DEF HeldInv, SoundInv, Live
<1> QED
  BY <1>4, <1>5, <1>6 DEF IInv

LEMMA NextKeeps == IInv /\ [Next]_vars => IInv'
<1> SUFFICES ASSUME IInv, [Next]_vars PROVE IInv'
  OBVIOUS
<1>1. CASE UNCHANGED vars
  <2>1. UNCHANGED <<present, past, future, runs, asks, relay, out, edits, asked, stopped>>
    BY <1>1 DEF vars
  <2>2. SessionTypes' /\ edits' \in 0 .. MaxEdits /\ runs' \in [Runs -> Holders]
    BY <2>1 DEF IInv, TypeOK, SessionTypes, CountTypes, RunTypes
  <2> QED
    BY <2>1, <2>2, AskingsStay, NothingEnds
<1>2. CASE EditByHand \/ Undo \/ Redo \/ Reopen
  BY <1>2, SessionKeeps
<1>3. CASE OpenForm \/ \E r \in Runs : PressStop(r) \/ Discard(r)
  BY <1>3, StopsKeep
<1>4. CASE LetDraftGo \/ \E r \in Runs : Apply(r)
  BY <1>4, LettingGoKeeps
<1>5. CASE Translate
  BY <1>5, LettingGoKeeps, AskingsKeep
<1>6. CASE Write \/ TranslateTheRest \/ DraftExamples
  BY <1>6, AskingsKeep
<1>7. CASE PasteAnswer
  BY <1>7, AnswerKeeps
<1>8. ASSUME NEW i \in out, HostAnswers(i) PROVE IInv'
  BY <1>8, AnswerKeeps, LettingGoKeeps
<1>9. ASSUME NEW i \in Live, EndsWithNothing(i) \/ EndsWithAnAnswer(i) \/ AsksAgain(i) PROVE IInv'
  BY <1>9, EndingsKeep, AskingAgainKeeps
<1> QED
  BY <1>1, <1>2, <1>3, <1>4, <1>5, <1>6, <1>7, <1>8, <1>9 DEF Next

LEMMA Invariance == Spec => []IInv
BY InitHolds, NextKeeps, PTL DEF Spec

(* ModelRuns!TypeOK, with what each run may hold: a draft an answer's name, *)
(* the others a proposal.                                                   *)
THEOREM TypeCorrect == Spec => []TypeOK
<1>1. IInv => TypeOK
  BY DEF IInv
<1> QED
  BY <1>1, Invariance, PTL

(* ModelRuns!EveryWaitHasItsStop: nothing waits that no Stop reaches, and no *)
(* turn stays on the relay for a run that is gone.                           *)
THEOREM WaitsCanBeStopped == Spec => []EveryWaitHasItsStop
<1>1. IInv => EveryWaitHasItsStop
  <2> SUFFICES ASSUME IInv PROVE EveryWaitHasItsStop
    OBVIOUS
  <2>1. \A r \in Runs : Busy(r) => runs[r].running \in Live /\ asks[runs[r].running].run = r
    BY DEF IInv, InFlight
  <2>2. relay # None => /\ relay \in Live /\ asks[relay].turn = "waiting"
                        /\ runs[asks[relay].run].running = relay
    BY DEF IInv, Carried, Awaited
  <2>3. \A i \in Live : asks[i].turn = "waiting" /\ asks[i].host = "relay" => relay = i
    BY DEF IInv, Carried
  <2> QED
    BY <2>1, <2>2, <2>3 DEF EveryWaitHasItsStop
<1> QED
  BY <1>1, Invariance, PTL

(* ModelRuns!HeldIsWhatWasAsked: no run holds the answer to an asking that *)
(* was stopped or forgotten, or to another run's.                          *)
THEOREM HeldWasAsked == Spec => []HeldIsWhatWasAsked
<1>1. IInv => HeldIsWhatWasAsked
  BY DEF IInv, HeldInv, HeldIsWhatWasAsked
<1> QED
  BY <1>1, Invariance, PTL

-----------------------------------------------------------------------------
(* The document grows a step of undo, and a run lets go of what it held, *)
(* only when that is applied.                                            *)
LEMMA OnlyApplyLands ==
    ASSUME IInv, Next, NEW r \in {"prompt", "translation"},
           runs[r].proposal.of # None, runs'[r].proposal.of = None, past' = Append(past, present)
    PROVE  Apply(r)
<1>1. r \in Runs /\ RunTypes
  BY DEF Runs, IInv, TypeOK
<1>2. past' # past /\ past' # <<>>
  <2>1. past \in Seq(Document) /\ present \in Document
    BY DEF IInv, TypeOK, SessionTypes
  <2> QED
    BY <2>1
<1>3. ~(EditByHand \/ Undo \/ Redo \/ Reopen \/ OpenForm)
  BY <1>2 DEF EditByHand, Undo, Redo, Reopen, OpenForm
<1>4. ~UNCHANGED session
  BY <1>2 DEF session
<1>5. ~(Write \/ Translate \/ TranslateTheRest \/ DraftExamples \/ LetDraftGo \/ PasteAnswer)
  BY <1>4 DEF Write, Translate, TranslateTheRest, DraftExamples, LetDraftGo, PasteAnswer, Asking
<1>6. \A q \in Runs : ~PressStop(q) /\ ~Discard(q)
  BY <1>4 DEF PressStop, Discard
<1>7. /\ \A i \in out : ~HostAnswers(i)
      /\ \A i \in Live : ~EndsWithNothing(i) /\ ~EndsWithAnAnswer(i) /\ ~AsksAgain(i)
  BY <1>4 DEF HostAnswers, EndsWithNothing, EndsWithAnAnswer, AsksAgain
<1>8. PICK q \in Runs : Apply(q)
  BY <1>3, <1>5, <1>6, <1>7 DEF Next
<1>9. q = r
  BY <1>1, <1>8 DEF Apply, RunTypes
<1> QED
  BY <1>8, <1>9

(* ModelRuns!LandingLosesNothing: a prompt's answer, a whole document, lands *)
(* only on the document its model was shown, and a translation lands as the  *)
(* words that were missing, whatever was edited, undone, reopened or         *)
(* translated meanwhile.                                                     *)
THEOREM LandingsLoseNothing == Spec => LandingLosesNothing
<1> DEFINE Lands(r) ==
             LET p == runs[r].proposal IN
             (p.of # None /\ runs'[r].proposal.of = None /\ past' = Append(past, present)) =>
                /\ r = "prompt" => present = p.shown[1]
                /\ r = "translation" =>
                      /\ present'.form = present.form /\ present'.edits = present.edits
                      /\ \A m \in Messages :
                            present.words[m] # "nobody" => present'.words[m] = present.words[m]
<1>1. ASSUME IInv, Next, NEW r \in {"prompt", "translation"} PROVE Lands(r)
  <2> DEFINE p == runs[r].proposal
  <2> SUFFICES ASSUME p.of # None, runs'[r].proposal.of = None, past' = Append(past, present)
               PROVE  /\ r = "prompt" => present = p.shown[1]
                      /\ r = "translation" =>
                            /\ present'.form = present.form /\ present'.edits = present.edits
                            /\ \A m \in Messages :
                                  present.words[m] # "nobody" => present'.words[m] = present.words[m]
    OBVIOUS
  <2>1. Apply(r)
    BY <1>1, OnlyApplyLands
  <2>2. present = p.basedOn /\ present' = p.document
    BY <2>1 DEF Apply, Applies, Commit
  <2>3. CASE r = "prompt"
    BY <1>1, <2>2, <2>3 DEF IInv, SoundInv
  <2>4. CASE r = "translation"
    <3>1. Sound(p)
      BY <1>1, <2>4 DEF IInv, SoundInv
    <3> QED
      BY <2>2, <2>4, <3>1 DEF Sound
  <2> QED
    BY <1>1, <2>3, <2>4
<1>2. IInv /\ [Next]_vars => [\A r \in {"prompt", "translation"} : Lands(r)]_vars
  BY <1>1
<1> QED
  BY <1>2, Invariance, PTL DEF Spec, LandingLosesNothing
=============================================================================
