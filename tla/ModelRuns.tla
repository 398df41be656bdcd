------------------------------ MODULE ModelRuns ------------------------------
(***************************************************************************)
(* The builder asks a model for a form (the prompt run), for the messages  *)
(* a language is missing (the translation run) and for examples (the draft *)
(* run).  A page holds the three runs, one builder session and one relay:  *)
(* a model whose turns a person carries by hand.  While a run waits the    *)
(* person goes on editing, undoes, looks at the text and comes back to a   *)
(* new session, presses Stop, asks again or opens another form.            *)
(*                                                                         *)
(* A press, an edit and a host's answer are steps of their own; what they  *)
(* settle is taken up in promise continuations, which run before the next  *)
(* of them (Quiet).  A document is the form's id, the edits in it and who  *)
(* wrote each message of the one language asked for.                       *)
(***************************************************************************)
EXTENDS Integers, Sequences, FiniteSets, SequencesExt

CONSTANTS Messages,   \* the messages of the language that may be missing
          Forms,      \* the ids a document may have
          Hosts,      \* the hosts asked: "relay", "direct", or both
          Attempts,   \* turns a run takes at most
          MaxEdits,   \* bound: edits by hand
          MaxParts,   \* bound: parts of a document rewritten at once
          MaxAsks     \* bound: runs asked

ASSUME BoundsAssumption ==
    /\ Hosts \subseteq {"relay", "direct"}
    /\ Attempts \in Nat \ {0} /\ MaxEdits \in Nat /\ MaxParts \in Nat /\ MaxAsks \in Nat

Runs == {"prompt", "translation", "draft"}
Asks == 1 .. MaxAsks
None == 0
Writers == {"nobody", "hand", "model"}

\* An edit by hand is the number it was made as, a model's minus its asking.
Document == [form : Forms, edits : SUBSET (-MaxAsks .. MaxEdits),
             words : [Messages -> Writers]]

Fresh(f) == [form |-> f, edits |-> {}, words |-> [m \in Messages |-> "nobody"]]

VARIABLES
    present,   \* session.ts: the document on the page
    past,      \* what undo goes back to
    future,    \* what redo goes on to
    runs,      \* the three holders
    asks,      \* the askings whose promise has not come to its end
    relay,     \* the asking whose turn a person carries, or None
    out,       \* requests a direct host has not answered, ended runs' too
    edits,     \* edits made by hand so far
    asked,     \* runs asked so far
    stopped    \* history: the askings stopped or forgotten

vars == <<present, past, future, runs, asks, relay, out, edits, asked, stopped>>

session == <<present, past, future>>

NoProposal == [of |-> None]
Nothing == [running |-> None, for |-> None, form |-> None, proposal |-> NoProposal]

\* How many parts two documents differ in: the id, an edit, a message.
Apart(doc, other) ==
    (IF doc.form = other.form THEN 0 ELSE 1)
    + Cardinality((doc.edits \ other.edits) \cup (other.edits \ doc.edits))
    + Cardinality({m \in Messages : doc.words[m] # other.words[m]})

\* The whole documents `writer` may write over `doc` as the edit numbered `by`:
\* another id, less of what was in it, its messages taken out or written.
Rewritings(doc, writer, by) ==
    {other \in [form : Forms, edits : SUBSET (doc.edits \cup {by}),
                words : [Messages -> Writers]] :
        /\ \A m \in Messages : other.words[m] \in {doc.words[m], "nobody", writer}
        /\ Apart(doc, other) <= MaxParts}

Missing(doc) == {m \in Messages : doc.words[m] = "nobody"}

Init ==
    /\ \E f \in Forms : present = Fresh(f)
    /\ past = <<>> /\ future = <<>>
    /\ runs = [r \in Runs |-> Nothing]
    /\ asks = <<>> /\ relay = None /\ out = {}
    /\ edits = 0 /\ asked = 0 /\ stopped = {}

Live == DOMAIN asks

\* Nothing settled waits to be taken up: the next event may come.
Quiet == \A i \in Live : asks[i].turn = "waiting"

Busy(r) == runs[r].running # None

-----------------------------------------------------------------------------
(* The session. *)

\* commit: every accepted command is one undo step and abandons the redo branch.
Commit(doc) ==
    /\ present' = doc
    /\ past' = Append(past, present)
    /\ future' = <<>>

EditByHand ==
    /\ Quiet /\ edits < MaxEdits
    /\ edits' = edits + 1
    /\ \/ Commit([present EXCEPT !.edits = @ \cup {edits'}])
       \/ \E m \in Messages : Commit([present EXCEPT !.words[m] = "hand"])
    /\ UNCHANGED <<runs, asks, relay, out, asked, stopped>>

Undo ==
    /\ Quiet /\ past # <<>>
    /\ future' = Append(future, present)
    /\ present' = Last(past)
    /\ past' = Front(past)
    /\ UNCHANGED <<runs, asks, relay, out, edits, asked, stopped>>

Redo ==
    /\ Quiet /\ future # <<>>
    /\ past' = Append(past, present)
    /\ present' = Last(future)
    /\ future' = Front(future)
    /\ UNCHANGED <<runs, asks, relay, out, edits, asked, stopped>>

\* The page shows the text, where any part of the document may be written over,
\* and then the builder again: a new session over what the text says.  The
\* session an asking was made in keeps the document it had.
Reopen ==
    /\ Quiet /\ edits < MaxEdits
    /\ edits' = edits + 1
    /\ present' \in Rewritings(present, "hand", edits')
    /\ past' = <<>> /\ future' = <<>>
    /\ asks' = [i \in Live |->
                 [asks[i] EXCEPT !.session = IF @ = <<>> THEN <<present>> ELSE @]]
    /\ UNCHANGED <<runs, relay, out, asked, stopped>>

-----------------------------------------------------------------------------
(* A turn, raced against its stop. *)

\* The turn is taken: by the relay if no other turn waits there, refused as
\* busy if one does, and by any other host always.  It is taken among the
\* askings `others`, with `carried` on the relay.
Take(i, ask, others, carried) ==
    LET full == ask.host = "relay" /\ carried # None
    IN  /\ asks' = [j \in {i} \cup DOMAIN others |->
                     IF j = i THEN [ask EXCEPT !.turn = IF full THEN "busy" ELSE "waiting"]
                     ELSE others[j]]
        /\ relay' = IF ask.host = "relay" /\ ~full THEN i ELSE carried
        /\ out' = IF ask.host = "direct" THEN out \cup {i} ELSE out

\* Slip: the turn is left to its host, which was told to cancel and may not.
SlipNotRaced(i) == asks

\* A stop ends the turn waiting at once, whatever its host does about it.
Ended(i) == IF i = None THEN asks ELSE [asks EXCEPT ![i].turn = "stopped"]

\* Slip: the relay is not told that its turn is over.
SlipKeepsTurn(i) == relay

\* The host is told then, and the relay clears the turn it carries.
Cleared(i) == IF relay = i THEN None ELSE relay

PressStop(r) ==
    LET i == runs[r].running
    IN  /\ Quiet /\ Busy(r)
        /\ asks' = Ended(i) /\ relay' = Cleared(i)
        /\ stopped' = stopped \cup {i}
        /\ UNCHANGED <<session, runs, out, edits, asked>>

\* What a person pastes, or a host answers: good, wrong, or a reason why not.
Answers == {"good", "wrong", "declined"}

PasteAnswer ==
    /\ Quiet /\ relay # None
    /\ \E a \in Answers : asks' = [asks EXCEPT ![relay].turn = a]
    /\ relay' = None
    /\ UNCHANGED <<session, runs, out, edits, asked, stopped>>

\* A direct host answers, or cannot be reached; nobody waits on the answer to
\* a turn that is over.
HostAnswers(i) ==
    /\ Quiet /\ i \in out
    /\ out' = out \ {i}
    /\ IF i \in Live
       THEN \E a \in Answers \cup {"unreachable"} :
                asks' = [asks EXCEPT ![i].turn = a]
       ELSE UNCHANGED asks
    /\ UNCHANGED <<session, runs, relay, edits, asked, stopped>>

-----------------------------------------------------------------------------
(* What a good answer is held as. *)

\* proposeEdit: what was answered, against the document it was asked over.
Edited(i, ask, answer) ==
    [of |-> i, shown |-> ask.shown, basedOn |-> ask.shown[1], document |-> answer]

\* Slip: the rest is held against the form as it is now, not the first's basis.
SlipRestRebased(current, ask) == current

Basis(current, ask) == IF ask.after = <<>> THEN current ELSE ask.after[1].basedOn

\* proposeTranslation: over the document the asking's session has now, only
\* what is still missing there; the rest, over the first answer and its basis.
Translated(i, ask, wrote) ==
    LET current == IF ask.session = <<>> THEN present ELSE ask.session[1]
        start == IF ask.after = <<>> THEN current ELSE ask.after[1].document
    IN  [of |-> i, shown |-> <<>>, basedOn |-> Basis(current, ask),
         document |-> [start EXCEPT !.words =
             [m \in Messages |-> IF m \in wrote \cap Missing(start)
                                 THEN "model" ELSE start.words[m]]]]

\* A translation that wrote nothing offers nothing to review.
Reviewed(p) == p.of # None /\ p.document # p.basedOn

\* The run's ending, taken only while it is still the run in flight.
Ending(i, proposal) ==
    /\ runs' = IF runs[asks[i].run].running = i
               THEN [runs EXCEPT ![asks[i].run].running = None,
                                 ![asks[i].run].proposal = proposal]
               ELSE runs
    /\ asks' = [j \in Live \ {i} |-> asks[j]]

Kept(i) == runs[asks[i].run].proposal

EndsWithNothing(i) ==
    /\ \/ asks[i].turn \in {"stopped", "busy", "unreachable", "declined"}
       \/ asks[i].turn = "wrong" /\ asks[i].attempt = Attempts
    /\ Ending(i, Kept(i))
    /\ UNCHANGED <<session, relay, out, edits, asked, stopped>>

EndsWithAnAnswer(i) ==
    /\ asks[i].turn = "good"
    /\ \/ /\ asks[i].run = "prompt"
          /\ \E answer \in Rewritings(asks[i].shown[1], "model", -i) :
                Ending(i, Edited(i, asks[i], answer))
       \/ asks[i].run = "draft" /\ Ending(i, [of |-> i])
       \/ /\ asks[i].run = "translation"
          /\ \E wrote \in SUBSET asks[i].sent : Ending(i, Translated(i, asks[i], wrote))
    /\ UNCHANGED <<session, relay, out, edits, asked, stopped>>

\* Slip: the turns are not counted against the limit.
SlipAsksForEver(i) ==
    /\ asks[i].turn = "wrong"
    /\ Take(i, [asks[i] EXCEPT !.attempt = @ + 1], asks, relay)
    /\ UNCHANGED <<session, runs, edits, asked, stopped>>

\* An answer that failed its check is asked again with the complaint.
AsksAgain(i) ==
    /\ asks[i].turn = "wrong" /\ asks[i].attempt < Attempts
    /\ Take(i, [asks[i] EXCEPT !.attempt = @ + 1], asks, relay)
    /\ UNCHANGED <<session, runs, edits, asked, stopped>>

-----------------------------------------------------------------------------
(* Asking. *)

\* A run asked now: in flight at once, its first turn taken in the same step.
\* The run it forgets, if any, gives up its turn before and ends after.
Asking(r, ask, keeping, forgotten) ==
    /\ asked < MaxAsks
    /\ asked' = asked + 1
    /\ runs' = [runs EXCEPT ![r] =
                 [running |-> asked', for |-> asked', proposal |-> keeping,
                  form |-> IF r = "draft" THEN present.form ELSE None]]
    /\ \E h \in Hosts :
          Take(asked',
               [run |-> r, host |-> h, attempt |-> 1, turn |-> "waiting", session |-> <<>>,
                shown |-> ask.shown, after |-> ask.after, sent |-> ask.sent],
               Ended(forgotten), Cleared(forgotten))
    /\ stopped' = stopped \cup ({forgotten} \ {None})
    /\ UNCHANGED <<session, edits>>

\* A prompt shows its model the document, a translation the messages it lacks.
Over(shown, sent) == [shown |-> shown, after |-> <<>>, sent |-> sent]

Write ==
    /\ Quiet /\ ~Busy("prompt")
    /\ Asking("prompt", Over(<<present>>, {}), NoProposal, None)

\* With nothing missing no model is asked, and the run comes to nothing.
Translate ==
    /\ Quiet /\ ~Busy("translation")
    /\ IF Missing(present) # {}
       THEN Asking("translation", Over(<<>>, Missing(present)), NoProposal, None)
       ELSE /\ runs["translation"] # Nothing
            /\ runs' = [runs EXCEPT !["translation"] = Nothing]
            /\ UNCHANGED <<session, asks, relay, out, edits, asked, stopped>>

TranslateTheRest ==
    LET p == runs["translation"].proposal
    IN  /\ Quiet /\ ~Busy("translation") /\ Reviewed(p) /\ Missing(p.document) # {}
        /\ Asking("translation",
                  [shown |-> <<>>, after |-> <<p>>, sent |-> Missing(p.document)],
                  p, None)

\* Nothing while a run for this form waits; one for another form is forgotten.
DraftExamples ==
    /\ Quiet
    /\ Busy("draft") => runs["draft"].form # present.form
    /\ Asking("draft", Over(<<>>, {}), NoProposal, runs["draft"].running)

-----------------------------------------------------------------------------
(* Deciding. *)

\* applyProposal: refused when the form has moved since the answer's basis, or
\* when the answer changes nothing; otherwise one command of the session.
Applies(p) == present = p.basedOn /\ p.document # p.basedOn

Apply(r) ==
    LET p == runs[r].proposal
    IN  /\ Quiet /\ r \in {"prompt", "translation"}
        /\ ~Busy(r) /\ p.of # None /\ Applies(p)
        /\ Commit(p.document)
        /\ runs' = [runs EXCEPT ![r] = Nothing]
        /\ UNCHANGED <<asks, relay, out, edits, asked, stopped>>

\* Keep or Discard on a draft, offered over a session of its form only.
LetDraftGo ==
    /\ Quiet /\ runs["draft"].proposal.of # None
    /\ runs["draft"].form = present.form
    /\ runs' = [runs EXCEPT !["draft"].proposal = NoProposal]
    /\ UNCHANGED <<session, asks, relay, out, edits, asked, stopped>>

\* A run waiting is stopped and forgotten: its ending lands nowhere.
Discard(r) ==
    LET i == runs[r].running
    IN  /\ Quiet /\ runs[r] # Nothing
        /\ runs' = [runs EXCEPT ![r] = Nothing]
        /\ asks' = Ended(i) /\ relay' = Cleared(i)
        /\ stopped' = stopped \cup ({i} \ {None})
        /\ UNCHANGED <<session, out, edits, asked>>

\* Another form is opened: every run is forgotten and a session opened over it.
OpenForm ==
    LET inFlight == {runs[r].running : r \in Runs} \ {None}
    IN  /\ Quiet /\ edits < MaxEdits
        /\ edits' = edits + 1
        /\ \E f \in Forms \ {present.form} : present' = Fresh(f)
        /\ past' = <<>> /\ future' = <<>>
        /\ runs' = [r \in Runs |-> Nothing]
        /\ asks' = [i \in Live |-> IF i \in inFlight THEN [asks[i] EXCEPT !.turn = "stopped"]
                                   ELSE asks[i]]
        /\ relay' = IF relay \in inFlight THEN None ELSE relay
        /\ stopped' = stopped \cup inFlight
        /\ UNCHANGED <<out, asked>>

Next ==
    \/ EditByHand \/ Undo \/ Redo \/ Reopen \/ OpenForm
    \/ Write \/ Translate \/ TranslateTheRest \/ DraftExamples \/ LetDraftGo
    \/ \E r \in Runs : PressStop(r) \/ Apply(r) \/ Discard(r)
    \/ PasteAnswer
    \/ \E i \in out : HostAnswers(i)
    \/ \E i \in Live : EndsWithNothing(i) \/ EndsWithAnAnswer(i) \/ AsksAgain(i)

Spec == Init /\ [][Next]_vars

-----------------------------------------------------------------------------
(* Properties. *)

Turns == Answers \cup {"waiting", "busy", "stopped", "unreachable"}

Proposals == [of : Asks, shown : Seq(Document), basedOn : Document, document : Document]

\* What a run may hold: a draft is kept as the asking it answers, no more.
Held(r) == {NoProposal} \cup (IF r = "draft" THEN [of : Asks] ELSE Proposals)

Askings ==
    {ask \in [run : Runs, host : Hosts, attempt : 1 .. Attempts, turn : Turns,
              session : Seq(Document), shown : Seq(Document), after : Seq(Proposals),
              sent : SUBSET Messages] :
        ask.run = "prompt" => ask.shown # <<>>}

SessionTypes ==
    /\ present \in Document
    /\ past \in Seq(Document) /\ future \in Seq(Document)

Holders == [running : Asks \cup {None}, for : Asks \cup {None}, form : Forms \cup {None},
            proposal : Held("draft") \cup Held("prompt")]

RunTypes == runs \in [Runs -> Holders] /\ \A r \in Runs : runs[r].proposal \in Held(r)

AskTypes == \A i \in Live : i \in 1 .. asked /\ asks[i] \in Askings

CountTypes ==
    /\ relay \in Asks \cup {None} /\ out \subseteq 1 .. asked
    /\ edits \in 0 .. MaxEdits /\ asked \in 0 .. MaxAsks /\ stopped \subseteq Asks

\* The types: a run in flight is one asked, an asking is one of the three runs'.
TypeOK == SessionTypes /\ RunTypes /\ AskTypes /\ CountTypes

\* Whatever waits can be ended: a run drawn waiting has an asking its Stop
\* reaches, the turn on the relay is that of a run still in flight, and every
\* asking that waits on a person is the one whose turn the relay shows.  A
\* turn left on the relay by a run that is gone would refuse every later run
\* as busy, and a run left waiting on none would wait for good.
EveryWaitHasItsStop ==
    /\ \A r \in Runs : Busy(r) => /\ runs[r].running \in Live
                                  /\ asks[runs[r].running].run = r
    /\ relay # None => /\ relay \in Live
                       /\ asks[relay].turn = "waiting"
                       /\ runs[asks[relay].run].running = relay
    /\ \A i \in Live : asks[i].turn = "waiting" /\ asks[i].host = "relay" => relay = i

\* What a run holds is the answer to the asking it names: never that of one
\* stopped or forgotten, whenever its host answered, and never another's.
HeldIsWhatWasAsked ==
    \A r \in Runs : LET of == runs[r].proposal.of IN
        of # None => /\ of \notin stopped
                     /\ r # "translation" => of = runs[r].for

\* An answer that lands replaces nothing its review did not show.  One to a
\* prompt is a whole document, and may leave out what it was shown: it lands
\* only on the very document the model was shown.  A translation writes over a
\* form that moved while it was made, and over the answer it continues: it
\* lands as the words that were missing, and nothing else, so no edit made
\* meanwhile and no word a person wrote is lost.
LandingLosesNothing ==
    [][\A r \in {"prompt", "translation"} :
         LET p == runs[r].proposal IN
         (p.of # None /\ runs'[r].proposal.of = None /\ past' = Append(past, present)) =>
            /\ r = "prompt" => present = p.shown[1]
            /\ r = "translation" =>
                  /\ present'.form = present.form /\ present'.edits = present.edits
                  /\ \A m \in Messages :
                        present.words[m] # "nobody" => present'.words[m] = present.words[m]]_vars
=============================================================================
