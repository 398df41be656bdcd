------------------------------ MODULE FillPane ------------------------------
(***************************************************************************)
(* The pane that fills in a published form with a draft behind it          *)
(* (apps/admin/src/fill-pane.tsx, public-plane.ts), against the drafts and *)
(* the submissions of the server.                                          *)
(*                                                                         *)
(* A page is one mounting of the pane.  A reload ends it; leaving the tab  *)
(* unmounts it and leaves what it awaits running, with its own refs, while *)
(* the next one is mounted.  All of them share what the browser remembers. *)
(* What was typed is a set of edits.  A response is named by the page and  *)
(* the number of responses it had seen stored when it was begun.           *)
(***************************************************************************)
EXTENDS Integers

CONSTANTS
    MaxPages,   \* how often the pane is mounted
    MaxEdits,   \* edits a person makes, in all
    MaxSends,   \* presses of Submit
    MaxLost,    \* requests that fail, or whose answer is lost
    None        \* no token: a read-only draft is not sent

Pages == 1..MaxPages
Edits == 1..MaxEdits
Drafts == 1..MaxEdits
FormToken(n) == [of |-> "form", id |-> n]
DraftToken(d) == [of |-> "draft", id |-> d]
Tokens == [of : {"form", "draft"}, id : Nat]
Responses == Pages \X Nat
Answers == {"none", "ok", "spent", "refused"}

ASSUME BoundsAssumption ==
    /\ MaxPages \in Nat /\ MaxEdits \in Nat /\ MaxSends \in Nat /\ MaxLost \in Nat
    /\ None \notin Tokens

VARIABLES
    page,        \* the refs and the state of each mounting
    remembered,  \* localStorage: the draft whose key is kept, if any
    row,         \* the server's drafts, and what each holds
    puts,        \* saves under way
    sends,       \* submissions under way
    rows,        \* the submissions stored: response and token
    typed,       \* edits so far
    started,     \* drafts the server has started, and for which response
    fetched,     \* forms fetched, each with a token of its own
    pressed,     \* presses so far
    lost,        \* requests that failed so far
    heard,       \* history: responses a page was told are stored
    reached      \* history: edits a save has brought to the server

vars == <<page, remembered, row, puts, sends, rows, typed, started, fetched, pressed, lost, heard, reached>>
counts == <<typed, fetched, pressed>>

Blank(l) ==
    [at |-> "unborn", asked |-> {}, draft |-> {}, sendWith |-> None, content |-> {}, timer |-> FALSE,
     stored |-> 0, starting |-> "no", waiting |-> {}, readOnly |-> FALSE, told |-> FALSE, resp |-> <<l, 0>>]

\* A save that waits for a start: what it holds, and the responses seen stored.
Waits == [value : SUBSET Edits, before : Nat]

PageStates ==
    [at : {"unborn", "loading", "ready", "stuck", "gone", "dead"},
     asked : SUBSET Drafts, draft : SUBSET Drafts, sendWith : Tokens \cup {None},
     content : SUBSET Edits, timer : BOOLEAN, stored : Nat,
     starting : {"no", "asked", "rejected"}, waiting : SUBSET Waits,
     readOnly : BOOLEAN, told : BOOLEAN, resp : Responses]

AtMostOne(S) == \A x, y \in S : x = y

Puts == [page : Pages, draft : Drafts, value : SUBSET Edits, landed : BOOLEAN]
Sends == [n : 1..MaxSends, page : Pages, token : Tokens, resp : Responses, answer : Answers]

\* A draft that was started and never saved has no row.
Absent == {0}

PageTypes ==
    /\ page \in [Pages -> PageStates]
    /\ \A l \in Pages : /\ AtMostOne(page[l].draft) /\ AtMostOne(page[l].asked)
                        /\ page[l].waiting # {} => page[l].starting = "asked"

RestTypes ==
    /\ remembered \in SUBSET Drafts /\ AtMostOne(remembered)
    /\ row \in [Drafts -> (SUBSET Edits) \cup {Absent}]
    /\ puts \subseteq Puts /\ sends \subseteq Sends
    /\ rows \subseteq [resp : Responses, token : Tokens]
    /\ started \in [Drafts -> Responses \cup {<<>>}]
    /\ typed \in 0..MaxEdits /\ fetched \in Nat /\ pressed \in 0..MaxSends /\ lost \in 0..MaxLost
    /\ heard \subseteq Responses /\ reached \subseteq Edits

TypeOK == PageTypes /\ RestTypes

Init ==
    /\ page = [l \in Pages |-> Blank(l)]
    /\ remembered = {}
    /\ row = [d \in Drafts |-> Absent]
    /\ puts = {} /\ sends = {} /\ rows = {}
    /\ started = [d \in Drafts |-> <<>>]
    /\ typed = 0 /\ fetched = 0 /\ pressed = 0 /\ lost = 0 /\ heard = {} /\ reached = {}

\* The code of a page still runs, mounted or not.
Runs(l) == page[l].at \notin {"unborn", "dead"}

\* The server hands out one id after another.
Fresh(d) == started[d] = <<>> /\ \A e \in 1..(d - 1) : started[e] # <<>>

Lose == lost < MaxLost /\ lost' = lost + 1

-----------------------------------------------------------------------------
\* The pane is mounted, by a reload or by coming back to its tab.  The effect
\* that ends drops the timer and the load under way, and nothing else.
Mount(l, reload) ==
    /\ page[l].at = "unborn"
    /\ \A k \in 1..(l - 1) : page[k].at # "unborn"
    /\ page' = [k \in Pages |->
                   IF k = l THEN [page[l] EXCEPT !.at = "loading", !.asked = remembered]
                   ELSE IF k > l \/ page[k].at = "dead" THEN page[k]
                   ELSE IF reload THEN [Blank(k) EXCEPT !.at = "dead"]
                   ELSE [page[k] EXCEPT !.at = "gone", !.timer = FALSE]]
    /\ UNCHANGED <<remembered, row, puts, sends, rows, started, counts, lost, heard, reached>>

\* The draft comes back, bound to the current version or read-only.
Resumed(l, readOnly) ==
    /\ page[l].at = "loading"
    /\ \E d \in page[l].asked :
        /\ row[d] # Absent
        /\ page' = [page EXCEPT ![l].at = "ready", ![l].draft = {d}, ![l].content = row[d],
                                ![l].sendWith = IF readOnly THEN None ELSE DraftToken(d),
                                ![l].readOnly = readOnly, ![l].resp = started[d]]
    /\ UNCHANGED <<remembered, row, puts, sends, rows, started, counts, lost, heard, reached>>

\* Any answer that is not ok is taken for a draft that is gone: one that was
\* never saved, and a refusal by a limit or a failure of the server.
NotResumed(l) ==
    /\ page[l].at = "loading" /\ page[l].asked # {}
    /\ IF \E d \in page[l].asked : row[d] = Absent THEN UNCHANGED lost ELSE Lose
    /\ remembered' = {}
    /\ page' = [page EXCEPT ![l].asked = {}]
    /\ UNCHANGED <<row, puts, sends, rows, started, counts, heard, reached>>

Fetched(l) ==
    /\ page[l].at = "loading" /\ page[l].asked = {}
    /\ page' = [page EXCEPT ![l].at = "ready", ![l].draft = {}, ![l].content = {}, ![l].readOnly = FALSE,
                            ![l].sendWith = FormToken(fetched + 1), ![l].resp = <<l, page[l].stored>>]
    /\ fetched' = fetched + 1
    /\ UNCHANGED <<remembered, row, puts, sends, rows, started, typed, pressed, lost, heard, reached>>

\* The request fails: the pane says so, or loads for ever.
NotLoaded(l) ==
    /\ page[l].at = "loading"
    /\ Lose
    /\ page' = [page EXCEPT ![l].at = "stuck"]
    /\ UNCHANGED <<remembered, row, puts, sends, rows, started, counts, heard, reached>>

\* A read-only draft is left for the current form.
StartOver(l) ==
    /\ page[l].at = "ready" /\ page[l].readOnly
    /\ remembered' = {}
    /\ page' = [page EXCEPT ![l].at = "loading", ![l].asked = {}, ![l].draft = {}]
    /\ UNCHANGED <<row, puts, sends, rows, started, counts, lost, heard, reached>>

-----------------------------------------------------------------------------
\* A write to the engine sets the timer again.
Edit(l) ==
    /\ page[l].at = "ready" /\ ~page[l].readOnly
    /\ typed < MaxEdits
    /\ typed' = typed + 1
    /\ page' = [page EXCEPT ![l].content = @ \cup {typed + 1}, ![l].timer = TRUE, ![l].told = FALSE]
    /\ UNCHANGED <<remembered, row, puts, sends, rows, started, fetched, pressed, lost, heard, reached>>

Put(l, d, value) == [page |-> l, draft |-> d, value |-> value, landed |-> FALSE]

\* Every save without a draft starts its own.
SlipStartsAgain(l) ==
    /\ page[l].timer
    /\ IF page[l].draft # {}
       THEN /\ page' = [page EXCEPT ![l].timer = FALSE]
            /\ puts' = puts \cup {Put(l, d, page[l].content) : d \in page[l].draft}
            /\ UNCHANGED started
       ELSE \E d \in Drafts :
            /\ Fresh(d)
            /\ started' = [started EXCEPT ![d] = page[l].resp]
            /\ page' = [page EXCEPT ![l].timer = FALSE]
            /\ puts' = puts \cup {Put(l, d, page[l].content)}
    /\ UNCHANGED <<remembered, row, sends, rows, counts, lost, heard, reached>>

\* The quiet is over: save.  A page without a draft waits for the start that is
\* under way, or asks for one; one whose start was rejected throws each time.
Fire(l) ==
    /\ page[l].timer
    /\ IF page[l].draft # {}
       THEN /\ puts' = puts \cup {Put(l, d, page[l].content) : d \in page[l].draft}
            /\ page' = [page EXCEPT ![l].timer = FALSE]
       ELSE /\ page' = [page EXCEPT
                  ![l].timer = FALSE,
                  ![l].starting = IF @ = "no" THEN "asked" ELSE @,
                  ![l].waiting = IF page[l].starting = "rejected" THEN @
                                 ELSE @ \cup {[value |-> page[l].content, before |-> page[l].stored]}]
            /\ UNCHANGED puts
    /\ UNCHANGED <<remembered, row, sends, rows, started, counts, lost, heard, reached>>

\* Only one of the saves that wait for a start goes on.
SlipOneGoesOn(l) ==
    /\ Runs(l) /\ page[l].starting = "asked"
    /\ \E d \in Drafts :
        /\ Fresh(d)
        /\ started' = [started EXCEPT ![d] = page[l].resp]
        /\ \E w \in page[l].waiting : puts' = puts \cup {Put(l, d, w.value)}
        /\ remembered' = {d}
        /\ page' = [page EXCEPT ![l].starting = "no", ![l].waiting = {}, ![l].draft = {d}, ![l].sendWith = DraftToken(d)]
    /\ UNCHANGED <<row, sends, rows, counts, lost, heard, reached>>

\* The saves that waited take the draft, whatever was stored meanwhile.
SlipKeepsStart(l) ==
    /\ Runs(l) /\ page[l].starting = "asked"
    /\ \E d \in Drafts :
        /\ Fresh(d)
        /\ started' = [started EXCEPT ![d] = page[l].resp]
        /\ puts' = puts \cup {Put(l, d, w.value) : w \in page[l].waiting}
        /\ remembered' = {d}
        /\ page' = [page EXCEPT ![l].starting = "no", ![l].waiting = {}, ![l].draft = {d}, ![l].sendWith = DraftToken(d)]
    /\ UNCHANGED <<row, sends, rows, counts, lost, heard, reached>>

\* The start is answered, and every save that waits for it goes on in one turn:
\* those begun before a response was stored let the draft go.
StartAnswered(l) ==
    /\ Runs(l) /\ page[l].starting = "asked"
    /\ LET kept == {w \in page[l].waiting : w.before = page[l].stored}
           ended == [page[l] EXCEPT !.starting = "no", !.waiting = {}]
       IN \E d \in Drafts :
            /\ Fresh(d)
            /\ IF kept = {}
               THEN /\ page' = [page EXCEPT ![l] = ended]
                    /\ UNCHANGED <<remembered, puts, started>>
               ELSE /\ page' = [page EXCEPT ![l] = [ended EXCEPT !.draft = {d}, !.sendWith = DraftToken(d)]]
                    /\ remembered' = {d}
                    /\ puts' = puts \cup {Put(l, d, w.value) : w \in kept}
                    /\ started' = [started EXCEPT ![d] = page[l].resp]
    /\ UNCHANGED <<row, sends, rows, counts, lost, heard, reached>>

\* The saves that wait are kept for a next start.
SlipKeepsWaiting(l, rejected) ==
    /\ Runs(l) /\ page[l].starting = "asked"
    /\ Lose
    /\ page' = [page EXCEPT ![l].starting = IF rejected THEN "rejected" ELSE "no"]
    /\ UNCHANGED <<remembered, row, puts, sends, rows, started, counts, heard, reached>>

\* The start is refused and the saves give up; or its request fails, they throw,
\* and the page keeps the promise that was rejected.
StartFails(l, rejected) ==
    /\ Runs(l) /\ page[l].starting = "asked"
    /\ Lose
    /\ page' = [page EXCEPT ![l].starting = IF rejected THEN "rejected" ELSE "no", ![l].waiting = {}]
    /\ UNCHANGED <<remembered, row, puts, sends, rows, started, counts, heard, reached>>

\* A save reaches the server, in whatever order, and replaces what is there.
Land(p) ==
    /\ ~p.landed
    /\ row' = [row EXCEPT ![p.draft] = p.value]
    /\ reached' = reached \cup p.value
    /\ puts' = (puts \ {p}) \cup {[p EXCEPT !.landed = TRUE]}
    /\ UNCHANGED <<page, remembered, sends, rows, started, counts, lost, heard>>

\* Its answer only changes what the pane says.
PutEnds(p) ==
    /\ IF p.landed THEN UNCHANGED lost ELSE Lose
    /\ puts' = puts \ {p}
    /\ UNCHANGED <<page, remembered, row, sends, rows, started, counts, heard, reached>>

-----------------------------------------------------------------------------
\* Submit is pressed, and the engine finds nothing wrong.
Press(l) ==
    /\ page[l].at = "ready" /\ ~page[l].readOnly /\ page[l].sendWith # None
    /\ pressed < MaxSends
    /\ pressed' = pressed + 1
    /\ sends' = sends \cup {[n |-> pressed + 1, page |-> l, token |-> page[l].sendWith,
                             resp |-> page[l].resp, answer |-> "none"]}
    /\ UNCHANGED <<page, remembered, row, puts, rows, typed, started, fetched, lost, heard, reached>>

Spent(t) == \E r \in rows : r.token = t

\* The server stores a response under a token once, or refuses it.
Serve(s, refuses) ==
    /\ s.answer = "none"
    /\ LET answer == IF refuses THEN "refused" ELSE IF Spent(s.token) THEN "spent" ELSE "ok"
       IN /\ sends' = (sends \ {s}) \cup {[s EXCEPT !.answer = answer]}
          /\ rows' = IF answer = "ok" THEN rows \cup {[resp |-> s.resp, token |-> s.token]} ELSE rows
    /\ UNCHANGED <<page, remembered, row, puts, started, counts, lost, heard, reached>>

\* finish: the draft is done.
Forget(l) ==
    /\ page' = [page EXCEPT ![l].timer = FALSE, ![l].stored = @ + 1, ![l].draft = {}, ![l].told = TRUE,
                            ![l].resp = <<l, page[l].stored + 1>>]
    /\ remembered' = {}

\* A page takes an answer, mounted or not; `already sent` is as good as stored.
Told(s) ==
    /\ s.answer # "none" /\ Runs(s.page)
    /\ sends' = sends \ {s}
    /\ IF s.answer \in {"ok", "spent"}
       THEN Forget(s.page) /\ heard' = heard \cup {s.resp}
       ELSE UNCHANGED <<page, remembered, heard>>
    /\ UNCHANGED <<row, puts, rows, started, counts, lost, reached>>

\* A request, or its answer, is lost, or there is no page to take it.
SendLost(s) ==
    /\ IF Runs(s.page) THEN Lose ELSE UNCHANGED lost
    /\ sends' = sends \ {s}
    /\ UNCHANGED <<page, remembered, row, puts, rows, started, counts, heard, reached>>

Network(l) ==
    \/ \E readOnly \in BOOLEAN : Resumed(l, readOnly)
    \/ NotResumed(l)
    \/ Fetched(l)
    \/ NotLoaded(l)
    \/ StartAnswered(l)
    \/ \E rejected \in BOOLEAN : StartFails(l, rejected)
    \/ \E p \in puts : p.page = l /\ (Land(p) \/ PutEnds(p))
    \/ \E s \in sends : s.page = l /\ ((\E refuses \in BOOLEAN : Serve(s, refuses)) \/ Told(s) \/ SendLost(s))

Next ==
    \/ \E l \in Pages, reload \in BOOLEAN : Mount(l, reload)
    \/ \E l \in Pages : StartOver(l) \/ Edit(l) \/ Fire(l) \/ Press(l) \/ Network(l)

Spec == Init /\ [][Next]_vars

\* Timers fire and requests are answered, well or badly.  Nobody has to type,
\* press or come back.
FairSpec == Spec /\ \A l \in Pages : WF_vars(Fire(l)) /\ WF_vars(Network(l))

-----------------------------------------------------------------------------
\* A response a page was told is stored has no draft the next visit would
\* resume as though nothing had been sent, and a page that was told so starts
\* none until somebody types again: finish() drops the save waiting out the
\* quiet, and a save that was starting its draft meanwhile lets it go.
FinishedIsForgotten ==
    /\ \A d \in remembered : started[d] \notin heard
    /\ \A l \in Pages : page[l].told => \A d \in Drafts : started[d] # page[l].resp

\* However slow the server starts one, a response has at most one draft: the
\* saves made meanwhile wait for the start under way.  A second would replace
\* the first in what the page remembers and leave it with nothing to finish it.
OneDraftAResponse ==
    \A d, e \in Drafts : started[d] = started[e] /\ started[d] # <<>> => d = e

\* With no failure, an edit on a page that stays mounted reaches its draft, also
\* when it was made while the draft was being started or a save was under way,
\* unless the page is told first that its response is stored.
EveryEditIsSaved ==
    \A l \in Pages, e \in Edits :
        (page[l].at = "ready" /\ e \in page[l].content)
            ~> (e \in reached \/ page[l].told \/ page[l].at # "ready" \/ lost > 0)
=============================================================================
