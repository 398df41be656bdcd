--------------------------- MODULE FillPane_proofs ---------------------------
(***************************************************************************)
(* What FillPane promises of drafts and of responses that are stored, for  *)
(* every number of mountings, edits, presses and failures.  The argument:  *)
(* a mounting starts drafts for the response it is at, numbered by what it *)
(* has seen stored; so whatever was started or heard of a response it is   *)
(* past has a smaller number, and what was of the one it is at is in its   *)
(* own draft.                                                              *)
(***************************************************************************)
EXTENDS FillPane, TLAPS

(* A pane that has shown nothing to fill in has started and sent nothing. *)
Untouched(l) ==
    /\ page[l].starting = "no" /\ page[l].waiting = {} /\ ~page[l].timer /\ ~page[l].told
    /\ page[l].stored = 0
    /\ \A d \in Drafts : started[d] # <<>> => started[d][1] # l
    /\ \A s \in sends : s.page # l
    /\ \A x \in heard : x[1] # l

(* A page's draft is that of the response it is at, and a page that starts *)
(* one has none and is at a response of its own.                           *)
Drafted(l) ==
    /\ \A d \in page[l].draft : started[d] = page[l].resp /\ started[d] # <<>>
    /\ \A d \in page[l].asked : started[d] # <<>>
    /\ page[l].at = "ready" /\ page[l].draft = {} => page[l].resp = <<l, page[l].stored>>
    /\ page[l].starting = "asked" => page[l].draft = {} /\ page[l].resp = <<l, page[l].stored>>

(* A save that waits was begun at the response the page is at, or before it; *)
(* and before, once the page was told.                                       *)
Saved(l) ==
    /\ \A w \in page[l].waiting : w.before <= page[l].stored
    /\ page[l].told => /\ page[l].draft = {} /\ ~page[l].timer /\ page[l].resp = <<l, page[l].stored>>
                       /\ \A w \in page[l].waiting : w.before < page[l].stored

(* A timer runs on a pane somebody types in, and on a dead page nothing. *)
Fit(l) ==
    /\ page[l].at \in {"unborn", "loading", "stuck"} \/ page[l].readOnly => Untouched(l)
    /\ page[l].timer => page[l].at = "ready"
    /\ page[l].at = "dead" => ~page[l].told /\ page[l].waiting = {}
    /\ page[l].at = "unborn" => page[l].draft = {}
    /\ Runs(l) => Drafted(l)
    /\ Saved(l)

PageInv == \A l \in Pages : Fit(l)

(* The response x of a page that still runs is past, or is the one its draft is of. *)
Past(x) ==
    Runs(x[1]) => \/ x[2] < page[x[1]].stored
                  \/ x[2] = page[x[1]].stored /\ page[x[1]].draft # {}

StartedInv == \A d \in Drafts : started[d] # <<>> => Past(started[d])

HeardInv == \A x \in heard : Past(x)

SendInv ==
    \A s \in sends : Runs(s.page) =>
        \/ s.resp[1] = s.page /\ s.resp[2] <= page[s.page].stored
        \/ \E d \in Drafts : started[d] # <<>> /\ started[d] = s.resp

RememberedInv == \A d \in remembered : started[d] # <<>> /\ started[d] \notin heard

IInv ==
    /\ TypeOK /\ PageInv /\ StartedInv /\ HeardInv /\ SendInv /\ RememberedInv /\ OneDraftAResponse

-----------------------------------------------------------------------------
(* What the types say of one page. *)
LEMMA PageTyped ==
    ASSUME PageTypes, NEW l \in Pages
    PROVE  /\ page[l] \in PageStates /\ AtMostOne(page[l].draft) /\ AtMostOne(page[l].asked)
           /\ page[l].waiting # {} => page[l].starting = "asked"
BY DEF PageTypes

(* One page changes its type with its record. *)
LEMMA PageTypesKeep ==
    ASSUME PageTypes, NEW l \in Pages, NEW rec \in PageStates, page' = [page EXCEPT ![l] = rec],
           AtMostOne(rec.draft), AtMostOne(rec.asked), rec.waiting # {} => rec.starting = "asked"
    PROVE  /\ PageTypes' /\ page'[l] = rec
           /\ \A k \in Pages : k # l => page'[k] = page[k]
BY DEF PageTypes, AtMostOne

(* The invariant gives what a page that was told has left behind. *)
LEMMA ForgottenFollows == IInv => FinishedIsForgotten
<1> SUFFICES ASSUME IInv PROVE FinishedIsForgotten
  OBVIOUS
<1>1. \A d \in remembered : started[d] \notin heard
  BY DEF IInv, RememberedInv
<1>2. ASSUME NEW l \in Pages, page[l].told, NEW d \in Drafts, started[d] = page[l].resp PROVE FALSE
  <2>1. /\ page[l].draft = {} /\ page[l].resp = <<l, page[l].stored>> /\ page[l].stored \in Nat
        /\ Runs(l)
    BY <1>2 DEF IInv, TypeOK, PageTypes, PageStates, PageInv, Fit, Saved, Untouched, Runs
  <2>2. started[d] = <<l, page[l].stored>> /\ started[d] # <<>>
    BY <1>2, <2>1
  <2>3. started[d][1] = l /\ started[d][2] = page[l].stored
    BY <2>2
  <2> QED
    BY <2>1, <2>2, <2>3 DEF IInv, StartedInv, Past
<1> QED
  BY <1>1, <1>2 DEF FinishedIsForgotten

(* Where no page, draft or response changes, and no send is new. *)
LEMMA SendsShrink ==
    ASSUME IInv, TypeOK', UNCHANGED <<page, started, heard>>, remembered' \subseteq remembered,
           \A s \in sends' : \E t \in sends : t.page = s.page /\ t.resp = s.resp
    PROVE  IInv'
<1>1. PageInv'
  BY DEF IInv, PageInv, Fit, Untouched, Drafted, Saved, Runs
<1>2. StartedInv' /\ HeardInv' /\ RememberedInv' /\ OneDraftAResponse'
  BY DEF IInv, StartedInv, HeardInv, RememberedInv, OneDraftAResponse, Past, Runs
<1>3. SendInv'
  BY DEF IInv, SendInv, Runs
<1> QED
  BY <1>1, <1>2, <1>3 DEF IInv

(* Where one page changes, and no draft, send or response with it: it is at *)
(* the response it was, with a draft if it had one, or has none to its name. *)
LEMMA OnePage ==
    ASSUME IInv, TypeOK', NEW l \in Pages, Fit(l)',
           \A k \in Pages : k # l => page'[k] = page[k],
           UNCHANGED <<started, heard, sends>>, remembered' \subseteq remembered,
           Untouched(l) \/ (Runs(l) /\ page'[l].stored = page[l].stored
                             /\ (page'[l].draft = {} => page[l].draft = {}))
    PROVE  IInv'
<1>1. ASSUME NEW k \in Pages PROVE Fit(k)'
  BY DEF IInv, PageInv, Fit, Untouched, Drafted, Saved, Runs
<1>2. ASSUME NEW x, x[1] \in Pages, Past(x), Untouched(l) => x[1] # l PROVE Past(x)'
  BY <1>2 DEF Past, Runs
<1>3. StartedInv'
  <2> SUFFICES ASSUME NEW d \in Drafts, started[d] # <<>> PROVE Past(started[d])'
    BY DEF StartedInv
  <2>1. started[d] \in Responses /\ Past(started[d])
    BY DEF IInv, TypeOK, RestTypes, StartedInv
  <2>2. Untouched(l) => started[d][1] # l
    BY DEF Untouched
  <2> QED
    BY <1>2, <2>1, <2>2 DEF Responses
<1>4. HeardInv'
  <2> SUFFICES ASSUME NEW x \in heard PROVE Past(x)'
    BY DEF HeardInv
  <2>1. x \in Responses /\ Past(x)
    BY DEF IInv, TypeOK, RestTypes, HeardInv
  <2>2. Untouched(l) => x[1] # l
    BY DEF Untouched
  <2> QED
    BY <1>2, <2>1, <2>2 DEF Responses
<1>5. SendInv'
  <2> SUFFICES ASSUME NEW s \in sends, Runs(s.page)'
               PROVE  \/ s.resp[1] = s.page /\ s.resp[2] <= page'[s.page].stored
                      \/ \E d \in Drafts : started[d] # <<>> /\ started[d] = s.resp
    BY DEF SendInv
  <2>1. s.page \in Pages
    BY DEF IInv, TypeOK, RestTypes, Sends
  <2>2. Runs(s.page) /\ page'[s.page].stored = page[s.page].stored
    BY <2>1 DEF Untouched, Runs
  <2> QED
    BY <2>2 DEF IInv, SendInv
<1>6. RememberedInv' /\ OneDraftAResponse'
  BY DEF IInv, RememberedInv, OneDraftAResponse
<1> QED
  BY <1>1, <1>3, <1>4, <1>5, <1>6 DEF IInv, PageInv

-----------------------------------------------------------------------------
(* What the server and the network do leaves every page as it is. *)
LEMMA ServerKeeps ==
    ASSUME IInv,
           \/ \E p \in puts : Land(p) \/ PutEnds(p)
           \/ \E s \in sends : (\E refuses \in BOOLEAN : Serve(s, refuses)) \/ SendLost(s)
    PROVE  IInv'
<1> USE BoundsAssumption
<1>t. TypeOK
  BY DEF IInv
<1>1. ASSUME NEW p \in puts, Land(p) PROVE IInv'
  <2>1. p \in Puts /\ [p EXCEPT !.landed = TRUE] \in Puts
    <3>1. p \in Puts
      BY <1>t DEF TypeOK, RestTypes
    <3> QED
      BY <3>1 DEF Puts
  <2>2. p.draft \in Drafts /\ p.value \in SUBSET Edits
    BY <2>1 DEF Puts
  <2>3. TypeOK'
    BY <1>1, <1>t, <2>1, <2>2 DEF TypeOK, PageTypes, RestTypes, Land, counts
  <2> QED
    BY <1>1, <2>3, SendsShrink DEF Land
<1>2. ASSUME NEW p \in puts, PutEnds(p) PROVE IInv'
  <2>1. lost' \in 0..MaxLost
    BY <1>2, <1>t DEF PutEnds, Lose, TypeOK, RestTypes
  <2>2. TypeOK'
    BY <1>2, <1>t, <2>1 DEF TypeOK, PageTypes, RestTypes, PutEnds, counts
  <2> QED
    BY <1>2, <2>2, SendsShrink DEF PutEnds
<1>3. ASSUME NEW s \in sends, NEW refuses \in BOOLEAN, Serve(s, refuses) PROVE IInv'
  <2> DEFINE answer == IF refuses THEN "refused" ELSE IF Spent(s.token) THEN "spent" ELSE "ok"
             t == [s EXCEPT !.answer = answer]
  <2>1. s \in Sends /\ answer \in Answers
    BY <1>t DEF TypeOK, PageTypes, RestTypes, Answers
  <2>2. sends' = (sends \ {s}) \cup {t} /\ UNCHANGED <<page, remembered, row, puts, started, counts, lost, heard, reached>>
    BY <1>3 DEF Serve
  <2>3. rows' \subseteq rows \cup {[resp |-> s.resp, token |-> s.token]}
    BY <1>3 DEF Serve
  <2> HIDE DEF answer
  <2>4. t \in Sends /\ t.page = s.page /\ t.resp = s.resp
    BY <2>1 DEF Sends
  <2>5. [resp |-> s.resp, token |-> s.token] \in [resp : Responses, token : Tokens]
    BY <2>1 DEF Sends
  <2> HIDE DEF t
  <2>6. TypeOK'
    BY <1>t, <2>2, <2>3, <2>4, <2>5 DEF TypeOK, PageTypes, RestTypes, counts
  <2> QED
    BY <2>2, <2>4, <2>6, SendsShrink
<1>4. ASSUME NEW s \in sends, SendLost(s) PROVE IInv'
  <2>1. lost' \in 0..MaxLost
    BY <1>4, <1>t DEF SendLost, Lose, TypeOK, RestTypes
  <2>2. TypeOK'
    BY <1>4, <1>t, <2>1 DEF TypeOK, PageTypes, RestTypes, SendLost, counts
  <2> QED
    BY <1>4, <2>2, SendsShrink DEF SendLost
<1> QED
  BY <1>1, <1>2, <1>3, <1>4

(* Submit is pressed: the send is of the response the page is at. *)
LEMMA PressKeeps == ASSUME IInv, NEW l \in Pages, Press(l) PROVE IInv'
<1> USE BoundsAssumption
<1> DEFINE s == [n |-> pressed + 1, page |-> l, token |-> page[l].sendWith,
                 resp |-> page[l].resp, answer |-> "none"]
<1>1. /\ page[l].at = "ready" /\ ~page[l].readOnly /\ page[l].sendWith # None /\ pressed < MaxSends
      /\ pressed' = pressed + 1 /\ sends' = sends \cup {s}
      /\ UNCHANGED <<page, remembered, row, puts, rows, typed, started, fetched, lost, heard, reached>>
  BY DEF Press
<1>2. TypeOK
  BY DEF IInv
<1>3. s \in Sends
  BY <1>1, <1>2 DEF TypeOK, PageTypes, RestTypes, PageStates, Sends, Answers
<1>4. TypeOK'
  BY <1>1, <1>2, <1>3 DEF TypeOK, PageTypes, RestTypes
<1>5. s.page = l /\ s.resp = page[l].resp
  OBVIOUS
<1> HIDE DEF s
<1>6. PageInv'
  BY <1>1, <1>5 DEF IInv, PageInv, Fit, Untouched, Drafted, Saved, Runs
<1>7. StartedInv' /\ HeardInv' /\ RememberedInv' /\ OneDraftAResponse'
  BY <1>1 DEF IInv, StartedInv, HeardInv, RememberedInv, OneDraftAResponse, Past, Runs
<1>8. SendInv'
  <2>1. /\ Drafted(l) /\ page[l].stored \in Nat /\ page[l].draft \subseteq Drafts
    BY <1>1, <1>2 DEF IInv, TypeOK, PageTypes, PageStates, PageInv, Fit, Runs
  <2>2. \/ s.resp[1] = s.page /\ s.resp[2] <= page[s.page].stored
        \/ \E d \in Drafts : started[d] # <<>> /\ started[d] = s.resp
    BY <1>1, <1>5, <2>1 DEF Drafted
  <2> QED
    BY <1>1, <2>2 DEF IInv, SendInv, Runs
<1> QED
  BY <1>4, <1>6, <1>7, <1>8 DEF IInv

-----------------------------------------------------------------------------
(* A page loads: a draft comes back, is gone, or the form is fetched. *)
LEMMA LoadKeeps ==
    ASSUME IInv, NEW l \in Pages,
           (\E readOnly \in BOOLEAN : Resumed(l, readOnly)) \/ NotResumed(l) \/ Fetched(l) \/ NotLoaded(l)
    PROVE  IInv'
<1> USE BoundsAssumption
<1>t. PageTypes /\ RestTypes /\ page[l] \in PageStates
  BY DEF IInv, TypeOK, PageTypes
<1>u. page[l].at = "loading" /\ Untouched(l) /\ Drafted(l) /\ Saved(l)
  BY DEF IInv, PageInv, Fit, Runs, Resumed, NotResumed, Fetched, NotLoaded
<1>o. AtMostOne(page[l].draft) /\ AtMostOne(page[l].asked) /\ page[l].waiting = {}
  <2>1. AtMostOne(page[l].draft) /\ AtMostOne(page[l].asked)
    BY <1>t, PageTyped
  <2>2. page[l].waiting = {}
    BY <1>u, Zenon DEF Untouched
  <2> QED
    BY <2>1, <2>2
<1>1. ASSUME NEW readOnly \in BOOLEAN, Resumed(l, readOnly) PROVE IInv'
  <2>1. PICK d \in page[l].asked :
          /\ page' = [page EXCEPT ![l].at = "ready", ![l].draft = {d}, ![l].content = row[d],
                                  ![l].sendWith = IF readOnly THEN None ELSE DraftToken(d),
                                  ![l].readOnly = readOnly, ![l].resp = started[d]]
          /\ row[d] # Absent
    BY <1>1 DEF Resumed
  <2>2. UNCHANGED <<remembered, row, puts, sends, rows, started, counts, lost, heard, reached>>
    BY <1>1 DEF Resumed
  <2>3. /\ d \in Drafts /\ started[d] # <<>> /\ started[d] \in Responses /\ row[d] \in SUBSET Edits
    <3>1. d \in Drafts
      BY <1>t DEF PageStates
    <3>2. started[d] # <<>>
      BY <1>u DEF Drafted
    <3>3. row[d] \in SUBSET Edits
      BY <1>t, <2>1, <3>1 DEF RestTypes
    <3>4. started[d] \in Responses
      BY <1>t, <3>1, <3>2 DEF RestTypes
    <3> QED
      BY <3>1, <3>2, <3>3, <3>4
  <2> DEFINE token == IF readOnly THEN None ELSE DraftToken(d)
             rec == [page[l] EXCEPT !.at = "ready", !.draft = {d}, !.content = row[d],
                                    !.sendWith = token, !.readOnly = readOnly, !.resp = started[d]]
  <2>4. token \in Tokens \cup {None}
    BY <2>3 DEF Tokens, DraftToken, Drafts
  <2>5. page' = [page EXCEPT ![l] = rec]
    BY <1>t, <2>1 DEF PageTypes
  <2> HIDE DEF token
  <2>6. /\ rec \in PageStates
        /\ rec.at = "ready" /\ rec.draft = {d} /\ rec.resp = started[d] /\ rec.asked = page[l].asked
        /\ rec.starting = page[l].starting /\ rec.waiting = page[l].waiting /\ rec.timer = page[l].timer
        /\ rec.told = page[l].told /\ rec.stored = page[l].stored
    BY <1>t, <2>3, <2>4 DEF PageStates
  <2> HIDE DEF rec
  <2>7. /\ PageTypes' /\ page'[l] = rec /\ \A k \in Pages : k # l => page'[k] = page[k]
    <3>1. AtMostOne(rec.draft) /\ AtMostOne(rec.asked) /\ rec.waiting = {}
      BY <1>o, <2>6 DEF AtMostOne
    <3> QED
      BY <1>t, <3>1, <2>5, <2>6, PageTypesKeep
  <2>8. TypeOK'
    BY <1>t, <2>2, <2>7 DEF TypeOK, RestTypes, counts
  <2>9. Fit(l)'
    BY <1>u, <2>2, <2>3, <2>6, <2>7 DEF Fit, Untouched, Drafted, Saved, Runs
  <2> QED
    BY <1>u, <2>2, <2>7, <2>8, <2>9, OnePage
<1>2. ASSUME NotResumed(l) PROVE IInv'
  <2> DEFINE rec == [page[l] EXCEPT !.asked = {}]
  <2>1. /\ remembered' = {} /\ page' = [page EXCEPT ![l] = rec] /\ lost' \in 0..MaxLost
        /\ UNCHANGED <<row, puts, sends, rows, started, counts, heard, reached>>
    BY <1>2, <1>t DEF NotResumed, Lose, RestTypes, PageTypes
  <2>2. /\ rec \in PageStates
        /\ rec.at = "loading" /\ rec.draft = page[l].draft /\ rec.resp = page[l].resp /\ rec.asked = {}
        /\ rec.starting = page[l].starting /\ rec.waiting = page[l].waiting /\ rec.timer = page[l].timer
        /\ rec.told = page[l].told /\ rec.stored = page[l].stored
    BY <1>t, <1>u DEF PageStates
  <2> HIDE DEF rec
  <2>3. /\ PageTypes' /\ page'[l] = rec /\ \A k \in Pages : k # l => page'[k] = page[k]
    <3>1. AtMostOne(rec.draft) /\ AtMostOne(rec.asked) /\ rec.waiting = {}
      BY <1>o, <2>2 DEF AtMostOne
    <3> QED
      BY <1>t, <3>1, <2>1, <2>2, PageTypesKeep
  <2>4. TypeOK'
    BY <1>t, <2>1, <2>3 DEF TypeOK, RestTypes, AtMostOne, counts
  <2>5. Fit(l)'
    BY <1>u, <2>1, <2>2, <2>3 DEF Fit, Untouched, Drafted, Saved, Runs
  <2> QED
    BY <1>u, <2>1, <2>3, <2>4, <2>5, OnePage
<1>3. ASSUME Fetched(l) PROVE IInv'
  <2> DEFINE rec == [page[l] EXCEPT !.at = "ready", !.draft = {}, !.content = {}, !.readOnly = FALSE,
                                    !.sendWith = FormToken(fetched + 1), !.resp = <<l, page[l].stored>>]
  <2>1. /\ page' = [page EXCEPT ![l] = rec] /\ fetched' = fetched + 1
        /\ UNCHANGED <<remembered, row, puts, sends, rows, started, typed, pressed, lost, heard, reached>>
    BY <1>3, <1>t DEF Fetched, PageTypes
  <2>2. FormToken(fetched + 1) \in Tokens /\ <<l, page[l].stored>> \in Responses
    BY <1>t DEF RestTypes, Tokens, FormToken, PageStates, Responses
  <2>3. /\ rec \in PageStates
        /\ rec.at = "ready" /\ rec.draft = {} /\ rec.resp = <<l, page[l].stored>> /\ rec.asked = page[l].asked
        /\ rec.starting = page[l].starting /\ rec.waiting = page[l].waiting /\ rec.timer = page[l].timer
        /\ rec.told = page[l].told /\ rec.stored = page[l].stored /\ ~rec.readOnly
    BY <1>t, <2>2 DEF PageStates
  <2> HIDE DEF rec
  <2>4. /\ PageTypes' /\ page'[l] = rec /\ \A k \in Pages : k # l => page'[k] = page[k]
    <3>1. AtMostOne(rec.draft) /\ AtMostOne(rec.asked) /\ rec.waiting = {}
      BY <1>o, <2>3 DEF AtMostOne
    <3> QED
      BY <1>t, <3>1, <2>1, <2>3, PageTypesKeep
  <2>5. TypeOK'
    BY <1>t, <2>1, <2>4 DEF TypeOK, RestTypes
  <2>6. Fit(l)'
    BY <1>u, <2>1, <2>3, <2>4 DEF Fit, Untouched, Drafted, Saved, Runs
  <2> QED
    BY <1>u, <2>1, <2>4, <2>5, <2>6, OnePage
<1>4. ASSUME NotLoaded(l) PROVE IInv'
  <2> DEFINE rec == [page[l] EXCEPT !.at = "stuck"]
  <2>1. /\ page' = [page EXCEPT ![l] = rec] /\ lost' \in 0..MaxLost
        /\ UNCHANGED <<remembered, row, puts, sends, rows, started, counts, heard, reached>>
    BY <1>4, <1>t DEF NotLoaded, Lose, RestTypes, PageTypes
  <2>2. /\ rec \in PageStates
        /\ rec.at = "stuck" /\ rec.draft = page[l].draft /\ rec.resp = page[l].resp /\ rec.asked = page[l].asked
        /\ rec.starting = page[l].starting /\ rec.waiting = page[l].waiting /\ rec.timer = page[l].timer
        /\ rec.told = page[l].told /\ rec.stored = page[l].stored
    BY <1>t, <1>u DEF PageStates
  <2> HIDE DEF rec
  <2>3. /\ PageTypes' /\ page'[l] = rec /\ \A k \in Pages : k # l => page'[k] = page[k]
    <3>1. AtMostOne(rec.draft) /\ AtMostOne(rec.asked) /\ rec.waiting = {}
      BY <1>o, <2>2 DEF AtMostOne
    <3> QED
      BY <1>t, <3>1, <2>1, <2>2, PageTypesKeep
  <2>4. TypeOK'
    BY <1>t, <2>1, <2>3 DEF TypeOK, RestTypes, counts
  <2>5. Fit(l)'
    BY <1>u, <2>1, <2>2, <2>3 DEF Fit, Untouched, Drafted, Saved, Runs
  <2> QED
    BY <1>u, <2>1, <2>3, <2>4, <2>5, OnePage
<1> QED
  BY <1>1, <1>2, <1>3, <1>4

-----------------------------------------------------------------------------
(* Somebody types, a timer fires, a start fails, a read-only draft is left. *)
LEMMA OwnKeeps ==
    ASSUME IInv, NEW l \in Pages,
           StartOver(l) \/ Edit(l) \/ Fire(l) \/ (\E rejected \in BOOLEAN : StartFails(l, rejected))
    PROVE  IInv'
<1> USE BoundsAssumption
<1>t. PageTypes /\ RestTypes /\ page[l] \in PageStates
  BY DEF IInv, TypeOK, PageTypes
<1>o. /\ AtMostOne(page[l].draft) /\ AtMostOne(page[l].asked)
      /\ page[l].waiting # {} => page[l].starting = "asked"
  BY <1>t, PageTyped
<1>f. Fit(l)
  BY DEF IInv, PageInv
<1>1. ASSUME StartOver(l) PROVE IInv'
  <2> DEFINE rec == [page[l] EXCEPT !.at = "loading", !.asked = {}, !.draft = {}]
  <2>1. /\ page' = [page EXCEPT ![l] = rec] /\ remembered' = {} /\ page[l].at = "ready" /\ page[l].readOnly
        /\ UNCHANGED <<row, puts, sends, rows, started, counts, lost, heard, reached>>
    BY <1>1, <1>t DEF StartOver, PageTypes
  <2>u. Untouched(l) /\ Saved(l)
    BY <1>f, <2>1 DEF Fit
  <2>2. /\ rec \in PageStates
        /\ rec.at = "loading" /\ rec.draft = {} /\ rec.asked = {}
        /\ rec.starting = page[l].starting /\ rec.waiting = page[l].waiting /\ rec.timer = page[l].timer
        /\ rec.told = page[l].told /\ rec.stored = page[l].stored
    BY <1>t DEF PageStates
  <2> HIDE DEF rec
  <2>3. /\ PageTypes' /\ page'[l] = rec /\ \A k \in Pages : k # l => page'[k] = page[k]
    <3>1. AtMostOne(rec.draft) /\ AtMostOne(rec.asked)
      BY <2>2 DEF AtMostOne
    <3> QED
      BY <1>t, <1>o, <2>1, <2>2, <3>1, PageTypesKeep
  <2>4. TypeOK'
    BY <1>t, <2>1, <2>3 DEF TypeOK, RestTypes, AtMostOne, counts
  <2>5. Fit(l)'
    BY <2>u, <2>1, <2>2, <2>3 DEF Fit, Untouched, Drafted, Saved, Runs
  <2> QED
    BY <2>u, <2>1, <2>3, <2>4, <2>5, OnePage
<1>2. ASSUME Edit(l) PROVE IInv'
  <2> DEFINE rec == [page[l] EXCEPT !.content = @ \cup {typed + 1}, !.timer = TRUE, !.told = FALSE]
  <2>1. /\ page' = [page EXCEPT ![l] = rec] /\ page[l].at = "ready" /\ ~page[l].readOnly
        /\ typed < MaxEdits /\ typed' = typed + 1
        /\ UNCHANGED <<remembered, row, puts, sends, rows, started, fetched, pressed, lost, heard, reached>>
    BY <1>2, <1>t DEF Edit, PageTypes
  <2>u. Drafted(l) /\ Saved(l)
    BY <1>f, <2>1 DEF Fit, Runs
  <2>c. page[l].content \cup {typed + 1} \in SUBSET Edits
    <3>1. typed + 1 \in Edits /\ page[l].content \in SUBSET Edits
      BY <1>t, <2>1 DEF RestTypes, Edits, PageStates
    <3> QED
      BY <3>1
  <2>2. /\ rec \in PageStates
        /\ rec.at = "ready" /\ rec.draft = page[l].draft /\ rec.asked = page[l].asked /\ rec.resp = page[l].resp
        /\ rec.starting = page[l].starting /\ rec.waiting = page[l].waiting /\ rec.timer = TRUE
        /\ rec.told = FALSE /\ rec.stored = page[l].stored /\ ~rec.readOnly
    BY <1>t, <2>1, <2>c DEF PageStates
  <2> HIDE DEF rec
  <2>3. /\ PageTypes' /\ page'[l] = rec /\ \A k \in Pages : k # l => page'[k] = page[k]
    <3>1. AtMostOne(rec.draft) /\ AtMostOne(rec.asked) /\ (rec.waiting # {} => rec.starting = "asked")
      BY <1>o, <2>2
    <3> QED
      BY <1>t, <2>1, <2>2, <3>1, PageTypesKeep
  <2>4. TypeOK'
    BY <1>t, <2>1, <2>3 DEF TypeOK, RestTypes
  <2>5. Fit(l)'
    BY <2>u, <2>1, <2>2, <2>3 DEF Fit, Drafted, Saved, Runs
  <2> QED
    BY <2>1, <2>2, <2>3, <2>4, <2>5, OnePage DEF Runs
<1>3. ASSUME Fire(l) PROVE IInv'
  <2>t. /\ page[l].timer /\ page[l].at = "ready" /\ ~page[l].told /\ ~page[l].readOnly
        /\ Drafted(l) /\ Saved(l)
    BY <1>3, <1>f DEF Fit, Fire, Untouched, Saved, Runs
  <2>1. CASE page[l].draft # {}
    <3> DEFINE rec == [page[l] EXCEPT !.timer = FALSE]
    <3>1. /\ page' = [page EXCEPT ![l] = rec]
          /\ puts' = puts \cup {Put(l, d, page[l].content) : d \in page[l].draft}
          /\ UNCHANGED <<remembered, row, sends, rows, started, counts, lost, heard, reached>>
      BY <1>3, <1>t, <2>1 DEF Fire, PageTypes
    <3>2. /\ rec \in PageStates
          /\ rec.at = "ready" /\ rec.draft = page[l].draft /\ rec.asked = page[l].asked /\ rec.resp = page[l].resp
          /\ rec.starting = page[l].starting /\ rec.waiting = page[l].waiting /\ ~rec.timer
          /\ rec.told = page[l].told /\ rec.stored = page[l].stored /\ ~rec.readOnly
      BY <1>t, <2>t DEF PageStates
    <3> HIDE DEF rec
    <3>3. /\ PageTypes' /\ page'[l] = rec /\ \A k \in Pages : k # l => page'[k] = page[k]
      <4>1. AtMostOne(rec.draft) /\ AtMostOne(rec.asked) /\ (rec.waiting # {} => rec.starting = "asked")
        BY <1>o, <3>2
      <4> QED
        BY <1>t, <3>1, <3>2, <4>1, PageTypesKeep
    <3>4. puts' \subseteq Puts
      <4>1. \A d \in page[l].draft : Put(l, d, page[l].content) \in Puts
        BY <1>t DEF Put, Puts, PageStates
      <4> QED
        BY <1>t, <3>1, <4>1 DEF RestTypes
    <3>5. TypeOK'
      BY <1>t, <3>1, <3>3, <3>4 DEF TypeOK, RestTypes, counts
    <3>6. Fit(l)'
      BY <2>t, <3>1, <3>2, <3>3 DEF Fit, Drafted, Saved, Runs
    <3> QED
      BY <2>t, <3>1, <3>2, <3>3, <3>5, <3>6, OnePage DEF Runs
  <2>2. CASE page[l].draft = {}
    <3> DEFINE w == [value |-> page[l].content, before |-> page[l].stored]
               waits == IF page[l].starting = "rejected" THEN page[l].waiting ELSE page[l].waiting \cup {w}
               starts == IF page[l].starting = "no" THEN "asked" ELSE page[l].starting
               rec == [page[l] EXCEPT !.timer = FALSE, !.starting = starts, !.waiting = waits]
    <3>1. /\ page' = [page EXCEPT ![l] = rec]
          /\ UNCHANGED <<puts, remembered, row, sends, rows, started, counts, lost, heard, reached>>
      BY <1>3, <1>t, <2>2 DEF Fire, PageTypes
    <3>2. /\ w \in Waits /\ w.before = page[l].stored /\ page[l].stored \in Nat
      BY <1>t DEF PageStates, Waits
    <3>3. /\ starts \in {"asked", "rejected"} /\ waits \in SUBSET Waits
          /\ waits \subseteq page[l].waiting \cup {w} /\ (waits # {} => starts = "asked")
      <4>1. page[l].starting \in {"no", "asked", "rejected"} /\ page[l].waiting \in SUBSET Waits
        BY <1>t DEF PageStates
      <4> QED
        BY <1>o, <3>2, <4>1
    <3> HIDE DEF w, waits, starts
    <3>4. /\ rec \in PageStates
          /\ rec.at = "ready" /\ rec.draft = {} /\ rec.asked = page[l].asked /\ rec.resp = page[l].resp
          /\ rec.starting = starts /\ rec.waiting = waits /\ ~rec.timer
          /\ rec.told = page[l].told /\ rec.stored = page[l].stored /\ ~rec.readOnly
      BY <1>t, <2>t, <2>2, <3>3 DEF PageStates
    <3> HIDE DEF rec
    <3>5. /\ PageTypes' /\ page'[l] = rec /\ \A k \in Pages : k # l => page'[k] = page[k]
      <4>1. AtMostOne(rec.draft) /\ AtMostOne(rec.asked)
        BY <1>o, <3>4 DEF AtMostOne
      <4> QED
        BY <1>t, <3>1, <3>3, <3>4, <4>1, PageTypesKeep
    <3>6. TypeOK'
      BY <1>t, <3>1, <3>5 DEF TypeOK, RestTypes, counts
    <3>7. Fit(l)'
      <4>1. Drafted(l)'
        BY <2>t, <2>2, <3>1, <3>4, <3>5 DEF Drafted
      <4>2. Saved(l)'
        BY <2>t, <3>2, <3>3, <3>4, <3>5 DEF Saved
      <4> QED
        BY <3>4, <3>5, <4>1, <4>2 DEF Fit
    <3> QED
      BY <2>t, <2>2, <3>1, <3>4, <3>5, <3>6, <3>7, OnePage DEF Runs
  <2> QED
    BY <2>1, <2>2
<1>4. ASSUME NEW rejected \in BOOLEAN, StartFails(l, rejected) PROVE IInv'
  <2> DEFINE starts == IF rejected THEN "rejected" ELSE "no"
             rec == [page[l] EXCEPT !.starting = starts, !.waiting = {}]
  <2>1. /\ page' = [page EXCEPT ![l] = rec] /\ Runs(l) /\ page[l].starting = "asked" /\ lost' \in 0..MaxLost
        /\ UNCHANGED <<remembered, row, puts, sends, rows, started, counts, heard, reached>>
    <3>1. /\ page' = [page EXCEPT ![l].starting = IF rejected THEN "rejected" ELSE "no", ![l].waiting = {}]
          /\ lost < MaxLost /\ lost' = lost + 1
      BY <1>4 DEF StartFails, Lose
    <3>2. lost' \in 0..MaxLost
      BY <1>t, <3>1 DEF RestTypes
    <3>3. page' = [page EXCEPT ![l] = rec]
      BY <1>t, <3>1 DEF PageTypes
    <3> QED
      BY <1>4, <3>2, <3>3 DEF StartFails
  <2>u. Drafted(l) /\ Saved(l) /\ ~(page[l].at \in {"unborn", "loading", "stuck"} \/ page[l].readOnly)
    BY <1>f, <2>1 DEF Fit, Untouched
  <2>s. starts \in {"no", "rejected"}
    OBVIOUS
  <2> HIDE DEF starts
  <2>2. /\ rec \in PageStates
        /\ rec.at = page[l].at /\ rec.draft = page[l].draft /\ rec.asked = page[l].asked /\ rec.resp = page[l].resp
        /\ rec.starting = starts /\ rec.waiting = {} /\ rec.timer = page[l].timer
        /\ rec.told = page[l].told /\ rec.stored = page[l].stored /\ rec.readOnly = page[l].readOnly
    BY <1>t, <2>s DEF PageStates
  <2> HIDE DEF rec
  <2>3. /\ PageTypes' /\ page'[l] = rec /\ \A k \in Pages : k # l => page'[k] = page[k]
    <3>1. AtMostOne(rec.draft) /\ AtMostOne(rec.asked) /\ (rec.waiting # {} => rec.starting = "asked")
      BY <1>o, <2>2
    <3> QED
      BY <1>t, <2>1, <2>2, <3>1, PageTypesKeep
  <2>4. TypeOK'
    BY <1>t, <2>1, <2>3 DEF TypeOK, RestTypes, counts
  <2>5. Fit(l)'
    BY <1>f, <2>u, <2>s, <2>1, <2>2, <2>3 DEF Fit, Drafted, Saved, Runs
  <2> QED
    BY <2>1, <2>2, <2>3, <2>4, <2>5, OnePage
<1> QED
  BY <1>1, <1>2, <1>3, <1>4

-----------------------------------------------------------------------------
(* A draft is started for the response the page is at, which was neither *)
(* heard of nor has a draft; or every save lets it go.                   *)
LEMMA StartKeeps == ASSUME IInv, NEW l \in Pages, StartAnswered(l) PROVE IInv'
<1> USE BoundsAssumption
<1>t. PageTypes /\ RestTypes /\ page[l] \in PageStates
  BY DEF IInv, TypeOK, PageTypes
<1>o. AtMostOne(page[l].draft) /\ AtMostOne(page[l].asked)
  BY <1>t, PageTyped
<1>r. Runs(l) /\ page[l].starting = "asked"
  BY DEF StartAnswered
<1>f. /\ Drafted(l) /\ Saved(l) /\ page[l].draft = {} /\ page[l].resp = <<l, page[l].stored>>
      /\ page[l].at \in {"ready", "gone"} /\ ~page[l].readOnly /\ (page[l].timer => page[l].at = "ready")
  <2>1. Fit(l) /\ page[l].at \in {"unborn", "loading", "ready", "stuck", "gone", "dead"}
    BY <1>t DEF IInv, PageInv, PageStates
  <2>2. ~(page[l].at \in {"unborn", "loading", "stuck"} \/ page[l].readOnly)
    BY <1>r, <2>1 DEF Fit, Untouched
  <2>3. Drafted(l)
    BY <1>r, <2>1 DEF Fit
  <2> QED
    BY <1>r, <2>1, <2>2, <2>3 DEF Fit, Drafted, Runs
<1>n. page[l].stored \in Nat /\ page[l].resp \in Responses
  BY <1>t DEF PageStates
<1> DEFINE kept == {w \in page[l].waiting : w.before = page[l].stored}
           ended == [page[l] EXCEPT !.starting = "no", !.waiting = {}]
<1>1. PICK d \in Drafts :
        /\ Fresh(d)
        /\ IF kept = {}
           THEN page' = [page EXCEPT ![l] = ended] /\ UNCHANGED <<remembered, puts, started>>
           ELSE /\ page' = [page EXCEPT ![l] = [ended EXCEPT !.draft = {d}, !.sendWith = DraftToken(d)]]
                /\ remembered' = {d}
                /\ puts' = puts \cup {Put(l, d, w.value) : w \in kept}
                /\ started' = [started EXCEPT ![d] = page[l].resp]
  BY DEF StartAnswered
<1>2. UNCHANGED <<row, sends, rows, counts, lost, heard, reached>>
  BY DEF StartAnswered
<1>3. CASE kept = {}
  <2>1. page' = [page EXCEPT ![l] = ended] /\ UNCHANGED <<remembered, puts, started>>
    BY <1>1, <1>3
  <2>2. /\ ended \in PageStates
        /\ ended.at = page[l].at /\ ended.draft = page[l].draft /\ ended.asked = page[l].asked
        /\ ended.resp = page[l].resp /\ ended.starting = "no" /\ ended.waiting = {}
        /\ ended.timer = page[l].timer /\ ended.told = page[l].told /\ ended.stored = page[l].stored
        /\ ended.readOnly = page[l].readOnly
    BY <1>t DEF PageStates
  <2> HIDE DEF ended, kept
  <2>3. /\ PageTypes' /\ page'[l] = ended /\ \A k \in Pages : k # l => page'[k] = page[k]
    <3>1. AtMostOne(ended.draft) /\ AtMostOne(ended.asked) /\ (ended.waiting # {} => ended.starting = "asked")
      BY <1>o, <2>2
    <3> QED
      BY <1>t, <2>1, <2>2, <3>1, PageTypesKeep
  <2>4. TypeOK'
    BY <1>t, <1>2, <2>1, <2>3 DEF TypeOK, RestTypes, counts
  <2>5. Fit(l)'
    BY <1>f, <1>2, <2>1, <2>2, <2>3 DEF Fit, Drafted, Saved, Runs
  <2> QED
    BY <1>r, <1>2, <2>1, <2>2, <2>3, <2>4, <2>5, OnePage
<1>4. CASE kept # {}
  <2> DEFINE rec == [ended EXCEPT !.draft = {d}, !.sendWith = DraftToken(d)]
  <2>1. /\ page' = [page EXCEPT ![l] = rec] /\ remembered' = {d}
        /\ puts' = puts \cup {Put(l, d, w.value) : w \in kept}
        /\ started' = [started EXCEPT ![d] = page[l].resp]
    BY <1>1, <1>4
  <2>2. DraftToken(d) \in Tokens
    BY DEF Tokens, DraftToken, Drafts
  <2>3. /\ rec \in PageStates
        /\ rec.at = page[l].at /\ rec.draft = {d} /\ rec.asked = page[l].asked
        /\ rec.resp = page[l].resp /\ rec.starting = "no" /\ rec.waiting = {}
        /\ rec.timer = page[l].timer /\ rec.told = page[l].told /\ rec.stored = page[l].stored
        /\ rec.readOnly = page[l].readOnly
    BY <1>t, <2>2 DEF PageStates
  <2> HIDE DEF rec
  <2>4. /\ PageTypes' /\ page'[l] = rec /\ \A k \in Pages : k # l => page'[k] = page[k]
    <3>1. AtMostOne(rec.draft) /\ AtMostOne(rec.asked) /\ (rec.waiting # {} => rec.starting = "asked")
      BY <1>o, <2>3 DEF AtMostOne
    <3> QED
      BY <1>t, <2>1, <2>3, <3>1, PageTypesKeep
  <2>5. ~page[l].told
    BY <1>4, <1>f, <1>n DEF Saved
  <2>6. puts' \subseteq Puts
    <3>1. ASSUME NEW w \in kept PROVE Put(l, d, w.value) \in Puts
      <4>1. w \in Waits
        BY <1>t DEF PageStates
      <4> QED
        BY <4>1 DEF Waits, Put, Puts
    <3> QED
      BY <1>t, <2>1, <3>1 DEF RestTypes
  <2>7. TypeOK'
    <3>1. started' \in [Drafts -> Responses \cup {<<>>}]
      BY <1>t, <1>n, <2>1 DEF RestTypes
    <3> QED
      BY <1>t, <1>2, <2>1, <2>4, <2>6, <3>1 DEF TypeOK, RestTypes, AtMostOne, counts
  <2> HIDE DEF kept
  <2>8. /\ started[d] = <<>> /\ started'[d] = page[l].resp /\ page[l].resp # <<>>
        /\ page[l].resp[1] = l /\ page[l].resp[2] = page[l].stored
        /\ \A e \in Drafts : e # d => started'[e] = started[e]
    <3>1. started[d] = <<>> /\ started'[d] = page[l].resp
      BY <1>t, <1>1, <2>1 DEF RestTypes, Fresh
    <3>2. page[l].resp # <<>> /\ page[l].resp[1] = l /\ page[l].resp[2] = page[l].stored
      BY <1>f
    <3> QED
      BY <1>t, <2>1, <3>1, <3>2 DEF RestTypes
  <2>9. ASSUME NEW x \in Responses, Past(x) PROVE Past(x)' /\ x # page[l].resp
    <3>1. CASE x[1] = l
      BY <1>r, <1>f, <1>n, <2>3, <2>4, <2>8, <2>9, <3>1 DEF Past, Runs
    <3>2. CASE x[1] # l
      <4>1. x[1] \in Pages
        BY DEF Responses
      <4> QED
        BY <2>4, <2>8, <2>9, <3>2, <4>1 DEF Past, Runs
    <3> QED
      BY <3>1, <3>2
  <2>10. ASSUME NEW e \in Drafts, started[e] # <<>> PROVE Past(started[e])' /\ started[e] # page[l].resp
    <3>1. started[e] \in Responses /\ Past(started[e])
      BY <1>t, <2>10 DEF RestTypes, IInv, StartedInv
    <3>2. started'[e] = started[e]
      BY <2>8, <2>10
    <3> QED
      BY <2>9, <3>1, <3>2 DEF Past
  <2>11. ASSUME NEW x \in heard PROVE Past(x)' /\ x # page[l].resp
    <3>1. x \in Responses /\ Past(x)
      BY <1>t, <2>11 DEF RestTypes, IInv, HeardInv
    <3> QED
      BY <2>9, <3>1
  <2>12. PageInv'
    <3> SUFFICES ASSUME NEW k \in Pages PROVE Fit(k)'
      BY DEF PageInv
    <3>1. CASE k = l
      <4>1. Drafted(l)'
        <5>1. page[l].asked \subseteq Drafts
          BY <1>t DEF PageStates
        <5>2. \A e \in page'[l].draft : started'[e] = page'[l].resp /\ started'[e] # <<>>
          BY <2>3, <2>4, <2>8
        <5>3. \A e \in page'[l].asked : started'[e] # <<>>
          BY <1>f, <2>3, <2>4, <2>8, <5>1 DEF Drafted
        <5>4. page'[l].draft # {} /\ page'[l].starting = "no"
          BY <2>3, <2>4
        <5> QED
          BY <5>2, <5>3, <5>4 DEF Drafted
      <4>2. Saved(l)'
        BY <2>3, <2>4, <2>5 DEF Saved
      <4> QED
        BY <1>f, <2>3, <2>4, <3>1, <4>1, <4>2 DEF Fit
    <3>2. CASE k # l
      <4>1. Fit(k) /\ page'[k] = page[k] /\ page[k] \in PageStates
        BY <1>t, <2>4, <3>2 DEF IInv, PageInv, PageTypes
      <4>2. Untouched(k) => Untouched(k)'
        BY <1>2, <2>8, <3>2, <4>1 DEF Untouched
      <4>3. Drafted(k) => Drafted(k)'
        <5>1. page[k].draft \subseteq Drafts /\ page[k].asked \subseteq Drafts
          BY <4>1 DEF PageStates
        <5> QED
          BY <2>8, <4>1, <5>1 DEF Drafted
      <4> QED
        BY <4>1, <4>2, <4>3 DEF Fit, Saved, Runs
    <3> QED
      BY <3>1, <3>2
  <2>13. StartedInv'
    <3> SUFFICES ASSUME NEW e \in Drafts, started'[e] # <<>> PROVE Past(started[e])'
      BY DEF StartedInv
    <3>1. CASE e = d
      BY <1>n, <2>3, <2>4, <2>8, <3>1 DEF Past
    <3>2. CASE e # d
      BY <2>8, <2>10, <3>2 DEF Past
    <3> QED
      BY <3>1, <3>2
  <2>14. HeardInv'
    BY <1>2, <2>11 DEF HeardInv
  <2>15. SendInv'
    <3> SUFFICES ASSUME NEW s \in sends, Runs(s.page)'
                 PROVE  \/ s.resp[1] = s.page /\ s.resp[2] <= page'[s.page].stored
                        \/ \E e \in Drafts : started'[e] # <<>> /\ started'[e] = s.resp
      BY <1>2 DEF SendInv
    <3>1. s.page \in Pages
      BY <1>t DEF RestTypes, Sends
    <3>2. Runs(s.page) /\ page'[s.page].stored = page[s.page].stored
      BY <1>r, <2>3, <2>4, <3>1 DEF Runs
    <3>3. \/ s.resp[1] = s.page /\ s.resp[2] <= page[s.page].stored
          \/ \E e \in Drafts : started[e] # <<>> /\ started[e] = s.resp
      BY <3>2 DEF IInv, SendInv
    <3> QED
      BY <2>8, <3>2, <3>3
  <2>16. RememberedInv'
    BY <1>2, <2>1, <2>8, <2>11 DEF RememberedInv
  <2>17. OneDraftAResponse'
    <3> SUFFICES ASSUME NEW e \in Drafts, NEW f \in Drafts, started'[e] = started'[f], started'[e] # <<>> PROVE e = f
      BY DEF OneDraftAResponse
    <3> QED
      BY <2>8, <2>10 DEF IInv, OneDraftAResponse
  <2> QED
    BY <2>7, <2>12, <2>13, <2>14, <2>15, <2>16, <2>17 DEF IInv
<1> QED
  BY <1>3, <1>4

-----------------------------------------------------------------------------
(* A page takes an answer: what it was at, and all it had started, is past. *)
LEMMA ToldKeeps == ASSUME IInv, NEW s \in sends, Told(s) PROVE IInv'
<1> USE BoundsAssumption
<1> DEFINE l == s.page
           rec == [page[l] EXCEPT !.timer = FALSE, !.stored = @ + 1, !.draft = {}, !.told = TRUE,
                                  !.resp = <<l, page[l].stored + 1>>]
<1>t. PageTypes /\ RestTypes /\ TypeOK
  BY DEF IInv, TypeOK
<1>s. s \in Sends /\ l \in Pages /\ s.resp \in Responses
  BY <1>t DEF RestTypes, Sends
<1>p. page[l] \in PageStates /\ page[l].stored \in Nat /\ AtMostOne(page[l].asked)
      /\ (page[l].waiting # {} => page[l].starting = "asked")
  <2>1. page[l] \in PageStates
    BY <1>t, <1>s DEF PageTypes
  <2> QED
    BY <1>t, <1>s, <2>1 DEF PageTypes, PageStates
<1>1. /\ Runs(l) /\ sends' = sends \ {s}
      /\ UNCHANGED <<row, puts, rows, started, counts, lost, reached>>
  BY DEF Told
<1>2. CASE s.answer \notin {"ok", "spent"}
  <2>1. UNCHANGED <<page, remembered, heard>>
    BY <1>2 DEF Told
  <2>2. TypeOK'
    BY <1>t, <1>1, <2>1 DEF TypeOK, PageTypes, RestTypes, counts
  <2> QED
    BY <1>1, <2>1, <2>2, SendsShrink
<1>3. CASE s.answer \in {"ok", "spent"}
  <2>1. page' = [page EXCEPT ![l] = rec] /\ remembered' = {} /\ heard' = heard \cup {s.resp}
    <3>1. Forget(l) /\ heard' = heard \cup {s.resp}
      BY <1>3 DEF Told
    <3> QED
      BY <1>t, <1>s, <3>1 DEF Forget, PageTypes
  <2>2. Fit(l) /\ Drafted(l) /\ Saved(l) /\ page[l].at # "dead" /\ page[l].at # "unborn"
        /\ ~(page[l].at \in {"unborn", "loading", "stuck"} \/ page[l].readOnly)
    BY <1>1, <1>s DEF IInv, PageInv, Fit, Untouched, Runs
  <2>r. <<l, page[l].stored + 1>> \in Responses /\ page[l].stored + 1 \in Nat
    BY <1>s, <1>p DEF Responses
  <2>3. /\ rec \in PageStates
        /\ rec.at = page[l].at /\ rec.draft = {} /\ rec.asked = page[l].asked
        /\ rec.resp = <<l, page[l].stored + 1>> /\ rec.starting = page[l].starting
        /\ rec.waiting = page[l].waiting /\ ~rec.timer /\ rec.told /\ rec.stored = page[l].stored + 1
        /\ rec.readOnly = page[l].readOnly
    <3> DEFINE n == page[l].stored + 1
               r == <<l, page[l].stored + 1>>
    <3>1. rec = [page[l] EXCEPT !.timer = FALSE, !.stored = n, !.draft = {}, !.told = TRUE, !.resp = r]
      BY <1>p DEF PageStates
    <3>2. n \in Nat /\ r \in Responses /\ {} \in SUBSET Drafts
      BY <2>r
    <3> HIDE DEF n, r, l, rec
    <3>3. /\ rec \in PageStates
          /\ rec.at = page[l].at /\ rec.draft = {} /\ rec.asked = page[l].asked
          /\ rec.resp = r /\ rec.starting = page[l].starting
          /\ rec.waiting = page[l].waiting /\ ~rec.timer /\ rec.told /\ rec.stored = n
          /\ rec.readOnly = page[l].readOnly
      BY <1>p, <3>1, <3>2 DEF PageStates
    <3> QED
      BY <3>3 DEF n, r
  <2> HIDE DEF rec
  <2>4. /\ PageTypes' /\ page'[l] = rec /\ \A k \in Pages : k # l => page'[k] = page[k]
    <3>1. AtMostOne(rec.draft) /\ AtMostOne(rec.asked) /\ (rec.waiting # {} => rec.starting = "asked")
      BY <1>p, <2>3 DEF AtMostOne
    <3> HIDE DEF l
    <3> QED
      BY <1>t, <1>s, <2>1, <2>3, <3>1, PageTypesKeep
  <2>5. TypeOK'
    BY <1>t, <1>s, <1>1, <2>1, <2>4 DEF TypeOK, RestTypes, AtMostOne, counts
  <2>6. \/ s.resp[1] = l /\ s.resp[2] <= page[l].stored
        \/ \E d \in Drafts : started[d] # <<>> /\ started[d] = s.resp
    BY <1>1 DEF IInv, SendInv
  <2> HIDE DEF l
  <2>7. ASSUME NEW x \in Responses, Past(x) PROVE Past(x)'
    <3>1. x[1] \in Pages /\ x[2] \in Nat
      BY DEF Responses
    <3>2. CASE x[1] = l
      BY <1>1, <1>p, <2>3, <2>4, <2>7, <3>1, <3>2 DEF Past
    <3>3. CASE x[1] # l
      BY <2>4, <2>7, <3>1, <3>3 DEF Past, Runs
    <3> QED
      BY <3>2, <3>3
  <2>8. StartedInv'
    <3> SUFFICES ASSUME NEW d \in Drafts, started[d] # <<>> PROVE Past(started[d])'
      BY <1>1 DEF StartedInv
    <3>1. started[d] \in Responses /\ Past(started[d])
      BY <1>t DEF RestTypes, IInv, StartedInv
    <3> QED
      BY <1>1, <2>7, <3>1 DEF Past
  <2>9. HeardInv'
    <3>1. ASSUME NEW x \in heard PROVE Past(x)'
      BY <1>t, <2>7, <3>1 DEF RestTypes, IInv, HeardInv
    <3>2. Past(s.resp)'
      <4>1. CASE s.resp[1] = l /\ s.resp[2] <= page[l].stored
        <5>1. s.resp[2] \in Nat
          BY <1>s DEF Responses
        <5> QED
          BY <1>p, <2>3, <2>4, <4>1, <5>1 DEF Past
      <4>2. CASE \E d \in Drafts : started[d] # <<>> /\ started[d] = s.resp
        BY <1>1, <2>8, <4>2 DEF StartedInv, Past
      <4> QED
        BY <2>6, <4>1, <4>2
    <3> QED
      BY <2>1, <3>1, <3>2 DEF HeardInv
  <2>10. PageInv'
    <3> SUFFICES ASSUME NEW k \in Pages PROVE Fit(k)'
      BY DEF PageInv
    <3>1. CASE k = l
      <4>1. Drafted(l)'
        BY <1>1, <2>2, <2>3, <2>4 DEF Drafted
      <4>2. Saved(l)'
        <5>1. \A w \in page[l].waiting : w.before \in Nat
          BY <1>p DEF PageStates, Waits
        <5> QED
          BY <1>p, <2>2, <2>3, <2>4, <5>1 DEF Saved
      <4> QED
        BY <2>2, <2>3, <2>4, <3>1, <4>1, <4>2 DEF Fit
    <3>2. CASE k # l
      <4>1. Fit(k) /\ page'[k] = page[k]
        BY <2>4, <3>2 DEF IInv, PageInv
      <4>2. Untouched(k) => Untouched(k)'
        BY <1>1, <2>1, <2>6, <3>2, <4>1 DEF Untouched
      <4>3. Drafted(k) => Drafted(k)'
        BY <1>1, <4>1 DEF Drafted
      <4> QED
        BY <4>1, <4>2, <4>3 DEF Fit, Saved, Runs
    <3> QED
      BY <3>1, <3>2
  <2>11. SendInv'
    <3> SUFFICES ASSUME NEW t \in sends, Runs(t.page)'
                 PROVE  \/ t.resp[1] = t.page /\ t.resp[2] <= page'[t.page].stored
                        \/ \E d \in Drafts : started[d] # <<>> /\ started[d] = t.resp
      BY <1>1 DEF SendInv
    <3>1. t.page \in Pages /\ t.resp \in Responses
      BY <1>t DEF RestTypes, Sends
    <3>2. Runs(t.page)
      BY <1>1, <2>4, <3>1 DEF Runs
    <3>3. \/ t.resp[1] = t.page /\ t.resp[2] <= page[t.page].stored
          \/ \E d \in Drafts : started[d] # <<>> /\ started[d] = t.resp
      BY <3>2 DEF IInv, SendInv
    <3>4. t.resp[2] \in Nat
      BY <3>1 DEF Responses
    <3> QED
      BY <1>p, <2>3, <2>4, <3>1, <3>3, <3>4
  <2>12. RememberedInv' /\ OneDraftAResponse'
    BY <1>1, <2>1 DEF IInv, RememberedInv, OneDraftAResponse
  <2> QED
    BY <2>5, <2>8, <2>9, <2>10, <2>11, <2>12 DEF IInv
<1> QED
  BY <1>2, <1>3

-----------------------------------------------------------------------------
(* The pane is mounted again: the pages before it end or go on unseen. *)
LEMMA MountKeeps == ASSUME IInv, NEW l \in Pages, NEW reload \in BOOLEAN, Mount(l, reload) PROVE IInv'
<1> USE BoundsAssumption
<1> DEFINE born == [page[l] EXCEPT !.at = "loading", !.asked = remembered]
           dead(k) == [Blank(k) EXCEPT !.at = "dead"]
           gone(k) == [page[k] EXCEPT !.at = "gone", !.timer = FALSE]
<1>t. PageTypes /\ RestTypes
  BY DEF IInv, TypeOK
<1>1. /\ page[l].at = "unborn" /\ \A k \in 1..(l - 1) : page[k].at # "unborn"
      /\ UNCHANGED <<remembered, row, puts, sends, rows, started, counts, lost, heard, reached>>
  BY DEF Mount
<1>u. Untouched(l) /\ page[l].draft = {}
  BY <1>1 DEF IInv, PageInv, Fit
<1>2. page' \in [Pages -> PageStates] /\ page'[l] = born
      /\ \A k \in Pages : k # l => \/ page'[k] = page[k]
                                   \/ page'[k] = dead(k)
                                   \/ page'[k] = gone(k) /\ Runs(k)
  <2>1. page' = [k \in Pages |->
                    IF k = l THEN born
                    ELSE IF k > l \/ page[k].at = "dead" THEN page[k]
                    ELSE IF reload THEN dead(k) ELSE gone(k)]
    BY DEF Mount
  <2>2. born \in PageStates
    <3>1. page[l] \in PageStates /\ remembered \in SUBSET Drafts
      BY <1>t DEF PageTypes, RestTypes
    <3> QED
      BY <3>1 DEF PageStates
  <2>3. ASSUME NEW k \in Pages PROVE dead(k) \in PageStates /\ gone(k) \in PageStates
    <3>1. page[k] \in PageStates
      BY <1>t DEF PageTypes
    <3>2. gone(k) \in PageStates
      BY <3>1 DEF PageStates
    <3>3. <<k, 0>> \in Responses
      BY DEF Responses
    <3>4. dead(k) \in PageStates
      BY <3>3 DEF PageStates, Blank
    <3> QED
      BY <3>2, <3>4
  <2>4. ASSUME NEW k \in Pages, k # l, ~(k > l) PROVE page[k].at # "unborn"
    BY <1>1, <2>4 DEF Pages
  <2> HIDE DEF born, dead, gone
  <2>5. page' \in [Pages -> PageStates]
    BY <1>t, <2>1, <2>2, <2>3 DEF PageTypes
  <2> QED
    BY <2>1, <2>4, <2>5 DEF Runs
<1>3. /\ born.at = "loading" /\ born.draft = {} /\ born.asked = remembered
      /\ born.starting = page[l].starting /\ born.waiting = page[l].waiting /\ born.timer = page[l].timer
      /\ born.told = page[l].told /\ born.stored = page[l].stored /\ born.readOnly = page[l].readOnly
  <2>1. page[l] \in PageStates
    BY <1>t DEF PageTypes
  <2> QED
    BY <1>u, <2>1 DEF PageStates
<1>4. ASSUME NEW k \in Pages PROVE
        /\ dead(k).at = "dead" /\ dead(k).draft = {} /\ dead(k).asked = {} /\ dead(k).waiting = {}
        /\ ~dead(k).told /\ ~dead(k).timer /\ ~dead(k).readOnly
  BY DEF Blank
<1>5. ASSUME NEW k \in Pages PROVE
        /\ gone(k).at = "gone" /\ gone(k).draft = page[k].draft /\ gone(k).asked = page[k].asked
        /\ gone(k).starting = page[k].starting /\ gone(k).waiting = page[k].waiting /\ ~gone(k).timer
        /\ gone(k).told = page[k].told /\ gone(k).stored = page[k].stored
        /\ gone(k).readOnly = page[k].readOnly /\ gone(k).resp = page[k].resp
  <2>1. page[k] \in PageStates
    BY <1>t DEF PageTypes
  <2> QED
    BY <2>1 DEF PageStates
<1> HIDE DEF born, dead, gone
<1>6. TypeOK'
  <2>1. ASSUME NEW k \in Pages
        PROVE  /\ AtMostOne(page'[k].draft) /\ AtMostOne(page'[k].asked)
               /\ page'[k].waiting # {} => page'[k].starting = "asked"
    <3>1. /\ AtMostOne(page[k].draft) /\ AtMostOne(page[k].asked) /\ AtMostOne(remembered)
          /\ page[k].waiting # {} => page[k].starting = "asked"
      BY <1>t DEF PageTypes, RestTypes
    <3>2. AtMostOne({})
      BY DEF AtMostOne
    <3> QED
      BY <1>2, <1>3, <1>4, <1>5, <3>1, <3>2
  <2> QED
    BY <1>t, <1>1, <1>2, <2>1 DEF TypeOK, PageTypes, RestTypes, counts
<1>7. ASSUME NEW k \in Pages PROVE Fit(k)'
  <2>1. Fit(k)
    BY DEF IInv, PageInv
  <2>2. Untouched(l)'
    BY <1>u, <1>1, <1>2, <1>3 DEF Untouched
  <2>3. CASE k = l
    <3>1. Drafted(l)' /\ Saved(l)'
      BY <1>u, <1>1, <1>2, <1>3 DEF IInv, RememberedInv, Drafted, Saved, Untouched
    <3> QED
      BY <1>2, <1>3, <1>u, <2>2, <2>3, <3>1 DEF Fit, Untouched
  <2>4. CASE k # l /\ page'[k] = page[k]
    BY <1>1, <2>1, <2>4 DEF Fit, Untouched, Drafted, Saved, Runs
  <2>5. CASE k # l /\ page'[k] = dead(k)
    BY <1>4, <2>5 DEF Fit, Saved, Runs
  <2>6. CASE k # l /\ page'[k] = gone(k) /\ Runs(k)
    <3>1. Drafted(k)' /\ Saved(k)'
      BY <1>1, <1>5, <2>1, <2>6 DEF Fit, Drafted, Saved
    <3>2. Untouched(k) => Untouched(k)'
      BY <1>1, <1>5, <2>6 DEF Untouched
    <3> QED
      BY <1>5, <2>1, <2>6, <3>1, <3>2 DEF Fit
  <2> QED
    BY <1>2, <2>3, <2>4, <2>5, <2>6
<1>8. ASSUME NEW x \in Responses, x[1] # l, Past(x) PROVE Past(x)'
  <2>1. x[1] \in Pages
    BY DEF Responses
  <2> QED
    BY <1>2, <1>4, <1>5, <1>8, <2>1 DEF Past, Runs
<1>9. StartedInv'
  <2> SUFFICES ASSUME NEW d \in Drafts, started[d] # <<>> PROVE Past(started[d])'
    BY <1>1 DEF StartedInv
  <2>1. started[d] \in Responses /\ Past(started[d]) /\ started[d][1] # l
    BY <1>t, <1>u DEF RestTypes, IInv, StartedInv, Untouched
  <2> QED
    BY <1>1, <1>8, <2>1 DEF Past
<1>10. HeardInv'
  <2> SUFFICES ASSUME NEW x \in heard PROVE Past(x)'
    BY <1>1 DEF HeardInv
  <2> QED
    BY <1>t, <1>u, <1>8 DEF RestTypes, IInv, HeardInv, Untouched
<1>11. SendInv'
  <2> SUFFICES ASSUME NEW s \in sends, Runs(s.page)'
               PROVE  \/ s.resp[1] = s.page /\ s.resp[2] <= page'[s.page].stored
                      \/ \E d \in Drafts : started[d] # <<>> /\ started[d] = s.resp
    BY <1>1 DEF SendInv
  <2>1. s.page \in Pages /\ s.page # l
    BY <1>t, <1>u DEF RestTypes, Sends, Untouched
  <2>2. Runs(s.page) /\ page'[s.page].stored = page[s.page].stored
    BY <1>2, <1>4, <1>5, <2>1 DEF Runs
  <2> QED
    BY <2>2 DEF IInv, SendInv
<1>12. RememberedInv' /\ OneDraftAResponse'
  BY <1>1 DEF IInv, RememberedInv, OneDraftAResponse
<1> QED
  BY <1>6, <1>7, <1>9, <1>10, <1>11, <1>12 DEF IInv, PageInv

-----------------------------------------------------------------------------
LEMMA InitHolds == Init => IInv
<1> SUFFICES ASSUME Init PROVE IInv
  OBVIOUS
<1> USE BoundsAssumption
<1>1. ASSUME NEW l \in Pages
      PROVE  /\ page[l] = Blank(l) /\ Blank(l) \in PageStates /\ page[l].at = "unborn" /\ page[l].draft = {}
             /\ page[l].asked = {} /\ page[l].waiting = {} /\ page[l].starting = "no" /\ ~page[l].timer
             /\ ~page[l].told /\ page[l].stored = 0
  BY DEF Init, Blank, PageStates, Responses
<1>2. PageTypes
  <2>1. page \in [Pages -> PageStates]
    BY <1>1 DEF Init
  <2> QED
    BY <1>1, <2>1 DEF PageTypes, AtMostOne
<1>3. RestTypes
  BY DEF Init, RestTypes, AtMostOne
<1>4. PageInv
  BY <1>1 DEF Init, PageInv, Fit, Untouched, Saved, Runs
<1>5. StartedInv /\ HeardInv /\ SendInv /\ RememberedInv /\ OneDraftAResponse
  BY DEF Init, StartedInv, HeardInv, SendInv, RememberedInv, OneDraftAResponse
<1> QED
  BY <1>2, <1>3, <1>4, <1>5 DEF IInv, TypeOK

LEMMA NextKeeps == IInv /\ [Next]_vars => IInv'
<1> SUFFICES ASSUME IInv, [Next]_vars PROVE IInv'
  OBVIOUS
<1>1. CASE UNCHANGED vars
  <2>1. TypeOK'
    BY <1>1 DEF IInv, TypeOK, PageTypes, RestTypes, vars, counts
  <2> QED
    BY <1>1, <2>1, SendsShrink DEF vars
<1>2. ASSUME NEW l \in Pages, NEW reload \in BOOLEAN, Mount(l, reload) PROVE IInv'
  BY <1>2, MountKeeps
<1>3. ASSUME NEW l \in Pages, StartOver(l) \/ Edit(l) \/ Fire(l) PROVE IInv'
  BY <1>3, OwnKeeps
<1>4. ASSUME NEW l \in Pages, Press(l) PROVE IInv'
  BY <1>4, PressKeeps
<1>5. ASSUME NEW l \in Pages, Network(l) PROVE IInv'
  <2>1. CASE (\E readOnly \in BOOLEAN : Resumed(l, readOnly)) \/ NotResumed(l) \/ Fetched(l) \/ NotLoaded(l)
    BY <2>1, LoadKeeps
  <2>2. CASE StartAnswered(l)
    BY <2>2, StartKeeps
  <2>3. CASE \E rejected \in BOOLEAN : StartFails(l, rejected)
    BY <2>3, OwnKeeps
  <2>4. CASE \E p \in puts : p.page = l /\ (Land(p) \/ PutEnds(p))
    BY <2>4, ServerKeeps
  <2>5. ASSUME NEW s \in sends, (\E refuses \in BOOLEAN : Serve(s, refuses)) \/ Told(s) \/ SendLost(s) PROVE IInv'
    BY <2>5, ServerKeeps, ToldKeeps
  <2> QED
    BY <1>5, <2>1, <2>2, <2>3, <2>4, <2>5 DEF Network
<1> QED
  BY <1>1, <1>2, <1>3, <1>4, <1>5 DEF Next

LEMMA Invariance == Spec => []IInv
BY InitHolds, NextKeeps, PTL DEF Spec

(* FillPane!TypeOK, with it: a page keeps one draft at most, and saves wait *)
(* only for a start that is under way.                                      *)
THEOREM TypeCorrect == Spec => []TypeOK
<1>1. IInv => TypeOK
  BY DEF IInv
<1> QED
  BY <1>1, Invariance, PTL

(* FillPane!FinishedIsForgotten: nothing stored is resumed as a draft, on *)
(* whatever mounting and however late the start of its draft was answered. *)
THEOREM Forgotten == Spec => []FinishedIsForgotten
BY ForgottenFollows, Invariance, PTL

(* FillPane!OneDraftAResponse: a response has at most one draft, however *)
(* many saves were made while it was being started.                      *)
THEOREM OneDraft == Spec => []OneDraftAResponse
<1>1. IInv => OneDraftAResponse
  BY DEF IInv
<1> QED
  BY <1>1, Invariance, PTL
=============================================================================
