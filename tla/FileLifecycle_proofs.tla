----------------------- MODULE FileLifecycle_proofs -----------------------
(***************************************************************************)
(* The safety of FileLifecycle for every number of files, requests,        *)
(* submissions and collectors, and every lease and waiting time.           *)
(***************************************************************************)
EXTENDS FileLifecycle, TLAPS

(* The row of a checked submission's file was stored, so its form is final. *)
CheckedInv ==
    \A s \in Subs : sub[s].pc = "checked" =>
        \A f \in Named(s) : /\ row[f].state \in {"stored", "claimed", "deleted"}
                            /\ row[f].form = sub[s].form

ClaimInv == NoFileShared /\ ClaimedIffNamed /\ CheckedInv

(* A request whose lease still runs is the one the row names. *)
LeaseInv ==
    \A r \in Requests :
        /\ Active(r) => put[r].file \in Files /\ put[r].at <= now
        /\ Holding(r) => /\ row[put[r].file].lease = LeaseOf(r)
                         /\ row[put[r].file].state \in {"offered", "deleted"}

Young(f) == now <= row[f].createdAt + AbandonAfter

(* The collector holds only old files; a written file that is young has its *)
(* bytes.                                                                   *)
BytesInv ==
    /\ YoungFilesHaveBytes
    /\ \A c \in Collectors : \A f \in col[c].batch : ~Young(f) /\ row[f].state # "unused"
    /\ \A r \in Requests : /\ Active(r) => row[put[r].file].state # "unused"
                           /\ put[r].pc = "written" /\ Young(put[r].file) => bytes[put[r].file] # None

-----------------------------------------------------------------------------
(* A submission's names are files. *)
LEMMA NamesAreFiles == ASSUME NEW names \in Names PROVE Range(names) \subseteq Files
  BY DEF Names, Range

(* Naming nothing is a list of names. *)
LEMMA NoNames == <<>> \in Names
<1>1. <<>> \in [1..0 -> Files]
  OBVIOUS
<1> QED BY <1>1, FileConstants DEF Names

(* The initial state is well typed. *)
LEMMA InitType == Init => TypeOK
<1> SUFFICES ASSUME Init PROVE TypeOK
  OBVIOUS
<1> QED BY NoNames, FileConstants
        DEF Init, TypeOK, Rows, RowStates, NoLease, Puts, Submissions, Passes

(* Every step keeps the state well typed. *)
LEMMA NextType == TypeOK /\ [Next]_vars => TypeOK'
<1> SUFFICES ASSUME TypeOK, [Next]_vars PROVE TypeOK'
  OBVIOUS
<1> USE FileConstants DEF TypeOK
<1>1. CASE Tick
  BY <1>1 DEF Tick
<1>2. ASSUME NEW f \in Files, NEW form \in Forms, Offer(f, form) PROVE TypeOK'
  BY <1>2 DEF Offer, Rows, RowStates, NoLease
<1>3. ASSUME NEW r \in Requests, NEW f \in Files, BeginPut(r, f) PROVE TypeOK'
  BY <1>3 DEF BeginPut, Puts
<1>4. ASSUME NEW r \in Requests, ReceiveStep(r) PROVE TypeOK'
  <2> DEFINE f == put[r].file
  <2>0. put[r] \in Puts /\ LeaseOf(r) \in Nat
    BY DEF LeaseOf, Puts
  <2>1. CASE LeaseFile(r)
    <3>1. put' \in [Requests -> Puts]
      BY <2>0, <2>1 DEF LeaseFile, Goto, Answer, Puts
    <3>2. row' \in [Files -> Rows]
      BY <2>0, <2>1 DEF LeaseFile, Rows
    <3> QED BY <2>1, <3>1, <3>2 DEF LeaseFile
  <2>2. CASE Scan(r)
    BY <2>0, <2>2 DEF Scan, Goto, Puts
  <2>3. CASE Recheck(r)
    <3>1. put' \in [Requests -> Puts]
      BY <2>0, <2>3 DEF Recheck, Begun, Goto, Puts
    <3> QED BY <2>3, <3>1 DEF Recheck
  <2>4. CASE StorePut(r)
    <3>1. put' \in [Requests -> Puts]
      BY <2>0, <2>4 DEF StorePut, Goto, Puts
    <3> QED BY <2>4, <3>1 DEF StorePut
  <2>5. CASE SettleFile(r)
    <3>1. put' \in [Requests -> Puts]
      BY <2>0, <2>5 DEF SettleFile, Goto, Answer, Puts
    <3>2. row' \in [Files -> Rows]
      BY <2>0, <2>5 DEF SettleFile, Rows, RowStates, NoLease
    <3> QED BY <2>5, <3>1, <3>2 DEF SettleFile
  <2>6. CASE ReleaseFile(r)
    <3>1. put' \in [Requests -> Puts]
      BY <2>0, <2>6 DEF ReleaseFile, Answer, Puts
    <3>2. row' \in [Files -> Rows]
      BY <2>0, <2>6 DEF ReleaseFile, Rows, NoLease
    <3> QED BY <2>6, <3>1, <3>2 DEF ReleaseFile
  <2> QED BY <1>4, <2>1, <2>2, <2>3, <2>4, <2>5, <2>6 DEF ReceiveStep
<1>5. ASSUME NEW r \in Requests, PutThrows(r) PROVE TypeOK'
  <2>1. put' \in [Requests -> Puts]
    BY <1>5 DEF PutThrows, Goto, Puts
  <2> QED BY <1>5, <2>1 DEF PutThrows, Fails
<1>6. ASSUME NEW r \in Requests, PutDies(r) PROVE TypeOK'
  <2>1. put' \in [Requests -> Puts]
    BY <1>6 DEF PutDies, Answer, Puts
  <2> QED BY <1>6, <2>1 DEF PutDies, Fails
<1>7. ASSUME NEW s \in Subs, NEW form \in Forms, NEW names \in Names, Check(s, form, names)
      PROVE TypeOK'
  <2>1. sub' \in [Subs -> Submissions]
    BY <1>7, NoNames DEF Check, Refuse, Submissions
  <2> QED BY <1>7, <2>1 DEF Check
<1>8. ASSUME NEW s \in Subs, Commit(s) PROVE TypeOK'
  <2>1. CASE MatchesEvery(sub[s].names)
    <3>1. /\ sub' = [sub EXCEPT ![s].pc = "stored"]
          /\ row' = [f \in Files |->
                      IF f \in Range(sub[s].names)
                      THEN [row[f] EXCEPT !.state = "claimed", !.owner = s] ELSE row[f]]
      BY <1>8, <2>1 DEF Commit
    <3>2. sub' \in [Subs -> Submissions]
      BY <3>1 DEF Submissions
    <3>3. \A f \in Files : [row[f] EXCEPT !.state = "claimed", !.owner = s] \in Rows
      BY DEF Rows, RowStates
    <3>4. row' \in [Files -> Rows]
      BY <3>1, <3>3
    <3> QED BY <1>8, <3>2, <3>4 DEF Commit
  <2>2. CASE ~MatchesEvery(sub[s].names)
    <3>1. sub' \in [Subs -> Submissions]
      BY <1>8, <2>2, NoNames DEF Commit, Refuse, Submissions
    <3> QED BY <1>8, <2>2, <3>1 DEF Commit
  <2> QED BY <2>1, <2>2
<1>9. ASSUME NEW c \in Collectors, PassStep(c) PROVE TypeOK'
  <2>1. CASE BeginPass(c)
    BY <2>1 DEF BeginPass, Passes
  <2>2. ASSUME NEW f \in Files, RemoveBytes(c, f) PROVE TypeOK'
    <3>1. col' \in [Collectors -> Passes]
      BY <2>2 DEF RemoveBytes, Passes
    <3> QED BY <2>2, <3>1 DEF RemoveBytes
  <2>3. CASE DeleteRows(c)
    <3>1. row' \in [Files -> Rows]
      BY <2>3 DEF DeleteRows, Rows, RowStates
    <3>2. col' \in [Collectors -> Passes]
      BY <2>3 DEF DeleteRows, Idle, Passes
    <3> QED BY <2>3, <3>1, <3>2 DEF DeleteRows
  <2> QED BY <1>9, <2>1, <2>2, <2>3 DEF PassStep
<1>10. ASSUME NEW c \in Collectors, PassFails(c) PROVE TypeOK'
  <2>1. col' \in [Collectors -> Passes]
    BY <1>10 DEF PassFails, Idle, Passes
  <2> QED BY <1>10, <2>1 DEF PassFails, Fails
<1>11. CASE UNCHANGED vars
  BY <1>11 DEF vars
<1> QED BY <1>1, <1>2, <1>3, <1>4, <1>5, <1>6, <1>7, <1>8, <1>9, <1>10, <1>11 DEF Next

(* Type correctness of the specification. *)
THEOREM TypeCorrect == Spec => []TypeOK
<1> QED BY InitType, NextType, PTL DEF Spec

-----------------------------------------------------------------------------
(* How a step may move the row of one file. *)
Forward(f) ==
    /\ row[f].state # "unused" =>
          /\ row'[f].state # "unused"
          /\ row'[f].form = row[f].form /\ row'[f].createdAt = row[f].createdAt
    /\ row[f].state = "deleted" => row'[f].state = "deleted"
    /\ row[f].state = "claimed" => row'[f].state \in {"claimed", "deleted"}
                                   /\ row'[f].owner = row[f].owner
    /\ row[f].state = "stored" => row'[f].state \in {"stored", "claimed", "deleted"}

(* Rows only move forward, and a row becomes claimed only by the commit of a *)
(* submission that names it.                                                 *)
LEMMA RowsForward ==
    ASSUME TypeOK, [Next]_vars, NEW f \in Files
    PROVE  /\ Forward(f)
           /\ row'[f].state = "claimed" /\ row[f].state # "claimed" =>
                 \E s \in Subs : Commit(s) /\ f \in Named(s)
<1> DEFINE Goal == /\ Forward(f)
                   /\ row'[f].state = "claimed" /\ row[f].state # "claimed" =>
                         \E s \in Subs : Commit(s) /\ f \in Named(s)
<1> USE DEF TypeOK
<1>0. row[f] \in Rows
  OBVIOUS
<1>1. CASE row' = row
  BY <1>1 DEF Forward
<1>2. ASSUME NEW g \in Files, NEW form \in Forms, Offer(g, form) PROVE Goal
  BY <1>0, <1>2 DEF Offer, Forward, Rows
<1>3. ASSUME NEW r \in Requests, LeaseFile(r) PROVE Goal
  BY <1>0, <1>3 DEF LeaseFile, Forward, Rows
<1>4. ASSUME NEW r \in Requests, SettleFile(r) PROVE Goal
  BY <1>0, <1>4 DEF SettleFile, Forward, Rows
<1>5. ASSUME NEW r \in Requests, ReleaseFile(r) PROVE Goal
  BY <1>0, <1>5 DEF ReleaseFile, Forward, Rows
<1>6. ASSUME NEW s \in Subs, Commit(s) PROVE Goal
  <2>1. CASE MatchesEvery(sub[s].names)
    <3>1. row' = [g \in Files |->
                   IF g \in Range(sub[s].names)
                   THEN [row[g] EXCEPT !.state = "claimed", !.owner = s] ELSE row[g]]
      BY <1>6, <2>1 DEF Commit
    <3>2. CASE f \in Range(sub[s].names)
      <4>1. row[f].state = "stored"
        BY <2>1, <3>2 DEF MatchesEvery
      <4>2. row'[f] = [row[f] EXCEPT !.state = "claimed", !.owner = s]
        BY <3>1, <3>2
      <4> QED BY <1>0, <1>6, <3>2, <4>1, <4>2 DEF Forward, Rows, Named
    <3>3. CASE f \notin Range(sub[s].names)
      BY <3>1, <3>3 DEF Forward
    <3> QED BY <3>2, <3>3
  <2>2. CASE ~MatchesEvery(sub[s].names)
    BY <1>1, <1>6, <2>2 DEF Commit
  <2> QED BY <2>1, <2>2
<1>7. ASSUME NEW c \in Collectors, DeleteRows(c) PROVE Goal
  BY <1>0, <1>7 DEF DeleteRows, Forward, Rows, Exists
<1>8. CASE Tick
  BY <1>1, <1>8 DEF Tick
<1>9. ASSUME NEW r \in Requests, NEW g \in Files, BeginPut(r, g) PROVE Goal
  BY <1>1, <1>9 DEF BeginPut
<1>10. ASSUME NEW r \in Requests, Scan(r) \/ Recheck(r) \/ StorePut(r) \/ PutThrows(r) \/ PutDies(r)
       PROVE Goal
  BY <1>1, <1>10 DEF Scan, Recheck, StorePut, PutThrows, PutDies
<1>11. ASSUME NEW s \in Subs, NEW form \in Forms, NEW names \in Names, Check(s, form, names)
       PROVE Goal
  BY <1>1, <1>11 DEF Check
<1>12. ASSUME NEW c \in Collectors, BeginPass(c) \/ (\E g \in Files : RemoveBytes(c, g)) \/ PassFails(c)
       PROVE Goal
  BY <1>1, <1>12 DEF BeginPass, RemoveBytes, PassFails
<1>13. CASE UNCHANGED vars
  BY <1>1, <1>13 DEF vars
<1> QED BY <1>2, <1>3, <1>4, <1>5, <1>6, <1>7, <1>8, <1>9, <1>10, <1>11, <1>12, <1>13
        DEF Next, ReceiveStep, PassStep

(* Only a check or a commit moves a submission. *)
LEMMA SubMoves ==
    ASSUME [Next]_vars,
           ~\E s \in Subs : Commit(s),
           ~\E s \in Subs, form \in Forms, names \in Names : Check(s, form, names)
    PROVE  sub' = sub
<1>1. ASSUME NEW r \in Requests, ReceiveStep(r) PROVE sub' = sub
  BY <1>1 DEF ReceiveStep, LeaseFile, Scan, Recheck, StorePut, SettleFile, ReleaseFile
<1>2. ASSUME NEW r \in Requests, PutThrows(r) \/ PutDies(r) PROVE sub' = sub
  BY <1>2 DEF PutThrows, PutDies
<1>3. ASSUME NEW c \in Collectors, PassStep(c) \/ PassFails(c) PROVE sub' = sub
  BY <1>3 DEF PassStep, BeginPass, RemoveBytes, DeleteRows, PassFails
<1>4. ASSUME NEW r \in Requests, NEW f \in Files, BeginPut(r, f) PROVE sub' = sub
  BY <1>4 DEF BeginPut
<1>5. ASSUME NEW f \in Files, NEW form \in Forms, Offer(f, form) PROVE sub' = sub
  BY <1>5 DEF Offer
<1> QED BY <1>1, <1>2, <1>3, <1>4, <1>5 DEF Next, Tick, vars

-----------------------------------------------------------------------------
(* A file goes to one submission. *)

(* What a commit does to the submissions and to the rows. *)
LEMMA CommitStep ==
    ASSUME TypeOK, NEW s \in Subs, Commit(s)
    PROVE  /\ sub[s].pc = "checked"
           /\ \A t \in Subs \ {s} : sub'[t] = sub[t]
           /\ \/ /\ Stored(s)' /\ Named(s)' = Named(s)
                 /\ sub'[s].form = sub[s].form
                 /\ \A f \in Named(s) : /\ row[f].state = "stored"
                                        /\ row'[f].state = "claimed" /\ row'[f].owner = s
                 /\ \A f \in Files \ Named(s) : row'[f] = row[f]
              \/ sub'[s].pc = "refused" /\ row' = row
<1> USE DEF TypeOK
<1>0. sub[s] \in Submissions /\ Range(sub[s].names) \subseteq Files
  <2>1. sub[s] \in Submissions /\ sub[s].names \in Names
    BY DEF Submissions
  <2> QED BY <2>1, NamesAreFiles
<1>1. sub[s].pc = "checked" /\ \A t \in Subs \ {s} : sub'[t] = sub[t]
  <2>1. CASE MatchesEvery(sub[s].names)
    BY <2>1 DEF Commit
  <2>2. CASE ~MatchesEvery(sub[s].names)
    BY <2>2 DEF Commit, Refuse
  <2> QED BY <2>1, <2>2
<1>2. CASE MatchesEvery(sub[s].names)
  <2>1. /\ sub' = [sub EXCEPT ![s].pc = "stored"]
        /\ row' = [f \in Files |->
                    IF f \in Range(sub[s].names)
                    THEN [row[f] EXCEPT !.state = "claimed", !.owner = s] ELSE row[f]]
    BY <1>2 DEF Commit
  <2>2. sub'[s].pc = "stored" /\ sub'[s].names = sub[s].names /\ sub'[s].form = sub[s].form
    BY <1>0, <2>1 DEF Submissions
  <2>3. \A f \in Range(sub[s].names) : row[f].state = "stored"
    BY <1>2 DEF MatchesEvery
  <2>4. \A f \in Range(sub[s].names) : row'[f].state = "claimed" /\ row'[f].owner = s
    BY <1>0, <2>1 DEF Rows
  <2>5. \A f \in Files \ Range(sub[s].names) : row'[f] = row[f]
    BY <2>1
  <2> QED BY <1>1, <2>2, <2>3, <2>4, <2>5 DEF Stored, Named
<1>3. CASE ~MatchesEvery(sub[s].names)
  BY <1>1, <1>3 DEF Commit, Refuse
<1> QED BY <1>2, <1>3

(* The claims are kept by every step. *)
LEMMA NextClaim == TypeOK /\ ClaimInv /\ [Next]_vars => ClaimInv'
<1> SUFFICES ASSUME TypeOK, ClaimInv, [Next]_vars PROVE ClaimInv'
  OBVIOUS
<1>f. \A s \in Subs : Named(s) \subseteq Files
  <2> SUFFICES ASSUME NEW s \in Subs PROVE Named(s) \subseteq Files
    OBVIOUS
  <2> QED BY NamesAreFiles DEF TypeOK, Submissions, Named
<1>1. ASSUME NEW s \in Subs, Commit(s) PROVE ClaimInv'
  <2>1. \A f \in Files : Forward(f)
    BY RowsForward
  <2>2. CASE sub'[s].pc = "refused" /\ row' = row
    BY <1>1, <2>2, CommitStep DEF ClaimInv, NoFileShared, ClaimedIffNamed, CheckedInv, Stored, Named
  <2>3. CASE /\ Stored(s)' /\ Named(s)' = Named(s)
             /\ sub'[s].form = sub[s].form
             /\ \A f \in Named(s) : /\ row[f].state = "stored"
                                    /\ row'[f].state = "claimed" /\ row'[f].owner = s
             /\ \A f \in Files \ Named(s) : row'[f] = row[f]
    <3>1. /\ sub[s].pc = "checked"
          /\ \A t \in Subs \ {s} : /\ sub'[t] = sub[t]
                                    /\ Named(t)' = Named(t) /\ (Stored(t)' <=> Stored(t))
      BY <1>1, CommitStep DEF Stored, Named
    <3>2. \A t \in Subs : Stored(t) => Named(t) \cap Named(s) = {}
      BY <1>f, <2>3 DEF ClaimInv, ClaimedIffNamed
    <3>3. NoFileShared'
      BY <2>3, <3>1, <3>2 DEF ClaimInv, NoFileShared
    <3>4. ClaimedIffNamed'
      <4> SUFFICES ASSUME NEW f \in Files
                   PROVE /\ row'[f].state = "claimed" =>
                              \E t \in Subs : /\ Stored(t)' /\ f \in Named(t)' /\ row'[f].owner = t
                                              /\ row'[f].form = sub'[t].form
                         /\ \A t \in Subs : Stored(t)' /\ f \in Named(t)' =>
                              \/ row'[f].state = "claimed" /\ row'[f].owner = t
                              \/ row'[f].state = "deleted"
        BY DEF ClaimedIffNamed
      <4>1. CASE f \in Named(s)
        <5>1. row'[f].form = sub'[s].form
          BY <2>1, <2>3, <3>1, <4>1 DEF ClaimInv, CheckedInv, Forward
        <5> QED BY <2>3, <3>1, <3>2, <4>1, <5>1
      <4>2. CASE f \notin Named(s)
        <5>1. row'[f] = row[f] /\ ~Stored(s)
          BY <2>3, <3>1, <4>2 DEF Stored
        <5> QED BY <2>3, <3>1, <4>2, <5>1 DEF ClaimInv, ClaimedIffNamed
      <4> QED BY <4>1, <4>2
    <3>5. CheckedInv'
      <4> SUFFICES ASSUME NEW t \in Subs, sub'[t].pc = "checked", NEW f \in Named(t)'
                   PROVE row'[f].state \in {"stored", "claimed", "deleted"}
                         /\ row'[f].form = sub'[t].form
        BY DEF CheckedInv
      <4>1. t # s
        BY <2>3 DEF Stored
      <4> QED BY <1>f, <2>1, <3>1, <4>1 DEF ClaimInv, CheckedInv, Forward
    <3> QED BY <3>3, <3>4, <3>5 DEF ClaimInv
  <2> QED BY <1>1, <2>2, <2>3, CommitStep
<1>2. ASSUME NEW s \in Subs, NEW form \in Forms, NEW names \in Names, Check(s, form, names)
      PROVE ClaimInv'
  <2>1. row' = row /\ ~Stored(s) /\ ~Stored(s)'
        /\ \A t \in Subs \ {s} : sub'[t] = sub[t]
    BY <1>2 DEF Check, Refuse, Stored, TypeOK
  <2>2. sub'[s].pc = "checked" =>
          \A f \in Named(s)' : row[f].state = "stored" /\ row[f].form = sub'[s].form
    BY <1>2 DEF Check, Refuse, Named, TypeOK
  <2> QED BY <2>1, <2>2 DEF ClaimInv, NoFileShared, ClaimedIffNamed, CheckedInv, Stored, Named
<1>3. CASE /\ ~\E s \in Subs : Commit(s)
           /\ ~\E s \in Subs, form \in Forms, names \in Names : Check(s, form, names)
  <2>1. sub' = sub
    BY <1>3, SubMoves
  <2>2. \A f \in Files : Forward(f) /\ (row'[f].state = "claimed" => row[f].state = "claimed")
    BY <1>3, RowsForward
  <2>3. \A s \in Subs : Named(s)' = Named(s) /\ (Stored(s)' <=> Stored(s))
    BY <2>1 DEF Named, Stored
  <2>4. NoFileShared'
    BY <2>3 DEF ClaimInv, NoFileShared
  <2>5. ClaimedIffNamed'
    BY <2>1, <2>2, <2>3 DEF ClaimInv, ClaimedIffNamed, Forward
  <2>6. CheckedInv'
    BY <1>f, <2>1, <2>2, <2>3 DEF ClaimInv, CheckedInv, Forward
  <2> QED BY <2>4, <2>5, <2>6 DEF ClaimInv
<1> QED BY <1>1, <1>2, <1>3

(* No two stored submissions ever name the same file. *)
THEOREM ClaimsAreExclusive == Spec => []NoFileShared
<1>1. Init => ClaimInv
  BY DEF Init, ClaimInv, NoFileShared, ClaimedIffNamed, CheckedInv, Stored
<1> QED BY <1>1, TypeCorrect, NextClaim, PTL DEF Spec, ClaimInv

(* A file is claimed exactly when a stored submission of its form names it, *)
(* but for the rows a collector deleted.                                    *)
THEOREM ClaimsMatchSubmissions == Spec => []ClaimedIffNamed
<1>1. Init => ClaimInv
  BY DEF Init, ClaimInv, NoFileShared, ClaimedIffNamed, CheckedInv, Stored
<1> QED BY <1>1, TypeCorrect, NextClaim, PTL DEF Spec, ClaimInv

-----------------------------------------------------------------------------
(* One request receives a file's bytes at a time. *)

ReceiveInv == LeaseInv /\ OneReceiver

(* A step that leaves the requests and the clock alone and moves no lease    *)
(* keeps the receivers, as does one that only lets time pass.                *)
LEMMA ReceiversUndisturbed ==
    ASSUME TypeOK, ReceiveInv, [Next]_vars, put' = put, now' \in Nat, now <= now',
           \A f \in Files : row[f].state \in {"offered", "deleted"} =>
              row'[f].lease = row[f].lease /\ row'[f].state \in {"offered", "deleted"}
    PROVE  ReceiveInv'
<1>1. \A r \in Requests : /\ put[r].at \in Nat /\ LeaseOf(r)' = LeaseOf(r) /\ LeaseOf(r) \in Nat
                          /\ Holding(r)' => Holding(r)
                          /\ Active(r)' = Active(r)
  BY FileConstants DEF TypeOK, Puts, LeaseOf, Holding, Active
<1>2. \A r \in Requests : Holding(r) => Active(r)
  BY DEF Holding, Active
<1>3. now \in Nat
  BY FileConstants DEF TypeOK
<1>4. LeaseInv'
  BY <1>1, <1>2, <1>3 DEF ReceiveInv, LeaseInv
<1>5. OneReceiver'
  BY <1>1 DEF ReceiveInv, OneReceiver
<1> QED BY <1>4, <1>5 DEF ReceiveInv

(* One request r moves on, without gaining a lease, and only a row r does    *)
(* not share with a holder changes.                                          *)
LEMMA ReceiverMoves ==
    ASSUME TypeOK, ReceiveInv, now' = now, NEW r \in Requests,
           \A q \in Requests \ {r} : put'[q] = put[q],
           \/ put'[r].pc = "kept" \/ put'[r].pc = "refused"
           \/ put'[r].file = put[r].file /\ put'[r].at = put[r].at
              /\ (Holding(r)' => Holding(r)) /\ (Active(r)' => Active(r)),
           \A q \in Requests : Holding(q)' =>
              /\ row'[put[q].file].lease = row[put[q].file].lease
              /\ row'[put[q].file].state = row[put[q].file].state
    PROVE  ReceiveInv'
<1>1. ASSUME NEW q \in Requests, Active(q)' \/ Holding(q)'
      PROVE  /\ put'[q].file = put[q].file /\ put'[q].at = put[q].at
             /\ LeaseOf(q)' = LeaseOf(q)
             /\ (Active(q)' => Active(q)) /\ (Holding(q)' => Holding(q))
  BY <1>1 DEF Active, Holding, LeaseOf
<1>2. LeaseInv'
  BY <1>1 DEF ReceiveInv, LeaseInv
<1>3. OneReceiver'
  BY <1>1 DEF ReceiveInv, OneReceiver
<1> QED BY <1>2, <1>3 DEF ReceiveInv

(* The leases are kept by every step. *)
LEMMA NextReceive == TypeOK /\ ReceiveInv /\ [Next]_vars => ReceiveInv'
<1> SUFFICES ASSUME TypeOK, ReceiveInv, [Next]_vars PROVE ReceiveInv'
  OBVIOUS
<1>t. /\ now \in Nat /\ LeaseTime \in Nat \ {0}
      /\ \A r \in Requests : put[r] \in Puts /\ put[r].at \in Nat /\ LeaseOf(r) \in Nat
  BY FileConstants DEF TypeOK, Puts, LeaseOf
<1>1. CASE Tick
  BY <1>1, <1>t, ReceiversUndisturbed DEF Tick
<1>2. ASSUME NEW f \in Files, NEW form \in Forms, Offer(f, form) PROVE ReceiveInv'
  BY <1>2, <1>t, ReceiversUndisturbed DEF Offer, TypeOK
<1>3. ASSUME NEW r \in Requests, NEW f \in Files, BeginPut(r, f) PROVE ReceiveInv'
  <2>1. /\ row' = row /\ now' = now
        /\ put'[r] = [pc |-> "stamped", file |-> f, at |-> now, began |-> 0]
        /\ \A q \in Requests \ {r} : put'[q] = put[q]
    BY <1>3 DEF BeginPut, TypeOK
  <2>2. ~Holding(r)' /\ \A q \in Requests \ {r} : LeaseOf(q)' = LeaseOf(q)
                          /\ (Holding(q)' <=> Holding(q)) /\ (Active(q)' <=> Active(q))
    BY <2>1 DEF Holding, LeaseOf, Active
  <2>3. LeaseInv'
    BY <1>t, <2>1, <2>2 DEF ReceiveInv, LeaseInv
  <2>4. OneReceiver'
    BY <2>1, <2>2 DEF ReceiveInv, OneReceiver
  <2> QED BY <2>3, <2>4 DEF ReceiveInv
<1>4. ASSUME NEW r \in Requests, LeaseFile(r) PROVE ReceiveInv'
  <2> DEFINE f == put[r].file
  <2>1. CASE row[f].state = "offered" /\ Free(f, put[r].at)
    <3>1. /\ row' = [row EXCEPT ![f].lease = LeaseOf(r)] /\ now' = now
          /\ put' = [put EXCEPT ![r].pc = "scanning"]
          /\ put[r].pc = "stamped"
      BY <1>4, <2>1 DEF LeaseFile, Goto
    <3>2. f \in Files /\ put[r].at <= now
      BY <3>1 DEF ReceiveInv, LeaseInv, Active
    <3>3. /\ row'[f].lease = LeaseOf(r) /\ row'[f].state = "offered"
          /\ \A g \in Files \ {f} : row'[g] = row[g]
          /\ put'[r].pc = "scanning" /\ put'[r].file = f /\ put'[r].at = put[r].at
          /\ \A q \in Requests \ {r} : put'[q] = put[q]
      BY <1>t, <2>1, <3>1, <3>2 DEF TypeOK, Rows, Puts
    <3>4. \A q \in Requests : Holding(q) => Active(q)
      BY DEF Holding, Active
    <3>5. \A q \in Requests : Holding(q) => put[q].file # f
      <4> SUFFICES ASSUME NEW q \in Requests, Holding(q), put[q].file = f PROVE FALSE
        OBVIOUS
      <4>1. row[f].lease = LeaseOf(q) /\ now < LeaseOf(q)
        BY DEF ReceiveInv, LeaseInv, Holding
      <4> QED BY <1>t, <2>1, <3>2, <4>1 DEF Free, NoLease
    <3>6. \A q \in Requests \ {r} : LeaseOf(q)' = LeaseOf(q)
                          /\ (Holding(q)' <=> Holding(q)) /\ (Active(q)' <=> Active(q))
      BY <3>1, <3>3 DEF Holding, LeaseOf, Active
    <3>7. LeaseInv'
      <4>1. LeaseOf(r)' = LeaseOf(r)
        BY <3>3 DEF LeaseOf
      <4>2. ASSUME NEW q \in Requests \ {r}
            PROVE  /\ Active(q)' => put'[q].file \in Files /\ put'[q].at <= now'
                   /\ Holding(q)' => /\ row'[put'[q].file].lease = LeaseOf(q)'
                                     /\ row'[put'[q].file].state \in {"offered", "deleted"}
        BY <3>1, <3>3, <3>4, <3>5, <3>6 DEF ReceiveInv, LeaseInv
      <4> QED BY <3>1, <3>2, <3>3, <4>1, <4>2 DEF LeaseInv
    <3>8. OneReceiver'
      BY <3>3, <3>5, <3>6 DEF ReceiveInv, OneReceiver
    <3> QED BY <3>7, <3>8 DEF ReceiveInv
  <2>2. CASE ~(row[f].state = "offered" /\ Free(f, put[r].at))
    <3>1. now' = now /\ row' = row /\ put' = [put EXCEPT ![r] = [pc |-> "refused", file |-> None, at |-> 0, began |-> 0]]
      BY <1>4, <2>2 DEF LeaseFile, Answer
    <3> QED BY <3>1, ReceiverMoves DEF TypeOK
  <2> QED BY <2>1, <2>2
<1>5. ASSUME NEW r \in Requests, Scan(r) \/ Recheck(r) \/ StorePut(r) PROVE ReceiveInv'
  <2>1. /\ now' = now /\ row' = row
        /\ put[r].pc \in {"scanning", "screened", "writing"}
        /\ \/ put' = [put EXCEPT ![r].pc = "writing", ![r].began = now]
           \/ \E pc \in {"screened", "written", "returning"} : put' = [put EXCEPT ![r].pc = pc]
    BY <1>5 DEF Scan, Recheck, Begun, StorePut, Goto
  <2>2. /\ put'[r].file = put[r].file /\ put'[r].at = put[r].at
        /\ put'[r].pc \in {"screened", "writing", "written", "returning"}
        /\ \A q \in Requests \ {r} : put'[q] = put[q]
    BY <1>t, <2>1 DEF TypeOK, Puts
  <2>3. (Holding(r)' => Holding(r)) /\ (Active(r)' => Active(r))
    BY <2>1, <2>2 DEF Holding, Active, LeaseOf
  <2> QED BY <2>1, <2>2, <2>3, ReceiverMoves
<1>6. ASSUME NEW r \in Requests, SettleFile(r) PROVE ReceiveInv'
  <2> DEFINE f == put[r].file
  <2>1. CASE row[f].state = "offered" /\ row[f].lease = LeaseOf(r)
    <3>1. /\ row' = [row EXCEPT ![f].state = "stored", ![f].lease = NoLease] /\ now' = now
          /\ put' = [put EXCEPT ![r] = [pc |-> "kept", file |-> None, at |-> 0, began |-> 0]]
          /\ put[r].pc = "written"
      BY <1>6, <2>1 DEF SettleFile, Answer
    <3>2. put'[r].pc = "kept" /\ \A q \in Requests \ {r} : put'[q] = put[q]
      BY <3>1 DEF TypeOK
    <3>3. \A q \in Requests : Holding(q)' => Holding(q) /\ q # r /\ put[q].file \in Files
      BY <3>1, <3>2 DEF Holding, LeaseOf, ReceiveInv, LeaseInv, Active
    <3>4. \A q \in Requests : Holding(q)' => put[q].file # f
      <4> SUFFICES ASSUME NEW q \in Requests, Holding(q), q # r, put[q].file = f PROVE FALSE
        BY <3>3
      <4>1. LeaseOf(r) = LeaseOf(q) /\ now < LeaseOf(q)
        BY <2>1 DEF ReceiveInv, LeaseInv, Holding
      <4>2. Holding(r)
        BY <3>1, <4>1 DEF Holding
      <4> QED BY <4>2 DEF ReceiveInv, OneReceiver
    <3>5. \A q \in Requests : Holding(q)' => row'[put[q].file] = row[put[q].file]
      BY <3>1, <3>3, <3>4 DEF TypeOK
    <3> QED BY <3>1, <3>2, <3>5, ReceiverMoves
  <2>2. CASE ~(row[f].state = "offered" /\ row[f].lease = LeaseOf(r))
    <3>1. /\ now' = now /\ row' = row /\ put' = [put EXCEPT ![r].pc = "returning"]
          /\ put[r].pc = "written"
      BY <1>6, <2>2 DEF SettleFile, Goto
    <3>2. put'[r].file = put[r].file /\ put'[r].at = put[r].at /\ \A q \in Requests \ {r} : put'[q] = put[q]
      BY <1>t, <3>1 DEF TypeOK, Puts
    <3>3. (Holding(r)' => Holding(r)) /\ (Active(r)' => Active(r))
      BY <3>1, <3>2 DEF Holding, Active, LeaseOf
    <3> QED BY <3>1, <3>2, <3>3, ReceiverMoves
  <2> QED BY <2>1, <2>2
<1>7. ASSUME NEW r \in Requests, ReleaseFile(r) PROVE ReceiveInv'
  <2> DEFINE f == put[r].file
  <2>1. /\ now' = now /\ put[r].pc = "returning"
        /\ put' = [put EXCEPT ![r] = [pc |-> "refused", file |-> None, at |-> 0, began |-> 0]]
        /\ row' = row \/ (row[f].lease = LeaseOf(r) /\ row' = [row EXCEPT ![f].lease = NoLease])
    BY <1>7 DEF ReleaseFile, Answer
  <2>2. put'[r].pc = "refused" /\ \A q \in Requests \ {r} : put'[q] = put[q]
    BY <2>1 DEF TypeOK
  <2>3. \A q \in Requests : Holding(q)' => Holding(q) /\ q # r /\ put[q].file \in Files
    BY <2>1, <2>2 DEF Holding, LeaseOf, ReceiveInv, LeaseInv, Active
  <2>4. ASSUME NEW q \in Requests, Holding(q)' PROVE row'[put[q].file] = row[put[q].file]
    <3>1. CASE row' = row
      BY <3>1
    <3>2. CASE row[f].lease = LeaseOf(r) /\ row' = [row EXCEPT ![f].lease = NoLease]
      <4>1. put[q].file # f
        <5> SUFFICES ASSUME put[q].file = f PROVE FALSE
          OBVIOUS
        <5>1. LeaseOf(r) = LeaseOf(q) /\ now < LeaseOf(q)
          BY <2>3, <2>4, <3>2 DEF ReceiveInv, LeaseInv, Holding
        <5>2. Holding(r)
          BY <2>1, <5>1 DEF Holding
        <5> QED BY <2>3, <2>4, <5>2 DEF ReceiveInv, OneReceiver
      <4> QED BY <2>3, <2>4, <3>2, <4>1 DEF TypeOK
    <3> QED BY <2>1, <3>1, <3>2
  <2> QED BY <2>1, <2>2, <2>4, ReceiverMoves
<1>8. ASSUME NEW r \in Requests, PutThrows(r) PROVE ReceiveInv'
  <2>1. /\ now' = now /\ row' = row /\ put' = [put EXCEPT ![r].pc = "returning"]
        /\ put[r].pc \in {"scanning", "screened", "writing", "written"}
    BY <1>8 DEF PutThrows, Goto
  <2>2. put'[r].file = put[r].file /\ put'[r].at = put[r].at /\ \A q \in Requests \ {r} : put'[q] = put[q]
    BY <1>t, <2>1 DEF TypeOK, Puts
  <2>3. (Holding(r)' => Holding(r)) /\ (Active(r)' => Active(r))
    BY <2>1, <2>2 DEF Holding, Active, LeaseOf
  <2> QED BY <2>1, <2>2, <2>3, ReceiverMoves
<1>9. ASSUME NEW r \in Requests, PutDies(r) PROVE ReceiveInv'
  <2>1. now' = now /\ row' = row /\ put' = [put EXCEPT ![r] = [pc |-> "refused", file |-> None, at |-> 0, began |-> 0]]
    BY <1>9 DEF PutDies, Answer
  <2> QED BY <2>1, ReceiverMoves DEF TypeOK
<1>10. ASSUME NEW s \in Subs, NEW form \in Forms, NEW names \in Names, Check(s, form, names)
       PROVE ReceiveInv'
  BY <1>10, <1>t, ReceiversUndisturbed DEF Check
<1>11. ASSUME NEW s \in Subs, Commit(s) PROVE ReceiveInv'
  <2>1. now' = now /\ put' = put
    BY <1>11 DEF Commit
  <2>2. \A f \in Files : row[f].state \in {"offered", "deleted"} => row'[f] = row[f]
    BY <1>11, CommitStep
  <2> QED BY <1>t, <2>1, <2>2, ReceiversUndisturbed
<1>12. ASSUME NEW c \in Collectors, PassStep(c) \/ PassFails(c) PROVE ReceiveInv'
  <2>1. CASE row' = row /\ now' = now /\ put' = put
    BY <1>t, <2>1, ReceiversUndisturbed
  <2>2. CASE DeleteRows(c)
    <3>1. ASSUME NEW f \in Files, row[f].state \in {"offered", "deleted"}
          PROVE  row'[f].lease = row[f].lease /\ row'[f].state \in {"offered", "deleted"}
      BY <2>2, <3>1 DEF DeleteRows, TypeOK, Rows
    <3> QED BY <1>t, <2>2, <3>1, ReceiversUndisturbed DEF DeleteRows
  <2> QED BY <1>12, <2>1, <2>2 DEF PassStep, PassFails, BeginPass, RemoveBytes
<1>13. CASE UNCHANGED vars
  BY <1>13, <1>t, ReceiversUndisturbed DEF vars
<1> QED BY <1>1, <1>2, <1>3, <1>4, <1>5, <1>6, <1>7, <1>8, <1>9, <1>10, <1>11, <1>12, <1>13
        DEF Next, ReceiveStep

(* Nobody is receiving in the initial state, and nothing is leased.         *)
LEMMA InitReceive == Init => ReceiveInv
  BY DEF Init, ReceiveInv, LeaseInv, OneReceiver, Holding, Active

(* At most one request holds a file by a lease that still runs. *)
THEOREM OneReceiverAtATime == Spec => []OneReceiver
<1> QED BY InitReceive, TypeCorrect, NextReceive, PTL DEF Spec, ReceiveInv

-----------------------------------------------------------------------------
(* The bytes of a settled file. *)

(* A write that is under way began inside its lease. *)
BeganInv == \A r \in Requests : put[r].pc = "writing" => put[r].began < LeaseOf(r)

(* No step changes that: only looking again begins a write. *)
LEMMA NextBegan == TypeOK /\ BeganInv /\ [Next]_vars => BeganInv'
<1> SUFFICES ASSUME TypeOK, BeganInv, [Next]_vars PROVE BeganInv'
  OBVIOUS
<1> USE DEF BeganInv, LeaseOf
<1>1. CASE put' = put
  BY <1>1
<1>2. ASSUME NEW r \in Requests, put'[r].pc # "writing", \A q \in Requests \ {r} : put'[q] = put[q]
      PROVE  BeganInv'
  BY <1>2
<1>3. ASSUME NEW r \in Requests, Recheck(r) PROVE BeganInv'
  <2>1. CASE StillHeld(r)
    <3>1. put' = [put EXCEPT ![r].pc = "writing", ![r].began = now]
      BY <1>3, <2>1 DEF Recheck, Begun
    <3>2. put'[r].began = now /\ put'[r].at = put[r].at /\ \A q \in Requests \ {r} : put'[q] = put[q]
      BY <3>1 DEF TypeOK, Puts
    <3> QED BY <2>1, <3>2 DEF StillHeld
  <2>2. CASE ~StillHeld(r)
    <3>1. put' = [put EXCEPT ![r].pc = "returning"]
      BY <1>3, <2>2 DEF Recheck, Goto
    <3> QED BY <1>2, <3>1 DEF TypeOK, Puts
  <2> QED BY <2>1, <2>2
<1>4. ASSUME NEW r \in Requests,
             LeaseFile(r) \/ Scan(r) \/ StorePut(r) \/ SettleFile(r) \/ ReleaseFile(r) \/ PutThrows(r) \/ PutDies(r)
      PROVE  BeganInv'
  <2>1. /\ put'[r].pc # "writing" /\ \A q \in Requests \ {r} : put'[q] = put[q]
    BY <1>4 DEF LeaseFile, Scan, StorePut, SettleFile, ReleaseFile, PutThrows, PutDies, Goto, Answer, TypeOK, Puts
  <2> QED BY <1>2, <2>1
<1>5. ASSUME NEW r \in Requests, NEW f \in Files, BeginPut(r, f) PROVE BeganInv'
  BY <1>2, <1>5 DEF BeginPut, TypeOK
<1>6. ASSUME NEW c \in Collectors, PassStep(c) \/ PassFails(c) PROVE put' = put
  BY <1>6 DEF PassStep, BeginPass, RemoveBytes, DeleteRows, PassFails
<1>7. ASSUME NEW s \in Subs, Commit(s) PROVE put' = put
  BY <1>7 DEF Commit
<1>8. ASSUME NEW s \in Subs, NEW form \in Forms, NEW names \in Names, Check(s, form, names) PROVE put' = put
  BY <1>8 DEF Check
<1>9. ASSUME NEW f \in Files, NEW form \in Forms, Offer(f, form) PROVE put' = put
  BY <1>9 DEF Offer
<1> QED BY <1>1, <1>3, <1>4, <1>5, <1>6, <1>7, <1>8, <1>9 DEF Next, ReceiveStep, Tick, vars

(* A settled file's bytes change only by a removal or by an overrun: a       *)
(* writer whose lease still runs finds its row offered, or deleted.          *)
LEMMA WriteStep ==
    ASSUME TypeOK, ReceiveInv, BeganInv, [Next]_vars, NEW f \in Files,
           row[f].state \in {"stored", "claimed"}, bytes'[f] # bytes[f]
    PROVE  bytes'[f] = None \/ Overrun(bytes'[f])
<1>t. /\ now \in Nat
      /\ \A r \in Requests : put[r].at \in Nat /\ LeaseOf(r) \in Nat
  BY FileConstants DEF TypeOK, Puts, LeaseOf
<1>1. ASSUME NEW r \in Requests, put[r].pc = "writing",
             bytes' = [bytes EXCEPT ![put[r].file] = r]
      PROVE  bytes'[f] = None \/ Overrun(bytes'[f])
  <2>1. put[r].file = f /\ bytes'[f] = r
    BY <1>1 DEF TypeOK
  <2>2. ~Holding(r)
    BY <2>1 DEF ReceiveInv, LeaseInv
  <2> QED BY <1>1, <1>t, <2>1, <2>2 DEF Holding, BeganInv, Overrun
<1>2. ASSUME NEW r \in Requests, ReceiveStep(r) PROVE bytes'[f] = None \/ Overrun(bytes'[f])
  BY <1>1, <1>2 DEF ReceiveStep, LeaseFile, Scan, Recheck, StorePut, SettleFile, ReleaseFile
<1>3. ASSUME NEW r \in Requests, PutThrows(r) PROVE bytes'[f] = None \/ Overrun(bytes'[f])
  BY <1>1, <1>3 DEF PutThrows
<1>4. ASSUME NEW c \in Collectors, NEW g \in Files, RemoveBytes(c, g) PROVE bytes'[f] = None
  BY <1>4 DEF RemoveBytes, TypeOK
<1>5. ASSUME NEW r \in Requests, PutDies(r) PROVE FALSE
  BY <1>5 DEF PutDies
<1>6. ASSUME NEW c \in Collectors, BeginPass(c) \/ DeleteRows(c) \/ PassFails(c) PROVE FALSE
  BY <1>6 DEF BeginPass, DeleteRows, PassFails
<1>7. ASSUME NEW s \in Subs, Commit(s) PROVE FALSE
  BY <1>7 DEF Commit
<1>8. ASSUME NEW s \in Subs, NEW form \in Forms, NEW names \in Names, Check(s, form, names) PROVE FALSE
  BY <1>8 DEF Check
<1>9. ASSUME NEW g \in Files, NEW form \in Forms, Offer(g, form) PROVE FALSE
  BY <1>9 DEF Offer
<1>10. ASSUME NEW r \in Requests, NEW g \in Files, BeginPut(r, g) PROVE FALSE
  BY <1>10 DEF BeginPut
<1> QED BY <1>2, <1>3, <1>4, <1>5, <1>6, <1>7, <1>8, <1>9, <1>10 DEF Next, Tick, PassStep, vars

(* The bytes of a settled file change only by the collector or an overrun. *)
THEOREM SettledBytesKept == Spec => OnlyOverrunsReplace
<1>0. Init => BeganInv
  BY DEF Init, BeganInv
<1>1. TypeOK /\ ReceiveInv /\ BeganInv /\ [Next]_vars =>
        [\A f \in Files :
           row[f].state \in {"stored", "claimed"} /\ bytes'[f] # bytes[f]
              => bytes'[f] = None \/ Overrun(bytes'[f])]_vars
  BY WriteStep
<1> QED BY <1>0, <1>1, InitReceive, TypeCorrect, NextReceive, NextBegan, PTL DEF Spec, OnlyOverrunsReplace

(* Only the clock's own step moves it. *)
LEMMA ClockMoves == ASSUME [Next]_vars PROVE Tick \/ now' = now
<1>1. ASSUME NEW r \in Requests, ReceiveStep(r) PROVE now' = now
  BY <1>1 DEF ReceiveStep, LeaseFile, Scan, Recheck, StorePut, SettleFile, ReleaseFile
<1>2. ASSUME NEW r \in Requests, PutThrows(r) \/ PutDies(r) PROVE now' = now
  BY <1>2 DEF PutThrows, PutDies
<1>3. ASSUME NEW c \in Collectors, PassStep(c) \/ PassFails(c) PROVE now' = now
  BY <1>3 DEF PassStep, BeginPass, RemoveBytes, DeleteRows, PassFails
<1>4. ASSUME NEW r \in Requests, NEW f \in Files, BeginPut(r, f) PROVE now' = now
  BY <1>4 DEF BeginPut
<1>5. ASSUME NEW f \in Files, NEW form \in Forms, Offer(f, form) PROVE now' = now
  BY <1>5 DEF Offer
<1>6. ASSUME NEW s \in Subs, Commit(s) PROVE now' = now
  BY <1>6 DEF Commit
<1>7. ASSUME NEW s \in Subs, NEW form \in Forms, NEW names \in Names, Check(s, form, names)
      PROVE  now' = now
  BY <1>7 DEF Check
<1> QED BY <1>1, <1>2, <1>3, <1>4, <1>5, <1>6, <1>7 DEF Next, vars

(* The bytes are kept by every step. *)
LEMMA NextBytes == TypeOK /\ ReceiveInv /\ BytesInv /\ [Next]_vars => BytesInv'
<1> SUFFICES ASSUME TypeOK, ReceiveInv, BytesInv, [Next]_vars PROVE BytesInv'
  OBVIOUS
<1>t. /\ now \in Nat /\ AbandonAfter \in Nat
      /\ \A f \in Files : row[f].createdAt \in Nat
      /\ \A r \in Requests : put[r] \in Puts
      /\ \A c \in Collectors : col[c] \in Passes /\ col[c].batch \subseteq Files
  BY FileConstants DEF TypeOK, Rows, Passes
<1>a. \A r \in Requests : Active(r) => put[r].file \in Files
  BY DEF ReceiveInv, LeaseInv
<1>n. now' \in Nat /\ now <= now'
  BY <1>t, ClockMoves DEF Tick
<1>y. \A f \in Files : /\ row[f].state # "unused" => row'[f].state # "unused" /\ (Young(f)' => Young(f))
                       /\ Forward(f)
  BY <1>t, <1>n, RowsForward DEF Forward, Young
<1>w. \A r \in Requests : put[r].pc = "written" => Active(r)
  BY DEF Active
<1>1. CASE put' = put /\ row' = row /\ bytes' = bytes /\ col' = col
  BY <1>1, <1>t, <1>n, <1>y, <1>a, <1>w DEF BytesInv, YoungFilesHaveBytes, Young, Active
<1>2. ASSUME NEW f \in Files, NEW form \in Forms, Offer(f, form) PROVE BytesInv'
  <2>1. /\ put' = put /\ bytes' = bytes /\ col' = col
        /\ \A g \in Files : row'[g] = row[g] \/ (row[g].state = "unused" /\ row'[g].state = "offered")
    BY <1>2 DEF Offer, TypeOK
  <2>2. \A r \in Requests : Active(r) => row'[put[r].file] = row[put[r].file]
    BY <1>a, <2>1 DEF BytesInv
  <2>3. \A c \in Collectors : \A g \in col[c].batch : row'[g] = row[g]
    BY <1>t, <2>1 DEF BytesInv
  <2>4. YoungFilesHaveBytes'
    BY <1>t, <1>n, <1>y, <2>1 DEF BytesInv, YoungFilesHaveBytes, Young
  <2> QED BY <1>t, <1>n, <1>y, <1>a, <1>w, <2>1, <2>2, <2>3, <2>4 DEF BytesInv, Young, Active
<1>3. ASSUME NEW r \in Requests, NEW f \in Files, BeginPut(r, f) PROVE BytesInv'
  <2>1. /\ row' = row /\ bytes' = bytes /\ col' = col /\ now' = now
        /\ row[f].state # "unused"
        /\ put'[r].pc = "stamped" /\ put'[r].file = f
        /\ \A q \in Requests \ {r} : put'[q] = put[q]
    BY <1>3 DEF BeginPut, TypeOK
  <2> QED BY <2>1, <1>y, <1>a, <1>w DEF BytesInv, YoungFilesHaveBytes, Young, Active
<1>4. ASSUME NEW r \in Requests,
             \A q \in Requests \ {r} : put'[q] = put[q],
             \/ put'[r].pc \in {"kept", "refused"}
             \/ put'[r].pc # "written" /\ put'[r].file = put[r].file /\ Active(r),
             \A f \in Files : row'[f].state \in {"stored", "claimed"} => row[f].state \in {"stored", "claimed"},
             now' = now, col' = col,
             \A f \in Files : bytes[f] # None => bytes'[f] # None
      PROVE  BytesInv'
  BY <1>4, <1>t, <1>y, <1>a, <1>w DEF BytesInv, YoungFilesHaveBytes, Young, Active, Forward
<1>5. ASSUME NEW r \in Requests, LeaseFile(r) \/ Scan(r) \/ Recheck(r) \/ ReleaseFile(r) \/ PutDies(r)
      PROVE BytesInv'
  <2>1. /\ now' = now /\ col' = col /\ bytes' = bytes
        /\ \A f \in Files : row'[f].state = row[f].state
    BY <1>5 DEF LeaseFile, Scan, Recheck, ReleaseFile, PutDies, TypeOK, Rows
  <2>2. \A q \in Requests \ {r} : put'[q] = put[q]
    BY <1>5 DEF LeaseFile, Scan, Recheck, Begun, ReleaseFile, PutDies, Goto, Answer, TypeOK
  <2>3. \/ put'[r].pc \in {"kept", "refused"}
        \/ put'[r].pc # "written" /\ put'[r].file = put[r].file /\ Active(r)
    BY <1>5, <1>t DEF LeaseFile, Scan, Recheck, Begun, ReleaseFile, PutDies, Goto, Answer, TypeOK, Puts, Active
  <2> QED BY <1>4, <2>1, <2>2, <2>3
<1>6. ASSUME NEW r \in Requests, StorePut(r) PROVE BytesInv'
  <2>1. /\ now' = now /\ col' = col /\ row' = row
        /\ bytes' = [bytes EXCEPT ![put[r].file] = r] /\ put' = [put EXCEPT ![r].pc = "written"]
        /\ put[r].file \in Files /\ Active(r)
    BY <1>6, <1>a DEF StorePut, Goto, Active
  <2>2. /\ put'[r].file = put[r].file /\ \A q \in Requests \ {r} : put'[q] = put[q]
        /\ bytes'[put[r].file] # None
        /\ \A f \in Files : bytes[f] # None => bytes'[f] # None
    BY <1>t, <2>1, FileConstants DEF TypeOK, Puts
  <2> QED BY <2>1, <2>2, <1>y, <1>a, <1>w DEF BytesInv, YoungFilesHaveBytes, Young, Active
<1>7. ASSUME NEW r \in Requests, SettleFile(r) PROVE BytesInv'
  <2> DEFINE f == put[r].file
  <2>1. /\ put[r].pc = "written" /\ Active(r) /\ f \in Files
        /\ now' = now /\ col' = col /\ bytes' = bytes
    BY <1>7, <1>a DEF SettleFile, Active
  <2>2. CASE row[f].state = "offered" /\ row[f].lease = LeaseOf(r)
    <3>1. /\ row' = [row EXCEPT ![f].state = "stored", ![f].lease = NoLease]
          /\ put' = [put EXCEPT ![r] = [pc |-> "kept", file |-> None, at |-> 0, began |-> 0]]
      BY <1>7, <2>2 DEF SettleFile, Answer
    <3>2. /\ put'[r].pc = "kept" /\ \A q \in Requests \ {r} : put'[q] = put[q]
          /\ row'[f].createdAt = row[f].createdAt
          /\ \A g \in Files \ {f} : row'[g] = row[g]
      BY <2>1, <3>1 DEF TypeOK, Rows
    <3>3. YoungFilesHaveBytes'
      BY <2>1, <3>2 DEF BytesInv, YoungFilesHaveBytes, Young
    <3> QED BY <2>1, <3>2, <3>3, <1>t, <1>y, <1>a, <1>w DEF BytesInv, Young, Active
  <2>3. CASE ~(row[f].state = "offered" /\ row[f].lease = LeaseOf(r))
    <3>1. row' = row /\ put' = [put EXCEPT ![r].pc = "returning"]
      BY <1>7, <2>3 DEF SettleFile, Goto
    <3> QED BY <1>4, <1>t, <2>1, <3>1 DEF TypeOK, Puts
  <2> QED BY <2>2, <2>3
<1>8. ASSUME NEW r \in Requests, PutThrows(r) PROVE BytesInv'
  <2>1. /\ now' = now /\ col' = col /\ row' = row /\ put' = [put EXCEPT ![r].pc = "returning"]
        /\ bytes' = bytes \/ bytes' = [bytes EXCEPT ![put[r].file] = r]
        /\ Active(r)
    BY <1>8 DEF PutThrows, Goto, Active
  <2>2. \A f \in Files : bytes[f] # None => bytes'[f] # None
    BY <2>1, FileConstants DEF TypeOK
  <2> QED BY <1>4, <1>t, <2>1, <2>2 DEF TypeOK, Puts
<1>9. ASSUME NEW s \in Subs, NEW form \in Forms, NEW names \in Names, Check(s, form, names)
      PROVE BytesInv'
  BY <1>1, <1>9 DEF Check
<1>10. ASSUME NEW s \in Subs, Commit(s) PROVE BytesInv'
  <2>1. /\ now' = now /\ put' = put /\ bytes' = bytes /\ col' = col
    BY <1>10 DEF Commit
  <2>2. \A f \in Files : row'[f].state \in {"stored", "claimed"} => row[f].state \in {"stored", "claimed"}
    BY <1>10, CommitStep
  <2>3. YoungFilesHaveBytes'
    BY <1>y, <2>1, <2>2 DEF BytesInv, YoungFilesHaveBytes, Young, Forward
  <2> QED BY <2>1, <2>3, <1>t, <1>y, <1>a, <1>w DEF BytesInv, Young, Active
<1>11. ASSUME NEW c \in Collectors, BeginPass(c) PROVE BytesInv'
  <2>1. /\ now' = now /\ row' = row /\ put' = put /\ bytes' = bytes
        /\ \A d \in Collectors \ {c} : col'[d] = col[d]
        /\ col'[c].batch = {f \in Files : Abandoned(f)}
    BY <1>11 DEF BeginPass, TypeOK
  <2>2. \A f \in col'[c].batch : ~Young(f) /\ row[f].state # "unused"
    BY <1>t, <2>1 DEF Abandoned, Young
  <2> QED BY <2>1, <2>2, <1>a, <1>w DEF BytesInv, YoungFilesHaveBytes, Young, Active
<1>12. ASSUME NEW c \in Collectors, NEW g \in Files, RemoveBytes(c, g) PROVE BytesInv'
  <2>1. /\ now' = now /\ row' = row /\ put' = put
        /\ \A d \in Collectors : col'[d].batch = col[d].batch
        /\ \A f \in Files \ {g} : bytes'[f] = bytes[f]
        /\ g \in col[c].batch
    BY <1>12, <1>t DEF RemoveBytes, TypeOK, Passes
  <2>2. ~Young(g)
    BY <2>1 DEF BytesInv
  <2> QED BY <2>1, <2>2, <1>t, <1>a, <1>w DEF BytesInv, YoungFilesHaveBytes, Young, Active
<1>13. ASSUME NEW c \in Collectors, DeleteRows(c) \/ PassFails(c) PROVE BytesInv'
  <2>1. /\ now' = now /\ put' = put /\ bytes' = bytes
        /\ \A d \in Collectors : col'[d].batch \subseteq col[d].batch
    BY <1>13 DEF DeleteRows, PassFails, Idle, TypeOK
  <2>2. \A f \in Files : row'[f].state \in {"stored", "claimed"} => row[f].state \in {"stored", "claimed"}
    BY <1>13 DEF DeleteRows, PassFails, TypeOK, Rows
  <2>3. YoungFilesHaveBytes'
    BY <1>y, <2>1, <2>2 DEF BytesInv, YoungFilesHaveBytes, Young, Forward
  <2> QED BY <2>1, <2>3, <1>t, <1>y, <1>a, <1>w DEF BytesInv, Young, Active
<1>14. CASE Tick
  BY <1>1, <1>14 DEF Tick
<1>15. CASE UNCHANGED vars
  BY <1>1, <1>15 DEF vars
<1> QED BY <1>2, <1>3, <1>5, <1>6, <1>7, <1>8, <1>9, <1>10, <1>11, <1>12, <1>13, <1>14, <1>15
        DEF Next, ReceiveStep, PassStep

(* A stored or claimed file younger than the collector's wait has bytes. *)
THEOREM YoungFilesKeepBytes == Spec => []YoungFilesHaveBytes
<1>1. Init => BytesInv
  BY DEF Init, BytesInv, YoungFilesHaveBytes, Active
<1> QED BY <1>1, InitReceive, TypeCorrect, NextReceive, NextBytes, PTL DEF Spec, BytesInv

-----------------------------------------------------------------------------
(* The lifecycle implements the ledger of claims. *)

(* What the ledger is, read off the rows and the passes. *)
Accepted == {[by |-> s, files |-> Named(s)] : s \in {t \in Subs : Stored(t)}}

PlaceOf(f) == Place[row[f].state]

OwnerOf(f) == IF row[f].state = "claimed" THEN row[f].owner ELSE None

Places == [f \in Files |-> PlaceOf(f)]

Owners == [f \in Files |-> OwnerOf(f)]

Doomed == UNION {col[c].batch : c \in Collectors}

Books == <<Accepted, Places, Owners, Doomed>>

(* A collector that has no pass has chosen nothing. *)
IdleInv == \A c \in Collectors : col[c].pc = "idle" => col[c].batch = {}

(* Only a pass changes what is chosen. *)
LEMMA ColMoves ==
    ASSUME [Next]_vars, ~\E c \in Collectors : PassStep(c) \/ PassFails(c)
    PROVE  col' = col
<1>1. ASSUME NEW r \in Requests, ReceiveStep(r) PROVE col' = col
  BY <1>1 DEF ReceiveStep, LeaseFile, Scan, Recheck, StorePut, SettleFile, ReleaseFile
<1>2. ASSUME NEW r \in Requests, PutThrows(r) \/ PutDies(r) PROVE col' = col
  BY <1>2 DEF PutThrows, PutDies
<1>3. ASSUME NEW s \in Subs, Commit(s) PROVE col' = col
  BY <1>3 DEF Commit
<1>4. ASSUME NEW s \in Subs, NEW form \in Forms, NEW names \in Names, Check(s, form, names) PROVE col' = col
  BY <1>4 DEF Check
<1>5. ASSUME NEW r \in Requests, NEW f \in Files, BeginPut(r, f) PROVE col' = col
  BY <1>5 DEF BeginPut
<1>6. ASSUME NEW f \in Files, NEW form \in Forms, Offer(f, form) PROVE col' = col
  BY <1>6 DEF Offer
<1> QED BY <1>1, <1>2, <1>3, <1>4, <1>5, <1>6 DEF Next, Tick, vars

LEMMA NextIdle == TypeOK /\ IdleInv /\ [Next]_vars => IdleInv'
<1> SUFFICES ASSUME TypeOK, IdleInv, [Next]_vars PROVE IdleInv'
  OBVIOUS
<1>1. ASSUME NEW c \in Collectors, PassStep(c) \/ PassFails(c) PROVE IdleInv'
  <2>1. CASE BeginPass(c)
    BY <2>1 DEF BeginPass, TypeOK, IdleInv
  <2>2. ASSUME NEW f \in Files, RemoveBytes(c, f) PROVE IdleInv'
    <3>1. col'[c].pc = "removing" /\ \A d \in Collectors \ {c} : col'[d] = col[d]
      BY <2>2 DEF RemoveBytes, TypeOK, Passes
    <3> QED BY <3>1 DEF IdleInv
  <2>3. CASE DeleteRows(c) \/ PassFails(c)
    BY <2>3 DEF DeleteRows, PassFails, Idle, TypeOK, IdleInv
  <2> QED BY <1>1, <2>1, <2>2, <2>3 DEF PassStep
<1>2. CASE col' = col
  BY <1>2 DEF IdleInv
<1> QED BY <1>1, <1>2, ColMoves

(* Where nobody's place or owner changes, the ledger of files does not.     *)
LEMMA FilesStay ==
    ASSUME \A f \in Files : PlaceOf(f)' = PlaceOf(f) /\ OwnerOf(f)' = OwnerOf(f)
    PROVE  Places' = Places /\ Owners' = Owners
BY DEF Places, Owners

(* Where no submission is stored, what was accepted stays what it was.      *)
LEMMA AcceptedStays ==
    ASSUME \A t \in Subs : Stored(t)' <=> Stored(t), \A t \in Subs : Stored(t) => Named(t)' = Named(t)
    PROVE  Accepted' = Accepted
BY DEF Accepted

(* Settling makes a file free; no other step of a request, an offer or the  *)
(* clock moves the ledger.                                                  *)
LEMMA RequestStep ==
    ASSUME TypeOK, [Next]_vars,
           ~\E s \in Subs : Commit(s), ~\E c \in Collectors : PassStep(c) \/ PassFails(c)
    PROVE  \/ Places' = Places /\ Owners' = Owners
           \/ \E f \in Files : /\ Places[f] = "absent" /\ Places' = [Places EXCEPT ![f] = "free"]
                               /\ Owners' = Owners
<1> DEFINE Goal == \/ Places' = Places /\ Owners' = Owners
                   \/ \E f \in Files : /\ Places[f] = "absent" /\ Places' = [Places EXCEPT ![f] = "free"]
                                       /\ Owners' = Owners
<1>r. row \in [Files -> Rows]
  BY DEF TypeOK
<1>1. CASE row' = row
  BY <1>1 DEF Places, Owners, PlaceOf, OwnerOf
<1>2. ASSUME NEW f \in Files, NEW form \in Forms, Offer(f, form) PROVE Goal
  <2>1. /\ row[f].state = "unused" /\ row'[f].state = "offered"
        /\ \A g \in Files \ {f} : row'[g] = row[g]
    BY <1>2, <1>r DEF Offer
  <2>2. \A g \in Files : PlaceOf(g)' = PlaceOf(g) /\ OwnerOf(g)' = OwnerOf(g)
    BY <2>1 DEF PlaceOf, OwnerOf, Place
  <2> QED BY <2>2, FilesStay
<1>3. ASSUME NEW r \in Requests, LeaseFile(r) \/ ReleaseFile(r) PROVE Goal
  <2>1. \A g \in Files : row'[g].state = row[g].state /\ row'[g].owner = row[g].owner
    BY <1>3, <1>r DEF LeaseFile, ReleaseFile, Rows
  <2>2. \A g \in Files : PlaceOf(g)' = PlaceOf(g) /\ OwnerOf(g)' = OwnerOf(g)
    BY <2>1 DEF PlaceOf, OwnerOf
  <2> QED BY <2>2, FilesStay
<1>4. ASSUME NEW r \in Requests, SettleFile(r) PROVE Goal
  <2>1. CASE ~(row[put[r].file].state = "offered" /\ row[put[r].file].lease = LeaseOf(r))
    BY <1>1, <1>4, <2>1 DEF SettleFile
  <2>2. CASE row[put[r].file].state = "offered" /\ row[put[r].file].lease = LeaseOf(r) /\ put[r].file \in Files
    <3>1. PICK f \in Files : f = put[r].file
      BY <2>2
    <3>2. /\ row[f].state = "offered" /\ row'[f].state = "stored"
          /\ \A g \in Files \ {f} : row'[g] = row[g]
      BY <1>4, <1>r, <2>2, <3>1 DEF SettleFile, Rows
    <3>3. /\ PlaceOf(f) = "absent" /\ PlaceOf(f)' = "free" /\ OwnerOf(f)' = OwnerOf(f)
          /\ \A g \in Files \ {f} : PlaceOf(g)' = PlaceOf(g) /\ OwnerOf(g)' = OwnerOf(g)
      BY <3>2 DEF PlaceOf, OwnerOf, Place
    <3>4. Places[f] = "absent" /\ Places' = [Places EXCEPT ![f] = "free"] /\ Owners' = Owners
      BY <3>3 DEF Places, Owners
    <3> QED BY <3>4
  <2>3. CASE row[put[r].file].state = "offered" /\ row[put[r].file].lease = LeaseOf(r) /\ put[r].file \notin Files
    <3>1. row' = [row EXCEPT ![put[r].file].state = "stored", ![put[r].file].lease = NoLease]
      BY <1>4, <2>3 DEF SettleFile
    <3>2. row' = row
      BY <1>r, <2>3, <3>1
    <3> QED BY <1>1, <3>2
  <2> QED BY <2>1, <2>2, <2>3
<1>5. ASSUME NEW r \in Requests, NEW g \in Files, BeginPut(r, g) PROVE Goal
  BY <1>1, <1>5 DEF BeginPut
<1>6. ASSUME NEW r \in Requests, Scan(r) \/ Recheck(r) \/ StorePut(r) \/ PutThrows(r) \/ PutDies(r)
      PROVE  Goal
  BY <1>1, <1>6 DEF Scan, Recheck, StorePut, PutThrows, PutDies
<1>7. ASSUME NEW s \in Subs, NEW form \in Forms, NEW names \in Names, Check(s, form, names) PROVE Goal
  BY <1>1, <1>7 DEF Check
<1>8. CASE Tick \/ UNCHANGED vars
  BY <1>1, <1>8 DEF Tick, vars
<1> QED BY <1>2, <1>3, <1>4, <1>5, <1>6, <1>7, <1>8 DEF Next, ReceiveStep

(* A commit stores a submission and gives it every file it names, each of   *)
(* them free until then; or it stores nothing.                              *)
LEMMA CommitAccepts ==
    ASSUME TypeOK, NEW s \in Subs, Commit(s)
    PROVE  \/ Accepted' = Accepted /\ Places' = Places /\ Owners' = Owners
           \/ /\ Named(s) \in SUBSET Files
              /\ \A a \in Accepted : a.by # s
              /\ \A f \in Named(s) : Places[f] = "free"
              /\ Accepted' = Accepted \cup {[by |-> s, files |-> Named(s)]}
              /\ Places' = [f \in Files |-> IF f \in Named(s) THEN "held" ELSE Places[f]]
              /\ Owners' = [f \in Files |-> IF f \in Named(s) THEN s ELSE Owners[f]]
<1>0. Named(s) \in SUBSET Files
  BY NamesAreFiles DEF TypeOK, Submissions, Named
<1>1. /\ sub[s].pc = "checked" /\ ~Stored(s)
      /\ \A t \in Subs \ {s} : (Stored(t)' <=> Stored(t)) /\ Named(t)' = Named(t)
  BY CommitStep DEF Stored, Named
<1>2. CASE sub'[s].pc = "refused" /\ row' = row
  <2>1. Accepted' = Accepted
    BY <1>1, <1>2, AcceptedStays DEF Stored
  <2> QED BY <1>2, <2>1 DEF Places, Owners, PlaceOf, OwnerOf
<1>3. CASE /\ Stored(s)' /\ Named(s)' = Named(s)
           /\ \A f \in Named(s) : /\ row[f].state = "stored"
                                  /\ row'[f].state = "claimed" /\ row'[f].owner = s
           /\ \A f \in Files \ Named(s) : row'[f] = row[f]
  <2>1. \A a \in Accepted : a.by # s
    BY <1>1 DEF Accepted
  <2>2. Accepted' = Accepted \cup {[by |-> s, files |-> Named(s)]}
    <3>1. \A t \in Subs : Stored(t)' <=> Stored(t) \/ t = s
      BY <1>1, <1>3
    <3>2. \A t \in Subs : Named(t)' = Named(t)
      BY <1>1, <1>3
    <3> QED BY <3>1, <3>2 DEF Accepted
  <2>3. \A f \in Named(s) : PlaceOf(f) = "free" /\ PlaceOf(f)' = "held" /\ OwnerOf(f)' = s
    BY <1>3 DEF PlaceOf, OwnerOf, Place
  <2>4. \A f \in Files \ Named(s) : PlaceOf(f)' = PlaceOf(f) /\ OwnerOf(f)' = OwnerOf(f)
    BY <1>3 DEF PlaceOf, OwnerOf
  <2> QED BY <1>0, <2>1, <2>2, <2>3, <2>4 DEF Places, Owners
<1> QED BY <1>2, <1>3, CommitStep

(* A pass chooses files nobody has claimed, loses none but those it chose,  *)
(* and forgets them when it ends.                                           *)
LEMMA PassCollects ==
    ASSUME TypeOK, IdleInv, NEW c \in Collectors, PassStep(c) \/ PassFails(c)
    PROVE  \/ Places' = Places /\ Owners' = Owners /\ Doomed' = Doomed
           \/ /\ Places' = Places /\ Owners' = Owners
              /\ \E chosen \in SUBSET Files : /\ \A f \in chosen : Places[f] \in {"absent", "free"}
                                              /\ Doomed' = Doomed \cup chosen
           \/ \E lost, left \in SUBSET Files :
                 /\ lost \cup left \subseteq Doomed /\ Doomed' = left
                 /\ Places' = [f \in Files |-> IF f \in lost THEN "gone" ELSE Places[f]]
                 /\ Owners' = [f \in Files |-> IF f \in lost THEN None ELSE Owners[f]]
<1>t. /\ row \in [Files -> Rows] /\ col \in [Collectors -> Passes]
      /\ \A d \in Collectors : col[d].batch \subseteq Files
  BY DEF TypeOK, Passes
<1>1. CASE BeginPass(c)
  <2> DEFINE chosen == {f \in Files : Abandoned(f)}
  <2>1. /\ row' = row /\ col[c].batch = {} /\ col'[c].batch = chosen
        /\ \A d \in Collectors \ {c} : col'[d] = col[d]
    BY <1>1, <1>t DEF BeginPass, IdleInv
  <2>2. Doomed' = Doomed \cup chosen
    BY <2>1 DEF Doomed
  <2>3. \A f \in chosen : Places[f] \in {"absent", "free"}
    BY DEF Abandoned, Places, PlaceOf, Place
  <2>4. Places' = Places /\ Owners' = Owners
    BY <2>1 DEF Places, Owners, PlaceOf, OwnerOf
  <2>5. chosen \in SUBSET Files
    OBVIOUS
  <2> HIDE DEF chosen
  <2> QED BY <2>2, <2>3, <2>4, <2>5
<1>2. ASSUME NEW g \in Files, RemoveBytes(c, g)
      PROVE  Places' = Places /\ Owners' = Owners /\ Doomed' = Doomed
  <2>1. row' = row /\ \A d \in Collectors : col'[d].batch = col[d].batch
    BY <1>2, <1>t DEF RemoveBytes, Passes
  <2> QED BY <2>1 DEF Places, Owners, PlaceOf, OwnerOf, Doomed
<1>3. ASSUME NEW lost \in SUBSET col[c].batch, col' = [col EXCEPT ![c] = Idle],
             \A f \in lost : row'[f].state = "deleted",
             \A f \in Files \ lost : row'[f] = row[f]
      PROVE  \E gone, left \in SUBSET Files :
                 /\ gone \cup left \subseteq Doomed /\ Doomed' = left
                 /\ Places' = [f \in Files |-> IF f \in gone THEN "gone" ELSE Places[f]]
                 /\ Owners' = [f \in Files |-> IF f \in gone THEN None ELSE Owners[f]]
  <2>1. col'[c].batch = {} /\ \A d \in Collectors \ {c} : col'[d] = col[d]
    BY <1>3, <1>t DEF Idle
  <2>2. Doomed' \subseteq Doomed /\ Doomed \subseteq Files /\ lost \subseteq Doomed
    BY <2>1, <1>t DEF Doomed
  <2>3. \A f \in lost : PlaceOf(f)' = "gone" /\ OwnerOf(f)' = None
    BY <1>3 DEF PlaceOf, OwnerOf, Place
  <2>4. \A f \in Files \ lost : PlaceOf(f)' = PlaceOf(f) /\ OwnerOf(f)' = OwnerOf(f)
    BY <1>3 DEF PlaceOf, OwnerOf
  <2>5. /\ Places' = [f \in Files |-> IF f \in lost THEN "gone" ELSE Places[f]]
        /\ Owners' = [f \in Files |-> IF f \in lost THEN None ELSE Owners[f]]
    BY <2>3, <2>4 DEF Places, Owners
  <2>6. PICK left \in SUBSET Files : left = Doomed'
    BY <2>2
  <2> QED BY <2>2, <2>5, <2>6
<1>4. CASE DeleteRows(c)
  <2> DEFINE lost == {f \in col[c].batch : Exists(f)}
  <2>1. /\ lost \in SUBSET col[c].batch /\ col' = [col EXCEPT ![c] = Idle]
    BY <1>4 DEF DeleteRows
  <2>2. /\ \A f \in lost : row'[f].state = "deleted"
        /\ \A f \in Files \ lost : row'[f] = row[f]
    BY <1>4, <1>t DEF DeleteRows, Rows
  <2> HIDE DEF lost
  <2> QED BY <1>3, <2>1, <2>2
<1>5. CASE PassFails(c)
  <2>1. col' = [col EXCEPT ![c] = Idle] /\ row' = row /\ {} \in SUBSET col[c].batch
    BY <1>5 DEF PassFails
  <2> QED BY <1>3, <2>1
<1> QED BY <1>1, <1>2, <1>4, <1>5 DEF PassStep

(* The lifecycle implements the ledger: a commit accepts a submission with  *)
(* every file it names, settling a file makes it free, a pass chooses and   *)
(* loses only what it chose, and every other step leaves the ledger alone.  *)
THEOREM ImplementsLedger == Spec => LedgerSpec
<1>1. Init => Ledger!Init
  <2> SUFFICES ASSUME Init PROVE Ledger!Init
    OBVIOUS
  <2>1. \A s \in Subs : ~Stored(s)
    BY DEF Init, Stored
  <2>2. \A f \in Files : row[f].state = "unused"
    BY DEF Init
  <2>3. \A c \in Collectors : col[c].batch = {}
    BY DEF Init
  <2> QED BY <2>1, <2>2, <2>3 DEF Ledger!Init, Place
<1>2. TypeOK /\ IdleInv /\ [Next]_vars => [Ledger!Next]_Books
  <2> SUFFICES ASSUME TypeOK, IdleInv, [Next]_vars PROVE Ledger!Next \/ UNCHANGED Books
    OBVIOUS
  <2> USE DEF Accepted, Places, Owners, PlaceOf, OwnerOf, Doomed, Books
  <2>1. ASSUME NEW s \in Subs, Commit(s) PROVE Ledger!Next \/ UNCHANGED Books
    <3>1. Doomed' = Doomed
      BY <2>1 DEF Commit
    <3>2. CASE Accepted' = Accepted /\ Places' = Places /\ Owners' = Owners
      BY <3>1, <3>2
    <3>3. ASSUME Named(s) \in SUBSET Files,
                 \A a \in Accepted : a.by # s,
                 \A f \in Named(s) : Places[f] = "free",
                 Accepted' = Accepted \cup {[by |-> s, files |-> Named(s)]},
                 Places' = [f \in Files |-> IF f \in Named(s) THEN "held" ELSE Places[f]],
                 Owners' = [f \in Files |-> IF f \in Named(s) THEN s ELSE Owners[f]]
          PROVE  Ledger!Next
      <4>1. PICK named \in SUBSET Files : named = Named(s)
        BY <3>3
      <4>2. Ledger!Accept(s, named)
        BY <3>1, <3>3, <4>1 DEF Ledger!Accept
      <4> QED BY <4>2 DEF Ledger!Next
    <3> HIDE DEF Accepted, Places, Owners, PlaceOf, OwnerOf, Doomed, Books
    <3> QED BY <2>1, <3>2, <3>3, CommitAccepts
  <2>2. CASE \A s \in Subs : ~Commit(s)
    <3>1. Accepted' = Accepted
      <4>1. \A t \in Subs : (Stored(t)' <=> Stored(t)) /\ (Stored(t) => Named(t)' = Named(t))
        <5>1. CASE sub' = sub
          BY <5>1 DEF Stored, Named
        <5>2. ASSUME NEW s \in Subs, NEW form \in Forms, NEW names \in Names, Check(s, form, names)
              PROVE  \A t \in Subs : (Stored(t)' <=> Stored(t)) /\ (Stored(t) => Named(t)' = Named(t))
          <6>1. ~Stored(s) /\ ~Stored(s)' /\ \A t \in Subs \ {s} : sub'[t] = sub[t]
            BY <5>2 DEF Check, Refuse, Stored, TypeOK
          <6> QED BY <6>1 DEF Stored, Named
        <5> QED BY <2>2, <5>1, <5>2, SubMoves
      <4> QED BY <4>1, AcceptedStays
    <3>2. ASSUME NEW c \in Collectors, PassStep(c) \/ PassFails(c) PROVE Ledger!Next \/ UNCHANGED Books
      <4>1. CASE Places' = Places /\ Owners' = Owners /\ Doomed' = Doomed
        BY <3>1, <4>1
      <4>2. ASSUME NEW chosen \in SUBSET Files, \A f \in chosen : Places[f] \in {"absent", "free"},
                   Doomed' = Doomed \cup chosen, Places' = Places, Owners' = Owners
            PROVE  Ledger!Next
        <5>1. Ledger!Choose(chosen)
          BY <3>1, <4>2 DEF Ledger!Choose
        <5> QED BY <5>1 DEF Ledger!Next
      <4>3. ASSUME NEW lost \in SUBSET Files, NEW left \in SUBSET Files,
                   lost \cup left \subseteq Doomed, Doomed' = left,
                   Places' = [f \in Files |-> IF f \in lost THEN "gone" ELSE Places[f]],
                   Owners' = [f \in Files |-> IF f \in lost THEN None ELSE Owners[f]]
            PROVE  Ledger!Next
        <5>1. Ledger!Collect(lost, left)
          BY <3>1, <4>3 DEF Ledger!Collect
        <5> QED BY <5>1 DEF Ledger!Next
      <4> HIDE DEF Accepted, Places, Owners, PlaceOf, OwnerOf, Doomed, Books
      <4> QED BY <3>2, <4>1, <4>2, <4>3, PassCollects
    <3>3. CASE ~\E c \in Collectors : PassStep(c) \/ PassFails(c)
      <4>1. Doomed' = Doomed
        BY <3>3, ColMoves
      <4>2. CASE Places' = Places /\ Owners' = Owners
        BY <3>1, <4>1, <4>2
      <4>3. ASSUME NEW f \in Files, Places[f] = "absent", Places' = [Places EXCEPT ![f] = "free"],
                   Owners' = Owners
            PROVE  Ledger!Next
        <5>1. Ledger!Arrive(f)
          BY <3>1, <4>1, <4>3 DEF Ledger!Arrive
        <5> QED BY <5>1 DEF Ledger!Next
      <4> HIDE DEF Accepted, Places, Owners, PlaceOf, OwnerOf, Doomed, Books
      <4> QED BY <2>2, <3>3, <4>2, <4>3, RequestStep
    <3> QED BY <3>2, <3>3
  <2> QED BY <2>1, <2>2
<1>3. Init => IdleInv
  BY DEF Init, IdleInv
<1> QED BY <1>1, <1>2, <1>3, TypeCorrect, NextIdle, PTL
        DEF Spec, LedgerSpec, Ledger!Spec, Books, Accepted, Places, Owners, PlaceOf, OwnerOf, Doomed
=============================================================================
