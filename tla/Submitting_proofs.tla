------------------------- MODULE Submitting_proofs -------------------------
(***************************************************************************)
(* A response is stored whole, and once, for every set of sends, tokens,   *)
(* files and hooks.                                                        *)
(***************************************************************************)
EXTENDS Submitting, TLAPS

Answered(s) == \E i \in Ids : submissions[i] = s

(* What one request knows, at each point of the handler. *)
SendInv(s) ==
    /\ send[s].pc # "done" => send[s].outcome = "none"
    /\ send[s].pc \notin {"idle", "done"} => send[s].id \in Ids
    /\ send[s].pc = "answering" => submissions[send[s].id] = s
    /\ send[s].outcome = "stored" => send[s].id \in Ids /\ submissions[send[s].id] = s
    /\ send[s].outcome = "token_spent" =>
          send[s].id \in Ids /\ submissions[send[s].id] \notin {None, s}
    /\ HoldsKey(s) => submissions[send[s].id] = None
    /\ send[s].locked \subseteq send[s].files
    /\ \A f \in send[s].locked : owner[f] = None
    /\ HoldsFiles(s) => send[s].locked = send[s].files
    /\ Answered(s) => /\ send[s].pc \in {"answering", "done"}
                      /\ send[s].outcome \in {"none", "stored", "error"}

(* A stored response was stored by the request that carries its id. *)
StorerInv == \A i \in Ids : submissions[i] # None => send[submissions[i]].id = i

(* Two open transactions hold different keys, and the rows of different     *)
(* files.                                                                   *)
Apart(s, t) ==
    /\ HoldsKey(s) /\ HoldsKey(t) => send[s].id # send[t].id
    /\ send[s].locked \cap send[t].locked = {}

LockInv == \A s, t \in Sends : s # t => Apart(s, t)

Inv ==
    /\ TypeOK
    /\ \A s \in Sends : SendInv(s)
    /\ StorerInv
    /\ LockInv
    /\ StoredWhole

(* The key, and the rows, that a request may have: nobody stored them, and *)
(* no other transaction holds them.                                        *)
KeyFree(s, id) == submissions[id] = None /\ \A t \in Sends \ {s} : HoldsKey(t) => send[t].id # id

RowsFree(s, rows) == \A f \in rows : owner[f] = None /\ \A t \in Sends \ {s} : f \notin send[t].locked

(* A step that moves one request and writes no table keeps the invariant if *)
(* what it says of that request is true.                                    *)
LEMMA SendMoves ==
    ASSUME Inv, NEW s \in Sends, NEW r \in Requests,
           send' = [send EXCEPT ![s] = r], UNCHANGED <<connections, tables>>, current' \in 1..MaxVersion,
           Answered(s) => r.id = send[s].id /\ r.files = send[s].files,
           r.pc # "done" => r.outcome = "none",
           r.pc \notin {"idle", "done"} => r.id \in Ids,
           r.pc = "answering" => submissions[r.id] = s,
           r.outcome = "stored" => r.id \in Ids /\ submissions[r.id] = s,
           r.outcome = "token_spent" => r.id \in Ids /\ submissions[r.id] \notin {None, s},
           r.pc \in {"claiming", "committing"} => KeyFree(s, r.id),
           RowsFree(s, r.locked), r.locked \subseteq r.files,
           r.pc = "committing" => r.locked = r.files,
           Answered(s) => r.pc \in {"answering", "done"} /\ r.outcome \in {"none", "stored", "error"}
    PROVE  Inv'
<1>1. send'[s] = r /\ \A t \in Sends \ {s} : send'[t] = send[t]
  BY DEF Inv, TypeOK
<1>2. TypeOK'
  BY DEF Inv, TypeOK, tables
<1>t. submissions' = submissions /\ deliveries' = deliveries /\ owner' = owner /\ audit' = audit
  BY DEF tables
<1>3. SendInv(s)'
  BY <1>1, <1>t DEF SendInv, HoldsKey, HoldsFiles, Answered, KeyFree, RowsFree
<1>4. ASSUME NEW t \in Sends \ {s} PROVE SendInv(t)'
  <2>1. SendInv(t) /\ send'[t] = send[t]
    BY <1>1 DEF Inv
  <2> QED BY <2>1, <1>t DEF SendInv, HoldsKey, HoldsFiles, Answered
<1>5. StorerInv'
  BY <1>1, <1>t DEF Inv, StorerInv, Answered, TypeOK
<1>6. ASSUME NEW a \in Sends, NEW b \in Sends, a # b PROVE Apart(a, b)'
  <2>0. Apart(a, b)
    BY <1>6 DEF Inv, LockInv
  <2>1. CASE a # s /\ b # s
    BY <2>0, <2>1, <1>1 DEF Apart, HoldsKey, HoldsFiles
  <2>2. CASE a = s
    BY <2>0, <2>2, <1>6, <1>1 DEF Apart, HoldsKey, HoldsFiles, KeyFree, RowsFree
  <2>3. CASE b = s
    BY <2>0, <2>3, <1>6, <1>1 DEF Apart, HoldsKey, HoldsFiles, KeyFree, RowsFree
  <2> QED BY <2>1, <2>2, <2>3
<1>7. StoredWhole'
  <2>1. \A i \in Ids : submissions[i] # None =>
            submissions[i] \in Sends /\ send'[submissions[i]].files = send[submissions[i]].files
    BY <1>1 DEF Inv, TypeOK, Answered
  <2> QED BY <2>1, <1>t DEF Inv, StoredWhole
<1>8. LockInv'
  BY <1>6 DEF LockInv
<1> QED BY <1>2, <1>3, <1>4, <1>5, <1>7, <1>8 DEF Inv

(* A request still in the handler has stored nothing. *)
LEMMA NotAnswered ==
    ASSUME Inv, NEW s \in Sends, send[s].pc \notin {"answering", "done"}
    PROVE  ~Answered(s)
BY DEF Inv, SendInv

(* The rows a request has locked are its to claim. *)
LEMMA LockedIsFree == ASSUME Inv, NEW s \in Sends PROVE RowsFree(s, send[s].locked)
BY DEF Inv, TypeOK, Requests, SendInv, LockInv, Apart, RowsFree

(* A step that goes on, neither holding a key nor answering. *)
LEMMA GotoKeepsInv ==
    ASSUME Inv, NEW s \in Sends, NEW step \in {"resolving", "replaying", "files", "opening", "inserting"},
           Goto(s, step), send[s].pc \notin {"idle", "answering", "done"}, UNCHANGED <<connections, current, tables>>
    PROVE  Inv'
<1> DEFINE r == [send[s] EXCEPT !.pc = step]
<1>0. send[s] \in Requests /\ send[s].outcome = "none" /\ send[s].id \in Ids
  BY DEF Inv, TypeOK, SendInv
<1>1. /\ r \in Requests /\ r.pc = step /\ r.outcome = "none" /\ r.id \in Ids
      /\ r.locked = send[s].locked /\ r.files = send[s].files
  BY <1>0 DEF Requests, Steps
<1>2. send' = [send EXCEPT ![s] = r]
  BY DEF Goto
<1>3. ~Answered(s)
  BY NotAnswered
<1>4. UNCHANGED <<connections, tables>> /\ current' \in 1..MaxVersion
  BY DEF Inv, TypeOK
<1>5. RowsFree(s, r.locked)
  BY <1>1, LockedIsFree
<1>6. r.locked \subseteq r.files
  BY <1>1 DEF Inv, SendInv
<1> HIDE DEF r
<1> QED BY <1>1, <1>2, <1>3, <1>4, <1>5, <1>6, SendMoves

(* A step that ends a request that stored nothing. *)
LEMMA AnswerKeepsInv ==
    ASSUME Inv, NEW s \in Sends,
           NEW outcome \in {"refused", "token_spent", "version_changed", "invalid", "unknown_file", "error"},
           Answer(s, outcome), UNCHANGED <<connections, current, tables>>,
           send[s].pc # "done", send[s].pc = "answering" => outcome = "error",
           outcome = "token_spent" => send[s].pc # "idle" /\ submissions[send[s].id] # None
    PROVE  Inv'
<1> DEFINE r == [send[s] EXCEPT !.pc = "done", !.outcome = outcome, !.locked = {}]
<1>0. send[s] \in Requests /\ SendInv(s)
  BY DEF Inv, TypeOK
<1>1. /\ r \in Requests /\ r.pc = "done" /\ r.outcome = outcome
      /\ r.id = send[s].id /\ r.files = send[s].files /\ r.locked = {}
  BY <1>0 DEF Requests, Steps, Outcomes
<1>2. send' = [send EXCEPT ![s] = r]
  BY DEF Answer
<1>3. UNCHANGED <<connections, tables>> /\ current' \in 1..MaxVersion
  BY DEF Inv, TypeOK
<1>4. Answered(s) => outcome = "error"
  BY NotAnswered
<1>5. outcome = "token_spent" => send[s].id \in Ids /\ submissions[send[s].id] \notin {None, s}
  <2> SUFFICES ASSUME outcome = "token_spent" PROVE send[s].id \in Ids /\ submissions[send[s].id] \notin {None, s}
    OBVIOUS
  <2>1. send[s].id \in Ids
    BY <1>0 DEF SendInv
  <2>2. ~Answered(s)
    BY <1>4
  <2> QED BY <2>1, <2>2 DEF Answered
<1>6. RowsFree(s, r.locked)
  BY <1>1 DEF RowsFree
<1> HIDE DEF r
<1> QED BY <1>1, <1>2, <1>3, <1>4, <1>5, <1>6, SendMoves

(* Committing writes the whole response, for an id and files nobody had. *)
LEMMA CommitKeepsInv == ASSUME Inv, NEW s \in Sends, Commit(s) PROVE Inv'
<1> DEFINE id == send[s].id
           files == send[s].files
<1>0. /\ send[s].pc = "committing" /\ id \in Ids /\ files \subseteq Files
      /\ send[s] \in Requests /\ SendInv(s) /\ send[s].outcome = "none"
  BY DEF Commit, Commits, Inv, TypeOK, SendInv, Requests
<1>l. send[s].locked = files
  BY <1>0 DEF SendInv, HoldsFiles
<1>a. ~Answered(s) /\ submissions[id] = None /\ \A f \in files : owner[f] = None
  BY <1>0, <1>l, NotAnswered DEF SendInv, HoldsKey, HoldsFiles
<1>b. None \notin Ids /\ s # None /\ id # None
  BY <1>0, SubmittingConstants DEF Ids
<1> DEFINE r == [send[s] EXCEPT !.pc = "answering", !.locked = {}]
<1>1. /\ r \in Requests /\ r.pc = "answering" /\ r.outcome = "none" /\ r.id = id /\ r.files = files
      /\ r.locked = {}
  BY <1>0 DEF Requests, Steps
<1>2. send' = [send EXCEPT ![s] = r] /\ current' = current /\ connections' = connections
  BY DEF Commit, Commits
<1>3. send' \in [Sends -> Requests] /\ send'[s] = r /\ \A t \in Sends \ {s} : send'[t] = send[t]
  BY <1>1, <1>2 DEF Inv, TypeOK
<1> HIDE DEF r
<1>4. /\ submissions' \in [Ids -> Sends \cup {None}] /\ submissions'[id] = s
      /\ \A i \in Ids \ {id} : submissions'[i] = submissions[i]
  BY <1>0 DEF Commit, Commits, Inv, TypeOK
<1>5. /\ owner' \in [Files -> Ids \cup {None}]
      /\ \A f \in files : owner'[f] = id
      /\ \A f \in Files \ files : owner'[f] = owner[f]
  BY <1>0 DEF Commit, Commits, Inv, TypeOK
<1>6. deliveries' = deliveries \cup Queued(s) /\ audit' = audit \cup {[id |-> id, by |-> s]}
  BY DEF Commit, Commits
<1>7. TypeOK'
  <2>1. Queued(s) \subseteq [hook : Hooks, id : Ids, by : Sends]
    BY <1>0 DEF Queued
  <2> QED BY <2>1, <1>0, <1>2, <1>3, <1>4, <1>5, <1>6 DEF Inv, TypeOK
<1>8. SendInv(s)'
  BY <1>0, <1>1, <1>3, <1>4 DEF SendInv, HoldsKey, HoldsFiles
<1>9. ASSUME NEW t \in Sends \ {s} PROVE SendInv(t)'
  <2>1. SendInv(t) /\ send'[t] = send[t] /\ Apart(t, s) /\ send[t].files \subseteq Files
    BY <1>3 DEF Inv, LockInv, TypeOK, Requests
  <2>2. HoldsKey(t) => send[t].id # id
    BY <2>1, <1>0 DEF Apart, HoldsKey
  <2>3. send[t].locked \cap files = {} /\ send[t].locked \subseteq Files
    BY <2>1, <1>l DEF Apart, Inv, TypeOK, Requests
  <2>4. Answered(t)' => Answered(t)
    BY <1>4 DEF Answered
  <2>5. (HoldsKey(t) <=> HoldsKey(t)') /\ (HoldsFiles(t) <=> HoldsFiles(t)')
    BY <2>1 DEF HoldsKey, HoldsFiles
  <2>6. HoldsKey(t)' => submissions'[send'[t].id] = None
    BY <2>1, <2>2, <2>5, <1>4 DEF SendInv, HoldsKey
  <2>7. /\ send'[t].locked \subseteq send'[t].files
        /\ \A f \in send'[t].locked : owner'[f] = None
        /\ HoldsFiles(t)' => send'[t].locked = send'[t].files
    BY <2>1, <2>3, <2>5, <1>5 DEF SendInv
  <2>8. /\ send'[t].pc = "answering" => submissions'[send'[t].id] = t
        /\ send'[t].outcome = "stored" => send'[t].id \in Ids /\ submissions'[send'[t].id] = t
        /\ send'[t].outcome = "token_spent" => send'[t].id \in Ids /\ submissions'[send'[t].id] \notin {None, t}
    BY <2>1, <1>4, <1>a, <1>b, SubmittingConstants DEF SendInv, Ids
  <2> QED BY <2>1, <2>4, <2>6, <2>7, <2>8 DEF SendInv
<1>10. StorerInv'
  <2> SUFFICES ASSUME NEW i \in Ids, submissions'[i] # None PROVE send'[submissions'[i]].id = i
    BY DEF StorerInv
  <2>1. CASE i = id
    BY <2>1, <1>1, <1>3, <1>4
  <2>2. CASE i # id
    <3>1. submissions'[i] = submissions[i] /\ submissions[i] \in Sends \ {s}
      BY <2>2, <1>4, <1>a DEF Answered, Inv, TypeOK
    <3> QED BY <3>1, <1>3 DEF Inv, StorerInv
  <2> QED BY <2>1, <2>2
<1>11. ASSUME NEW a \in Sends, NEW b \in Sends, a # b PROVE Apart(a, b)'
  BY <1>11, <1>1, <1>3 DEF Inv, LockInv, Apart, HoldsKey
<1>12. StoredWhole'
  <2> SUFFICES ASSUME NEW i \in Ids
               PROVE /\ {d \in deliveries' : d.id = i} =
                          IF submissions'[i] = None THEN {} ELSE {[hook |-> h, id |-> i, by |-> submissions'[i]] : h \in Hooks}
                     /\ {f \in Files : owner'[f] = i} =
                          IF submissions'[i] = None THEN {} ELSE send'[submissions'[i]].files
                     /\ {a \in audit' : a.id = i} =
                          IF submissions'[i] = None THEN {} ELSE {[id |-> i, by |-> submissions'[i]]}
    BY DEF StoredWhole
  <2>1. CASE i = id
    <3>1. {d \in deliveries : d.id = id} = {} /\ {f \in Files : owner[f] = id} = {} /\ {a \in audit : a.id = id} = {}
      BY <1>0, <1>a DEF Inv, StoredWhole
    <3>2. {d \in deliveries' : d.id = id} = {[hook |-> h, id |-> id, by |-> s] : h \in Hooks}
      <4>1. \A d \in Queued(s) : d.id = id
        BY DEF Queued
      <4>2. {d \in deliveries' : d.id = id} = Queued(s)
        BY <3>1, <4>1, <1>6
      <4> QED BY <4>2 DEF Queued
    <3>3. {f \in Files : owner'[f] = id} = files
      BY <3>1, <1>0, <1>5
    <3>4. {a \in audit' : a.id = id} = {[id |-> id, by |-> s]}
      BY <3>1, <1>6
    <3> QED BY <2>1, <3>2, <3>3, <3>4, <1>1, <1>3, <1>4, <1>b
  <2>2. CASE i # id
    <3>1. submissions'[i] = submissions[i] /\ submissions[i] # s /\ submissions[i] \in Sends \cup {None}
      BY <2>2, <1>4, <1>a DEF Answered, Inv, TypeOK
    <3>2. {d \in deliveries' : d.id = i} = {d \in deliveries : d.id = i}
      <4>1. \A d \in Queued(s) : d.id = id
        BY DEF Queued
      <4> QED BY <2>2, <4>1, <1>6
    <3>3. {f \in Files : owner'[f] = i} = {f \in Files : owner[f] = i}
      <4>1. \A f \in Files : owner'[f] = i <=> owner[f] = i
        BY <2>2, <1>0, <1>5, <1>a, <1>b
      <4> QED BY <4>1
    <3>4. {a \in audit' : a.id = i} = {a \in audit : a.id = i}
      BY <2>2, <1>6
    <3>5. submissions[i] # None => send'[submissions[i]] = send[submissions[i]]
      BY <3>1, <1>3
    <3> QED BY <3>1, <3>2, <3>3, <3>4, <3>5 DEF Inv, StoredWhole
  <2> QED BY <2>1, <2>2
<1>13. LockInv'
  BY <1>11 DEF LockInv
<1> QED BY <1>7, <1>8, <1>9, <1>10, <1>12, <1>13 DEF Inv

(* Every step keeps the invariant. *)
LEMMA NextInv == Inv /\ [Next]_vars => Inv'
<1> SUFFICES ASSUME Inv, [Next]_vars PROVE Inv'
  OBVIOUS
<1>t. \A s \in Sends : send[s] \in Requests /\ SendInv(s)
  BY DEF Inv, TypeOK
<1>1. CASE Republish
  <2>1. /\ current' \in 1..MaxVersion /\ connections' = connections
        /\ submissions' = submissions /\ deliveries' = deliveries /\ owner' = owner
        /\ audit' = audit /\ send' = send
    BY <1>1, SubmittingConstants DEF Republish, tables, Inv, TypeOK
  <2>2. TypeOK'
    BY <2>1 DEF Inv, TypeOK
  <2>3. \A s \in Sends : SendInv(s)'
    BY <2>1, <1>t DEF SendInv, HoldsKey, HoldsFiles, Answered
  <2>4. StorerInv' /\ LockInv' /\ StoredWhole'
    BY <2>1 DEF Inv, StorerInv, LockInv, Apart, HoldsKey, HoldsFiles, StoredWhole
  <2> QED BY <2>2, <2>3, <2>4 DEF Inv
<1>2. ASSUME NEW s \in Sends, NEW declared \in 1..MaxVersion, NEW c \in Carries[s],
             Receive(s, c.token, declared, c.files)
      PROVE  Inv'
  <2>0. c.token \in Tokens \cup {None} /\ c.files \subseteq Files
    BY SubmittingConstants
  <2>t. PICK token \in Tokens \cup {None}, files \in SUBSET Files : token = c.token /\ files = c.files
    BY <2>0
  <2> DEFINE r == [pc |-> IF token = None THEN "resolving" ELSE "named",
                   id |-> IF token = None THEN s ELSE token,
                   declared |-> declared, files |-> files, locked |-> {}, outcome |-> "none"]
  <2>1. /\ r \in Requests /\ r.pc \in {"resolving", "named"} /\ r.outcome = "none" /\ r.id \in Ids
        /\ r.locked = {}
    <3>1. r.id \in Ids
      BY DEF Ids
    <3>2. declared \in 0..MaxVersion
      BY SubmittingConstants
    <3> QED BY <3>1, <3>2 DEF Requests, Steps, Outcomes
  <2>2. send' = [send EXCEPT ![s] = r] /\ UNCHANGED <<connections, tables>> /\ current' \in 1..MaxVersion
    BY <1>2, <2>t DEF Receive, Inv, TypeOK
  <2>3. ~Answered(s)
    BY <1>2, NotAnswered DEF Receive
  <2>4. RowsFree(s, r.locked)
    BY <2>1 DEF RowsFree
  <2> HIDE DEF r
  <2> QED BY <2>1, <2>2, <2>3, <2>4, SendMoves
<1>3. ASSUME NEW s \in Sends, Refuse(s) PROVE Inv'
  BY <1>3, AnswerKeepsInv DEF Refuse
<1>4. ASSUME NEW s \in Sends, Look(s) PROVE Inv'
  BY <1>4, AnswerKeepsInv, GotoKeepsInv DEF Look
<1>5. ASSUME NEW s \in Sends, Resolve(s) PROVE Inv'
  BY <1>5, AnswerKeepsInv, GotoKeepsInv DEF Resolve
<1>6. ASSUME NEW s \in Sends, Replay(s) PROVE Inv'
  BY <1>6, AnswerKeepsInv, GotoKeepsInv DEF Replay
<1>7. ASSUME NEW s \in Sends, CheckFiles(s) PROVE Inv'
  BY <1>7, AnswerKeepsInv, GotoKeepsInv DEF CheckFiles
<1>8. ASSUME NEW s \in Sends, InsertRow(s) PROVE Inv'
  <2>0. send[s].pc = "inserting" /\ UNCHANGED <<connections, current, tables>>
    BY <1>8 DEF InsertRow
  <2>1. CASE submissions[send[s].id] # None
    BY <1>8, <2>0, <2>1, AnswerKeepsInv DEF InsertRow
  <2>2. CASE submissions[send[s].id] = None
    <3> DEFINE r == [send[s] EXCEPT !.pc = "claiming"]
    <3>1. /\ r \in Requests /\ r.pc = "claiming" /\ r.outcome = "none" /\ r.id = send[s].id /\ r.id \in Ids
          /\ r.locked = send[s].locked /\ r.locked \subseteq r.files
      BY <2>0, <1>t DEF Requests, Steps, SendInv
    <3>2. send' = [send EXCEPT ![s] = r]
      BY <1>8, <2>2 DEF InsertRow, Goto
    <3>3. UNCHANGED <<connections, tables>> /\ current' \in 1..MaxVersion
      BY <2>0 DEF Inv, TypeOK
    <3>6. ~Answered(s)
      BY <2>0, NotAnswered
    <3>5. RowsFree(s, r.locked)
      BY <3>1, LockedIsFree
    <3>4. KeyFree(s, r.id)
      BY <1>8, <2>2, <3>1 DEF InsertRow, KeyFree
    <3> HIDE DEF r
    <3> QED BY <3>1, <3>2, <3>3, <3>4, <3>5, <3>6, SendMoves
  <2> QED BY <2>1, <2>2
<1>9. ASSUME NEW s \in Sends, NEW q \in {"claiming", "committing"}, NEW rows \in SUBSET send[s].files,
             send[s].pc = "claiming", UNCHANGED <<connections, current, tables>>,
             send' = [send EXCEPT ![s].pc = q, ![s].locked = rows],
             RowsFree(s, rows), q = "committing" => rows = send[s].files
      PROVE  Inv'
  <2> DEFINE r == [send[s] EXCEPT !.pc = q, !.locked = rows]
  <2>0. /\ send[s] \in Requests /\ SendInv(s) /\ rows \in SUBSET Files
        /\ send[s].outcome = "none" /\ send[s].id \in Ids
    BY <1>9, <1>t DEF SendInv, Requests
  <2>1. /\ r \in Requests /\ r.pc = q /\ r.outcome = "none" /\ r.id = send[s].id
        /\ r.id \in Ids /\ r.files = send[s].files /\ r.locked = rows
    BY <2>0 DEF Requests, Steps
  <2>2. send' = [send EXCEPT ![s] = r]
    BY <1>9
  <2>3. UNCHANGED <<connections, tables>> /\ current' \in 1..MaxVersion
    BY <1>9 DEF Inv, TypeOK
  <2>5. ~Answered(s)
    BY <1>9, NotAnswered
  <2>6. KeyFree(s, r.id)
    BY <1>9, <2>0, <2>1 DEF Inv, SendInv, HoldsKey, KeyFree, LockInv, Apart
  <2>7. RowsFree(s, r.locked)
    BY <1>9, <2>1
  <2>8. r.pc = "committing" => r.locked = r.files
    BY <1>9, <2>1
  <2> HIDE DEF r
  <2> QED BY <2>1, <2>2, <2>3, <2>5, <2>6, <2>7, <2>8, SendMoves
<1>14. ASSUME NEW s \in Sends, NEW f \in Files, LockFile(s, f) PROVE Inv'
  <2> DEFINE rows == send[s].locked \cup {f}
  <2>2. /\ send[s].pc = "claiming" /\ UNCHANGED <<connections, current, tables>>
        /\ f \in send[s].files /\ owner[f] = None /\ \A t \in Sends : f \notin send[t].locked
    BY <1>14 DEF LockFile
  <2>3. send' = [send EXCEPT ![s].pc = "claiming", ![s].locked = rows]
    BY <1>14, <1>t, <2>2 DEF LockFile, Inv, TypeOK, Requests
  <2>4. rows \in SUBSET send[s].files
    BY <2>2, <1>t DEF SendInv
  <2>5. RowsFree(s, rows)
    BY <2>2, LockedIsFree DEF RowsFree
  <2> HIDE DEF rows
  <2> QED BY <1>9, <2>2, <2>3, <2>4, <2>5
<1>15. ASSUME NEW s \in Sends, Claim(s) PROVE Inv'
  <2>0. send[s].pc = "claiming" /\ UNCHANGED <<connections, current, tables>>
    BY <1>15 DEF Claim
  <2>1. CASE send[s].locked # send[s].files
    BY <1>15, <2>0, <2>1, AnswerKeepsInv DEF Claim
  <2>2. CASE send[s].locked = send[s].files
    <3>1. RowsFree(s, send[s].files)
      BY <2>2, LockedIsFree
    <3>2. send' = [send EXCEPT ![s].pc = "committing", ![s].locked = send[s].files]
      BY <1>15, <1>t, <2>2 DEF Claim, Goto, Inv, TypeOK, Requests
    <3> QED BY <1>9, <2>0, <3>1, <3>2
  <2> QED BY <2>1, <2>2
<1>16. ASSUME NEW s \in Sends, BreakDeadlock(s) PROVE Inv'
  <2>1. send[s].pc = "claiming" /\ Answer(s, "error") /\ UNCHANGED <<connections, current, tables>>
    BY <1>16 DEF BreakDeadlock, WaitsFor
  <2> QED BY <2>1, AnswerKeepsInv
<1>17. ASSUME NEW s \in Sends, Begin(s) PROVE Inv'
  BY <1>17, GotoKeepsInv DEF Begin
<1>10. ASSUME NEW s \in Sends, AnswerStored(s) PROVE Inv'
  <2> DEFINE r == [send[s] EXCEPT !.pc = "done", !.outcome = "stored", !.locked = {}]
  <2>0. send[s].pc = "answering" /\ UNCHANGED <<connections, current, tables>>
    BY <1>10 DEF AnswerStored
  <2>1. /\ r \in Requests /\ r.pc = "done" /\ r.outcome = "stored" /\ r.id = send[s].id
        /\ r.files = send[s].files /\ r.locked = {}
    BY <1>t DEF Requests, Steps, Outcomes
  <2>a. send[s].id \in Ids /\ submissions[send[s].id] = s
    BY <2>0, <1>t DEF SendInv
  <2>2. send' = [send EXCEPT ![s] = r]
    BY <1>10 DEF AnswerStored, Answer
  <2>3. UNCHANGED <<connections, tables>> /\ current' \in 1..MaxVersion
    BY <2>0 DEF Inv, TypeOK
  <2>4. RowsFree(s, r.locked)
    BY <2>1 DEF RowsFree
  <2> HIDE DEF r
  <2> QED BY <2>1, <2>a, <2>2, <2>3, <2>4, SendMoves
<1>11. ASSUME NEW s \in Sends, Fail(s) PROVE Inv'
  BY <1>11, AnswerKeepsInv DEF Fail
<1>12. ASSUME NEW s \in Sends, Commit(s) PROVE Inv'
  BY <1>12, CommitKeepsInv
<1>13. CASE UNCHANGED vars
  <2>1. /\ connections' = connections /\ current' = current /\ submissions' = submissions /\ deliveries' = deliveries
        /\ owner' = owner /\ audit' = audit /\ send' = send
    BY <1>13 DEF vars
  <2>2. \A s \in Sends : SendInv(s)'
    BY <2>1, <1>t DEF SendInv, HoldsKey, HoldsFiles, Answered
  <2> QED BY <2>1, <2>2 DEF Inv, TypeOK, StorerInv, LockInv, Apart, HoldsKey, HoldsFiles, StoredWhole
<1> QED BY <1>1, <1>2, <1>3, <1>4, <1>5, <1>6, <1>7, <1>8, <1>10, <1>11, <1>12, <1>13, <1>14, <1>15, <1>16, <1>17
        DEF Next, Progress

(* Before anything is sent nothing is stored and nobody is answered.        *)
LEMMA InitInv == Init => Inv
<1> SUFFICES ASSUME Init PROVE Inv
  OBVIOUS
<1>1. \A s \in Sends : /\ send[s] \in Requests /\ send[s].pc = "idle" /\ send[s].outcome = "none"
                        /\ send[s].locked = {}
  BY SubmittingConstants DEF Init, Requests, Steps, Outcomes
<1>2. \A s \in Sends : ~Answered(s)
  BY SubmittingConstants DEF Init, Answered
<1>3. TypeOK
  <2>1. send \in [Sends -> Requests]
    BY <1>1 DEF Init
  <2>2. current \in 1..MaxVersion /\ connections \in PoolSizes
    BY SubmittingConstants DEF Init
  <2> QED BY <2>1, <2>2 DEF Init, TypeOK
<1>4. ASSUME NEW s \in Sends PROVE SendInv(s)
  BY <1>1, <1>2 DEF SendInv, HoldsKey, HoldsFiles
<1>5. StorerInv /\ StoredWhole
  BY SubmittingConstants DEF Init, StorerInv, StoredWhole, Ids
<1>6. LockInv
  BY <1>1 DEF LockInv, Apart, HoldsKey, HoldsFiles
<1> QED BY <1>3, <1>4, <1>5, <1>6 DEF Inv

(* The invariant holds in every reachable state.                            *)
LEMMA Invariance == Spec => []Inv
<1> QED BY InitInv, NextInv, PTL DEF Spec

(* Type correctness of the specification. *)
THEOREM TypeCorrect == Spec => []TypeOK
<1> QED BY Invariance, PTL DEF Inv

(* A response is stored with all that belongs to it, or not at all. *)
THEOREM ResponsesAreWhole == Spec => []StoredWhole
<1> QED BY Invariance, PTL DEF Inv

(* What a sender is told of its response is true. *)
THEOREM AnswersHold == Spec => []AnswersAreTrue
<1>1. Inv => AnswersAreTrue
  <2> SUFFICES ASSUME Inv, NEW s \in Sends
               PROVE /\ send[s].outcome = "stored" => submissions[send[s].id] = s
                     /\ send[s].outcome = "token_spent" => submissions[send[s].id] \notin {None, s}
                     /\ (\E i \in Ids : submissions[i] = s) => send[s].outcome \in {"none", "stored", "error"}
    BY DEF AnswersAreTrue
  <2> QED BY DEF Inv, SendInv, Answered
<1> QED BY <1>1, Invariance, PTL

(* A transaction that commits displaces nothing. *)
THEOREM CommitsAreSafe == Spec => []CommitReplacesNothing
<1>1. Inv => CommitReplacesNothing
  <2> SUFFICES ASSUME Inv, NEW s \in Sends, send[s].pc = "committing"
               PROVE /\ submissions[send[s].id] = None
                     /\ \A f \in send[s].files : owner[f] = None
                     /\ \A t \in Sends \ {s} :
                           HoldsFiles(t) => send[t].id # send[s].id /\ send[t].files \cap send[s].files = {}
    BY DEF CommitReplacesNothing
  <2> QED BY DEF Inv, SendInv, LockInv, Apart, HoldsKey, HoldsFiles
<1> QED BY <1>1, Invariance, PTL

(* What the store holds: the responses stored, whole. *)
Held == {Stored(i) : i \in {j \in Ids : submissions[j] # None}}

(* A stored response has every delivery, its files and its audit row. *)
AllWhole ==
    \A i \in Ids : submissions[i] # None =>
        Stored(i) = [id |-> i, files |-> send[submissions[i]].files, deliveries |-> Hooks, audited |-> TRUE]

(* In a state of the invariant a stored response has all that belongs to it.*)
LEMMA StoredIsWhole == Inv => AllWhole
<1> SUFFICES ASSUME Inv, NEW i \in Ids, submissions[i] # None
             PROVE  Stored(i) = [id |-> i, files |-> send[submissions[i]].files,
                                 deliveries |-> Hooks, audited |-> TRUE]
  BY DEF AllWhole
<1>1. /\ {d \in deliveries : d.id = i} = {[hook |-> h, id |-> i, by |-> submissions[i]] : h \in Hooks}
      /\ {f \in Files : owner[f] = i} = send[submissions[i]].files
      /\ {a \in audit : a.id = i} = {[id |-> i, by |-> submissions[i]]}
  BY DEF Inv, StoredWhole
<1>2. {h \in Hooks : \E d \in deliveries : d.hook = h /\ d.id = i} = Hooks
  <2> SUFFICES ASSUME NEW h \in Hooks PROVE \E d \in deliveries : d.hook = h /\ d.id = i
    OBVIOUS
  <2>1. [hook |-> h, id |-> i, by |-> submissions[i]] \in {d \in deliveries : d.id = i}
    BY <1>1
  <2> QED BY <2>1
<1>3. \E a \in audit : a.id = i
  BY <1>1
<1> QED BY <1>1, <1>2, <1>3 DEF Stored

(* A step stores nothing, or one response, under an id and with files that  *)
(* no stored response has.                                                  *)
LEMMA StoreStep == ASSUME Inv, [Next]_vars PROVE [Store!Next]_Held
<1>n. AllWhole /\ AllWhole'
  <2>1. Inv'
    BY NextInv
  <2>2. Inv' => AllWhole'
    BY StoredIsWhole, PTL
  <2> QED BY <2>1, <2>2, StoredIsWhole
<1>1. CASE UNCHANGED tables
  <2>1. submissions' = submissions /\ deliveries' = deliveries /\ owner' = owner /\ audit' = audit
    BY <1>1 DEF tables
  <2> QED BY <2>1 DEF Held, Stored
<1>2. ASSUME NEW s \in Sends, Commit(s) PROVE Store!Next
  <2>0. /\ send[s].pc = "committing" /\ SendInv(s) /\ send[s] \in Requests
        /\ send[s].id \in Ids /\ send[s].files \in SUBSET Files
    BY <1>2 DEF Commit, Commits, Inv, TypeOK, SendInv, Requests
  <2>1. PICK id \in Ids, files \in SUBSET Files : id = send[s].id /\ files = send[s].files
    BY <2>0
  <2>2. submissions[id] = None /\ \A f \in files : owner[f] = None
    BY <2>0, <2>1 DEF SendInv, HoldsKey, HoldsFiles
  <2>3. s # None /\ None \notin Ids /\ ~Answered(s)
    BY <2>0, SubmittingConstants, NotAnswered DEF Ids
  <2>4. /\ submissions'[id] = s
        /\ \A i \in Ids \ {id} : submissions'[i] = submissions[i]
        /\ \A t \in Sends : send'[t].files = send[t].files
    BY <1>2, <2>0, <2>1 DEF Commit, Commits, Inv, TypeOK
  <2>5. \A i \in Ids : submissions[i] # None => Stored(i)' = Stored(i)
    <3> SUFFICES ASSUME NEW i \in Ids, submissions[i] # None PROVE Stored(i)' = Stored(i)
      OBVIOUS
    <3>1. submissions'[i] = submissions[i] /\ submissions[i] \in Sends
      BY <2>2, <2>4 DEF Inv, TypeOK
    <3>2. Stored(i) = [id |-> i, files |-> send[submissions[i]].files, deliveries |-> Hooks, audited |-> TRUE]
      BY <1>n DEF AllWhole
    <3>3. Stored(i)' = [id |-> i, files |-> send'[submissions'[i]].files, deliveries |-> Hooks, audited |-> TRUE]
      BY <1>n, <3>1, <2>3 DEF AllWhole
    <3> QED BY <3>1, <3>2, <3>3, <2>4
  <2>6. Stored(id)' = [id |-> id, files |-> files, deliveries |-> Hooks, audited |-> TRUE]
    <3>1. Stored(id)' = [id |-> id, files |-> send'[submissions'[id]].files, deliveries |-> Hooks, audited |-> TRUE]
      BY <1>n, <2>3, <2>4 DEF AllWhole
    <3> QED BY <3>1, <2>1, <2>4
  <2>7. {j \in Ids : submissions'[j] # None} = {j \in Ids : submissions[j] # None} \cup {id}
    BY <2>3, <2>4
  <2>8. Held' = Held \cup {[id |-> id, files |-> files, deliveries |-> Hooks, audited |-> TRUE]}
    BY <2>5, <2>6, <2>7 DEF Held
  <2>9. \A r \in Held : r.id # id /\ r.files \cap files = {}
    <3> SUFFICES ASSUME NEW i \in Ids, submissions[i] # None
                 PROVE  Stored(i).id # id /\ Stored(i).files \cap files = {}
      BY DEF Held
    <3>1. Stored(i).id = i /\ Stored(i).files = {f \in Files : owner[f] = i}
      BY DEF Stored
    <3> QED BY <3>1, <2>2, <2>3
  <2>10. Store!Store(id, files)
    BY <2>8, <2>9 DEF Store!Store, Held
  <2> QED BY <2>10 DEF Store!Next
<1>3. ASSUME NEW s \in Sends, Refuse(s) \/ Look(s) \/ Resolve(s) \/ Replay(s) \/ CheckFiles(s)
                              \/ Begin(s) \/ InsertRow(s) \/ (\E f \in Files : LockFile(s, f))
                              \/ Claim(s) \/ BreakDeadlock(s) \/ AnswerStored(s) \/ Fail(s)
      PROVE  UNCHANGED tables
  BY <1>3 DEF Refuse, Look, Resolve, Replay, CheckFiles, Begin, InsertRow, LockFile, Claim, BreakDeadlock,
              AnswerStored, Fail
<1>4. ASSUME NEW s \in Sends, NEW declared \in 1..MaxVersion, NEW c \in Carries[s],
             Receive(s, c.token, declared, c.files)
      PROVE  UNCHANGED tables
  BY <1>4 DEF Receive
<1>5. CASE Republish
  BY <1>5, <1>1 DEF Republish
<1>6. CASE UNCHANGED vars
  BY <1>6, <1>1 DEF vars, tables
<1> QED BY <1>1, <1>2, <1>3, <1>4, <1>5, <1>6 DEF Next, Progress

(* Sending implements the store that takes a response whole, and once. *)
THEOREM ImplementsStore == Spec => StoreSpec
<1>1. Init => Store!Init
  BY DEF Init, Store!Init
<1>2. Inv /\ [Next]_vars => [Store!Next]_Held
  BY StoreStep
<1> QED BY <1>1, <1>2, Invariance, PTL DEF Spec, StoreSpec, Store!Spec, Held
=============================================================================
