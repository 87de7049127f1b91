--------------------- MODULE ConflictResolution_proofs ---------------------
(***************************************************************************)
(* ConflictResolution for any paths, contents, sessions, edits and calls,  *)
(* with rounds that may break off.                                         *)
(***************************************************************************)
EXTENDS ConflictResolution, AtomicRounds_proofs

\* A record is about a user's path, and its copy, if it has one, was made by
\* a session that has run.
GoodRecord ==
  {r \in ConflictRecord :
     /\ r.id.path \in Name
     /\ r.copy = NoFile \/ \E t \in Session \ pending : r.copy = ConflictName(r.id.path, t)}

RecordsGood == \A d \in Device : records[d] \subseteq GoodRecord

\* A record's file is named after its id.
OnePerId(rs) == \A r, t \in rs : r.id = t.id => r = t

RecordsUnique == \A d \in Device : OnePerId(records[d])
\* A call is at its second file only if its record names one.
RequestsGood ==
  /\ \A q \in requests : q.record \in GoodRecord
  /\ \A q \in requests : q.pc = "copy" => q.record.copy # NoFile

QInv == IInv /\ QueueTypeOK /\ RecordsGood /\ RecordsUnique /\ RequestsGood

-----------------------------------------------------------------------------
(* Operations on records                                                   *)

LEMMA CloseRecord ==
  ASSUME NEW r \in ConflictRecord
  PROVE  LET t == [r EXCEPT !.status = "resolved"]
         IN /\ t \in ConflictRecord /\ t.id = r.id /\ t.copy = r.copy
            /\ t.status = "resolved"
  BY DEF ConflictRecord

LEMMA GoodMarked ==
  ASSUME NEW rs \in SUBSET GoodRecord, NEW ids
  PROVE  MarkResolved(rs, ids) \in SUBSET GoodRecord
<1>1. \A r \in GoodRecord : [r EXCEPT !.status = "resolved"] \in GoodRecord
  BY CloseRecord DEF GoodRecord
<1> QED BY <1>1 DEF MarkResolved

LEMMA UniqueMarked ==
  ASSUME NEW rs \in SUBSET ConflictRecord, OnePerId(rs), NEW ids
  PROVE  OnePerId(MarkResolved(rs, ids))
<1>1. \A r \in rs : [r EXCEPT !.status = "resolved"].id = r.id
  BY CloseRecord
<1> DEFINE New(r) == IF r.id \in ids THEN [r EXCEPT !.status = "resolved"] ELSE r
<1>2. \A r \in rs : New(r).id = r.id
  BY <1>1
<1>3. MarkResolved(rs, ids) = {New(r) : r \in rs}
  BY DEF MarkResolved
<1> HIDE DEF New
<1> QED BY <1>2, <1>3 DEF OnePerId

\* GoodRecord only grows.
LEMMA GoodGrows ==
  ASSUME pending' \subseteq pending
  PROVE  GoodRecord \subseteq GoodRecord'
  BY DEF GoodRecord

\* The conflicts of a plan are at users' paths where each side departed from
\* the baseline in its own way, and at all of those.
LEMMA PlanConflicts ==
  ASSUME IInv, NEW c \in Device, NEW s \in Session, Transfers(c, s)
  PROVE  /\ \A x \in PlanOf(c, s).conflicts :
              /\ x.path \in Name /\ IdOf(x) \in ConflictId /\ IdOf(x).path = x.path
              /\ x.copy \in {NoFile, ConflictName(x.path, s)}
              /\ base[x.path] \notin {folder[Peer(c)][x.path], folder[c][x.path]}
         /\ \A p \in Path :
              LET theirs == folder[Peer(c)][p]
                  mine == folder[c][p]
              IN theirs # mine /\ base[p] \notin {theirs, mine} =>
                   \E x \in PlanOf(c, s).conflicts :
                     /\ IdOf(x) = [path |-> p, base |-> base[p], server |-> theirs, client |-> mine]
                     /\ x.copy = IF NoFile \in {theirs, mine} THEN NoFile ELSE ConflictName(p, s)
         /\ \A x, y \in PlanOf(c, s).conflicts : IdOf(x) = IdOf(y) => x = y
<1> DEFINE srv == folder[Peer(c)]
           cli == folder[c]
           K(p) == Decision(srv[p], cli[p], base[p])
           kinds == {"deleteModify", "modifyDelete"}
           both == {p \in Path : K(p) \in {"bothModified"}}
           Detail(p) == [path |-> p, base |-> base[p], server |-> srv[p], client |-> cli[p],
                         copy |-> IF p \in both THEN ConflictName(p, s) ELSE NoFile]
<1>1. PlanOf(c, s).conflicts = {Detail(p) : p \in {q \in Path : K(q) \in kinds} \cup both}
  BY DEF PlanOf, BuildPlan
<1>2. \A p \in Path : /\ srv[p] \in File /\ cli[p] \in File /\ base[p] \in File
                      /\ p \notin Name => /\ srv[p] = cli[p] \/ NoFile \in {srv[p], cli[p]}
                                          /\ srv[p] = base[p] \/ NoFile \in {srv[p], base[p]}
                                          /\ cli[p] = base[p] \/ NoFile \in {cli[p], base[p]}
  BY PeerOfDevice DEF IInv, TypeOK, Folder, CopiesAreOne
<1>3. \A p \in Path :
        /\ K(p) \in kinds \cup {"bothModified"} <=> srv[p] # cli[p] /\ base[p] \notin {srv[p], cli[p]}
        /\ K(p) = "bothModified" => NoFile \notin {srv[p], cli[p]}
        /\ K(p) \in kinds => NoFile \in {srv[p], cli[p]}
  <2> SUFFICES ASSUME NEW p \in Path
               PROVE  /\ K(p) \in kinds \cup {"bothModified"}
                           <=> srv[p] # cli[p] /\ base[p] \notin {srv[p], cli[p]}
                      /\ K(p) = "bothModified" => NoFile \notin {srv[p], cli[p]}
                      /\ K(p) \in kinds => NoFile \in {srv[p], cli[p]}
    OBVIOUS
  <2> DEFINE Dec == Decision(srv[p], cli[p], base[p])
  <2>1. srv[p] \in File /\ cli[p] \in File /\ base[p] \in File
    BY <1>2
  <2> HIDE DEF srv, cli
  <2>2. /\ Dec \in kinds \cup {"bothModified"}
               <=> srv[p] # cli[p] /\ base[p] \notin {srv[p], cli[p]}
        /\ Dec = "bothModified" => NoFile \notin {srv[p], cli[p]}
        /\ Dec \in kinds => NoFile \in {srv[p], cli[p]}
    BY <2>1, DecisionCases DEF Kinds
  <2> QED BY <2>2
<1>4. \A p \in Path : K(p) \in kinds \cup {"bothModified"} => p \in Name
  BY <1>2, <1>3
<1>5. \A p \in Path : IdOf(Detail(p)) = [path |-> p, base |-> base[p], server |-> srv[p], client |-> cli[p]]
  BY DEF IdOf
<1>6. \A p \in Path : IdOf(Detail(p)) \in ConflictId /\ IdOf(Detail(p)).path = p
  <2> DEFINE Id(p) == [path |-> p, base |-> base[p], server |-> srv[p], client |-> cli[p]]
  <2>1. \A p \in Path : Id(p) \in ConflictId
    BY <1>2 DEF ConflictId
  <2>2. \A p \in Path : Id(p).path = p
    OBVIOUS
  <2>3. \A p \in Path : IdOf(Detail(p)) = Id(p)
    BY <1>5
  <2> HIDE DEF Detail, Id
  <2> QED BY <2>1, <2>2, <2>3
<1>7. \A p \in Path : /\ Detail(p).path = p
                      /\ Detail(p).copy = IF p \in both THEN ConflictName(p, s) ELSE NoFile
  OBVIOUS
<1> HIDE DEF Detail
<1>8. ASSUME NEW x \in PlanOf(c, s).conflicts
      PROVE  /\ x.path \in Name /\ IdOf(x) \in ConflictId /\ IdOf(x).path = x.path
             /\ x.copy \in {NoFile, ConflictName(x.path, s)}
             /\ base[x.path] \notin {srv[x.path], cli[x.path]}
  <2> PICK p \in Path : x = Detail(p) /\ K(p) \in kinds \cup {"bothModified"}
    BY <1>1
  <2> QED BY <1>3, <1>4, <1>6, <1>7
<1>9. ASSUME NEW p \in Path, srv[p] # cli[p], base[p] \notin {srv[p], cli[p]}
      PROVE  \E x \in PlanOf(c, s).conflicts :
               /\ IdOf(x) = [path |-> p, base |-> base[p], server |-> srv[p], client |-> cli[p]]
               /\ x.copy = IF NoFile \in {srv[p], cli[p]} THEN NoFile ELSE ConflictName(p, s)
  <2>1. K(p) \in kinds \cup {"bothModified"}
    BY <1>3, <1>9
  <2>2. Detail(p) \in PlanOf(c, s).conflicts
    BY <1>1, <2>1
  <2>3. p \in both <=> NoFile \notin {srv[p], cli[p]}
    BY <1>3, <2>1
  <2> QED BY <1>5, <1>7, <2>2, <2>3
<1>10. \A x, y \in PlanOf(c, s).conflicts : IdOf(x) = IdOf(y) => x = y
  BY <1>1, <1>6
<1> QED BY <1>8, <1>9, <1>10

LEMMA SavedGood ==
  ASSUME IInv, NEW c \in Device, NEW s \in Session, Transfers(c, s),
         NEW rs \in SUBSET GoodRecord'
  PROVE  SavePlanConflicts(rs, PlanOf(c, s).conflicts) \subseteq GoodRecord'
<1> DEFINE found == PlanOf(c, s).conflicts
<1>1. s \in Session \ pending'
  BY DEF Transfers
<1>2. \A x \in found : [id |-> IdOf(x), copy |-> x.copy, status |-> "pending"] \in GoodRecord'
  <2> SUFFICES ASSUME NEW x \in found
               PROVE  [id |-> IdOf(x), copy |-> x.copy, status |-> "pending"] \in GoodRecord'
    OBVIOUS
  <2>1. /\ x.path \in Name /\ IdOf(x) \in ConflictId /\ IdOf(x).path = x.path
        /\ x.copy \in {NoFile, ConflictName(x.path, s)}
    BY PlanConflicts
  <2>2. x.copy \in Path \cup {NoFile}
    BY <2>1, PlanAssumption, NamesAssumption
  <2> QED BY <1>1, <2>1, <2>2 DEF GoodRecord, ConflictRecord
<1> QED BY <1>2 DEF SavePlanConflicts

LEMMA UniqueSaved ==
  ASSUME IInv, NEW c \in Device, NEW s \in Session, Transfers(c, s), NEW e,
         NEW rs \in SUBSET GoodRecord', OnePerId(rs)
  PROVE  OnePerId(Saved(rs, c, s, e))
<1> DEFINE found == PlanOf(c, s).conflicts
           saved == SavePlanConflicts(rs, found)
<1>1. OnePerId(saved)
  BY PlanConflicts DEF OnePerId, SavePlanConflicts
<1>2. \A r \in saved : [r EXCEPT !.status = "resolved"].id = r.id
  <2>1. saved \subseteq GoodRecord'
    BY SavedGood
  <2> QED BY <2>1, CloseRecord DEF GoodRecord
<1> DEFINE New(r) == IF r.status = "pending" /\ r.copy # NoFile /\ folder'[e][r.copy] = NoFile
                     THEN [r EXCEPT !.status = "resolved"] ELSE r
<1> HIDE DEF saved
<1>3. /\ AutoResolve(saved, folder'[e]) = {New(r) : r \in saved}
      /\ \A r \in saved : New(r).id = r.id
  BY <1>2 DEF AutoResolve
<1> HIDE DEF New
<1>4. OnePerId(AutoResolve(saved, folder'[e]))
  BY <1>1, <1>3 DEF OnePerId
<1> QED BY <1>4 DEF Saved, saved

LEMMA GoodSaved ==
  ASSUME IInv, NEW c \in Device, NEW s \in Session, Transfers(c, s), NEW e,
         NEW rs \in SUBSET GoodRecord'
  PROVE  Saved(rs, c, s, e) \in SUBSET GoodRecord'
<1> DEFINE saved == SavePlanConflicts(rs, PlanOf(c, s).conflicts)
<1>1. saved \subseteq GoodRecord'
  BY SavedGood
<1>2. \A r \in GoodRecord' : [r EXCEPT !.status = "resolved"] \in GoodRecord'
  BY CloseRecord DEF GoodRecord
<1> HIDE DEF saved
<1>3. AutoResolve(saved, folder'[e]) \in SUBSET GoodRecord'
  BY <1>1, <1>2 DEF AutoResolve
<1> QED BY <1>3 DEF Saved, saved

-----------------------------------------------------------------------------
(* The invariant                                                           *)

LEMMA QInvInit == QueueInit => QInv
  BY IInvInit DEF QueueInit, QInv, QueueTypeOK, RecordsGood, RecordsUnique, OnePerId, RequestsGood, IInv

LEMMA RequestMoves ==
  ASSUME QInv, NEW q \in requests, NEW pc \in {"write", "copy", "save"}, Proceeds(q, pc),
         pending' = pending, pc = "copy" => q.record.copy # NoFile
  PROVE  requests' \subseteq Request /\ RequestsGood'
<1> DEFINE t == [q EXCEPT !.pc = pc]
<1>1. t \in Request /\ t.record = q.record /\ t.pc = pc
  BY DEF QInv, QueueTypeOK, Request
<1>2. requests' \subseteq requests \cup {t}
  BY DEF Proceeds
<1>3. GoodRecord' = GoodRecord
  BY DEF GoodRecord
<1> HIDE DEF t
<1> QED BY <1>1, <1>2, <1>3 DEF QInv, QueueTypeOK, RequestsGood

LEMMA QInvUser ==
  ASSUME QInv, NEW d \in Device, NEW p \in Path, NEW v \in File, UserEdit(d, p, v)
  PROVE  QInv'
<1>1. edits' \in 0..MaxEdits
  BY NamesAssumption DEF QInv, IInv, TypeOK, UserEdit, Edit
<1>2. IInv'
  BY <1>1, IInvWrite DEF QInv, UserEdit, Edit
<1>3. changed' \in [Device -> SUBSET Path]
  BY DEF QInv, QueueTypeOK, UserEdit, Changes
<1>4. GoodRecord' = GoodRecord
  BY DEF UserEdit, Edit, GoodRecord
<1> QED BY <1>2, <1>3, <1>4 DEF QInv, IInv, QueueTypeOK, RecordsGood, RecordsUnique, RequestsGood, UserEdit

LEMMA QInvAsk ==
  ASSUME QInv, NEW d \in Device, NEW r \in records[d], NEW v \in File, Ask(d, r, v)
  PROVE  QInv'
<1>1. IInv' /\ GoodRecord' = GoodRecord
  <2>1. edits' \in 0..MaxEdits
    BY NamesAssumption DEF QInv, IInv, TypeOK, Ask
  <2> QED BY <2>1 DEF QInv, IInv, Ask, TypeOK, CopiesAreOne, PendingFresh, GoodRecord
<1>2. r \in GoodRecord /\ r \in ConflictRecord
  BY DEF QInv, RecordsGood, GoodRecord
<1>3. [pc |-> "write", at |-> d, record |-> r, value |-> v] \in Request
  BY <1>2 DEF Request
<1> QED BY <1>1, <1>2, <1>3 DEF QInv, IInv, QueueTypeOK, RecordsGood, RecordsUnique, RequestsGood, Ask

LEMMA QInvCall ==
  ASSUME QInv, NEW q \in requests, WriteChoice(q) \/ DeleteCopy(q) \/ SaveResolved(q) \/ Abandon(q)
  PROVE  QInv'
<1>1. /\ q.at \in Device /\ q.record \in ConflictRecord /\ q.value \in File
      /\ q.record \in GoodRecord
      /\ q.record.id.path \in Name /\ q.record.id.path \in Path
      /\ q.record.copy # NoFile => q.record.copy \in Path
      /\ edits \in 0..MaxEdits
  <2>1. q.at \in Device /\ q.record \in ConflictRecord /\ q.value \in File
    BY DEF QInv, QueueTypeOK, Request
  <2>2. q.record \in GoodRecord
    BY DEF QInv, RequestsGood
  <2>3. q.record.id.path \in Name /\ (q.record.copy # NoFile => q.record.copy \in Path)
    BY <2>2 DEF GoodRecord, ConflictRecord
  <2>4. edits \in 0..MaxEdits
    BY DEF QInv, IInv, TypeOK
  <2> QED BY <2>1, <2>2, <2>3, <2>4, NamesAssumption
<1>2. NoFile \in File /\ pending' = pending /\ GoodRecord' = GoodRecord
  BY DEF WriteChoice, DeleteCopy, SaveResolved, Abandon, vars, File, GoodRecord
<1>3. ASSUME UNCHANGED vars PROVE IInv'
  BY <1>3 DEF QInv, IInv, vars, TypeOK, CopiesAreOne, PendingFresh
<1>4. CASE WriteChoice(q)
  <2>1. IInv'
    BY <1>1, <1>4, IInvWrite DEF QInv, WriteChoice
  <2>2. requests' \subseteq Request /\ RequestsGood'
    BY <1>2, <1>4, RequestMoves DEF WriteChoice
  <2>3. changed' \in [Device -> SUBSET Path]
    BY <1>1, <1>4 DEF QInv, QueueTypeOK, WriteChoice, Changes
  <2> QED BY <1>2, <1>4, <2>1, <2>2, <2>3 DEF QInv, IInv, QueueTypeOK, RecordsGood, RecordsUnique, WriteChoice
<1>5. CASE DeleteCopy(q)
  <2>1. q.record.copy \in Path
    BY <1>1, <1>5 DEF QInv, RequestsGood, DeleteCopy
  <2>2. ASSUME folder' = [folder EXCEPT ![q.at][q.record.copy] = NoFile]
        PROVE  IInv'
    BY <1>1, <1>2, <1>5, <2>1, <2>2, IInvWrite DEF QInv, DeleteCopy
  <2>3. IInv'
    BY <1>3, <1>5, <2>2 DEF DeleteCopy, vars
  <2>4. requests' \subseteq Request /\ RequestsGood'
    BY <1>2, <1>5, RequestMoves DEF DeleteCopy
  <2>5. changed' \in [Device -> SUBSET Path]
    BY <1>1, <1>5, <2>1 DEF QInv, QueueTypeOK, DeleteCopy, Changes
  <2> QED BY <1>2, <1>5, <2>3, <2>4, <2>5 DEF QInv, IInv, QueueTypeOK, RecordsGood, RecordsUnique, DeleteCopy
<1>6. CASE SaveResolved(q)
  <2>1. [q.record EXCEPT !.status = "resolved"] \in GoodRecord
    BY <1>1, CloseRecord DEF GoodRecord
  <2>2. records'[q.at] \subseteq GoodRecord
        /\ \A d \in Device : d # q.at => records'[d] = records[d]
    BY <1>1, <1>6, <2>1 DEF QInv, QueueTypeOK, RecordsGood, SaveResolved
  <2>3. records' \in [Device -> SUBSET ConflictRecord] /\ RecordsGood'
    BY <1>1, <1>2, <1>6, <2>2 DEF QInv, QueueTypeOK, RecordsGood, SaveResolved, GoodRecord
  <2>4. requests' \subseteq requests /\ UNCHANGED <<vars, changed>>
    BY <1>6 DEF SaveResolved
  <2>5. RecordsUnique'
    <3>1. [q.record EXCEPT !.status = "resolved"].id = q.record.id
      BY <1>1, CloseRecord
    <3> QED BY <1>1, <1>6, <3>1 DEF QInv, QueueTypeOK, RecordsUnique, OnePerId, SaveResolved
  <2> QED BY <1>2, <1>3, <2>3, <2>4, <2>5 DEF QInv, IInv, QueueTypeOK, RequestsGood
<1>7. CASE Abandon(q)
  BY <1>2, <1>3, <1>7 DEF QInv, IInv, QueueTypeOK, RecordsGood, RecordsUnique, RequestsGood, Abandon
<1> QED BY <1>4, <1>5, <1>6, <1>7

\* What a round does, complete or broken off: the transfers of AtomicRounds,
\* and each device marks its records and perhaps saves the plan's.
LEMMA RoundExchanges ==
  ASSUME QInv, NEW c \in Device, NEW s \in Session, FullRound(c, s) \/ BreaksOff(c, s)
  PROVE  \E savers \in SUBSET Device :
           /\ Transfers(c, s) /\ Exchange(c, s, savers)
           /\ base' = base \/ base' = folder'[Peer(c)]
           /\ FullRound(c, s) => savers = Device
<1>1. CASE FullRound(c, s)
  BY <1>1 DEF FullRound, Round
<1>2. CASE BreaksOff(c, s) /\ ~FullRound(c, s)
  <2>1. {} \in SUBSET Device /\ {c} \in SUBSET Device /\ Device \in SUBSET Device
    OBVIOUS
  <2> QED BY <1>2, <2>1 DEF BreaksOff
<1> QED BY <1>1, <1>2

LEMMA DevicePair ==
  ASSUME NEW d \in Device
  PROVE  (d = A /\ Peer(d) = B) \/ (d = B /\ Peer(d) = A)
  BY NamesAssumption DEF Device, Peer

LEMMA RoundOnly ==
  ASSUME [QueueNext]_allVars, pending' # pending
  PROVE  \E c \in Device, s \in Session : FullRound(c, s) \/ BreaksOff(c, s)
  BY DEF QueueNext, UserEdit, Edit, Ask, WriteChoice, DeleteCopy, SaveResolved, Abandon,
         allVars, vars

LEMMA QInvRound ==
  ASSUME QInv, NEW c \in Device, NEW s \in Session, FullRound(c, s) \/ BreaksOff(c, s)
  PROVE  QInv'
<1> PICK savers \in SUBSET Device :
      /\ Transfers(c, s) /\ Exchange(c, s, savers)
      /\ base' = base \/ base' = folder'[Peer(c)]
  BY RoundExchanges
<1>1. IInv /\ IInv'
  BY IInvTransfers DEF QInv
<1>2. GoodRecord \subseteq GoodRecord'
  BY GoodGrows DEF Transfers
<1>3. ClientMarks(c) \in SUBSET GoodRecord' /\ ServerMarks(c) \in SUBSET GoodRecord'
  <2>1. ClientMarks(c) \in SUBSET GoodRecord /\ ServerMarks(c) \in SUBSET GoodRecord
    BY GoodMarked, PeerOfDevice DEF QInv, RecordsGood, ClientMarks, ServerMarks
  <2> QED BY <1>2, <2>1
<1>4. \A e \in Device, rs \in SUBSET GoodRecord' : Saved(rs, c, s, e) \in SUBSET GoodRecord'
  BY <1>1, GoodSaved
<1>5. \A e \in Device : records'[e] \in SUBSET GoodRecord'
  BY <1>3, <1>4 DEF Exchange
<1>6. records' \in [Device -> SUBSET ConflictRecord]
  <2>1. GoodRecord' \subseteq ConflictRecord
    BY DEF GoodRecord
  <2>2. records' = [e \in Device |-> records'[e]]
    BY DEF Exchange
  <2> QED BY <1>5, <2>1, <2>2
<1>7. changed' \in [Device -> SUBSET Path] /\ requests' = requests
  BY DEF Exchange
<1>8. OnePerId(ClientMarks(c)) /\ OnePerId(ServerMarks(c))
  <2>1. \A e \in Device : records[e] \in SUBSET ConflictRecord /\ OnePerId(records[e])
    BY DEF QInv, QueueTypeOK, RecordsUnique
  <2> QED BY <2>1, PeerOfDevice, UniqueMarked DEF ClientMarks, ServerMarks
<1>9. RecordsUnique'
  <2>1. \A e \in Device, rs \in SUBSET GoodRecord' : OnePerId(rs) => OnePerId(Saved(rs, c, s, e))
    BY <1>1, UniqueSaved
  <2> QED BY <1>3, <1>8, <2>1 DEF Exchange, RecordsUnique
<1>10. QueueTypeOK'
  BY <1>1, <1>6, <1>7 DEF QInv, IInv, QueueTypeOK
<1>11. RequestsGood'
  BY <1>2, <1>7 DEF QInv, RequestsGood
<1> QED BY <1>1, <1>5, <1>9, <1>10, <1>11 DEF QInv, RecordsGood

LEMMA QInvStep == QInv /\ [QueueNext]_allVars => QInv'
<1> SUFFICES ASSUME QInv, [QueueNext]_allVars PROVE QInv'
  OBVIOUS
<1>1. CASE QueueNext
  BY <1>1, QInvUser, QInvAsk, QInvCall, QInvRound DEF QueueNext
<1>2. CASE UNCHANGED allVars
  BY <1>2 DEF allVars, QInv, QueueTypeOK, RecordsGood, RecordsUnique, RequestsGood, GoodRecord, IInv, TypeOK,
              CopiesAreOne, PendingFresh
<1> QED BY <1>1, <1>2

-----------------------------------------------------------------------------
(* What a round does to the records                                        *)

\* A record closed on one device is closed on both once they have exchanged
\* their ids, if both have it.
LEMMA MarksMeet ==
  ASSUME QInv, NEW c \in Device, NEW d \in Device, NEW r \in records[d], r.status = "resolved",
         NEW o \in records[Peer(d)], o.id = r.id
  PROVE  /\ \E t \in ClientMarks(c) : t.id = r.id /\ t.status = "resolved"
         /\ \E t \in ServerMarks(c) : t.id = r.id /\ t.status = "resolved"
<1>1. /\ Peer(c) \in Device /\ (d = c \/ d = Peer(c))
      /\ \A e \in Device : records[e] \subseteq ConflictRecord
  BY PeerOfDevice DEF QInv, QueueTypeOK
<1>2. \A e \in Device : \A t \in records[e] : \A ids :
        t.id \in ids => \E u \in MarkResolved(records[e], ids) : u.id = t.id /\ u.status = "resolved"
  <2> SUFFICES ASSUME NEW e \in Device, NEW t \in records[e], NEW ids, t.id \in ids
               PROVE  \E u \in MarkResolved(records[e], ids) : u.id = t.id /\ u.status = "resolved"
    OBVIOUS
  <2>1. [t EXCEPT !.status = "resolved"] \in MarkResolved(records[e], ids)
    BY DEF MarkResolved
  <2> QED BY <1>1, <2>1, CloseRecord
<1>3. \E t \in ServerMarks(c) : t.id = r.id /\ t.status = "resolved"
  <2>1. CASE d = c
    <3>1. r.id \in ResolvedIds(records[c])
      BY <2>1 DEF ResolvedIds
    <3> QED BY <1>1, <1>2, <2>1, <3>1 DEF ServerMarks
  <2>2. CASE d = Peer(c) /\ r.id \in ResolvedIds(records[c])
    BY <1>1, <1>2, <2>2 DEF ServerMarks
  <2>3. CASE d = Peer(c) /\ r.id \notin ResolvedIds(records[c])
    <3>1. r \in ServerMarks(c)
      BY <2>3 DEF ServerMarks, MarkResolved
    <3> QED BY <3>1
  <2> QED BY <1>1, <2>1, <2>2, <2>3
<1>4. r.id \in ResolvedIds(ServerMarks(c))
  BY <1>3 DEF ResolvedIds
<1>5. \E t \in records[c] : t.id = r.id
  BY <1>1, NamesAssumption DEF Device, Peer
<1>6. \E t \in ClientMarks(c) : t.id = r.id /\ t.status = "resolved"
  BY <1>2, <1>4, <1>5 DEF ClientMarks
<1> QED BY <1>3, <1>6

\* Two records of one id are in the same state after the exchange.
LEMMA MarksAgree ==
  ASSUME QInv, NEW c \in Device, NEW r \in ClientMarks(c), NEW t \in ServerMarks(c), r.id = t.id
  PROVE  r.status = t.status
<1>1. /\ \A e \in Device : records[e] \in SUBSET ConflictRecord /\ OnePerId(records[e])
      /\ Peer(c) \in Device
  BY PeerOfDevice DEF QInv, QueueTypeOK, RecordsUnique
<1>2. OnePerId(ServerMarks(c)) /\ OnePerId(ClientMarks(c))
  BY <1>1, UniqueMarked DEF ServerMarks, ClientMarks
<1>3. r.status \in {"pending", "resolved"} /\ t.status \in {"pending", "resolved"}
  BY <1>1 DEF ClientMarks, ServerMarks, MarkResolved, ConflictRecord
<1>4. ASSUME t.status = "resolved" PROVE r.status = "resolved"
  <2>1. r.id \in ResolvedIds(ServerMarks(c))
    BY <1>4 DEF ResolvedIds
  <2>2. PICK q \in records[c] :
          r = IF q.id \in ResolvedIds(ServerMarks(c)) THEN [q EXCEPT !.status = "resolved"] ELSE q
    BY DEF ClientMarks, MarkResolved
  <2>3. q \in ConflictRecord
    BY <1>1
  <2> QED BY <2>1, <2>2, <2>3, CloseRecord
<1>5. ASSUME r.status = "resolved" PROVE t.status = "resolved"
  <2>1. PICK q \in records[c] :
          r = IF q.id \in ResolvedIds(ServerMarks(c)) THEN [q EXCEPT !.status = "resolved"] ELSE q
    BY DEF ClientMarks, MarkResolved
  <2>2. q \in ConflictRecord
    BY <1>1
  <2>3. CASE q.id \in ResolvedIds(ServerMarks(c))
    <3>1. \E u \in ServerMarks(c) : u.id = t.id /\ u.status = "resolved"
      BY <2>1, <2>2, <2>3, CloseRecord DEF ResolvedIds
    <3> QED BY <1>2, <3>1 DEF OnePerId
  <2>4. CASE q.id \notin ResolvedIds(ServerMarks(c))
    <3>1. q.id = t.id /\ q.status = "resolved"
      BY <1>5, <2>1, <2>4
    <3>2. t.id \in ResolvedIds(records[c])
      BY <3>1 DEF ResolvedIds
    <3>3. PICK u \in records[Peer(c)] :
            t = IF u.id \in ResolvedIds(records[c]) THEN [u EXCEPT !.status = "resolved"] ELSE u
      BY DEF ServerMarks, MarkResolved
    <3>4. u \in ConflictRecord
      BY <1>1
    <3> QED BY <3>2, <3>3, <3>4, CloseRecord
  <2> QED BY <2>3, <2>4
<1> QED BY <1>3, <1>4, <1>5

\* Saving the plan's records leaves a closed one closed, if it is not about a
\* conflict of the plan.
LEMMA SavedKeepsClosed ==
  ASSUME NEW rs, NEW c, NEW s, NEW e, NEW r \in rs, r.status = "resolved",
         \A x \in PlanOf(c, s).conflicts : r.id # IdOf(x)
  PROVE  r \in Saved(rs, c, s, e)
<1>1. r \in SavePlanConflicts(rs, PlanOf(c, s).conflicts)
  BY DEF SavePlanConflicts
<1> QED BY <1>1 DEF Saved, AutoResolve

\* Where one device has what the baseline has, the round takes the other's.
LEMMA OneSideMoves ==
  ASSUME IInv, NEW c \in Device, NEW s \in Session, Transfers(c, s), NEW p \in Path,
         ~ \E q \in Name : p = ConflictName(q, s),
         NEW d \in Device, folder[Peer(d)][p] = base[p]
  PROVE  \A e \in Device : folder'[e][p] = folder[d][p]
<1> DEFINE srv == folder[Peer(c)]
           cli == folder[c]
           K == Decision(srv[p], cli[p], base[p])
<1>1. s \in pending
  BY DEF Transfers
<1>2. ~ \E r \in At(srv, cli, base, {"bothModified"}) : p = ConflictName(r, s)
  BY <1>1, RoundNamesFresh
<1>3. /\ \A e \in Device : folder'[e][p] = IF K \in {"clientSends", "deleteModify", "serverDeletes"}
                                           THEN cli[p] ELSE srv[p]
      /\ srv[p] \in File /\ cli[p] \in File /\ base[p] \in File
  BY <1>2, MergedOrdinary
<1>4. \/ folder[d][p] = cli[p] /\ srv[p] = base[p]
      \/ folder[d][p] = srv[p] /\ cli[p] = base[p]
  BY NamesAssumption DEF Device, Peer
<1>5. IF K \in {"clientSends", "deleteModify", "serverDeletes"}
      THEN cli[p] = folder[d][p] ELSE srv[p] = folder[d][p]
  BY <1>3, <1>4, DecisionCases DEF Kinds
<1> QED BY <1>3, <1>5

LEMMA DecisionSpreads ==
  ASSUME QInv, NEW c \in Device, NEW s \in Session, Transfers(c, s),
         NEW savers, Exchange(c, s, savers),
         NEW d \in Device, NEW r \in records[d], NewDecision(d, r)
  PROVE  /\ \A e \in Device : /\ folder'[e][r.id.path] = folder[d][r.id.path]
                              /\ Resolved(records'[e], r.id)
         /\ r.copy # NoFile /\ folder[d][r.copy] = NoFile
              /\ folder[Peer(d)][r.copy] \in {base[r.copy], NoFile} =>
                \A e \in Device : folder'[e][r.copy] = NoFile
<1> DEFINE p == r.id.path
<1>1. /\ IInv /\ s \in pending /\ Peer(d) \in Device
      /\ p \in Name /\ p \in Path
      /\ r.copy # NoFile => r.copy \in Path /\ \E t \in Session \ pending : r.copy = ConflictName(p, t)
  <2>1. r \in GoodRecord
    BY DEF QInv, RecordsGood
  <2>2. p \in Name /\ (r.copy = NoFile \/ \E t \in Session \ pending : r.copy = ConflictName(p, t))
    BY <2>1 DEF GoodRecord
  <2> QED BY <2>2, NamesAssumption, PlanAssumption, PeerOfDevice DEF QInv, Transfers
<1>2. \A q \in Name : p # ConflictName(q, s)
  BY <1>1, NamesAssumption
<1>3. /\ r.status = "resolved" /\ folder[Peer(d)][p] = base[p]
      /\ \E o \in records[Peer(d)] : o.id = r.id
  BY DEF NewDecision, Open
<1>4. \A e \in Device : folder'[e][p] = folder[d][p]
  BY <1>1, <1>2, <1>3, OneSideMoves
<1>5. \A x \in PlanOf(c, s).conflicts : r.id # IdOf(x)
  <2> SUFFICES ASSUME NEW x \in PlanOf(c, s).conflicts, r.id = IdOf(x) PROVE FALSE
    OBVIOUS
  <2>1. x.path = p /\ base[p] \notin {folder[Peer(c)][p], folder[c][p]}
    BY <1>1, PlanConflicts
  <2> QED BY <1>3, <2>1, NamesAssumption DEF Device, Peer
<1>6. \A e \in Device : Resolved(records'[e], r.id)
  <2>1. /\ \E t \in ClientMarks(c) : t.id = r.id /\ t.status = "resolved"
        /\ \E t \in ServerMarks(c) : t.id = r.id /\ t.status = "resolved"
    BY <1>3, MarksMeet
  <2>2. \A rs, e : Resolved(rs, r.id) => Resolved(Saved(rs, c, s, e), r.id)
    BY <1>5, SavedKeepsClosed DEF Resolved
  <2> QED BY <2>1, <2>2 DEF Exchange, Resolved
<1>7. ASSUME r.copy # NoFile, folder[d][r.copy] = NoFile,
             folder[Peer(d)][r.copy] \in {base[r.copy], NoFile}
      PROVE  \A e \in Device : folder'[e][r.copy] = NoFile
  <2>1. r.copy \in Path /\ \A q \in Name : r.copy # ConflictName(q, s)
    <3> PICK t \in Session \ pending : r.copy = ConflictName(p, t)
      BY <1>1, <1>7
    <3> QED BY <1>1, NamesAssumption, PlanAssumption
  <2>2. CASE folder[Peer(d)][r.copy] = base[r.copy]
    BY <1>1, <1>7, <2>1, <2>2, OneSideMoves
  <2>3. CASE folder[Peer(d)][r.copy] = NoFile
    <3>1. ~ \E q \in At(folder[Peer(c)], folder[c], base, {"bothModified"}) :
              r.copy = ConflictName(q, s)
      BY <1>1, <2>1, RoundNamesFresh
    <3>2. \A e \in Device : folder'[e][r.copy] \in {folder[c][r.copy], folder[Peer(c)][r.copy]}
      BY <1>1, <2>1, <3>1, MergedOrdinary
    <3> QED BY <1>7, <2>3, <3>2, NamesAssumption DEF Device, Peer
  <2> QED BY <1>7, <2>2, <2>3
<1> QED BY <1>4, <1>6, <1>7

\* Both versions of a conflict after the round, and where they are.
LEMMA ConflictKept ==
  ASSUME IInv, NEW c \in Device, NEW s \in Session, Transfers(c, s),
         NEW e \in Device, NEW p \in Path,
         folder[Peer(c)][p] # folder[c][p], base[p] \notin {folder[Peer(c)][p], folder[c][p]}
  PROVE  LET theirs == folder[Peer(c)][p]
             mine == folder[c][p]
             copy == IF NoFile \in {theirs, mine} THEN NoFile ELSE ConflictName(p, s)
         IN /\ copy # NoFile => folder'[e][copy] = mine /\ mine # NoFile
            /\ {folder'[e][p]} \cup (IF copy = NoFile THEN {} ELSE {folder'[e][copy]})
                 = {theirs, mine} \ {NoFile}
<1> DEFINE srv == folder[Peer(c)]
           cli == folder[c]
           both == At(srv, cli, base, {"bothModified"})
           K == Decision(srv[p], cli[p], base[p])
           q == ConflictName(p, s)
<1>1. /\ s \in pending /\ s \in Session
      /\ \A t \in Path : folder'[e][t] = Merged(srv, cli, base, s, t)
      /\ FreshCopies(srv, cli, base, s) /\ both \subseteq Name
  BY RoundMerges, RoundNamesFresh
<1>2. p \in Name
  <2>1. \E x \in PlanOf(c, s).conflicts : IdOf(x).path = p
    <3>1. \E x \in PlanOf(c, s).conflicts :
            IdOf(x) = [path |-> p, base |-> base[p], server |-> srv[p], client |-> cli[p]]
      BY PlanConflicts
    <3> QED BY <3>1
  <2> QED BY <2>1, PlanConflicts
<1>3. ~ \E r \in both : p = ConflictName(r, s)
  BY <1>1, <1>2, NamesAssumption
<1>4. /\ folder'[e][p] = IF K \in {"clientSends", "deleteModify", "serverDeletes"}
                         THEN cli[p] ELSE srv[p]
      /\ srv[p] \in File /\ cli[p] \in File /\ base[p] \in File
  BY <1>3, MergedOrdinary
<1>5. CASE NoFile \in {srv[p], cli[p]}
  <2>1. folder'[e][p] = IF srv[p] = NoFile THEN cli[p] ELSE srv[p]
    BY <1>4, <1>5, DecisionCases DEF Kinds
  <2> QED BY <1>5, <2>1
<1>6. CASE NoFile \notin {srv[p], cli[p]}
  <2>1. K = "bothModified" /\ folder'[e][p] = srv[p]
    BY <1>4, <1>6, DecisionCases DEF Kinds
  <2>2. p \in both /\ q \in Path
    BY <2>1, PlanAssumption, <1>1 DEF At
  <2>3. \A r \in both : ConflictName(r, s) = q => r = p
    BY <2>2, <1>1 DEF FreshCopies
  <2>4. folder'[e][q] = cli[p]
    BY <1>1, <2>2, <2>3 DEF Merged
  <2>5. q # NoFile
    BY <2>2, PlanAssumption
  <2> QED BY <1>6, <2>1, <2>4, <2>5
<1> QED BY <1>5, <1>6

\* A conflict waits in rs, with both versions on e where its record says.
WaitsIn(rs, e, p, theirs, mine) ==
  \E r \in rs :
    /\ r.id = [path |-> p, base |-> base[p], server |-> theirs, client |-> mine]
    /\ r.status = "pending"
    /\ {folder'[e][p]} \cup (IF r.copy = NoFile THEN {} ELSE {folder'[e][r.copy]})
         = {theirs, mine} \ {NoFile}

\* A record of the plan is still pending once it is saved, since its copy is
\* there.
LEMMA ConflictSaved ==
  ASSUME IInv, NEW c \in Device, NEW s \in Session, Transfers(c, s),
         NEW e \in Device, NEW rs, NEW p \in Path,
         folder[Peer(c)][p] # folder[c][p], base[p] \notin {folder[Peer(c)][p], folder[c][p]}
  PROVE  WaitsIn(Saved(rs, c, s, e), e, p, folder[Peer(c)][p], folder[c][p])
<1> DEFINE theirs == folder[Peer(c)][p]
           mine == folder[c][p]
           id == [path |-> p, base |-> base[p], server |-> theirs, client |-> mine]
           copy == IF NoFile \in {theirs, mine} THEN NoFile ELSE ConflictName(p, s)
           r == [id |-> id, copy |-> copy, status |-> "pending"]
<1>1. PICK x \in PlanOf(c, s).conflicts : IdOf(x) = id /\ x.copy = copy
  BY PlanConflicts
<1>2. /\ copy # NoFile => folder'[e][copy] # NoFile
      /\ {folder'[e][p]} \cup (IF copy = NoFile THEN {} ELSE {folder'[e][copy]})
           = {theirs, mine} \ {NoFile}
  BY ConflictKept
<1> HIDE DEF theirs, mine, id, copy
<1>3. r.id = id /\ r.copy = copy /\ r.status = "pending"
  OBVIOUS
<1>4. r \in SavePlanConflicts(rs, PlanOf(c, s).conflicts)
  BY <1>1 DEF SavePlanConflicts
<1> HIDE DEF r
<1>5. r \in Saved(rs, c, s, e)
  BY <1>2, <1>3, <1>4 DEF Saved, AutoResolve
<1> QED BY <1>2, <1>3, <1>5 DEF theirs, mine, id, WaitsIn

LEMMA SavedOrOld ==
  ASSUME NEW rs, NEW found, NEW u \in SavePlanConflicts(rs, found)
  PROVE  /\ (\E x \in found : u.id = IdOf(x)) => u.status = "pending"
         /\ (~ \E x \in found : u.id = IdOf(x)) => u \in rs
<1>1. CASE u \in {r \in rs : \A x \in found : r.id # IdOf(x)}
  BY <1>1
<1>2. CASE u \in {[id |-> IdOf(x), copy |-> x.copy, status |-> "pending"] : x \in found}
  <2> PICK x \in found : u = [id |-> IdOf(x), copy |-> x.copy, status |-> "pending"]
    BY <1>2
  <2>1. u.id = IdOf(x) /\ u.status = "pending"
    OBVIOUS
  <2> QED BY <2>1
<1> QED BY <1>1, <1>2 DEF SavePlanConflicts

LEMMA MarkedOpen ==
  ASSUME NEW rs \in SUBSET ConflictRecord, NEW ids, NEW u \in MarkResolved(rs, ids),
         u.status = "pending"
  PROVE  Open(rs, u.id)
<1> PICK r \in rs : u = IF r.id \in ids THEN [r EXCEPT !.status = "resolved"] ELSE r
  BY DEF MarkResolved
<1>1. u = r
  BY CloseRecord
<1> QED BY <1>1 DEF Open

\* What the two devices have saved for one conflict.
LEMMA SavedAgree ==
  ASSUME QInv, NEW c \in Device, NEW s \in Session, Transfers(c, s),
         NEW r \in Saved(ClientMarks(c), c, s, c),
         NEW t \in Saved(ServerMarks(c), c, s, Peer(c)),
         r.id = t.id, r.status # t.status
  PROVE  r.copy # t.copy /\ Open(records[c], r.id) /\ Open(records[Peer(c)], r.id)
<1> DEFINE found == PlanOf(c, s).conflicts
           New(u, e) == IF u.status = "pending" /\ u.copy # NoFile /\ folder'[e][u.copy] = NoFile
                        THEN [u EXCEPT !.status = "resolved"] ELSE u
           mine == SavePlanConflicts(ClientMarks(c), found)
           theirs == SavePlanConflicts(ServerMarks(c), found)
<1>1. folder'[c] = folder'[Peer(c)]
  BY TransfersConverge, NamesAssumption DEF QInv, Device, Peer
<1>2. PICK u \in mine : r = New(u, c)
  BY DEF Saved, AutoResolve
<1>3. PICK v \in theirs : t = New(v, Peer(c))
  BY DEF Saved, AutoResolve
<1>4. u \in ConflictRecord /\ v \in ConflictRecord
  <2>1. ClientMarks(c) \in SUBSET GoodRecord /\ ServerMarks(c) \in SUBSET GoodRecord
    BY GoodMarked, PeerOfDevice DEF QInv, RecordsGood, ClientMarks, ServerMarks
  <2>2. GoodRecord \subseteq GoodRecord'
    BY GoodGrows DEF Transfers
  <2>3. mine \subseteq GoodRecord' /\ theirs \subseteq GoodRecord'
    BY <2>1, <2>2, SavedGood DEF QInv
  <2> QED BY <2>3 DEF GoodRecord
<1>5. r.id = u.id /\ t.id = v.id /\ u.id = v.id /\ r.copy = u.copy /\ t.copy = v.copy
  BY <1>2, <1>3, <1>4, CloseRecord
<1>6. (\E x \in found : u.id = IdOf(x)) =>
        u.status = "pending" /\ v.status = "pending" /\ u.copy = v.copy
  <2> SUFFICES ASSUME NEW x \in found, u.id = IdOf(x)
               PROVE  u.status = "pending" /\ v.status = "pending" /\ u.copy = v.copy
    OBVIOUS
  <2>1. \A w : w \in mine \cup theirs /\ w.id = IdOf(x) => w.status = "pending" /\ w.copy = x.copy
    BY PlanConflicts DEF SavePlanConflicts, QInv
  <2> QED BY <1>5, <2>1
<1>7. (~ \E x \in found : u.id = IdOf(x)) => u \in ClientMarks(c) /\ v \in ServerMarks(c)
  BY <1>5, SavedOrOld
<1>8. u.status = v.status
  BY <1>5, <1>6, <1>7, MarksAgree
<1> HIDE DEF mine, theirs, found
<1>9. u.status = "pending" /\ v.status = "pending" /\ u.copy # v.copy
  BY <1>1, <1>2, <1>3, <1>4, <1>5, <1>8, CloseRecord DEF ConflictRecord
<1>10. u \in ClientMarks(c) /\ v \in ServerMarks(c)
  BY <1>6, <1>7, <1>9
<1>11. /\ Peer(c) \in Device
       /\ \A e \in Device : records[e] \in SUBSET ConflictRecord
  BY PeerOfDevice DEF QInv, QueueTypeOK
<1>12. Open(records[c], u.id) /\ Open(records[Peer(c)], v.id)
  BY <1>9, <1>10, <1>11, MarkedOpen DEF ClientMarks, ServerMarks
<1> QED BY <1>5, <1>9, <1>12

-----------------------------------------------------------------------------

\* Folders, baseline, records, calls and the history variable have their types.
THEOREM QueueTypeCorrect == QueueSpec => []QueueTypeOK
<1>1. QInv => QueueTypeOK
  BY DEF QInv
<1> QED BY <1>1, QInvInit, QInvStep, PTL DEF QueueSpec

\* The promises of undisturbed rounds also hold for rounds that break off,
\* next to users resolving conflicts: both folders end equal, no version is
\* lost, and each path is merged by the table.
THEOREM RoundsKeepPromises ==
  QueueSpec => RoundConverges /\ VersionsSurvive /\ RoundFollowsTable
<1> DEFINE Survive ==
             \A d, e \in Device, p \in Path :
               folder[d][p] \notin {NoFile, base[p]} => \E q \in Path : folder'[e][q] = folder[d][p]
           Table ==
             \A s \in pending \ pending' : \A d \in Device, p \in Path :
               (\A q \in Path : p # ConflictName(q, s)) => MergedBy(d, p)
<1>1. QInv /\ [QueueNext]_allVars =>
        [pending' # pending => folder'[A] = folder'[B] /\ Survive /\ Table]_vars
  <2> SUFFICES ASSUME QInv, [QueueNext]_allVars, pending' # pending
               PROVE  folder'[A] = folder'[B] /\ Survive /\ Table
    OBVIOUS
  <2> PICK c \in Device, s \in Session : FullRound(c, s) \/ BreaksOff(c, s)
    BY RoundOnly
  <2>1. Transfers(c, s) /\ IInv
    BY RoundExchanges DEF QInv
  <2>2. \A t \in pending \ pending' : t = s
    BY <2>1 DEF Transfers
  <2>3. Survive
    BY <2>1, TransfersKeepVersions
  <2>4. Table
    BY <2>1, <2>2, TransfersFollowTable
  <2> QED BY <2>1, <2>3, <2>4, TransfersConverge
<1>2. [pending' # pending => folder'[A] = folder'[B] /\ Survive /\ Table]_vars
        => /\ [pending' # pending => folder'[A] = folder'[B]]_vars
           /\ [pending' # pending => Survive]_vars
           /\ [pending' # pending => Table]_vars
  OBVIOUS
<1> QED BY <1>1, <1>2, QInvInit, QInvStep, PTL
        DEF QueueSpec, RoundConverges, VersionsSurvive, RoundFollowsTable

\* A decision about a conflict still open on the other device, where the file
\* is the one of the last round, reaches it with the next round, complete or
\* not: the file, the removal of the copy, the closed record.
THEOREM DecisionsReachTheOther == QueueSpec => ResolutionSpreads
<1> DEFINE Spreads ==
       \A d \in Device : \A r \in records[d] : NewDecision(d, r) =>
         /\ \A e \in Device : /\ folder'[e][r.id.path] = folder[d][r.id.path]
                              /\ Resolved(records'[e], r.id)
         /\ r.copy # NoFile /\ folder[d][r.copy] = NoFile
              /\ folder[Peer(d)][r.copy] \in {base[r.copy], NoFile} =>
                \A e \in Device : folder'[e][r.copy] = NoFile
<1>1. QInv /\ [QueueNext]_allVars => [pending' # pending => Spreads]_allVars
  <2> SUFFICES ASSUME QInv, [QueueNext]_allVars, pending' # pending PROVE Spreads
    OBVIOUS
  <2> PICK c \in Device, s \in Session : FullRound(c, s) \/ BreaksOff(c, s)
    BY RoundOnly
  <2> PICK savers \in SUBSET Device : Transfers(c, s) /\ Exchange(c, s, savers)
    BY RoundExchanges
  <2> QED BY DecisionSpreads
<1> QED BY <1>1, QInvInit, QInvStep, PTL DEF QueueSpec, ResolutionSpreads

\* Files both users changed wait on both devices after a complete round, with
\* both versions where the record says.
THEOREM ConflictsWait == QueueSpec => ConflictsQueued
<1> DEFINE Queued ==
      \A d \in Device, p \in Path :
        LET theirs == folder[Peer(d)][p]
            mine == folder[d][p]
        IN theirs # mine /\ base[p] \notin {theirs, mine} =>
             \A s \in Session : FullRound(d, s) =>
               \A e \in Device : WaitsIn(records'[e], e, p, theirs, mine)
<1>1. ASSUME QInv, NEW d \in Device, NEW s \in Session, FullRound(d, s),
             NEW p \in Path, NEW e \in Device,
             folder[Peer(d)][p] # folder[d][p], base[p] \notin {folder[Peer(d)][p], folder[d][p]}
      PROVE  WaitsIn(records'[e], e, p, folder[Peer(d)][p], folder[d][p])
  <2>1. /\ Transfers(d, s) /\ IInv
        /\ \E rs : records'[e] = Saved(rs, d, s, e)
    BY <1>1, RoundExchanges DEF QInv, Exchange
  <2> QED BY <1>1, <2>1, ConflictSaved
<1>2. QInv => Queued
  BY <1>1
<1> QED BY <1>2, QInvInit, QInvStep, PTL DEF QueueSpec, ConflictsQueued, WaitsIn

\* After a complete round the devices have two records of one conflict in the
\* same state, unless these name different copies; then both were open before.
THEOREM ConsolesAgree == QueueSpec => StatusAgrees
<1> DEFINE Agree ==
      \A r \in records'[A], t \in records'[B] :
        r.id = t.id /\ r.status # t.status =>
          \/ r.copy # t.copy /\ Open(records[A], r.id) /\ Open(records[B], r.id)
          \/ \A d \in Device, s \in Session : ~FullRound(d, s)
<1>1. QInv => Agree
  <2> SUFFICES ASSUME QInv, NEW d \in Device, NEW s \in Session, FullRound(d, s),
                      NEW r \in records'[A], NEW t \in records'[B],
                      r.id = t.id, r.status # t.status
               PROVE  r.copy # t.copy /\ Open(records[A], r.id) /\ Open(records[B], r.id)
    OBVIOUS
  <2>1. /\ Transfers(d, s)
        /\ records' = [e \in Device |->
                         Saved(IF e = d THEN ClientMarks(d) ELSE ServerMarks(d), d, s, e)]
    BY RoundExchanges DEF Exchange
  <2>2. /\ records'[d] = Saved(ClientMarks(d), d, s, d)
        /\ records'[Peer(d)] = Saved(ServerMarks(d), d, s, Peer(d))
    BY <2>1, PeerOfDevice
  <2>3. (d = A /\ Peer(d) = B) \/ (d = B /\ Peer(d) = A)
    BY DevicePair
  <2>4. \A u \in records'[d], v \in records'[Peer(d)] :
          u.id = v.id /\ u.status # v.status =>
            u.copy # v.copy /\ Open(records[d], u.id) /\ Open(records[Peer(d)], u.id)
    BY <2>1, <2>2, SavedAgree
  <2> QED BY <2>3, <2>4
<1> QED BY <1>1, QInvInit, QInvStep, PTL DEF QueueSpec, StatusAgrees
=============================================================================
