------------------------- MODULE ConflictResolution -------------------------
(***************************************************************************)
(* Conflicts from the round that finds them to the round that spreads what *)
(* a user made of them.  The rounds of AtomicRounds also exchange and save *)
(* conflict records, and may break off once the files are in place         *)
(* (Interrupts); between any two steps of them runs                        *)
(* Service.ResolveConflict, which takes no lock of the space.              *)
(*                                                                         *)
(* A round is one step here: what happens when users write files in the    *)
(* middle of one is SyncSession's subject.                                 *)
(***************************************************************************)
EXTENDS AtomicRounds, ConflictRecords, FiniteSets

CONSTANTS MaxRequests,  \* bound: calls of ResolveConflict at a time
          Interrupts    \* whether a round may break off after the transfers

ASSUME ResolutionAssumption == MaxRequests \in Nat /\ Interrupts \in BOOLEAN

VARIABLES
  records,   \* [Device -> SUBSET ConflictRecord]: the stored conflict records
  requests,  \* calls of ResolveConflict in progress
  changed    \* [Device -> SUBSET Path]: what was written on a device since the
             \* last round, whatever became of that round (history variable)

queue == <<records, requests, changed>>
allVars == <<folder, base, edits, pending, records, requests, changed>>

Request == [pc : {"write", "copy", "save"}, at : Device, record : ConflictRecord,
            value : File]

QueueTypeOK ==
  /\ TypeOK
  /\ records \in [Device -> SUBSET ConflictRecord]
  /\ requests \subseteq Request
  /\ changed \in [Device -> SUBSET Path]

QueueInit ==
  /\ Init
  /\ records = [d \in Device |-> {}]
  /\ requests = {}
  /\ changed = [d \in Device |-> {}]

-----------------------------------------------------------------------------
(* Users                                                                   *)

Changes(d, p) == changed' = [changed EXCEPT ![d] = @ \cup {p}]

\* Bound: what users start after the last session is not followed.
More == pending # {}

UserEdit(d, p, v) ==
  /\ More
  /\ Edit(d, p, v)
  /\ Changes(d, p)
  /\ UNCHANGED <<records, requests>>

\* ResolveConflict up to the check of the status.  The value is what the
\* choice leaves at the path: nothing, one of the two versions, a merged text.
\* Bound: a call counts as an edit.
Ask(d, r, v) ==
  /\ More
  /\ Cardinality(requests) < MaxRequests
  /\ edits < MaxEdits
  /\ edits' = edits + 1
  /\ r.status = "pending"
  /\ requests' = requests \cup {[pc |-> "write", at |-> d, record |-> r, value |-> v]}
  /\ UNCHANGED <<folder, base, pending, records, changed>>

Proceeds(q, pc) == requests' = (requests \ {q}) \cup {[q EXCEPT !.pc = pc]}

\* WriteResolvedFile or DeleteFile at the path of the conflict.
WriteChoice(q) ==
  /\ q.pc = "write"
  /\ folder' = [folder EXCEPT ![q.at][q.record.id.path] = q.value]
  /\ Changes(q.at, q.record.id.path)
  /\ Proceeds(q, IF q.record.copy = NoFile THEN "save" ELSE "copy")
  /\ UNCHANGED <<base, edits, pending, records>>

\* DeleteFile of the conflict copy; its error is dropped.
DeleteCopy(q) ==
  /\ q.pc = "copy"
  /\ \/ /\ folder' = [folder EXCEPT ![q.at][q.record.copy] = NoFile]
        /\ Changes(q.at, q.record.copy)
     \/ UNCHANGED <<folder, changed>>
  /\ Proceeds(q, "save")
  /\ UNCHANGED <<base, edits, pending, records>>

\* The record as it was read is saved over the one that is there now.
SaveResolved(q) ==
  /\ q.pc = "save"
  /\ records' = [records EXCEPT ![q.at] =
                   {r \in @ : r.id # q.record.id}
                     \cup {[q.record EXCEPT !.status = "resolved"]}]
  /\ requests' = requests \ {q}
  /\ UNCHANGED <<vars, changed>>

\* An error before the record is saved, or the process stops.
Abandon(q) == requests' = requests \ {q} /\ UNCHANGED <<vars, records, changed>>

-----------------------------------------------------------------------------
(* Rounds                                                                  *)

\* Mutants: one of the two devices sends its ids and does not read the other's.
ServerIgnores(d) == records[Peer(d)]
ClientIgnores(d) == records[d]

\* What the server d dials marks before it plans, from the client's ids, and
\* what the client marks when it reads the plan, from the server's.
ServerMarks(d) == MarkResolved(records[Peer(d)], ResolvedIds(records[d]))
ClientMarks(d) == MarkResolved(records[d], ResolvedIds(ServerMarks(d)))

\* Mutant: copies are looked for in the first scan.
SavedEarly(old, d, s, e) == AutoResolve(SavePlanConflicts(old, PlanOf(d, s).conflicts), folder[e])

\* After its final scan a device saves what the plan found, and closes the
\* records whose copy is gone.
Saved(old, d, s, e) == AutoResolve(SavePlanConflicts(old, PlanOf(d, s).conflicts), folder'[e])

Exchange(d, s, savers) ==
  /\ records' = [e \in Device |->
                   LET marked == IF e = d THEN ClientMarks(d) ELSE ServerMarks(d)
                   IN IF e \in savers THEN Saved(marked, d, s, e) ELSE marked]
  /\ changed' = [e \in Device |-> {}]
  /\ UNCHANGED requests

FullRound(d, s) == Round(d, s) /\ Exchange(d, s, Device)

\* A connection lost, or a baseline that cannot be written, with all files in
\* place: nobody has saved records yet, or the client, which is first, or both.
\* That only one device stores the new baseline is SyncSession's lost_result.
BreaksOff(d, s) ==
  /\ Interrupts
  /\ Transfers(d, s)
  /\ UNCHANGED base
  /\ \E savers \in {{}, {d}, Device} : Exchange(d, s, savers)

-----------------------------------------------------------------------------

QueueNext ==
  \/ \E d \in Device, p \in Path, v \in File : UserEdit(d, p, v)
  \/ \E d \in Device : \E r \in records[d], v \in File : Ask(d, r, v)
  \/ \E q \in requests : \/ WriteChoice(q) \/ DeleteCopy(q)
                         \/ SaveResolved(q) \/ Abandon(q)
  \/ \E d \in Device, s \in Session : FullRound(d, s) \/ BreaksOff(d, s)

QueueSpec == QueueInit /\ [][QueueNext]_allVars

-----------------------------------------------------------------------------
(* Properties                                                              *)

Resolved(rs, id) == \E r \in rs : r.id = id /\ r.status = "resolved"
Open(rs, id) == \E r \in rs : r.id = id /\ r.status = "pending"

\* What d's user decided about a conflict that is still open on the other
\* device, where the file is the one of the last committed round.
NewDecision(d, r) ==
  /\ r \in records[d] /\ r.status = "resolved"
  /\ Open(records[Peer(d)], r.id)
  /\ folder[Peer(d)][r.id.path] = base[r.id.path]

\* docs/architecture.md, "conflict objects and resolution": the next round
\* takes the decision to the other device: the file as it is now, the removal
\* of the copy, and the closed record; also a round that breaks off.
ResolutionSpreads ==
  [][pending' # pending =>
       \A d \in Device : \A r \in records[d] : NewDecision(d, r) =>
         /\ \A e \in Device : /\ folder'[e][r.id.path] = folder[d][r.id.path]
                              /\ Resolved(records'[e], r.id)
         /\ r.copy # NoFile /\ folder[d][r.copy] = NoFile
              /\ folder[Peer(d)][r.copy] \in {base[r.copy], NoFile} =>
                \A e \in Device : folder'[e][r.copy] = NoFile]_allVars

\* README: files both users changed are kept in two versions and wait in the
\* console.  After a round each such path has an open record on both devices,
\* whatever they had recorded before, and both versions are where it says.
ConflictsQueued ==
  [][\A d \in Device, p \in Path :
       LET theirs == folder[Peer(d)][p]
           mine == folder[d][p]
       IN theirs # mine /\ base[p] \notin {theirs, mine} =>
            \A s \in Session : FullRound(d, s) =>
              \A e \in Device : \E r \in records'[e] :
                /\ r.id = [path |-> p, base |-> base[p], server |-> theirs, client |-> mine]
                /\ r.status = "pending"
                /\ {folder'[e][p]} \cup (IF r.copy = NoFile THEN {} ELSE {folder'[e][r.copy]})
                     = {theirs, mine} \ {NoFile}]_allVars

\* After a round two records of one conflict have the same state, whoever
\* resolved it and whatever earlier rounds left unsaved.  The one exception:
\* two rounds that broke off have left the two devices open records that name
\* different copies, and the user has removed one of the copies, which
\* autoResolveConflicts looks for by that name (conflicts.go:71).  Both records
\* were open before such a round, so a disagreement never outlives the next one.
StatusAgrees ==
  [][\A r \in records'[A], t \in records'[B] :
       r.id = t.id /\ r.status # t.status =>
         \/ r.copy # t.copy /\ Open(records[A], r.id) /\ Open(records[B], r.id)
         \/ \A d \in Device, s \in Session : ~FullRound(d, s)]_allVars

-----------------------------------------------------------------------------
(* What the documents say, and the code does not do                        *)

\* docs/architecture.md:83: a resolution changes files that are then synced
\* as the change of one side.  The file of a decision is not taken back by a
\* round if the other side has not changed it since the last one.
DecisionStands ==
  [][\A d \in Device, s \in Session : FullRound(d, s) =>
       \A e \in Device : \A r \in records[e] :
         /\ r.status = "resolved"
         /\ Open(records[Peer(e)], r.id)
         /\ r.id.path \notin changed[Peer(e)]
         => folder'[e][r.id.path] = folder[e][r.id.path]]_allVars
=============================================================================
