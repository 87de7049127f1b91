-------------------------- MODULE ConflictRecords --------------------------
(***************************************************************************)
(* The conflict records of one device (store.SaveConflict) and what a sync *)
(* round does to them (internal/service/conflicts.go).  A record's file is *)
(* named after its id, so a device has one record per id.                  *)
(***************************************************************************)
EXTENDS ThreeWayPlan

\* The id is a hash of the path and the three versions, the same on both
\* devices; the copy's name is not part of it.
ConflictId == [path : Path, base : File, server : File, client : File]
ConflictRecord == [id : ConflictId, copy : Path \cup {NoFile},
                   status : {"pending", "resolved"}]

IdOf(c) == [path |-> c.path, base |-> c.base, server |-> c.server, client |-> c.client]

\* markConflictsResolved, with the ids the other device sent.
MarkResolved(records, ids) ==
  {IF r.id \in ids THEN [r EXCEPT !.status = "resolved"] ELSE r : r \in records}
ResolvedIds(records) == {r.id : r \in {q \in records : q.status = "resolved"}}

\* savePlanConflicts: a record per conflict of the plan, written over the one
\* of the same id.
SavePlanConflicts(records, found) ==
  {r \in records : \A c \in found : r.id # IdOf(c)}
    \cup {[id |-> IdOf(c), copy |-> c.copy, status |-> "pending"] : c \in found}

\* autoResolveConflicts: a pending record whose copy is gone is resolved.
AutoResolve(records, folder) ==
  {IF r.status = "pending" /\ r.copy # NoFile /\ folder[r.copy] = NoFile
   THEN [r EXCEPT !.status = "resolved"] ELSE r : r \in records}
=============================================================================
