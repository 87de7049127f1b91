---------------------------- MODULE ThreeWayPlan ----------------------------
(***************************************************************************)
(* The planner of a sync round: syncer.BuildPlan and its helpers           *)
(* (internal/syncer/planner.go).  A folder maps each relative path to the  *)
(* SHA-256 of the file there, or to NoFile.  Sizes, modes and times travel *)
(* with the hash and are not modelled apart from it.                       *)
(*                                                                         *)
(* The planner compares the manifest of the server (the device that        *)
(* accepted the connection), the manifest of the client (the one that      *)
(* dialled) and the server's stored baseline, path by path.                *)
(***************************************************************************)

CONSTANTS
  Path,                \* relative paths, conflict copies included
  Hash,                \* contents
  NoFile,              \* no file at a path, no baseline for it
  Session,             \* sync sessions; each plans at most once
  ConflictName(_, _)   \* the copy's path for a conflict at a path in a session

\* conflictName joins the path, the client's name, the planning time and the
\* client's hash.  Within a session all but the path and its hash are fixed,
\* and the hash is the one at that path, so path and session determine it.
ASSUME PlanAssumption ==
  /\ NoFile \notin Hash
  /\ NoFile \notin Path
  /\ \A p \in Path, s \in Session : ConflictName(p, s) \in Path

File == Hash \cup {NoFile}
Folder == [Path -> File]
Transfer == [source : Path, dest : Path, hash : Hash]
Conflict == [path : Path, base : File, server : File, client : File,
             copy : Path \cup {NoFile}]
Plan == [serverSends : SUBSET Transfer, clientSends : SUBSET Transfer,
         serverDeletes : SUBSET Path, clientDeletes : SUBSET Path,
         conflicts : SUBSET Conflict]
EmptyFolder == [p \in Path |-> NoFile]
EmptyPlan == [serverSends |-> {}, clientSends |-> {}, serverDeletes |-> {},
              clientDeletes |-> {}, conflicts |-> {}]

-----------------------------------------------------------------------------
(* What is to happen at one path, from its hash on the server (s), on the  *)
(* client (c) and in the baseline (b).                                     *)

\* Mutant: a deletion is not a change.
ChangedUnlessDeleted(current, baseline) == current \notin {baseline, NoFile}

Changed(current, baseline) == current # baseline

\* The switch of BuildPlan, in its order.
Decision(s, c, b) ==
  LET serverChanged == Changed(s, b)
      clientChanged == Changed(c, b)
      hasServer == s # NoFile
      hasClient == c # NoFile
      hadBase == b # NoFile
  IN IF hasServer /\ hasClient /\ s = c THEN "none"
     ELSE IF ~hadBase /\ hasServer /\ ~hasClient THEN "serverSends"
     ELSE IF ~hadBase /\ ~hasServer /\ hasClient THEN "clientSends"
     ELSE IF serverChanged /\ ~clientChanged
          THEN IF hasServer THEN "serverSends" ELSE "clientDeletes"
     ELSE IF ~serverChanged /\ clientChanged
          THEN IF hasClient THEN "clientSends" ELSE "serverDeletes"
     ELSE IF ~hasServer /\ ~hasClient THEN "none"
     ELSE IF ~hasServer THEN "deleteModify"
     ELSE IF ~hasClient THEN "modifyDelete"
     ELSE "bothModified"

-----------------------------------------------------------------------------
(* The plan of a whole round.                                              *)

Send(source, dest, hash) == [source |-> source, dest |-> dest, hash |-> hash]
AsIs(folder, paths) == {Send(p, p, folder[p]) : p \in paths}

\* Mutant: a transfer that addConflict forgot to append.
NoTransfer(client, both, s) == {}

\* addConflict: the client's version goes up under the copy's name, and comes
\* back down to the client under the same name.
CopiesUp(client, both, s) == {Send(p, ConflictName(p, s), client[p]) : p \in both}
CopiesBack(client, both, s) ==
  {Send(ConflictName(p, s), ConflictName(p, s), client[p]) : p \in both}

\* BuildPlan with addConflict: a conflict of two existing versions keeps the
\* server's at the path and the client's at a copy, on both devices; a file
\* deleted on one side and modified on the other is restored.
BuildPlan(server, client, baseline, s) ==
  LET At(kinds) == {p \in Path : Decision(server[p], client[p], baseline[p]) \in kinds}
      both == At({"bothModified"})
      Detail(p) == [path |-> p, base |-> baseline[p], server |-> server[p],
                    client |-> client[p],
                    copy |-> IF p \in both THEN ConflictName(p, s) ELSE NoFile]
  IN [serverSends |-> AsIs(server, At({"serverSends", "modifyDelete"}) \cup both)
                        \cup CopiesBack(client, both, s),
      clientSends |-> AsIs(client, At({"clientSends", "deleteModify"}))
                        \cup CopiesUp(client, both, s),
      serverDeletes |-> At({"serverDeletes"}),
      clientDeletes |-> At({"clientDeletes"}),
      conflicts |-> {Detail(p) : p \in At({"deleteModify", "modifyDelete"}) \cup both}]

\* Mutant: a deleted path disappears from the domain.
InstalledShort(folder, received, deleted) ==
  [p \in Path \ deleted |->
     IF \E t \in received : t.dest = p
     THEN (CHOOSE t \in received : t.dest = p).hash ELSE folder[p]]

\* A folder once every transfer and delete planned for its device is done.
Installed(folder, received, deleted) ==
  [p \in Path |->
     IF \E t \in received : t.dest = p
     THEN (CHOOSE t \in received : t.dest = p).hash
     ELSE IF p \in deleted THEN NoFile ELSE folder[p]]
=============================================================================
