---------------------------- MODULE AtomicRounds ----------------------------
(***************************************************************************)
(* What a sync round promises, as one step: two devices, one sync space,   *)
(* no failure and no edit inside a round.  Users change files between      *)
(* rounds; a round plans with BuildPlan and carries the whole plan out.    *)
(* SyncSession.tla takes the round apart.                                  *)
(***************************************************************************)
EXTENDS ThreeWayPlan, Naturals

CONSTANTS A, B,        \* the two paired devices
          Name,        \* the paths users write to; copies they only delete
          MaxEdits     \* bound: what the users change

\* A user file does not have a conflict copy's name, and two conflicts do not
\* share one: the name holds the path, the time and the client.
ASSUME NamesAssumption ==
  /\ A # B
  /\ Name \subseteq Path
  /\ Session \subseteq Nat
  /\ MaxEdits \in Nat
  /\ \A p \in Name, s \in Session : ConflictName(p, s) \notin Name
  /\ \A p, q \in Name, s, t \in Session :
       ConflictName(p, s) = ConflictName(q, t) => p = q /\ s = t

Device == {A, B}
Peer(d) == IF d = A THEN B ELSE A

VARIABLES
  folder,   \* [Device -> Folder]: the sync directory of each device
  base,     \* the common baseline both devices store
  edits,    \* changes by the users so far
  pending   \* sessions that have not run yet

vars == <<folder, base, edits, pending>>

TypeOK ==
  /\ folder \in [Device -> Folder]
  /\ base \in Folder
  /\ edits \in 0..MaxEdits
  /\ pending \subseteq Session

Init ==
  /\ folder = [d \in Device |-> EmptyFolder]
  /\ base = EmptyFolder
  /\ edits = 0
  /\ pending = Session

\* The user of d writes, changes or deletes a file.
Edit(d, p, v) ==
  /\ edits < MaxEdits
  /\ p \in Name \/ v = NoFile
  /\ folder[d][p] # v
  /\ folder' = [folder EXCEPT ![d][p] = v]
  /\ edits' = edits + 1
  /\ UNCHANGED <<base, pending>>

PlanOf(d, s) == BuildPlan(folder[Peer(d)], folder[d], base, s)

\* Device d dials the other one, and both carry the plan out.  Sessions are
\* numbered in the order they run.
Transfers(d, s) ==
  LET plan == PlanOf(d, s) IN
  /\ s \in pending /\ \A t \in pending : s <= t
  /\ pending' = pending \ {s}
  /\ folder' = [e \in Device |->
                  IF e = Peer(d)
                  THEN Installed(folder[e], plan.clientSends, plan.serverDeletes)
                  ELSE Installed(folder[d], plan.serverSends, plan.clientDeletes)]
  /\ UNCHANGED edits

\* A round that runs to its end.
Round(d, s) == Transfers(d, s) /\ base' = folder'[Peer(d)]

Next ==
  \/ \E d \in Device, p \in Path, v \in File : Edit(d, p, v)
  \/ \E d \in Device, s \in Session : Round(d, s)

Spec == Init /\ [][Next]_vars

-----------------------------------------------------------------------------
(* Properties                                                              *)

\* After a round both folders are the same, so the manifests the two devices
\* compare before they save the baseline agree (tcp.go, manifestsEqual): a
\* plan that left them apart could never be committed, on any retry.
RoundConverges ==
  [][pending' # pending => folder'[A] = folder'[B]]_vars

\* README "同步语义": a version that either user made since the last common
\* baseline is on both devices after the round, at its path or as a conflict
\* copy, whatever the other user did to that path.
VersionsSurvive ==
  [][pending' # pending =>
       \A d, e \in Device, p \in Path :
         folder[d][p] \notin {NoFile, base[p]} => \E q \in Path : folder'[e][q] = folder[d][p]]_vars

\* docs/architecture.md's table: what each path holds after a round, written
\* from the table's rows and not from the switch.
MergedBy(d, p) ==
  LET mine == folder[d][p]
      theirs == folder[Peer(d)][p]
  IN \/ mine = theirs /\ folder'[d][p] = mine
     \/ mine = base[p] /\ folder'[d][p] = theirs
     \/ theirs = base[p] /\ folder'[d][p] = mine
     \/ base[p] \notin {mine, theirs} /\ mine # theirs
          /\ folder'[d][p] \in {mine, theirs} \ {NoFile}

\* Every path that is not this round's conflict copy is merged by the table.
RoundFollowsTable ==
  [][pending' # pending =>
       \A s \in pending \ pending' : \A d \in Device, p \in Path :
         (\A q \in Path : p # ConflictName(q, s)) => MergedBy(d, p)]_vars
=============================================================================
