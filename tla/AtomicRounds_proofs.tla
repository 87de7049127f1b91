------------------------ MODULE AtomicRounds_proofs ------------------------
(***************************************************************************)
(* AtomicRounds for any paths, contents, sessions and number of edits.     *)
(***************************************************************************)
EXTENDS AtomicRounds, ThreeWayPlan_proofs

\* Users never write a conflict copy, so the devices and the baseline know one
\* file at its path, as far as they know any.
CopiesAreOne ==
  \A q \in Path \ Name, d, e \in Device :
    /\ folder[d][q] = folder[e][q] \/ NoFile \in {folder[d][q], folder[e][q]}
    /\ folder[d][q] = base[q] \/ NoFile \in {folder[d][q], base[q]}

\* A session that has not planned yet has left no copy anywhere.
PendingFresh ==
  \A s \in pending, p \in Name, d \in Device :
    /\ folder[d][ConflictName(p, s)] = NoFile
    /\ base[ConflictName(p, s)] = NoFile

IInv == TypeOK /\ CopiesAreOne /\ PendingFresh

LEMMA PeerOfDevice ==
  ASSUME NEW d \in Device
  PROVE  Peer(d) \in Device /\ Peer(d) # d /\ Device = {d, Peer(d)}
  BY NamesAssumption DEF Device, Peer

\* The copies of a round between two folders that satisfy the invariant get
\* names nobody uses.
LEMMA RoundNamesFresh ==
  ASSUME IInv, NEW d \in Device, NEW s \in pending
  PROVE  /\ FreshCopies(folder[Peer(d)], folder[d], base, s)
         /\ At(folder[Peer(d)], folder[d], base, {"bothModified"}) \subseteq Name
<1> DEFINE srv == folder[Peer(d)]
           cli == folder[d]
           both == At(srv, cli, base, {"bothModified"})
<1>1. /\ s \in Session
      /\ \A p \in Path : srv[p] \in File /\ cli[p] \in File /\ base[p] \in File
  BY PeerOfDevice DEF IInv, TypeOK, Folder
<1>2. \A p \in both : /\ p \in Path
                      /\ srv[p] # cli[p] /\ base[p] \notin {srv[p], cli[p]}
                      /\ srv[p] # NoFile /\ cli[p] # NoFile
  <2> SUFFICES ASSUME NEW p \in both
               PROVE  /\ p \in Path
                      /\ srv[p] # cli[p] /\ base[p] \notin {srv[p], cli[p]}
                      /\ srv[p] # NoFile /\ cli[p] # NoFile
    OBVIOUS
  <2>1. p \in Path /\ Decision(srv[p], cli[p], base[p]) = "bothModified"
    BY DEF At
  <2> QED BY <1>1, <2>1, DecisionCases
<1>3. \A p \in Path \ Name : cli[p] = srv[p] \/ NoFile \in {cli[p], srv[p]}
  BY PeerOfDevice DEF IInv, CopiesAreOne
<1>4. both \subseteq Name
  BY <1>2, <1>3
<1>5. \A p \in both : srv[ConflictName(p, s)] = NoFile /\ cli[ConflictName(p, s)] = NoFile
  BY <1>4, PeerOfDevice DEF IInv, PendingFresh
<1>6. \A p, r \in both : ConflictName(r, s) = ConflictName(p, s) => r = p
  BY <1>1, <1>4, NamesAssumption
<1> QED BY <1>4, <1>5, <1>6 DEF FreshCopies

\* Both folders after a round, path by path.
LEMMA RoundMerges ==
  ASSUME IInv, NEW d \in Device, NEW s \in Session, Transfers(d, s)
  PROVE  /\ s \in pending
         /\ PlanOf(d, s) \in Plan
         /\ folder' \in [Device -> Folder]
         /\ \A e \in Device, q \in Path :
              folder'[e][q] = Merged(folder[Peer(d)], folder[d], base, s, q)
<1> DEFINE srv == Peer(d)
           plan == PlanOf(d, s)
<1>1. s \in pending /\ plan = BuildPlan(folder[srv], folder[d], base, s)
  BY DEF Transfers, PlanOf
<1>2. /\ folder[srv] \in Folder /\ folder[d] \in Folder /\ base \in Folder
      /\ FreshCopies(folder[srv], folder[d], base, s)
  BY <1>1, PeerOfDevice, RoundNamesFresh DEF IInv, TypeOK
<1>3. plan \in Plan
  BY <1>1, <1>2, BuildPlanType
<1>4. folder' = [e \in Device |->
                   IF e = srv THEN Installed(folder[e], plan.clientSends, plan.serverDeletes)
                   ELSE Installed(folder[d], plan.serverSends, plan.clientDeletes)]
  BY DEF Transfers
<1>5. \A e \in Device, q \in Path : folder'[e][q] = Merged(folder[srv], folder[d], base, s, q)
  BY <1>1, <1>2, <1>4, PlanMerges, PeerOfDevice
<1>6. folder' \in [Device -> Folder]
  <2>1. ASSUME NEW f \in Folder, NEW received \in SUBSET Transfer, NEW deleted
        PROVE  Installed(f, received, deleted) \in Folder
    <3> SUFFICES ASSUME NEW p \in Path
                 PROVE  (IF \E t \in received : t.dest = p
                         THEN (CHOOSE t \in received : t.dest = p).hash
                         ELSE IF p \in deleted THEN NoFile ELSE f[p]) \in File
      BY DEF Installed, Folder
    <3>1. CASE \E t \in received : t.dest = p
      <4>1. (CHOOSE t \in received : t.dest = p) \in Transfer
        BY <3>1
      <4> QED BY <3>1, <4>1 DEF Transfer, File
    <3>2. CASE ~ \E t \in received : t.dest = p
      BY <3>2 DEF Folder, File
    <3> QED BY <3>1, <3>2
  <2>2. plan.clientSends \in SUBSET Transfer /\ plan.serverSends \in SUBSET Transfer
    BY <1>3 DEF Plan
  <2> HIDE DEF plan, srv
  <2>3. /\ Installed(folder[srv], plan.clientSends, plan.serverDeletes) \in Folder
        /\ Installed(folder[d], plan.serverSends, plan.clientDeletes) \in Folder
    BY <1>2, <2>1, <2>2
  <2> QED BY <1>4, <2>3
<1> QED BY <1>1, <1>3, <1>5, <1>6

LEMMA IInvInit == Init => IInv
<1> SUFFICES ASSUME Init PROVE IInv
  OBVIOUS
<1>1. EmptyFolder \in Folder /\ \A p \in Path : EmptyFolder[p] = NoFile
  BY DEF EmptyFolder, Folder, File
<1>2. TypeOK
  BY <1>1, NamesAssumption DEF Init, TypeOK
<1>3. CopiesAreOne /\ PendingFresh
  BY <1>1, PlanAssumption, NamesAssumption DEF Init, CopiesAreOne, PendingFresh
<1> QED BY <1>2, <1>3 DEF IInv

\* A file written at a user's path, or a file removed, leaves copies alone.
LEMMA IInvWrite ==
  ASSUME IInv, NEW d \in Device, NEW p \in Path, NEW v \in File, p \in Name \/ v = NoFile,
         folder' = [folder EXCEPT ![d][p] = v], edits' \in 0..MaxEdits,
         UNCHANGED <<base, pending>>
  PROVE  IInv'
<1>1. TypeOK'
  BY DEF IInv, TypeOK, Folder
<1>2. \A e \in Device, q \in Path : folder'[e][q] = IF e = d /\ q = p THEN v ELSE folder[e][q]
  BY DEF IInv, TypeOK, Folder
<1>3. CopiesAreOne'
  <2> SUFFICES ASSUME NEW q \in Path \ Name, NEW e \in Device, NEW g \in Device
               PROVE  /\ folder'[e][q] = folder'[g][q] \/ NoFile \in {folder'[e][q], folder'[g][q]}
                      /\ folder'[e][q] = base[q] \/ NoFile \in {folder'[e][q], base[q]}
    BY DEF CopiesAreOne
  <2> QED BY <1>2 DEF IInv, CopiesAreOne
<1>4. PendingFresh'
  BY <1>2, NamesAssumption, PlanAssumption DEF IInv, TypeOK, PendingFresh
<1> QED BY <1>1, <1>3, <1>4 DEF IInv

\* The transfers of a round, whether the baseline is stored afterwards or not.
LEMMA IInvTransfers ==
  ASSUME IInv, NEW d \in Device, NEW s \in Session, Transfers(d, s),
         base' = base \/ base' = folder'[Peer(d)]
  PROVE  IInv'
<1> DEFINE srv == folder[Peer(d)]
           cli == folder[d]
           both == At(srv, cli, base, {"bothModified"})
<1>1. /\ s \in pending /\ pending' = pending \ {s} /\ edits' = edits
      /\ folder' \in [Device -> Folder]
      /\ \A e \in Device, q \in Path : folder'[e][q] = Merged(srv, cli, base, s, q)
  BY RoundMerges DEF Transfers
<1>2. TypeOK'
  BY <1>1, PeerOfDevice, NamesAssumption DEF IInv, TypeOK
<1>3. both \subseteq Name
  BY <1>1, RoundNamesFresh
<1>4. CopiesAreOne'
  <2> SUFFICES ASSUME NEW q \in Path \ Name
               PROVE  LET h == Merged(srv, cli, base, s, q)
                      IN h = base[q] \/ NoFile \in {h, base[q]}
    BY <1>1, PeerOfDevice DEF CopiesAreOne
  <2>1. CASE \E p \in both : q = ConflictName(p, s)
    BY <1>1, <1>3, <2>1, PeerOfDevice DEF IInv, PendingFresh
  <2>2. CASE ~ \E p \in both : q = ConflictName(p, s)
    <3>1. Merged(srv, cli, base, s, q) \in {srv[q], cli[q]}
      BY <2>2 DEF Merged
    <3> QED BY <3>1, PeerOfDevice DEF IInv, CopiesAreOne
  <2> QED BY <2>1, <2>2
<1>5. PendingFresh'
  <2> SUFFICES ASSUME NEW t \in pending', NEW p \in Name
               PROVE  Merged(srv, cli, base, s, ConflictName(p, t)) = NoFile
    BY <1>1, PeerOfDevice, PlanAssumption, NamesAssumption DEF PendingFresh, IInv, TypeOK
  <2> DEFINE q == ConflictName(p, t)
  <2>1. t \in pending /\ t # s /\ t \in Session
    BY <1>1 DEF IInv, TypeOK
  <2>2. ~ \E r \in both : q = ConflictName(r, s)
    BY <1>3, <2>1, NamesAssumption
  <2>3. srv[q] = NoFile /\ cli[q] = NoFile
    BY <2>1, PeerOfDevice DEF IInv, PendingFresh
  <2> QED BY <2>2, <2>3 DEF Merged
<1> QED BY <1>2, <1>4, <1>5 DEF IInv

LEMMA IInvStep == IInv /\ [Next]_vars => IInv'
<1> SUFFICES ASSUME IInv, [Next]_vars PROVE IInv'
  OBVIOUS
<1>1. ASSUME NEW d \in Device, NEW p \in Path, NEW v \in File, Edit(d, p, v)
      PROVE  IInv'
  <2>1. edits' \in 0..MaxEdits
    BY <1>1, NamesAssumption DEF IInv, TypeOK, Edit
  <2> QED BY <1>1, <2>1, IInvWrite DEF Edit
<1>2. ASSUME NEW d \in Device, NEW s \in Session, Round(d, s)
      PROVE  IInv'
  BY <1>2, IInvTransfers DEF Round
<1>3. CASE UNCHANGED vars
  BY <1>3 DEF vars, IInv, TypeOK, CopiesAreOne, PendingFresh
<1> QED BY <1>1, <1>2, <1>3 DEF Next

\* What a round does besides the bookkeeping, in the terms of the properties.
LEMMA RoundStep ==
  ASSUME IInv, [Next]_vars, pending' # pending
  PROVE  \E d \in Device, s \in Session : Transfers(d, s)
  BY DEF Next, Edit, Round, vars

-----------------------------------------------------------------------------
(* What the transfers of a round do to the folders                         *)

LEMMA TransfersConverge ==
  ASSUME IInv, NEW d \in Device, NEW s \in Session, Transfers(d, s)
  PROVE  folder'[A] = folder'[B]
<1>1. /\ folder' \in [Device -> Folder]
      /\ \A e \in Device, q \in Path :
           folder'[e][q] = Merged(folder[Peer(d)], folder[d], base, s, q)
  BY RoundMerges
<1>2. A \in Device /\ B \in Device
  BY DEF Device
<1>3. folder'[A] \in [Path -> File] /\ folder'[B] \in [Path -> File]
  BY <1>1, <1>2 DEF Folder
<1>4. \A q \in Path : folder'[A][q] = folder'[B][q]
  BY <1>1, <1>2
<1> QED BY <1>3, <1>4

LEMMA MergedOrdinary ==
  ASSUME IInv, NEW c \in Device, NEW s \in Session, Transfers(c, s), NEW p \in Path,
         ~ \E r \in At(folder[Peer(c)], folder[c], base, {"bothModified"}) : p = ConflictName(r, s)
  PROVE  /\ \A e \in Device :
              folder'[e][p] =
                IF Decision(folder[Peer(c)][p], folder[c][p], base[p])
                     \in {"clientSends", "deleteModify", "serverDeletes"}
                THEN folder[c][p] ELSE folder[Peer(c)][p]
         /\ folder[Peer(c)][p] \in File /\ folder[c][p] \in File /\ base[p] \in File
         /\ Decision(folder[Peer(c)][p], folder[c][p], base[p]) \in Kinds
<1>1. folder[Peer(c)][p] \in File /\ folder[c][p] \in File /\ base[p] \in File
  BY PeerOfDevice DEF IInv, TypeOK, Folder
<1>2. \A e \in Device : folder'[e][p] = Merged(folder[Peer(c)], folder[c], base, s, p)
  BY RoundMerges
<1> QED BY <1>1, <1>2, DecisionCases DEF Merged

LEMMA TransfersKeepVersions ==
  ASSUME IInv, NEW c \in Device, NEW s \in Session, Transfers(c, s),
         NEW d \in Device, NEW e \in Device, NEW p \in Path,
         folder[d][p] \notin {NoFile, base[p]}
  PROVE  \E q \in Path : folder'[e][q] = folder[d][p]
<1> DEFINE srv == folder[Peer(c)]
           cli == folder[c]
           both == At(srv, cli, base, {"bothModified"})
           K == Decision(srv[p], cli[p], base[p])
<1>1. /\ s \in pending
      /\ \A q \in Path : folder'[e][q] = Merged(srv, cli, base, s, q)
  BY RoundMerges
<1>2. FreshCopies(srv, cli, base, s) /\ both \subseteq Path
  BY <1>1, RoundNamesFresh DEF At
<1>3. d = c \/ d = Peer(c)
  BY PeerOfDevice
<1>4. ~ \E r \in both : p = ConflictName(r, s)
  BY <1>2, <1>3 DEF FreshCopies
<1>5. /\ folder'[e][p] = IF K \in {"clientSends", "deleteModify", "serverDeletes"}
                         THEN cli[p] ELSE srv[p]
      /\ srv[p] \in File /\ cli[p] \in File /\ base[p] \in File
  BY <1>4, MergedOrdinary
<1>6. CASE K = "bothModified" /\ d = c
  <2> DEFINE q == ConflictName(p, s)
  <2>1. p \in both /\ q \in Path
    BY <1>6, PlanAssumption DEF At
  <2>2. \A r \in both : ConflictName(r, s) = q => r = p
    BY <2>1, <1>2 DEF FreshCopies
  <2>3. Merged(srv, cli, base, s, q) = cli[p]
    BY <2>1, <2>2 DEF Merged
  <2> QED BY <1>1, <1>6, <2>1, <2>3
<1>7. CASE K = "bothModified" /\ d # c
  BY <1>3, <1>5, <1>7
<1>8. CASE K # "bothModified"
  BY <1>3, <1>5, <1>8, DecisionCases DEF Kinds
<1> QED BY <1>6, <1>7, <1>8

LEMMA TransfersFollowTable ==
  ASSUME IInv, NEW c \in Device, NEW s \in Session, Transfers(c, s),
         NEW d \in Device, NEW p \in Path, \A q \in Path : p # ConflictName(q, s)
  PROVE  MergedBy(d, p)
<1> DEFINE srv == folder[Peer(c)][p]
           cli == folder[c][p]
           K == Decision(srv, cli, base[p])
<1>1. ~ \E r \in At(folder[Peer(c)], folder[c], base, {"bothModified"}) : p = ConflictName(r, s)
  BY DEF At
<1>2. /\ folder'[d][p] = IF K \in {"clientSends", "deleteModify", "serverDeletes"}
                         THEN cli ELSE srv
      /\ srv \in File /\ cli \in File /\ base[p] \in File
  BY <1>1, MergedOrdinary
<1>3. \/ folder[d][p] = cli /\ folder[Peer(d)][p] = srv
      \/ folder[d][p] = srv /\ folder[Peer(d)][p] = cli
  BY NamesAssumption DEF Device, Peer
<1>4. \/ cli = srv /\ folder'[d][p] = cli
      \/ cli = base[p] /\ folder'[d][p] = srv
      \/ srv = base[p] /\ folder'[d][p] = cli
      \/ base[p] \notin {cli, srv} /\ cli # srv /\ folder'[d][p] \in {cli, srv} \ {NoFile}
  BY <1>2, DecisionCases DEF Kinds
<1> QED BY <1>3, <1>4 DEF MergedBy

-----------------------------------------------------------------------------

\* The folders, the stored baseline and the sessions always have their types.
THEOREM TypeCorrect == Spec => []TypeOK
<1>1. IInv => TypeOK
  BY DEF IInv
<1> QED BY <1>1, IInvInit, IInvStep, PTL DEF Spec

\* After every round the two folders are equal: the final manifests always
\* pass the comparison that precedes saving the baseline.
THEOREM Converges == Spec => RoundConverges
<1>1. IInv /\ [Next]_vars => [pending' # pending => folder'[A] = folder'[B]]_vars
  BY RoundStep, TransfersConverge
<1> QED BY <1>1, IInvInit, IInvStep, PTL DEF Spec, RoundConverges

\* No version a user made since the last baseline is missing from either
\* device after a round: it is at its path or in a conflict copy.
THEOREM NothingLost == Spec => VersionsSurvive
<1> DEFINE Survive ==
      \A d, e \in Device, p \in Path :
        folder[d][p] \notin {NoFile, base[p]} => \E q \in Path : folder'[e][q] = folder[d][p]
<1>1. IInv /\ [Next]_vars => [pending' # pending => Survive]_vars
  BY RoundStep, TransfersKeepVersions
<1> QED BY <1>1, IInvInit, IInvStep, PTL DEF Spec, VersionsSurvive

\* Every path that is not a conflict copy of the round holds what its row of
\* the table says: nothing is overwritten, deleted or restored out of turn.
THEOREM TableHolds == Spec => RoundFollowsTable
<1> DEFINE Table ==
      \A s \in pending \ pending' : \A d \in Device, p \in Path :
        (\A q \in Path : p # ConflictName(q, s)) => MergedBy(d, p)
<1>1. IInv /\ [Next]_vars => [pending' # pending => Table]_vars
  <2> SUFFICES ASSUME IInv, [Next]_vars, pending' # pending PROVE Table
    OBVIOUS
  <2> PICK c \in Device, s \in Session : Transfers(c, s)
    BY RoundStep
  <2>1. \A t \in pending \ pending' : t = s
    BY DEF Transfers
  <2> QED BY <2>1, TransfersFollowTable
<1> QED BY <1>1, IInvInit, IInvStep, PTL DEF Spec, RoundFollowsTable
=============================================================================
