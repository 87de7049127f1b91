------------------------- MODULE SyncSession_proofs -------------------------
(***************************************************************************)
(* SyncSession for any paths, contents, sessions, connection capacity,     *)
(* edits and faults.                                                       *)
(***************************************************************************)
EXTENDS SyncSession, ThreeWayPlan_proofs

USE DEF Scan

LEMMA PeerOfDevice ==
  ASSUME NEW d \in Device
  PROVE  Peer(d) \in Device /\ Peer(d) # d /\ Device = {d, Peer(d)}
  BY SessionAssumption DEF Device, Peer

LEMMA EmptyTypes ==
  /\ EmptyFolder \in Folder
  /\ EmptyPlan \in Plan
  /\ NoOp \in FileOp
  BY DEF EmptyFolder, Folder, File, EmptyPlan, Plan, NoOp, FileOp

\* The frame at the head of a queue, by its type.
LEMMA FrameKinds ==
  ASSUME NEW f \in Frame
  PROVE  /\ f.type = "sync_request" => f.manifest \in Folder /\ f.resolved \in SUBSET ConflictId
         /\ f.type = "plan" => f.plan \in Plan /\ f.resolved \in SUBSET ConflictId
         /\ f.type = "file" => f.transfer \in Transfer /\ f.data \in Hash
         /\ f.type = "ack" => f.manifest \in Folder
  BY DEF Frame, Marker, SyncRequest, PlanMessage, FileFrame, Ack

LEMMA HeadOfQueue ==
  ASSUME NEW queue \in Seq(Frame), NEW kind, Heads(queue, kind)
  PROVE  /\ Head(queue) \in Frame /\ Head(queue).type = kind
         /\ Tail(queue) \in Seq(Frame)
  BY DEF Heads

LEMMA QueueTypes ==
  ASSUME NEW i \in Session, NEW frame \in Frame,
         toServer \in [Session -> Seq(Frame)], toClient \in [Session -> Seq(Frame)]
  PROVE  /\ ToServer(i, frame) => toServer' \in [Session -> Seq(Frame)]
         /\ ToClient(i, frame) => toClient' \in [Session -> Seq(Frame)]
<1>1. ASSUME NEW queue \in Seq(Frame), NEW closed
      PROVE  Written(queue, closed, frame) \in Seq(Frame)
  <2>1. Append(queue, frame) \in Seq(Frame)
    OBVIOUS
  <2> QED BY <2>1, Zenon DEF Written
<1>2. toServer[i] \in Seq(Frame) /\ toClient[i] \in Seq(Frame)
  OBVIOUS
<1>3. ASSUME ToServer(i, frame) PROVE toServer' \in [Session -> Seq(Frame)]
  BY <1>1, <1>2, <1>3, Zenon DEF ToServer
<1>4. ASSUME ToClient(i, frame) PROVE toClient' \in [Session -> Seq(Frame)]
  BY <1>1, <1>2, <1>4, Zenon DEF ToClient
<1> QED BY <1>3, <1>4

LEMMA ReadTypes ==
  ASSUME NEW i \in Session, NEW kind,
         toServer \in [Session -> Seq(Frame)], toClient \in [Session -> Seq(Frame)]
  PROVE  /\ Heads(toServer[i], kind) /\ ReadByServer(i) => toServer' \in [Session -> Seq(Frame)]
         /\ Heads(toClient[i], kind) /\ ReadByClient(i) => toClient' \in [Session -> Seq(Frame)]
  BY HeadOfQueue, ZenonT(30) DEF ReadByServer, ReadByClient

LEMMA FrameTypes ==
  /\ \A m \in {"hello", "challenge", "uploads_done", "transfers_done", "result"} :
       [type |-> m] \in Frame
  /\ \A f \in Folder : [type |-> "ack", manifest |-> f] \in Frame
  /\ \A f \in Folder, ids \in SUBSET ConflictId :
       [type |-> "sync_request", manifest |-> f, resolved |-> ids] \in Frame
  /\ \A p \in Plan, ids \in SUBSET ConflictId :
       [type |-> "plan", plan |-> p, resolved |-> ids] \in Frame
  /\ \A t \in Transfer, h \in Hash : [type |-> "file", transfer |-> t, data |-> h] \in Frame
  BY DEF Frame, Marker, SyncRequest, PlanMessage, FileFrame, Ack

LEMMA StoreTypes ==
  ASSUME StateOK, NEW d \in Device
  PROVE  /\ \A f \in Folder : Cache(d, f) => objects' \in [Device -> SUBSET Hash]
         /\ \A p \in Path : Archive(d, p) => history' \in [Device -> SUBSET (Path \X Hash)]
         /\ \A s \in {"idle", "syncing", "synced", "error"} :
              SetStatus(d, s) => status' \in [Device -> {"idle", "syncing", "synced", "error"}]
         /\ TryLock(d) => locked' \in [Device -> BOOLEAN]
         /\ Unlock(d) => locked' \in [Device -> BOOLEAN]
<1>1. ASSUME NEW f \in Folder, Cache(d, f) PROVE objects' \in [Device -> SUBSET Hash]
  <2>1. {f[p] : p \in {q \in Path : f[q] # NoFile}} \in SUBSET Hash
    BY DEF Folder, File
  <2>2. objects[d] \cup {f[p] : p \in {q \in Path : f[q] # NoFile}} \in SUBSET Hash
    BY <2>1 DEF StateOK
  <2> QED BY <1>1, <2>2 DEF Cache, Contents, StateOK
<1>2. ASSUME NEW p \in Path, Archive(d, p)
      PROVE  history' \in [Device -> SUBSET (Path \X Hash)]
  <2>1. disk[d][p] \in File
    BY DEF StateOK, Folder
  <2>2. history[d] \cup {<<p, h>> : h \in {disk[d][p]} \ {NoFile}} \in SUBSET (Path \X Hash)
    BY <2>1 DEF StateOK, File
  <2> QED BY <1>2, <2>2 DEF Archive, StateOK
<1> QED BY <1>1, <1>2 DEF SetStatus, TryLock, Unlock, StateOK

LEMMA ContentTypes ==
  ASSUME NEW f \in Folder
  PROVE  Contents(f) \in SUBSET Hash
  BY DEF Contents, Folder, File

LEMMA RecordTypes ==
  ASSUME NEW records \in SUBSET ConflictRecord
  PROVE  /\ ResolvedIds(records) \in SUBSET ConflictId
         /\ \A ids : MarkResolved(records, ids) \in SUBSET ConflictRecord
         /\ \A f : AutoResolve(records, f) \in SUBSET ConflictRecord
         /\ \A found \in SUBSET Conflict : SavePlanConflicts(records, found) \in SUBSET ConflictRecord
<1>1. \A r \in records : [r EXCEPT !.status = "resolved"] \in ConflictRecord
  BY DEF ConflictRecord
<1>2. ResolvedIds(records) \in SUBSET ConflictId
  BY DEF ResolvedIds, ConflictRecord
<1>3. \A ids : MarkResolved(records, ids) \in SUBSET ConflictRecord
  BY <1>1 DEF MarkResolved
<1>4. \A f : AutoResolve(records, f) \in SUBSET ConflictRecord
  BY <1>1 DEF AutoResolve
<1>5. ASSUME NEW found \in SUBSET Conflict
      PROVE  SavePlanConflicts(records, found) \in SUBSET ConflictRecord
  <2>1. \A c \in found : IdOf(c) \in ConflictId /\ c.copy \in Path \cup {NoFile}
    BY DEF IdOf, Conflict, ConflictId
  <2> QED BY <2>1 DEF SavePlanConflicts, ConflictRecord
<1> QED BY <1>2, <1>3, <1>4, <1>5

\* What a side that fails has stored has the types of what it stores.
LEMMA PartTypes ==
  ASSUME StateOK, NEW d \in Device
  PROVE  /\ \A some \in SUBSET Contents(Scan(d)) :
              objects' = [objects EXCEPT ![d] = @ \cup some] => objects' \in [Device -> SUBSET Hash]
         /\ \A ids : conflicts' = [conflicts EXCEPT ![d] = MarkResolved(@, ids)]
                       => conflicts' \in [Device -> SUBSET ConflictRecord]
         /\ CacheFails(d) => objects' \in [Device -> SUBSET Hash] /\ conflicts' = conflicts
         /\ \A ids : MarkFails(d, ids) =>
              objects' = objects /\ conflicts' \in [Device -> SUBSET ConflictRecord]
         /\ \A found \in SUBSET Conflict : SaveFails(d, found) =>
              objects' \in [Device -> SUBSET Hash] /\ conflicts' \in [Device -> SUBSET ConflictRecord]
<1>1. disk[d] \in Folder /\ Scan(d) = disk[d] /\ conflicts[d] \in SUBSET ConflictRecord
  BY DEF StateOK, Scan
<1>2. ASSUME NEW some \in SUBSET Contents(Scan(d)), objects' = [objects EXCEPT ![d] = @ \cup some]
      PROVE  objects' \in [Device -> SUBSET Hash]
  <2>1. some \in SUBSET Hash
    BY <1>1, <1>2, ContentTypes
  <2> QED BY <1>2, <2>1 DEF StateOK
<1>3. ASSUME NEW rs \in SUBSET ConflictRecord, conflicts' = [conflicts EXCEPT ![d] = rs]
      PROVE  conflicts' \in [Device -> SUBSET ConflictRecord]
  BY <1>3 DEF StateOK
<1>4. \A ids : MarkResolved(conflicts[d], ids) \in SUBSET ConflictRecord
  BY <1>1, RecordTypes
<1>5. ASSUME NEW ids, conflicts' = [conflicts EXCEPT ![d] = MarkResolved(@, ids)]
      PROVE  conflicts' \in [Device -> SUBSET ConflictRecord]
  BY <1>3, <1>4, <1>5
<1>6. ASSUME NEW found \in SUBSET Conflict, SaveFails(d, found)
      PROVE  objects' \in [Device -> SUBSET Hash] /\ conflicts' \in [Device -> SUBSET ConflictRecord]
  <2> DEFINE saved == SavePlanConflicts(conflicts[d], found)
  <2>1. objects' \in [Device -> SUBSET Hash]
    BY <1>1, <1>6, StoreTypes DEF SaveFails
  <2>2. \A some \in SUBSET found : SavePlanConflicts(conflicts[d], some) \in SUBSET ConflictRecord
    BY <1>1, RecordTypes
  <2>3. saved \in SUBSET ConflictRecord
    BY <2>2
  <2>4. \A some \in SUBSET saved :
          (saved \ some) \cup AutoResolve(some, Scan(d)) \in SUBSET ConflictRecord
    <3> SUFFICES ASSUME NEW some \in SUBSET saved
                 PROVE  (saved \ some) \cup AutoResolve(some, Scan(d)) \in SUBSET ConflictRecord
      OBVIOUS
    <3> HIDE DEF saved
    <3>1. some \in SUBSET ConflictRecord
      BY <2>3
    <3>2. AutoResolve(some, Scan(d)) \in SUBSET ConflictRecord
      BY <3>1, RecordTypes
    <3> QED BY <2>3, <3>2
  <2>5. \/ \E some \in SUBSET found :
             conflicts' = [conflicts EXCEPT ![d] = SavePlanConflicts(conflicts[d], some)]
        \/ \E some \in SUBSET saved :
             conflicts' = [conflicts EXCEPT ![d] = (saved \ some) \cup AutoResolve(some, Scan(d))]
    BY <1>6 DEF SaveFails
  <2> HIDE DEF saved
  <2>6. conflicts' \in [Device -> SUBSET ConflictRecord]
    <3>1. CASE \E some \in SUBSET found :
                 conflicts' = [conflicts EXCEPT ![d] = SavePlanConflicts(conflicts[d], some)]
      BY <1>3, <2>2, <3>1
    <3>2. CASE \E some \in SUBSET saved :
                 conflicts' = [conflicts EXCEPT ![d] = (saved \ some) \cup AutoResolve(some, Scan(d))]
      <4> PICK some \in SUBSET saved :
            conflicts' = [conflicts EXCEPT ![d] = (saved \ some) \cup AutoResolve(some, Scan(d))]
        BY <3>2
      <4> DEFINE rs == (saved \ some) \cup AutoResolve(some, Scan(d))
      <4>1. rs \in SUBSET ConflictRecord /\ conflicts' = [conflicts EXCEPT ![d] = rs]
        BY <2>4
      <4> HIDE DEF rs
      <4> QED BY <1>3, <4>1
    <3> QED BY <2>5, <3>1, <3>2
  <2> QED BY <2>1, <2>6
<1>7. CacheFails(d) => objects' \in [Device -> SUBSET Hash] /\ conflicts' = conflicts
  BY <1>2 DEF CacheFails
<1>8. \A ids : MarkFails(d, ids) =>
        objects' = objects /\ conflicts' \in [Device -> SUBSET ConflictRecord]
  BY <1>5 DEF MarkFails
<1> QED BY <1>2, <1>5, <1>6, <1>7, <1>8

-----------------------------------------------------------------------------
(* Types                                                                   *)

LEMMA TypeInit == Init => StateOK
<1> SUFFICES ASSUME Init PROVE StateOK
  OBVIOUS
<1>1. A \in Device /\ NoOp \in FileOp /\ EmptyPlan \in Plan /\ EmptyFolder \in Folder
  BY EmptyTypes DEF Device
<1>2. baseline \in [Device -> Folder]
  BY DEF Init
<1>3. disk \in [Device -> Folder]
  BY DEF Init
<1>4. client \in [Session -> ClientState] /\ server \in [Session -> ServerState]
  BY <1>1 DEF Init, ClientState, ServerState, ClientPcs, ServerPcs
<1>5. seen \in [Session -> Seen]
  BY <1>1 DEF Init, Seen
<1>6. toServer \in [Session -> Seq(Frame)] /\ toClient \in [Session -> Seq(Frame)]
  BY DEF Init
<1> QED BY <1>2, <1>3, <1>4, <1>5, <1>6 DEF Init, StateOK

\* What the two sides' states are made of.
LEMMA SideTypes ==
  ASSUME StateOK, NEW i \in Session
  PROVE  /\ client[i].dev \in Device /\ ServerDev(i) \in Device
         /\ client[i].plan \in Plan /\ server[i].plan \in Plan
         /\ client[i].op \in FileOp /\ server[i].op \in FileOp
         /\ client[i].final \in Folder /\ server[i].final \in Folder
         /\ client[i].pc \in ClientPcs /\ server[i].pc \in ServerPcs
         /\ disk[client[i].dev] \in Folder /\ disk[ServerDev(i)] \in Folder
         /\ baseline[ServerDev(i)] \in Folder
         /\ conflicts[client[i].dev] \in SUBSET ConflictRecord
         /\ conflicts[ServerDev(i)] \in SUBSET ConflictRecord
         /\ toServer[i] \in Seq(Frame) /\ toClient[i] \in Seq(Frame)
         /\ seen[i] \in Seen
<1>1. client[i] \in ClientState /\ server[i] \in ServerState
  BY DEF StateOK
<1>2. client[i].dev \in Device
  BY <1>1 DEF ClientState
<1>3. ServerDev(i) \in Device
  BY <1>2, PeerOfDevice DEF ServerDev
<1> QED BY <1>1, <1>2, <1>3 DEF StateOK, ClientState, ServerState

\* The forms in which an action updates the state of its side.
LEMMA ClientUpdates ==
  ASSUME client \in [Session -> ClientState], NEW i \in Session
  PROVE  /\ \A pc \in ClientPcs : [client EXCEPT ![i].pc = pc] \in [Session -> ClientState]
         /\ \A pc \in ClientPcs, d \in Device :
              [client EXCEPT ![i].pc = pc, ![i].dev = d] \in [Session -> ClientState]
         /\ \A pc \in ClientPcs, plan \in Plan :
              [client EXCEPT ![i].pc = pc, ![i].plan = plan] \in [Session -> ClientState]
         /\ \A pc \in ClientPcs, plan \in Plan, final \in Folder :
              [client EXCEPT ![i].pc = pc, ![i].plan = plan, ![i].final = final]
                \in [Session -> ClientState]
         /\ \A pc \in ClientPcs, plan \in Plan, op \in FileOp :
              [client EXCEPT ![i].pc = pc, ![i].plan = plan, ![i].op = op]
                \in [Session -> ClientState]
         /\ \A op \in FileOp : [client EXCEPT ![i].op = op] \in [Session -> ClientState]
  BY DEF ClientState

LEMMA ServerUpdates ==
  ASSUME server \in [Session -> ServerState], NEW i \in Session
  PROVE  /\ \A pc \in ServerPcs : [server EXCEPT ![i].pc = pc] \in [Session -> ServerState]
         /\ \A pc \in ServerPcs, plan \in Plan :
              [server EXCEPT ![i].pc = pc, ![i].plan = plan] \in [Session -> ServerState]
         /\ \A pc \in ServerPcs, plan \in Plan, final \in Folder :
              [server EXCEPT ![i].pc = pc, ![i].plan = plan, ![i].final = final]
                \in [Session -> ServerState]
         /\ \A pc \in ServerPcs, plan \in Plan, op \in FileOp :
              [server EXCEPT ![i].pc = pc, ![i].plan = plan, ![i].op = op]
                \in [Session -> ServerState]
         /\ \A op \in FileOp : [server EXCEPT ![i].op = op] \in [Session -> ServerState]
  BY DEF ServerState

\* A plan gets smaller as it is carried out.
LEMMA SmallerPlan ==
  ASSUME NEW plan \in Plan, NEW x
  PROVE  /\ [plan EXCEPT !.clientSends = @ \ {x}] \in Plan
         /\ [plan EXCEPT !.serverSends = @ \ {x}] \in Plan
         /\ [plan EXCEPT !.clientDeletes = @ \ {x}] \in Plan
         /\ [plan EXCEPT !.serverDeletes = @ \ {x}] \in Plan
  BY DEF Plan

LEMMA ClientProgress ==
  ASSUME client \in [Session -> ClientState], NEW i \in Session, NEW x
  PROVE  /\ [client EXCEPT ![i].plan.clientSends = @ \ {x}] \in [Session -> ClientState]
         /\ \A op \in FileOp :
              /\ [client EXCEPT ![i].plan.clientDeletes = @ \ {x}, ![i].op = op]
                    \in [Session -> ClientState]
              /\ [client EXCEPT ![i].plan.serverSends = @ \ {x}, ![i].op = op]
                    \in [Session -> ClientState]
<1>1. client[i].plan \in Plan /\ client[i] \in ClientState
  BY DEF ClientState
<1>2. /\ [client[i].plan EXCEPT !.clientSends = @ \ {x}] \in Plan
      /\ [client[i].plan EXCEPT !.serverSends = @ \ {x}] \in Plan
      /\ [client[i].plan EXCEPT !.clientDeletes = @ \ {x}] \in Plan
  BY <1>1, SmallerPlan
<1>3. [client EXCEPT ![i].plan.clientSends = @ \ {x}] \in [Session -> ClientState]
  BY <1>1, <1>2 DEF ClientState
<1>4. ASSUME NEW op \in FileOp
      PROVE  [client EXCEPT ![i].plan.clientDeletes = @ \ {x}, ![i].op = op]
               \in [Session -> ClientState]
  BY <1>1, <1>2 DEF ClientState
<1>5. ASSUME NEW op \in FileOp
      PROVE  [client EXCEPT ![i].plan.serverSends = @ \ {x}, ![i].op = op]
               \in [Session -> ClientState]
  BY <1>1, <1>2 DEF ClientState
<1> QED BY <1>3, <1>4, <1>5

LEMMA ServerProgress ==
  ASSUME server \in [Session -> ServerState], NEW i \in Session, NEW x
  PROVE  /\ [server EXCEPT ![i].plan.serverSends = @ \ {x}] \in [Session -> ServerState]
         /\ \A op \in FileOp :
              /\ [server EXCEPT ![i].plan.serverDeletes = @ \ {x}, ![i].op = op]
                    \in [Session -> ServerState]
              /\ [server EXCEPT ![i].plan.clientSends = @ \ {x}, ![i].op = op]
                    \in [Session -> ServerState]
<1>1. server[i].plan \in Plan /\ server[i] \in ServerState
  BY DEF ServerState
<1>2. /\ [server[i].plan EXCEPT !.serverSends = @ \ {x}] \in Plan
      /\ [server[i].plan EXCEPT !.clientSends = @ \ {x}] \in Plan
      /\ [server[i].plan EXCEPT !.serverDeletes = @ \ {x}] \in Plan
  BY <1>1, SmallerPlan
<1>3. [server EXCEPT ![i].plan.serverSends = @ \ {x}] \in [Session -> ServerState]
  BY <1>1, <1>2 DEF ServerState
<1>4. ASSUME NEW op \in FileOp
      PROVE  [server EXCEPT ![i].plan.serverDeletes = @ \ {x}, ![i].op = op]
               \in [Session -> ServerState]
  BY <1>1, <1>2 DEF ServerState
<1>5. ASSUME NEW op \in FileOp
      PROVE  [server EXCEPT ![i].plan.clientSends = @ \ {x}, ![i].op = op]
               \in [Session -> ServerState]
  BY <1>1, <1>2 DEF ServerState
<1> QED BY <1>3, <1>4, <1>5
\* The updates by which a side finishes, or fails.
LEMMA ClientLeaves ==
  ASSUME client \in [Session -> ClientState], NEW i \in Session, NEW f \in Folder
  PROVE  /\ [client EXCEPT ![i].pc = "ack", ![i].plan = EmptyPlan, ![i].final = f]
              \in [Session -> ClientState]
         /\ [client EXCEPT ![i].pc = "failed", ![i].plan = EmptyPlan, ![i].op = NoOp]
              \in [Session -> ClientState]
  BY EmptyTypes, ZenonT(30) DEF ClientState, ClientPcs

LEMMA ServerMoves ==
  ASSUME server \in [Session -> ServerState], NEW i \in Session, NEW f \in Folder,
         NEW plan \in Plan
  PROVE  /\ [server EXCEPT ![i].pc = "receive", ![i].plan = plan] \in [Session -> ServerState]
         /\ [server EXCEPT ![i].pc = "commit", ![i].plan = EmptyPlan, ![i].final = f]
              \in [Session -> ServerState]
         /\ [server EXCEPT ![i].pc = "failed", ![i].plan = EmptyPlan] \in [Session -> ServerState]
         /\ \A pc \in {"failed", "unsent"} :
              [server EXCEPT ![i].pc = pc, ![i].plan = EmptyPlan, ![i].op = NoOp]
                \in [Session -> ServerState]
<1>1. ASSUME NEW pc \in ServerPcs
      PROVE  [server EXCEPT ![i].pc = pc, ![i].plan = EmptyPlan, ![i].op = NoOp]
               \in [Session -> ServerState]
  BY EmptyTypes DEF ServerState
<1>2. \A pc \in {"failed", "unsent"} : pc \in ServerPcs
  BY DEF ServerPcs
<1>3. /\ [server EXCEPT ![i].pc = "receive", ![i].plan = plan] \in [Session -> ServerState]
      /\ [server EXCEPT ![i].pc = "commit", ![i].plan = EmptyPlan, ![i].final = f]
           \in [Session -> ServerState]
      /\ [server EXCEPT ![i].pc = "failed", ![i].plan = EmptyPlan] \in [Session -> ServerState]
  BY EmptyTypes DEF ServerState, ServerPcs
<1> QED BY <1>1, <1>2, <1>3

\* Every step keeps the types.
LEMMA ClientTypes ==
  ASSUME StateOK, NEW i \in Session, ClientStep(i) \/ ClientFails(i)
  PROVE  StateOK'
<1> USE SideTypes, StoreTypes, FrameTypes, EmptyTypes
<1> DEFINE d == client[i].dev
           ClientsOK == client' \in [Session -> ClientState]
           ToServerOK == toServer' \in [Session -> Seq(Frame)]
           ToClientOK == toClient' \in [Session -> Seq(Frame)]
<1>a. /\ client \in [Session -> ClientState]
      /\ toServer \in [Session -> Seq(Frame)] /\ toClient \in [Session -> Seq(Frame)]
  BY DEF StateOK
<1>b. \A pc \in ClientPcs : ClientBecomes(i, pc) => ClientsOK
  BY <1>a, ZenonT(30) DEF ClientBecomes, ClientState
<1>1. CASE ClientScan(i)
  <2>1. ToServerOK
    BY <1>1, <1>a, RecordTypes, QueueTypes DEF ClientScan
  <2>2. ToClientOK
    BY <1>1, <1>a, ReadTypes DEF ClientScan
  <2>3. seen' \in [Session -> Seen]
    BY <1>1, ZenonT(30) DEF ClientScan, StateOK, Seen
  <2>4. ClientsOK
    BY <1>1, <1>b DEF ClientScan, ClientPcs
  <2>5. objects' \in [Device -> SUBSET Hash]
    BY <1>1 DEF ClientScan
  <2> QED BY <1>1, <2>1, <2>2, <2>3, <2>4, <2>5 DEF ClientScan, StateOK
<1>2. CASE ClientPlan(i)
  <2>1. Head(toClient[i]).plan \in Plan
    BY <1>2, HeadOfQueue, FrameKinds DEF ClientPlan
  <2>2. ToClientOK
    BY <1>2, <1>a, ReadTypes DEF ClientPlan
  <2>3. ClientsOK
    BY <1>2, <1>a, <2>1, ClientUpdates, ZenonT(30) DEF ClientPlan, ClientPcs
  <2>4. conflicts' \in [Device -> SUBSET ConflictRecord]
    BY <1>2, RecordTypes DEF ClientPlan, StateOK
  <2> QED BY <1>2, <2>2, <2>3, <2>4 DEF ClientPlan, store, StateOK
<1>3. ASSUME NEW t \in client[i].plan.clientSends, ClientSend(i, t)
      PROVE  StateOK'
  <2>1. t \in Transfer /\ disk[d][t.source] \in Hash
    BY <1>3 DEF ClientSend, Plan, Transfer, Folder, File
  <2>2. ToServerOK
    BY <1>3, <2>1, <1>a, QueueTypes DEF ClientSend
  <2>3. ClientsOK
    BY <1>3, <1>a, ClientProgress DEF ClientSend
  <2> QED BY <1>3, <2>2, <2>3 DEF ClientSend, store, StateOK
<1>4. CASE ClientUploadsDone(i)
  <2>1. ToServerOK
    BY <1>4, <1>a, QueueTypes DEF ClientUploadsDone
  <2>2. ClientsOK
    BY <1>4, <1>b DEF ClientUploadsDone, ClientPcs
  <2> QED BY <1>4, <2>1, <2>2 DEF ClientUploadsDone, store, StateOK
<1>5. ASSUME NEW p \in client[i].plan.clientDeletes, ClientDelete(i, p)
      PROVE  StateOK'
  <2>1. p \in Path /\ [path |-> p, hash |-> NoFile] \in FileOp
    BY DEF Plan, FileOp, File
  <2>2. ClientsOK
    BY <1>5, <1>a, <2>1, ClientProgress DEF ClientDelete
  <2>3. history' \in [Device -> SUBSET (Path \X Hash)]
    BY <1>5, <2>1 DEF ClientDelete
  <2> QED BY <1>5, <2>2, <2>3 DEF ClientDelete, StateOK
<1>6. CASE ClientReceive(i)
  <2> DEFINE frame == Head(toClient[i])
  <2>1. frame.transfer.dest \in Path /\ frame.data \in Hash
    BY <1>6, HeadOfQueue, FrameKinds DEF ClientReceive, Transfer
  <2>2. [path |-> frame.transfer.dest, hash |-> frame.data] \in FileOp
    BY <2>1 DEF FileOp, File
  <2>3. ClientsOK
    BY <1>6, <1>a, <2>2, ClientProgress DEF ClientReceive
  <2>4. history' \in [Device -> SUBSET (Path \X Hash)]
    BY <1>6, <2>1 DEF ClientReceive
  <2>5. ToClientOK
    BY <1>6, <1>a, ReadTypes DEF ClientReceive
  <2> QED BY <1>6, <2>3, <2>4, <2>5 DEF ClientReceive, StateOK
<1>7. CASE ClientInstall(i)
  <2>1. client[i].op.path \in Path /\ client[i].op.hash \in File
    BY <1>7 DEF ClientInstall, FileOp
  <2>2. disk' \in [Device -> Folder]
    BY <1>7, <2>1 DEF ClientInstall, StateOK, Folder
  <2>3. ClientsOK
    BY <1>7, <1>a, ClientUpdates DEF ClientInstall
  <2> QED BY <1>7, <2>2, <2>3 DEF ClientInstall, store, StateOK
<1>8. CASE ClientFinish(i)
  <2>1. ToServerOK
    BY <1>8, <1>a, QueueTypes DEF ClientFinish, ClientReceived
  <2>2. ToClientOK
    BY <1>8, <1>a, ReadTypes DEF ClientFinish, ClientReceived
  <2>3. ClientsOK
    BY <1>8, <1>a, ClientLeaves DEF ClientFinish, ClientReceived
  <2>4. conflicts' \in [Device -> SUBSET ConflictRecord]
    <3>1. client[i].plan.conflicts \in SUBSET Conflict
      BY DEF Plan
    <3> QED BY <1>8, <3>1, RecordTypes DEF ClientFinish, ClientReceived, StateOK
  <2>5. objects' \in [Device -> SUBSET Hash]
    BY <1>8 DEF ClientFinish, ClientReceived
  <2> QED BY <1>8, <2>1, <2>2, <2>3, <2>4, <2>5 DEF ClientFinish, ClientReceived, StateOK
<1>9. CASE ClientCommit(i)
  <2>1. ToClientOK
    BY <1>9, <1>a, ReadTypes DEF ClientCommit
  <2>2. ClientsOK
    BY <1>9, <1>b DEF ClientCommit, ClientPcs
  <2>3. baseline' \in [Device -> Folder]
    BY <1>9 DEF ClientCommit, StateOK
  <2>4. /\ status' \in [Device -> {"idle", "syncing", "synced", "error"}]
        /\ locked' \in [Device -> BOOLEAN]
    BY <1>9 DEF ClientCommit
  <2> QED BY <1>9, <2>1, <2>2, <2>3, <2>4 DEF ClientCommit, StateOK
<1>10. CASE ClientFails(i)
  <2>1. ToClientOK
    BY <1>10, <1>a DEF ClientFails
  <2>2. ClientsOK
    BY <1>10, <1>a, ClientLeaves DEF ClientFails
  <2>3. /\ status' \in [Device -> {"idle", "syncing", "synced", "error"}]
        /\ locked' \in [Device -> BOOLEAN]
    BY <1>10 DEF ClientFails
  <2>4. objects' \in [Device -> SUBSET Hash] /\ conflicts' \in [Device -> SUBSET ConflictRecord]
    <3>1. client[i].plan.conflicts \in SUBSET Conflict /\ d \in Device
      BY DEF Plan
    <3>2. \/ UNCHANGED <<objects, conflicts>>
          \/ CacheFails(d)
          \/ \E ids : MarkFails(d, ids)
          \/ SaveFails(d, client[i].plan.conflicts)
      BY <1>10 DEF ClientFails, ClientWrote
    <3> QED BY <3>1, <3>2, PartTypes DEF StateOK
  <2> QED BY <1>10, <2>1, <2>2, <2>3, <2>4 DEF ClientFails, StateOK
<1> QED BY <1>1, <1>2, <1>3, <1>4, <1>5, <1>6, <1>7, <1>8, <1>9, <1>10 DEF ClientStep

LEMMA ServerTypes ==
  ASSUME StateOK, NEW i \in Session, ServerStep(i) \/ ServerFails(i)
  PROVE  StateOK'
<1> USE SideTypes, StoreTypes, FrameTypes, EmptyTypes
<1> DEFINE d == ServerDev(i)
           ServersOK == server' \in [Session -> ServerState]
           ToServerOK == toServer' \in [Session -> Seq(Frame)]
           ToClientOK == toClient' \in [Session -> Seq(Frame)]
           LocksOK == /\ status' \in [Device -> {"idle", "syncing", "synced", "error"}]
                      /\ locked' \in [Device -> BOOLEAN]
<1>a. /\ server \in [Session -> ServerState]
      /\ toServer \in [Session -> Seq(Frame)] /\ toClient \in [Session -> Seq(Frame)]
  BY DEF StateOK
<1>1. CASE ServerHello(i)
  <2>1. ToServerOK
    BY <1>1, <1>a, ReadTypes DEF ServerHello
  <2>2. ToClientOK
    BY <1>1, <1>a, QueueTypes DEF ServerHello
  <2>3. ServersOK
    BY <1>1, <1>a, ServerUpdates DEF ServerHello, ServerPcs
  <2> QED BY <1>1, <2>1, <2>2, <2>3 DEF ServerHello, store, StateOK
<1>2. CASE ServerBusy(i)
  <2>1. ToServerOK
    BY <1>2, <1>a DEF ServerBusy
  <2>2. ServersOK
    BY <1>2, <1>a, ServerUpdates DEF ServerBusy, ServerPcs
  <2>3. conflicts' \in [Device -> SUBSET ConflictRecord]
    BY <1>2, RecordTypes DEF ServerBusy, StateOK
  <2> QED BY <1>2, <2>1, <2>2, <2>3 DEF ServerBusy, StateOK
<1>3. CASE ServerPlan(i)
  <2> DEFINE request == Head(toServer[i])
             plan == BuildPlan(disk[d], request.manifest, baseline[d], i)
             marked == MarkResolved(conflicts[d], request.resolved)
  <2>1. request.manifest \in Folder
    BY <1>3, HeadOfQueue, FrameKinds DEF ServerPlan
  <2>2. plan \in Plan
    BY <2>1, BuildPlanType
  <2>3. marked \in SUBSET ConflictRecord /\ ResolvedIds(marked) \in SUBSET ConflictId
    BY RecordTypes
  <2> HIDE DEF plan, marked
  <2>4. [type |-> "plan", plan |-> plan, resolved |-> ResolvedIds(marked)] \in Frame
    BY <2>2, <2>3
  <2>5. /\ conflicts' = [conflicts EXCEPT ![d] = marked]
        /\ ToClient(i, [type |-> "plan", plan |-> plan, resolved |-> ResolvedIds(marked)])
        /\ server' = [server EXCEPT ![i].pc = "receive", ![i].plan = plan]
    BY <1>3 DEF ServerPlan, plan, marked
  <2>6. ToServerOK
    BY <1>3, <1>a, ReadTypes DEF ServerPlan
  <2>7. ToClientOK
    BY <2>4, <2>5, <1>a, QueueTypes
  <2>8. ServersOK
    BY <2>2, <2>5, <1>a, ServerMoves
  <2>9. conflicts' \in [Device -> SUBSET ConflictRecord]
    BY <2>3, <2>5 DEF StateOK
  <2>10. seen' \in [Session -> Seen]
    BY <1>3, ZenonT(30) DEF ServerPlan, StateOK, Seen
  <2>11. LocksOK /\ objects' \in [Device -> SUBSET Hash]
    BY <1>3 DEF ServerPlan
  <2> QED BY <1>3, <2>6, <2>7, <2>8, <2>9, <2>10, <2>11 DEF ServerPlan, StateOK
<1>4. CASE ServerReceive(i)
  <2> DEFINE frame == Head(toServer[i])
  <2>1. frame.transfer.dest \in Path /\ frame.data \in Hash
    BY <1>4, HeadOfQueue, FrameKinds DEF ServerReceive, Transfer
  <2>2. [path |-> frame.transfer.dest, hash |-> frame.data] \in FileOp
    BY <2>1 DEF FileOp, File
  <2>3. ServersOK
    BY <1>4, <1>a, <2>2, ServerProgress DEF ServerReceive
  <2>4. history' \in [Device -> SUBSET (Path \X Hash)]
    BY <1>4, <2>1 DEF ServerReceive
  <2>5. ToServerOK
    BY <1>4, <1>a, ReadTypes DEF ServerReceive
  <2> QED BY <1>4, <2>3, <2>4, <2>5 DEF ServerReceive, StateOK
<1>5. CASE ServerUploadsDone(i)
  <2>1. ToServerOK
    BY <1>5, <1>a, ReadTypes DEF ServerUploadsDone
  <2>2. ServersOK
    BY <1>5, <1>a, ServerUpdates DEF ServerUploadsDone, ServerPcs
  <2> QED BY <1>5, <2>1, <2>2 DEF ServerUploadsDone, store, StateOK
<1>6. ASSUME NEW p \in server[i].plan.serverDeletes, ServerDelete(i, p)
      PROVE  StateOK'
  <2>1. p \in Path /\ [path |-> p, hash |-> NoFile] \in FileOp
    BY DEF Plan, FileOp, File
  <2>2. ServersOK
    BY <1>6, <1>a, <2>1, ServerProgress DEF ServerDelete
  <2>3. history' \in [Device -> SUBSET (Path \X Hash)]
    BY <1>6, <2>1 DEF ServerDelete
  <2> QED BY <1>6, <2>2, <2>3 DEF ServerDelete, StateOK
<1>7. CASE ServerInstall(i)
  <2>1. server[i].op.path \in Path /\ server[i].op.hash \in File
    BY <1>7 DEF ServerInstall, FileOp
  <2>2. disk' \in [Device -> Folder]
    BY <1>7, <2>1 DEF ServerInstall, StateOK, Folder
  <2>3. ServersOK
    BY <1>7, <1>a, ServerUpdates DEF ServerInstall
  <2> QED BY <1>7, <2>2, <2>3 DEF ServerInstall, store, StateOK
<1>8. ASSUME NEW t \in server[i].plan.serverSends, ServerSend(i, t)
      PROVE  StateOK'
  <2>1. t \in Transfer /\ disk[d][t.source] \in Hash
    BY <1>8 DEF ServerSend, Plan, Transfer, Folder, File
  <2>2. ToClientOK
    BY <1>8, <2>1, <1>a, QueueTypes DEF ServerSend
  <2>3. ServersOK
    BY <1>8, <1>a, ServerProgress DEF ServerSend
  <2> QED BY <1>8, <2>2, <2>3 DEF ServerSend, store, StateOK
<1>9. CASE ServerTransfersDone(i)
  <2>1. ToClientOK
    BY <1>9, <1>a, QueueTypes DEF ServerTransfersDone
  <2>2. ServersOK
    BY <1>9, <1>a, ServerUpdates DEF ServerTransfersDone, ServerPcs
  <2> QED BY <1>9, <2>1, <2>2 DEF ServerTransfersDone, store, StateOK
<1>10. CASE ServerRescan(i)
  <2>1. ToServerOK
    BY <1>10, <1>a, ReadTypes DEF ServerRescan
  <2>2. ServersOK
    <3>1. \/ server' = [server EXCEPT ![i].pc = "commit", ![i].plan = EmptyPlan,
                                      ![i].final = disk[d]]
          \/ server' = [server EXCEPT ![i].pc = "failed", ![i].plan = EmptyPlan]
      BY <1>10 DEF ServerRescan
    <3>2. CASE server' = [server EXCEPT ![i].pc = "commit", ![i].plan = EmptyPlan,
                                        ![i].final = disk[d]]
      BY <3>2, <1>a, ServerMoves
    <3>3. CASE server' = [server EXCEPT ![i].pc = "failed", ![i].plan = EmptyPlan]
      BY <3>3, <1>a, ServerMoves
    <3> QED BY <3>1, <3>2, <3>3
  <2>3. conflicts' \in [Device -> SUBSET ConflictRecord]
    <3>1. server[i].plan.conflicts \in SUBSET Conflict
      BY DEF Plan
    <3> QED BY <1>10, <3>1, RecordTypes DEF ServerRescan, StateOK
  <2>4. LocksOK
    BY <1>10 DEF ServerRescan, StateOK
  <2>5. objects' \in [Device -> SUBSET Hash]
    BY <1>10 DEF ServerRescan
  <2> QED BY <1>10, <2>1, <2>2, <2>3, <2>4, <2>5 DEF ServerRescan, StateOK
<1>11. CASE ServerCommit(i)
  <2>1. ServersOK
    BY <1>11, <1>a, ServerUpdates DEF ServerCommit, ServerPcs
  <2>2. baseline' \in [Device -> Folder]
    BY <1>11 DEF ServerCommit, StateOK
  <2> QED BY <1>11, <2>1, <2>2 DEF ServerCommit, StateOK
<1>12. CASE ServerResult(i)
  <2>1. ToClientOK
    BY <1>12, <1>a, QueueTypes DEF ServerResult
  <2>2. ServersOK
    BY <1>12, <1>a, ServerUpdates DEF ServerResult, ServerPcs
  <2>3. LocksOK
    BY <1>12 DEF ServerResult
  <2> QED BY <1>12, <2>1, <2>2, <2>3 DEF ServerResult, store, StateOK
<1>13. CASE ServerFails(i)
  <2>1. ToServerOK
    BY <1>13, <1>a DEF ServerFails
  <2>2. ServersOK
    <3>1. CASE server[i].pc = "result"
      <4>1. server' = [server EXCEPT ![i].pc = "unsent", ![i].plan = EmptyPlan, ![i].op = NoOp]
        BY <1>13, <3>1 DEF ServerFails
      <4> QED BY <4>1, <1>a, ServerMoves
    <3>2. CASE server[i].pc # "result"
      <4>1. server' = [server EXCEPT ![i].pc = "failed", ![i].plan = EmptyPlan, ![i].op = NoOp]
        BY <1>13, <3>2 DEF ServerFails
      <4> QED BY <4>1, <1>a, ServerMoves
    <3> QED BY <3>1, <3>2
  <2>3. locked' \in [Device -> BOOLEAN]
    BY <1>13 DEF ServerFails, StateOK
  <2>4. /\ status' = status \/ SetStatus(d, "error")
        /\ \/ UNCHANGED <<objects, conflicts>>
           \/ CacheFails(d)
           \/ \E ids : MarkFails(d, ids)
           \/ \E some \in SUBSET Contents(Scan(d)) : \E ids :
                /\ objects' = [objects EXCEPT ![d] = @ \cup some]
                /\ conflicts' = [conflicts EXCEPT ![d] = MarkResolved(@, ids)]
           \/ SaveFails(d, server[i].plan.conflicts)
    BY <1>13 DEF ServerFails, ServerWrote
  <2>5. server[i].plan.conflicts \in SUBSET Conflict /\ d \in Device
    BY DEF Plan
  <2>6. status' \in [Device -> {"idle", "syncing", "synced", "error"}]
    BY <2>4, <2>5, StoreTypes DEF StateOK
  <2>7. objects' \in [Device -> SUBSET Hash] /\ conflicts' \in [Device -> SUBSET ConflictRecord]
    BY <2>4, <2>5, PartTypes DEF StateOK
  <2> QED BY <1>13, <2>1, <2>2, <2>3, <2>6, <2>7 DEF ServerFails, StateOK
<1> QED BY <1>1, <1>2, <1>3, <1>4, <1>5, <1>6, <1>7, <1>8, <1>9, <1>10, <1>11, <1>12,
           <1>13 DEF ServerStep

LEMMA TypeStep == StateOK /\ [Next]_vars => StateOK'
<1> SUFFICES ASSUME StateOK, [Next]_vars PROVE StateOK'
  OBVIOUS
<1>1. ASSUME NEW i \in Session, NEW d \in Device, Dial(i, d) PROVE StateOK'
  <2>1. client' \in [Session -> ClientState]
    BY <1>1, ClientUpdates, ZenonT(30) DEF Dial, StateOK, ClientPcs
  <2>2. toServer' \in [Session -> Seq(Frame)]
    BY <1>1, FrameTypes DEF Dial, StateOK
  <2>3. /\ status' \in [Device -> {"idle", "syncing", "synced", "error"}]
        /\ locked' \in [Device -> BOOLEAN]
    BY <1>1, StoreTypes DEF Dial
  <2> QED BY <1>1, <2>1, <2>2, <2>3 DEF Dial, store, StateOK
<1>2. ASSUME NEW d \in Device, NEW p \in Path, NEW v \in File, Edit(d, p, v)
      PROVE  StateOK'
  <2>1. disk' \in [Device -> Folder]
    BY <1>2 DEF Edit, StateOK, Folder
  <2>2. seen' \in [Session -> Seen]
    BY <1>2 DEF Edit, StateOK, Seen
  <2> QED BY <1>2, <2>1, <2>2 DEF Edit, store, StateOK
<1>3. CASE UNCHANGED vars
  BY <1>3 DEF vars, store, StateOK
<1> QED BY <1>1, <1>2, <1>3, ClientTypes, ServerTypes DEF Next, Fault

-----------------------------------------------------------------------------
(* The invariant                                                           *)

Frames(queue) == {queue[k] : k \in 1..Len(queue)}

\* Every session past its TryLock has its device's lock, no two sessions have
\* the same, and a held lock belongs to a session.
HoldersLock ==
  \A i \in Session : /\ ClientRunning(i) => locked[client[i].dev]
                     /\ ServerHolds(i) => locked[ServerDev(i)]
HoldersDiffer ==
  \A i, j \in Session :
    /\ ClientRunning(i) /\ ClientRunning(j) /\ client[i].dev = client[j].dev => i = j
    /\ ServerHolds(i) /\ ServerHolds(j) /\ ServerDev(i) = ServerDev(j) => i = j
    /\ ClientRunning(i) /\ ServerHolds(j) => client[i].dev # ServerDev(j)
LockHasHolder ==
  \A d \in Device : locked[d] =>
    \E i \in Session : \/ ClientRunning(i) /\ client[i].dev = d
                       \/ ServerHolds(i) /\ ServerDev(i) = d

\* A server starts with its client's hello.
ServerAfterDial ==
  \A i \in Session : client[i].pc = "idle" => server[i].pc = "idle" /\ toServer[i] = <<>>

\* What the two sides agree on when the server commits: the manifest the client
\* acknowledged is the one it found last, the server has compared it with its
\* own, and a result on its way says that the server has committed.
Acked == {"ack", "done", "failed"}
AckIsFinal ==
  \A i \in Session : \A f \in Frames(toServer[i]) :
    f.type = "ack" => client[i].pc \in Acked /\ f.manifest = client[i].final
CommitIsCommon ==
  \A i \in Session : server[i].pc \in {"commit", "result", "done"} =>
    client[i].pc \in Acked /\ client[i].final = server[i].final
ResultIsCommitted ==
  \A i \in Session : \A f \in Frames(toClient[i]) :
    f.type = "result" => server[i].pc = "done"

LockInv == HoldersLock /\ HoldersDiffer /\ LockHasHolder /\ ServerAfterDial
CommitInv == AckIsFinal /\ CommitIsCommon /\ ResultIsCommitted
IInv == StateOK /\ LockInv /\ CommitInv

-----------------------------------------------------------------------------
(* What a step of one side changes                                         *)

LEMMA FramesOf ==
  ASSUME NEW queue \in Seq(Frame)
  PROVE  /\ Frames(<<>>) = {}
         /\ \A f \in Frame : Frames(Append(queue, f)) \subseteq Frames(queue) \cup {f}
         /\ queue # <<>> => Head(queue) \in Frames(queue)
         /\ queue # <<>> => Frames(Tail(queue)) \subseteq Frames(queue)
<1>1. ASSUME NEW f \in Frame
      PROVE  Frames(Append(queue, f)) \subseteq Frames(queue) \cup {f}
  <2>1. \A k \in 1..Len(Append(queue, f)) :
          IF k = Len(queue) + 1 THEN Append(queue, f)[k] = f
          ELSE k \in 1..Len(queue) /\ Append(queue, f)[k] = queue[k]
    OBVIOUS
  <2> QED BY <2>1 DEF Frames
<1>2. ASSUME queue # <<>>
      PROVE  Head(queue) \in Frames(queue) /\ Frames(Tail(queue)) \subseteq Frames(queue)
  <2>1. Len(queue) \in Nat /\ Len(queue) >= 1 /\ Head(queue) = queue[1]
    BY <1>2
  <2>2. \A k \in 1..Len(Tail(queue)) : k + 1 \in 1..Len(queue) /\ Tail(queue)[k] = queue[k + 1]
    BY <1>2, <2>1
  <2> QED BY <2>1, <2>2 DEF Frames
<1>3. Frames(<<>>) = {}
  BY DEF Frames
<1> QED BY <1>1, <1>2, <1>3

\* A queue after a write or a read.
LEMMA QueueEffects ==
  ASSUME StateOK, NEW i \in Session
  PROVE  /\ \A f \in Frame : ToServer(i, f) =>
              /\ Frames(toServer'[i]) \subseteq Frames(toServer[i]) \cup {f}
              /\ \A j \in Session \ {i} : toServer'[j] = toServer[j]
         /\ \A f \in Frame : ToClient(i, f) =>
              /\ Frames(toClient'[i]) \subseteq Frames(toClient[i]) \cup {f}
              /\ \A j \in Session \ {i} : toClient'[j] = toClient[j]
         /\ toServer[i] # <<>> /\ ReadByServer(i) =>
              /\ Frames(toServer'[i]) \subseteq Frames(toServer[i])
              /\ \A j \in Session \ {i} : toServer'[j] = toServer[j]
         /\ toClient[i] # <<>> /\ ReadByClient(i) =>
              /\ Frames(toClient'[i]) \subseteq Frames(toClient[i])
              /\ \A j \in Session \ {i} : toClient'[j] = toClient[j]
<1>1. toServer \in [Session -> Seq(Frame)] /\ toClient \in [Session -> Seq(Frame)]
  BY DEF StateOK
<1>2. ASSUME NEW q \in Seq(Frame), NEW closed, NEW f \in Frame
      PROVE  Frames(Written(q, closed, f)) \subseteq Frames(q) \cup {f}
  <2>1. Frames(Append(q, f)) \subseteq Frames(q) \cup {f}
    BY FramesOf
  <2> QED BY <2>1, Zenon DEF Written
<1>3. ASSUME NEW f \in Frame, ToServer(i, f)
      PROVE  /\ Frames(toServer'[i]) \subseteq Frames(toServer[i]) \cup {f}
             /\ \A j \in Session \ {i} : toServer'[j] = toServer[j]
  <2>1. /\ toServer'[i] = Written(toServer[i], ServerEnded(i), f)
        /\ \A j \in Session \ {i} : toServer'[j] = toServer[j]
    BY <1>1, <1>3, Zenon DEF ToServer
  <2>2. toServer[i] \in Seq(Frame)
    BY <1>1
  <2> QED BY <2>1, <2>2, <1>2, Zenon
<1>4. ASSUME NEW f \in Frame, ToClient(i, f)
      PROVE  /\ Frames(toClient'[i]) \subseteq Frames(toClient[i]) \cup {f}
             /\ \A j \in Session \ {i} : toClient'[j] = toClient[j]
  <2>1. /\ toClient'[i] = Written(toClient[i], ClientEnded(i), f)
        /\ \A j \in Session \ {i} : toClient'[j] = toClient[j]
    BY <1>1, <1>4, Zenon DEF ToClient
  <2>2. toClient[i] \in Seq(Frame)
    BY <1>1
  <2> QED BY <2>1, <2>2, <1>2, Zenon
<1>5. ASSUME toServer[i] # <<>>, ReadByServer(i)
      PROVE  /\ Frames(toServer'[i]) \subseteq Frames(toServer[i])
             /\ \A j \in Session \ {i} : toServer'[j] = toServer[j]
  BY <1>1, <1>5, FramesOf DEF ReadByServer
<1>6. ASSUME toClient[i] # <<>>, ReadByClient(i)
      PROVE  /\ Frames(toClient'[i]) \subseteq Frames(toClient[i])
             /\ \A j \in Session \ {i} : toClient'[j] = toClient[j]
  BY <1>1, <1>6, FramesOf DEF ReadByClient
<1> QED BY <1>3, <1>4, <1>5, <1>6

\* A step of session i's client: its effect on other sessions, on the lock, and
\* on what the two sides agree on.
ClientAlone(i) ==
  /\ server' = server
  /\ \A j \in Session : client'[j].dev = client[j].dev
  /\ \A j \in Session \ {i} : /\ client'[j] = client[j]
                              /\ toServer'[j] = toServer[j] /\ toClient'[j] = toClient[j]
  /\ client[i].pc = "idle" <=> client'[i].pc = "idle"
  /\ client[i].pc = "idle" => toServer' = toServer
ClientLock(i) ==
  \/ locked' = locked /\ (ClientRunning(i)' <=> ClientRunning(i))
  \/ ClientRunning(i) /\ ~ClientRunning(i)' /\ Unlock(client[i].dev)
ClientFrames(i) ==
  /\ Frames(toClient'[i]) \subseteq Frames(toClient[i])
  /\ \A f \in Frames(toServer'[i]) :
       \/ f \in Frames(toServer[i])
       \/ f.type # "ack"
       \/ client'[i].pc = "ack" /\ f.manifest = client'[i].final
  /\ \/ client[i].pc = "receive" /\ client'[i].pc = "ack"
     \/ /\ client'[i].final = client[i].final
        /\ client[i].pc \in Acked => client'[i].pc \in Acked

LEMMA ClientEffects ==
  ASSUME StateOK, NEW i \in Session, ClientStep(i) \/ ClientFails(i)
  PROVE  ClientAlone(i) /\ ClientLock(i) /\ ClientFrames(i)
<1> DEFINE Goal == ClientAlone(i) /\ ClientLock(i) /\ ClientFrames(i)
<1> USE SideTypes
<1>a. client \in [Session -> ClientState]
  BY DEF StateOK
<1>b. /\ toClient \in [Session -> Seq(Frame)] /\ toServer \in [Session -> Seq(Frame)]
      /\ Frames(<<>>) = {}
  BY FramesOf DEF StateOK
<1>1. CASE ClientScan(i)
  <2>1. /\ client'[i].pc = "request" /\ client[i].pc = "hello"
        /\ client'[i].final = client[i].final
        /\ \A j \in Session : client'[j].dev = client[j].dev
        /\ \A j \in Session \ {i} : client'[j] = client[j]
    BY <1>1, <1>a DEF ClientScan, ClientBecomes, ClientState
  <2>2. [type |-> "sync_request", manifest |-> disk[client[i].dev],
         resolved |-> ResolvedIds(conflicts[client[i].dev])] \in Frame
    BY FrameTypes, RecordTypes
  <2>3. /\ Frames(toClient'[i]) \subseteq Frames(toClient[i])
        /\ \A f \in Frames(toServer'[i]) : f \in Frames(toServer[i]) \/ f.type = "sync_request"
        /\ \A j \in Session \ {i} : toServer'[j] = toServer[j] /\ toClient'[j] = toClient[j]
    <3>1. PICK f \in Frame : f.type = "sync_request" /\ ToServer(i, f)
      BY <1>1, <2>2 DEF ClientScan
    <3>2. toClient[i] # <<>> /\ ReadByClient(i)
      BY <1>1 DEF ClientScan, Heads
    <3> QED BY <3>1, <3>2, QueueEffects
  <2> QED BY <1>1, <2>1, <2>3
          DEF ClientScan, ClientAlone, ClientLock, ClientFrames, ClientRunning, ClientEnded, Acked
<1>2. CASE ClientPlan(i)
  <2>1. /\ client'[i].pc = "upload" /\ client[i].pc = "request"
        /\ client'[i].final = client[i].final
        /\ \A j \in Session : client'[j].dev = client[j].dev
        /\ \A j \in Session \ {i} : client'[j] = client[j]
    BY <1>2, <1>a DEF ClientPlan, ClientState
  <2>2. /\ Frames(toClient'[i]) \subseteq Frames(toClient[i])
        /\ \A j \in Session \ {i} : toClient'[j] = toClient[j]
    BY <1>2, QueueEffects DEF ClientPlan, Heads
  <2> QED BY <1>2, <2>1, <2>2
          DEF ClientPlan, ClientAlone, ClientLock, ClientFrames, ClientRunning, ClientEnded, Acked
<1>3. ASSUME NEW t \in client[i].plan.clientSends, ClientSend(i, t)
      PROVE  Goal
  <2>1. /\ client'[i].pc = "upload" /\ client[i].pc = "upload"
        /\ client'[i].final = client[i].final
        /\ \A j \in Session : client'[j].dev = client[j].dev
        /\ \A j \in Session \ {i} : client'[j] = client[j]
    BY <1>3, <1>a DEF ClientSend, ClientState, Plan
  <2>2. [type |-> "file", transfer |-> t, data |-> disk[client[i].dev][t.source]] \in Frame
    <3>1. t \in Transfer
      BY DEF Plan
    <3>2. disk[client[i].dev][t.source] \in Hash
      BY <1>3, <3>1 DEF ClientSend, Transfer, Folder, File
    <3> QED BY <3>1, <3>2, FrameTypes
  <2>3. /\ \A f \in Frames(toServer'[i]) : f \in Frames(toServer[i]) \/ f.type = "file"
        /\ \A j \in Session \ {i} : toServer'[j] = toServer[j]
    <3>1. PICK f \in Frame : f.type = "file" /\ ToServer(i, f)
      BY <1>3, <2>2 DEF ClientSend
    <3> QED BY <3>1, QueueEffects
  <2> QED BY <1>3, <2>1, <2>3
          DEF ClientSend, ClientAlone, ClientLock, ClientFrames, ClientRunning, ClientEnded, Acked
<1>4. CASE ClientUploadsDone(i)
  <2>1. /\ client'[i].pc = "receive" /\ client[i].pc = "upload"
        /\ client'[i].final = client[i].final
        /\ \A j \in Session : client'[j].dev = client[j].dev
        /\ \A j \in Session \ {i} : client'[j] = client[j]
    BY <1>4, <1>a DEF ClientUploadsDone, ClientBecomes, ClientState
  <2>2. /\ \A f \in Frames(toServer'[i]) : f \in Frames(toServer[i]) \/ f.type = "uploads_done"
        /\ \A j \in Session \ {i} : toServer'[j] = toServer[j]
    <3>1. PICK f \in Frame : f.type = "uploads_done" /\ ToServer(i, f)
      BY <1>4, FrameTypes DEF ClientUploadsDone
    <3> QED BY <3>1, QueueEffects
  <2> QED BY <1>4, <2>1, <2>2
          DEF ClientUploadsDone, ClientAlone, ClientLock, ClientFrames, ClientRunning,
              ClientEnded, Acked
<1>5. ASSUME NEW p \in client[i].plan.clientDeletes, ClientDelete(i, p)
      PROVE  Goal
  <2>1. /\ client'[i].pc = client[i].pc /\ client'[i].final = client[i].final
        /\ \A j \in Session : client'[j].dev = client[j].dev
        /\ \A j \in Session \ {i} : client'[j] = client[j]
    BY <1>5, <1>a DEF ClientDelete, ClientState, Plan
  <2> QED BY <1>5, <2>1
          DEF ClientDelete, ClientAlone, ClientLock, ClientFrames, ClientRunning, ClientEnded, Acked
<1>6. CASE ClientReceive(i)
  <2>1. /\ client'[i].pc = client[i].pc /\ client'[i].final = client[i].final
        /\ \A j \in Session : client'[j].dev = client[j].dev
        /\ \A j \in Session \ {i} : client'[j] = client[j]
    BY <1>6, <1>a DEF ClientReceive, ClientState, Plan
  <2>2. /\ Frames(toClient'[i]) \subseteq Frames(toClient[i])
        /\ \A j \in Session \ {i} : toClient'[j] = toClient[j]
    BY <1>6, QueueEffects DEF ClientReceive, Heads
  <2> QED BY <1>6, <2>1, <2>2
          DEF ClientReceive, ClientAlone, ClientLock, ClientFrames, ClientRunning, ClientEnded, Acked
<1>7. CASE ClientInstall(i)
  <2>1. /\ client'[i].pc = client[i].pc /\ client'[i].final = client[i].final
        /\ \A j \in Session : client'[j].dev = client[j].dev
        /\ \A j \in Session \ {i} : client'[j] = client[j]
    BY <1>7, <1>a DEF ClientInstall, ClientState
  <2> QED BY <1>7, <2>1
          DEF ClientInstall, ClientAlone, ClientLock, ClientFrames, ClientRunning, ClientEnded, Acked
<1>8. CASE ClientFinish(i)
  <2>1. /\ client'[i].pc = "ack" /\ client[i].pc = "receive"
        /\ client'[i].final = disk[client[i].dev]
        /\ \A j \in Session : client'[j].dev = client[j].dev
        /\ \A j \in Session \ {i} : client'[j] = client[j]
    BY <1>8, <1>a DEF ClientFinish, ClientReceived, ClientState
  <2>2. /\ \A f \in Frames(toServer'[i]) :
             f \in Frames(toServer[i]) \/ f.manifest = disk[client[i].dev]
        /\ \A j \in Session \ {i} : toServer'[j] = toServer[j]
    <3> DEFINE f == [type |-> "ack", manifest |-> disk[client[i].dev]]
    <3>1. f \in Frame /\ ToServer(i, f) /\ f.manifest = disk[client[i].dev]
      BY <1>8, FrameTypes DEF ClientFinish, ClientReceived
    <3> HIDE DEF f
    <3>2. /\ \A g \in Frames(toServer'[i]) : g \in Frames(toServer[i]) \/ g = f
          /\ \A j \in Session \ {i} : toServer'[j] = toServer[j]
      BY <3>1, QueueEffects
    <3> QED BY <3>1, <3>2
  <2>3. /\ Frames(toClient'[i]) \subseteq Frames(toClient[i])
        /\ \A j \in Session \ {i} : toClient'[j] = toClient[j]
    <3>1. toClient[i] # <<>> /\ ReadByClient(i)
      BY <1>8 DEF ClientFinish, ClientReceived, Heads
    <3> QED BY <3>1, QueueEffects
  <2> QED BY <1>8, <2>1, <2>2, <2>3
          DEF ClientFinish, ClientReceived, ClientAlone, ClientLock, ClientFrames, ClientRunning, ClientEnded, Acked
<1>9. CASE ClientCommit(i)
  <2>1. /\ client'[i].pc = "done" /\ client[i].pc = "ack"
        /\ client'[i].final = client[i].final
        /\ \A j \in Session : client'[j].dev = client[j].dev
        /\ \A j \in Session \ {i} : client'[j] = client[j]
    BY <1>9, <1>a DEF ClientCommit, ClientBecomes, ClientState
  <2>2. /\ Frames(toClient'[i]) \subseteq Frames(toClient[i])
        /\ \A j \in Session \ {i} : toClient'[j] = toClient[j]
    BY <1>9, QueueEffects DEF ClientCommit, Heads
  <2> QED BY <1>9, <2>1, <2>2
          DEF ClientCommit, ClientAlone, ClientLock, ClientFrames, ClientRunning, ClientEnded, Acked
<1>10. CASE ClientFails(i)
  <2>1. /\ client'[i].pc = "failed" /\ ClientRunning(i)
        /\ client'[i].final = client[i].final
        /\ \A j \in Session : client'[j].dev = client[j].dev
        /\ \A j \in Session \ {i} : client'[j] = client[j]
    BY <1>10, <1>a DEF ClientFails, ClientState
  <2>2. /\ Frames(toClient'[i]) \subseteq Frames(toClient[i])
        /\ \A j \in Session \ {i} : toClient'[j] = toClient[j]
    BY <1>10, <1>b DEF ClientFails
  <2> QED BY <1>10, <2>1, <2>2
          DEF ClientFails, ClientAlone, ClientLock, ClientFrames, ClientRunning, ClientEnded, Acked
<1> QED BY <1>1, <1>2, <1>3, <1>4, <1>5, <1>6, <1>7, <1>8, <1>9, <1>10 DEF ClientStep

\* The same for a step of session i's server.
ServerAlone(i) ==
  /\ client' = client
  /\ \A j \in Session \ {i} : /\ server'[j] = server[j]
                              /\ toServer'[j] = toServer[j] /\ toClient'[j] = toClient[j]
  /\ \/ client[i].pc # "idle" \/ server[i].pc # "idle" \/ toServer[i] # <<>>
     \/ server'[i].pc = server[i].pc /\ toServer' = toServer
ServerLock(i) ==
  \/ locked' = locked /\ (ServerHolds(i)' <=> ServerHolds(i))
  \/ ~ServerHolds(i) /\ ServerHolds(i)' /\ TryLock(ServerDev(i))
  \/ ServerHolds(i) /\ ~ServerHolds(i)' /\ Unlock(ServerDev(i))
ServerFrames(i) ==
  /\ Frames(toServer'[i]) \subseteq Frames(toServer[i])
  /\ \A f \in Frames(toClient'[i]) :
       \/ f \in Frames(toClient[i])
       \/ f.type # "result"
       \/ server'[i].pc = "done"
  /\ server[i].pc = "done" => server'[i].pc = "done"
  /\ server'[i].pc \in {"commit", "result", "done"} =>
       \/ server[i].pc \in {"commit", "result", "done"} /\ server'[i].final = server[i].final
       \/ \E f \in Frames(toServer[i]) : f.type = "ack" /\ server'[i].final = f.manifest

LEMMA ServerEffects ==
  ASSUME StateOK, NEW i \in Session, ServerStep(i) \/ ServerFails(i)
  PROVE  ServerAlone(i) /\ ServerLock(i) /\ ServerFrames(i)
<1> DEFINE Goal == ServerAlone(i) /\ ServerLock(i) /\ ServerFrames(i)
           d == ServerDev(i)
<1> USE SideTypes
<1>a. server \in [Session -> ServerState]
  BY DEF StateOK
<1>b. /\ toClient \in [Session -> Seq(Frame)] /\ toServer \in [Session -> Seq(Frame)]
      /\ Frames(<<>>) = {}
  BY FramesOf DEF StateOK
<1>1. CASE ServerHello(i)
  <2>1. /\ server'[i].pc = "challenge" /\ server[i].pc = "idle"
        /\ \A j \in Session \ {i} : server'[j] = server[j]
    BY <1>1, <1>a DEF ServerHello, ServerState
  <2>2. /\ Frames(toServer'[i]) \subseteq Frames(toServer[i]) /\ toServer[i] # <<>>
        /\ \A f \in Frames(toClient'[i]) : f \in Frames(toClient[i]) \/ f.type = "challenge"
        /\ \A j \in Session \ {i} : toServer'[j] = toServer[j] /\ toClient'[j] = toClient[j]
    <3>1. PICK f \in Frame : f.type = "challenge" /\ ToClient(i, f)
      BY <1>1, FrameTypes DEF ServerHello
    <3>2. toServer[i] # <<>> /\ ReadByServer(i)
      BY <1>1 DEF ServerHello, Heads
    <3> QED BY <3>1, <3>2, QueueEffects
  <2> QED BY <1>1, <2>1, <2>2 DEF ServerHello, ServerAlone, ServerLock, ServerFrames, ServerHolds
<1>2. CASE ServerBusy(i)
  <2>1. /\ server'[i].pc = "busy" /\ server[i].pc = "challenge"
        /\ \A j \in Session \ {i} : server'[j] = server[j]
    BY <1>2, <1>a DEF ServerBusy, ServerState
  <2>2. /\ Frames(toServer'[i]) \subseteq Frames(toServer[i])
        /\ \A j \in Session \ {i} : toServer'[j] = toServer[j]
    BY <1>2, <1>b DEF ServerBusy
  <2> QED BY <1>2, <2>1, <2>2 DEF ServerBusy, ServerAlone, ServerLock, ServerFrames, ServerHolds
<1>3. CASE ServerPlan(i)
  <2> DEFINE request == Head(toServer[i])
             plan == BuildPlan(disk[d], request.manifest, baseline[d], i)
             marked == MarkResolved(conflicts[d], request.resolved)
  <2>1. plan \in Plan /\ ResolvedIds(marked) \in SUBSET ConflictId
    <3>1. request.manifest \in Folder
      BY <1>3, HeadOfQueue, FrameKinds DEF ServerPlan
    <3>2. plan \in Plan
      BY <3>1, BuildPlanType
    <3>3. ResolvedIds(marked) \in SUBSET ConflictId
      BY RecordTypes
    <3> QED BY <3>2, <3>3
  <2> HIDE DEF plan, marked
  <2>2. [type |-> "plan", plan |-> plan, resolved |-> ResolvedIds(marked)] \in Frame
    BY <2>1, FrameTypes
  <2>3. /\ ToClient(i, [type |-> "plan", plan |-> plan, resolved |-> ResolvedIds(marked)])
        /\ server' = [server EXCEPT ![i].pc = "receive", ![i].plan = plan]
        /\ server[i].pc = "challenge" /\ TryLock(d)
        /\ toServer[i] # <<>> /\ ReadByServer(i) /\ client' = client
    BY <1>3 DEF ServerPlan, plan, marked, Heads
  <2>4. /\ server'[i].pc = "receive"
        /\ \A j \in Session \ {i} : server'[j] = server[j]
    BY <2>3, <1>a DEF ServerState
  <2>5. /\ Frames(toServer'[i]) \subseteq Frames(toServer[i])
        /\ \A f \in Frames(toClient'[i]) : f \in Frames(toClient[i]) \/ f.type = "plan"
        /\ \A j \in Session \ {i} : toServer'[j] = toServer[j] /\ toClient'[j] = toClient[j]
    <3>1. PICK f \in Frame : f.type = "plan" /\ ToClient(i, f)
      BY <2>2, <2>3
    <3> QED BY <2>3, <3>1, QueueEffects
  <2> QED BY <2>3, <2>4, <2>5 DEF ServerAlone, ServerLock, ServerFrames, ServerHolds
<1>4. CASE ServerReceive(i)
  <2>1. /\ server'[i].pc = "receive" /\ server[i].pc = "receive"
        /\ \A j \in Session \ {i} : server'[j] = server[j]
    BY <1>4, <1>a DEF ServerReceive, ServerState, Plan
  <2>2. /\ Frames(toServer'[i]) \subseteq Frames(toServer[i])
        /\ \A j \in Session \ {i} : toServer'[j] = toServer[j]
    BY <1>4, QueueEffects DEF ServerReceive, Heads
  <2> QED BY <1>4, <2>1, <2>2 DEF ServerReceive, ServerAlone, ServerLock, ServerFrames, ServerHolds
<1>5. CASE ServerUploadsDone(i)
  <2>1. /\ server'[i].pc = "send" /\ server[i].pc = "receive"
        /\ \A j \in Session \ {i} : server'[j] = server[j]
    BY <1>5, <1>a DEF ServerUploadsDone, ServerState
  <2>2. /\ Frames(toServer'[i]) \subseteq Frames(toServer[i])
        /\ \A j \in Session \ {i} : toServer'[j] = toServer[j]
    BY <1>5, QueueEffects DEF ServerUploadsDone, Heads
  <2> QED BY <1>5, <2>1, <2>2
          DEF ServerUploadsDone, ServerAlone, ServerLock, ServerFrames, ServerHolds
<1>6. ASSUME NEW p \in server[i].plan.serverDeletes, ServerDelete(i, p)
      PROVE  Goal
  <2>1. /\ server'[i].pc = "send" /\ server[i].pc = "send"
        /\ \A j \in Session \ {i} : server'[j] = server[j]
    BY <1>6, <1>a DEF ServerDelete, ServerState, Plan
  <2> QED BY <1>6, <2>1 DEF ServerDelete, ServerAlone, ServerLock, ServerFrames, ServerHolds
<1>7. CASE ServerInstall(i)
  <2>1. /\ server'[i].pc = server[i].pc /\ server'[i].final = server[i].final
        /\ \A j \in Session \ {i} : server'[j] = server[j]
    BY <1>7, <1>a DEF ServerInstall, ServerState
  <2> QED BY <1>7, <2>1 DEF ServerInstall, ServerAlone, ServerLock, ServerFrames, ServerHolds
<1>8. ASSUME NEW t \in server[i].plan.serverSends, ServerSend(i, t)
      PROVE  Goal
  <2>1. /\ server'[i].pc = "send" /\ server[i].pc = "send"
        /\ \A j \in Session \ {i} : server'[j] = server[j]
    BY <1>8, <1>a DEF ServerSend, ServerState, Plan
  <2>2. [type |-> "file", transfer |-> t, data |-> disk[d][t.source]] \in Frame
    <3>1. t \in Transfer
      BY DEF Plan
    <3>2. disk[d][t.source] \in Hash
      BY <1>8, <3>1 DEF ServerSend, Transfer, Folder, File
    <3> QED BY <3>1, <3>2, FrameTypes
  <2>3. /\ \A f \in Frames(toClient'[i]) : f \in Frames(toClient[i]) \/ f.type = "file"
        /\ \A j \in Session \ {i} : toClient'[j] = toClient[j]
    <3>1. PICK f \in Frame : f.type = "file" /\ ToClient(i, f)
      BY <1>8, <2>2 DEF ServerSend
    <3> QED BY <3>1, QueueEffects
  <2> QED BY <1>8, <2>1, <2>3 DEF ServerSend, ServerAlone, ServerLock, ServerFrames, ServerHolds
<1>9. CASE ServerTransfersDone(i)
  <2>1. /\ server'[i].pc = "ack" /\ server[i].pc = "send"
        /\ \A j \in Session \ {i} : server'[j] = server[j]
    BY <1>9, <1>a DEF ServerTransfersDone, ServerState
  <2>2. /\ \A f \in Frames(toClient'[i]) : f \in Frames(toClient[i]) \/ f.type = "transfers_done"
        /\ \A j \in Session \ {i} : toClient'[j] = toClient[j]
    <3>1. PICK f \in Frame : f.type = "transfers_done" /\ ToClient(i, f)
      BY <1>9, FrameTypes DEF ServerTransfersDone
    <3> QED BY <3>1, QueueEffects
  <2> QED BY <1>9, <2>1, <2>2
          DEF ServerTransfersDone, ServerAlone, ServerLock, ServerFrames, ServerHolds
<1>10. CASE ServerRescan(i)
  <2>1. /\ toServer[i] # <<>> /\ ReadByServer(i) /\ server[i].pc = "ack"
        /\ Head(toServer[i]) \in Frames(toServer[i]) /\ Head(toServer[i]).type = "ack"
        /\ client' = client /\ toClient' = toClient
    BY <1>10, FramesOf DEF ServerRescan, Heads
  <2>2. /\ Frames(toServer'[i]) \subseteq Frames(toServer[i])
        /\ \A j \in Session \ {i} : toServer'[j] = toServer[j]
    BY <2>1, QueueEffects
  <2>3. CASE /\ disk[d] = Head(toServer[i]).manifest
             /\ server' = [server EXCEPT ![i].pc = "commit", ![i].plan = EmptyPlan,
                                         ![i].final = disk[d]]
             /\ locked' = locked
    <3>1. /\ server'[i].pc = "commit" /\ server'[i].final = Head(toServer[i]).manifest
          /\ \A j \in Session \ {i} : server'[j] = server[j]
      BY <2>3, <1>a DEF ServerState
    <3> QED BY <2>1, <2>2, <2>3, <3>1 DEF ServerAlone, ServerLock, ServerFrames, ServerHolds
  <2>4. CASE /\ server' = [server EXCEPT ![i].pc = "failed", ![i].plan = EmptyPlan]
             /\ Unlock(d)
    <3>1. /\ server'[i].pc = "failed"
          /\ \A j \in Session \ {i} : server'[j] = server[j]
      BY <2>4, <1>a DEF ServerState
    <3> QED BY <2>1, <2>2, <2>4, <3>1 DEF ServerAlone, ServerLock, ServerFrames, ServerHolds
  <2> QED BY <1>10, <2>3, <2>4 DEF ServerRescan, ManifestsEqual
<1>11. CASE ServerCommit(i)
  <2>1. /\ server'[i].pc = "result" /\ server[i].pc = "commit"
        /\ server'[i].final = server[i].final
        /\ \A j \in Session \ {i} : server'[j] = server[j]
    BY <1>11, <1>a DEF ServerCommit, ServerState
  <2> QED BY <1>11, <2>1 DEF ServerCommit, ServerAlone, ServerLock, ServerFrames, ServerHolds
<1>12. CASE ServerResult(i)
  <2>1. /\ server'[i].pc = "done" /\ server[i].pc = "result"
        /\ server'[i].final = server[i].final
        /\ \A j \in Session \ {i} : server'[j] = server[j]
    BY <1>12, <1>a DEF ServerResult, ServerState
  <2>2. /\ \A j \in Session \ {i} : toClient'[j] = toClient[j]
    BY <1>12, FrameTypes, QueueEffects DEF ServerResult
  <2> QED BY <1>12, <2>1, <2>2 DEF ServerResult, ServerAlone, ServerLock, ServerFrames, ServerHolds
<1>13. CASE ServerFails(i)
  <2>1. /\ server'[i].pc \in {"unsent", "failed"} /\ client[i].pc # "idle"
        /\ ~ServerEnded(i)
        /\ \A j \in Session \ {i} : server'[j] = server[j]
    BY <1>13, <1>a DEF ServerFails, ServerState
  <2>2. /\ Frames(toServer'[i]) \subseteq Frames(toServer[i])
        /\ \A j \in Session \ {i} : toServer'[j] = toServer[j]
    BY <1>13, <1>b DEF ServerFails
  <2> QED BY <1>13, <2>1, <2>2
          DEF ServerFails, ServerAlone, ServerLock, ServerFrames, ServerHolds, ServerEnded
<1> QED BY <1>1, <1>2, <1>3, <1>4, <1>5, <1>6, <1>7, <1>8, <1>9, <1>10, <1>11, <1>12,
           <1>13 DEF ServerStep

-----------------------------------------------------------------------------
(* The invariant is kept                                                   *)

LEMMA InvInit == Init => IInv
<1> SUFFICES ASSUME Init PROVE IInv
  OBVIOUS
<1>1. \A i \in Session : /\ client[i].pc = "idle" /\ server[i].pc = "idle"
                         /\ toServer[i] = <<>> /\ toClient[i] = <<>>
  BY DEF Init
<1>2. \A i \in Session : Frames(toServer[i]) = {} /\ Frames(toClient[i]) = {}
  <2>1. Frames(<<>>) = {}
    BY DEF Frames
  <2> QED BY <1>1, <2>1
<1>3. LockInv
  BY <1>1 DEF Init, LockInv, HoldersLock, HoldersDiffer, LockHasHolder, ServerAfterDial,
              ClientRunning, ServerHolds
<1>4. CommitInv
  BY <1>1, <1>2 DEF CommitInv, AckIsFinal, CommitIsCommon, ResultIsCommitted
<1> QED BY <1>3, <1>4, TypeInit DEF IInv

\* Who holds the lock after a step of a client.
LEMMA LockByClient ==
  ASSUME IInv, NEW i \in Session, ClientAlone(i), ClientLock(i)
  PROVE  LockInv'
<1>1. \A j \in Session : /\ ServerDev(j)' = ServerDev(j) /\ (ServerHolds(j)' <=> ServerHolds(j))
                         /\ client'[j].dev = client[j].dev
                         /\ client[j].dev \in Device
  BY SideTypes DEF IInv, ClientAlone, ServerDev, ServerHolds
<1>2. \A j \in Session \ {i} : ClientRunning(j)' <=> ClientRunning(j)
  BY DEF ClientAlone, ClientRunning, ClientEnded
<1>3. ServerAfterDial'
  BY DEF IInv, LockInv, ServerAfterDial, ClientAlone
<1>4. locked \in [Device -> BOOLEAN]
  BY DEF IInv, StateOK
<1>5. CASE locked' = locked /\ (ClientRunning(i)' <=> ClientRunning(i))
  <2>1. \A j \in Session : ClientRunning(j)' <=> ClientRunning(j)
    BY <1>2, <1>5
  <2>2. HoldersLock'
    BY <1>1, <1>5, <2>1 DEF IInv, LockInv, HoldersLock
  <2>3. HoldersDiffer'
    BY <1>1, <2>1 DEF IInv, LockInv, HoldersDiffer
  <2>4. LockHasHolder'
    BY <1>1, <1>5, <2>1 DEF IInv, LockInv, LockHasHolder
  <2> QED BY <1>3, <2>2, <2>3, <2>4 DEF LockInv
<1>6. CASE ClientRunning(i) /\ ~ClientRunning(i)' /\ Unlock(client[i].dev)
  <2>1. /\ ~locked'[client[i].dev]
        /\ \A d \in Device \ {client[i].dev} : locked'[d] = locked[d]
    BY <1>1, <1>4, <1>6 DEF Unlock
  <2>2. /\ \A j \in Session \ {i} : ClientRunning(j) => client[j].dev # client[i].dev
        /\ \A j \in Session : ServerHolds(j) => ServerDev(j) # client[i].dev
    BY <1>6 DEF IInv, LockInv, HoldersDiffer
  <2>3. HoldersLock'
    BY <1>1, <1>2, <1>6, <2>1, <2>2, SideTypes DEF IInv, LockInv, HoldersLock
  <2>4. HoldersDiffer'
    BY <1>1, <1>2, <1>6 DEF IInv, LockInv, HoldersDiffer
  <2>5. LockHasHolder'
    BY <1>1, <1>2, <1>6, <2>1 DEF IInv, LockInv, LockHasHolder
  <2> QED BY <1>3, <2>3, <2>4, <2>5 DEF LockInv
<1> QED BY <1>5, <1>6 DEF ClientLock

\* Who holds the lock after a step of a server.
LEMMA LockByServer ==
  ASSUME IInv, NEW i \in Session, ServerAlone(i), ServerLock(i)
  PROVE  LockInv'
<1>1. \A j \in Session : /\ ServerDev(j)' = ServerDev(j) /\ (ClientRunning(j)' <=> ClientRunning(j))
                         /\ client'[j].dev = client[j].dev
                         /\ client[j].dev \in Device /\ ServerDev(j) \in Device
                         /\ ServerDev(j) # client[j].dev
  BY SideTypes, PeerOfDevice DEF IInv, ServerAlone, ServerDev, ClientRunning, ClientEnded
<1>2. \A j \in Session \ {i} : ServerHolds(j)' <=> ServerHolds(j)
  BY DEF ServerAlone, ServerHolds
<1>3. ServerAfterDial'
  BY DEF IInv, LockInv, ServerAfterDial, ServerAlone
<1>4. locked \in [Device -> BOOLEAN]
  BY DEF IInv, StateOK
<1>5. CASE locked' = locked /\ (ServerHolds(i)' <=> ServerHolds(i))
  <2>1. \A j \in Session : ServerHolds(j)' <=> ServerHolds(j)
    BY <1>2, <1>5
  <2>2. HoldersLock'
    BY <1>1, <1>5, <2>1 DEF IInv, LockInv, HoldersLock
  <2>3. HoldersDiffer'
    BY <1>1, <2>1 DEF IInv, LockInv, HoldersDiffer
  <2>4. LockHasHolder'
    BY <1>1, <1>5, <2>1 DEF IInv, LockInv, LockHasHolder
  <2> QED BY <1>3, <2>2, <2>3, <2>4 DEF LockInv
<1>6. CASE ~ServerHolds(i) /\ ServerHolds(i)' /\ TryLock(ServerDev(i))
  <2>1. /\ ~locked[ServerDev(i)] /\ locked'[ServerDev(i)]
        /\ \A d \in Device \ {ServerDev(i)} : locked'[d] = locked[d]
    BY <1>1, <1>4, <1>6 DEF TryLock
  <2>2. /\ \A j \in Session : ClientRunning(j) => client[j].dev # ServerDev(i)
        /\ \A j \in Session : ServerHolds(j) => ServerDev(j) # ServerDev(i)
    BY <2>1 DEF IInv, LockInv, HoldersLock
  <2>3. HoldersLock'
    BY <1>1, <1>2, <1>6, <2>1, <2>2 DEF IInv, LockInv, HoldersLock
  <2>4. HoldersDiffer'
    BY <1>1, <1>2, <1>6, <2>2 DEF IInv, LockInv, HoldersDiffer
  <2>5. LockHasHolder'
    <3> SUFFICES ASSUME NEW d \in Device, locked'[d]
                 PROVE  \E j \in Session : \/ ClientRunning(j)' /\ client'[j].dev = d
                                           \/ ServerHolds(j)' /\ ServerDev(j)' = d
      BY DEF LockHasHolder
    <3>1. CASE d = ServerDev(i)
      BY <3>1, <1>1, <1>6
    <3>2. CASE d # ServerDev(i)
      <4>1. PICK j \in Session : \/ ClientRunning(j) /\ client[j].dev = d
                                 \/ ServerHolds(j) /\ ServerDev(j) = d
        BY <3>2, <2>1 DEF IInv, LockInv, LockHasHolder
      <4> QED BY <3>2, <4>1, <1>1, <1>2
    <3> QED BY <3>1, <3>2
  <2> QED BY <1>3, <2>3, <2>4, <2>5 DEF LockInv
<1>7. CASE ServerHolds(i) /\ ~ServerHolds(i)' /\ Unlock(ServerDev(i))
  <2>1. /\ ~locked'[ServerDev(i)]
        /\ \A d \in Device \ {ServerDev(i)} : locked'[d] = locked[d]
    BY <1>1, <1>4, <1>7 DEF Unlock
  <2>2. /\ \A j \in Session \ {i} : ServerHolds(j) => ServerDev(j) # ServerDev(i)
        /\ \A j \in Session : ClientRunning(j) => client[j].dev # ServerDev(i)
    BY <1>7 DEF IInv, LockInv, HoldersDiffer
  <2>3. HoldersLock'
    BY <1>1, <1>2, <1>7, <2>1, <2>2 DEF IInv, LockInv, HoldersLock
  <2>4. HoldersDiffer'
    BY <1>1, <1>2, <1>7 DEF IInv, LockInv, HoldersDiffer
  <2>5. LockHasHolder'
    BY <1>1, <1>2, <1>7, <2>1 DEF IInv, LockInv, LockHasHolder
  <2> QED BY <1>3, <2>3, <2>4, <2>5 DEF LockInv
<1> QED BY <1>5, <1>6, <1>7 DEF ServerLock

\* What is agreed on after a step of a client, and of a server.
LEMMA CommitByClient ==
  ASSUME IInv, NEW i \in Session, ClientAlone(i), ClientFrames(i)
  PROVE  CommitInv'
<1>1. client[i].pc \in Acked => client[i].pc # "receive"
  BY DEF Acked
<1>2. AckIsFinal'
  <2> SUFFICES ASSUME NEW j \in Session, NEW f \in Frames(toServer'[j]), f.type = "ack"
               PROVE  client'[j].pc \in Acked /\ f.manifest = client'[j].final
    BY DEF AckIsFinal
  <2>1. CASE j # i
    BY <2>1 DEF IInv, CommitInv, AckIsFinal, ClientAlone
  <2>2. CASE j = i /\ f \in Frames(toServer[i])
    BY <2>2, <1>1 DEF IInv, CommitInv, AckIsFinal, ClientFrames
  <2>3. CASE j = i /\ f \notin Frames(toServer[i])
    BY <2>3 DEF ClientFrames, Acked
  <2> QED BY <2>1, <2>2, <2>3
<1>3. CommitIsCommon'
  BY <1>1 DEF IInv, CommitInv, CommitIsCommon, ClientAlone, ClientFrames
<1>4. ResultIsCommitted'
  BY DEF IInv, CommitInv, ResultIsCommitted, ClientAlone, ClientFrames
<1> QED BY <1>2, <1>3, <1>4 DEF CommitInv

LEMMA CommitByServer ==
  ASSUME IInv, NEW i \in Session, ServerAlone(i), ServerFrames(i)
  PROVE  CommitInv'
<1>1. AckIsFinal'
  BY DEF IInv, CommitInv, AckIsFinal, ServerAlone, ServerFrames
<1>2. CommitIsCommon'
  BY DEF IInv, CommitInv, CommitIsCommon, AckIsFinal, ServerAlone, ServerFrames
<1>3. ResultIsCommitted'
  BY DEF IInv, CommitInv, ResultIsCommitted, ServerAlone, ServerFrames
<1> QED BY <1>1, <1>2, <1>3 DEF CommitInv

\* A device that is not in a session dials.
LEMMA InvByDial ==
  ASSUME IInv, NEW i \in Session, NEW d \in Device, Dial(i, d)
  PROVE  LockInv' /\ CommitInv'
<1>1. /\ client \in [Session -> ClientState] /\ toServer \in [Session -> Seq(Frame)]
      /\ locked \in [Device -> BOOLEAN]
      /\ client[i].pc = "idle" /\ server[i].pc = "idle" /\ toServer[i] = <<>>
      /\ server' = server /\ toClient' = toClient
  BY DEF IInv, StateOK, LockInv, ServerAfterDial, Dial
<1>2. /\ client'[i].pc = "hello" /\ client'[i].dev = d
      /\ \A j \in Session \ {i} : client'[j] = client[j] /\ toServer'[j] = toServer[j]
      /\ toServer'[i] = Append(<<>>, [type |-> "hello"])
  BY <1>1 DEF Dial, ClientState
<1>3. /\ ~locked[d] /\ locked'[d]
      /\ \A e \in Device \ {d} : locked'[e] = locked[e]
  BY <1>1 DEF Dial, TryLock
<1>4. /\ \A j \in Session : ServerHolds(j)' <=> ServerHolds(j)
      /\ ~ServerHolds(i) /\ ~ClientRunning(i) /\ ClientRunning(i)'
      /\ \A j \in Session \ {i} : /\ ClientRunning(j)' <=> ClientRunning(j)
                                  /\ ServerDev(j)' = ServerDev(j)
                                  /\ client'[j].dev = client[j].dev
      /\ \A j \in Session : client[j].dev \in Device /\ ServerDev(j) \in Device
  BY <1>1, <1>2, SideTypes DEF IInv, ServerHolds, ClientRunning, ClientEnded, ServerDev
<1>5. /\ \A j \in Session : ClientRunning(j) => client[j].dev # d
      /\ \A j \in Session : ServerHolds(j) => ServerDev(j) # d
  BY <1>3 DEF IInv, LockInv, HoldersLock
<1>6. HoldersLock'
  BY <1>2, <1>3, <1>4, <1>5 DEF IInv, LockInv, HoldersLock
<1>7. HoldersDiffer'
  <2> SUFFICES ASSUME NEW j \in Session, NEW k \in Session
               PROVE  /\ ClientRunning(j)' /\ ClientRunning(k)' /\ client'[j].dev = client'[k].dev
                        => j = k
                      /\ ServerHolds(j)' /\ ServerHolds(k)' /\ ServerDev(j)' = ServerDev(k)' => j = k
                      /\ ClientRunning(j)' /\ ServerHolds(k)' => client'[j].dev # ServerDev(k)'
    BY DEF HoldersDiffer
  <2>1. /\ ClientRunning(j)' /\ ClientRunning(k)' /\ client'[j].dev = client'[k].dev => j = k
    BY <1>2, <1>4, <1>5 DEF IInv, LockInv, HoldersDiffer
  <2>2. ServerHolds(j)' /\ ServerHolds(k)' /\ ServerDev(j)' = ServerDev(k)' => j = k
    BY <1>4 DEF IInv, LockInv, HoldersDiffer
  <2>3. ClientRunning(j)' /\ ServerHolds(k)' => client'[j].dev # ServerDev(k)'
    BY <1>2, <1>4, <1>5 DEF IInv, LockInv, HoldersDiffer
  <2> QED BY <2>1, <2>2, <2>3
<1>8. LockHasHolder'
  <2> SUFFICES ASSUME NEW e \in Device, locked'[e]
               PROVE  \E j \in Session : \/ ClientRunning(j)' /\ client'[j].dev = e
                                         \/ ServerHolds(j)' /\ ServerDev(j)' = e
    BY DEF LockHasHolder
  <2>1. CASE e = d
    BY <2>1, <1>2, <1>4
  <2>2. CASE e # d
    <3>1. PICK j \in Session : \/ ClientRunning(j) /\ client[j].dev = e
                               \/ ServerHolds(j) /\ ServerDev(j) = e
      BY <2>2, <1>3 DEF IInv, LockInv, LockHasHolder
    <3>2. j # i
      BY <3>1, <1>4
    <3> QED BY <3>1, <3>2, <1>4
  <2> QED BY <2>1, <2>2
<1>9. ServerAfterDial'
  BY <1>1, <1>2 DEF IInv, LockInv, ServerAfterDial
<1>10. \A f \in Frames(toServer'[i]) : f.type # "ack"
  <2>1. Append(<<>>, [type |-> "hello"]) = <<[type |-> "hello"]>>
    OBVIOUS
  <2>2. \A f \in Frames(<<[type |-> "hello"]>>) : f.type = "hello"
    BY DEF Frames
  <2> QED BY <1>2, <2>1, <2>2
<1>11. AckIsFinal' /\ CommitIsCommon' /\ ResultIsCommitted'
  BY <1>1, <1>2, <1>10, ZenonT(30) DEF IInv, CommitInv, AckIsFinal, CommitIsCommon, ResultIsCommitted
<1> QED BY <1>6, <1>7, <1>8, <1>9, <1>11 DEF LockInv, CommitInv

LEMMA InvStep == IInv /\ [Next]_vars => IInv'
<1> SUFFICES ASSUME IInv, [Next]_vars PROVE IInv'
  OBVIOUS
<1>1. StateOK /\ StateOK'
  BY TypeStep DEF IInv
<1>2. ASSUME NEW i \in Session, NEW d \in Device, Dial(i, d) PROVE IInv'
  BY <1>1, <1>2, InvByDial DEF IInv
<1>3. ASSUME NEW i \in Session, ClientStep(i) \/ ClientFails(i) PROVE IInv'
  BY <1>1, <1>3, ClientEffects, LockByClient, CommitByClient DEF IInv
<1>4. ASSUME NEW i \in Session, ServerStep(i) \/ ServerFails(i) PROVE IInv'
  BY <1>1, <1>4, ServerEffects, LockByServer, CommitByServer DEF IInv
<1>5. ASSUME UNCHANGED <<locked, client, server, toServer, toClient>> PROVE IInv'
  <2>1. LockInv'
    BY <1>5 DEF IInv, LockInv, HoldersLock, HoldersDiffer, LockHasHolder, ServerAfterDial,
                ClientRunning, ClientEnded, ServerHolds, ServerDev
  <2>2. CommitInv'
    BY <1>5 DEF IInv, CommitInv, AckIsFinal, CommitIsCommon, ResultIsCommitted
  <2> QED BY <1>1, <2>1, <2>2 DEF IInv
<1>6. ASSUME NEW d \in Device, NEW p \in Path, NEW v \in File, Edit(d, p, v) PROVE IInv'
  BY <1>5, <1>6 DEF Edit
<1>7. CASE UNCHANGED vars
  BY <1>5, <1>7 DEF vars
<1> QED BY <1>2, <1>3, <1>4, <1>6, <1>7 DEF Next, Fault

-----------------------------------------------------------------------------
(* The theorems                                                            *)

\* Folders, stored records, frames under way and both sides keep their types.
THEOREM TypeCorrect == Spec => []TypeOK
<1> DEFINE Traces == late \in [Session -> SUBSET (Device \X Path)] /\ cut \in [Session -> BOOLEAN]
<1>1. Init => Traces
  BY DEF Init
<1>2. ASSUME Traces, [Next]_vars PROVE Traces'
  <2>1. CASE \E i \in Session, d \in Device : Dial(i, d)
    BY <1>2, <2>1 DEF Dial
  <2>2. CASE \E i \in Session : ClientStep(i) \/ ServerStep(i) \/ Fault(i)
    <3> PICK i \in Session : ClientStep(i) \/ ServerStep(i) \/ Fault(i)
      BY <2>2
    <3>1. late' = late /\ (cut' = cut \/ cut' = [cut EXCEPT ![i] = TRUE])
      <4>1. CASE ClientStep(i)
        BY <4>1 DEF ClientStep
      <4>2. CASE ServerStep(i)
        BY <4>2 DEF ServerStep
      <4> QED BY <4>1, <4>2 DEF Fault
    <3> QED BY <1>2, <3>1
  <2>3. CASE \E d \in Device, p \in Path, v \in File : Edit(d, p, v)
    <3> PICK d \in Device, p \in Path, v \in File : Edit(d, p, v)
      BY <2>3
    <3>1. /\ cut' = cut
          /\ late' = [i \in Session |-> late[i] \cup {x \in {<<d, p>>} : Replacing(i, d, p)}]
      BY DEF Edit
    <3> QED BY <1>2, <3>1
  <2>4. CASE UNCHANGED vars
    BY <1>2, <2>4 DEF vars
  <2> QED BY <1>2, <2>1, <2>2, <2>3, <2>4 DEF Next
<1>3. IInv => StateOK
  BY DEF IInv
<1>4. Traces /\ StateOK => TypeOK
  BY DEF TypeOK
<1> HIDE DEF Traces
<1> QED BY <1>1, <1>2, <1>3, <1>4, InvInit, InvStep, PTL DEF Spec

\* A device never runs two sessions past their TryLock, and its lock is taken
\* exactly while it runs one.
THEOREM MutualExclusion == Spec => []OneSessionAtATime
<1>1. IInv => OneSessionAtATime
  <2> SUFFICES ASSUME IInv, NEW d \in Device
               PROVE  /\ \A x, y \in Holders(d) : x = y
                      /\ Holders(d) # {} <=> locked[d]
    BY DEF OneSessionAtATime
  <2>1. ASSUME NEW x \in Holders(d)
        PROVE  \E i \in Session :
                 \/ x = <<i, "client">> /\ ClientRunning(i) /\ client[i].dev = d
                 \/ x = <<i, "server">> /\ ServerHolds(i) /\ ServerDev(i) = d
    BY DEF Holders, ClientHolders, ServerHolders
  <2>2. ASSUME NEW x \in Holders(d), NEW y \in Holders(d) PROVE x = y
    BY <2>1 DEF IInv, LockInv, HoldersDiffer
  <2>3. Holders(d) # {} => locked[d]
    BY <2>1 DEF IInv, LockInv, HoldersLock
  <2>4. locked[d] => Holders(d) # {}
    BY DEF IInv, LockInv, LockHasHolder, Holders, ClientHolders, ServerHolders
  <2> QED BY <2>2, <2>3, <2>4
<1> QED BY <1>1, InvInit, InvStep, PTL DEF Spec

\* A baseline is only ever the manifest that both devices of a session found
\* last, and the client stores it after the server.
THEOREM BaselineIsCommon == Spec => CommonBaselineOnly
<1> DEFINE Stored(d) ==
      \E i \in Session :
        /\ d \in {client[i].dev, ServerDev(i)}
        /\ server[i].pc = IF d = client[i].dev THEN "done" ELSE "commit"
        /\ client[i].final = baseline'[d] /\ server[i].final = baseline'[d]
<1>1. ASSUME IInv, NEW i \in Session, ClientCommit(i), NEW d \in Device,
             baseline'[d] # baseline[d]
      PROVE  Stored(d)
  <2>1. /\ baseline \in [Device -> Folder] /\ client[i].dev \in Device
        /\ baseline' = [baseline EXCEPT ![client[i].dev] = client[i].final]
    BY <1>1, SideTypes DEF IInv, StateOK, ClientCommit
  <2>2. d = client[i].dev /\ baseline'[d] = client[i].final
    BY <1>1, <2>1
  <2>3. toClient[i] \in Seq(Frame) /\ toClient[i] # <<>> /\ Head(toClient[i]).type = "result"
    BY <1>1, SideTypes DEF IInv, ClientCommit, Heads
  <2>4. Head(toClient[i]) \in Frames(toClient[i])
    BY <2>3, FramesOf
  <2>5. server[i].pc = "done"
    BY <1>1, <2>3, <2>4 DEF IInv, CommitInv, ResultIsCommitted
  <2>6. client[i].final = server[i].final
    BY <1>1, <2>5 DEF IInv, CommitInv, CommitIsCommon
  <2> QED BY <2>2, <2>5, <2>6
<1>2. ASSUME IInv, NEW i \in Session, ServerCommit(i), NEW d \in Device,
             baseline'[d] # baseline[d]
      PROVE  Stored(d)
  <2>1. /\ baseline \in [Device -> Folder] /\ ServerDev(i) \in Device
        /\ baseline' = [baseline EXCEPT ![ServerDev(i)] = server[i].final]
        /\ server[i].pc = "commit"
    BY <1>2, SideTypes DEF IInv, StateOK, ServerCommit
  <2>2. d = ServerDev(i) /\ baseline'[d] = server[i].final
    BY <1>2, <2>1
  <2>3. d # client[i].dev
    BY <1>2, <2>2, SideTypes, PeerOfDevice DEF IInv, ServerDev
  <2>4. client[i].final = server[i].final
    BY <1>2, <2>1 DEF IInv, CommitInv, CommitIsCommon
  <2> QED BY <2>1, <2>2, <2>3, <2>4
<1>3. ASSUME IInv, [Next]_vars, NEW d \in Device, baseline'[d] # baseline[d]
      PROVE  Stored(d)
  <2>1. ASSUME NEW i \in Session, ClientStep(i) \/ ClientFails(i)
        PROVE  ClientCommit(i) \/ baseline' = baseline
    BY <2>1 DEF ClientStep, store, ClientScan, ClientPlan, ClientSend, ClientUploadsDone,
                ClientDelete, ClientReceive, ClientInstall, ClientFinish, ClientReceived, ClientFails
  <2>2. ASSUME NEW i \in Session, ServerStep(i) \/ ServerFails(i)
        PROVE  ServerCommit(i) \/ baseline' = baseline
    BY <2>2 DEF ServerStep, store, ServerHello, ServerBusy, ServerPlan, ServerReceive,
                ServerUploadsDone, ServerDelete, ServerInstall, ServerSend,
                ServerTransfersDone, ServerRescan, ServerResult, ServerFails
  <2>3. ASSUME NEW i \in Session, NEW e \in Device, Dial(i, e) PROVE baseline' = baseline
    BY <2>3 DEF Dial, store
  <2>4. ASSUME NEW e \in Device, NEW p \in Path, NEW v \in File, Edit(e, p, v)
        PROVE  baseline' = baseline
    BY <2>4 DEF Edit, store
  <2>5. UNCHANGED vars => baseline' = baseline
    BY DEF vars, store
  <2>6. \E i \in Session : ClientCommit(i) \/ ServerCommit(i)
    BY <1>3, <2>1, <2>2, <2>3, <2>4, <2>5 DEF Next, Fault
  <2> QED BY <2>6, <1>1, <1>2, <1>3
<1>4. IInv /\ [Next]_vars =>
        [\A d \in Device : baseline'[d] # baseline[d] => Stored(d)]_vars
  BY <1>3
<1> QED BY <1>4, InvInit, InvStep, PTL DEF Spec, CommonBaselineOnly
-----------------------------------------------------------------------------
(* Queues, in more detail                                                  *)

\* A queue holds a frame of this type.
Has(queue, kind) == \E f \in Frames(queue) : f.type = kind

\* What reading a frame of one type, and writing one, does to a queue.
Reads(queue, left, kind) ==
  /\ Has(queue, kind)
  /\ \A k : /\ Has(left, k) => Has(queue, k)
            /\ (k # kind /\ Has(queue, k)) => Has(left, k)
Writes(queue, longer, closed, kind) ==
  \A k : Has(longer, k) <=> (Has(queue, k) \/ (k = kind /\ ~closed))

LEMMA FramesExactly ==
  ASSUME NEW queue \in Seq(Frame)
  PROVE  /\ \A f \in Frame : Frames(Append(queue, f)) = Frames(queue) \cup {f}
         /\ queue # <<>> => Frames(queue) = {Head(queue)} \cup Frames(Tail(queue))
<1>1. ASSUME NEW f \in Frame
      PROVE  Frames(Append(queue, f)) = Frames(queue) \cup {f}
  <2>1. /\ Len(queue) \in Nat
        /\ Len(Append(queue, f)) = Len(queue) + 1
        /\ Append(queue, f)[Len(queue) + 1] = f
        /\ \A k \in 1..Len(queue) : Append(queue, f)[k] = queue[k]
    OBVIOUS
  <2>2. \A k \in 1..Len(queue) : k \in 1..Len(Append(queue, f))
    BY <2>1
  <2>3. Len(queue) + 1 \in 1..Len(Append(queue, f))
    BY <2>1
  <2>4. Frames(queue) \cup {f} \subseteq Frames(Append(queue, f))
    BY <2>1, <2>2, <2>3 DEF Frames
  <2> QED BY <2>4, FramesOf
<1>2. ASSUME queue # <<>>
      PROVE  Frames(queue) = {Head(queue)} \cup Frames(Tail(queue))
  <2>1. Len(queue) \in Nat /\ Len(queue) >= 1 /\ Head(queue) = queue[1]
    BY <1>2
  <2>2. /\ Len(Tail(queue)) = Len(queue) - 1
        /\ \A k \in 1..Len(Tail(queue)) : Tail(queue)[k] = queue[k + 1]
    BY <1>2, <2>1
  <2>3. \A k \in 1..Len(queue) : queue[k] \in {Head(queue)} \cup Frames(Tail(queue))
    <3> SUFFICES ASSUME NEW k \in 1..Len(queue), k # 1
                 PROVE  queue[k] \in Frames(Tail(queue))
      BY <2>1
    <3>1. k - 1 \in 1..Len(Tail(queue)) /\ (k - 1) + 1 = k
      BY <2>1, <2>2
    <3>2. Tail(queue)[k - 1] = queue[k]
      BY <2>2, <3>1
    <3> QED BY <3>1, <3>2 DEF Frames
  <2>4. Frames(queue) \subseteq {Head(queue)} \cup Frames(Tail(queue))
    BY <2>3 DEF Frames
  <2> QED BY <1>2, <2>4, FramesOf
<1> QED BY <1>1, <1>2

LEMMA EmptyHasNone ==
  ASSUME NEW kind PROVE ~Has(<<>>, kind)
  BY DEF Has, Frames

LEMMA WritesFrame ==
  ASSUME StateOK, NEW i \in Session, NEW f \in Frame
  PROVE  /\ ToServer(i, f) => Writes(toServer[i], toServer'[i], ServerEnded(i), f.type)
         /\ ToClient(i, f) => Writes(toClient[i], toClient'[i], ClientEnded(i), f.type)
<1>1. toServer \in [Session -> Seq(Frame)] /\ toClient \in [Session -> Seq(Frame)]
  BY DEF StateOK
<1>2. ASSUME NEW q \in Seq(Frame), NEW closed \in BOOLEAN, NEW r, r = Written(q, closed, f)
      PROVE  Writes(q, r, closed, f.type)
  <2>1. Frames(Append(q, f)) = Frames(q) \cup {f}
    BY FramesExactly
  <2>2. CASE closed
    <3>1. r = q
      BY <1>2, <2>2, Zenon DEF Written
    <3> QED BY <3>1, <2>2 DEF Writes
  <2>3. CASE ~closed
    <3>1. Frames(r) = Frames(q) \cup {f}
      BY <1>2, <2>1, <2>3 DEF Written
    <3> QED BY <3>1, <2>3 DEF Writes, Has
  <2> QED BY <2>2, <2>3
<1>3. ASSUME ToServer(i, f)
      PROVE  Writes(toServer[i], toServer'[i], ServerEnded(i), f.type)
  <2>1. toServer'[i] = Written(toServer[i], ServerEnded(i), f) /\ toServer[i] \in Seq(Frame)
    BY <1>1, <1>3, Zenon DEF ToServer
  <2>2. ServerEnded(i) \in BOOLEAN
    BY DEF ServerEnded
  <2> QED BY <2>1, <2>2, <1>2, Zenon
<1>4. ASSUME ToClient(i, f)
      PROVE  Writes(toClient[i], toClient'[i], ClientEnded(i), f.type)
  <2>1. toClient'[i] = Written(toClient[i], ClientEnded(i), f) /\ toClient[i] \in Seq(Frame)
    BY <1>1, <1>4, Zenon DEF ToClient
  <2>2. ClientEnded(i) \in BOOLEAN
    BY DEF ClientEnded
  <2> QED BY <2>1, <2>2, <1>2, Zenon
<1> QED BY <1>3, <1>4

LEMMA ReadsFrame ==
  ASSUME StateOK, NEW i \in Session, NEW kind
  PROVE  /\ Heads(toServer[i], kind) /\ ReadByServer(i) => Reads(toServer[i], toServer'[i], kind)
         /\ Heads(toClient[i], kind) /\ ReadByClient(i) => Reads(toClient[i], toClient'[i], kind)
<1>1. /\ toServer \in [Session -> Seq(Frame)] /\ toClient \in [Session -> Seq(Frame)]
      /\ toServer[i] \in Seq(Frame) /\ toClient[i] \in Seq(Frame)
  BY DEF StateOK
<1>2. ASSUME NEW q \in Seq(Frame), Heads(q, kind)
      PROVE  Reads(q, Tail(q), kind)
  <2>1. Frames(q) = {Head(q)} \cup Frames(Tail(q)) /\ Head(q).type = kind
    BY <1>2, FramesExactly DEF Heads
  <2> QED BY <2>1 DEF Reads, Has
<1>3. ReadByServer(i) => toServer'[i] = Tail(toServer[i])
  BY <1>1 DEF ReadByServer
<1>4. ReadByClient(i) => toClient'[i] = Tail(toClient[i])
  BY <1>1 DEF ReadByClient
<1> QED BY <1>1, <1>2, <1>3, <1>4

-----------------------------------------------------------------------------
(* The handshake: what each side has sent when the other one waits for it   *)

OpInv ==
  \A i \in Session :
    /\ client[i].op # NoOp => client[i].pc = "receive"
    /\ server[i].op # NoOp => server[i].pc \in {"receive", "send"}

\* What a frame under way says about its sender.
Sender(i) ==
  /\ Has(toClient[i], "challenge") => server[i].pc # "idle"
  /\ Has(toServer[i], "sync_request") => client[i].pc \notin {"idle", "hello"}
  /\ Has(toClient[i], "plan") => server[i].pc \notin {"idle", "challenge", "busy"}
  /\ Has(toServer[i], "file") \/ Has(toServer[i], "uploads_done") =>
       server[i].pc \notin {"idle", "challenge"}
  /\ Has(toServer[i], "uploads_done") => client[i].pc \notin {"idle", "hello", "request", "upload"}
  /\ Has(toClient[i], "transfers_done") =>
       server[i].pc \notin {"idle", "challenge", "busy", "receive", "send"}
  /\ Has(toServer[i], "ack") => server[i].pc \notin {"idle", "challenge", "busy", "receive", "send"}

\* Each side is past what the other one waited for.
Order(i) ==
  /\ client[i].pc = "idle" => server[i].pc = "idle" /\ toClient[i] = <<>>
  /\ client[i].pc \in {"request", "upload", "receive", "ack", "done"} => server[i].pc # "idle"
  /\ client[i].pc \in {"upload", "receive", "ack", "done"} =>
       server[i].pc \notin {"idle", "challenge", "busy"}
  /\ client[i].pc \in {"ack", "done"} => server[i].pc \notin {"receive", "send"}
  /\ server[i].pc \in {"receive", "busy"} => client[i].pc \notin {"idle", "hello"}
  /\ server[i].pc \in {"send", "ack", "commit", "result", "done", "unsent"} =>
       client[i].pc \notin {"idle", "hello", "request", "upload"}

\* What one side waits for the other one has sent, and it is not lost.
UnderWay(i) ==
  /\ client[i].pc = "hello" /\ server[i].pc = "idle" => Has(toServer[i], "hello")
  /\ client[i].pc = "hello" /\ server[i].pc = "challenge" => Has(toClient[i], "challenge")
  /\ client[i].pc = "request" /\ server[i].pc = "challenge" => Has(toServer[i], "sync_request")
  /\ client[i].pc = "request" /\ server[i].pc = "receive" => Has(toClient[i], "plan")
  /\ client[i].pc = "receive" /\ server[i].pc = "receive" => Has(toServer[i], "uploads_done")
  /\ client[i].pc = "receive" /\ server[i].pc = "ack" => Has(toClient[i], "transfers_done")
  /\ client[i].pc = "ack" /\ server[i].pc = "ack" => Has(toServer[i], "ack")

Handshake == \A i \in Session : Sender(i) /\ Order(i) /\ UnderWay(i)
HInv == IInv /\ OpInv /\ Handshake

\* A step of session i's client: the stage it goes to, and its frames.
ClientTalk(i) ==
  LET From(pc) == client[i].pc = pc
      To(pc) == client'[i].pc = pc
      Hears(kind) == Reads(toClient[i], toClient'[i], kind)
      Says(kind) == Writes(toServer[i], toServer'[i], ServerEnded(i), kind)
      Deaf == toClient'[i] = toClient[i]
      Mute == toServer'[i] = toServer[i]
      SameOp == client'[i].op = client[i].op
  IN \/ From("hello") /\ To("request") /\ Hears("challenge") /\ Says("sync_request") /\ SameOp
     \/ From("request") /\ To("upload") /\ Hears("plan") /\ Mute /\ SameOp
     \/ From("upload") /\ To("upload") /\ Deaf /\ Says("file") /\ SameOp
     \/ From("upload") /\ To("receive") /\ Deaf /\ Says("uploads_done") /\ SameOp
     \/ From("receive") /\ To("receive") /\ (Deaf \/ Hears("file")) /\ Mute
     \/ To(client[i].pc) /\ Deaf /\ Mute /\ client'[i].op = NoOp
     \/ /\ From("receive") /\ To("ack") /\ Hears("transfers_done") /\ Says("ack")
        /\ client[i].op = NoOp /\ SameOp
     \/ From("ack") /\ To("done") /\ Hears("result") /\ Mute /\ SameOp
     \/ ClientRunning(i) /\ To("failed") /\ toClient'[i] = <<>> /\ Mute /\ client'[i].op = NoOp

LEMMA ClientTalks ==
  ASSUME StateOK, NEW i \in Session, ClientStep(i) \/ ClientFails(i)
  PROVE  ClientTalk(i)
<1> USE SideTypes
<1>a. client \in [Session -> ClientState]
  BY DEF StateOK
<1>b. /\ toClient \in [Session -> Seq(Frame)] /\ toServer \in [Session -> Seq(Frame)]
  BY DEF StateOK
<1>1. CASE ClientScan(i)
  <2>1. /\ client'[i].pc = "request" /\ client[i].pc = "hello"
        /\ client'[i].op = client[i].op
    BY <1>1, <1>a DEF ClientScan, ClientBecomes, ClientState
  <2>2. [type |-> "sync_request", manifest |-> disk[client[i].dev],
         resolved |-> ResolvedIds(conflicts[client[i].dev])] \in Frame
    BY FrameTypes, RecordTypes
  <2>3. Writes(toServer[i], toServer'[i], ServerEnded(i), "sync_request")
    <3>1. PICK f \in Frame : f.type = "sync_request" /\ ToServer(i, f)
      BY <1>1, <2>2 DEF ClientScan
    <3> QED BY <3>1, WritesFrame
  <2>4. Reads(toClient[i], toClient'[i], "challenge")
    BY <1>1, ReadsFrame DEF ClientScan
  <2> QED BY <2>1, <2>3, <2>4 DEF ClientTalk
<1>2. CASE ClientPlan(i)
  <2>1. /\ client'[i].pc = "upload" /\ client[i].pc = "request"
        /\ client'[i].op = client[i].op /\ toServer'[i] = toServer[i]
    BY <1>2, <1>a DEF ClientPlan, ClientState
  <2>2. Reads(toClient[i], toClient'[i], "plan")
    BY <1>2, ReadsFrame DEF ClientPlan
  <2> QED BY <2>1, <2>2 DEF ClientTalk
<1>3. ASSUME NEW t \in client[i].plan.clientSends, ClientSend(i, t)
      PROVE  ClientTalk(i)
  <2>1. /\ client'[i].pc = "upload" /\ client[i].pc = "upload"
        /\ client'[i].op = client[i].op /\ toClient'[i] = toClient[i]
    BY <1>3, <1>a DEF ClientSend, ClientState, Plan
  <2>2. [type |-> "file", transfer |-> t, data |-> disk[client[i].dev][t.source]] \in Frame
    <3>1. t \in Transfer
      BY DEF Plan
    <3>2. disk[client[i].dev][t.source] \in Hash
      BY <1>3, <3>1 DEF ClientSend, Transfer, Folder, File
    <3> QED BY <3>1, <3>2, FrameTypes
  <2>3. Writes(toServer[i], toServer'[i], ServerEnded(i), "file")
    <3>1. PICK f \in Frame : f.type = "file" /\ ToServer(i, f)
      BY <1>3, <2>2 DEF ClientSend
    <3> QED BY <3>1, WritesFrame
  <2> QED BY <2>1, <2>3 DEF ClientTalk
<1>4. CASE ClientUploadsDone(i)
  <2>1. /\ client'[i].pc = "receive" /\ client[i].pc = "upload"
        /\ client'[i].op = client[i].op /\ toClient'[i] = toClient[i]
    BY <1>4, <1>a DEF ClientUploadsDone, ClientBecomes, ClientState
  <2>2. Writes(toServer[i], toServer'[i], ServerEnded(i), "uploads_done")
    <3>1. PICK f \in Frame : f.type = "uploads_done" /\ ToServer(i, f)
      BY <1>4, FrameTypes DEF ClientUploadsDone
    <3> QED BY <3>1, WritesFrame
  <2> QED BY <2>1, <2>2 DEF ClientTalk
<1>5. ASSUME NEW p \in client[i].plan.clientDeletes, ClientDelete(i, p)
      PROVE  ClientTalk(i)
  <2>1. /\ client'[i].pc = "receive" /\ client[i].pc = "receive"
        /\ toServer'[i] = toServer[i] /\ toClient'[i] = toClient[i]
    BY <1>5, <1>a DEF ClientDelete, ClientState, Plan
  <2> QED BY <2>1 DEF ClientTalk
<1>6. CASE ClientReceive(i)
  <2>1. /\ client'[i].pc = "receive" /\ client[i].pc = "receive"
        /\ toServer'[i] = toServer[i]
    BY <1>6, <1>a DEF ClientReceive, ClientState, Plan
  <2>2. Reads(toClient[i], toClient'[i], "file")
    BY <1>6, ReadsFrame DEF ClientReceive
  <2> QED BY <2>1, <2>2 DEF ClientTalk
<1>7. CASE ClientInstall(i)
  <2>1. /\ client'[i].pc = client[i].pc /\ client'[i].op = NoOp
        /\ toServer'[i] = toServer[i] /\ toClient'[i] = toClient[i]
    BY <1>7, <1>a DEF ClientInstall, ClientState
  <2> QED BY <2>1 DEF ClientTalk
<1>8. CASE ClientFinish(i)
  <2>1. /\ client'[i].pc = "ack" /\ client[i].pc = "receive"
        /\ client'[i].op = client[i].op /\ client[i].op = NoOp
    BY <1>8, <1>a DEF ClientFinish, ClientReceived, ClientState
  <2>2. Writes(toServer[i], toServer'[i], ServerEnded(i), "ack")
    <3>1. PICK f \in Frame : f.type = "ack" /\ ToServer(i, f)
      BY <1>8, FrameTypes DEF ClientFinish, ClientReceived
    <3> QED BY <3>1, WritesFrame
  <2>3. Reads(toClient[i], toClient'[i], "transfers_done")
    BY <1>8, ReadsFrame DEF ClientFinish, ClientReceived
  <2> QED BY <2>1, <2>2, <2>3 DEF ClientTalk
<1>9. CASE ClientCommit(i)
  <2>1. /\ client'[i].pc = "done" /\ client[i].pc = "ack"
        /\ client'[i].op = client[i].op /\ toServer'[i] = toServer[i]
    BY <1>9, <1>a DEF ClientCommit, ClientBecomes, ClientState
  <2>2. Reads(toClient[i], toClient'[i], "result")
    BY <1>9, ReadsFrame DEF ClientCommit
  <2> QED BY <2>1, <2>2 DEF ClientTalk
<1>10. CASE ClientFails(i)
  <2>1. /\ client'[i].pc = "failed" /\ ClientRunning(i)
        /\ client'[i].op = NoOp /\ toServer'[i] = toServer[i] /\ toClient'[i] = <<>>
    BY <1>10, <1>a, <1>b DEF ClientFails, ClientState
  <2> QED BY <2>1 DEF ClientTalk
<1> QED BY <1>1, <1>2, <1>3, <1>4, <1>5, <1>6, <1>7, <1>8, <1>9, <1>10 DEF ClientStep

\* The same for a step of its server.
ServerTalk(i) ==
  LET From(pc) == server[i].pc = pc
      To(pc) == server'[i].pc = pc
      Hears(kind) == Reads(toServer[i], toServer'[i], kind)
      Says(kind) == Writes(toClient[i], toClient'[i], ClientEnded(i), kind)
      Deaf == toServer'[i] = toServer[i]
      Mute == toClient'[i] = toClient[i]
      SameOp == server'[i].op = server[i].op
  IN \/ From("idle") /\ To("challenge") /\ Hears("hello") /\ Says("challenge") /\ SameOp
     \/ /\ From("challenge") /\ To("busy") /\ Has(toServer[i], "sync_request")
        /\ toServer'[i] = <<>> /\ Mute /\ SameOp
     \/ From("challenge") /\ To("receive") /\ Hears("sync_request") /\ Says("plan") /\ SameOp
     \/ From("receive") /\ To("receive") /\ Hears("file") /\ Mute
     \/ /\ From("receive") /\ To("send") /\ Hears("uploads_done") /\ Mute
        /\ server[i].op = NoOp /\ SameOp
     \/ From("send") /\ To("send") /\ Deaf /\ Mute
     \/ To(server[i].pc) /\ Deaf /\ Mute /\ server'[i].op = NoOp
     \/ From("send") /\ To("send") /\ Deaf /\ Says("file")
     \/ /\ From("send") /\ To("ack") /\ Deaf /\ Says("transfers_done")
        /\ server[i].op = NoOp /\ SameOp
     \/ From("ack") /\ (To("commit") \/ To("failed")) /\ Hears("ack") /\ Mute /\ SameOp
     \/ From("commit") /\ To("result") /\ Deaf /\ Mute /\ SameOp
     \/ From("result") /\ To("done") /\ Deaf /\ Says("result") /\ SameOp
     \/ /\ client[i].pc # "idle" /\ ~ServerEnded(i)
        /\ To(IF server[i].pc = "result" THEN "unsent" ELSE "failed")
        /\ toServer'[i] = <<>> /\ Mute /\ server'[i].op = NoOp

LEMMA HeadIsThere ==
  ASSUME StateOK, NEW i \in Session, NEW kind
  PROVE  /\ Heads(toServer[i], kind) => Has(toServer[i], kind)
         /\ Heads(toClient[i], kind) => Has(toClient[i], kind)
  BY SideTypes, FramesOf DEF Heads, Has

LEMMA ServerTalks ==
  ASSUME StateOK, NEW i \in Session, ServerStep(i) \/ ServerFails(i)
  PROVE  ServerTalk(i)
<1> DEFINE d == ServerDev(i)
<1> USE SideTypes
<1>a. server \in [Session -> ServerState]
  BY DEF StateOK
<1>b. toClient \in [Session -> Seq(Frame)] /\ toServer \in [Session -> Seq(Frame)]
  BY DEF StateOK
<1>1. CASE ServerHello(i)
  <2>1. /\ server'[i].pc = "challenge" /\ server[i].pc = "idle"
        /\ server'[i].op = server[i].op
    BY <1>1, <1>a DEF ServerHello, ServerState
  <2>2. Writes(toClient[i], toClient'[i], ClientEnded(i), "challenge")
    <3>1. PICK f \in Frame : f.type = "challenge" /\ ToClient(i, f)
      BY <1>1, FrameTypes DEF ServerHello
    <3> QED BY <3>1, WritesFrame
  <2>3. Reads(toServer[i], toServer'[i], "hello")
    BY <1>1, ReadsFrame DEF ServerHello
  <2> QED BY <2>1, <2>2, <2>3 DEF ServerTalk
<1>2. CASE ServerBusy(i)
  <2>1. /\ server'[i].pc = "busy" /\ server[i].pc = "challenge"
        /\ server'[i].op = server[i].op /\ toClient'[i] = toClient[i] /\ toServer'[i] = <<>>
    BY <1>2, <1>a, <1>b DEF ServerBusy, ServerState
  <2>2. Has(toServer[i], "sync_request")
    BY <1>2, HeadIsThere DEF ServerBusy
  <2> QED BY <2>1, <2>2 DEF ServerTalk
<1>3. CASE ServerPlan(i)
  <2> DEFINE request == Head(toServer[i])
             plan == BuildPlan(disk[d], request.manifest, baseline[d], i)
             marked == MarkResolved(conflicts[d], request.resolved)
  <2>1. plan \in Plan /\ ResolvedIds(marked) \in SUBSET ConflictId
    <3>1. request.manifest \in Folder
      BY <1>3, HeadOfQueue, FrameKinds DEF ServerPlan
    <3>2. plan \in Plan
      BY <3>1, BuildPlanType
    <3>3. ResolvedIds(marked) \in SUBSET ConflictId
      BY RecordTypes
    <3> QED BY <3>2, <3>3
  <2> HIDE DEF plan, marked
  <2>2. [type |-> "plan", plan |-> plan, resolved |-> ResolvedIds(marked)] \in Frame
    BY <2>1, FrameTypes
  <2>3. /\ ToClient(i, [type |-> "plan", plan |-> plan, resolved |-> ResolvedIds(marked)])
        /\ server' = [server EXCEPT ![i].pc = "receive", ![i].plan = plan]
        /\ server[i].pc = "challenge"
        /\ Heads(toServer[i], "sync_request") /\ ReadByServer(i)
    BY <1>3 DEF ServerPlan, plan, marked
  <2>4. server'[i].pc = "receive" /\ server'[i].op = server[i].op
    BY <2>3, <1>a DEF ServerState
  <2>5. Writes(toClient[i], toClient'[i], ClientEnded(i), "plan")
    <3>1. PICK f \in Frame : f.type = "plan" /\ ToClient(i, f)
      BY <2>2, <2>3
    <3> QED BY <3>1, WritesFrame
  <2>6. Reads(toServer[i], toServer'[i], "sync_request")
    BY <2>3, ReadsFrame
  <2> QED BY <2>3, <2>4, <2>5, <2>6 DEF ServerTalk
<1>4. CASE ServerReceive(i)
  <2>1. /\ server'[i].pc = "receive" /\ server[i].pc = "receive"
        /\ toClient'[i] = toClient[i]
    BY <1>4, <1>a DEF ServerReceive, ServerState, Plan
  <2>2. Reads(toServer[i], toServer'[i], "file")
    BY <1>4, ReadsFrame DEF ServerReceive
  <2> QED BY <2>1, <2>2 DEF ServerTalk
<1>5. CASE ServerUploadsDone(i)
  <2>1. /\ server'[i].pc = "send" /\ server[i].pc = "receive"
        /\ server'[i].op = server[i].op /\ server[i].op = NoOp /\ toClient'[i] = toClient[i]
    BY <1>5, <1>a DEF ServerUploadsDone, ServerState
  <2>2. Reads(toServer[i], toServer'[i], "uploads_done")
    BY <1>5, ReadsFrame DEF ServerUploadsDone
  <2> QED BY <2>1, <2>2 DEF ServerTalk
<1>6. ASSUME NEW p \in server[i].plan.serverDeletes, ServerDelete(i, p)
      PROVE  ServerTalk(i)
  <2>1. /\ server'[i].pc = "send" /\ server[i].pc = "send"
        /\ toServer'[i] = toServer[i] /\ toClient'[i] = toClient[i]
    BY <1>6, <1>a DEF ServerDelete, ServerState, Plan
  <2> QED BY <2>1 DEF ServerTalk
<1>7. CASE ServerInstall(i)
  <2>1. /\ server'[i].pc = server[i].pc /\ server'[i].op = NoOp
        /\ toServer'[i] = toServer[i] /\ toClient'[i] = toClient[i]
    BY <1>7, <1>a DEF ServerInstall, ServerState
  <2> QED BY <2>1 DEF ServerTalk
<1>8. ASSUME NEW t \in server[i].plan.serverSends, ServerSend(i, t)
      PROVE  ServerTalk(i)
  <2>1. /\ server'[i].pc = "send" /\ server[i].pc = "send"
        /\ toServer'[i] = toServer[i]
    BY <1>8, <1>a DEF ServerSend, ServerState, Plan
  <2>2. [type |-> "file", transfer |-> t, data |-> disk[d][t.source]] \in Frame
    <3>1. t \in Transfer
      BY DEF Plan
    <3>2. disk[d][t.source] \in Hash
      BY <1>8, <3>1 DEF ServerSend, Transfer, Folder, File
    <3> QED BY <3>1, <3>2, FrameTypes
  <2>3. Writes(toClient[i], toClient'[i], ClientEnded(i), "file")
    <3>1. PICK f \in Frame : f.type = "file" /\ ToClient(i, f)
      BY <1>8, <2>2 DEF ServerSend
    <3> QED BY <3>1, WritesFrame
  <2> QED BY <2>1, <2>3 DEF ServerTalk
<1>9. CASE ServerTransfersDone(i)
  <2>1. /\ server'[i].pc = "ack" /\ server[i].pc = "send"
        /\ server'[i].op = server[i].op /\ server[i].op = NoOp /\ toServer'[i] = toServer[i]
    BY <1>9, <1>a DEF ServerTransfersDone, ServerState
  <2>2. Writes(toClient[i], toClient'[i], ClientEnded(i), "transfers_done")
    <3>1. PICK f \in Frame : f.type = "transfers_done" /\ ToClient(i, f)
      BY <1>9, FrameTypes DEF ServerTransfersDone
    <3> QED BY <3>1, WritesFrame
  <2> QED BY <2>1, <2>2 DEF ServerTalk
<1>10. CASE ServerRescan(i)
  <2>1. /\ server'[i].pc \in {"commit", "failed"} /\ server[i].pc = "ack"
        /\ server'[i].op = server[i].op /\ toClient'[i] = toClient[i]
    BY <1>10, <1>a DEF ServerRescan, ServerState
  <2>2. Reads(toServer[i], toServer'[i], "ack")
    BY <1>10, ReadsFrame DEF ServerRescan
  <2> QED BY <2>1, <2>2 DEF ServerTalk
<1>11. CASE ServerCommit(i)
  <2>1. /\ server'[i].pc = "result" /\ server[i].pc = "commit" /\ server'[i].op = server[i].op
        /\ toServer'[i] = toServer[i] /\ toClient'[i] = toClient[i]
    BY <1>11, <1>a DEF ServerCommit, ServerState
  <2> QED BY <2>1 DEF ServerTalk
<1>12. CASE ServerResult(i)
  <2>1. /\ server'[i].pc = "done" /\ server[i].pc = "result"
        /\ server'[i].op = server[i].op /\ toServer'[i] = toServer[i]
    BY <1>12, <1>a DEF ServerResult, ServerState
  <2>2. Writes(toClient[i], toClient'[i], ClientEnded(i), "result")
    <3>1. PICK f \in Frame : f.type = "result" /\ ToClient(i, f)
      BY <1>12, FrameTypes DEF ServerResult
    <3> QED BY <3>1, WritesFrame
  <2> QED BY <2>1, <2>2 DEF ServerTalk
<1>13. CASE ServerFails(i)
  <2>1. /\ server'[i].pc = IF server[i].pc = "result" THEN "unsent" ELSE "failed"
        /\ server'[i].op = NoOp /\ client[i].pc # "idle" /\ ~ServerEnded(i)
        /\ toServer'[i] = <<>> /\ toClient'[i] = toClient[i]
    BY <1>13, <1>a, <1>b DEF ServerFails, ServerState
  <2> QED BY <2>1 DEF ServerTalk
<1> QED BY <1>1, <1>2, <1>3, <1>4, <1>5, <1>6, <1>7, <1>8, <1>9, <1>10, <1>11, <1>12,
           <1>13 DEF ServerStep

LEMMA HandshakeByClient ==
  ASSUME HInv, NEW i \in Session, ClientAlone(i), ClientTalk(i)
  PROVE  OpInv' /\ Handshake'
<1>1. ~Has(<<>>, "challenge") /\ ~Has(<<>>, "plan") /\ ~Has(<<>>, "transfers_done")
  BY EmptyHasNone
<1>2. OpInv'
  BY DEF HInv, OpInv, ClientAlone, ClientTalk, ClientRunning
<1>3. ASSUME NEW j \in Session \ {i} PROVE (Sender(j) /\ Order(j) /\ UnderWay(j))'
  BY DEF HInv, Handshake, Sender, Order, UnderWay, ClientAlone
<1>4. Sender(i) /\ Order(i) /\ UnderWay(i) /\ server' = server
  BY DEF HInv, Handshake, ClientAlone
<1>5. Sender(i)'
  BY <1>1, <1>4 DEF Sender, Order, ClientTalk, Reads, Writes, ClientRunning
<1>6. Order(i)'
  BY <1>4 DEF Sender, Order, ClientTalk, Reads, Writes, ClientAlone
<1>7. UnderWay(i)'
  BY <1>4 DEF Sender, Order, UnderWay, ClientTalk, Reads, Writes, ServerEnded
<1> QED BY <1>2, <1>3, <1>5, <1>6, <1>7 DEF Handshake

LEMMA HandshakeByServer ==
  ASSUME HInv, NEW i \in Session, ServerAlone(i), ServerTalk(i)
  PROVE  OpInv' /\ Handshake'
<1>1. ~Has(<<>>, "sync_request") /\ ~Has(<<>>, "file") /\ ~Has(<<>>, "uploads_done") /\ ~Has(<<>>, "ack")
  BY EmptyHasNone
<1>2. OpInv'
  BY DEF HInv, OpInv, ServerAlone, ServerTalk
<1>3. ASSUME NEW j \in Session \ {i} PROVE (Sender(j) /\ Order(j) /\ UnderWay(j))'
  BY DEF HInv, Handshake, Sender, Order, UnderWay, ServerAlone
<1>4. /\ Sender(i) /\ Order(i) /\ UnderWay(i) /\ client' = client
      /\ client[i].pc = "idle" => toServer[i] = <<>>
  BY DEF HInv, IInv, LockInv, ServerAfterDial, Handshake, ServerAlone
<1>5. ~Has(<<>>, "hello")
  BY EmptyHasNone
<1>6. Sender(i)'
  BY <1>1, <1>4 DEF Sender, Order, ServerTalk, Reads, Writes
<1>7. Order(i)'
  BY <1>1, <1>4, <1>5 DEF Sender, Order, ServerTalk, Reads, Writes, ServerEnded
<1>8. UnderWay(i)'
  BY <1>1, <1>4 DEF Sender, Order, UnderWay, ServerTalk, Reads, Writes, ClientEnded, ServerEnded
<1> QED BY <1>2, <1>3, <1>6, <1>7, <1>8 DEF Handshake

LEMMA HandshakeByDial ==
  ASSUME HInv, NEW i \in Session, NEW d \in Device, Dial(i, d)
  PROVE  OpInv' /\ Handshake'
<1>1. /\ client \in [Session -> ClientState] /\ toServer \in [Session -> Seq(Frame)]
      /\ client[i].pc = "idle" /\ server[i].pc = "idle" /\ toServer[i] = <<>>
      /\ toClient[i] = <<>> /\ server' = server /\ toClient' = toClient
  BY DEF HInv, IInv, StateOK, LockInv, ServerAfterDial, Handshake, Order, Dial
<1>2. /\ client'[i].pc = "hello" /\ client'[i].op = client[i].op
      /\ \A j \in Session \ {i} : client'[j] = client[j] /\ toServer'[j] = toServer[j]
      /\ toServer'[i] = Append(<<>>, [type |-> "hello"])
  BY <1>1 DEF Dial, ClientState
<1>3. \A kind : Has(toServer'[i], kind) <=> kind = "hello"
  <2>1. Append(<<>>, [type |-> "hello"]) = <<[type |-> "hello"]>>
    OBVIOUS
  <2>2. Frames(<<[type |-> "hello"]>>) = {[type |-> "hello"]}
    BY DEF Frames
  <2> QED BY <1>2, <2>1, <2>2 DEF Has
<1>4. ~Has(<<>>, "challenge") /\ ~Has(<<>>, "plan") /\ ~Has(<<>>, "transfers_done")
  BY EmptyHasNone
<1>5. OpInv'
  BY <1>1, <1>2 DEF HInv, OpInv
<1>6. ASSUME NEW j \in Session \ {i} PROVE (Sender(j) /\ Order(j) /\ UnderWay(j))'
  BY <1>1, <1>2 DEF HInv, Handshake, Sender, Order, UnderWay
<1>7. (Sender(i) /\ Order(i) /\ UnderWay(i))'
  BY <1>1, <1>2, <1>3, <1>4 DEF HInv, Handshake, Sender, Order, UnderWay
<1> QED BY <1>5, <1>6, <1>7 DEF Handshake

LEMMA HandshakeInit == Init => HInv
<1> SUFFICES ASSUME Init PROVE HInv
  OBVIOUS
<1>1. /\ \A i \in Session : /\ client[i].pc = "idle" /\ server[i].pc = "idle"
                            /\ client[i].op = NoOp /\ server[i].op = NoOp
                            /\ toServer[i] = <<>> /\ toClient[i] = <<>>
      /\ \A kind : ~Has(<<>>, kind)
  BY EmptyHasNone DEF Init
<1>2. OpInv /\ Handshake
  BY <1>1 DEF OpInv, Handshake, Sender, Order, UnderWay
<1> QED BY <1>2, InvInit DEF HInv

LEMMA HandshakeStep == HInv /\ [Next]_vars => HInv'
<1> SUFFICES ASSUME HInv, [Next]_vars PROVE HInv'
  OBVIOUS
<1>1. IInv /\ IInv' /\ StateOK
  BY InvStep DEF HInv, IInv
<1>2. ASSUME NEW i \in Session, NEW d \in Device, Dial(i, d) PROVE HInv'
  BY <1>1, <1>2, HandshakeByDial DEF HInv
<1>3. ASSUME NEW i \in Session, ClientStep(i) \/ ClientFails(i) PROVE HInv'
  BY <1>1, <1>3, ClientEffects, ClientTalks, HandshakeByClient DEF HInv
<1>4. ASSUME NEW i \in Session, ServerStep(i) \/ ServerFails(i) PROVE HInv'
  BY <1>1, <1>4, ServerEffects, ServerTalks, HandshakeByServer DEF HInv
<1>5. ASSUME UNCHANGED <<client, server, toServer, toClient>> PROVE HInv'
  <2>1. OpInv' /\ Handshake'
    BY <1>5 DEF HInv, OpInv, Handshake, Sender, Order, UnderWay
  <2> QED BY <1>1, <2>1 DEF HInv
<1>6. ASSUME NEW d \in Device, NEW p \in Path, NEW v \in File, Edit(d, p, v) PROVE HInv'
  BY <1>5, <1>6 DEF Edit
<1>7. CASE UNCHANGED vars
  BY <1>5, <1>7 DEF vars
<1> QED BY <1>2, <1>3, <1>4, <1>6, <1>7 DEF Next, Fault

\* Whatever the capacity of a connection, the two sides of a session never
\* both wait, for a frame or for room to write one.
THEOREM SidesNeverStuck == Spec => []NoMutualWait
<1>1. HInv => NoMutualWait
  <2> SUFFICES ASSUME HInv, NEW i \in Session, ClientWaits(i), ServerWaits(i)
               PROVE  FALSE
    BY DEF NoMutualWait
  <2>1. Sender(i) /\ Order(i) /\ UnderWay(i)
    BY DEF HInv, Handshake
  <2>2. \A kind : ~Has(<<>>, kind)
    BY EmptyHasNone
  <2>3. /\ ~CanWrite(toServer[i], ServerEnded(i)) => toServer[i] # <<>>
        /\ ~CanWrite(toClient[i], ClientEnded(i)) => toClient[i] # <<>>
    BY SessionAssumption DEF CanWrite
  <2> QED BY <2>1, <2>2, <2>3 DEF ClientWaits, ServerWaits, Sender, Order, UnderWay
<1> QED BY <1>1, HandshakeInit, HandshakeStep, PTL DEF Spec

-----------------------------------------------------------------------------
(* The state of a side after each of its steps                             *)

ClientIs(i, pc, plan, op, final) ==
  /\ client'[i].pc = pc /\ client'[i].plan = plan
  /\ client'[i].op = op /\ client'[i].final = final
ServerIs(i, pc, plan, op, final) ==
  /\ server'[i].pc = pc /\ server'[i].plan = plan
  /\ server'[i].op = op /\ server'[i].final = final

LEMMA ClientFields ==
  ASSUME StateOK, NEW i \in Session
  PROVE  LET c == client[i]
             frame == Head(toClient[i])
         IN /\ ClientScan(i) => ClientIs(i, "request", c.plan, c.op, c.final)
            /\ ClientPlan(i) => ClientIs(i, "upload", frame.plan, c.op, c.final)
            /\ \A t : ClientSend(i, t) =>
                 ClientIs(i, "upload", [c.plan EXCEPT !.clientSends = @ \ {t}], c.op, c.final)
            /\ ClientUploadsDone(i) => ClientIs(i, "receive", c.plan, c.op, c.final)
            /\ \A p : ClientDelete(i, p) =>
                 ClientIs(i, "receive", [c.plan EXCEPT !.clientDeletes = @ \ {p}],
                          [path |-> p, hash |-> NoFile], c.final)
            /\ ClientReceive(i) =>
                 ClientIs(i, "receive", [c.plan EXCEPT !.serverSends = @ \ {frame.transfer}],
                          [path |-> frame.transfer.dest, hash |-> frame.data], c.final)
            /\ ClientInstall(i) => ClientIs(i, c.pc, c.plan, NoOp, c.final)
            /\ ClientFinish(i) => ClientIs(i, "ack", EmptyPlan, c.op, disk[c.dev])
            /\ ClientCommit(i) => ClientIs(i, "done", c.plan, c.op, c.final)
            /\ ClientFails(i) => ClientIs(i, "failed", EmptyPlan, NoOp, c.final)
<1> DEFINE c == client[i]
           frame == Head(toClient[i])
<1>a. client \in [Session -> ClientState]
  BY DEF StateOK
<1>1. ClientScan(i) => ClientIs(i, "request", c.plan, c.op, c.final)
  BY <1>a DEF ClientScan, ClientBecomes, ClientState, ClientIs
<1>2. ClientPlan(i) => ClientIs(i, "upload", frame.plan, c.op, c.final)
  BY <1>a DEF ClientPlan, ClientState, ClientIs
<1>3. ASSUME NEW t, ClientSend(i, t)
      PROVE  ClientIs(i, "upload", [c.plan EXCEPT !.clientSends = @ \ {t}], c.op, c.final)
  BY <1>a, <1>3 DEF ClientSend, ClientState, ClientIs
<1>4. ClientUploadsDone(i) => ClientIs(i, "receive", c.plan, c.op, c.final)
  BY <1>a DEF ClientUploadsDone, ClientBecomes, ClientState, ClientIs
<1>5. ASSUME NEW p, ClientDelete(i, p)
      PROVE  ClientIs(i, "receive", [c.plan EXCEPT !.clientDeletes = @ \ {p}],
                      [path |-> p, hash |-> NoFile], c.final)
  BY <1>a, <1>5 DEF ClientDelete, ClientState, ClientIs
<1>6. ClientReceive(i) =>
        ClientIs(i, "receive", [c.plan EXCEPT !.serverSends = @ \ {frame.transfer}],
                 [path |-> frame.transfer.dest, hash |-> frame.data], c.final)
  BY <1>a DEF ClientReceive, ClientState, ClientIs
<1>7. ClientInstall(i) => ClientIs(i, c.pc, c.plan, NoOp, c.final)
  BY <1>a DEF ClientInstall, ClientState, ClientIs
<1>8. ClientFinish(i) => ClientIs(i, "ack", EmptyPlan, c.op, disk[c.dev])
  BY <1>a DEF ClientFinish, ClientReceived, ClientState, ClientIs
<1>9. ClientCommit(i) => ClientIs(i, "done", c.plan, c.op, c.final)
  BY <1>a DEF ClientCommit, ClientBecomes, ClientState, ClientIs
<1>10. ClientFails(i) => ClientIs(i, "failed", EmptyPlan, NoOp, c.final)
  BY <1>a DEF ClientFails, ClientState, ClientIs
<1> QED BY <1>1, <1>2, <1>3, <1>4, <1>5, <1>6, <1>7, <1>8, <1>9, <1>10

LEMMA ServerFields ==
  ASSUME StateOK, NEW i \in Session
  PROVE  LET c == server[i]
             frame == Head(toServer[i])
         IN /\ ServerHello(i) => ServerIs(i, "challenge", c.plan, c.op, c.final)
            /\ ServerBusy(i) => ServerIs(i, "busy", c.plan, c.op, c.final)
            /\ ServerPlan(i) =>
                 ServerIs(i, "receive", BuildPlan(disk[ServerDev(i)], frame.manifest,
                                                  baseline[ServerDev(i)], i), c.op, c.final)
            /\ ServerReceive(i) =>
                 ServerIs(i, "receive", [c.plan EXCEPT !.clientSends = @ \ {frame.transfer}],
                          [path |-> frame.transfer.dest, hash |-> frame.data], c.final)
            /\ ServerUploadsDone(i) => ServerIs(i, "send", c.plan, c.op, c.final)
            /\ \A p : ServerDelete(i, p) =>
                 ServerIs(i, "send", [c.plan EXCEPT !.serverDeletes = @ \ {p}],
                          [path |-> p, hash |-> NoFile], c.final)
            /\ ServerInstall(i) => ServerIs(i, c.pc, c.plan, NoOp, c.final)
            /\ \A t : ServerSend(i, t) =>
                 ServerIs(i, "send", [c.plan EXCEPT !.serverSends = @ \ {t}], c.op, c.final)
            /\ ServerTransfersDone(i) => ServerIs(i, "ack", c.plan, c.op, c.final)
            /\ ServerRescan(i) => \/ ServerIs(i, "commit", EmptyPlan, c.op, disk[ServerDev(i)])
                                  \/ ServerIs(i, "failed", EmptyPlan, c.op, c.final)
            /\ ServerCommit(i) => ServerIs(i, "result", c.plan, c.op, c.final)
            /\ ServerResult(i) => ServerIs(i, "done", c.plan, c.op, c.final)
            /\ ServerFails(i) =>
                 ServerIs(i, IF c.pc = "result" THEN "unsent" ELSE "failed", EmptyPlan, NoOp, c.final)
<1> DEFINE c == server[i]
           frame == Head(toServer[i])
           planned == BuildPlan(disk[ServerDev(i)], frame.manifest, baseline[ServerDev(i)], i)
<1>a. server \in [Session -> ServerState]
  BY DEF StateOK
<1>1. ServerHello(i) => ServerIs(i, "challenge", c.plan, c.op, c.final)
  BY <1>a DEF ServerHello, ServerState, ServerIs
<1>2. ServerBusy(i) => ServerIs(i, "busy", c.plan, c.op, c.final)
  BY <1>a DEF ServerBusy, ServerState, ServerIs
<1>3. ServerPlan(i) => ServerIs(i, "receive", planned, c.op, c.final)
  <2>1. ServerPlan(i) => server' = [server EXCEPT ![i].pc = "receive", ![i].plan = planned]
    BY DEF ServerPlan
  <2> HIDE DEF planned
  <2> QED BY <1>a, <2>1 DEF ServerState, ServerIs
<1>4. ServerReceive(i) =>
        ServerIs(i, "receive", [c.plan EXCEPT !.clientSends = @ \ {frame.transfer}],
                 [path |-> frame.transfer.dest, hash |-> frame.data], c.final)
  BY <1>a DEF ServerReceive, ServerState, ServerIs
<1>5. ServerUploadsDone(i) => ServerIs(i, "send", c.plan, c.op, c.final)
  BY <1>a DEF ServerUploadsDone, ServerState, ServerIs
<1>6. ASSUME NEW p, ServerDelete(i, p)
      PROVE  ServerIs(i, "send", [c.plan EXCEPT !.serverDeletes = @ \ {p}],
                      [path |-> p, hash |-> NoFile], c.final)
  BY <1>a, <1>6 DEF ServerDelete, ServerState, ServerIs
<1>7. ServerInstall(i) => ServerIs(i, c.pc, c.plan, NoOp, c.final)
  BY <1>a DEF ServerInstall, ServerState, ServerIs
<1>8. ASSUME NEW t, ServerSend(i, t)
      PROVE  ServerIs(i, "send", [c.plan EXCEPT !.serverSends = @ \ {t}], c.op, c.final)
  BY <1>a, <1>8 DEF ServerSend, ServerState, ServerIs
<1>9. ServerTransfersDone(i) => ServerIs(i, "ack", c.plan, c.op, c.final)
  BY <1>a DEF ServerTransfersDone, ServerState, ServerIs
<1>10. ServerRescan(i) => \/ ServerIs(i, "commit", EmptyPlan, c.op, disk[ServerDev(i)])
                          \/ ServerIs(i, "failed", EmptyPlan, c.op, c.final)
  BY <1>a DEF ServerRescan, ServerState, ServerIs
<1>11. ServerCommit(i) => ServerIs(i, "result", c.plan, c.op, c.final)
  BY <1>a DEF ServerCommit, ServerState, ServerIs
<1>12. ServerResult(i) => ServerIs(i, "done", c.plan, c.op, c.final)
  BY <1>a DEF ServerResult, ServerState, ServerIs
<1>13. ServerFails(i) =>
         ServerIs(i, IF c.pc = "result" THEN "unsent" ELSE "failed", EmptyPlan, NoOp, c.final)
  BY <1>a DEF ServerFails, ServerState, ServerIs
<1> HIDE DEF planned
<1>14. ServerPlan(i) =>
         ServerIs(i, "receive", BuildPlan(disk[ServerDev(i)], frame.manifest,
                                          baseline[ServerDev(i)], i), c.op, c.final)
  BY <1>3 DEF planned
<1> QED BY <1>1, <1>2, <1>14, <1>4, <1>5, <1>6, <1>7, <1>8, <1>9, <1>10, <1>11, <1>12, <1>13

-----------------------------------------------------------------------------
(* What is replaced is archived                                            *)

\* The archive has the version an operation is about to take off the disk, or
\* users have written it since.
Archived(archive, folder, op, written) ==
  op # NoOp => \/ folder[op.path] = NoFile \/ <<op.path, folder[op.path]>> \in archive
               \/ op.path \in written
Late(i, d) == {p \in Path : <<d, p>> \in late[i]}

\* Between the archiving and the replacement only the other operations of the
\* device, and users, could bring another version.
ArchiveInv ==
  \A i \in Session :
    /\ Archived(history[client[i].dev], disk[client[i].dev], client[i].op, Late(i, client[i].dev))
    /\ Archived(history[ServerDev(i)], disk[ServerDev(i)], server[i].op, Late(i, ServerDev(i)))
AInv == HInv /\ ArchiveInv

\* A step of a side that works on device d, with one operation before it and
\* one after it.
Files(d, op, after) ==
  /\ \A e \in Device : history[e] \subseteq history'[e]
  /\ \/ disk' = disk /\ after \in {op, NoOp}
     \/ disk' = disk /\ Archived(history'[d], disk[d], after, {})
     \/ /\ op # NoOp /\ op \in FileOp /\ after = NoOp
        /\ disk' = [disk EXCEPT ![d][op.path] = op.hash]

LEMMA ArchiveKeeps ==
  ASSUME StateOK, NEW d \in Device, NEW p \in Path, Archive(d, p)
  PROVE  /\ \A e \in Device : history[e] \subseteq history'[e]
         /\ \A h : Archived(history'[d], disk[d], [path |-> p, hash |-> h], {})
  BY DEF Archive, Archived, StateOK

LEMMA ClientFiles ==
  ASSUME StateOK, NEW i \in Session, ClientStep(i) \/ ClientFails(i)
  PROVE  Files(client[i].dev, client[i].op, client'[i].op) /\ edits' = edits
<1> USE SideTypes
<1> DEFINE d == client[i].dev
<1>1. ASSUME disk' = disk, history' = history, client'[i].op \in {client[i].op, NoOp}
      PROVE  Files(client[i].dev, client[i].op, client'[i].op)
  BY <1>1 DEF Files
<1>2. CASE ClientScan(i) \/ ClientPlan(i) \/ ClientUploadsDone(i)
  BY <1>1, <1>2, ClientFields, Zenon DEF ClientIs, ClientScan, ClientPlan, ClientUploadsDone, store
<1>3. CASE ClientFinish(i) \/ ClientCommit(i) \/ ClientFails(i)
  BY <1>1, <1>3, ClientFields, Zenon DEF ClientIs, ClientFinish, ClientReceived, ClientCommit, ClientFails, store
<1>4. ASSUME NEW t, ClientSend(i, t)
      PROVE  Files(client[i].dev, client[i].op, client'[i].op) /\ edits' = edits
  BY <1>1, <1>4, ClientFields DEF ClientIs, ClientSend, store
<1>5. ASSUME NEW p \in client[i].plan.clientDeletes, ClientDelete(i, p)
      PROVE  Files(client[i].dev, client[i].op, client'[i].op) /\ edits' = edits
  <2>1. p \in Path /\ d \in Device
    BY DEF Plan
  <2>2. /\ Archive(d, p) /\ disk' = disk /\ edits' = edits
        /\ client'[i].op = [path |-> p, hash |-> NoFile]
    BY <1>5, ClientFields DEF ClientDelete, ClientIs
  <2> HIDE DEF d
  <2>3. /\ Archived(history'[d], disk[d], client'[i].op, {})
        /\ \A e \in Device : history[e] \subseteq history'[e]
    BY <2>1, <2>2, ArchiveKeeps
  <2> QED BY <2>2, <2>3 DEF Files, d
<1>6. CASE ClientReceive(i)
  <2> DEFINE p == Head(toClient[i]).transfer.dest
  <2>1. p \in Path /\ d \in Device
    BY <1>6, HeadOfQueue, FrameKinds DEF ClientReceive, Transfer
  <2>2. /\ Archive(d, p) /\ disk' = disk /\ edits' = edits
        /\ client'[i].op = [path |-> p, hash |-> Head(toClient[i]).data]
    BY <1>6, ClientFields, Zenon DEF ClientReceive, ClientIs
  <2> HIDE DEF d, p
  <2>3. /\ Archived(history'[d], disk[d], client'[i].op, {})
        /\ \A e \in Device : history[e] \subseteq history'[e]
    BY <2>1, <2>2, ArchiveKeeps
  <2> QED BY <2>2, <2>3 DEF Files, d
<1>7. CASE ClientInstall(i)
  BY <1>7, ClientFields DEF ClientIs, ClientInstall, store, Files
<1> QED BY <1>2, <1>3, <1>4, <1>5, <1>6, <1>7 DEF ClientStep

LEMMA ServerFiles ==
  ASSUME StateOK, NEW i \in Session, ServerStep(i) \/ ServerFails(i)
  PROVE  Files(ServerDev(i), server[i].op, server'[i].op) /\ edits' = edits
<1> USE SideTypes
<1> DEFINE d == ServerDev(i)
<1>1. ASSUME disk' = disk, history' = history, server'[i].op \in {server[i].op, NoOp}
      PROVE  Files(ServerDev(i), server[i].op, server'[i].op)
  BY <1>1 DEF Files
<1>2. CASE ServerHello(i) \/ ServerBusy(i) \/ ServerUploadsDone(i) \/ ServerTransfersDone(i)
  BY <1>1, <1>2, ServerFields
    DEF ServerIs, ServerHello, ServerBusy, ServerUploadsDone, ServerTransfersDone, store
<1>3. CASE ServerPlan(i)
  <2>1. server'[i].op = server[i].op
    BY <1>3, ServerFields, Zenon DEF ServerIs
  <2> QED BY <1>1, <1>3, <2>1 DEF ServerPlan
<1>4. CASE ServerRescan(i) \/ ServerCommit(i) \/ ServerResult(i) \/ ServerFails(i)
  BY <1>1, <1>4, ServerFields, Zenon
    DEF ServerIs, ServerRescan, ServerCommit, ServerResult, ServerFails, store
<1>5. ASSUME NEW t, ServerSend(i, t)
      PROVE  Files(ServerDev(i), server[i].op, server'[i].op) /\ edits' = edits
  BY <1>1, <1>5, ServerFields DEF ServerIs, ServerSend, store
<1>6. ASSUME NEW p \in server[i].plan.serverDeletes, ServerDelete(i, p)
      PROVE  Files(ServerDev(i), server[i].op, server'[i].op) /\ edits' = edits
  <2>1. p \in Path /\ d \in Device
    BY DEF Plan
  <2>2. /\ Archive(d, p) /\ disk' = disk /\ edits' = edits
        /\ server'[i].op = [path |-> p, hash |-> NoFile]
    BY <1>6, ServerFields DEF ServerDelete, ServerIs
  <2> HIDE DEF d
  <2>3. /\ Archived(history'[d], disk[d], server'[i].op, {})
        /\ \A e \in Device : history[e] \subseteq history'[e]
    BY <2>1, <2>2, ArchiveKeeps
  <2> QED BY <2>2, <2>3 DEF Files, d
<1>7. CASE ServerReceive(i)
  <2> DEFINE p == Head(toServer[i]).transfer.dest
  <2>1. p \in Path /\ d \in Device
    BY <1>7, HeadOfQueue, FrameKinds DEF ServerReceive, Transfer
  <2>2. /\ Archive(d, p) /\ disk' = disk /\ edits' = edits
        /\ server'[i].op = [path |-> p, hash |-> Head(toServer[i]).data]
    BY <1>7, ServerFields, Zenon DEF ServerReceive, ServerIs
  <2> HIDE DEF d, p
  <2>3. /\ Archived(history'[d], disk[d], server'[i].op, {})
        /\ \A e \in Device : history[e] \subseteq history'[e]
    BY <2>1, <2>2, ArchiveKeeps
  <2> QED BY <2>2, <2>3 DEF Files, d
<1>8. CASE ServerInstall(i)
  BY <1>8, ServerFields DEF ServerIs, ServerInstall, store, Files
<1> QED BY <1>2, <1>3, <1>4, <1>5, <1>6, <1>7, <1>8 DEF ServerStep

\* One session works on a device at a time, so no two operations are under way
\* there.
LEMMA OneOperation ==
  ASSUME HInv, NEW i \in Session, NEW j \in Session
  PROVE  /\ client[i].op # NoOp /\ client[j].op # NoOp /\ client[i].dev = client[j].dev => i = j
         /\ server[i].op # NoOp /\ server[j].op # NoOp /\ ServerDev(i) = ServerDev(j) => i = j
         /\ client[i].op # NoOp /\ server[j].op # NoOp => client[i].dev # ServerDev(j)
<1>1. /\ \A k \in Session : client[k].op # NoOp => ClientRunning(k)
      /\ \A k \in Session : server[k].op # NoOp => ServerHolds(k)
  BY DEF HInv, OpInv, ClientRunning, ClientEnded, ServerHolds
<1> QED BY <1>1 DEF HInv, IInv, LockInv, HoldersDiffer

LEMMA ArchivedLater ==
  ASSUME StateOK, NEW d \in Device, NEW op, NEW w, Archived(history[d], disk[d], op, w),
         history[d] \subseteq history'[d], disk'[d] = disk[d]
  PROVE  Archived(history'[d], disk'[d], op, w)
  BY DEF Archived

LEMMA ArchiveByClient ==
  ASSUME AInv, NEW i \in Session, ClientAlone(i), late' = late,
         Files(client[i].dev, client[i].op, client'[i].op)
  PROVE  ArchiveInv'
<1>1. /\ disk \in [Device -> Folder] /\ StateOK
      /\ \A j \in Session : /\ client[j].dev \in Device /\ ServerDev(j) \in Device
                            /\ client'[j].dev = client[j].dev /\ ServerDev(j)' = ServerDev(j)
                            /\ client[j].dev # ServerDev(j)
      /\ server' = server /\ \A j \in Session \ {i} : client'[j] = client[j]
  BY SideTypes, PeerOfDevice DEF AInv, HInv, IInv, StateOK, ClientAlone, ServerDev
<1>2. /\ \A d \in Device : \A w : Archived(history'[d], disk[d], NoOp, w)
      /\ \A j \in Session : /\ Late(j, client[j].dev)' = Late(j, client[j].dev)
                            /\ Late(j, ServerDev(j))' = Late(j, ServerDev(j))
  BY <1>1 DEF Archived, Late
<1>3. CASE disk' = disk
  <2>1. \A e \in Device : history[e] \subseteq history'[e]
    BY DEF Files
  <2>2. Archived(history'[client[i].dev], disk'[client[i].dev], client'[i].op, Late(i, client[i].dev))
    <3>1. CASE client'[i].op \in {client[i].op, NoOp}
      BY <3>1, <1>1, <1>2, <1>3, <2>1, ArchivedLater DEF AInv, ArchiveInv
    <3>2. CASE Archived(history'[client[i].dev], disk[client[i].dev], client'[i].op, {})
      BY <3>2, <1>3 DEF Archived
    <3> QED BY <1>1, <3>1, <3>2, <1>2, <1>3 DEF Files
  <2> QED BY <1>1, <1>2, <1>3, <2>1, <2>2, ArchivedLater DEF AInv, ArchiveInv
<1>4. CASE disk' # disk
  <2> DEFINE d == client[i].dev
             op == client[i].op
  <2>1. /\ op # NoOp /\ client'[i].op = NoOp
        /\ \A e \in Device \ {d} : disk'[e] = disk[e]
        /\ \A e \in Device : history[e] \subseteq history'[e]
    BY <1>1, <1>4 DEF Files
  <2>2. /\ \A j \in Session \ {i} : client[j].dev = d => client[j].op = NoOp
        /\ \A j \in Session : ServerDev(j) = d => server[j].op = NoOp
    BY <2>1, OneOperation DEF AInv
  <2>3. \A j \in Session :
          /\ Archived(history[client[j].dev], disk[client[j].dev], client[j].op, Late(j, client[j].dev))
          /\ Archived(history[ServerDev(j)], disk[ServerDev(j)], server[j].op, Late(j, ServerDev(j)))
    BY DEF AInv, ArchiveInv
  <2>4. ASSUME NEW e \in Device, NEW o, NEW w, Archived(history[e], disk[e], o, w), e = d => o = NoOp
        PROVE  Archived(history'[e], disk'[e], o, w)
    BY <1>1, <2>1, <2>4, ArchivedLater DEF Archived
  <2> HIDE DEF d, op
  <2>5. ASSUME NEW j \in Session
        PROVE  /\ Archived(history'[client[j].dev], disk'[client[j].dev], client'[j].op,
                           Late(j, client[j].dev))
               /\ Archived(history'[ServerDev(j)], disk'[ServerDev(j)], server[j].op,
                           Late(j, ServerDev(j)))
    <3>1. Archived(history'[ServerDev(j)], disk'[ServerDev(j)], server[j].op, Late(j, ServerDev(j)))
      BY <1>1, <2>2, <2>3, <2>4
    <3>2. CASE j = i
      BY <3>1, <3>2, <2>1 DEF Archived
    <3>3. CASE j # i
      BY <3>1, <3>3, <1>1, <2>2, <2>3, <2>4
    <3> QED BY <3>2, <3>3
  <2> QED BY <1>1, <1>2, <2>5 DEF ArchiveInv
<1> QED BY <1>3, <1>4

LEMMA ArchiveByServer ==
  ASSUME AInv, NEW i \in Session, ServerAlone(i), late' = late,
         Files(ServerDev(i), server[i].op, server'[i].op)
  PROVE  ArchiveInv'
<1>1. /\ disk \in [Device -> Folder] /\ StateOK
      /\ \A j \in Session : /\ client[j].dev \in Device /\ ServerDev(j) \in Device
                            /\ client'[j].dev = client[j].dev /\ ServerDev(j)' = ServerDev(j)
                            /\ client[j].dev # ServerDev(j)
      /\ client' = client /\ \A j \in Session \ {i} : server'[j] = server[j]
  BY SideTypes, PeerOfDevice DEF AInv, HInv, IInv, StateOK, ServerAlone, ServerDev
<1>2. /\ \A d \in Device : \A w : Archived(history'[d], disk[d], NoOp, w)
      /\ \A j \in Session : /\ Late(j, client[j].dev)' = Late(j, client[j].dev)
                            /\ Late(j, ServerDev(j))' = Late(j, ServerDev(j))
  BY <1>1 DEF Archived, Late
<1>3. CASE disk' = disk
  <2>1. \A e \in Device : history[e] \subseteq history'[e]
    BY DEF Files
  <2>2. Archived(history'[ServerDev(i)], disk'[ServerDev(i)], server'[i].op, Late(i, ServerDev(i)))
    <3>1. CASE server'[i].op \in {server[i].op, NoOp}
      BY <3>1, <1>1, <1>2, <1>3, <2>1, ArchivedLater DEF AInv, ArchiveInv
    <3>2. CASE Archived(history'[ServerDev(i)], disk[ServerDev(i)], server'[i].op, {})
      BY <3>2, <1>3 DEF Archived
    <3> QED BY <1>1, <3>1, <3>2, <1>2, <1>3 DEF Files
  <2> QED BY <1>1, <1>2, <1>3, <2>1, <2>2, ArchivedLater DEF AInv, ArchiveInv
<1>4. CASE disk' # disk
  <2> DEFINE d == ServerDev(i)
             op == server[i].op
  <2>1. /\ op # NoOp /\ server'[i].op = NoOp
        /\ \A e \in Device \ {d} : disk'[e] = disk[e]
        /\ \A e \in Device : history[e] \subseteq history'[e]
    BY <1>1, <1>4 DEF Files
  <2>2. /\ \A j \in Session \ {i} : ServerDev(j) = d => server[j].op = NoOp
        /\ \A j \in Session : client[j].dev = d => client[j].op = NoOp
    BY <2>1, OneOperation DEF AInv
  <2>3. \A j \in Session :
          /\ Archived(history[client[j].dev], disk[client[j].dev], client[j].op, Late(j, client[j].dev))
          /\ Archived(history[ServerDev(j)], disk[ServerDev(j)], server[j].op, Late(j, ServerDev(j)))
    BY DEF AInv, ArchiveInv
  <2>4. ASSUME NEW e \in Device, NEW o, NEW w, Archived(history[e], disk[e], o, w), e = d => o = NoOp
        PROVE  Archived(history'[e], disk'[e], o, w)
    BY <1>1, <2>1, <2>4, ArchivedLater DEF Archived
  <2> HIDE DEF d, op
  <2>5. ASSUME NEW j \in Session
        PROVE  /\ Archived(history'[client[j].dev], disk'[client[j].dev], client[j].op,
                           Late(j, client[j].dev))
               /\ Archived(history'[ServerDev(j)], disk'[ServerDev(j)], server'[j].op,
                           Late(j, ServerDev(j)))
    <3>1. Archived(history'[client[j].dev], disk'[client[j].dev], client[j].op, Late(j, client[j].dev))
      BY <1>1, <2>2, <2>3, <2>4
    <3>2. CASE j = i
      BY <3>1, <3>2, <2>1 DEF Archived
    <3>3. CASE j # i
      BY <3>1, <3>3, <1>1, <2>2, <2>3, <2>4
    <3> QED BY <3>2, <3>3
  <2> QED BY <1>1, <1>2, <2>5 DEF ArchiveInv
<1> QED BY <1>3, <1>4

\* What a user writes at the path of an operation is late there, and what is
\* written elsewhere leaves the operation alone.
LEMMA ArchiveByEdit ==
  ASSUME AInv, NEW d \in Device, NEW p \in Path, NEW v \in File, Edit(d, p, v)
  PROVE  ArchiveInv'
<1>1. /\ disk \in [Device -> Folder] /\ disk' = [disk EXCEPT ![d][p] = v]
      /\ history' = history /\ client' = client /\ server' = server
      /\ late' = [i \in Session |-> late[i] \cup {x \in {<<d, p>>} : Replacing(i, d, p)}]
  BY DEF AInv, HInv, IInv, StateOK, Edit, store
<1>2. \A j \in Session : /\ client[j].dev \in Device /\ ServerDev(j) \in Device
                         /\ client[j].op \in FileOp /\ server[j].op \in FileOp
                         /\ ServerDev(j)' = ServerDev(j)
  BY <1>1, SideTypes DEF AInv, HInv, IInv, ServerDev
<1>3. ASSUME NEW j \in Session, NEW e \in Device, NEW op \in FileOp,
             Archived(history[e], disk[e], op, Late(j, e)),
             e = d /\ op.path = p => Replacing(j, d, p)
      PROVE  Archived(history'[e], disk'[e], op, Late(j, e)')
  <2>1. disk'[e] = IF e = d THEN [disk[d] EXCEPT ![p] = v] ELSE disk[e]
    BY <1>1
  <2>2. op # NoOp /\ ~(e = d /\ op.path = p) => disk'[e][op.path] = disk[e][op.path]
    BY <1>1, <2>1 DEF Folder, FileOp
  <2>3. Late(j, e) \subseteq Late(j, e)' /\ (e = d /\ op.path = p => p \in Late(j, e)')
    BY <1>1, <1>3 DEF Late
  <2> QED BY <1>1, <1>3, <2>2, <2>3 DEF Archived
<1>4. \A j \in Session :
        /\ Archived(history'[client[j].dev], disk'[client[j].dev], client[j].op, Late(j, client[j].dev)')
        /\ Archived(history'[ServerDev(j)], disk'[ServerDev(j)], server[j].op, Late(j, ServerDev(j))')
  BY <1>1, <1>2, <1>3 DEF AInv, ArchiveInv, Replacing
<1> QED BY <1>1, <1>2, <1>4 DEF ArchiveInv

\* Only users write late.
LEMMA LateKept ==
  ASSUME NEW i \in Session, ClientStep(i) \/ ServerStep(i) \/ Fault(i)
  PROVE  late' = late
<1>1. CASE ClientStep(i)
  BY <1>1 DEF ClientStep
<1>2. CASE ServerStep(i)
  BY <1>2 DEF ServerStep
<1> QED BY <1>1, <1>2 DEF Fault

LEMMA ArchiveStep == AInv /\ [Next]_vars => AInv'
<1> SUFFICES ASSUME AInv, [Next]_vars PROVE AInv'
  OBVIOUS
<1>1. HInv /\ HInv' /\ StateOK
  BY HandshakeStep DEF AInv, HInv, IInv
<1>2. ASSUME NEW i \in Session, NEW d \in Device, Dial(i, d) PROVE AInv'
  <2>1. /\ client[i].pc = "idle" /\ client[i].op = NoOp /\ server[i].op = NoOp
        /\ server' = server /\ disk' = disk /\ history' = history
        /\ client' = [client EXCEPT ![i].pc = "hello", ![i].dev = d]
    <3>1. client[i].pc = "idle" /\ server[i].pc = "idle"
      BY <1>1, <1>2 DEF Dial, HInv, Handshake, Order
    <3> QED BY <1>2, <3>1 DEF Dial, store, AInv, HInv, OpInv
  <2>2. /\ client'[i].op = NoOp /\ late' = late
        /\ \A j \in Session \ {i} : client'[j] = client[j] /\ ServerDev(j)' = ServerDev(j)
    BY <1>1, <1>2, <2>1 DEF HInv, IInv, StateOK, ClientState, ServerDev, Dial
  <2>3. ArchiveInv'
    BY <2>1, <2>2 DEF AInv, ArchiveInv, Archived, Late
  <2> QED BY <1>1, <2>3 DEF AInv
<1>3. ASSUME NEW i \in Session, late' = late, ClientStep(i) \/ ClientFails(i) PROVE AInv'
  BY <1>1, <1>3, ClientEffects, ClientFiles, ArchiveByClient DEF AInv
<1>4. ASSUME NEW i \in Session, late' = late, ServerStep(i) \/ ServerFails(i) PROVE AInv'
  BY <1>1, <1>4, ServerEffects, ServerFiles, ArchiveByServer DEF AInv
<1>5. ASSUME NEW d \in Device, NEW p \in Path, NEW v \in File, Edit(d, p, v) PROVE AInv'
  BY <1>1, <1>5, ArchiveByEdit DEF AInv
<1>6. CASE UNCHANGED vars
  BY <1>1, <1>6 DEF vars, store, AInv, ArchiveInv, Archived, ServerDev, Late
<1> QED BY <1>2, <1>3, <1>4, <1>5, <1>6, LateKept DEF Next, Fault

\* Whatever sessions do to the files of a device, what they take off the disk
\* is in its archive, unless a user wrote it into the path after the session
\* had archived that path.
THEOREM ReplacedIsArchived == Spec => ArchivedBeforeOverwritten
<1> DEFINE Kept(d, p) ==
             \/ disk[d][p] = NoFile \/ <<p, disk[d][p]>> \in history[d]
             \/ \E i \in Session : Replacing(i, d, p) /\ <<d, p>> \in late[i]
<1>1. ASSUME AInv, NEW i \in Session, NEW d \in Device, NEW e \in Device, NEW p \in Path,
             NEW op, NEW after, Files(e, op, after),
             Archived(history[e], disk[e], op, Late(i, e)),
             \A q : e = d /\ op.path = q => Replacing(i, d, q),
             disk'[d][p] # disk[d][p]
      PROVE  Kept(d, p)
  <2>1. disk \in [Device -> Folder]
    BY <1>1 DEF AInv, HInv, IInv, StateOK
  <2>2. /\ op # NoOp /\ op \in FileOp /\ disk' = [disk EXCEPT ![e][op.path] = op.hash]
    BY <1>1 DEF Files
  <2>3. d = e
    BY <1>1, <2>1, <2>2
  <2>4. disk'[d] = [disk[d] EXCEPT ![op.path] = op.hash] /\ disk[d] \in Folder
    BY <2>1, <2>2, <2>3
  <2>5. p = op.path
    BY <1>1, <2>4 DEF Folder
  <2> QED BY <1>1, <2>2, <2>3, <2>5 DEF Archived, Late
<1>2. ASSUME AInv, [Next]_vars, NEW d \in Device, NEW p \in Path,
             disk'[d][p] # disk[d][p], edits' = edits
      PROVE  Kept(d, p)
  <2>1. StateOK /\ ArchiveInv
    BY <1>2 DEF AInv, HInv, IInv
  <2>2. ASSUME NEW i \in Session, ClientStep(i) \/ ClientFails(i) PROVE Kept(d, p)
    BY <1>1, <1>2, <2>1, <2>2, ClientFiles, SideTypes DEF ArchiveInv, Replacing
  <2>3. ASSUME NEW i \in Session, ServerStep(i) \/ ServerFails(i) PROVE Kept(d, p)
    BY <1>1, <1>2, <2>1, <2>3, ServerFiles, SideTypes DEF ArchiveInv, Replacing
  <2>4. ASSUME NEW i \in Session, NEW e \in Device, Dial(i, e) PROVE FALSE
    BY <1>2, <2>4 DEF Dial
  <2>5. ASSUME NEW e \in Device, NEW q \in Path, NEW v \in File, Edit(e, q, v) PROVE FALSE
    BY <1>2, <2>1, <2>5 DEF Edit, StateOK
  <2>6. CASE UNCHANGED vars
    BY <1>2, <2>6 DEF vars
  <2> QED BY <1>2, <2>2, <2>3, <2>4, <2>5, <2>6 DEF Next, Fault
<1>3. AInv /\ [Next]_vars =>
        [\A d \in Device, p \in Path :
           disk'[d][p] # disk[d][p] /\ edits' = edits => Kept(d, p)]_vars
  BY <1>2
<1>4. Init => AInv
  BY HandshakeInit DEF AInv, ArchiveInv, Archived, Init
<1>5. AInv /\ [Next]_vars => AInv'
  BY ArchiveStep
<1> QED BY <1>3, <1>4, <1>5, PTL DEF Spec, ArchivedBeforeOverwritten

-----------------------------------------------------------------------------
(* Conflict copies, and what is left of a plan                             *)

\* The copies that sessions with a plan have put, or may put, into folders: a
\* path that no user writes to holds nothing else.
Planned(i) == client[i].pc \notin {"idle", "hello"} /\ server[i].pc \notin {"idle", "challenge"}
Copies == {<<ConflictName(p, s), seen[s].client[p]>> :
             p \in Name, s \in {i \in Session : Planned(i)}}
Legit(copies, q, h) == h = NoFile \/ q \in Name \/ <<q, h>> \in copies
LegitFolder(copies, f) == \A q \in Path : Legit(copies, q, f[q])
CopyInv ==
  /\ \A d \in Device : LegitFolder(Copies, disk[d]) /\ LegitFolder(Copies, baseline[d])
  /\ \A i \in Session : /\ LegitFolder(Copies, seen[i].client)
                        /\ LegitFolder(Copies, seen[i].server)
                        /\ LegitFolder(Copies, client[i].final)
                        /\ LegitFolder(Copies, server[i].final)

\* The plan of a session, what a side has left of it, and an operation of it.
PlanOf(s, i) == BuildPlan(s.server, s.client, s.base, i)
Within(plan, whole) ==
  /\ plan.serverSends \subseteq whole.serverSends
  /\ plan.clientSends \subseteq whole.clientSends
  /\ plan.serverDeletes \subseteq whole.serverDeletes
  /\ plan.clientDeletes \subseteq whole.clientDeletes
  /\ plan.conflicts \subseteq whole.conflicts
PlannedOp(op, received, deleted) ==
  \/ op = NoOp
  \/ op.hash = NoFile /\ op.path \in deleted
  \/ \E t \in received : t.dest = op.path /\ t.hash = op.hash

ClientPlanInv(i) ==
  /\ client[i].pc \notin {"upload", "receive"} => client[i].plan = EmptyPlan
  /\ Within(client[i].plan, PlanOf(seen[i], i))
  /\ PlannedOp(client[i].op, PlanOf(seen[i], i).serverSends, PlanOf(seen[i], i).clientDeletes)
ServerPlanInv(i) ==
  /\ server[i].pc \notin {"receive", "send", "ack"} => server[i].plan = EmptyPlan
  /\ server[i].pc \in {"send", "ack"} => server[i].plan.clientSends = {}
  /\ server[i].pc = "ack" => server[i].plan.serverDeletes = {}
  /\ Within(server[i].plan, PlanOf(seen[i], i))
  /\ PlannedOp(server[i].op, PlanOf(seen[i], i).clientSends, PlanOf(seen[i], i).serverDeletes)
FramesInv(i) ==
  /\ \A f \in Frames(toClient[i]) : f.type = "plan" => f.plan = PlanOf(seen[i], i)
  /\ \A f \in Frames(toServer[i]) : f.type = "sync_request" => f.manifest = seen[i].client
  /\ client[i].pc \in {"idle", "hello"} => ~Has(toClient[i], "plan")
SeenInv(i) ==
  /\ client[i].pc \in {"idle", "hello"} \/ server[i].pc \in {"idle", "challenge", "busy"} =>
       seen[i].server = EmptyFolder
  /\ FreshCopies(seen[i].server, seen[i].client, seen[i].base, i)
PlanInv == \A i \in Session : ClientPlanInv(i) /\ ServerPlanInv(i) /\ FramesInv(i) /\ SeenInv(i)

KInv == HInv /\ CopyInv /\ PlanInv

LEMMA LegitGrows ==
  ASSUME NEW old, NEW new, old \subseteq new, NEW f, LegitFolder(old, f)
  PROVE  LegitFolder(new, f)
  BY DEF LegitFolder, Legit

\* A path that has different files in two folders is a user's.
LEMMA DifferentIsUsers ==
  ASSUME NEW f, NEW g, LegitFolder(Copies, f), LegitFolder(Copies, g),
         NEW p \in Path, f[p] # NoFile, g[p] # NoFile, f[p] # g[p]
  PROVE  p \in Name
<1> SUFFICES ASSUME p \notin Name PROVE FALSE
  OBVIOUS
<1>1. <<p, f[p]>> \in Copies /\ <<p, g[p]>> \in Copies
  BY DEF LegitFolder, Legit
<1>2. PICK x \in Name, s \in Session : p = ConflictName(x, s) /\ f[p] = seen[s].client[x]
  BY <1>1 DEF Copies
<1>3. PICK y \in Name, t \in Session : p = ConflictName(y, t) /\ g[p] = seen[t].client[y]
  BY <1>1 DEF Copies
<1>4. x = y /\ s = t
  BY <1>2, <1>3, SessionAssumption
<1> QED BY <1>2, <1>3, <1>4

\* A round that has not planned yet finds the names of its copies unused.
LEMMA CopiesAreFresh ==
  ASSUME NEW server1 \in Folder, NEW client1 \in Folder, NEW base1 \in Folder,
         NEW i \in Session, ~Planned(i),
         LegitFolder(Copies, server1), LegitFolder(Copies, client1)
  PROVE  FreshCopies(server1, client1, base1, i)
<1> DEFINE both == At(server1, client1, base1, {"bothModified"})
<1>1. ASSUME NEW p \in both PROVE p \in Name
  <2>1. p \in Path /\ server1[p] # client1[p] /\ server1[p] # NoFile /\ client1[p] # NoFile
    BY <1>1, DecisionCases DEF At, Folder
  <2> QED BY <2>1, DifferentIsUsers
<1>2. ASSUME NEW f, LegitFolder(Copies, f), NEW p \in Name
      PROVE  f[ConflictName(p, i)] = NoFile
  <2>1. ConflictName(p, i) \in Path \ Name
    BY SessionAssumption, PlanAssumption
  <2>2. \A h : <<ConflictName(p, i), h>> \notin Copies
    BY SessionAssumption DEF Copies
  <2> QED BY <1>2, <2>1, <2>2 DEF LegitFolder, Legit
<1>3. \A p, r \in Name : ConflictName(p, i) = ConflictName(r, i) => r = p
  BY SessionAssumption
<1> QED BY <1>1, <1>2, <1>3 DEF FreshCopies

\* What the plan of a round sends is legitimate where it goes.
LEMMA SendsAreLegit ==
  ASSUME KInv, NEW i \in Session, Planned(i)
  PROVE  \A t \in PlanOf(seen[i], i).serverSends \cup PlanOf(seen[i], i).clientSends :
           Legit(Copies, t.dest, t.hash)
<1> DEFINE s == seen[i].server
           c == seen[i].client
           b == seen[i].base
           both == At(s, c, b, {"bothModified"})
<1>1. s \in Folder /\ c \in Folder /\ b \in Folder
  BY SideTypes DEF KInv, HInv, IInv, Seen
<1>2. LegitFolder(Copies, s) /\ LegitFolder(Copies, c)
  BY DEF KInv, CopyInv
<1>3. ASSUME NEW p \in both
      PROVE  Legit(Copies, ConflictName(p, i), c[p])
  <2>1. p \in Path /\ s[p] # c[p] /\ s[p] # NoFile /\ c[p] # NoFile
    BY <1>1, <1>3, DecisionCases DEF At, Folder
  <2>2. p \in Name
    BY <1>2, <2>1, DifferentIsUsers
  <2> QED BY <2>2 DEF Legit, Copies
<1>4. \A p \in Path : Legit(Copies, p, s[p]) /\ Legit(Copies, p, c[p])
  BY <1>2 DEF LegitFolder
<1>5. /\ \A kinds : At(s, c, b, kinds) \subseteq Path
      /\ \A p, r, h : Send(p, r, h).dest = r /\ Send(p, r, h).hash = h
  BY DEF At, Send
<1>6. /\ PlanOf(seen[i], i).serverSends =
           {Send(p, p, s[p]) : p \in At(s, c, b, {"serverSends", "modifyDelete"}) \cup both}
             \cup {Send(ConflictName(p, i), ConflictName(p, i), c[p]) : p \in both}
      /\ PlanOf(seen[i], i).clientSends =
           {Send(p, p, c[p]) : p \in At(s, c, b, {"clientSends", "deleteModify"})}
             \cup {Send(p, ConflictName(p, i), c[p]) : p \in both}
  BY PlanTransfers DEF PlanOf
<1> HIDE DEF s, c, b, both
<1>7. both \subseteq Path
  BY <1>5 DEF both
<1> QED BY <1>3, <1>4, <1>5, <1>6, <1>7

\* What a step of a client does to the stored manifests and to what its
\* session has seen, apart from the installation of a file.
SeenIs(i, c, s, b) ==
  /\ seen'[i].client = c /\ seen'[i].server = s /\ seen'[i].base = b
  /\ seen'[i].quiet = seen[i].quiet
ClientData(i) ==
  LET d == client[i].dev IN
  /\ \A j \in Session \ {i} : seen'[j] = seen[j]
  /\ \/ seen'[i] = seen[i]
     \/ /\ ClientScan(i) /\ client[i].pc = "hello"
        /\ SeenIs(i, disk[d], seen[i].server, seen[i].base)
  /\ baseline' = baseline \/ baseline' = [baseline EXCEPT ![d] = client[i].final]
  /\ client'[i].final \in {client[i].final, disk[d]}
  /\ disk' = disk \/ ClientInstall(i)

LEMMA ClientDataStep ==
  ASSUME StateOK, NEW i \in Session, ClientStep(i) \/ ClientFails(i)
  PROVE  ClientData(i)
<1> DEFINE d == client[i].dev
<1>a. seen \in [Session -> Seen]
  BY DEF StateOK
<1>1. ASSUME seen' = seen, baseline' = baseline, disk' = disk \/ ClientInstall(i),
             client'[i].final \in {client[i].final, disk[d]}
      PROVE  ClientData(i)
  BY <1>1 DEF ClientData
<1>2. CASE ClientScan(i)
  <2>1. client'[i].final = client[i].final
    BY <1>2, ClientFields, Zenon DEF ClientIs
  <2>2. /\ seen' = [seen EXCEPT ![i].client = disk[d]] /\ disk' = disk /\ baseline' = baseline
        /\ client[i].pc = "hello"
    BY <1>2 DEF ClientScan
  <2>3. /\ SeenIs(i, disk[d], seen[i].server, seen[i].base)
        /\ \A j \in Session \ {i} : seen'[j] = seen[j]
    BY <2>2, <1>a DEF Seen, SeenIs
  <2> QED BY <1>2, <2>1, <2>2, <2>3, Zenon DEF ClientData
<1>3. CASE ClientPlan(i)
  BY <1>1, <1>3, ClientFields, Zenon DEF ClientIs, ClientPlan
<1>4. ASSUME NEW t, ClientSend(i, t) PROVE ClientData(i)
  BY <1>1, <1>4, ClientFields, Zenon DEF ClientIs, ClientSend, store
<1>5. CASE ClientUploadsDone(i)
  BY <1>1, <1>5, ClientFields, Zenon DEF ClientIs, ClientUploadsDone, store
<1>6. ASSUME NEW p, ClientDelete(i, p) PROVE ClientData(i)
  BY <1>1, <1>6, ClientFields, Zenon DEF ClientIs, ClientDelete
<1>7. CASE ClientReceive(i)
  BY <1>1, <1>7, ClientFields, Zenon DEF ClientIs, ClientReceive
<1>8. CASE ClientInstall(i)
  BY <1>1, <1>8, ClientFields, Zenon DEF ClientIs, ClientInstall, store
<1>9. CASE ClientFinish(i)
  BY <1>1, <1>9, ClientFields, Zenon DEF ClientIs, ClientFinish, ClientReceived
<1>10. CASE ClientCommit(i)
  <2>1. client'[i].final = client[i].final
    BY <1>10, ClientFields, Zenon DEF ClientIs
  <2> QED BY <1>10, <2>1 DEF ClientCommit, ClientData
<1>11. CASE ClientFails(i)
  BY <1>1, <1>11, ClientFields, Zenon DEF ClientIs, ClientFails, store
<1> QED BY <1>2, <1>3, <1>4, <1>5, <1>6, <1>7, <1>8, <1>9, <1>10, <1>11 DEF ClientStep

ServerData(i) ==
  LET d == ServerDev(i) IN
  /\ \A j \in Session \ {i} : seen'[j] = seen[j]
  /\ \/ seen'[i] = seen[i]
     \/ /\ ServerPlan(i) /\ server[i].pc = "challenge"
        /\ SeenIs(i, seen[i].client, disk[d], baseline[d])
  /\ baseline' = baseline \/ baseline' = [baseline EXCEPT ![d] = server[i].final]
  /\ server'[i].final \in {server[i].final, disk[d]}
  /\ disk' = disk \/ ServerInstall(i)

LEMMA ServerDataStep ==
  ASSUME StateOK, NEW i \in Session, ServerStep(i) \/ ServerFails(i)
  PROVE  ServerData(i)
<1> DEFINE d == ServerDev(i)
<1>a. seen \in [Session -> Seen]
  BY DEF StateOK
<1>1. ASSUME seen' = seen, baseline' = baseline, disk' = disk \/ ServerInstall(i),
             server'[i].final \in {server[i].final, disk[d]}
      PROVE  ServerData(i)
  BY <1>1 DEF ServerData
<1>2. CASE ServerPlan(i)
  <2>1. server'[i].final = server[i].final
    BY <1>2, ServerFields, Zenon DEF ServerIs
  <2>2. /\ seen' = [seen EXCEPT ![i].server = disk[d], ![i].base = baseline[d]]
        /\ disk' = disk /\ baseline' = baseline /\ server[i].pc = "challenge"
    BY <1>2 DEF ServerPlan
  <2>3. /\ SeenIs(i, seen[i].client, disk[d], baseline[d])
        /\ \A j \in Session \ {i} : seen'[j] = seen[j]
    BY <2>2, <1>a DEF Seen, SeenIs
  <2> QED BY <1>2, <2>1, <2>2, <2>3, Zenon DEF ServerData
<1>3. CASE ServerHello(i)
  BY <1>1, <1>3, ServerFields, Zenon DEF ServerIs, ServerHello, store
<1>4. CASE ServerBusy(i)
  BY <1>1, <1>4, ServerFields, Zenon DEF ServerIs, ServerBusy
<1>5. CASE ServerReceive(i)
  BY <1>1, <1>5, ServerFields, Zenon DEF ServerIs, ServerReceive
<1>6. CASE ServerUploadsDone(i)
  BY <1>1, <1>6, ServerFields, Zenon DEF ServerIs, ServerUploadsDone, store
<1>7. ASSUME NEW p, ServerDelete(i, p) PROVE ServerData(i)
  BY <1>1, <1>7, ServerFields, Zenon DEF ServerIs, ServerDelete
<1>8. CASE ServerInstall(i)
  BY <1>1, <1>8, ServerFields, Zenon DEF ServerIs, ServerInstall, store
<1>9. ASSUME NEW t, ServerSend(i, t) PROVE ServerData(i)
  BY <1>1, <1>9, ServerFields, Zenon DEF ServerIs, ServerSend, store
<1>10. CASE ServerTransfersDone(i)
  BY <1>1, <1>10, ServerFields, Zenon DEF ServerIs, ServerTransfersDone, store
<1>11. CASE ServerRescan(i)
  <2>1. server'[i].final \in {server[i].final, disk[d]}
    BY <1>11, ServerFields, Zenon DEF ServerIs
  <2>2. seen' = seen /\ baseline' = baseline /\ disk' = disk
    BY <1>11 DEF ServerRescan
  <2> QED BY <1>1, <2>1, <2>2
<1>12. CASE ServerCommit(i)
  <2>1. server'[i].final = server[i].final
    BY <1>12, ServerFields, Zenon DEF ServerIs
  <2> QED BY <1>12, <2>1 DEF ServerCommit, ServerData
<1>13. CASE ServerResult(i)
  BY <1>1, <1>13, ServerFields, Zenon DEF ServerIs, ServerResult, store
<1>14. CASE ServerFails(i)
  BY <1>1, <1>14, ServerFields, Zenon DEF ServerIs, ServerFails, store
<1> QED BY <1>2, <1>3, <1>4, <1>5, <1>6, <1>7, <1>8, <1>9, <1>10, <1>11, <1>12, <1>13,
           <1>14 DEF ServerStep

\* Once planned, a round stays so, and what its client scanned with it.
LEMMA PlannedByClient ==
  ASSUME HInv, NEW i \in Session, ClientAlone(i), ClientTalk(i), ClientData(i)
  PROVE  Copies \subseteq Copies'
<1>1. ASSUME NEW j \in Session, Planned(j)
      PROVE  Planned(j)' /\ seen'[j].client = seen[j].client
  <2>1. CASE j = i
    BY <1>1, <2>1 DEF Planned, ClientAlone, ClientTalk, ClientData
  <2>2. CASE j # i
    BY <1>1, <2>2 DEF Planned, ClientAlone, ClientData
  <2> QED BY <2>1, <2>2
<1> QED BY <1>1 DEF Copies

LEMMA PlannedByServer ==
  ASSUME HInv, NEW i \in Session, ServerAlone(i), ServerTalk(i), ServerData(i)
  PROVE  Copies \subseteq Copies'
<1>1. ASSUME NEW j \in Session, Planned(j)
      PROVE  Planned(j)' /\ seen'[j].client = seen[j].client
  <2>1. CASE j = i
    BY <1>1, <2>1 DEF Planned, ServerAlone, ServerTalk, ServerData, SeenIs
  <2>2. CASE j # i
    BY <1>1, <2>2 DEF Planned, ServerAlone, ServerData
  <2> QED BY <2>1, <2>2
<1> QED BY <1>1 DEF Copies

\* What an operation puts in place is legitimate.
LEMMA OpsAreLegit ==
  ASSUME KInv, NEW i \in Session
  PROVE  /\ client[i].op # NoOp => Legit(Copies, client[i].op.path, client[i].op.hash)
         /\ server[i].op # NoOp => Legit(Copies, server[i].op.path, server[i].op.hash)
<1>1. client[i].op # NoOp \/ server[i].op # NoOp => Planned(i)
  BY DEF KInv, HInv, OpInv, Handshake, Order, Planned
<1>2. /\ PlannedOp(client[i].op, PlanOf(seen[i], i).serverSends, PlanOf(seen[i], i).clientDeletes)
      /\ PlannedOp(server[i].op, PlanOf(seen[i], i).clientSends, PlanOf(seen[i], i).serverDeletes)
  BY DEF KInv, PlanInv, ClientPlanInv, ServerPlanInv
<1>3. \A q, h : h = NoFile => Legit(Copies, q, h)
  BY DEF Legit
<1> QED BY <1>1, <1>2, <1>3, SendsAreLegit DEF PlannedOp

LEMMA InstalledIsLegit ==
  ASSUME StateOK, NEW d \in Device, NEW op \in FileOp, op # NoOp,
         \A e \in Device : LegitFolder(Copies, disk[e]), Legit(Copies, op.path, op.hash),
         disk' = [disk EXCEPT ![d][op.path] = op.hash]
  PROVE  \A e \in Device : LegitFolder(Copies, disk'[e])
<1>1. disk[d] \in [Path -> File] /\ disk \in [Device -> Folder] /\ op.path \in Path
  BY DEF StateOK, Folder, FileOp
<1>2. /\ disk'[d] = [disk[d] EXCEPT ![op.path] = op.hash]
      /\ \A e \in Device \ {d} : disk'[e] = disk[e]
  BY <1>1
<1>3. LegitFolder(Copies, disk'[d])
  BY <1>1, <1>2 DEF LegitFolder
<1> QED BY <1>2, <1>3

LEMMA CopyByClient ==
  ASSUME KInv, NEW i \in Session, ClientAlone(i), ClientTalk(i), ClientData(i)
  PROVE  CopyInv'
<1> DEFINE d == client[i].dev
           L(f) == LegitFolder(Copies, f)
<1>1. StateOK /\ d \in Device /\ client[i].op \in FileOp
  BY SideTypes DEF KInv, HInv, IInv
<1>2. /\ \A e \in Device : L(disk[e]) /\ L(baseline[e])
      /\ \A j \in Session : L(seen[j].client) /\ L(seen[j].server)
                            /\ L(client[j].final) /\ L(server[j].final)
  BY DEF KInv, CopyInv
<1>3. \A e \in Device : L(disk'[e])
  <2>1. CASE disk' = disk
    BY <1>2, <2>1
  <2>2. CASE ClientInstall(i)
    <3>1. client[i].op # NoOp /\ disk' = [disk EXCEPT ![d][client[i].op.path] = client[i].op.hash]
      BY <2>2 DEF ClientInstall
    <3> QED BY <1>1, <1>2, <3>1, OpsAreLegit, InstalledIsLegit
  <2> QED BY <2>1, <2>2 DEF ClientData
<1>4. \A e \in Device : L(baseline'[e])
  <2>1. baseline \in [Device -> Folder]
    BY <1>1 DEF StateOK
  <2> QED BY <1>1, <1>2, <2>1 DEF ClientData
<1>5. \A j \in Session : L(seen'[j].client) /\ L(seen'[j].server)
  <2>1. L(seen'[i].client) /\ L(seen'[i].server)
    BY <1>1, <1>2 DEF ClientData, SeenIs
  <2> QED BY <1>2, <2>1 DEF ClientData
<1>6. \A j \in Session : L(client'[j].final) /\ L(server'[j].final)
  <2>1. L(client'[i].final)
    BY <1>1, <1>2 DEF ClientData
  <2> QED BY <1>2, <2>1 DEF ClientAlone
<1>7. Copies \subseteq Copies'
  BY PlannedByClient DEF KInv
<1>8. \A f : L(f) => LegitFolder(Copies', f)
  BY <1>7, LegitGrows
<1> QED BY <1>3, <1>4, <1>5, <1>6, <1>8 DEF CopyInv

LEMMA CopyByServer ==
  ASSUME KInv, NEW i \in Session, ServerAlone(i), ServerTalk(i), ServerData(i)
  PROVE  CopyInv'
<1> DEFINE d == ServerDev(i)
           L(f) == LegitFolder(Copies, f)
<1>1. StateOK /\ d \in Device /\ server[i].op \in FileOp
  BY SideTypes DEF KInv, HInv, IInv
<1>2. /\ \A e \in Device : L(disk[e]) /\ L(baseline[e])
      /\ \A j \in Session : L(seen[j].client) /\ L(seen[j].server)
                            /\ L(client[j].final) /\ L(server[j].final)
  BY DEF KInv, CopyInv
<1>3. \A e \in Device : L(disk'[e])
  <2>1. CASE disk' = disk
    BY <1>2, <2>1
  <2>2. CASE ServerInstall(i)
    <3>1. server[i].op # NoOp /\ disk' = [disk EXCEPT ![d][server[i].op.path] = server[i].op.hash]
      BY <2>2 DEF ServerInstall
    <3> QED BY <1>1, <1>2, <3>1, OpsAreLegit, InstalledIsLegit
  <2> QED BY <2>1, <2>2 DEF ServerData
<1>4. \A e \in Device : L(baseline'[e])
  <2>1. baseline \in [Device -> Folder]
    BY <1>1 DEF StateOK
  <2> QED BY <1>1, <1>2, <2>1 DEF ServerData
<1>5. \A j \in Session : L(seen'[j].client) /\ L(seen'[j].server)
  <2>1. L(seen'[i].client) /\ L(seen'[i].server)
    BY <1>1, <1>2 DEF ServerData, SeenIs
  <2> QED BY <1>2, <2>1 DEF ServerData
<1>6. \A j \in Session : L(client'[j].final) /\ L(server'[j].final)
  <2>1. L(server'[i].final)
    BY <1>1, <1>2 DEF ServerData
  <2> QED BY <1>2, <2>1 DEF ServerAlone
<1>7. Copies \subseteq Copies'
  BY PlannedByServer DEF KInv
<1>8. \A f : L(f) => LegitFolder(Copies', f)
  BY <1>7, LegitGrows
<1> QED BY <1>3, <1>4, <1>5, <1>6, <1>8 DEF CopyInv

LEMMA CopyByEdit ==
  ASSUME KInv, NEW d \in Device, NEW p \in Path, NEW v \in File, Edit(d, p, v)
  PROVE  CopyInv'
<1>1. /\ disk \in [Device -> Folder] /\ seen \in [Session -> Seen]
      /\ disk' = [disk EXCEPT ![d][p] = v] /\ (p \in Name \/ v = NoFile)
      /\ client' = client /\ server' = server /\ baseline' = baseline
      /\ seen' = [i \in Session |-> IF Live(i) THEN [seen[i] EXCEPT !.quiet = FALSE] ELSE seen[i]]
  BY DEF KInv, HInv, IInv, StateOK, Edit, store
<1>2. \A j \in Session : seen'[j].client = seen[j].client /\ seen'[j].server = seen[j].server
  BY <1>1 DEF Seen
<1>3. Copies \subseteq Copies'
  BY <1>1, <1>2 DEF Copies, Planned
<1>4. /\ disk'[d] = [disk[d] EXCEPT ![p] = v] /\ disk[d] \in [Path -> File]
      /\ \A e \in Device \ {d} : disk'[e] = disk[e]
  BY <1>1 DEF Folder
<1>5. \A e \in Device : LegitFolder(Copies, disk'[e])
  <2>1. LegitFolder(Copies, disk'[d])
    BY <1>1, <1>4 DEF KInv, CopyInv, LegitFolder, Legit
  <2> QED BY <1>4, <2>1 DEF KInv, CopyInv
<1>6. \A f : LegitFolder(Copies, f) => LegitFolder(Copies', f)
  BY <1>3, LegitGrows
<1> QED BY <1>1, <1>2, <1>5, <1>6 DEF KInv, CopyInv

LEMMA CopyByDial ==
  ASSUME KInv, NEW i \in Session, NEW d \in Device, Dial(i, d)
  PROVE  CopyInv'
<1>1. /\ client \in [Session -> ClientState] /\ client[i].pc = "idle"
      /\ client' = [client EXCEPT ![i].pc = "hello", ![i].dev = d]
      /\ disk' = disk /\ baseline' = baseline /\ server' = server /\ seen' = seen
  BY DEF KInv, HInv, IInv, StateOK, Dial, store
<1>2. /\ client'[i].final = client[i].final
      /\ \A j \in Session \ {i} : client'[j] = client[j]
  BY <1>1 DEF ClientState
<1>3. Copies \subseteq Copies'
  <2>1. \A j \in Session : Planned(j) => Planned(j)'
    BY <1>1, <1>2 DEF Planned
  <2> QED BY <1>1, <2>1 DEF Copies
<1>4. \A f : LegitFolder(Copies, f) => LegitFolder(Copies', f)
  BY <1>3, LegitGrows
<1> QED BY <1>1, <1>2, <1>4 DEF KInv, CopyInv

\* The parts of a plan.
LEMMA WithinPlan ==
  ASSUME NEW whole \in Plan, NEW x
  PROVE  /\ Within(whole, whole) /\ Within(EmptyPlan, whole)
         /\ \A plan \in Plan : Within(plan, whole) =>
              /\ Within([plan EXCEPT !.clientSends = @ \ {x}], whole)
              /\ Within([plan EXCEPT !.serverSends = @ \ {x}], whole)
              /\ Within([plan EXCEPT !.clientDeletes = @ \ {x}], whole)
              /\ Within([plan EXCEPT !.serverDeletes = @ \ {x}], whole)
  BY DEF Within, Plan, EmptyPlan

LEMMA PlanOfType ==
  ASSUME NEW s \in Seen, NEW i \in Session
  PROVE  PlanOf(s, i) \in Plan
  BY BuildPlanType DEF PlanOf, Seen

\* Against an empty server nothing is in conflict.
LEMMA EmptyIsFresh ==
  ASSUME NEW c \in Folder, NEW b \in Folder, NEW s
  PROVE  FreshCopies(EmptyFolder, c, b, s)
<1>1. At(EmptyFolder, c, b, {"bothModified"}) = {}
  <2> SUFFICES ASSUME NEW p \in Path, Decision(EmptyFolder[p], c[p], b[p]) = "bothModified"
               PROVE  FALSE
    BY DEF At
  <2>1. EmptyFolder[p] = NoFile /\ NoFile \in File /\ c[p] \in File /\ b[p] \in File
    BY DEF EmptyFolder, Folder, File
  <2> QED BY <2>1, DecisionCases
<1> QED BY <1>1 DEF FreshCopies

\* The requests and plans that are written.
LEMMA ClientRequests ==
  ASSUME StateOK, NEW i \in Session, ClientStep(i) \/ ClientFails(i),
         NEW f \in Frames(toServer'[i]), f.type = "sync_request"
  PROVE  f \in Frames(toServer[i]) \/ (ClientScan(i) /\ f.manifest = disk[client[i].dev])
<1> USE SideTypes
<1> DEFINE d == client[i].dev
<1>1. CASE ClientScan(i)
  <2> DEFINE g == [type |-> "sync_request", manifest |-> disk[d],
                   resolved |-> ResolvedIds(conflicts[d])]
  <2>1. g \in Frame /\ ToServer(i, g)
    BY <1>1, FrameTypes, RecordTypes DEF ClientScan
  <2>2. g.manifest = disk[d]
    OBVIOUS
  <2> HIDE DEF g, d
  <2>3. Frames(toServer'[i]) \subseteq Frames(toServer[i]) \cup {g}
    BY <2>1, QueueEffects
  <2> QED BY <1>1, <2>2, <2>3 DEF d
<1>2. ASSUME NEW g \in Frame, g.type # "sync_request", ToServer(i, g)
      PROVE  f \in Frames(toServer[i])
  <2>1. Frames(toServer'[i]) \subseteq Frames(toServer[i]) \cup {g}
    BY <1>2, QueueEffects
  <2> QED BY <1>2, <2>1
<1>3. ASSUME NEW t \in client[i].plan.clientSends, ClientSend(i, t)
      PROVE  f \in Frames(toServer[i])
  <2>1. t \in Transfer
    BY DEF Plan
  <2>2. disk[d][t.source] \in Hash
    BY <1>3, <2>1 DEF ClientSend, Transfer, Folder, File
  <2>3. [type |-> "file", transfer |-> t, data |-> disk[d][t.source]] \in Frame
    BY <2>1, <2>2, FrameTypes
  <2> QED BY <1>2, <1>3, <2>3 DEF ClientSend
<1>4. CASE ClientUploadsDone(i)
  BY <1>2, <1>4, FrameTypes DEF ClientUploadsDone
<1>5. CASE ClientFinish(i)
  <2>1. [type |-> "ack", manifest |-> disk[d]] \in Frame
    BY FrameTypes
  <2> QED BY <1>2, <1>5, <2>1 DEF ClientFinish, ClientReceived
<1>6. ASSUME toServer' = toServer PROVE f \in Frames(toServer[i])
  BY <1>6
<1> QED BY <1>1, <1>3, <1>4, <1>5, <1>6, Zenon
         DEF ClientStep, ClientPlan, ClientDelete, ClientReceive, ClientInstall, ClientCommit, ClientFails

LEMMA ServerPlans ==
  ASSUME StateOK, NEW i \in Session, ServerStep(i) \/ ServerFails(i),
         NEW f \in Frames(toClient'[i]), f.type = "plan"
  PROVE  \/ f \in Frames(toClient[i])
         \/ /\ ServerPlan(i)
            /\ f.plan = BuildPlan(disk[ServerDev(i)], Head(toServer[i]).manifest,
                                  baseline[ServerDev(i)], i)
<1> USE SideTypes
<1> DEFINE d == ServerDev(i)
<1>1. CASE ServerPlan(i)
  <2> DEFINE request == Head(toServer[i])
             plan == BuildPlan(disk[d], request.manifest, baseline[d], i)
             marked == MarkResolved(conflicts[d], request.resolved)
             g == [type |-> "plan", plan |-> plan, resolved |-> ResolvedIds(marked)]
  <2>1. request.manifest \in Folder
    BY <1>1, HeadOfQueue, FrameKinds DEF ServerPlan
  <2>2. plan \in Plan /\ ResolvedIds(marked) \in SUBSET ConflictId
    BY <2>1, BuildPlanType, RecordTypes
  <2>3. ToClient(i, g) /\ g.plan = plan
    BY <1>1 DEF ServerPlan
  <2> HIDE DEF plan, marked
  <2>4. g \in Frame
    BY <2>2, FrameTypes
  <2> HIDE DEF g
  <2>5. Frames(toClient'[i]) \subseteq Frames(toClient[i]) \cup {g}
    BY <2>3, <2>4, QueueEffects
  <2> QED BY <1>1, <2>3, <2>5 DEF plan
<1>2. ASSUME NEW g \in Frame, g.type # "plan", ToClient(i, g)
      PROVE  f \in Frames(toClient[i])
  <2>1. Frames(toClient'[i]) \subseteq Frames(toClient[i]) \cup {g}
    BY <1>2, QueueEffects
  <2> QED BY <1>2, <2>1
<1>3. ASSUME NEW t \in server[i].plan.serverSends, ServerSend(i, t)
      PROVE  f \in Frames(toClient[i])
  <2>1. t \in Transfer
    BY DEF Plan
  <2>2. disk[d][t.source] \in Hash
    BY <1>3, <2>1 DEF ServerSend, Transfer, Folder, File
  <2>3. [type |-> "file", transfer |-> t, data |-> disk[d][t.source]] \in Frame
    BY <2>1, <2>2, FrameTypes
  <2> QED BY <1>2, <1>3, <2>3 DEF ServerSend
<1>4. CASE ServerHello(i) \/ ServerTransfersDone(i) \/ ServerResult(i)
  BY <1>2, <1>4, FrameTypes DEF ServerHello, ServerTransfersDone, ServerResult
<1>5. ASSUME toClient' = toClient PROVE f \in Frames(toClient[i])
  BY <1>5
<1> QED BY <1>1, <1>3, <1>4, <1>5, Zenon
         DEF ServerStep, ServerBusy, ServerReceive, ServerUploadsDone, ServerDelete, ServerInstall,
            ServerRescan, ServerCommit, ServerFails

\* What a client has left of its plan.
LEMMA ClientPlanStep ==
  ASSUME KInv, NEW i \in Session, ClientStep(i) \/ ClientFails(i), seen'[i] = seen[i]
  PROVE  ClientPlanInv(i)'
<1> DEFINE c == client[i]
           W == PlanOf(seen[i], i)
           frame == Head(toClient[i])
           Kept == /\ client'[i].pc \notin {"upload", "receive"} => client'[i].plan = EmptyPlan
                   /\ Within(client'[i].plan, W)
                   /\ PlannedOp(client'[i].op, W.serverSends, W.clientDeletes)
<1>1. /\ StateOK /\ c.plan \in Plan /\ W \in Plan /\ c.op \in FileOp
      /\ toClient[i] \in Seq(Frame)
  BY SideTypes, PlanOfType DEF KInv, HInv, IInv
<1>2. /\ c.pc \notin {"upload", "receive"} => c.plan = EmptyPlan
      /\ Within(c.plan, W)
      /\ PlannedOp(c.op, W.serverSends, W.clientDeletes)
      /\ \A f \in Frames(toClient[i]) : f.type = "plan" => f.plan = W
      /\ c.op # NoOp => c.pc = "receive"
  BY DEF KInv, PlanInv, ClientPlanInv, FramesInv, HInv, OpInv
<1>3. ASSUME NEW pc, NEW op, op \in {c.op, NoOp}, ClientIs(i, pc, c.plan, op, c.final),
             pc \in {"upload", "receive"} \/ c.pc \notin {"upload", "receive"}
      PROVE  Kept
  BY <1>2, <1>3 DEF ClientIs, PlannedOp
<1>4. ASSUME NEW pc, NEW op, NEW final, op \in {c.op, NoOp}, ClientIs(i, pc, EmptyPlan, op, final)
      PROVE  Kept
  BY <1>1, <1>2, <1>4, WithinPlan DEF ClientIs, PlannedOp
<1>5. CASE ClientScan(i)
  <2>1. ClientIs(i, "request", c.plan, c.op, c.final) /\ c.pc = "hello"
    BY <1>1, <1>5, ClientFields, Zenon DEF ClientScan
  <2>2. Kept
    BY <1>3, <2>1
  <2> QED BY <2>2 DEF ClientPlanInv
<1>6. CASE ClientPlan(i)
  <2>1. ClientIs(i, "upload", frame.plan, c.op, c.final) /\ Heads(toClient[i], "plan")
    BY <1>1, <1>6, ClientFields, Zenon DEF ClientPlan
  <2>2. frame \in Frames(toClient[i]) /\ frame.type = "plan"
    BY <1>1, <2>1, FramesOf DEF Heads
  <2>3. frame.plan = W
    BY <1>2, <2>2
  <2> HIDE DEF W, frame
  <2>4. Kept
    BY <1>1, <1>2, <2>1, <2>3, WithinPlan DEF ClientIs
  <2> QED BY <2>4 DEF ClientPlanInv, W
<1>7. ASSUME NEW t \in client[i].plan.clientSends, ClientSend(i, t)
      PROVE  ClientPlanInv(i)'
  <2>1. ClientIs(i, "upload", [c.plan EXCEPT !.clientSends = @ \ {t}], c.op, c.final)
    BY <1>1, <1>7, ClientFields, Zenon
  <2>2. Within([c.plan EXCEPT !.clientSends = @ \ {t}], W)
    BY <1>1, <1>2, WithinPlan
  <2>3. Kept
    BY <1>2, <2>1, <2>2 DEF ClientIs
  <2> QED BY <2>3 DEF ClientPlanInv
<1>8. CASE ClientUploadsDone(i)
  <2>1. ClientIs(i, "receive", c.plan, c.op, c.final)
    BY <1>1, <1>8, ClientFields, Zenon
  <2>2. Kept
    BY <1>3, <2>1
  <2> QED BY <2>2 DEF ClientPlanInv
<1>9. ASSUME NEW p \in client[i].plan.clientDeletes, ClientDelete(i, p)
      PROVE  ClientPlanInv(i)'
  <2>1. ClientIs(i, "receive", [c.plan EXCEPT !.clientDeletes = @ \ {p}],
                 [path |-> p, hash |-> NoFile], c.final)
    BY <1>1, <1>9, ClientFields, Zenon
  <2>2. Within([c.plan EXCEPT !.clientDeletes = @ \ {p}], W)
    BY <1>1, <1>2, WithinPlan
  <2>3. PlannedOp([path |-> p, hash |-> NoFile], W.serverSends, W.clientDeletes)
    BY <1>2, <1>9 DEF PlannedOp, Within
  <2>4. Kept
    BY <2>1, <2>2, <2>3 DEF ClientIs
  <2> QED BY <2>4 DEF ClientPlanInv
<1>10. CASE ClientReceive(i)
  <2> DEFINE t == frame.transfer
  <2>1. ClientIs(i, "receive", [c.plan EXCEPT !.serverSends = @ \ {t}],
                 [path |-> t.dest, hash |-> frame.data], c.final)
    BY <1>1, <1>10, ClientFields, Zenon
  <2>2. t \in c.plan.serverSends /\ frame.data = t.hash
    BY <1>10 DEF ClientReceive
  <2> HIDE DEF t
  <2>3. Within([c.plan EXCEPT !.serverSends = @ \ {t}], W)
    BY <1>1, <1>2, WithinPlan
  <2>4. PlannedOp([path |-> t.dest, hash |-> frame.data], W.serverSends, W.clientDeletes)
    BY <1>2, <2>2 DEF PlannedOp, Within
  <2>5. Kept
    BY <2>1, <2>3, <2>4 DEF ClientIs
  <2> QED BY <2>5 DEF ClientPlanInv
<1>11. CASE ClientInstall(i)
  <2>1. ClientIs(i, c.pc, c.plan, NoOp, c.final)
    BY <1>1, <1>11, ClientFields, Zenon
  <2>2. Kept
    BY <1>3, <2>1
  <2> QED BY <2>2 DEF ClientPlanInv
<1>12. CASE ClientFinish(i)
  <2>1. ClientIs(i, "ack", EmptyPlan, c.op, disk[c.dev])
    BY <1>1, <1>12, ClientFields, Zenon
  <2>2. Kept
    BY <1>4, <2>1
  <2> QED BY <2>2 DEF ClientPlanInv
<1>13. CASE ClientCommit(i)
  <2>1. ClientIs(i, "done", c.plan, c.op, c.final) /\ c.pc = "ack"
    BY <1>1, <1>13, ClientFields, Zenon DEF ClientCommit
  <2>2. Kept
    BY <1>3, <2>1
  <2> QED BY <2>2 DEF ClientPlanInv
<1>14. CASE ClientFails(i)
  <2>1. ClientIs(i, "failed", EmptyPlan, NoOp, c.final)
    BY <1>1, <1>14, ClientFields, Zenon
  <2>2. Kept
    BY <1>4, <2>1
  <2> QED BY <2>2 DEF ClientPlanInv
<1> QED BY <1>5, <1>6, <1>7, <1>8, <1>9, <1>10, <1>11, <1>12, <1>13, <1>14 DEF ClientStep

LEMMA PlanByClient ==
  ASSUME KInv, NEW i \in Session, ClientStep(i) \/ ClientFails(i),
         ClientAlone(i), ClientTalk(i), ClientData(i), ClientFrames(i)
  PROVE  PlanInv'
<1>1. /\ StateOK /\ server' = server
      /\ ClientPlanInv(i) /\ ServerPlanInv(i) /\ FramesInv(i) /\ SeenInv(i)
      /\ Sender(i) /\ Order(i)
      /\ client[i].op # NoOp => client[i].pc = "receive"
      /\ server[i].op # NoOp => server[i].pc \in {"receive", "send"}
      /\ Frames(toClient'[i]) \subseteq Frames(toClient[i])
  BY DEF KInv, HInv, IInv, PlanInv, OpInv, Handshake, ClientAlone, ClientFrames
<1>2. ASSUME NEW j \in Session \ {i}
      PROVE  (ClientPlanInv(j) /\ ServerPlanInv(j) /\ FramesInv(j) /\ SeenInv(j))'
  <2>1. /\ client'[j] = client[j] /\ server'[j] = server[j] /\ seen'[j] = seen[j]
        /\ toServer'[j] = toServer[j] /\ toClient'[j] = toClient[j]
    BY DEF ClientAlone, ClientData
  <2> QED BY <2>1 DEF KInv, PlanInv, ClientPlanInv, ServerPlanInv, FramesInv, SeenInv
<1>3. client'[i].pc \in {"idle", "hello"} => client[i].pc \in {"idle", "hello"}
  BY DEF ClientTalk
<1>4. client'[i].pc \in {"idle", "hello"} => ~Has(toClient'[i], "plan")
  BY <1>1, <1>3 DEF FramesInv, Has
<1>5. CASE seen'[i] = seen[i]
  <2>1. ClientPlanInv(i)'
    BY <1>5, ClientPlanStep
  <2>2. ServerPlanInv(i)'
    BY <1>1, <1>5 DEF ServerPlanInv
  <2>3. FramesInv(i)'
    <3>1. ASSUME NEW f \in Frames(toServer'[i]), f.type = "sync_request"
          PROVE  f.manifest = seen'[i].client
      <4>1. f \in Frames(toServer[i]) \/ (ClientScan(i) /\ f.manifest = disk[client[i].dev])
        BY <1>1, <3>1, ClientRequests
      <4>2. ClientScan(i) => seen'[i].client = disk[client[i].dev]
        BY <1>1 DEF ClientScan, StateOK, Seen
      <4> QED BY <1>1, <1>5, <3>1, <4>1, <4>2 DEF FramesInv
    <3> QED BY <1>1, <1>4, <1>5, <3>1 DEF FramesInv
  <2>4. SeenInv(i)'
    BY <1>1, <1>3, <1>5 DEF SeenInv
  <2> QED BY <1>2, <2>1, <2>2, <2>3, <2>4 DEF PlanInv
<1>6. CASE seen'[i] # seen[i]
  <2> DEFINE d == client[i].dev
  <2>1. /\ ClientScan(i) /\ client[i].pc = "hello"
        /\ SeenIs(i, disk[d], seen[i].server, seen[i].base)
    BY <1>6 DEF ClientData
  <2>2. ClientIs(i, "request", client[i].plan, client[i].op, client[i].final)
    BY <1>1, <2>1, ClientFields, Zenon
  <2>3. /\ client[i].plan = EmptyPlan /\ client[i].op = NoOp
        /\ server[i].plan = EmptyPlan /\ server[i].op = NoOp
        /\ server[i].pc \notin {"receive", "send", "ack"}
        /\ seen[i].server = EmptyFolder
        /\ ~Has(toClient[i], "plan") /\ ~Has(toServer[i], "sync_request")
    BY <1>1, <2>1 DEF ClientPlanInv, ServerPlanInv, SeenInv, FramesInv, Sender, Order
  <2>4. seen'[i] \in Seen /\ PlanOf(seen'[i], i) \in Plan
    <3>1. StateOK'
      BY <1>1, ClientTypes
    <3> QED BY <3>1, PlanOfType DEF StateOK
  <2>5. ClientPlanInv(i)'
    BY <2>2, <2>3, <2>4, WithinPlan DEF ClientPlanInv, ClientIs, PlannedOp
  <2>6. ServerPlanInv(i)'
    BY <1>1, <2>3, <2>4, WithinPlan DEF ServerPlanInv, PlannedOp
  <2>7. FramesInv(i)'
    <3>1. ASSUME NEW f \in Frames(toServer'[i]), f.type = "sync_request"
          PROVE  f.manifest = seen'[i].client
      BY <1>1, <2>1, <2>3, <3>1, ClientRequests DEF Has, SeenIs
    <3>2. \A f \in Frames(toClient'[i]) : f.type # "plan"
      BY <1>1, <2>3 DEF Has
    <3> QED BY <1>4, <3>1, <3>2 DEF FramesInv
  <2>8. SeenInv(i)'
    <3>1. seen'[i].server = EmptyFolder /\ seen'[i].client \in Folder /\ seen'[i].base \in Folder
      BY <2>1, <2>3, <2>4 DEF SeenIs, Seen
    <3> QED BY <3>1, EmptyIsFresh DEF SeenInv
  <2> QED BY <1>2, <2>5, <2>6, <2>7, <2>8 DEF PlanInv
<1> QED BY <1>5, <1>6

\* What a server has left of its plan.
LEMMA ServerPlanStep ==
  ASSUME KInv, NEW i \in Session, ServerStep(i) \/ ServerFails(i), ~ServerPlan(i),
         seen'[i] = seen[i]
  PROVE  ServerPlanInv(i)'
<1> DEFINE c == server[i]
           W == PlanOf(seen[i], i)
           frame == Head(toServer[i])
           Kept == /\ server'[i].pc \notin {"receive", "send", "ack"} => server'[i].plan = EmptyPlan
                   /\ server'[i].pc \in {"send", "ack"} => server'[i].plan.clientSends = {}
                   /\ server'[i].pc = "ack" => server'[i].plan.serverDeletes = {}
                   /\ Within(server'[i].plan, W)
                   /\ PlannedOp(server'[i].op, W.clientSends, W.serverDeletes)
<1>1. /\ StateOK /\ c.plan \in Plan /\ W \in Plan /\ c.op \in FileOp
      /\ toServer[i] \in Seq(Frame)
  BY SideTypes, PlanOfType DEF KInv, HInv, IInv
<1>2. /\ c.pc \notin {"receive", "send", "ack"} => c.plan = EmptyPlan
      /\ c.pc \in {"send", "ack"} => c.plan.clientSends = {}
      /\ c.pc = "ack" => c.plan.serverDeletes = {}
      /\ Within(c.plan, W)
      /\ PlannedOp(c.op, W.clientSends, W.serverDeletes)
      /\ c.op # NoOp => c.pc \in {"receive", "send"}
  BY DEF KInv, PlanInv, ServerPlanInv, HInv, OpInv
<1>3. ASSUME NEW pc, NEW op, NEW final, op \in {c.op, NoOp},
             ServerIs(i, pc, EmptyPlan, op, final)
      PROVE  Kept
  BY <1>1, <1>2, <1>3, WithinPlan DEF ServerIs, PlannedOp, EmptyPlan
<1>4. CASE ServerHello(i) \/ ServerBusy(i) \/ ServerCommit(i) \/ ServerResult(i)
  <2>1. \/ ServerIs(i, "challenge", c.plan, c.op, c.final) /\ c.pc = "idle"
        \/ ServerIs(i, "busy", c.plan, c.op, c.final) /\ c.pc = "challenge"
        \/ ServerIs(i, "result", c.plan, c.op, c.final) /\ c.pc = "commit"
        \/ ServerIs(i, "done", c.plan, c.op, c.final) /\ c.pc = "result"
    BY <1>1, <1>4, ServerFields, Zenon DEF ServerHello, ServerBusy, ServerCommit, ServerResult
  <2>2. Kept
    BY <1>2, <2>1 DEF ServerIs
  <2> QED BY <2>2 DEF ServerPlanInv
<1>5. CASE ServerReceive(i)
  <2> DEFINE t == frame.transfer
  <2>1. ServerIs(i, "receive", [c.plan EXCEPT !.clientSends = @ \ {t}],
                 [path |-> t.dest, hash |-> frame.data], c.final)
    BY <1>1, <1>5, ServerFields, Zenon
  <2>2. t \in c.plan.clientSends /\ frame.data = t.hash
    BY <1>5 DEF ServerReceive
  <2> HIDE DEF t
  <2>3. Within([c.plan EXCEPT !.clientSends = @ \ {t}], W)
    BY <1>1, <1>2, WithinPlan
  <2>4. PlannedOp([path |-> t.dest, hash |-> frame.data], W.clientSends, W.serverDeletes)
    BY <1>2, <2>2 DEF PlannedOp, Within
  <2>5. Kept
    BY <2>1, <2>3, <2>4 DEF ServerIs
  <2> QED BY <2>5 DEF ServerPlanInv
<1>6. CASE ServerUploadsDone(i)
  <2>1. ServerIs(i, "send", c.plan, c.op, c.final) /\ c.plan.clientSends = {}
    BY <1>1, <1>6, ServerFields, Zenon DEF ServerUploadsDone
  <2>2. Kept
    BY <1>2, <2>1 DEF ServerIs
  <2> QED BY <2>2 DEF ServerPlanInv
<1>7. ASSUME NEW p \in server[i].plan.serverDeletes, ServerDelete(i, p)
      PROVE  ServerPlanInv(i)'
  <2> DEFINE rest == [c.plan EXCEPT !.serverDeletes = @ \ {p}]
  <2>1. ServerIs(i, "send", rest, [path |-> p, hash |-> NoFile], c.final) /\ c.pc = "send"
    BY <1>1, <1>7, ServerFields, Zenon DEF ServerDelete
  <2>2. Within(rest, W) /\ rest.clientSends = c.plan.clientSends
    BY <1>1, <1>2, WithinPlan DEF Plan
  <2>3. PlannedOp([path |-> p, hash |-> NoFile], W.clientSends, W.serverDeletes)
    BY <1>2, <1>7 DEF PlannedOp, Within
  <2> HIDE DEF rest
  <2>4. Kept
    BY <1>2, <2>1, <2>2, <2>3 DEF ServerIs
  <2> QED BY <2>4 DEF ServerPlanInv
<1>8. CASE ServerInstall(i)
  <2>1. ServerIs(i, c.pc, c.plan, NoOp, c.final)
    BY <1>1, <1>8, ServerFields, Zenon
  <2>2. Kept
    BY <1>2, <2>1 DEF ServerIs, PlannedOp
  <2> QED BY <2>2 DEF ServerPlanInv
<1>9. ASSUME NEW t \in server[i].plan.serverSends, ServerSend(i, t)
      PROVE  ServerPlanInv(i)'
  <2> DEFINE rest == [c.plan EXCEPT !.serverSends = @ \ {t}]
  <2>1. ServerIs(i, "send", rest, c.op, c.final) /\ c.pc = "send"
    BY <1>1, <1>9, ServerFields, Zenon DEF ServerSend
  <2>2. Within(rest, W) /\ rest.clientSends = c.plan.clientSends
    BY <1>1, <1>2, WithinPlan DEF Plan
  <2> HIDE DEF rest
  <2>3. Kept
    BY <1>2, <2>1, <2>2 DEF ServerIs
  <2> QED BY <2>3 DEF ServerPlanInv
<1>10. CASE ServerTransfersDone(i)
  <2>1. /\ ServerIs(i, "ack", c.plan, c.op, c.final)
        /\ c.pc = "send" /\ c.plan.serverDeletes = {}
    BY <1>1, <1>10, ServerFields, Zenon DEF ServerTransfersDone
  <2>2. Kept
    BY <1>2, <2>1 DEF ServerIs
  <2> QED BY <2>2 DEF ServerPlanInv
<1>11. CASE ServerRescan(i)
  <2>1. \/ ServerIs(i, "commit", EmptyPlan, c.op, disk[ServerDev(i)])
        \/ ServerIs(i, "failed", EmptyPlan, c.op, c.final)
    BY <1>1, <1>11, ServerFields, Zenon
  <2>2. Kept
    BY <1>3, <2>1
  <2> QED BY <2>2 DEF ServerPlanInv
<1>12. CASE ServerFails(i)
  <2>1. ServerIs(i, IF c.pc = "result" THEN "unsent" ELSE "failed", EmptyPlan, NoOp, c.final)
    BY <1>1, <1>12, ServerFields, Zenon
  <2>2. Kept
    BY <1>3, <2>1
  <2> QED BY <2>2 DEF ServerPlanInv
<1> QED BY <1>4, <1>5, <1>6, <1>7, <1>8, <1>9, <1>10, <1>11, <1>12 DEF ServerStep

LEMMA PlanByServer ==
  ASSUME KInv, NEW i \in Session, ServerStep(i) \/ ServerFails(i),
         ServerAlone(i), ServerTalk(i), ServerData(i), ServerFrames(i)
  PROVE  PlanInv'
<1>1. /\ StateOK /\ client' = client
      /\ ClientPlanInv(i) /\ ServerPlanInv(i) /\ FramesInv(i) /\ SeenInv(i)
      /\ Sender(i) /\ Order(i)
      /\ client[i].op # NoOp => client[i].pc = "receive"
      /\ server[i].op # NoOp => server[i].pc \in {"receive", "send"}
      /\ Frames(toServer'[i]) \subseteq Frames(toServer[i])
  BY DEF KInv, HInv, IInv, PlanInv, OpInv, Handshake, ServerAlone, ServerFrames
<1>2. ASSUME NEW j \in Session \ {i}
      PROVE  (ClientPlanInv(j) /\ ServerPlanInv(j) /\ FramesInv(j) /\ SeenInv(j))'
  <2>1. /\ client'[j] = client[j] /\ server'[j] = server[j] /\ seen'[j] = seen[j]
        /\ toServer'[j] = toServer[j] /\ toClient'[j] = toClient[j]
    BY DEF ServerAlone, ServerData
  <2> QED BY <2>1 DEF KInv, PlanInv, ClientPlanInv, ServerPlanInv, FramesInv, SeenInv
<1>3. CASE ~ServerPlan(i)
  <2>1. seen'[i] = seen[i]
    BY <1>3 DEF ServerData
  <2>2. ServerPlanInv(i)'
    BY <1>3, <2>1, ServerPlanStep
  <2>3. ClientPlanInv(i)'
    BY <1>1, <2>1 DEF ClientPlanInv
  <2>4. FramesInv(i)'
    <3>1. \A f \in Frames(toClient'[i]) : f.type = "plan" => f \in Frames(toClient[i])
      BY <1>1, <1>3, ServerPlans
    <3> QED BY <1>1, <2>1, <3>1 DEF FramesInv, Has
  <2>5. SeenInv(i)'
    <3>1. server'[i].pc \in {"idle", "challenge", "busy"} =>
            server[i].pc \in {"idle", "challenge", "busy"}
      BY DEF ServerTalk, ServerEnded
    <3> QED BY <1>1, <2>1, <3>1 DEF SeenInv
  <2> QED BY <1>2, <2>2, <2>3, <2>4, <2>5 DEF PlanInv
<1>4. CASE ServerPlan(i)
  <2> DEFINE d == ServerDev(i)
             request == Head(toServer[i])
             plan == BuildPlan(disk[d], request.manifest, baseline[d], i)
             W == PlanOf(seen'[i], i)
  <2>1. /\ server[i].pc = "challenge" /\ Heads(toServer[i], "sync_request")
        /\ seen' = [seen EXCEPT ![i].server = disk[d], ![i].base = baseline[d]]
    BY <1>4 DEF ServerPlan
  <2>2. SeenIs(i, seen[i].client, disk[d], baseline[d])
    BY <1>1, <2>1 DEF SeenIs, StateOK, Seen
  <2>3. request \in Frames(toServer[i]) /\ request.type = "sync_request"
    BY <1>1, <2>1, SideTypes, FramesOf DEF Heads
  <2>4. request.manifest = seen[i].client
    BY <1>1, <2>3 DEF FramesInv
  <2>5. plan = W
    BY <2>2, <2>4 DEF PlanOf, SeenIs
  <2>6. /\ client[i].pc \notin {"idle", "hello"} /\ server'[i].pc = "receive"
        /\ client[i].pc \notin {"upload", "receive"}
        /\ ~Has(toClient[i], "plan")
        /\ client[i].op = NoOp /\ server[i].op = NoOp /\ client[i].plan = EmptyPlan
    <3>1. Has(toServer[i], "sync_request")
      BY <2>3 DEF Has
    <3>2. server'[i].pc = "receive"
      BY <1>1, <1>4, ServerFields, Zenon DEF ServerIs
    <3> QED BY <1>1, <2>1, <3>1, <3>2 DEF Sender, Order, ClientPlanInv
  <2>7. W \in Plan /\ seen'[i] \in Seen
    <3>1. StateOK'
      BY <1>1, ServerTypes
    <3> QED BY <3>1, PlanOfType DEF StateOK
  <2>8. server'[i].plan = W /\ server'[i].op = NoOp
    BY <1>1, <1>4, <2>5, <2>6, ServerFields, Zenon DEF ServerIs
  <2>9. ClientPlanInv(i)'
    BY <1>1, <2>6, <2>7, WithinPlan DEF ClientPlanInv, PlannedOp
  <2>10. ServerPlanInv(i)'
    BY <2>6, <2>7, <2>8, WithinPlan DEF ServerPlanInv, PlannedOp
  <2>11. FramesInv(i)'
    <3>1. ASSUME NEW f \in Frames(toClient'[i]), f.type = "plan"
          PROVE  f.plan = W
      <4>1. f \notin Frames(toClient[i])
        BY <2>6, <3>1 DEF Has
      <4> HIDE DEF W
      <4> QED BY <1>1, <2>5, <3>1, <4>1, ServerPlans
    <3>2. \A f \in Frames(toServer'[i]) : f.type = "sync_request" => f.manifest = seen'[i].client
      BY <1>1, <2>2 DEF FramesInv, SeenIs
    <3> QED BY <1>1, <2>6, <3>1, <3>2 DEF FramesInv
  <2>12. SeenInv(i)'
    <3>1. /\ disk[d] \in Folder /\ baseline[d] \in Folder /\ seen[i].client \in Folder
          /\ d \in Device
      BY <1>1, SideTypes DEF Seen
    <3>2. LegitFolder(Copies, disk[d]) /\ LegitFolder(Copies, seen[i].client)
      BY <3>1 DEF KInv, CopyInv
    <3>3. ~Planned(i)
      BY <2>1 DEF Planned
    <3>4. FreshCopies(disk[d], seen[i].client, baseline[d], i)
      BY <3>1, <3>2, <3>3, CopiesAreFresh
    <3> QED BY <1>1, <2>2, <2>6, <3>4 DEF SeenInv, SeenIs
  <2> QED BY <1>2, <2>9, <2>10, <2>11, <2>12 DEF PlanInv
<1> QED BY <1>3, <1>4

\* Dialing and editing leave plans, and what was scanned for them, alone.
LEMMA PlanByDial ==
  ASSUME KInv, NEW i \in Session, NEW d \in Device, Dial(i, d)
  PROVE  PlanInv'
<1>1. /\ StateOK /\ client[i].pc = "idle" /\ server' = server /\ seen' = seen /\ toClient' = toClient
      /\ client' = [client EXCEPT ![i].pc = "hello", ![i].dev = d]
      /\ toServer' = [toServer EXCEPT ![i] = Append(@, [type |-> "hello"])]
      /\ toServer[i] = <<>>
  BY DEF KInv, HInv, IInv, LockInv, ServerAfterDial, Dial
<1>2. /\ client'[i].pc = "hello"
      /\ client'[i].op = client[i].op /\ client'[i].plan = client[i].plan
      /\ \A j \in Session \ {i} : client'[j] = client[j] /\ toServer'[j] = toServer[j]
      /\ toServer'[i] = Append(<<>>, [type |-> "hello"])
  BY <1>1 DEF StateOK, ClientState
<1>3. \A f \in Frames(toServer'[i]) : f.type # "sync_request"
  <2>1. Append(<<>>, [type |-> "hello"]) = <<[type |-> "hello"]>>
    OBVIOUS
  <2>2. \A f \in Frames(<<[type |-> "hello"]>>) : f.type = "hello"
    BY DEF Frames
  <2> QED BY <1>2, <2>1, <2>2
<1>4. ASSUME NEW j \in Session \ {i}
      PROVE  (ClientPlanInv(j) /\ ServerPlanInv(j) /\ FramesInv(j) /\ SeenInv(j))'
  BY <1>1, <1>2 DEF KInv, PlanInv, ClientPlanInv, ServerPlanInv, FramesInv, SeenInv
<1>5. (ClientPlanInv(i) /\ ServerPlanInv(i) /\ FramesInv(i) /\ SeenInv(i))'
  BY <1>1, <1>2, <1>3 DEF KInv, PlanInv, ClientPlanInv, ServerPlanInv, FramesInv, SeenInv
<1> QED BY <1>4, <1>5 DEF PlanInv

LEMMA PlanByEdit ==
  ASSUME KInv, NEW d \in Device, NEW p \in Path, NEW v \in File, Edit(d, p, v)
  PROVE  PlanInv'
<1>1. /\ seen \in [Session -> Seen] /\ client' = client /\ server' = server
      /\ toServer' = toServer /\ toClient' = toClient
      /\ seen' = [i \in Session |-> IF Live(i) THEN [seen[i] EXCEPT !.quiet = FALSE] ELSE seen[i]]
  BY DEF KInv, HInv, IInv, StateOK, Edit
<1>2. \A j \in Session : /\ seen'[j].client = seen[j].client /\ seen'[j].server = seen[j].server
                         /\ seen'[j].base = seen[j].base
                         /\ PlanOf(seen'[j], j) = PlanOf(seen[j], j)
  BY <1>1 DEF Seen, PlanOf
<1> QED BY <1>1, <1>2 DEF KInv, PlanInv, ClientPlanInv, ServerPlanInv, FramesInv, SeenInv

LEMMA KInit == Init => KInv
<1> SUFFICES ASSUME Init PROVE KInv
  OBVIOUS
<1>1. HInv /\ StateOK
  BY HandshakeInit DEF HInv, IInv
<1>2. \A q \in Path : EmptyFolder[q] = NoFile
  BY DEF EmptyFolder
<1>3. CopyInv
  BY <1>2 DEF Init, CopyInv, LegitFolder, Legit
<1>4. PlanInv
  <2> SUFFICES ASSUME NEW i \in Session
               PROVE  ClientPlanInv(i) /\ ServerPlanInv(i) /\ FramesInv(i) /\ SeenInv(i)
    BY DEF PlanInv
  <2>1. PlanOf(seen[i], i) \in Plan
    BY <1>1, PlanOfType, SideTypes
  <2>2. /\ client[i].pc = "idle" /\ client[i].plan = EmptyPlan /\ client[i].op = NoOp
        /\ server[i].pc = "idle" /\ server[i].plan = EmptyPlan /\ server[i].op = NoOp
        /\ toServer[i] = <<>> /\ toClient[i] = <<>>
        /\ seen[i].server = EmptyFolder
    BY DEF Init
  <2>3. seen[i].client \in Folder /\ seen[i].base \in Folder
    BY <1>1, SideTypes DEF Seen
  <2>4. Frames(<<>>) = {} /\ ~Has(<<>>, "plan")
    BY EmptyHasNone DEF Frames
  <2> QED BY <2>1, <2>2, <2>3, <2>4, WithinPlan, EmptyIsFresh
          DEF ClientPlanInv, ServerPlanInv, FramesInv, SeenInv, PlannedOp
<1> QED BY <1>1, <1>3, <1>4 DEF KInv

LEMMA KStep == KInv /\ [Next]_vars => KInv'
<1> SUFFICES ASSUME KInv, [Next]_vars PROVE KInv'
  OBVIOUS
<1>1. HInv /\ HInv' /\ StateOK
  BY HandshakeStep DEF KInv, HInv, IInv
<1>2. ASSUME NEW i \in Session, NEW d \in Device, Dial(i, d) PROVE KInv'
  BY <1>1, <1>2, CopyByDial, PlanByDial DEF KInv
<1>3. ASSUME NEW i \in Session, ClientStep(i) \/ ClientFails(i) PROVE KInv'
  BY <1>1, <1>3, ClientEffects, ClientTalks, ClientDataStep, CopyByClient, PlanByClient DEF KInv
<1>4. ASSUME NEW i \in Session, ServerStep(i) \/ ServerFails(i) PROVE KInv'
  BY <1>1, <1>4, ServerEffects, ServerTalks, ServerDataStep, CopyByServer, PlanByServer DEF KInv
<1>5. ASSUME NEW d \in Device, NEW p \in Path, NEW v \in File, Edit(d, p, v) PROVE KInv'
  BY <1>1, <1>5, CopyByEdit, PlanByEdit DEF KInv
<1>6. CASE UNCHANGED vars
  <2>1. CopyInv'
    BY <1>6 DEF vars, store, KInv, CopyInv, LegitFolder, Legit, Copies, Planned
  <2>2. PlanInv'
    BY <1>6 DEF vars, KInv, PlanInv, ClientPlanInv, ServerPlanInv, FramesInv, SeenInv
  <2> QED BY <1>1, <2>1, <2>2 DEF KInv
<1> QED BY <1>2, <1>3, <1>4, <1>5, <1>6 DEF Next, Fault

-----------------------------------------------------------------------------
(* Who else may change the files of a session                              *)

\* The server of i goes on with what its client has sent, though the client
\* may be gone and its lock free.
Closing(i) ==
  \/ server[i].pc = "commit"
  \/ server[i].pc = "ack" /\ Has(toServer[i], "ack")

\* Session j does not change the files of device d: its client there has no
\* plan and gets none, its server there has a client that sends nothing more.
Harmless(j, d) ==
  /\ client[j].dev = d /\ ClientRunning(j) =>
       client[j].pc \in {"hello", "request"} /\ ~Has(toClient[j], "plan")
  /\ ServerDev(j) = d /\ ServerHolds(j) =>
       /\ server[j].pc = "receive" /\ server[j].op = NoOp
       /\ ~Has(toServer[j], "file") /\ ~Has(toServer[j], "uploads_done")
AloneInv ==
  \A i \in Session : Closing(i) => \A j \in Session \ {i} : Harmless(j, client[i].dev)

LEMMA ClosingClient ==
  ASSUME HInv, NEW i \in Session, Closing(i)
  PROVE  client[i].pc \in Acked /\ ServerHolds(i)
  BY DEF HInv, IInv, CommitInv, AckIsFinal, CommitIsCommon, Closing, Has, ServerHolds

LEMMA AloneByClient ==
  ASSUME HInv, AloneInv, NEW k \in Session, ClientAlone(k), ClientTalk(k)
  PROVE  AloneInv'
<1> SUFFICES ASSUME NEW i \in Session, Closing(i)', NEW j \in Session \ {i}
             PROVE  Harmless(j, client[i].dev)'
  BY DEF AloneInv, ClientAlone
<1> DEFINE d == client[i].dev
<1>1. /\ StateOK /\ server' = server /\ d \in Device /\ client[j].dev \in Device
      /\ \A x \in Session : client'[x].dev = client[x].dev /\ ServerDev(x)' = ServerDev(x)
      /\ ServerDev(i) # d /\ ServerDev(j) # client[j].dev /\ Device = {d, ServerDev(i)}
      /\ \A x \in Session \ {k} : /\ client'[x] = client[x]
                                  /\ toServer'[x] = toServer[x] /\ toClient'[x] = toClient[x]
      /\ client'[i].dev = d
  BY SideTypes, PeerOfDevice DEF HInv, IInv, ClientAlone, ServerDev
<1>2. CASE ~Closing(i)
  <2>1. k = i /\ ClientRunning(i)
    <3>1. server[i].pc = "ack" /\ Has(toServer'[i], "ack") /\ ~Has(toServer[i], "ack")
      BY <1>1, <1>2 DEF Closing
    <3>2. k = i
      BY <1>1, <3>1
    <3> QED BY <3>1, <3>2 DEF ClientTalk, Writes, ClientRunning, ClientEnded
  <2>2. /\ ClientRunning(j) => client[j].dev # d
        /\ ServerHolds(j) => ServerDev(j) # d
    BY <2>1 DEF HInv, IInv, LockInv, HoldersDiffer
  <2> QED BY <1>1, <2>1, <2>2 DEF Harmless, ClientRunning, ClientEnded, ServerHolds
<1>3. CASE Closing(i)
  <2>1. Harmless(j, d) /\ ServerHolds(i)
    BY <1>3, ClosingClient DEF AloneInv
  <2>2. CASE k # j
    BY <1>1, <2>1, <2>2 DEF Harmless, ClientRunning, ClientEnded, ServerHolds
  <2>3. CASE k = j /\ client[j].dev = d
    <3>1. ClientRunning(j)' =>
            client'[j].pc \in {"hello", "request"} /\ ~Has(toClient'[j], "plan")
      BY <1>1, <2>1, <2>3 DEF Harmless, ClientTalk, ClientRunning, ClientEnded, Reads
    <3> QED BY <1>1, <2>3, <3>1 DEF Harmless
  <2>4. CASE k = j /\ client[j].dev # d
    <3>1. ~ClientRunning(j)
      <4>1. client[j].dev = ServerDev(i)
        BY <1>1, <2>4
      <4> QED BY <2>1, <4>1 DEF HInv, IInv, LockInv, HoldersDiffer
    <3>2. toServer'[j] = toServer[j]
      BY <2>4, <3>1 DEF ClientTalk, ClientRunning, ClientEnded
    <3> QED BY <1>1, <2>1, <2>4, <3>2 DEF Harmless, ServerHolds
  <2> QED BY <2>2, <2>3, <2>4
<1> QED BY <1>2, <1>3

LEMMA AloneByServer ==
  ASSUME HInv, AloneInv, NEW k \in Session, ServerAlone(k), ServerTalk(k), ServerLock(k)
  PROVE  AloneInv'
<1> SUFFICES ASSUME NEW i \in Session, Closing(i)', NEW j \in Session \ {i}
             PROVE  Harmless(j, client[i].dev)'
  BY DEF AloneInv
<1> DEFINE d == client[i].dev
<1>1. /\ StateOK /\ client' = client /\ d \in Device /\ client[j].dev \in Device
      /\ \A x \in Session : ServerDev(x)' = ServerDev(x)
      /\ ServerDev(i) # d /\ ServerDev(j) # client[j].dev /\ Device = {d, ServerDev(i)}
      /\ \A x \in Session \ {k} : /\ server'[x] = server[x]
                                  /\ toServer'[x] = toServer[x] /\ toClient'[x] = toClient[x]
      /\ Sender(i) /\ Sender(j)
  BY SideTypes, PeerOfDevice DEF HInv, IInv, Handshake, ServerAlone, ServerDev
<1>2. Closing(i)
  <2>1. k # i => Closing(i)
    BY <1>1 DEF Closing
  <2>2. k = i => Closing(i)
    BY <1>1 DEF Closing, ServerTalk, Sender, Reads, ServerEnded
  <2> QED BY <2>1, <2>2
<1>3. Harmless(j, d) /\ ServerHolds(i)
  BY <1>2, ClosingClient DEF AloneInv
<1>4. CASE k # j
  BY <1>1, <1>3, <1>4 DEF Harmless, ClientRunning, ClientEnded, ServerHolds
<1>5. CASE k = j /\ ServerDev(j) = d
  <2>1. ASSUME ServerHolds(j)'
        PROVE  /\ server'[j].pc = "receive" /\ server'[j].op = NoOp
               /\ ~Has(toServer'[j], "file") /\ ~Has(toServer'[j], "uploads_done")
    <3>1. CASE ServerHolds(j)
      BY <1>1, <1>3, <1>5, <2>1, <3>1 DEF Harmless, ServerTalk, ServerHolds, ServerEnded, Reads
    <3>2. CASE ~ServerHolds(j)
      <4>1. /\ server[j].pc = "challenge" /\ server'[j].pc = "receive"
            /\ server'[j].op = server[j].op /\ Reads(toServer[j], toServer'[j], "sync_request")
        BY <1>5, <2>1, <3>2 DEF ServerTalk, ServerHolds
      <4>2. server[j].op = NoOp
        BY <4>1 DEF HInv, OpInv
      <4> QED BY <1>1, <4>1, <4>2 DEF Sender, Reads
    <3> QED BY <3>1, <3>2
  <2> QED BY <1>1, <1>5, <2>1 DEF Harmless
<1>6. CASE k = j /\ ServerDev(j) # d
  <2>1. locked[ServerDev(j)]
    <3>1. ServerDev(j) = ServerDev(i)
      BY <1>1, <1>6, SideTypes
    <3> QED BY <1>3, <3>1 DEF HInv, IInv, LockInv, HoldersLock
  <2>2. ~(server[j].pc = "challenge" /\ server'[j].pc = "receive")
    BY <1>6, <2>1 DEF ServerLock, ServerHolds, TryLock
  <2>3. ~Has(toClient[j], "plan") => ~Has(toClient'[j], "plan")
    BY <1>6, <2>2 DEF ServerTalk, Writes
  <2> QED BY <1>1, <1>3, <1>6, <2>3 DEF Harmless, ClientRunning, ClientEnded
<1> QED BY <1>4, <1>5, <1>6

LEMMA AloneByDial ==
  ASSUME HInv, AloneInv, NEW k \in Session, NEW e \in Device, Dial(k, e)
  PROVE  AloneInv'
<1>1. /\ client \in [Session -> ClientState] /\ client[k].pc = "idle" /\ server[k].pc = "idle"
      /\ toClient[k] = <<>> /\ server' = server /\ toClient' = toClient
      /\ toServer' = [toServer EXCEPT ![k] = Append(@, [type |-> "hello"])]
      /\ client' = [client EXCEPT ![k].pc = "hello", ![k].dev = e]
  BY DEF HInv, IInv, StateOK, LockInv, ServerAfterDial, Handshake, Order, Dial
<1>2. /\ client'[k].pc = "hello"
      /\ \A x \in Session \ {k} : /\ client'[x] = client[x] /\ ServerDev(x)' = ServerDev(x)
                                  /\ toServer'[x] = toServer[x]
  BY <1>1 DEF ClientState, ServerDev, HInv, IInv, StateOK
<1>3. ~Has(<<>>, "plan")
  BY EmptyHasNone
<1> SUFFICES ASSUME NEW i \in Session, Closing(i)', NEW j \in Session \ {i}
             PROVE  Harmless(j, client[i].dev)'
  BY DEF AloneInv
<1>4. i # k /\ Closing(i)
  BY <1>1, <1>2 DEF Closing
<1>5. Harmless(j, client[i].dev) /\ client'[i].dev = client[i].dev
  BY <1>2, <1>4 DEF AloneInv
<1>6. CASE j = k
  BY <1>1, <1>2, <1>3, <1>6 DEF Harmless, ServerHolds
<1>7. CASE j # k
  BY <1>1, <1>2, <1>5, <1>7 DEF Harmless, ClientRunning, ClientEnded, ServerHolds
<1> QED BY <1>6, <1>7

LEMMA AloneStill ==
  ASSUME AloneInv, UNCHANGED <<client, server, toServer, toClient>>
  PROVE  AloneInv'
  BY DEF AloneInv, Closing, Harmless, ClientRunning, ClientEnded, ServerHolds, ServerDev

-----------------------------------------------------------------------------
(* A session without edits                                                 *)

\* The outcome of a round at a path, and the paths a side has still work for.
Outcome(i, q) == Merged(seen[i].server, seen[i].client, seen[i].base, i, q)
Left(op, received, deleted, q) ==
  q \in deleted \/ (op # NoOp /\ op.path = q) \/ \E t \in received : t.dest = q
ClientLeft(i, q) ==
  Left(client[i].op, client[i].plan.serverSends, client[i].plan.clientDeletes, q)
ServerLeft(i, q) ==
  Left(server[i].op, server[i].plan.clientSends, server[i].plan.serverDeletes, q)

\* The client's folder counts as long as the server may commit.
ClientIn(i) == client[i].pc \in {"upload", "receive", "ack"} \/ Closing(i)

\* Without edits a side's files are the outcome, but where it has work left.
ClientRound(i) ==
  /\ client[i].pc = "request" => disk[client[i].dev] = seen[i].client
  /\ ClientIn(i) => \A q \in Path : ClientLeft(i, q) \/ disk[client[i].dev][q] = Outcome(i, q)
ServerRound(i) ==
  /\ ServerHolds(i) => \A q \in Path : ServerLeft(i, q) \/ disk[ServerDev(i)][q] = Outcome(i, q)
  /\ server[i].pc = "commit" => \A q \in Path : server[i].final[q] = Outcome(i, q)
RoundInv == \A i \in Session : seen[i].quiet => ClientRound(i) /\ ServerRound(i)

MInv == KInv /\ AloneInv /\ RoundInv

\* What a plan is to its outcome.
LEMMA PlanIsRound ==
  ASSUME PlanInv, StateOK, NEW i \in Session, NEW q \in Path
  PROVE  LET W == PlanOf(seen[i], i) IN
         /\ q \in W.serverDeletes \/ (\E t \in W.clientSends : t.dest = q)
              \/ seen[i].server[q] = Outcome(i, q)
         /\ q \in W.clientDeletes \/ (\E t \in W.serverSends : t.dest = q)
              \/ seen[i].client[q] = Outcome(i, q)
         /\ client[i].op # NoOp /\ client[i].op.path = q => client[i].op.hash = Outcome(i, q)
         /\ server[i].op # NoOp /\ server[i].op.path = q => server[i].op.hash = Outcome(i, q)
<1> DEFINE W == PlanOf(seen[i], i)
<1>1. /\ seen[i].server \in Folder /\ seen[i].client \in Folder /\ seen[i].base \in Folder
      /\ FreshCopies(seen[i].server, seen[i].client, seen[i].base, i)
  BY SideTypes DEF Seen, PlanInv, SeenInv
<1>2. /\ \A t \in W.serverSends \cup W.clientSends : t.dest = q => t.hash = Outcome(i, q)
      /\ q \in W.serverDeletes \cup W.clientDeletes => Outcome(i, q) = NoFile
      /\ q \in W.serverDeletes \/ (\E t \in W.clientSends : t.dest = q)
           \/ seen[i].server[q] = Outcome(i, q)
      /\ q \in W.clientDeletes \/ (\E t \in W.serverSends : t.dest = q)
           \/ seen[i].client[q] = Outcome(i, q)
  BY <1>1, PlanOutcome DEF PlanOf, Outcome
<1>3. /\ PlannedOp(client[i].op, W.serverSends, W.clientDeletes)
      /\ PlannedOp(server[i].op, W.clientSends, W.serverDeletes)
  BY DEF PlanInv, ClientPlanInv, ServerPlanInv
<1> HIDE DEF W
<1>4. /\ client[i].op # NoOp /\ client[i].op.path = q => client[i].op.hash = Outcome(i, q)
      /\ server[i].op # NoOp /\ server[i].op.path = q => server[i].op.hash = Outcome(i, q)
  BY <1>2, <1>3 DEF PlannedOp
<1> QED BY <1>2, <1>4 DEF W

\* What a step of a client leaves it to do.
ClientWork(i) ==
  \/ ClientScan(i) /\ client[i].pc = "hello" /\ client'[i].pc = "request" /\ disk' = disk
  \/ /\ disk' = disk /\ client[i].pc = "request" /\ client'[i].pc = "upload"
     /\ client'[i].plan = PlanOf(seen[i], i)
  \/ /\ disk' = disk /\ {client[i].pc, client'[i].pc} \subseteq {"upload", "receive"}
     /\ \A q \in Path : ClientLeft(i, q) => ClientLeft(i, q)'
  \/ /\ client[i].op # NoOp /\ client'[i].pc = client[i].pc
     /\ disk' = [disk EXCEPT ![client[i].dev][client[i].op.path] = client[i].op.hash]
     /\ \A q \in Path : ClientLeft(i, q) => ClientLeft(i, q)' \/ q = client[i].op.path
  \/ /\ disk' = disk /\ client[i].pc \in {"receive", "ack"} /\ client'[i].pc \in {"ack", "done"}
     /\ \A q \in Path : ~ClientLeft(i, q)
  \/ disk' = disk /\ client'[i].pc = "failed" /\ ClientRunning(i)

LEMMA ClientWorks ==
  ASSUME KInv, NEW i \in Session, ClientStep(i) \/ ClientFails(i)
  PROVE  ClientWork(i)
<1> DEFINE c == client[i]
           frame == Head(toClient[i])
<1>1. /\ StateOK /\ c.plan \in Plan /\ toClient[i] \in Seq(Frame)
      /\ c.pc = "ack" => c.plan = EmptyPlan /\ c.op = NoOp
      /\ \A f \in Frames(toClient[i]) : f.type = "plan" => f.plan = PlanOf(seen[i], i)
  BY SideTypes DEF KInv, HInv, IInv, OpInv, PlanInv, ClientPlanInv, FramesInv
<1>2. CASE ClientScan(i)
  <2>1. client'[i].pc = "request"
    BY <1>1, <1>2, ClientFields, Zenon DEF ClientIs
  <2>2. disk' = disk /\ c.pc = "hello"
    BY <1>2 DEF ClientScan
  <2> QED BY <1>2, <2>1, <2>2 DEF ClientWork
<1>3. CASE ClientPlan(i)
  <2>1. client'[i].pc = "upload" /\ client'[i].plan = frame.plan
    BY <1>1, <1>3, ClientFields, Zenon DEF ClientIs
  <2>2. disk' = disk /\ c.pc = "request" /\ Heads(toClient[i], "plan")
    BY <1>3 DEF ClientPlan, store
  <2>3. frame.plan = PlanOf(seen[i], i)
    BY <1>1, <2>2, FramesOf DEF Heads
  <2> QED BY <2>1, <2>2, <2>3 DEF ClientWork
<1>4. ASSUME NEW t, ClientSend(i, t) PROVE ClientWork(i)
  <2>1. /\ ClientIs(i, "upload", [c.plan EXCEPT !.clientSends = @ \ {t}], c.op, c.final)
        /\ disk' = disk /\ c.pc = "upload"
    BY <1>1, <1>4, ClientFields, Zenon DEF ClientSend
  <2>2. \A q \in Path : ClientLeft(i, q) => ClientLeft(i, q)'
    BY <1>1, <2>1 DEF ClientLeft, Left, ClientIs, Plan
  <2> QED BY <2>1, <2>2 DEF ClientWork, ClientIs
<1>5. CASE ClientUploadsDone(i)
  <2>1. /\ ClientIs(i, "receive", c.plan, c.op, c.final)
        /\ disk' = disk /\ c.pc = "upload"
    BY <1>1, <1>5, ClientFields, Zenon DEF ClientUploadsDone
  <2>2. \A q \in Path : ClientLeft(i, q) => ClientLeft(i, q)'
    BY <2>1 DEF ClientLeft, Left, ClientIs
  <2> QED BY <2>1, <2>2 DEF ClientWork, ClientIs
<1>6. ASSUME NEW p \in client[i].plan.clientDeletes, ClientDelete(i, p) PROVE ClientWork(i)
  <2> DEFINE rest == [c.plan EXCEPT !.clientDeletes = @ \ {p}]
  <2>1. /\ ClientIs(i, "receive", rest, [path |-> p, hash |-> NoFile], c.final)
        /\ disk' = disk /\ c.pc = "receive" /\ c.op = NoOp
    BY <1>1, <1>6, ClientFields, Zenon DEF ClientDelete
  <2>2. /\ rest.clientDeletes = c.plan.clientDeletes \ {p}
        /\ rest.serverSends = c.plan.serverSends
    BY <1>1 DEF Plan
  <2> HIDE DEF rest
  <2>3. \A q \in Path : ClientLeft(i, q) => ClientLeft(i, q)'
    <3>1. p # NoFile
      BY <1>1, <1>6, PlanAssumption DEF Plan
    <3>2. [path |-> p, hash |-> NoFile] # NoOp
      BY <3>1 DEF NoOp
    <3> QED BY <2>1, <2>2, <3>2 DEF ClientLeft, Left, ClientIs
  <2> QED BY <2>1, <2>3 DEF ClientWork, ClientIs
<1>7. CASE ClientReceive(i)
  <2> DEFINE t == frame.transfer
             rest == [c.plan EXCEPT !.serverSends = @ \ {t}]
  <2>1. /\ ClientIs(i, "receive", rest, [path |-> t.dest, hash |-> frame.data], c.final)
        /\ disk' = disk /\ c.pc = "receive" /\ c.op = NoOp
        /\ t \in c.plan.serverSends /\ frame.data = t.hash
    BY <1>1, <1>7, ClientFields, Zenon DEF ClientReceive
  <2>2. /\ rest.serverSends = c.plan.serverSends \ {t}
        /\ rest.clientDeletes = c.plan.clientDeletes
    BY <1>1 DEF Plan
  <2>3. frame.data # NoFile
    BY <1>1, <2>1, PlanAssumption DEF Plan, Transfer
  <2> HIDE DEF rest, t
  <2>4. \A q \in Path : ClientLeft(i, q) => ClientLeft(i, q)'
    <3>1. [path |-> t.dest, hash |-> frame.data] # NoOp
      BY <2>3 DEF NoOp
    <3> QED BY <2>1, <2>2, <3>1 DEF ClientLeft, Left, ClientIs
  <2> QED BY <2>1, <2>4 DEF ClientWork, ClientIs
<1>8. CASE ClientInstall(i)
  <2>1. /\ ClientIs(i, c.pc, c.plan, NoOp, c.final) /\ c.op # NoOp
        /\ disk' = [disk EXCEPT ![c.dev][c.op.path] = c.op.hash]
    BY <1>1, <1>8, ClientFields, Zenon DEF ClientInstall
  <2>2. \A q \in Path : ClientLeft(i, q) => ClientLeft(i, q)' \/ q = c.op.path
    BY <2>1 DEF ClientLeft, Left, ClientIs
  <2> QED BY <2>1, <2>2 DEF ClientWork, ClientIs
<1>9. CASE ClientFinish(i)
  <2>1. /\ ClientIs(i, "ack", EmptyPlan, c.op, disk[c.dev])
        /\ disk' = disk /\ c.pc = "receive" /\ c.op = NoOp
        /\ c.plan.clientDeletes = {} /\ c.plan.serverSends = {}
    BY <1>1, <1>9, ClientFields, Zenon DEF ClientFinish, ClientReceived
  <2> QED BY <2>1 DEF ClientWork, ClientIs, ClientLeft, Left
<1>10. CASE ClientCommit(i)
  <2>1. /\ ClientIs(i, "done", c.plan, c.op, c.final)
        /\ disk' = disk /\ c.pc = "ack"
    BY <1>1, <1>10, ClientFields, Zenon DEF ClientCommit
  <2>2. \A q \in Path : ~ClientLeft(i, q)
    BY <1>1, <2>1 DEF ClientLeft, Left, EmptyPlan
  <2> QED BY <2>1, <2>2 DEF ClientWork, ClientIs
<1>11. CASE ClientFails(i)
  <2>1. ClientIs(i, "failed", EmptyPlan, NoOp, c.final) /\ disk' = disk /\ ClientRunning(i)
    BY <1>1, <1>11, ClientFields, Zenon DEF ClientFails
  <2> QED BY <2>1 DEF ClientWork, ClientIs
<1> QED BY <1>2, <1>3, <1>4, <1>5, <1>6, <1>7, <1>8, <1>9, <1>10, <1>11 DEF ClientStep

\* The same for a step of a server.
ServerWork(i) ==
  \/ /\ ServerPlan(i) /\ server[i].pc = "challenge" /\ disk' = disk
     /\ server'[i].pc = "receive" /\ server'[i].plan = PlanOf(seen'[i], i)
  \/ /\ disk' = disk /\ ServerHolds(i) /\ server'[i].pc \in {"receive", "send", "ack"}
     /\ \A q \in Path : ServerLeft(i, q) => ServerLeft(i, q)'
  \/ /\ server[i].op # NoOp /\ server'[i].pc = server[i].pc /\ ServerHolds(i)
     /\ disk' = [disk EXCEPT ![ServerDev(i)][server[i].op.path] = server[i].op.hash]
     /\ \A q \in Path : ServerLeft(i, q) => ServerLeft(i, q)' \/ q = server[i].op.path
  \/ /\ disk' = disk /\ server[i].pc = "ack" /\ server'[i].pc = "commit"
     /\ server'[i].final = disk[ServerDev(i)]
     /\ \A q \in Path : ~ServerLeft(i, q)
  \/ /\ disk' = disk /\ server[i].pc = "commit" /\ server'[i].pc = "result"
     /\ \A q \in Path : ~ServerLeft(i, q)
  \/ disk' = disk /\ ~ServerHolds(i)'

LEMMA ServerWorks ==
  ASSUME KInv, NEW i \in Session, ServerStep(i) \/ ServerFails(i)
  PROVE  ServerWork(i)
<1> DEFINE c == server[i]
           frame == Head(toServer[i])
           d == ServerDev(i)
<1>1. /\ StateOK /\ c.plan \in Plan /\ toServer[i] \in Seq(Frame)
      /\ c.pc = "ack" => c.plan.clientSends = {} /\ c.plan.serverDeletes = {} /\ c.op = NoOp
      /\ c.pc = "commit" => c.plan = EmptyPlan /\ c.op = NoOp
  BY SideTypes DEF KInv, HInv, IInv, OpInv, PlanInv, ServerPlanInv
<1>2. CASE ServerHello(i) \/ ServerBusy(i) \/ ServerResult(i)
  <2>1. /\ \/ ServerIs(i, "challenge", c.plan, c.op, c.final)
           \/ ServerIs(i, "busy", c.plan, c.op, c.final)
           \/ ServerIs(i, "done", c.plan, c.op, c.final)
        /\ disk' = disk
    BY <1>1, <1>2, ServerFields, Zenon DEF ServerHello, ServerBusy, ServerResult
  <2> QED BY <2>1 DEF ServerWork, ServerIs, ServerHolds
<1>3. CASE ServerPlan(i)
  <2> DEFINE plan == BuildPlan(disk[d], frame.manifest, baseline[d], i)
  <2>1. /\ ServerIs(i, "receive", plan, c.op, c.final)
        /\ disk' = disk /\ c.pc = "challenge" /\ Heads(toServer[i], "sync_request")
        /\ seen' = [seen EXCEPT ![i].server = disk[d], ![i].base = baseline[d]]
    BY <1>1, <1>3, ServerFields, Zenon DEF ServerPlan
  <2>2. frame.manifest = seen[i].client
    BY <1>1, <2>1, FramesOf DEF KInv, PlanInv, FramesInv, Heads
  <2>3. /\ seen'[i].server = disk[d] /\ seen'[i].base = baseline[d]
        /\ seen'[i].client = seen[i].client
    BY <1>1, <2>1 DEF StateOK, Seen
  <2>4. plan = PlanOf(seen'[i], i)
    BY <2>2, <2>3 DEF PlanOf
  <2> HIDE DEF plan
  <2> QED BY <1>3, <2>1, <2>4 DEF ServerWork, ServerIs
<1>4. CASE ServerReceive(i)
  <2> DEFINE t == frame.transfer
             rest == [c.plan EXCEPT !.clientSends = @ \ {t}]
  <2>1. /\ ServerIs(i, "receive", rest, [path |-> t.dest, hash |-> frame.data], c.final)
        /\ disk' = disk /\ c.pc = "receive" /\ c.op = NoOp
        /\ t \in c.plan.clientSends /\ frame.data = t.hash
    BY <1>1, <1>4, ServerFields, Zenon DEF ServerReceive
  <2>2. /\ rest.clientSends = c.plan.clientSends \ {t}
        /\ rest.serverDeletes = c.plan.serverDeletes
    BY <1>1 DEF Plan
  <2>3. frame.data # NoFile
    BY <1>1, <2>1, PlanAssumption DEF Plan, Transfer
  <2> HIDE DEF rest, t
  <2>4. \A q \in Path : ServerLeft(i, q) => ServerLeft(i, q)'
    <3>1. [path |-> t.dest, hash |-> frame.data] # NoOp
      BY <2>3 DEF NoOp
    <3> QED BY <2>1, <2>2, <3>1 DEF ServerLeft, Left, ServerIs
  <2> QED BY <2>1, <2>4 DEF ServerWork, ServerIs, ServerHolds
<1>5. CASE ServerUploadsDone(i) \/ ServerTransfersDone(i)
  <2>1. /\ \/ ServerIs(i, "send", c.plan, c.op, c.final)
           \/ ServerIs(i, "ack", c.plan, c.op, c.final)
        /\ disk' = disk /\ c.pc \in {"receive", "send"}
    BY <1>1, <1>5, ServerFields, Zenon DEF ServerUploadsDone, ServerTransfersDone
  <2>2. \A q \in Path : ServerLeft(i, q) => ServerLeft(i, q)'
    BY <2>1 DEF ServerLeft, Left, ServerIs
  <2> QED BY <2>1, <2>2 DEF ServerWork, ServerIs, ServerHolds
<1>6. ASSUME NEW p \in server[i].plan.serverDeletes, ServerDelete(i, p) PROVE ServerWork(i)
  <2> DEFINE rest == [c.plan EXCEPT !.serverDeletes = @ \ {p}]
  <2>1. /\ ServerIs(i, "send", rest, [path |-> p, hash |-> NoFile], c.final)
        /\ disk' = disk /\ c.pc = "send" /\ c.op = NoOp
    BY <1>1, <1>6, ServerFields, Zenon DEF ServerDelete
  <2>2. /\ rest.serverDeletes = c.plan.serverDeletes \ {p}
        /\ rest.clientSends = c.plan.clientSends
    BY <1>1 DEF Plan
  <2> HIDE DEF rest
  <2>3. \A q \in Path : ServerLeft(i, q) => ServerLeft(i, q)'
    <3>1. p # NoFile
      BY <1>1, <1>6, PlanAssumption DEF Plan
    <3>2. [path |-> p, hash |-> NoFile] # NoOp
      BY <3>1 DEF NoOp
    <3> QED BY <2>1, <2>2, <3>2 DEF ServerLeft, Left, ServerIs
  <2> QED BY <2>1, <2>3 DEF ServerWork, ServerIs, ServerHolds
<1>7. CASE ServerInstall(i)
  <2>1. /\ ServerIs(i, c.pc, c.plan, NoOp, c.final) /\ c.op # NoOp
        /\ disk' = [disk EXCEPT ![d][c.op.path] = c.op.hash]
    BY <1>1, <1>7, ServerFields, Zenon DEF ServerInstall
  <2>2. \A q \in Path : ServerLeft(i, q) => ServerLeft(i, q)' \/ q = c.op.path
    BY <2>1 DEF ServerLeft, Left, ServerIs
  <2>3. ServerHolds(i)
    BY <2>1 DEF KInv, HInv, OpInv, ServerHolds
  <2> QED BY <2>1, <2>2, <2>3 DEF ServerWork, ServerIs
<1>8. ASSUME NEW t, ServerSend(i, t) PROVE ServerWork(i)
  <2>1. /\ ServerIs(i, "send", [c.plan EXCEPT !.serverSends = @ \ {t}], c.op, c.final)
        /\ disk' = disk /\ c.pc = "send"
    BY <1>1, <1>8, ServerFields, Zenon DEF ServerSend
  <2>2. \A q \in Path : ServerLeft(i, q) => ServerLeft(i, q)'
    BY <1>1, <2>1 DEF ServerLeft, Left, ServerIs, Plan
  <2> QED BY <2>1, <2>2 DEF ServerWork, ServerIs, ServerHolds
<1>9. CASE ServerRescan(i)
  <2>1. /\ \/ ServerIs(i, "commit", EmptyPlan, c.op, disk[d])
           \/ ServerIs(i, "failed", EmptyPlan, c.op, c.final)
        /\ disk' = disk /\ c.pc = "ack"
    BY <1>1, <1>9, ServerFields, Zenon DEF ServerRescan
  <2>2. \A q \in Path : ~ServerLeft(i, q)
    BY <1>1, <2>1 DEF ServerLeft, Left
  <2> QED BY <2>1, <2>2 DEF ServerWork, ServerIs, ServerHolds
<1>10. CASE ServerCommit(i)
  <2>1. /\ ServerIs(i, "result", c.plan, c.op, c.final)
        /\ disk' = disk /\ c.pc = "commit"
    BY <1>1, <1>10, ServerFields, Zenon DEF ServerCommit
  <2>2. \A q \in Path : ~ServerLeft(i, q)
    BY <1>1, <2>1 DEF ServerLeft, Left, EmptyPlan
  <2> QED BY <2>1, <2>2 DEF ServerWork, ServerIs
<1>11. CASE ServerFails(i)
  <2>1. /\ ServerIs(i, IF c.pc = "result" THEN "unsent" ELSE "failed", EmptyPlan, NoOp, c.final)
        /\ disk' = disk
    BY <1>1, <1>11, ServerFields, Zenon DEF ServerFails
  <2> QED BY <2>1 DEF ServerWork, ServerIs, ServerHolds
<1> QED BY <1>2, <1>3, <1>4, <1>5, <1>6, <1>7, <1>8, <1>9, <1>10, <1>11 DEF ServerStep

\* A device whose files matter to a session is not changed by another one.
LEMMA OthersElsewhere ==
  ASSUME KInv, AloneInv, NEW i \in Session, NEW k \in Session \ {i}
  PROVE  /\ client[k].op # NoOp =>
              /\ client[i].pc = "request" \/ ClientIn(i) => client[i].dev # client[k].dev
              /\ ServerHolds(i) => ServerDev(i) # client[k].dev
         /\ server[k].op # NoOp =>
              /\ client[i].pc = "request" \/ ClientIn(i) => client[i].dev # ServerDev(k)
              /\ ServerHolds(i) => ServerDev(i) # ServerDev(k)
<1>1. /\ client[k].op # NoOp => client[k].pc = "receive" /\ ClientRunning(k)
      /\ server[k].op # NoOp => ServerHolds(k)
  BY DEF KInv, HInv, OpInv, ClientRunning, ClientEnded, ServerHolds
<1>2. HoldersDiffer
  BY DEF KInv, HInv, IInv, LockInv
<1>3. client[i].pc \in {"request", "upload", "receive", "ack"} => ClientRunning(i)
  BY DEF ClientRunning, ClientEnded
<1>4. Closing(i) => Harmless(k, client[i].dev)
  BY DEF AloneInv
<1> QED BY <1>1, <1>2, <1>3, <1>4 DEF HoldersDiffer, ClientIn, Harmless

LEMMA InstalledElsewhere ==
  ASSUME StateOK, NEW d \in Device, NEW op,
         disk' = [disk EXCEPT ![d][op.path] = op.hash]
  PROVE  /\ \A e \in Device : e # d => disk'[e] = disk[e]
         /\ \A e \in Device, q \in Path : q # op.path => disk'[e][q] = disk[e][q]
         /\ op.path \in Path => disk'[d][op.path] = op.hash
<1>1. disk \in [Device -> [Path -> File]]
  BY DEF StateOK, Folder
<1> QED BY <1>1

\* A step of one session leaves the round of another as it is.
LEMMA RoundOfOther ==
  ASSUME MInv, NEW i \in Session, seen[i].quiet, ClientIn(i)' => ClientIn(i),
         client'[i] = client[i], server'[i] = server[i], seen'[i] = seen[i],
         client[i].pc = "request" \/ ClientIn(i) => disk'[client[i].dev] = disk[client[i].dev],
         ServerHolds(i) => disk'[ServerDev(i)] = disk[ServerDev(i)]
  PROVE  ClientRound(i)' /\ ServerRound(i)'
<1>1. /\ \A q \in Path : /\ Outcome(i, q)' = Outcome(i, q)
                         /\ ClientLeft(i, q)' = ClientLeft(i, q)
                         /\ ServerLeft(i, q)' = ServerLeft(i, q)
      /\ ServerDev(i)' = ServerDev(i) /\ ServerHolds(i)' = ServerHolds(i)
  BY DEF Outcome, ClientLeft, ServerLeft, ServerDev, ServerHolds
<1>2. ClientRound(i) /\ ServerRound(i)
  BY DEF MInv, RoundInv
<1>3. ClientRound(i)'
  BY <1>1, <1>2 DEF ClientRound
<1>4. ServerRound(i)'
  BY <1>1, <1>2 DEF ServerRound
<1> QED BY <1>3, <1>4

LEMMA RoundByClient ==
  ASSUME MInv, NEW k \in Session, ClientAlone(k), ClientTalk(k), ClientData(k), ClientWork(k)
  PROVE  RoundInv'
<1> SUFFICES ASSUME NEW i \in Session, seen'[i].quiet PROVE ClientRound(i)' /\ ServerRound(i)'
  BY DEF RoundInv
<1>1. /\ StateOK /\ PlanInv /\ KInv /\ HInv /\ AloneInv /\ Order(i)
      /\ server' = server /\ ServerDev(i)' = ServerDev(i) /\ client'[i].dev = client[i].dev
      /\ \A x \in Session : client[x].dev \in Device /\ ServerDev(x) \in Device
      /\ ServerDev(i) # client[i].dev /\ ServerHolds(i)' = ServerHolds(i)
      /\ client[k].op \in FileOp
  BY SideTypes, PeerOfDevice
     DEF MInv, KInv, HInv, IInv, Handshake, ClientAlone, ServerDev, ServerHolds
<1>2. disk' = disk \/ /\ client[k].op # NoOp
                      /\ disk' = [disk EXCEPT ![client[k].dev][client[k].op.path] = client[k].op.hash]
  BY DEF ClientWork
<1>3. CASE i # k
  <2>1. /\ client'[i] = client[i] /\ seen'[i] = seen[i] /\ toServer'[i] = toServer[i]
        /\ ClientIn(i)' => ClientIn(i)
    BY <1>1, <1>3 DEF ClientAlone, ClientData, ClientIn, Closing
  <2>2. /\ client[i].pc = "request" \/ ClientIn(i) => disk'[client[i].dev] = disk[client[i].dev]
        /\ ServerHolds(i) => disk'[ServerDev(i)] = disk[ServerDev(i)]
    BY <1>1, <1>2, <1>3, OthersElsewhere, InstalledElsewhere
  <2> QED BY <1>1, <2>1, <2>2, RoundOfOther
<1>4. CASE i = k
  <2> DEFINE d == client[i].dev
  <2>1. ClientRound(i) /\ ServerRound(i)
    BY <1>4 DEF MInv, RoundInv, ClientData, SeenIs
  <2>2. disk'[ServerDev(i)] = disk[ServerDev(i)]
    BY <1>1, <1>2, <1>4, InstalledElsewhere
  <2>3. ServerRound(i)'
    <3>1. CASE seen'[i] = seen[i]
      <4>1. \A q \in Path : Outcome(i, q)' = Outcome(i, q) /\ ServerLeft(i, q)' = ServerLeft(i, q)
        BY <1>1, <3>1 DEF Outcome, ServerLeft
      <4> QED BY <1>1, <2>1, <2>2, <4>1 DEF ServerRound
    <3>2. CASE seen'[i] # seen[i]
      <4>1. client[i].pc = "hello"
        BY <1>4, <3>2 DEF ClientData
      <4> QED BY <1>1, <4>1 DEF Order, ServerRound, ServerHolds
    <3> QED BY <3>1, <3>2
  <2>4. CASE ClientScan(i)
    <3>0. client[i].pc = "hello" /\ client'[i].pc = "request" /\ disk' = disk
      BY <1>1, <2>4, ClientFields, Zenon DEF ClientScan, ClientIs
    <3>1. ~ClientIn(i)'
      <4>1. server[i].pc \notin {"ack", "commit"}
        BY <1>1, <3>0 DEF Order
      <4> QED BY <1>1, <3>0, <4>1 DEF ClientIn, Closing
    <3>2. seen'[i].client = disk[d]
      BY <1>1, <2>4 DEF ClientScan, StateOK, Seen
    <3> QED BY <1>1, <2>3, <3>0, <3>1, <3>2 DEF ClientRound
  <2>5. CASE ~ClientScan(i)
    <3>0. seen'[i] = seen[i] /\ \A q \in Path : Outcome(i, q)' = Outcome(i, q)
      BY <1>4, <2>5 DEF ClientData, Outcome
    <3>1. CASE /\ disk' = disk /\ client[i].pc = "request" /\ client'[i].pc = "upload"
               /\ client'[i].plan = PlanOf(seen[i], i)
      <4>1. \A q \in Path : ClientLeft(i, q)' \/ disk[d][q] = Outcome(i, q)
        <5>1. disk[d] = seen[i].client
          BY <2>1, <3>1 DEF ClientRound
        <5> QED BY <1>1, <3>1, <5>1, PlanIsRound DEF ClientLeft, Left
      <4> QED BY <1>1, <2>3, <3>0, <3>1, <4>1 DEF ClientRound
    <3>2. CASE /\ disk' = disk /\ {client[i].pc, client'[i].pc} \subseteq {"upload", "receive"}
               /\ \A q \in Path : ClientLeft(i, q) => ClientLeft(i, q)'
      BY <1>1, <2>1, <2>3, <3>0, <3>2 DEF ClientRound, ClientIn
    <3>3. CASE /\ client[i].op # NoOp /\ client'[i].pc = client[i].pc
               /\ disk' = [disk EXCEPT ![d][client[i].op.path] = client[i].op.hash]
               /\ \A q \in Path : ClientLeft(i, q) => ClientLeft(i, q)' \/ q = client[i].op.path
      <4>1. client[i].pc = "receive" /\ ClientIn(i)
        BY <1>1, <3>3 DEF HInv, OpInv, ClientIn
      <4>2. ASSUME NEW q \in Path
            PROVE  ClientLeft(i, q)' \/ disk'[d][q] = Outcome(i, q)
        <5>1. CASE q = client[i].op.path
          <6>1. client[i].op.hash = Outcome(i, q)
            BY <1>1, <3>3, <5>1, PlanIsRound
          <6>2. disk'[d][client[i].op.path] = client[i].op.hash
            <7>1. StateOK /\ client[i].dev \in Device /\ client[i].op.path \in Path
              BY <1>1, <5>1
            <7> QED BY <3>3, <7>1, InstalledElsewhere, Zenon
          <6> QED BY <5>1, <6>1, <6>2
        <5>2. CASE q # client[i].op.path
          BY <1>1, <2>1, <3>3, <4>1, <5>2, InstalledElsewhere DEF ClientRound
        <5> QED BY <5>1, <5>2
      <4> QED BY <1>1, <2>3, <3>0, <3>3, <4>1, <4>2 DEF ClientRound
    <3>4. CASE /\ disk' = disk /\ client[i].pc \in {"receive", "ack"}
               /\ client'[i].pc \in {"ack", "done"} /\ \A q \in Path : ~ClientLeft(i, q)
      BY <1>1, <2>1, <2>3, <3>0, <3>4 DEF ClientRound, ClientIn
    <3>5. CASE disk' = disk /\ client'[i].pc = "failed" /\ ClientRunning(i)
      <4>1. SUFFICES ASSUME ClientIn(i)'
                     PROVE  \A q \in Path : disk[d][q] = Outcome(i, q)
        BY <1>1, <2>3, <3>0, <3>5 DEF ClientRound
      <4>2. Closing(i)
        BY <1>1, <1>4, <3>5, <4>1 DEF ClientIn, Closing, ClientTalk
      <4>3. client[i].pc = "ack"
        BY <1>1, <3>5, <4>2, ClosingClient DEF Acked, ClientRunning, ClientEnded
      <4>4. \A q \in Path : ~ClientLeft(i, q)
        BY <1>1, <4>3 DEF HInv, OpInv, PlanInv, ClientPlanInv, ClientLeft, Left, EmptyPlan
      <4> QED BY <2>1, <4>2, <4>4 DEF ClientRound, ClientIn
    <3> QED BY <1>4, <2>5, <3>1, <3>2, <3>3, <3>4, <3>5 DEF ClientWork
  <2> QED BY <2>4, <2>5
<1> QED BY <1>3, <1>4

LEMMA RoundByServer ==
  ASSUME MInv, PlanInv', StateOK', NEW k \in Session,
         ServerAlone(k), ServerTalk(k), ServerData(k), ServerWork(k)
  PROVE  RoundInv'
<1> SUFFICES ASSUME NEW i \in Session, seen'[i].quiet PROVE ClientRound(i)' /\ ServerRound(i)'
  BY DEF RoundInv
<1>1. /\ StateOK /\ PlanInv /\ KInv /\ HInv /\ AloneInv /\ Order(i) /\ Sender(i)
      /\ client' = client /\ ServerDev(i)' = ServerDev(i)
      /\ \A x \in Session : client[x].dev \in Device /\ ServerDev(x) \in Device
      /\ ServerDev(i) # client[i].dev
      /\ server[k].op \in FileOp
  BY SideTypes, PeerOfDevice
     DEF MInv, KInv, HInv, IInv, Handshake, ServerAlone, ServerDev
<1>2. disk' = disk \/ /\ server[k].op # NoOp
                      /\ disk' = [disk EXCEPT ![ServerDev(k)][server[k].op.path] = server[k].op.hash]
  BY DEF ServerWork
<1>3. CASE i # k
  <2>1. /\ server'[i] = server[i] /\ seen'[i] = seen[i] /\ toServer'[i] = toServer[i]
        /\ client'[i] = client[i]
        /\ ClientIn(i)' => ClientIn(i)
    BY <1>1, <1>3 DEF ServerAlone, ServerData, ClientIn, Closing
  <2>2. /\ client[i].pc = "request" \/ ClientIn(i) => disk'[client[i].dev] = disk[client[i].dev]
        /\ ServerHolds(i) => disk'[ServerDev(i)] = disk[ServerDev(i)]
    BY <1>1, <1>2, <1>3, OthersElsewhere, InstalledElsewhere
  <2> QED BY <1>1, <2>1, <2>2, RoundOfOther
<1>4. CASE i = k
  <2> DEFINE d == ServerDev(i)
  <2>1. ClientRound(i) /\ ServerRound(i)
    BY <1>4 DEF MInv, RoundInv, ServerData, SeenIs
  <2>2. disk'[client[i].dev] = disk[client[i].dev]
    BY <1>1, <1>2, <1>4, InstalledElsewhere
  <2>3. ClientIn(i)' => ClientIn(i)
    BY <1>1, <1>4 DEF ClientIn, Closing, ServerTalk, Sender, Reads, ServerEnded
  <2>4. CASE ServerPlan(i)
    <3>1. /\ server[i].pc = "challenge" /\ disk' = disk
          /\ server'[i].pc = "receive"
          /\ server'[i].plan = PlanOf(seen'[i], i) /\ seen'[i].client = seen[i].client
          /\ seen'[i].server = disk[d]
      <4>1. server'[i].pc = "receive" /\ server[i].pc = "challenge" /\ disk' = disk
        BY <1>1, <2>4, ServerFields, Zenon DEF ServerPlan, ServerIs
      <4>2. server'[i].plan = PlanOf(seen'[i], i)
        BY <1>4, <4>1 DEF ServerWork, ServerHolds
      <4>3. seen'[i].client = seen[i].client /\ seen'[i].server = disk[d]
        BY <1>1, <2>4 DEF ServerPlan, StateOK, Seen
      <4> QED BY <4>1, <4>2, <4>3
    <3>2. ClientRound(i)'
      <4>1. ~ClientIn(i)
        BY <1>1, <3>1 DEF ClientIn, Closing, Order
      <4> QED BY <1>1, <2>1, <2>2, <2>3, <3>1, <4>1 DEF ClientRound
    <3>3. \A q \in Path : ServerLeft(i, q)' \/ disk'[d][q] = Outcome(i, q)'
      <4>1. \A q \in Path : \/ q \in PlanOf(seen'[i], i).serverDeletes
                            \/ \E t \in PlanOf(seen'[i], i).clientSends : t.dest = q
                            \/ seen'[i].server[q] = Outcome(i, q)'
        <5>1. seen'[i] \in Seen
          BY DEF StateOK
        <5>2. /\ seen'[i].server \in Folder /\ seen'[i].client \in Folder
              /\ seen'[i].base \in Folder
              /\ FreshCopies(seen'[i].server, seen'[i].client, seen'[i].base, i)
          BY <5>1 DEF Seen, PlanInv, SeenInv
        <5> QED BY <5>2, PlanOutcome DEF PlanOf, Outcome
      <4> QED BY <3>1, <4>1 DEF ServerLeft, Left
    <3>4. ServerRound(i)'
      BY <1>1, <3>1, <3>3 DEF ServerRound
    <3> QED BY <3>2, <3>4
  <2>5. CASE ~ServerPlan(i)
    <3>1. seen'[i] = seen[i] /\ \A q \in Path : Outcome(i, q)' = Outcome(i, q)
      BY <1>4, <2>5 DEF ServerData, Outcome
    <3>2. ClientRound(i)'
      <4>1. \A q \in Path : ClientLeft(i, q)' = ClientLeft(i, q)
        BY <1>1 DEF ClientLeft
      <4> QED BY <1>1, <2>1, <2>2, <2>3, <3>1, <4>1 DEF ClientRound
    <3>3. CASE /\ disk' = disk /\ ServerHolds(i) /\ server'[i].pc \in {"receive", "send", "ack"}
               /\ \A q \in Path : ServerLeft(i, q) => ServerLeft(i, q)'
      BY <1>1, <2>1, <3>1, <3>2, <3>3 DEF ServerRound
    <3>4. CASE /\ server[i].op # NoOp /\ server'[i].pc = server[i].pc /\ ServerHolds(i)
               /\ disk' = [disk EXCEPT ![d][server[i].op.path] = server[i].op.hash]
               /\ \A q \in Path : ServerLeft(i, q) => ServerLeft(i, q)' \/ q = server[i].op.path
      <4>1. server[i].pc # "commit"
        BY <1>1, <3>4 DEF HInv, OpInv
      <4>2. ASSUME NEW q \in Path
            PROVE  ServerLeft(i, q)' \/ disk'[d][q] = Outcome(i, q)
        <5>1. CASE q = server[i].op.path
          <6>1. server[i].op.hash = Outcome(i, q)
            BY <1>1, <3>4, <5>1, PlanIsRound
          <6>2. disk'[d][server[i].op.path] = server[i].op.hash
            <7>1. StateOK /\ ServerDev(i) \in Device /\ server[i].op.path \in Path
              BY <1>1, <5>1
            <7> QED BY <3>4, <7>1, InstalledElsewhere, Zenon
          <6> QED BY <5>1, <6>1, <6>2
        <5>2. CASE q # server[i].op.path
          BY <1>1, <2>1, <3>4, <5>2, InstalledElsewhere DEF ServerRound
        <5> QED BY <5>1, <5>2
      <4> QED BY <1>1, <3>1, <3>2, <3>4, <4>1, <4>2 DEF ServerRound
    <3>5. CASE /\ disk' = disk /\ server[i].pc = "ack" /\ server'[i].pc = "commit"
               /\ server'[i].final = disk[d] /\ \A q \in Path : ~ServerLeft(i, q)
      BY <1>1, <2>1, <3>1, <3>2, <3>5 DEF ServerRound, ServerHolds
    <3>6. CASE /\ disk' = disk /\ server[i].pc = "commit" /\ server'[i].pc = "result"
               /\ \A q \in Path : ~ServerLeft(i, q)
      BY <1>1, <2>1, <3>1, <3>2, <3>6 DEF ServerRound, ServerHolds
    <3>7. CASE disk' = disk /\ ~ServerHolds(i)'
      BY <3>2, <3>7 DEF ServerRound, ServerHolds
    <3> QED BY <1>4, <2>5, <3>3, <3>4, <3>5, <3>6, <3>7 DEF ServerWork
  <2> QED BY <2>4, <2>5
<1> QED BY <1>3, <1>4

LEMMA RoundByDial ==
  ASSUME MInv, NEW k \in Session, NEW e \in Device, Dial(k, e)
  PROVE  RoundInv'
<1> SUFFICES ASSUME NEW i \in Session, seen'[i].quiet PROVE ClientRound(i)' /\ ServerRound(i)'
  BY DEF RoundInv
<1>1. /\ client \in [Session -> ClientState] /\ toServer \in [Session -> Seq(Frame)]
      /\ client[k].pc = "idle" /\ server[k].pc = "idle"
      /\ server' = server /\ disk' = disk /\ seen' = seen
      /\ toServer' = [toServer EXCEPT ![k] = Append(@, [type |-> "hello"])]
      /\ client' = [client EXCEPT ![k].pc = "hello", ![k].dev = e]
  BY DEF MInv, KInv, HInv, IInv, StateOK, LockInv, ServerAfterDial, Dial
<1>2. client'[k].pc = "hello" /\ server'[k].pc = "idle"
  BY <1>1 DEF ClientState
<1>3. CASE i = k
  BY <1>2, <1>3 DEF ClientRound, ServerRound, ClientIn, Closing, ServerHolds
<1>4. CASE i # k
  <2>1. client'[i] = client[i] /\ toServer'[i] = toServer[i]
    BY <1>1, <1>4
  <2>2. ClientIn(i)' => ClientIn(i)
    BY <1>1, <2>1 DEF ClientIn, Closing
  <2> QED BY <1>1, <2>1, <2>2, RoundOfOther
<1> QED BY <1>3, <1>4

\* A session that is under way during an edit is not quiet any more.
LEMMA RoundByEdit ==
  ASSUME MInv, NEW d \in Device, NEW p \in Path, NEW v \in File, Edit(d, p, v)
  PROVE  RoundInv'
<1> SUFFICES ASSUME NEW i \in Session, seen'[i].quiet PROVE ClientRound(i)' /\ ServerRound(i)'
  BY DEF RoundInv
<1>1. /\ seen \in [Session -> Seen] /\ client' = client /\ server' = server
      /\ toServer' = toServer
      /\ seen' = [x \in Session |-> IF Live(x) THEN [seen[x] EXCEPT !.quiet = FALSE] ELSE seen[x]]
  BY DEF MInv, KInv, HInv, IInv, StateOK, Edit
<1>2. ~Live(i)
  BY <1>1 DEF Seen
<1>3. client[i].pc = "idle" => server[i].pc = "idle"
  BY DEF MInv, KInv, HInv, IInv, LockInv, ServerAfterDial
<1>4. /\ client[i].pc \notin {"request", "upload", "receive", "ack"}
      /\ ~ServerHolds(i) /\ ~Closing(i) /\ server[i].pc # "commit"
  BY <1>2, <1>3 DEF Live, ClientEnded, ServerEnded, ServerHolds, Closing
<1> QED BY <1>1, <1>4 DEF ClientRound, ServerRound, ClientIn, Closing, ServerHolds

LEMMA RoundInit == Init => MInv
<1> SUFFICES ASSUME Init PROVE MInv
  OBVIOUS
<1>1. \A i \in Session : client[i].pc = "idle" /\ server[i].pc = "idle"
  BY DEF Init
<1>2. AloneInv
  BY <1>1 DEF AloneInv, Closing
<1>3. RoundInv
  BY <1>1 DEF RoundInv, ClientRound, ServerRound, ClientIn, Closing, ServerHolds
<1> QED BY <1>2, <1>3, KInit DEF MInv

LEMMA RoundStep == MInv /\ [Next]_vars => MInv'
<1> SUFFICES ASSUME MInv, [Next]_vars PROVE MInv'
  OBVIOUS
<1>1. /\ KInv /\ KInv' /\ HInv /\ StateOK /\ AloneInv
      /\ PlanInv' /\ StateOK'
  BY KStep DEF MInv, KInv, HInv, IInv
<1>2. ASSUME NEW i \in Session, NEW d \in Device, Dial(i, d) PROVE MInv'
  BY <1>1, <1>2, AloneByDial, RoundByDial DEF MInv
<1>3. ASSUME NEW i \in Session, ClientStep(i) \/ ClientFails(i) PROVE MInv'
  <2>1. ClientAlone(i) /\ ClientTalk(i) /\ ClientData(i) /\ ClientWork(i)
    BY <1>1, <1>3, ClientEffects, ClientTalks, ClientDataStep, ClientWorks
  <2>2. AloneInv'
    BY <1>1, <2>1, AloneByClient
  <2>3. RoundInv'
    BY <2>1, RoundByClient
  <2> QED BY <1>1, <2>2, <2>3 DEF MInv
<1>4. ASSUME NEW i \in Session, ServerStep(i) \/ ServerFails(i) PROVE MInv'
  <2>1. ServerAlone(i) /\ ServerTalk(i) /\ ServerData(i) /\ ServerWork(i) /\ ServerLock(i)
    BY <1>1, <1>4, ServerEffects, ServerTalks, ServerDataStep, ServerWorks
  <2>2. AloneInv'
    BY <1>1, <2>1, AloneByServer
  <2>3. RoundInv'
    BY <1>1, <2>1, RoundByServer
  <2> QED BY <1>1, <2>2, <2>3 DEF MInv
<1>5. ASSUME NEW d \in Device, NEW p \in Path, NEW v \in File, Edit(d, p, v) PROVE MInv'
  <2>1. AloneInv'
    BY <1>1, <1>5, AloneStill DEF Edit
  <2> QED BY <1>1, <1>5, <2>1, RoundByEdit DEF MInv
<1>6. CASE UNCHANGED vars
  <2>1. AloneInv'
    BY <1>1, <1>6, AloneStill DEF vars
  <2>2. RoundInv'
    BY <1>6 DEF vars, MInv, RoundInv, ClientRound, ServerRound, ClientIn, Closing, ServerHolds,
                ClientLeft, ServerLeft, Outcome, ServerDev
  <2> QED BY <1>1, <2>1, <2>2 DEF MInv
<1> QED BY <1>2, <1>3, <1>4, <1>5, <1>6 DEF Next, Fault

-----------------------------------------------------------------------------
(* What a session without edits commits and records                        *)

\* Which steps change the stage of a session.
LEMMA WhoSteps ==
  ASSUME MInv, [Next]_vars, NEW i \in Session
  PROVE  /\ server'[i].pc # server[i].pc => ServerStep(i) \/ ServerFails(i)
         /\ client'[i].pc # client[i].pc /\ client[i].pc # "idle" => ClientStep(i) \/ ClientFails(i)
<1>1. StateOK
  BY DEF MInv, KInv, HInv, IInv
<1>2. ASSUME NEW k \in Session, NEW d \in Device, Dial(k, d)
      PROVE  server' = server /\ (client[i].pc # "idle" => client'[i] = client[i])
  BY <1>1, <1>2 DEF Dial, StateOK
<1>3. ASSUME NEW k \in Session, ClientStep(k) \/ ClientFails(k)
      PROVE  server' = server /\ (k # i => client'[i] = client[i])
  BY <1>1, <1>3, ClientEffects DEF ClientAlone
<1>4. ASSUME NEW k \in Session, ServerStep(k) \/ ServerFails(k)
      PROVE  client' = client /\ (k # i => server'[i] = server[i])
  BY <1>1, <1>4, ServerEffects DEF ServerAlone
<1>5. ASSUME NEW d \in Device, NEW p \in Path, NEW v \in File, Edit(d, p, v)
      PROVE  client' = client /\ server' = server
  BY <1>5 DEF Edit
<1>6. UNCHANGED vars => client' = client /\ server' = server
  BY DEF vars
<1> QED BY <1>2, <1>3, <1>4, <1>5, <1>6 DEF Next, Fault

\* Where the two sides' folders are the outcome of their round.
LEMMA RoundIsDone ==
  ASSUME MInv, NEW i \in Session, seen[i].quiet
  PROVE  /\ server[i].pc = "commit" \/ /\ client[i].pc = "receive" /\ client[i].op = NoOp
                                       /\ client[i].plan.clientDeletes = {}
                                       /\ client[i].plan.serverSends = {}
           => \A q \in Path : disk[client[i].dev][q] = Outcome(i, q)
         /\ server[i].pc \in {"ack", "commit"} => \A q \in Path : disk[ServerDev(i)][q] = Outcome(i, q)
         /\ server[i].pc = "commit" => \A q \in Path : server[i].final[q] = Outcome(i, q)
<1>1. /\ ClientRound(i) /\ ServerRound(i) /\ HInv
      /\ ClientPlanInv(i) /\ ServerPlanInv(i)
  BY DEF MInv, KInv, RoundInv, PlanInv
<1>2. ASSUME server[i].pc = "commit"
      PROVE  ClientIn(i) /\ \A q \in Path : ~ClientLeft(i, q)
  <2>1. Closing(i) /\ client[i].pc \in Acked
    BY <1>1, <1>2, ClosingClient DEF Closing
  <2>2. client[i].plan = EmptyPlan /\ client[i].op = NoOp
    BY <1>1, <2>1 DEF Acked, ClientPlanInv, HInv, OpInv
  <2> QED BY <2>1, <2>2 DEF ClientIn, ClientLeft, Left, EmptyPlan
<1>3. ASSUME client[i].pc = "receive", client[i].op = NoOp,
             client[i].plan.clientDeletes = {}, client[i].plan.serverSends = {}
      PROVE  ClientIn(i) /\ \A q \in Path : ~ClientLeft(i, q)
  BY <1>3 DEF ClientIn, ClientLeft, Left
<1>4. ASSUME server[i].pc \in {"ack", "commit"}
      PROVE  ServerHolds(i) /\ \A q \in Path : ~ServerLeft(i, q)
  <2>1. server[i].op = NoOp
    BY <1>1, <1>4 DEF HInv, OpInv
  <2>2. server[i].plan.clientSends = {} /\ server[i].plan.serverDeletes = {}
    BY <1>1, <1>4 DEF ServerPlanInv, EmptyPlan
  <2> QED BY <1>4, <2>1, <2>2 DEF ServerHolds, ServerLeft, Left
<1> QED BY <1>1, <1>2, <1>3, <1>4 DEF ClientRound, ServerRound

\* A session during which nobody edits does what a round of AtomicRounds does
\* in one step, whatever other sessions, faults and dead clients there are: at
\* its commit both folders are the scanned ones with the whole plan carried
\* out, they are equal, and they are the baseline.
THEOREM QuietSessionIsARound == Spec => QuietRoundIsAtomic
<1> DEFINE Atomic(i) ==
      LET plan == BuildPlan(seen[i].server, seen[i].client, seen[i].base, i)
          d == client[i].dev
          e == ServerDev(i)
      IN /\ disk[d] = Installed(seen[i].client, plan.serverSends, plan.clientDeletes)
         /\ disk[e] = Installed(seen[i].server, plan.clientSends, plan.serverDeletes)
         /\ baseline'[e] = disk[d] /\ disk[d] = disk[e]
<1>1. ASSUME MInv, [Next]_vars, NEW i \in Session, server[i].pc = "commit",
             server'[i].pc = "result", seen[i].quiet
      PROVE  Atomic(i)
  <2> DEFINE W == PlanOf(seen[i], i)
             d == client[i].dev
             e == ServerDev(i)
             atClient == Installed(seen[i].client, W.serverSends, W.clientDeletes)
             atServer == Installed(seen[i].server, W.clientSends, W.serverDeletes)
  <2>1. /\ StateOK /\ seen[i].server \in Folder /\ seen[i].client \in Folder
        /\ seen[i].base \in Folder /\ disk[d] \in Folder /\ disk[e] \in Folder
        /\ e \in Device /\ server[i].final \in Folder
        /\ FreshCopies(seen[i].server, seen[i].client, seen[i].base, i)
    <3>1. StateOK
      BY <1>1 DEF MInv, KInv, HInv, IInv
    <3> QED BY <1>1, <3>1, SideTypes DEF MInv, KInv, PlanInv, SeenInv, Seen
  <2>2. ServerCommit(i)
    <3>1. ServerStep(i) \/ ServerFails(i)
      BY <1>1, WhoSteps
    <3>2. ~ServerInstall(i)
      BY <1>1, <2>1, ServerFields, Zenon DEF ServerIs
    <3>3. ~ServerFails(i)
      BY <1>1, <2>1, ServerFields DEF ServerIs
    <3> QED BY <1>1, <3>1, <3>2, <3>3 DEF ServerStep, ServerHello, ServerBusy, ServerPlan,
              ServerReceive, ServerUploadsDone, ServerDelete, ServerSend, ServerTransfersDone,
              ServerRescan, ServerResult
  <2>3. baseline'[e] = server[i].final
    BY <2>1, <2>2 DEF ServerCommit, StateOK
  <2>4. \A q \in Path : /\ disk[d][q] = Outcome(i, q) /\ disk[e][q] = Outcome(i, q)
                        /\ server[i].final[q] = Outcome(i, q)
    BY <1>1, RoundIsDone
  <2>5. \A q \in Path : atClient[q] = Outcome(i, q) /\ atServer[q] = Outcome(i, q)
    BY <2>1, PlanMerges DEF PlanOf, Outcome
  <2>6. ASSUME NEW f \in Folder, NEW g, g = [q \in Path |-> g[q]],
               \A q \in Path : f[q] = Outcome(i, q) /\ g[q] = Outcome(i, q)
        PROVE  f = g
    BY <2>6 DEF Folder
  <2>7. atClient = [q \in Path |-> atClient[q]] /\ atServer = [q \in Path |-> atServer[q]]
    BY DEF Installed
  <2>8. disk[d] = [q \in Path |-> disk[d][q]]
    BY <2>1 DEF Folder
  <2> HIDE DEF atClient, atServer
  <2>9. /\ disk[d] = atClient /\ disk[e] = atServer
        /\ disk[e] = disk[d] /\ server[i].final = disk[d]
    BY <2>1, <2>4, <2>5, <2>6, <2>7, <2>8
  <2> QED BY <2>3, <2>9 DEF atClient, atServer, PlanOf
<1>2. MInv /\ [Next]_vars =>
        [\A i \in Session :
           server[i].pc = "commit" /\ server'[i].pc = "result" /\ seen[i].quiet => Atomic(i)]_vars
  <2> HIDE DEF Atomic
  <2> QED BY <1>1
<1> QED BY <1>2, RoundInit, RoundStep, PTL DEF Spec, QuietRoundIsAtomic

\* A record that is pending after a save, and was not before, is of the plan,
\* also if the save was broken off.
LEMMA SavedAreFound ==
  ASSUME StateOK, NEW d \in Device, NEW found \in SUBSET Conflict,
         \/ SaveFails(d, found)
         \/ conflicts' = [conflicts EXCEPT ![d] =
                            AutoResolve(SavePlanConflicts(@, found), disk[d])],
         NEW r \in conflicts'[d] \ conflicts[d], r.status = "pending"
  PROVE  \E c \in found : r.id = IdOf(c)
<1> DEFINE saved == SavePlanConflicts(conflicts[d], found)
<1>1. conflicts[d] \in SUBSET ConflictRecord /\ saved \in SUBSET ConflictRecord
  BY RecordTypes DEF StateOK
<1>2. \A rs \in SUBSET ConflictRecord : \A g : \A x \in AutoResolve(rs, g) : x.status = "pending" => x \in rs
  BY DEF AutoResolve, ConflictRecord
<1>3. \/ conflicts'[d] = AutoResolve(saved, disk[d])
      \/ \E some \in SUBSET found : conflicts'[d] = SavePlanConflicts(conflicts[d], some)
      \/ \E some \in SUBSET saved : conflicts'[d] = (saved \ some) \cup AutoResolve(some, disk[d])
  BY DEF SaveFails, Scan, StateOK
<1>4. r \in saved \/ \E some \in SUBSET found : r \in SavePlanConflicts(conflicts[d], some)
  <2> HIDE DEF saved
  <2>1. CASE conflicts'[d] = AutoResolve(saved, disk[d])
    BY <1>1, <1>2, <2>1
  <2>2. CASE \E some \in SUBSET saved : conflicts'[d] = (saved \ some) \cup AutoResolve(some, disk[d])
    <3> PICK some \in SUBSET saved : conflicts'[d] = (saved \ some) \cup AutoResolve(some, disk[d])
      BY <2>2
    <3>1. some \in SUBSET ConflictRecord
      BY <1>1
    <3>2. r \in AutoResolve(some, disk[d]) => r \in some
      BY <1>2, <3>1
    <3> QED BY <3>2
  <2> QED BY <1>3, <2>1, <2>2
<1> QED BY <1>4 DEF SavePlanConflicts

\* The records a device saves at its final scan, when its folder is the
\* outcome of the round.
LEMMA SavedIsCached ==
  ASSUME MInv, NEW i \in Session, NEW d \in Device,
         \A q \in Path : disk[d][q] = Outcome(i, q),
         NEW found \in SUBSET Conflict, found \subseteq PlanOf(seen[i], i).conflicts,
         Cache(d, disk[d]),
         \/ SaveFails(d, found)
         \/ conflicts' = [conflicts EXCEPT ![d] =
                            AutoResolve(SavePlanConflicts(@, found), disk[d])],
         NEW r \in conflicts'[d] \ conflicts[d], r.status = "pending"
  PROVE  {r.id.server, r.id.client} \ {NoFile} \subseteq objects'[d]
<1>1. /\ StateOK /\ seen[i].server \in Folder /\ seen[i].client \in Folder
      /\ seen[i].base \in Folder
      /\ FreshCopies(seen[i].server, seen[i].client, seen[i].base, i)
  <2>1. StateOK
    BY DEF MInv, KInv, HInv, IInv
  <2> QED BY <2>1, SideTypes DEF MInv, KInv, PlanInv, SeenInv, Seen
<1>2. PICK c \in found : r.id = IdOf(c)
  BY <1>1, SavedAreFound
<1>3. r.id.server = c.server /\ r.id.client = c.client
  BY <1>2 DEF IdOf
<1>4. \A h \in {c.server, c.client} \ {NoFile} : \E q \in Path : disk[d][q] = h
  <2>1. c \in BuildPlan(seen[i].server, seen[i].client, seen[i].base, i).conflicts
    BY <1>2 DEF PlanOf
  <2>2. ASSUME NEW h \in {c.server, c.client} \ {NoFile}
        PROVE  \E q \in Path : Merged(seen[i].server, seen[i].client, seen[i].base, i, q) = h
    <3> DEFINE s == seen[i].server
               cl == seen[i].client
               b == seen[i].base
    <3>1. /\ s \in Folder /\ cl \in Folder /\ b \in Folder /\ FreshCopies(s, cl, b, i)
          /\ c \in BuildPlan(s, cl, b, i).conflicts
      BY <1>1, <2>1
    <3> HIDE DEF s, cl, b
    <3>2. \E q \in Path : Merged(s, cl, b, i, q) = h
      BY <2>2, <3>1, ConflictsKept
    <3> QED BY <3>2 DEF s, cl, b
  <2> QED BY <2>2 DEF Outcome
<1>5. \A q \in Path : disk[d][q] # NoFile => disk[d][q] \in objects'[d]
  BY <1>1 DEF Cache, Contents, StateOK
<1> QED BY <1>3, <1>4, <1>5

\* Whoever saves a conflict of a session without edits has both versions in
\* its object store by then, the other device's too.
THEOREM BothVersionsCached == Spec => ConflictVersionsCached
<1> DEFINE Saved(i, d) ==
      \A r \in conflicts'[d] \ conflicts[d] :
        r.status = "pending" => {r.id.server, r.id.client} \ {NoFile} \subseteq objects'[d]
<1>1. ASSUME MInv, [Next]_vars, NEW i \in Session, NEW d \in Device, Finishing(i, d), seen[i].quiet
      PROVE  Saved(i, d)
  <2>1. /\ StateOK
        /\ client[i].plan.conflicts \subseteq PlanOf(seen[i], i).conflicts
        /\ server[i].plan.conflicts \subseteq PlanOf(seen[i], i).conflicts
        /\ client[i].plan.conflicts \in SUBSET Conflict /\ server[i].plan.conflicts \in SUBSET Conflict
    <3>1. StateOK
      BY <1>1 DEF MInv, KInv, HInv, IInv
    <3>2. client[i].plan \in Plan /\ server[i].plan \in Plan
      BY <3>1, SideTypes
    <3> QED BY <1>1, <3>1, <3>2
            DEF MInv, KInv, PlanInv, ClientPlanInv, ServerPlanInv, Within, Plan
  <2>2. CASE d = client[i].dev /\ client[i].pc = "receive" /\ client'[i].pc # "receive"
    <3>1. ClientFinish(i) \/ ClientFails(i)
      <4>1. ClientStep(i) \/ ClientFails(i)
        BY <1>1, <2>2, WhoSteps
      <4>2. ~ClientInstall(i) /\ ~ClientReceive(i) /\ \A p : ~ClientDelete(i, p)
        BY <2>1, <2>2, ClientFields DEF ClientIs
      <4> QED BY <2>2, <4>1, <4>2
              DEF ClientStep, ClientScan, ClientPlan, ClientSend, ClientUploadsDone, ClientCommit
    <3>2. \/ UNCHANGED <<objects, conflicts>> \/ CacheFails(d)
          \/ /\ ClientReceived(i) /\ Cache(d, disk[d])
             /\ \/ SaveFails(d, client[i].plan.conflicts)
                \/ conflicts' = [conflicts EXCEPT ![d] =
                     AutoResolve(SavePlanConflicts(@, client[i].plan.conflicts), disk[d])]
      BY <2>2, <3>1 DEF ClientFinish, ClientFails, ClientWrote, SaveFails, Scan
    <3>3. CASE conflicts' = conflicts
      BY <3>3
    <3>4. CASE ClientReceived(i)
      <4>1. \A q \in Path : disk[d][q] = Outcome(i, q)
        BY <1>1, <2>2, <3>4, RoundIsDone DEF ClientReceived
      <4> QED BY <1>1, <2>1, <3>2, <3>3, <4>1, SavedIsCached DEF CacheFails
    <3> QED BY <3>2, <3>3, <3>4 DEF CacheFails
  <2>3. CASE d = ServerDev(i) /\ server[i].pc = "ack" /\ server'[i].pc # "ack"
    <3>1. ServerRescan(i) \/ ServerFails(i)
      <4>1. ServerStep(i) \/ ServerFails(i)
        BY <1>1, <2>3, WhoSteps
      <4>2. ~ServerInstall(i)
        BY <2>1, <2>3, ServerFields, Zenon DEF ServerIs
      <4> QED BY <2>3, <4>1, <4>2 DEF ServerStep, ServerHello, ServerBusy, ServerPlan,
                ServerReceive, ServerUploadsDone, ServerDelete, ServerSend, ServerTransfersDone,
                ServerCommit, ServerResult
    <3>2. \/ conflicts' = conflicts
          \/ /\ Cache(d, disk[d])
             /\ \/ SaveFails(d, server[i].plan.conflicts)
                \/ conflicts' = [conflicts EXCEPT ![d] =
                     AutoResolve(SavePlanConflicts(@, server[i].plan.conflicts), disk[d])]
      BY <2>3, <3>1 DEF ServerRescan, ServerFails, ServerWrote, CacheFails, SaveFails, Scan
    <3>3. \A q \in Path : disk[d][q] = Outcome(i, q)
      BY <1>1, <2>3, RoundIsDone
    <3> QED BY <1>1, <2>1, <3>2, <3>3, SavedIsCached
  <2> QED BY <1>1, <2>2, <2>3 DEF Finishing
<1>2. MInv /\ [Next]_vars =>
        [\A i \in Session, d \in Device : Finishing(i, d) /\ seen[i].quiet => Saved(i, d)]_vars
  <2> HIDE DEF Saved
  <2> QED BY <1>1
<1> QED BY <1>2, RoundInit, RoundStep, PTL DEF Spec, ConflictVersionsCached
=============================================================================
