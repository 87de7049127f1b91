---------------------------- MODULE SyncSession ----------------------------
(***************************************************************************)
(* Sync sessions of one sync space between two paired devices: the client  *)
(* side is Service.SyncShare, the server side Service.handleConnection     *)
(* (internal/service/tcp.go), each a goroutine of its own device.  They    *)
(* talk over a TCP connection, change the folders through ReceiveFile and  *)
(* DeleteFile (internal/syncer/files.go), and store conflict records,      *)
(* cached objects and the baseline of the other device.  Users edit files  *)
(* at any time.                                                            *)
(*                                                                         *)
(* Either side may fail at any step (Faults): an I/O error, the session    *)
(* timeout, a lost connection, a stopped or crashed process.  It then      *)
(* returns, which frees its in-memory lock and closes the connection;      *)
(* frames it did not read are lost, frames it sent can still be read.  A   *)
(* crash of a device is the failure of each side it runs: what it had on   *)
(* disk stays, and nothing else does in the code either.                   *)
(*                                                                         *)
(* Left out: pairing and share checks and addresses (both devices are      *)
(* paired and the share is active), modes and times, error texts.  A scan  *)
(* is one step.  The error frame of a failing server is its close: the     *)
(* client fails on both alike.                                             *)
(***************************************************************************)
EXTENDS ConflictRecords, Naturals, Sequences

CONSTANTS A, B,          \* the two paired devices
          Name,          \* paths users write to; conflict copies they only delete
          Cap,           \* frames a direction of a connection buffers
          MaxEdits,      \* bound: edits by the users
          Faults         \* whether a side may fail at any step

\* A user file does not have a conflict copy's name, and two conflicts do not
\* share one: the name holds the path, the time and the client.
ASSUME SessionAssumption ==
  /\ A # B
  /\ Name \subseteq Path
  /\ \A p \in Name, s \in Session : ConflictName(p, s) \notin Name
  /\ \A p, q \in Name, s, t \in Session :
       ConflictName(p, s) = ConflictName(q, t) => p = q /\ s = t
  /\ Session \subseteq Nat
  /\ Cap \in Nat \ {0}
  /\ MaxEdits \in Nat
  /\ Faults \in BOOLEAN

Device == {A, B}
Peer(d) == IF d = A THEN B ELSE A

VARIABLES
  disk,       \* [Device -> Folder]: the files of the sync directory
  history,    \* per device, the <<path, hash>> pairs archived before a change
  objects,    \* per device, the hashes in the object store
  baseline,   \* per device, the manifest stored for the other device
  conflicts,  \* per device, the conflict records
  locked,     \* per device, the mutex of the share
  status,     \* per device, the State of the share's RuntimeStatus
  client,     \* per session, the state of SyncShare
  server,     \* per session, the state of handleConnection
  toServer,   \* per session, frames on their way to the server
  toClient,   \* per session, frames on their way to the client
  edits,      \* edits so far
  seen,       \* per session, what it observed (history variable)
  late,       \* per session, the files users wrote between their archiving and
              \* their replacement (history variable)
  cut         \* per session, whether a fault has ended a side (history variable)

store == <<history, objects, baseline, conflicts>>
vars == <<disk, store, locked, status, client, server, toServer, toClient, edits, seen,
          late, cut>>

-----------------------------------------------------------------------------
(* Types                                                                   *)

NoOp == [path |-> NoFile, hash |-> NoFile]
FileOp == [path : Path, hash : File] \cup {NoOp}

ClientPcs == {"idle", "hello", "request", "upload", "receive", "ack", "done", "failed"}
ServerPcs == {"idle", "challenge", "receive", "send", "ack", "commit", "result",
              "done", "failed", "busy", "unsent"}
ClientState == [pc : ClientPcs, dev : Device, plan : Plan, op : FileOp, final : Folder]
ServerState == [pc : ServerPcs, plan : Plan, op : FileOp, final : Folder]
Seen == [client : Folder, server : Folder, base : Folder, quiet : BOOLEAN]

Marker == [type : {"hello", "challenge", "uploads_done", "transfers_done", "result"}]
SyncRequest == [type : {"sync_request"}, manifest : Folder, resolved : SUBSET ConflictId]
PlanMessage == [type : {"plan"}, plan : Plan, resolved : SUBSET ConflictId]
FileFrame == [type : {"file"}, transfer : Transfer, data : Hash]
Ack == [type : {"ack"}, manifest : Folder]
Frame == Marker \cup SyncRequest \cup PlanMessage \cup FileFrame \cup Ack

StateOK ==
  /\ disk \in [Device -> Folder]
  /\ history \in [Device -> SUBSET (Path \X Hash)]
  /\ objects \in [Device -> SUBSET Hash]
  /\ baseline \in [Device -> Folder]
  /\ conflicts \in [Device -> SUBSET ConflictRecord]
  /\ locked \in [Device -> BOOLEAN]
  /\ status \in [Device -> {"idle", "syncing", "synced", "error"}]
  /\ client \in [Session -> ClientState]
  /\ server \in [Session -> ServerState]
  /\ toServer \in [Session -> Seq(Frame)]
  /\ toClient \in [Session -> Seq(Frame)]
  /\ edits \in Nat
  /\ seen \in [Session -> Seen]
TypeOK ==
  /\ StateOK
  /\ late \in [Session -> SUBSET (Device \X Path)]
  /\ cut \in [Session -> BOOLEAN]

-----------------------------------------------------------------------------
(* The two ends of a session                                               *)

ServerDev(i) == Peer(client[i].dev)

ClientEnded(i) == client[i].pc \in {"done", "failed"}
ClientRunning(i) == client[i].pc # "idle" /\ ~ClientEnded(i)
ServerEnded(i) == server[i].pc \in {"done", "failed", "busy", "unsent"}
ServerHolds(i) == server[i].pc \in {"receive", "send", "ack", "commit", "result"}
Live(i) == client[i].pc # "idle" /\ ~(ClientEnded(i) /\ ServerEnded(i))

\* A write waits for room; to a closed peer it succeeds and is lost.
CanWrite(queue, closed) == closed \/ Len(queue) < Cap
Written(queue, closed, frame) == IF closed THEN queue ELSE Append(queue, frame)
ToServer(i, frame) ==
  /\ CanWrite(toServer[i], ServerEnded(i))
  /\ toServer' = [toServer EXCEPT ![i] = Written(@, ServerEnded(i), frame)]
ToClient(i, frame) ==
  /\ CanWrite(toClient[i], ClientEnded(i))
  /\ toClient' = [toClient EXCEPT ![i] = Written(@, ClientEnded(i), frame)]

Heads(queue, type) == queue # <<>> /\ Head(queue).type = type
ReadByClient(i) == toClient' = [toClient EXCEPT ![i] = Tail(@)]
ReadByServer(i) == toServer' = [toServer EXCEPT ![i] = Tail(@)]

\* Mutant: a TryLock nobody looks at.
LockBlindly(d) == locked' = [locked EXCEPT ![d] = TRUE]

TryLock(d) == ~locked[d] /\ locked' = [locked EXCEPT ![d] = TRUE]
Unlock(d) == locked' = [locked EXCEPT ![d] = FALSE]
SetStatus(d, s) == status' = [status EXCEPT ![d] = s]

-----------------------------------------------------------------------------
(* Stored state a handler updates                                          *)

\* Scan: the manifest of a sync directory; walking and hashing are one step.
Scan(d) == disk[d]

\* Mutant: nothing is cached.
CacheNothing(d, folder) == objects' = [objects EXCEPT ![d] = @]

Contents(folder) == {folder[p] : p \in {q \in Path : folder[q] # NoFile}}

\* cacheObjects: every scanned file's content is kept in the object store.
Cache(d, folder) == objects' = [objects EXCEPT ![d] = @ \cup Contents(folder)]

\* Mutants: no archive, and an archive entry for a file that is not there.
ArchiveNothing(d, p) == history' = [history EXCEPT ![d] = @]
ArchiveAnything(d, p) == history' = [history EXCEPT ![d] = @ \cup {<<p, disk[d][p]>>}]

\* archiveExisting: the file about to be replaced or removed is copied first.
Archive(d, p) ==
  history' = [history EXCEPT ![d] =
                @ \cup {<<p, h>> : h \in {disk[d][p]} \ {NoFile}}]

\* Mutant: the final manifests are compared by their paths.
SamePaths(left, right) == \A p \in Path : left[p] = NoFile <=> right[p] = NoFile

ManifestsEqual(left, right) == left = right

\* Objects, marks and records are written one after the other: a handler that
\* returns early has written some of them.
CacheFails(d) ==
  /\ \E some \in SUBSET Contents(Scan(d)) : objects' = [objects EXCEPT ![d] = @ \cup some]
  /\ UNCHANGED conflicts
MarkFails(d, ids) ==
  /\ \E some \in SUBSET ids : conflicts' = [conflicts EXCEPT ![d] = MarkResolved(@, some)]
  /\ UNCHANGED objects
SaveFails(d, found) ==
  LET saved == SavePlanConflicts(conflicts[d], found) IN
  /\ Cache(d, Scan(d))
  /\ \/ \E some \in SUBSET found :
          conflicts' = [conflicts EXCEPT ![d] = SavePlanConflicts(@, some)]
     \/ \E some \in SUBSET saved :
          conflicts' = [conflicts EXCEPT ![d] = (saved \ some) \cup AutoResolve(some, Scan(d))]

-----------------------------------------------------------------------------
(* The client: SyncShare                                                   *)

ClientBecomes(i, pc) == client' = [client EXCEPT ![i].pc = pc]

\* TryLock, then connect and say hello.  Sessions are numbered in order.
Dial(i, d) ==
  /\ client[i].pc = "idle"
  /\ \A j \in Session : j < i => client[j].pc # "idle"
  /\ TryLock(d)
  /\ SetStatus(d, "syncing")
  /\ client' = [client EXCEPT ![i].pc = "hello", ![i].dev = d]
  /\ toServer' = [toServer EXCEPT ![i] = Append(@, [type |-> "hello"])]
  /\ UNCHANGED <<disk, store, server, toClient, edits, seen, late, cut>>

\* The challenge is in: scan, cache, send the manifest.
ClientScan(i) ==
  LET d == client[i].dev IN
  /\ client[i].pc = "hello"
  /\ Heads(toClient[i], "challenge")
  /\ ReadByClient(i)
  /\ Cache(d, Scan(d))
  /\ ToServer(i, [type |-> "sync_request", manifest |-> Scan(d),
                  resolved |-> ResolvedIds(conflicts[d])])
  /\ ClientBecomes(i, "request")
  /\ seen' = [seen EXCEPT ![i].client = Scan(d)]
  /\ UNCHANGED <<disk, history, baseline, conflicts, locked, status, server, edits>>

ClientPlan(i) ==
  LET d == client[i].dev
      message == Head(toClient[i])
  IN
  /\ client[i].pc = "request"
  /\ Heads(toClient[i], "plan")
  /\ ReadByClient(i)
  /\ conflicts' = [conflicts EXCEPT ![d] = MarkResolved(@, message.resolved)]
  /\ client' = [client EXCEPT ![i].pc = "upload", ![i].plan = message.plan]
  /\ UNCHANGED <<disk, history, objects, baseline, locked, status, server, toServer, edits, seen>>

\* SendFile reads the file as it is now under the hash of the plan.
ClientSend(i, t) ==
  LET d == client[i].dev IN
  /\ client[i].pc = "upload"
  /\ t \in client[i].plan.clientSends
  /\ disk[d][t.source] # NoFile
  /\ ToServer(i, [type |-> "file", transfer |-> t, data |-> disk[d][t.source]])
  /\ client' = [client EXCEPT ![i].plan.clientSends = @ \ {t}]
  /\ UNCHANGED <<disk, store, locked, status, server, toClient, edits, seen>>

\* Mutant: the end of the uploads is not announced.
ClientUploadsSilent(i) ==
  /\ client[i].pc = "upload"
  /\ client[i].plan.clientSends = {}
  /\ ClientBecomes(i, "receive")
  /\ UNCHANGED <<disk, store, locked, status, server, toServer, toClient, edits, seen>>

ClientUploadsDone(i) ==
  /\ client[i].pc = "upload"
  /\ client[i].plan.clientSends = {}
  /\ ToServer(i, [type |-> "uploads_done"])
  /\ ClientBecomes(i, "receive")
  /\ UNCHANGED <<disk, store, locked, status, server, toClient, edits, seen>>

\* DeleteFile up to the removal.
ClientDelete(i, p) ==
  /\ client[i].pc = "receive"
  /\ client[i].op = NoOp
  /\ p \in client[i].plan.clientDeletes
  /\ Archive(client[i].dev, p)
  /\ client' = [client EXCEPT ![i].plan.clientDeletes = @ \ {p},
                              ![i].op = [path |-> p, hash |-> NoFile]]
  /\ UNCHANGED <<disk, objects, baseline, conflicts, locked, status, server,
                 toServer, toClient, edits, seen>>

\* ReceiveFile up to the rename: the header is one the plan names, the bytes
\* have its hash, the old file is archived.
ClientReceive(i) ==
  LET frame == Head(toClient[i]) IN
  /\ client[i].pc = "receive"
  /\ client[i].op = NoOp
  /\ client[i].plan.clientDeletes = {}
  /\ Heads(toClient[i], "file")
  /\ frame.transfer \in client[i].plan.serverSends
  /\ frame.data = frame.transfer.hash
  /\ ReadByClient(i)
  /\ Archive(client[i].dev, frame.transfer.dest)
  /\ client' = [client EXCEPT
                  ![i].plan.serverSends = @ \ {frame.transfer},
                  ![i].op = [path |-> frame.transfer.dest, hash |-> frame.data]]
  /\ UNCHANGED <<disk, objects, baseline, conflicts, locked, status, server, toServer, edits, seen>>

\* replaceFile, or the removal of DeleteFile.
ClientInstall(i) ==
  LET d == client[i].dev
      op == client[i].op
  IN
  /\ op # NoOp
  /\ disk' = [disk EXCEPT ![d][op.path] = op.hash]
  /\ client' = [client EXCEPT ![i].op = NoOp]
  /\ UNCHANGED <<store, locked, status, server, toServer, toClient, edits, seen>>

ClientReceived(i) ==
  /\ client[i].pc = "receive"
  /\ client[i].op = NoOp
  /\ client[i].plan.clientDeletes = {} /\ client[i].plan.serverSends = {}
  /\ Heads(toClient[i], "transfers_done")

\* The final scan, conflict records, and the acknowledgement.
ClientFinish(i) ==
  LET d == client[i].dev
      plan == client[i].plan
  IN
  /\ ClientReceived(i)
  /\ ReadByClient(i)
  /\ Cache(d, Scan(d))
  /\ conflicts' = [conflicts EXCEPT ![d] =
                     AutoResolve(SavePlanConflicts(@, plan.conflicts), Scan(d))]
  /\ ToServer(i, [type |-> "ack", manifest |-> Scan(d)])
  /\ client' = [client EXCEPT ![i].pc = "ack", ![i].plan = EmptyPlan, ![i].final = Scan(d)]
  /\ UNCHANGED <<disk, history, baseline, locked, status, server, edits, seen>>

ClientCommit(i) ==
  LET d == client[i].dev IN
  /\ client[i].pc = "ack"
  /\ Heads(toClient[i], "result")
  /\ ReadByClient(i)
  /\ baseline' = [baseline EXCEPT ![d] = client[i].final]
  /\ SetStatus(d, "synced")
  /\ Unlock(d)
  /\ ClientBecomes(i, "done")
  /\ UNCHANGED <<disk, history, objects, conflicts, server, toServer, edits, seen>>

\* What the client has stored when it fails in the middle of a step.
ClientWrote(i) ==
  LET d == client[i].dev IN
  \/ UNCHANGED <<objects, conflicts>>
  \/ client[i].pc = "hello" /\ Heads(toClient[i], "challenge") /\ CacheFails(d)
  \/ client[i].pc = "request" /\ Heads(toClient[i], "plan")
       /\ MarkFails(d, Head(toClient[i]).resolved)
  \/ ClientReceived(i) /\ (CacheFails(d) \/ SaveFails(d, client[i].plan.conflicts))

\* syncFailed, from any point of the session.
ClientFails(i) ==
  LET d == client[i].dev IN
  /\ ClientRunning(i)
  /\ client' = [client EXCEPT ![i].pc = "failed", ![i].plan = EmptyPlan, ![i].op = NoOp]
  /\ SetStatus(d, "error")
  /\ Unlock(d)
  /\ toClient' = [toClient EXCEPT ![i] = <<>>]
  /\ ClientWrote(i)
  /\ UNCHANGED <<disk, history, baseline, server, toServer, edits, seen>>

\* What leaves the client no other way: the connection is at its end, the
\* bytes received are not the planned ones, or a file to send is gone or new.
ClientStuck(i) ==
  \/ ServerEnded(i) /\ toClient[i] = <<>>
  \/ Heads(toClient[i], "file") /\ Head(toClient[i]).data # Head(toClient[i]).transfer.hash
  \/ client[i].pc = "upload" /\ \E t \in client[i].plan.clientSends :
       disk[client[i].dev][t.source] # t.hash

-----------------------------------------------------------------------------
(* The server: handleConnection, operation "sync"                          *)

ServerHello(i) ==
  /\ server[i].pc = "idle"
  /\ Heads(toServer[i], "hello")
  /\ ReadByServer(i)
  /\ ToClient(i, [type |-> "challenge"])
  /\ server' = [server EXCEPT ![i].pc = "challenge"]
  /\ UNCHANGED <<disk, store, locked, status, client, edits, seen>>

\* The ids are marked before the lock is tried.
ServerBusy(i) ==
  LET d == ServerDev(i) IN
  /\ server[i].pc = "challenge"
  /\ Heads(toServer[i], "sync_request")
  /\ locked[d]
  /\ conflicts' = [conflicts EXCEPT ![d] = MarkResolved(@, Head(toServer[i]).resolved)]
  /\ server' = [server EXCEPT ![i].pc = "busy"]
  /\ toServer' = [toServer EXCEPT ![i] = <<>>]
  /\ UNCHANGED <<disk, history, objects, baseline, locked, status, client, toClient, edits, seen>>

ServerPlan(i) ==
  LET d == ServerDev(i)
      request == Head(toServer[i])
      plan == BuildPlan(Scan(d), request.manifest, baseline[d], i)
      marked == MarkResolved(conflicts[d], request.resolved)
  IN
  /\ server[i].pc = "challenge"
  /\ Heads(toServer[i], "sync_request")
  /\ TryLock(d)
  /\ SetStatus(d, "syncing")
  /\ ReadByServer(i)
  /\ conflicts' = [conflicts EXCEPT ![d] = marked]
  /\ Cache(d, Scan(d))
  /\ ToClient(i, [type |-> "plan", plan |-> plan, resolved |-> ResolvedIds(marked)])
  /\ server' = [server EXCEPT ![i].pc = "receive", ![i].plan = plan]
  /\ seen' = [seen EXCEPT ![i].server = Scan(d), ![i].base = baseline[d]]
  /\ UNCHANGED <<disk, history, baseline, client, edits>>

ServerReceive(i) ==
  LET frame == Head(toServer[i]) IN
  /\ server[i].pc = "receive"
  /\ server[i].op = NoOp
  /\ Heads(toServer[i], "file")
  /\ frame.transfer \in server[i].plan.clientSends
  /\ frame.data = frame.transfer.hash
  /\ ReadByServer(i)
  /\ Archive(ServerDev(i), frame.transfer.dest)
  /\ server' = [server EXCEPT
                  ![i].plan.clientSends = @ \ {frame.transfer},
                  ![i].op = [path |-> frame.transfer.dest, hash |-> frame.data]]
  /\ UNCHANGED <<disk, objects, baseline, conflicts, locked, status, client, toClient, edits, seen>>

ServerUploadsDone(i) ==
  /\ server[i].pc = "receive"
  /\ server[i].op = NoOp
  /\ server[i].plan.clientSends = {}
  /\ Heads(toServer[i], "uploads_done")
  /\ ReadByServer(i)
  /\ server' = [server EXCEPT ![i].pc = "send"]
  /\ UNCHANGED <<disk, store, locked, status, client, toClient, edits, seen>>

ServerDelete(i, p) ==
  /\ server[i].pc = "send"
  /\ server[i].op = NoOp
  /\ p \in server[i].plan.serverDeletes
  /\ Archive(ServerDev(i), p)
  /\ server' = [server EXCEPT ![i].plan.serverDeletes = @ \ {p},
                              ![i].op = [path |-> p, hash |-> NoFile]]
  /\ UNCHANGED <<disk, objects, baseline, conflicts, locked, status, client,
                 toServer, toClient, edits, seen>>

ServerInstall(i) ==
  LET d == ServerDev(i)
      op == server[i].op
  IN
  /\ op # NoOp
  /\ disk' = [disk EXCEPT ![d][op.path] = op.hash]
  /\ server' = [server EXCEPT ![i].op = NoOp]
  /\ UNCHANGED <<store, locked, status, client, toServer, toClient, edits, seen>>

ServerSend(i, t) ==
  LET d == ServerDev(i) IN
  /\ server[i].pc = "send"
  /\ server[i].op = NoOp
  /\ server[i].plan.serverDeletes = {}
  /\ t \in server[i].plan.serverSends
  /\ disk[d][t.source] # NoFile
  /\ ToClient(i, [type |-> "file", transfer |-> t, data |-> disk[d][t.source]])
  /\ server' = [server EXCEPT ![i].plan.serverSends = @ \ {t}]
  /\ UNCHANGED <<disk, store, locked, status, client, toServer, edits, seen>>

ServerTransfersDone(i) ==
  /\ server[i].pc = "send"
  /\ server[i].op = NoOp
  /\ server[i].plan.serverDeletes = {} /\ server[i].plan.serverSends = {}
  /\ ToClient(i, [type |-> "transfers_done"])
  /\ server' = [server EXCEPT ![i].pc = "ack"]
  /\ UNCHANGED <<disk, store, locked, status, client, toServer, edits, seen>>

\* The acknowledgement is in: scan again, save the records, and compare the
\* two final manifests; the round fails unless they are equal.
ServerRescan(i) ==
  LET d == ServerDev(i) IN
  /\ server[i].pc = "ack"
  /\ Heads(toServer[i], "ack")
  /\ ReadByServer(i)
  /\ Cache(d, Scan(d))
  /\ conflicts' = [conflicts EXCEPT ![d] =
                     AutoResolve(SavePlanConflicts(@, server[i].plan.conflicts), Scan(d))]
  /\ \/ /\ ManifestsEqual(Scan(d), Head(toServer[i]).manifest)
        /\ server' = [server EXCEPT ![i].pc = "commit", ![i].plan = EmptyPlan,
                                    ![i].final = Scan(d)]
        /\ UNCHANGED <<locked, status>>
     \/ /\ ~ManifestsEqual(Scan(d), Head(toServer[i]).manifest)
        /\ server' = [server EXCEPT ![i].pc = "failed", ![i].plan = EmptyPlan]
        /\ SetStatus(d, "error")
        /\ Unlock(d)
  /\ UNCHANGED <<disk, history, baseline, client, toClient, edits, seen>>

\* Mutant: the manifest of the first scan becomes the baseline.
ServerCommitFirstScan(i) ==
  /\ server[i].pc = "commit"
  /\ baseline' = [baseline EXCEPT ![ServerDev(i)] = seen[i].server]
  /\ server' = [server EXCEPT ![i].pc = "result"]
  /\ UNCHANGED <<disk, history, objects, conflicts, locked, status, client,
                 toServer, toClient, edits, seen>>

ServerCommit(i) ==
  /\ server[i].pc = "commit"
  /\ baseline' = [baseline EXCEPT ![ServerDev(i)] = server[i].final]
  /\ server' = [server EXCEPT ![i].pc = "result"]
  /\ UNCHANGED <<disk, history, objects, conflicts, locked, status, client,
                 toServer, toClient, edits, seen>>

ServerResult(i) ==
  LET d == ServerDev(i) IN
  /\ server[i].pc = "result"
  /\ ToClient(i, [type |-> "result"])
  /\ server' = [server EXCEPT ![i].pc = "done"]
  /\ SetStatus(d, "synced")
  /\ Unlock(d)
  /\ UNCHANGED <<disk, store, client, toServer, edits, seen>>

\* What the server has stored when it returns early, and the status it leaves:
\* none before it has the lock, nor when only the result could not be written.
\* Between TryLock and the plan it has the request's ids marked already.
ServerWrote(i) ==
  LET d == ServerDev(i)
      request == Head(toServer[i])
      Requested == server[i].pc = "challenge" /\ Heads(toServer[i], "sync_request")
  IN
  \/ /\ UNCHANGED <<objects, conflicts>>
     /\ IF ServerHolds(i) /\ server[i].pc # "result" THEN SetStatus(d, "error")
                                                       ELSE UNCHANGED status
  \/ Requested /\ MarkFails(d, request.resolved) /\ UNCHANGED status
  \/ /\ Requested /\ ~locked[d]
     /\ \E some \in SUBSET Contents(Scan(d)) : objects' = [objects EXCEPT ![d] = @ \cup some]
     /\ conflicts' = [conflicts EXCEPT ![d] = MarkResolved(@, request.resolved)]
     /\ SetStatus(d, "error")
  \/ /\ server[i].pc = "ack" /\ Heads(toServer[i], "ack")
     /\ CacheFails(d) \/ SaveFails(d, server[i].plan.conflicts)
     /\ SetStatus(d, "error")

\* The handler returns early, wherever it is.
ServerFails(i) ==
  LET d == ServerDev(i) IN
  /\ client[i].pc # "idle"
  /\ ~ServerEnded(i)
  /\ server' = [server EXCEPT ![i].pc = IF @ = "result" THEN "unsent" ELSE "failed",
                              ![i].plan = EmptyPlan, ![i].op = NoOp]
  /\ ServerWrote(i)
  /\ IF ServerHolds(i) THEN Unlock(d) ELSE UNCHANGED locked
  /\ toServer' = [toServer EXCEPT ![i] = <<>>]
  /\ UNCHANGED <<disk, history, baseline, client, toClient, edits, seen>>

ServerStuck(i) ==
  \/ ClientEnded(i) /\ toServer[i] = <<>>
  \/ Heads(toServer[i], "file") /\ Head(toServer[i]).data # Head(toServer[i]).transfer.hash
  \/ server[i].pc = "send" /\ \E t \in server[i].plan.serverSends :
       disk[ServerDev(i)][t.source] # t.hash

-----------------------------------------------------------------------------
(* The users                                                               *)

\* Session i has archived the file at p of device d and not replaced it yet.
Replacing(i, d, p) ==
  \/ client[i].dev = d /\ client[i].op.path = p
  \/ ServerDev(i) = d /\ server[i].op.path = p

Edit(d, p, v) ==
  /\ edits < MaxEdits
  /\ p \in Name \/ v = NoFile
  /\ disk[d][p] # v
  /\ disk' = [disk EXCEPT ![d][p] = v]
  /\ edits' = edits + 1
  /\ seen' = [i \in Session |-> IF Live(i) THEN [seen[i] EXCEPT !.quiet = FALSE] ELSE seen[i]]
  /\ late' = [i \in Session |-> late[i] \cup {x \in {<<d, p>>} : Replacing(i, d, p)}]
  /\ UNCHANGED <<store, locked, status, client, server, toServer, toClient, cut>>

-----------------------------------------------------------------------------
(* The specification                                                       *)

\* Both devices hold a common baseline (empty before the first round), and
\* their users have since changed what they liked.
Init ==
  /\ disk \in [Device -> {f \in Folder : \A p \in Path \ Name : f[p] = NoFile}]
  /\ \E b \in Folder : /\ \A p \in Path \ Name : b[p] = NoFile
                       /\ baseline = [d \in Device |-> b]
  /\ history = [d \in Device |-> {}]
  /\ objects = [d \in Device |-> {}]
  /\ conflicts = [d \in Device |-> {}]
  /\ locked = [d \in Device |-> FALSE]
  /\ status = [d \in Device |-> "idle"]
  /\ client = [i \in Session |-> [pc |-> "idle", dev |-> A, plan |-> EmptyPlan,
                                  op |-> NoOp, final |-> EmptyFolder]]
  /\ server = [i \in Session |-> [pc |-> "idle", plan |-> EmptyPlan, op |-> NoOp,
                                  final |-> EmptyFolder]]
  /\ toServer = [i \in Session |-> <<>>]
  /\ toClient = [i \in Session |-> <<>>]
  /\ edits = 0
  /\ seen = [i \in Session |-> [client |-> EmptyFolder, server |-> EmptyFolder,
                                base |-> EmptyFolder, quiet |-> TRUE]]
  /\ late = [i \in Session |-> {}]
  /\ cut = [i \in Session |-> FALSE]

ClientStep(i) ==
  /\ \/ ClientScan(i) \/ ClientPlan(i)
     \/ \E t \in client[i].plan.clientSends : ClientSend(i, t)
     \/ ClientUploadsDone(i)
     \/ \E p \in client[i].plan.clientDeletes : ClientDelete(i, p)
     \/ ClientReceive(i) \/ ClientInstall(i) \/ ClientFinish(i) \/ ClientCommit(i)
     \/ ClientStuck(i) /\ ClientFails(i)
  /\ UNCHANGED <<late, cut>>

ServerStep(i) ==
  /\ \/ ServerHello(i) \/ ServerBusy(i) \/ ServerPlan(i)
     \/ ServerReceive(i) \/ ServerUploadsDone(i)
     \/ \E p \in server[i].plan.serverDeletes : ServerDelete(i, p)
     \/ ServerInstall(i)
     \/ \E t \in server[i].plan.serverSends : ServerSend(i, t)
     \/ ServerTransfersDone(i) \/ ServerRescan(i) \/ ServerCommit(i) \/ ServerResult(i)
     \/ ServerStuck(i) /\ ServerFails(i)
  /\ UNCHANGED <<late, cut>>

Fault(i) ==
  /\ Faults
  /\ ClientFails(i) \/ ServerFails(i)
  /\ cut' = [cut EXCEPT ![i] = TRUE]
  /\ UNCHANGED late

Next ==
  \/ \E i \in Session, d \in Device : Dial(i, d)
  \/ \E i \in Session : ClientStep(i) \/ ServerStep(i) \/ Fault(i)
  \/ \E d \in Device, p \in Path, v \in File : Edit(d, p, v)

Spec == Init /\ [][Next]_vars

\* A goroutine that can go on does: Go schedules every runnable goroutine.
\* Nothing obliges a device to dial, a user to edit or a fault to happen.
Fairness == \A i \in Session : WF_vars(ClientStep(i)) /\ WF_vars(ServerStep(i))
FairSpec == Spec /\ Fairness

-----------------------------------------------------------------------------
(* Safety                                                                  *)

\* docs/architecture.md, "组件": inbound and outbound sessions of one space
\* never change files at the same time.  Each device runs at most one session
\* past its TryLock, in whatever role, though the lock is a plain mutex that
\* every return has to free and no handler checks who holds it.
ClientHolders(d) == {<<i, "client">> : i \in {j \in Session : client[j].dev = d /\ ClientRunning(j)}}
ServerHolders(d) == {<<i, "server">> : i \in {j \in Session : ServerDev(j) = d /\ ServerHolds(j)}}
Holders(d) == ClientHolders(d) \cup ServerHolders(d)

OneSessionAtATime ==
  \A d \in Device :
    /\ \A x, y \in Holders(d) : x = y
    /\ Holders(d) # {} <=> locked[d]

\* A device stores as its baseline only the manifest that both devices of one
\* session found at their final scans, and the client only what the server
\* has stored: no fault, edit or overlapping session changes that.
CommonBaselineOnly ==
  [][\A d \in Device : baseline'[d] # baseline[d] =>
       \E i \in Session :
         /\ d \in {client[i].dev, ServerDev(i)}
         /\ server[i].pc = IF d = client[i].dev THEN "done" ELSE "commit"
         /\ client[i].final = baseline'[d] /\ server[i].final = baseline'[d]]_vars

\* A session during which nobody edits does exactly what AtomicRounds does in
\* one step: when the server commits, each folder is its scanned manifest
\* with the whole plan carried out, and the two are the committed baseline.
QuietRoundIsAtomic ==
  [][\A i \in Session :
       server[i].pc = "commit" /\ server'[i].pc = "result" /\ seen[i].quiet =>
         LET plan == BuildPlan(seen[i].server, seen[i].client, seen[i].base, i)
             d == client[i].dev
             e == ServerDev(i)
         IN /\ disk[d] = Installed(seen[i].client, plan.serverSends, plan.clientDeletes)
            /\ disk[e] = Installed(seen[i].server, plan.clientSends, plan.serverDeletes)
            /\ baseline'[e] = disk[d] /\ disk[d] = disk[e]]_vars

\* What a session takes off a disk is in the archive of the device, whatever
\* other sessions, faults and edits there are, unless its user wrote it into
\* the path after the session had archived that path: archiveExisting and
\* replaceFile are two steps (files.go:103-106).
ArchivedBeforeOverwritten ==
  [][\A d \in Device, p \in Path :
       disk'[d][p] # disk[d][p] /\ edits' = edits =>
         \/ disk[d][p] = NoFile \/ <<p, disk[d][p]>> \in history[d]
         \/ \E i \in Session : Replacing(i, d, p) /\ <<d, p>> \in late[i]]_vars

\* The two versions of a conflict can be shown and chosen on both devices:
\* when a session without edits saves a record, the object store of the
\* device has both contents, also the one that came from the other device,
\* and also if the session fails right after.
Finishing(i, d) ==
  \/ d = client[i].dev /\ client[i].pc = "receive" /\ client'[i].pc # "receive"
  \/ d = ServerDev(i) /\ server[i].pc = "ack" /\ server'[i].pc # "ack"

ConflictVersionsCached ==
  [][\A i \in Session, d \in Device :
       Finishing(i, d) /\ seen[i].quiet =>
         \A r \in conflicts'[d] \ conflicts[d] :
           r.status = "pending" => {r.id.server, r.id.client} \ {NoFile} \subseteq objects'[d]]_vars

\* The two sides never wait for each other: whoever is blocked on a read or a
\* full connection has a peer that can go on, has ended, or has sent to it.
ClientWaits(i) ==
  \/ client[i].pc \in {"hello", "request", "ack"} /\ toClient[i] = <<>>
  \/ client[i].pc = "receive" /\ client[i].op = NoOp
       /\ client[i].plan.clientDeletes = {} /\ toClient[i] = <<>>
  \/ client[i].pc = "upload" /\ ~CanWrite(toServer[i], ServerEnded(i))
ServerWaits(i) ==
  \/ server[i].pc \in {"idle", "challenge", "ack"} /\ toServer[i] = <<>>
  \/ server[i].pc = "receive" /\ server[i].op = NoOp /\ toServer[i] = <<>>
  \/ server[i].pc = "send" /\ server[i].op = NoOp
       /\ server[i].plan.serverDeletes = {} /\ ~CanWrite(toClient[i], ClientEnded(i))
  \/ server[i].pc = "result" /\ ~CanWrite(toClient[i], ClientEnded(i))

NoMutualWait == \A i \in Session : ~(ClientWaits(i) /\ ServerWaits(i))

-----------------------------------------------------------------------------
(* Liveness                                                                *)

\* Every session comes to an end on both devices, whatever fails and whatever
\* the users do meanwhile; its locks are released where it ends.
SessionEnds == \A i \in Session : client[i].pc = "hello" ~> ClientEnded(i) /\ ServerEnded(i)

\* A session is committed on both devices unless a fault ends one of its sides,
\* a user edits a file meanwhile, or the other device is in a session of its
\* own; also one that starts from what a failed one has left.
QuietRoundCompletes ==
  \A i \in Session :
    client[i].pc = "hello" ~>
      \/ client[i].pc = "done" /\ server[i].pc = "done"
      \/ server[i].pc = "busy" \/ ~seen[i].quiet \/ cut[i]

-----------------------------------------------------------------------------
(* What the documents say, and the code does not do                        *)

\* docs/architecture.md:75: an interrupted connection does not advance the
\* baseline; :23: it is the files of the last successful sync in common.
BaselinesAgree ==
  (\A i \in Session : ~Live(i)) => baseline[A] = baseline[B]

\* README.md:99: before a remote change overwrites or deletes a file, the old
\* content is put into history/.
OldContentInHistory ==
  [][\A d \in Device, p \in Path :
       disk'[d][p] # disk[d][p] /\ edits' = edits =>
         disk[d][p] = NoFile \/ <<p, disk[d][p]>> \in history[d]]_vars
=============================================================================
