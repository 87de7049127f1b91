# A TLA+ model of PolySync

PolySync keeps folders of paired devices in a LAN in sync and sends one-off
files between them, without a server. This directory holds a model of the parts
of it in which order, failure and concurrency decide whether files survive: the
three-way planner, the sync session between two devices, conflicts and what users
decide about them, the pairing of devices,
the agreement on a shared folder, the manager of one-off transfers, and the
transfer between two devices. TLC checks the model on small instances. TLAPS
proves the central properties of planner, session, conflicts, pairing, sharing and
transfer for every number of paths, files, contents, sessions, calls, edits and faults.

Contents: [inventory](#1-inventory), [modules](#2-modules),
[runs](#3-what-the-runs-check), [divergences](#4-where-code-and-documents-differ),
[proofs](#5-what-is-proved), [left out](#6-what-is-not-modelled-and-why),
[plan](#7-plan), [how to run](#8-running-it).

## 1. Inventory

| component | state it keeps | operations | talks to |
| --- | --- | --- | --- |
| planner (`internal/syncer/planner.go`) | none | `BuildPlan` from two manifests and a baseline | called by the server side of a session |
| session (`internal/service/tcp.go`) | per share: mutex, status; per connection: where the handler is | `SyncShare` (client), `handleConnection` (server) | the peer by frames; scanner, planner, file operations, store |
| scanner (`internal/syncer/scanner.go`) | none | `Scan`: a manifest of a folder | reads the folder users write to |
| file operations (`internal/syncer/files.go`) | the folder, `history/` | `SendFile`, `ReceiveFile`, `DeleteFile`, `archiveExisting`, `replaceFile` | the folder, frames |
| conflicts (`internal/service/conflicts.go`) | conflict records, object store | save, auto-resolve and mark resolved in a session; `ResolveConflict` by the user | store, folder, sessions |
| store (`internal/store/store.go`) | configuration, baselines, objects, conflict records | load and save, each by a temporary file and a rename | everything |
| service (`internal/service/service.go`) | locks, statuses, timers, wait group | start, stop, add and remove shares, `autoLoop` | session, transfers |
| pairing (`internal/service/pairing.go`) | pending requests and outbound sessions in memory; paired devices in the configuration | `StartPairing`, `ConfirmPairing`, approve, reject; `handlePairRequest`, `handlePairConfirm` | peer, user, store |
| sharing (`internal/service/sharing.go`, parts of `api.go`) | invitations, pending and active shares | invite, accept, activate, edit, delete | peer, user, store |
| transfer manager (`internal/service/transfer_store.go`) | tasks and cancel functions in memory; a record and a directory per task | `create`, `bind`, `update`, `progress`, `fileDone`, `finish`, `Cancel`, `Remove`, `load` | transfer workers, user |
| transfer workers (`internal/service/transfers.go`) | the goroutine's place in its loop | upload, retry, send, receive, idle timer | browser, peer, manager |
| web API, tray, discovery, identity, framing, command line, web pages | views, requests, keys, addresses | | the components above |

What is hard in each, and the property that states it:

* **Planner.** Eight combinations of present, absent and changed fall through one
  ordered switch, and a conflict needs two transfers whose order matters. A wrong
  row loses a version or undoes a deletion (`VersionsSurvive`,
  `RoundFollowsTable`); a plan that leaves the folders apart can never be
  committed, on any retry (`RoundConverges`).
* **Session.** Two goroutines on two devices execute one plan over a connection;
  either device may dial, so two sessions can meet in opposite directions. Users
  edit meanwhile; either side can fail between any two steps. Locks must exclude
  (`OneSessionAtATime`), the sides must not wait for each other (`NoMutualWait`),
  every session must end and free its lock (`SessionEnds`), baselines must be common
  (`CommonBaselineOnly`), what is replaced must be archived, but for a write in
  between (`ArchivedBeforeOverwritten`), and a quiet round must do what the plan says
  (`QuietRoundIsAtomic`) and, without a fault, complete (`QuietRoundCompletes`).
* **Conflicts.** Records on two devices name contents that only a later scan puts
  into the object store (`ConflictVersionsCached`). A round writes a found conflict
  over what was recorded before, also over a decision; `ResolveConflict` takes no
  lock, so rounds run between its steps; a round may break off with files in place
  and records or baseline unsaved. All the same a conflict must be open on both
  devices with both versions on disk (`ConflictsQueued`), a decision must reach the
  other device (`ResolutionSpreads`), and the two consoles must not contradict each
  other (`StatusAgrees`, which names the one case in which they do).
* **Transfers.** A task is changed by requests, by its worker, by a timer and by
  the end of the service, and lives in memory, in a record and in a directory.
  A worker must have its task to itself (`WorkersOwnTheirTasks`), a cancelled
  upload must not go on as a sender (`CancelledUploadStays`), an ended task stays
  ended and leaves no partial file (`NoRevival`, `EndedTasksAreClean`), what is
  recorded must be on disk at every moment (`StoredFilesExist`), limits must hold
  (`SpaceSuffices`), and cancelling must work against a peer that
  never answers (`CancelEnds`, `IdleTaskEnds`).

* **A transfer.** Two goroutines on two devices follow one order of frames, and
  plain results are told apart by nothing but that order. Each has a task of its
  own, which users cancel or remove, restarts interrupt and full disks leave
  behind. The sender may say "complete" of a file or of the whole only when the
  receiver has it on disk and on record, whatever happens to either afterwards
  (`ImplementsDelivery`, `ConfirmedFilesKept`); neither may hang on the other
  (`BothEnd`), and nothing but a disturbance may make a transfer fail
  (`UndisturbedCompletes`).

* **Pairing.** A handler judges a copy of the request after it has released the
  lock, several confirmations of a request can be under way, and the two devices
  record the pairing one after the other. No device may be paired without an
  approval (`PairedByApproval`), guesses must be limited also when they arrive at
  once (`FewGuesses`), a pairing that was reported must be on both devices
  (`ConfirmedIsMutual`), and expiry, rejection and wrong codes must leave none
  paired alone (`OneSidedOnlyIfDisturbed`).

* **Sharing.** Two devices have to end with the same view of a share though each
  stores its own first and asks afterwards. A failed attempt must leave nothing
  (`HalfDoneIsUndone`), its clean-up must not hit another attempt
  (`AcceptedKept`), a pending share must stay acceptable (`PendingCanBeAccepted`),
  and undisturbed calls end in agreement (`ActiveTogether`).

`PROJECT.json` lists the hazards line by line, also those no property covers yet.

## 2. Modules

| module | models | extends |
| --- | --- | --- |
| `ThreeWayPlan` | `planner.go`: `Decision` is the switch, `BuildPlan` the plan, `Installed` a folder after a plan | |
| `AtomicRounds` | what a round promises: the whole plan in one step, edits between rounds | `ThreeWayPlan` |
| `ConflictRecords` | the records of one device in `conflicts.go`, and what a round does to them | `ThreeWayPlan` |
| `ConflictResolution` | rounds that exchange and save records and may break off, and `ResolveConflict` between and across them | `AtomicRounds`, `ConflictRecords` |
| `SyncSession` | `tcp.go`, and the parts of `files.go`, `conflicts.go`, `store.go`, `service.go` a session calls | `ConflictRecords` |
| `TransferManager` | `transfer_store.go`, `transfers.go`, and the stop and start of `service.go` | |
| `TransferDelivery` | what a transfer promises its two users: the abstract specification of `TransferSession` | |
| `TransferSession` | `sendTransfer`, `handleTransfer`, `receiveTransfer` of `transfers.go` against each other, with the task of either device | instantiates `TransferDelivery` |
| `Pairing` | `pairing.go`, the paired devices of `store.go` | |
| `Sharing` | `sharing.go`, update and removal of shares in `api.go`, the lists of shares and invitations in `store.go` | |
| `MCConflictResolution`, `MCSyncSession`, `MCTransferManager`, `MCTransferSession`, `MCPairing`, `MCSharing` | small instances for TLC | |
| `ThreeWayPlan_proofs`, `AtomicRounds_proofs`, `ConflictResolution_proofs`, `SyncSession_proofs`, `Sharing_proofs`, `TransferManager_proofs`, `TransferSession_proofs`, `Pairing_proofs` | theorems | the module of the name, TLAPS |

### ThreeWayPlan and AtomicRounds

A folder is a function from every path to a hash or to `NoFile`; absence is a
value, as in the code, where a missing map entry is compared through its zero
hash. `ConflictName` stands for the name built from path, device, time and hash;
its assumption is that it names a path, and in `AtomicRounds` that users do not
write files of that name and that two conflicts do not share it.

`AtomicRounds` is the abstract specification: one step installs the plan on both
devices and makes the server's folder the baseline. `SyncSession` relates to it
by `QuietRoundIsAtomic`: a session in which nobody edits ends, at its commit, in
the folders of one such step from what it had scanned. An edit in the middle of a
session has no counterpart in an atomic round, so the refinement is stated for
quiet sessions only.

### ConflictRecords and ConflictResolution

| code | definitions |
| --- | --- |
| `savePlanConflicts`, `autoResolveConflicts` | `SavePlanConflicts`, `AutoResolve`; both after the final scan in `Saved` |
| `resolvedConflictIDs`, `markConflictsResolved` | `ResolvedIds`, `MarkResolved`; `ServerMarks` from the client's ids, then `ClientMarks` from the server's |
| `ResolveConflict` | `Ask` (up to the check of the status), `WriteChoice`, `DeleteCopy`, `SaveResolved`, `Abandon` |
| a session | `FullRound`, `BreaksOff` |
| users | `UserEdit` |

`ConflictResolution` adds to `AtomicRounds` what the two devices record. A round is
one step, since what happens inside one is `SyncSession`'s subject; the calls of
`ResolveConflict` are not, since they take no lock: a whole round, or several, may
pass between the file a user's choice writes and the record that says so, and the
record is saved as it was read before. Sessions are numbered in the order they
run, `edits` counts what users do over all rounds, and a call of `ResolveConflict`
counts as an edit. A round breaks off with all its files in
place and its baseline not stored, before either device has saved records, after
the client has, or after both. A record's id leaves out the copy's name, as in the
code, so a conflict found again is the same record with another copy.
`changed` is a history variable for `DecisionStands` alone.

### SyncSession

One action per stretch of code between two reads or writes of the connection;
within them, everything the code does, in its order.

| code | actions |
| --- | --- |
| `SyncShare` | `Dial` (TryLock, status, hello), `ClientScan`, `ClientPlan`, `ClientSend`, `ClientUploadsDone`, `ClientDelete`, `ClientReceive`, `ClientInstall`, `ClientFinish`, `ClientCommit`, `ClientFails` |
| `handleConnection` | `ServerHello`, `ServerBusy`, `ServerPlan`, `ServerReceive`, `ServerUploadsDone`, `ServerDelete`, `ServerInstall`, `ServerSend`, `ServerTransfersDone`, `ServerRescan`, `ServerCommit`, `ServerResult`, `ServerFails` |
| users | `Edit` |

`ReceiveFile` and `DeleteFile` are two steps each, up to the archiving and the
replacement, because users write between them. `ServerCommit` and `ServerResult`
are two steps, because the connection may fail between storing the baseline and
sending the result. A side that fails leaves what it has written so far: `CacheFails`,
`MarkFails` and `SaveFails` are the three loops over objects, marks and records that
may stop in the middle, `ClientWrote` and `ServerWrote` say in which step each may, and
which status is left. `clientSends`, `serverSends` and the deletes of a plan are
consumed in any order: the code's order is that of the sorted plan, and no
property depends on it. Frames are kept in two bounded queues; a write waits for
room, as a TCP write does. A side that has ended reads nothing more, and writing
to it succeeds and is lost. A fault is the early return of one side; a crash of a
device is that of every side it runs, since the lock is in memory.

`client[i]` and `server[i]` hold the local variables of the two functions that
outlive a step. History variables are `seen[i]` (what the session scanned, and
whether anyone edited), `late[i]` (the files users wrote between their archiving and
their replacement) and `cut[i]` (whether a fault has ended a side of the session).

### TransferManager

Every method of the manager runs under its mutex and is one step. Workers are
goroutines: `work[w].pc` says where in `UploadTransfer`, `sendTransfer` or
`handleTransfer`/`receiveTransfer` it is.

| code | definitions |
| --- | --- |
| `create`, `transferFreeSpace` | `Admits`, `Fresh`, `Create` |
| `update`, `fileDone`, `persistLocked` | `Update`, `FileDone`, `Persist`, `PersistFails` |
| `bind`, `finish`, `cleanIncompleteLocked` | `Bind`, `BindFails`, `Finish`, `Clean` |
| `Cancel`, `Remove`, `load` | `Cancel`, `Remove`, `Start` |
| `CreateTransfer` and its timer | `CreateTransfer`, `IdleCheck`, `IdleCancel` |
| `UploadTransfer`, `RetryTransfer`, `startSendTransfer` | `UploadTransfer`, `RetryTransfer`, `WriteFile`, `RenameFile`, `StartSend` |
| `sendTransfer` | `SendAccepted`, `SendFile`, `SendVerify`, `Succeeds` |
| `handleTransfer`, `receiveTransfer` | `Offer`, `WriteFile`, `RenameFile`, `Succeeds`, `FinishWork` |
| every `return err` of a worker | `Breaks` |
| `Service.Stop`, the end of the process, `Service.Start` | `Stop`, `Exit`, `Start` |

Peer and browser are the environment. What a worker waits for from them
(`PeerStep`) may happen or not; what it does alone (`LocalStep`) is fair. The
timer checks and cancels in two steps, as the code does. The record on disk is
apart from the task in memory: `progress` changes only memory, and a failed
`persistLocked` leaves memory changed and the record behind. `Exit` may come at
any moment and covers both a crash and the end of an orderly `Stop`; memory is
then gone, and `Start` reads the records back.

### TransferDelivery and TransferSession

`TransferManager` has one device and many tasks, with the peer left to chance;
`TransferSession` has one transfer and both devices. It starts where
`startSendTransfer` has started its goroutine.

| code | actions |
| --- | --- |
| `sendTransfer` | `Dial`, `SendOffer`, `Accepted`, `SendFile`, `FileConfirmed`, `AskVerify`, `Confirmed`, `SenderRefused`, `SenderFails` |
| the goroutine's `finish` | `SenderFinishes` |
| `handleTransfer` | `ReceiveHello`, `ReceiveOffer`, `RefuseOffer`, `Bind`, `BindFails`, `ReceiverFinishes`, `Acknowledge` |
| `receiveTransfer` | `Bind` (its first frame), `ReceiveFile`, `RefuseFile`, `FileStored`, `AllReceived`, `ReceiverFails` |
| a closed connection, a deadline | `SenderStuck`, `ReceiverStuck`, `CancelledReturns` |
| `Cancel`, `Remove`, the end of the process and `load` | `Cancel`, `Remove`, `Restart` |

`results` is a sequence of Booleans, because that is all the sender looks at.
`Finish`, `Persist`, `PersistFails` and `Clean` are the manager's methods for a
task of either side. A changed source file is sent to its last byte, found out by
its hash, and refused by the receiver for the same reason (`SendFile("changed")`,
`RefuseFile`). `FileStored` has three outcomes: recorded and confirmed, recorded
and the confirmation lost, not recorded.

`TransferDelivery` knows neither frames nor records: what the sender says (`sent`,
`confirmed`), what the receiver has recorded and holds (`received`, `kept`), and in
which order these may change. The refinement mapping takes the sender's task in
memory, since that is what its user is shown, and the receiver's record and
directory, since they outlive a crash: a file counts as kept when its content is
as uploaded and its record says so. `Forget` is there because a sender that
restarts reads an older record; `Drop` may add a file, because a record that could
not be written for one file is written with it at the end of the task.

### Pairing

| code | actions |
| --- | --- |
| `StartPairing` | `StartPairing`, `ReadChallenge`, `StartFails` |
| `handlePairRequest` | `HandlePairRequest` |
| `ApprovePairingRequest`, `RejectPairingRequest`, `PairingRequests` | `Approve`, `Discard` |
| `ConfirmPairing` | `ConfirmPairing`, `ReadResult`, `ClientSaves`, `ClientForgets`, `ClientLost` |
| `handlePairConfirm` | `ServerCounts` (under the lock), `ServerJudges` (on the copy), `ServerSaves`, `ServerReplies`, `ServerForgets`, `ConfirmLost` |
| `SavePairedDevice` | `SavePairedDevice`, `SaveFails`; `SaveConfig` is any other save of the configuration |
| clocks, the process | `ExpireRequest`, `ExpireSession`, `Restart` |

A request has one id in the model, for the request and for the session made of
its challenge. `paired` is the list in memory and `recorded` that of
`config.json`: `SavePairedDevice` changes the list before it writes, so that a
failed write leaves the device paired until the next restart or, if another
change saves the configuration first, for good. `seen` is the handler's copy, and
the deadline in it passes with that of the request. `calls` holds one connection
each, whose two ends fail apart. `approved`, `compared` and `confirmed` are history.
The initial state has no pairing; later ones are reached by pairing.

### Sharing

| code | actions |
| --- | --- |
| `InviteShare`, `AcceptShareInvitation` | `InviteShare`, `AcceptShareInvitation` up to the request; `Returns` (the answer, commit or deferred deletion), `ClientFails` (every `return err` in between) |
| `handleShareInvite` | `HandleShareInvite` |
| `handleShareAccept` | `CheckShareAccept`, `ActivateShare`: the read of the share and its write |
| `handleUpdateShare` | `OpenForm`, `SaveForm`: the same, with the user's form in between |
| `handleDeleteShare` | `HandleDeleteShare` |
| connection and process | `RequestLost`, `Restart` |

`calls[c]` is one connection: what was asked, and how far the caller and the
handler are. Each fails or ends without the other's knowing. A call is forgotten
when both have ended, so no counter bounds how many are made. The configuration
survives `Restart`, since every change is saved before its function returns;
forms and callers do not, and their deferred functions do not run. `past` is
history: what was reported to a user, and which disturbances (`cut`, `stopped`,
`deleted`, `reverted`) a share has lived through, by which the properties say
exactly what they do not promise. An acceptance that succeeds starts a first
session; that is `SyncSession`'s `Dial`.

## 3. What the runs check

| run | instance | states | what it shows |
| --- | --- | --- | --- |
| `conflicts` | 1 name with its copies, 3 contents, 3 rounds, 4 edits or resolutions, 2 resolutions at a time, rounds that break off | 163 k | the planner's promises over every combination of edits, conflicts queued, decisions spread, the two consoles in agreement |
| `sync_safety` | 1 name with its copies, 3 contents, 2 sessions, 1 edit, faults | 1.0 M | locks, waiting, baselines, archive and objects |
| `sync_live` | 1 name with its copies, 2 contents, faults, 2 sessions or 1 and an edit | 143 k | every session ends on both devices, and one without a fault completes |
| `lost_result`, `archive_window`, `undone_decision` | as small as shows it | | see section 4 |
| `transfer_safety` | 2 tasks of 1 file, 2 workers, 1 disk fault, 1 restart, a disk with room for 1 or 2 files | 1.2 M | ownership, cleanliness, records against disk, space |
| `transfer_ends` | 2 tasks of 2 files, 1 worker, limit 1 | 72 k | cancellations and idle tasks end |
| `transfer_session` | 1 transfer of 2 files, 2 records that cannot be written, 2 restarts | 24 k | both ends together keep the promise of `TransferDelivery`, end, and complete when undisturbed |
| `pairing` | 2 devices, 2 requests, 2 confirmations at a time, 1 guess, 1 fault | 1.6 M | approval, guesses and agreement through expiry, rejection, wrong codes, restarts and lost results |
| `sharing` | 2 devices, 1 share, 3 calls at a time | 61 k | clean-up, acceptability and agreement through lost messages, forms, deletions and restarts |
| `lost_activation` | the same | | see section 4 |

**Why these bounds suffice.** A name is decided apart from the others, so one name
gives every row of the planner's table with three contents (base, server's,
client's). For whole rounds one name is enough, together with its copies: that
names do not disturb each other there is proved for any number of them. In
`sync_live` a plan of one name can have a transfer each way (a conflict and its
copy); it has two contents, so base and both versions are not all different, which
matters for which row applies and not for whether a plan is carried out.
Two rounds are what a record's second life takes: one that finds the conflict and
breaks off, one that finds it again or spreads what a user decided in between.
The third is for two that break off, each with a copy of its own, and one that is
complete: the case `StatusAgrees` excepts. Two of the four actions of users make a
conflict; the others are for a version or a decision after it, or two decisions at
a time. Two sessions let the devices dial each other at once, and let a round
start from what a failed one left. One edit is what the user's race with a
session needs; the initial states contain every pair of edits made before. In
`sync_live` a behaviour has an edit or a second session, not both (`LiveNext`). A
connection that buffers one frame is the strictest: a wait that needs a second
frame in flight shows as a mutual wait. For transfers, two tasks and two workers
are one more than a task has owners; two files in `transfer_ends` separate the
progress of a task from its end. One
disk fault and one restart at any step reach every pair of memory and record that
differ. Shares do not interact, so one is enough; an invitation whose answer is
outstanding and two acceptances of it are the three calls that can meet. Two
files are the least in which a first one is confirmed before a second one fails;
two faults and two restarts let each side have its own. Two requests are one in
each direction, or a second one after the first; two confirmations exceed the
limit of one guess, and are the two that can meet on one copy. The limit is 3 in
the code; the proof is for every limit.

The bounds named in the modules are `MaxEdits`, `MaxRequests`, `More` (in
`ConflictResolution`, users start nothing after the last round), `Cap`,
`MaxFaults`, `MaxStarts`, `MaxRestarts`, `MaxActive` (4 in the code), `Guesses` (3
in the code), `NFiles` and `Sizes`; `Sharing` has none but its sets. In `Pairing`,
attempts beyond the limit are not told apart. Deadlock checking is off for rounds,
sessions and transfers: sessions, edits, tasks and restarts are finite in an
instance, and when they are used up the system has stopped as it should. It is on
for `sharing` and `pairing`.

Symmetry is used in the runs without liveness: over contents and devices, over
tasks and workers, and over devices, shares, requests and calls. `CHOOSE` appears
in `Installed` only, where one transfer at most has the destination (lemma
`InstalledReceived` and `PlanTransfers`).

**Fairness.** `SyncSession`: weak fairness of each side. It means that a goroutine
that can run does, which the Go scheduler gives; that a broken connection is
noticed, which the two-hour deadline of a connection gives (`sessionTimeout`,
`tcp.go:20`; `ClientStuck`, `ServerStuck` are the returns it leads to). Nobody has to dial, edit or fail.
`TransferManager`: weak fairness of the timer's two steps and of each worker's
local steps. A peer or browser need not answer: `PeerStep` is not fair.
A cancelled worker returns because cancelling its context closes what it waits on
(`context.AfterFunc` in `UploadTransfer`, `sendTransfer`, `handleTransfer`).
`TransferSession`: weak fairness of each side's steps, none of what befalls them.
A side that waits for a frame gets it, or the end of the connection, or its
deadline (two hours on both sides); `SenderStuck` and `ReceiverStuck` can happen
only when no frame is on the way and none can come.

## 4. Where code and documents differ

Four runs are expected to be violated; each states what a document says.

| run | the document | what the code does |
| --- | --- | --- |
| `lost_result` | an interrupted connection does not advance the baseline (`docs/architecture.md:75`) | the server stores its baseline (`tcp.go:366`) before it sends the result |
| `archive_window` | what a remote change overwrites or deletes is in `history/` first (`README.md:99`) | archiving and replacing are two steps (`files.go:103`, `:106`; `:117`, `:120` for a deletion): what the user writes between them is overwritten and in no history |
| `undone_decision` | a decision is synced as an ordinary change of one side (`docs/architecture.md:83`) | after a round that broke off with its files in place, the next one compares a user's decision with the older baseline: a file deleted as the resolution comes back, with its copy, while both devices close the conflict (`conflicts.go:191`) |
| `lost_activation` | once the invitation is accepted, the first sync starts (`README.md:36`) | `handleUpdateShare` writes back the whole share it read (`api.go:281`, `:308`); an acceptance in between is undone, and the invitation is used up |

More things the models show, without a run of their own:

* The window of `archive_window` is the only way to lose a version:
  `ArchivedBeforeOverwritten` allows nothing else, in a run whose users write at any
  moment and in a proof without a hypothesis.
* The two consoles can show one conflict in two states. It takes a round that found it,
  users who make it again, and a second round that finds it under the same id with
  another copy; if the rounds break off before both devices have saved, one keeps the
  record with the first copy and the other that with the second. When a user removes
  one of the copies, the next round closes only the record that names it
  (`conflicts.go:71`). `StatusAgrees` excepts this case and nothing else: the records
  name different copies, and both were open before. The complete round after that
  exchanges the closed id, so the disagreement lasts until then. No document rules it
  out: `docs/architecture.md:83` has a resolution reach the other device with the next
  session.
* A version written after a session's first scan is replaced without a comparison
  (`files.go:103`); the final manifests agree and the round commits, with the
  version in `history/` only and no conflict recorded. `README.md:97` says that a
  round during which files change is not committed. In `SyncSession`: `Edit`
  between `ClientScan` and `ClientReceive`.
* A receiving task cancelled between `create` and `bind` is recorded as cancelled
  and then as failed (`transfers.go:345`), though
  `docs/onboarding-and-transfer-plan.md:140` keeps a cancelled record. In
  `TransferManager` and `TransferSession`: `Cancel`, then `BindFails`.
* A pairing of one device only is permanent. It takes a connection, a write or a
  process that fails after the other device has recorded the pairing; afterwards
  `StartPairing` refuses on the one side and `handlePairRequest` on the other, as
  paired, and `RemovePairedDevice` (`store.go:212`) has no caller in the service.
  Only where it was the other device's write that failed is the entry kept, and a
  second confirmation within its minute heals it; a lost answer deletes the entry
  (`ServerForgets`), since whether it could be sent is not looked at.
* A rejection between the handler's copy and its save does not prevent the
  pairing. The request had been approved before, so `PairedByApproval` holds.
* A receiver can be complete while the sender says failed: the final result was
  lost. Sending again makes a new task with a second copy; `TransferDelivery`
  allows it, as the documents promise nothing else.

Two more concern statuses and sharing. The return after a failed result frame
(`tcp.go:379`) updates no status, so the share is shown as syncing until its next
session (`ServerFails` in `result`). And when the answer to an acceptance is lost
after the inviter has activated the share, the other device deletes its own, and
no later attempt succeeds, because the inviter's share is no longer pending
(`ClientFails` after `ActivateShare`; `cut` in `ActiveTogether`). A process that
ends in the middle of an acceptance leaves an active share its peer may have as
pending (`stopped`).

## 5. What is proved

For all values of the constants under the assumptions `PlanAssumption`,
`NamesAssumption`, `ResolutionAssumption`, `SharingAssumption`, `PairingAssumption`,
`TransferAssumption` and the `SessionAssumption` of the session's and of the
transfer's module, without a bound on paths, contents, files, sessions, edits,
faults, frames in flight, devices, requests, calls, tasks or workers (what says
there is none, `NoTask` and the like, is assumed to be none):

* `ThreeWayPlan_proofs!PlanMerges`: carrying out a plan leaves both folders equal,
  and each path with what the table says. The argument is per path:
  `DecisionCases` turns the switch into facts, `PlanTransfers` says which
  transfer, if any, has a path as its destination, `InstalledReceived` and
  `InstalledOther` what is there afterwards.
* `AtomicRounds_proofs`: `TypeCorrect`, `Converges`, `NothingLost`, `TableHolds`.
  The invariant adds to the types that the copies of sessions yet to run are
  free on both devices (`PendingFresh`), without which a conflict copy could replace
  a file, and that a copy is the same file wherever it is (`CopiesAreOne`), without
  which a copy could be in conflict itself. What a round does to the folders is
  stated for its transfers alone (`TransfersConverge`, `TransfersKeepVersions`,
  `TransfersFollowTable`), so that it also holds where no baseline is stored.
* `ConflictResolution_proofs`: `RoundsKeepPromises` carries those three to rounds that
  break off, next to users resolving conflicts. `ConflictsWait`, `DecisionsReachTheOther`
  and `ConsolesAgree` rest on `QInv`, which adds that a record is about a user's
  path, that its copy is one of a session that has run (so no later round can make
  a file there), and that a device has one record of an id. `ConsolesAgree` has the
  exception of section 4 and no other. `MarksMeet` and
  `MarksAgree` are the exchange of ids, `ConflictSaved` and `SavedAgree` what is saved
  over it.
* `SyncSession_proofs!TypeCorrect`: type correctness through faults and edits.
* `SyncSession_proofs!MutualExclusion` and `BaselineIsCommon`. The inductive
  invariant is `IInv == TypeOK /\ LockInv /\ CommitInv`. `OneSessionAtATime` is
  `LockInv` in substance: a lock is held exactly by the one side that is between
  its TryLock and its return. `CommonBaselineOnly` speaks of steps and needs
  `CommitInv`, which follows a manifest through the last frames: an `ack` in the
  queue carries what the client keeps in `final`; from `commit` on the two
  `final`s agree; a `result` is on its way only from a server that has committed.
* `SyncSession_proofs!SidesNeverStuck` (`NoMutualWait`). That neither side can
  move is a matter of history: what a side waits for must have been sent. `Sender`
  says what a frame in a queue implies about the stage of its sender, `Order` how far
  each side is once the other one has passed a read, and `UnderWay` that the frame
  both would wait for is in its queue. Together with `OpInv` (an operation is under
  way only in the stages that do any) this is inductive for every `Cap`.
* `SyncSession_proofs!ReplacedIsArchived` (`ArchivedBeforeOverwritten`). The invariant
  `ArchiveInv` says of both sides that the version their operation is about to take off
  the disk is in the archive, or the path is in `late`. An edit in the window puts it
  there; that another session replaces the same path of the same device in
  between is ruled out by `LockInv`.
* `SyncSession_proofs!QuietSessionIsARound` (`QuietRoundIsAtomic`) and
  `BothVersionsCached` (`ConflictVersionsCached`): one session implements one step of
  `AtomicRounds`, in the middle of everything else the two devices do. The
  invariant `MInv` has three layers above the handshake.
  `CopyInv` and `PlanInv`: in every folder, baseline and manifest a
  path no user writes to is the copy of a conflict of a session that has scanned,
  with one content; so the copies of a plan are free (`FreshCopies`) and
  `PlanOutcome` of `ThreeWayPlan_proofs` applies. What a side holds, does and
  sends is part of the plan of the two scanned manifests.
  `AloneInv`: the lock of the client's device is no protection at the end. A client
  may die after its `ack`, its device dials or answers another session, and the server
  still commits (`Closing`). What protects the folder is that the next session
  needs the server's device too, which is still locked: there it gets no further
  than `hello`, `request` or an answer that never comes (`Harmless`).
  `RoundInv`: each path of a folder has the outcome of the plan, or the side still has
  work for it in its plan or in its current operation (`ClientLeft`, `ServerLeft`).
  At the commit nothing is left, so both folders are the outcome.

The proof of a step has one lemma per kind of change (`ClientEffects`,
`ServerEffects`, `QueueEffects` say what each action may touch), so that the two
invariants are argued over a handful of effects and not over every action.

* `Sharing_proofs`: `TypeCorrect`, `AcceptanceStays` (`AcceptedKept`),
  `FailureLeavesNothing` (`HalfDoneIsUndone`), `PendingHasInvitation`
  (`PendingCanBeAccepted`) and `DevicesAgree` (`ActiveTogether`). The inductive invariant adds that
  calls and invitations name the two devices of a share in their roles (`Roles`),
  that nothing knows a share nobody has offered (`Fresh`), that the accepting
  device and its forms only ever have the share as active (`ThereActive`), and
  that, while no user deletes it, a share has at most one acceptance in progress
  and none once one was reported (`Attempts`): this is what `AddShare`'s check for
  a duplicate buys, and why a rollback cannot hit the wrong attempt. The effect
  lemmas (`ServerEffect`, `ClientEffect`, `RestartEffect`, `BeginEffect`) reduce
  the calls to who is waiting.
  For the last two it also follows the answers: `Solo` (a share has one invitation
  call, which is over once the invitation is reported), `Openable` (while it is
  invited, a share is there, and an invitation that was answered yes is matched by
  an active share or waits at the other device) and `Agreed` (with no answer lost,
  the share is active where it was offered just when an acceptance was answered yes,
  whether its caller has read that or not).

* `TransferSession_proofs`: `TypeCorrect`, `ConfirmedStaysKept` and `Implements`, the
  refinement of `TransferDelivery`. Neither property is inductive: that a file was
  confirmed is known to the sender, that it was recorded to the receiver, and
  between them are results on the wire that do not say what they answer. The
  invariant therefore counts: `Counted` says how many results the receiver has
  written at each of its steps and how many the sender has read, so that result
  n on the wire is that of file n - 2, after those for hello and offer. `SenderProgressed` and
  `ReceiverProgressed` say what a side at file n has recorded, `RecordFollows` how
  far the record may be behind the task in memory, and `DeliveredOK` what the
  last result stands for. `Implements` then has one case per action.
  `CompleteAfterDelivery`, `ConfirmedUntilRemoved` and `CompleteStaysWhole` are
  what the promise amounts to: they follow from `TransferDelivery` alone, and by
  the refinement hold of the two programs.
* `TransferManager_proofs`: `TypeCorrect`, `WorkersOwn` (`WorkersOwnTheirTasks`),
  `EndsClean` (`EndedTasksAreClean`), `FilesExist` (`StoredFilesExist`),
  `RoomForAll` (`SpaceSuffices`), `EndIsFinal` (`NoRevival`) and `CancellationHolds`
  (`CancelledUploadStays`) rest on one invariant. `TaskOK` compares the task in
  memory, its record and its directory: what the record calls stored memory does
  too, while a task is active its record is, and a task nobody has registered for
  has not been touched. `WorkOK` says which files there are at each point of a
  worker, so that a worker that returns success has every file in place, and why
  an upload that ends cannot miss its cancellation. `OneReceiver` is needed for a
  receiver that fails to bind and ends its task: nobody else works on it. `Fits`
  counts together what a task holds and what it may still write, so that writing a
  file changes nothing and only `create` has to look. A step is shown to keep the
  invariant for its own task and worker; `WorkerStep` carries it to the others.
* `Pairing_proofs`: `PairedAfterApproval` and `ConfirmedOnBoth` rest on one invariant,
  `Saved`, which follows an approval from the user through the entry and the
  handler's copy (`CopiesApproved`) to the handler's save (`HandlerSaved`) and from
  there through the answer to the caller's (`CallerSaved`). `PairedTogether` adds
  `CallerWaits` (without a fault, a handler before its reply has a waiting caller)
  and `OneIsOwed`: whoever is paired first is owed the same by a confirmation that
  cannot be stopped any more. `ComparedAtMost` needs cardinalities: `Paid` bounds the
  comparisons made plus the handlers whose copy still admits one by the attempts
  counted in the entry, and by the limit once the entry is gone; `Unserved` says
  that an id starts with none.

Every invariant and every safety property that a passing run checks is stated by a
theorem. Only model-checked: liveness, because it needs fairness and `ENABLED`
(`SessionEnds`, `QuietRoundCompletes` and the like), and the four runs that show a
divergence.

Two things in the model were wrong until a proof failed. `ConflictVersionsCached`
also spoke of records that a session without edits resolves by itself; such a record may
come from an earlier session and name a content that was edited away before any scan
saw it, so the content need not be in the object store (it takes one edit more
than the run has). The property is now about pending records, the ones a user is asked
about. And `SessionAssumption` did not say that the names of conflict copies are free
and distinct, as `NamesAssumption` does. The code's names hold the path, the client, the
second and the content (`planner.go:123`); two sessions of one second can only share
one for the same content, and a user who writes a file of such a name is not modelled.

## 6. What is not modelled, and why

* A scan is one step. In the code it walks the folder while users write, and
  yields a manifest of several moments; an edit in its middle is then an edit
  before or after, per file.
* Sizes, modes, times, path checks, exclusion rules: data the properties do not
  tell apart, or pure functions on strings. Encodings and lengths of frames.
* Share checks at the start of a session; addresses. Both devices
  are paired and the share is active.
* In `Sharing`: folders, names and addresses of a share, whose checks come before
  any change; a configuration file that cannot be written; shares of the old
  protocol, which have no peer. The sessions of an active share are not composed
  with it: removal of a share during a session is planned.
* In `TransferManager` a file is one unit, written in one step; names, sizes and
  hashes that do not match are errors of the worker (`Breaks`). The removal of
  partial files is assumed to succeed, as the code ignores its errors. Space is
  taken by transfers only. The receive switch and directory, listing and saving
  copies leave tasks alone.
* In `TransferSession`: a transfer's files arrive one step each; the space check and
  the limits of `create` are a refusal by chance (`RefuseOffer`), since
  `TransferManager` has them; a process that ends between the rename of a file and
  its record is a restart in `stored`.
* In `Pairing`: addresses and discovery; keys, nonces and signatures, so the two
  devices of a request are who they say; how likely a guess is.
* In `ConflictResolution`: a baseline stored by one device only (`lost_result`), whose
  later rounds are not followed; rounds that break off in the middle of their
  transfers, which `SyncSession` has; the comparison view and the proposed merge of
  two texts. What `ResolveConflict` writes while a session of the space installs
  files is an `Edit` of `SyncSession`.
* The status display: `tcp.go:379` returns without one.
* Tray, web pages, discovery, TLS identity, command line: views, operating system
  calls, cryptography. No property here is about them.

## 7. Plan

Done: planner, rounds, session, conflicts, transfer manager, transfer session, sharing and
pairing; the theorems of section 5. Next, in order of importance:

1. Removal of a share: `RemoveShare` drops the mutex of a space a session may hold.
2. `Pairing` composed with `Sharing`, whose `Init` assumes the outcomes `Pairing`
   shows: pairings of both devices, of one, of none.
3. A theorem that a session which breaks off between its transfers and its baseline
   leaves what `ConflictResolution!BreaksOff` does, as a quiet one that commits
   leaves what a round of `AtomicRounds` does.

## 8. Running it

    tlc -config MCSyncSafety.cfg MCSyncSession.tla      # any cfg with its MC module
    tlapm SyncSession_proofs.tla                         # about nine minutes; Pairing_, Sharing_ and TransferManager_proofs three

`PROJECT.json` names each run with its module and cfg, the definitions' source
lines, the mutants (one per checked property: a plausible mistake in the code that
the property catches) and the theorems. Mutants are operators beside the
definition they stand in for, marked as such.
