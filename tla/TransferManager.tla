-------------------------- MODULE TransferManager --------------------------
(***************************************************************************)
(* The one-off file transfers of one device: transferManager               *)
(* (internal/service/transfer_store.go) and the goroutines that work on    *)
(* its tasks (internal/service/transfers.go): uploads from the browser,    *)
(* background senders, receivers, and the idle timer of a created task.    *)
(*                                                                         *)
(* Every method of the manager holds its mutex, so it is one step; what    *)
(* the goroutines do between two calls interleaves.  A task is in memory   *)
(* (tasks), in its record on disk, and in its directory: the manager loses *)
(* the first in a crash and reads it back from the second.                 *)
(*                                                                         *)
(* The peer and the browser are the environment: whatever they may send,   *)
(* delay or break off is a step a worker may take or not.  A file is one   *)
(* unit of space, written in one step.  Left out: names, sizes and hashes  *)
(* (a wrong one is an error of the worker), peers, messages, the receive   *)
(* switch and directory (an offer they reject is no offer), SaveCopy,      *)
(* which changes nothing here.                                             *)
(***************************************************************************)
EXTENDS Naturals, FiniteSets

CONSTANTS Task,        \* task ids; an id is random and never used twice
          Worker,      \* goroutines at work on a task at one time
          NFiles,      \* files of a task
          MaxActive,   \* active tasks create admits (4 in the code)
          Sizes,       \* units of space the disk may have
          MaxFaults,   \* bound: disk operations that fail
          MaxStarts    \* bound: times the service ends and starts again

CONSTANTS NoTask, NoCancel

ASSUME TransferAssumption ==
  /\ NFiles \in Nat \ {0}
  /\ MaxActive \in Nat
  /\ Sizes \subseteq Nat
  /\ MaxStarts \in Nat
  /\ MaxFaults \in Nat
  /\ IsFiniteSet(Task)
  /\ NoTask \notin Task

VARIABLES
  space,    \* the space of the disk, left alone by other programs
  tasks,    \* m.tasks: the task in memory, or NoTask
  records,  \* the task's record on disk, or NoTask
  cancels,  \* m.cancels: the worker and kind of work a Cancel stops, or NoCancel
  parts,    \* per task, the files that are on disk as .part
  blobs,    \* per task, the files that are on disk in full
  work,     \* the goroutines
  expired,  \* tasks whose idle timer found them unattended and is about to cancel
  service,  \* "up", "stopping" or "down"
  starts,   \* restarts so far
  faults,   \* failed disk operations so far
  used,     \* ids given out
  purged,   \* tasks whose files a user asked to delete (history variable)
  stopped   \* tasks whose cancellation was accepted (history variable)

disk == <<records, parts, blobs>>
history == <<used, purged, stopped>>
host == <<service, starts, space>>
vars == <<tasks, disk, cancels, work, expired, host, faults, history>>

-----------------------------------------------------------------------------
(* Types                                                                   *)

File == 1..NFiles
ActiveState == {"preparing", "connecting", "sending", "receiving", "verifying"}
EndedState == {"complete", "failed", "cancelled", "interrupted"}
FileState == {"pending", "ready", "complete", "interrupted"}
TaskRecord == [direction : {"send", "receive"}, state : ActiveState \cup EndedState,
               files : [File -> FileState], done : 0..NFiles]

Kind == {"upload", "send", "receive"}
WorkPc == {"idle", "bind", "write", "rename", "record", "dial", "send", "sent",
           "verify", "failing", "finish"}
Work == [pc : WorkPc, kind : Kind, task : Task \cup {NoTask}, next : 1..(NFiles + 1),
         cancelled : BOOLEAN, outcome : EndedState, source : Task \cup {NoTask}]
Idle == [pc |-> "idle", kind |-> "upload", task |-> NoTask, next |-> 1,
         cancelled |-> FALSE, outcome |-> "failed", source |-> NoTask]
Begin(t, kind, source, cancelled) ==
  [Idle EXCEPT !.pc = "bind", !.kind = kind, !.task = t, !.source = source,
               !.cancelled = cancelled]

\* The constants that say there is none are none.
ASSUME NoneAssumption == NoTask \notin TaskRecord /\ NoCancel \notin Worker \X Kind

TypeOK ==
  /\ space \in Sizes
  /\ tasks \in [Task -> TaskRecord \cup {NoTask}]
  /\ records \in [Task -> TaskRecord \cup {NoTask}]
  /\ cancels \in [Task -> (Worker \X Kind) \cup {NoCancel}]
  /\ parts \in [Task -> SUBSET File]
  /\ blobs \in [Task -> SUBSET File]
  /\ work \in [Worker -> Work]
  /\ expired \in SUBSET Task
  /\ service \in {"up", "stopping", "down"}
  /\ starts \in 0..MaxStarts
  /\ faults \in 0..MaxFaults
  /\ used \in SUBSET Task
  /\ purged \in SUBSET Task
  /\ stopped \in SUBSET Task

-----------------------------------------------------------------------------
(* The manager's tables                                                    *)

Active(s) == s \in ActiveState
IsActive(t) == tasks[t] # NoTask /\ Active(tasks[t].state)
ActiveTasks == {t \in Task : IsActive(t)}

Free == space - Cardinality({tf \in Task \X File : tf[2] \in parts[tf[1]] \cup blobs[tf[1]]})
\* Files an active task may still write: those past its progress.
Outstanding(active) ==
  Cardinality({tf \in active \X File : tf[2] > tasks[tf[1]].done})

\* Mutant: no reservation for the other tasks.
AdmitsWithoutReserve == Cardinality(ActiveTasks) < MaxActive /\ NFiles <= Free

Admits == /\ Cardinality(ActiveTasks) < MaxActive
          /\ NFiles + Outstanding(ActiveTasks) <= Free

Fresh(direction) ==
  [direction |-> direction, state |-> IF direction = "send" THEN "preparing" ELSE "receiving",
   files |-> [f \in File |-> "pending"], done |-> 0]

\* A change of a task is written to its record before the mutex is released;
\* when that fails the change stays in memory only.
DiskFault == faults < MaxFaults /\ faults' = faults + 1
Persist(t, task) == /\ tasks' = [tasks EXCEPT ![t] = task]
                    /\ records' = [records EXCEPT ![t] = task]
                    /\ UNCHANGED faults
PersistFails(t, task) == /\ DiskFault
                         /\ tasks' = [tasks EXCEPT ![t] = task]
                         /\ UNCHANGED records

Stored(task, f) == task.files[f] \in {"ready", "complete"}

\* Mutant: the files are marked, and the partial ones stay.
CleanRecordOnly(t) == UNCHANGED <<parts, blobs>>

\* cleanIncompleteLocked: partial files go, files not done are interrupted.
Clean(t) ==
  /\ parts' = [parts EXCEPT ![t] = {}]
  /\ blobs' = [blobs EXCEPT ![t] = {f \in @ : Stored(tasks[t], f)}]
Cleaned(task) ==
  [task EXCEPT !.files = [f \in File |-> IF Stored(task, f) THEN task.files[f] ELSE "interrupted"]]

Create(t, direction) ==
  /\ t \notin used
  /\ Admits
  /\ Persist(t, Fresh(direction))
  /\ used' = used \cup {t}

\* finish; a removed task is left alone.
Finish(t, outcome) ==
  \/ /\ tasks[t] = NoTask
     /\ UNCHANGED <<tasks, disk, cancels, faults>>
  \/ LET ended == IF outcome = "complete"
                  THEN [tasks[t] EXCEPT !.state = outcome, !.done = NFiles]
                  ELSE [Cleaned(tasks[t]) EXCEPT !.state = outcome]
     IN
     /\ tasks[t] # NoTask
     /\ cancels' = [cancels EXCEPT ![t] = NoCancel]
     /\ IF outcome = "complete" THEN UNCHANGED <<parts, blobs>> ELSE Clean(t)
     /\ \/ Persist(t, ended)
        \/ PersistFails(t, [ended EXCEPT !.state = "failed"])

\* Cancel of an active task: its worker is told, or there is none and the task
\* ends at once.
Cancel(t) ==
  /\ IsActive(t)
  /\ stopped' = stopped \cup {t}
  /\ \/ /\ cancels[t] # NoCancel
        /\ work' = [w \in Worker |->
             IF cancels[t] = <<w, work[w].kind>> THEN [work[w] EXCEPT !.cancelled = TRUE]
                                                 ELSE work[w]]
        /\ UNCHANGED <<tasks, disk, faults>>
     \/ /\ cancels[t] = NoCancel
        /\ Clean(t)
        /\ LET ended == [Cleaned(tasks[t]) EXCEPT !.state = "cancelled"]
           IN Persist(t, ended) \/ PersistFails(t, ended)
        /\ UNCHANGED work

-----------------------------------------------------------------------------
(* Requests of the user interface                                          *)

CreateTransfer(t) ==
  /\ service = "up"
  /\ Create(t, "send")
  /\ UNCHANGED <<parts, blobs, cancels, work, expired, host, purged, stopped>>

\* UploadTransfer reads the state of the task, and binds it afterwards.
UploadTransfer(w, t) ==
  /\ service = "up"
  /\ work[w].pc = "idle"
  /\ tasks[t] # NoTask /\ tasks[t].direction = "send" /\ tasks[t].state = "preparing"
  /\ work' = [work EXCEPT ![w] = Begin(t, "upload", NoTask, FALSE)]
  /\ UNCHANGED <<tasks, disk, cancels, expired, host, faults, history>>

\* RetryTransfer: a new task, uploaded from the files of the old one.
RetryTransfer(w, old, t) ==
  /\ service = "up"
  /\ work[w].pc = "idle"
  /\ tasks[old] # NoTask /\ tasks[old].direction = "send" /\ ~IsActive(old)
  /\ blobs[old] = File
  /\ Create(t, "send")
  /\ work' = [work EXCEPT ![w] = Begin(t, "upload", old, FALSE)]
  /\ UNCHANGED <<parts, blobs, cancels, expired, host, purged, stopped>>

CancelTransfer(t) ==
  /\ service # "down"
  /\ Cancel(t)
  /\ UNCHANGED <<cancels, expired, host, used, purged>>

\* Mutant: an active task is removed too.
RemovableAny(t) == tasks[t] # NoTask

Removable(t) == tasks[t] # NoTask /\ ~IsActive(t)

\* Remove deletes the files in order, if asked to, and then the record; a
\* deletion that fails leaves the task with the files from there on.
Remove(t, deleteFiles) ==
  /\ service # "down"
  /\ Removable(t)
  /\ purged' = IF deleteFiles THEN purged \cup {t} ELSE purged
  /\ \/ /\ tasks' = [tasks EXCEPT ![t] = NoTask]
        /\ records' = [records EXCEPT ![t] = NoTask]
        /\ parts' = [parts EXCEPT ![t] = IF deleteFiles THEN {} ELSE @]
        /\ blobs' = [blobs EXCEPT ![t] = IF deleteFiles THEN {} ELSE @]
        /\ UNCHANGED faults
     \/ /\ deleteFiles
        /\ \E k \in 1..(NFiles + 1) : blobs' = [blobs EXCEPT ![t] = {f \in @ : f >= k}]
        /\ DiskFault
        /\ UNCHANGED <<tasks, records, parts>>
  /\ UNCHANGED <<cancels, work, expired, host, used, stopped>>

-----------------------------------------------------------------------------
(* The idle timer                                                          *)

\* Mutant: a task without a worker is not noticed.
NeverUnattended(t) == FALSE

Unattended(t) ==
  tasks[t] # NoTask /\ tasks[t].state = "preparing" /\ cancels[t] = NoCancel

\* Two minutes after the creation the timer looks at the task, releases the
\* mutex, and calls Cancel.  It fires once: a task it finds at work or ended
\* never is unattended again, and its firing then is no step.
IdleCheck(t) ==
  /\ service # "down"
  /\ t \notin expired
  /\ Unattended(t)
  /\ expired' = expired \cup {t}
  /\ UNCHANGED <<tasks, disk, cancels, work, host, faults, history>>

IdleCancel(t) ==
  /\ t \in expired
  /\ expired' = expired \ {t}
  /\ \/ Cancel(t)
     \/ ~IsActive(t) /\ UNCHANGED <<tasks, disk, work, faults, stopped>>
  /\ UNCHANGED <<cancels, host, used, purged>>

-----------------------------------------------------------------------------
(* A worker: an upload, a receiver, a sender.  A task that is gone is an   *)
(* error in update and startSendTransfer, nothing in progress, and a panic *)
(* in fileDone; WorkersOwnTheirTasks says that it does not come to that.   *)

Becomes(w, pc) == work' = [work EXCEPT ![w].pc = pc]
Bound(w) == work[w].pc \notin {"idle", "bind"}

Progress(t) ==
  tasks' = IF tasks[t] = NoTask THEN tasks ELSE [tasks EXCEPT ![t].done = @ + 1]

\* handleTransfer up to the creation of the task.  A connection accepted before
\* the service stops may still get here, already cancelled.
Offer(w, t) ==
  /\ service # "down"
  /\ work[w].pc = "idle"
  /\ Create(t, "receive")
  /\ work' = [work EXCEPT ![w] = Begin(t, "receive", NoTask, service = "stopping")]
  /\ UNCHANGED <<parts, blobs, cancels, expired, host, purged, stopped>>

\* Mutant: bind does not look whether somebody else works on the task.
BindableTwice(t) == IsActive(t)

Bindable(t) == IsActive(t) /\ cancels[t] = NoCancel

Register(t, w, kind) == cancels' = [cancels EXCEPT ![t] = <<w, kind>>]

Bind(w) ==
  LET t == work[w].task IN
  /\ work[w].pc = "bind"
  /\ Bindable(t)
  /\ Register(t, w, work[w].kind)
  /\ Becomes(w, "write")
  /\ UNCHANGED <<tasks, disk, expired, host, faults, history>>

\* A task that has ended, or is worked on, is not bound.  The upload returns;
\* the receiver finishes the task it created.
BindFails(w) ==
  LET t == work[w].task IN
  /\ work[w].pc = "bind"
  /\ ~Bindable(t)
  /\ work' = [work EXCEPT ![w] = Idle]
  /\ IF work[w].kind = "receive" THEN Finish(t, "failed") ELSE UNCHANGED <<tasks, disk, cancels, faults>>
  /\ UNCHANGED <<expired, host, history>>

\* The next file is written as .part (opened O_EXCL) by an upload or a receiver.
WriteFile(w) ==
  LET t == work[w].task
      f == work[w].next
  IN
  /\ work[w].pc = "write"
  /\ f \in File
  /\ ~work[w].cancelled
  /\ f \notin parts[t]
  /\ work[w].source # NoTask => f \in blobs[work[w].source]
  /\ parts' = [parts EXCEPT ![t] = @ \cup {f}]
  /\ Progress(t)
  /\ Becomes(w, "rename")
  /\ UNCHANGED <<records, blobs, cancels, expired, host, faults, history>>

\* Mutant: the file is recorded as done and not renamed.
NoRename(t, f) == UNCHANGED <<parts, blobs>>

Rename(t, f) ==
  /\ parts' = [parts EXCEPT ![t] = @ \ {f}]
  /\ blobs' = [blobs EXCEPT ![t] = @ \cup {f}]

RenameFile(w) ==
  /\ work[w].pc = "rename"
  /\ Rename(work[w].task, work[w].next)
  /\ Becomes(w, "record")
  /\ UNCHANGED <<tasks, records, cancels, expired, host, faults, history>>

\* fileDone, after a rename or, in the sender, after the receiver's result.
FileDone(w) ==
  LET t == work[w].task
      f == work[w].next
      task == [tasks[t] EXCEPT !.files[f] = IF work[w].kind = "upload" THEN "ready" ELSE "complete"]
  IN
  /\ work[w].pc \in {"record", "sent"}
  /\ tasks[t] # NoTask
  /\ \/ /\ Persist(t, task)
        /\ work' = [work EXCEPT ![w].pc = IF @ = "sent" THEN "send" ELSE "write",
                                ![w].next = @ + 1]
     \/ PersistFails(t, task) /\ Becomes(w, "failing")
  /\ UNCHANGED <<parts, blobs, cancels, expired, host, history>>

\* Mutants: a cancelled upload is sent all the same, the sender cannot be
\* cancelled, the upload's progress stays.
UploadMaySendAnyway(w) ==
  LET t == work[w].task IN
  service = "up" /\ tasks[t] # NoTask /\ tasks[t].state = "preparing"
RegisterNobody(t, w) == UNCHANGED cancels
ConnectingOn(task) == [task EXCEPT !.state = "connecting"]

UploadMaySend(w) ==
  LET t == work[w].task IN
  ~work[w].cancelled /\ service = "up" /\ tasks[t] # NoTask /\ tasks[t].state = "preparing"
RegisterSender(t, w) == cancels' = [cancels EXCEPT ![t] = <<w, "send">>]
Connecting(task) == [task EXCEPT !.state = "connecting", !.done = 0]

\* startSendTransfer: the upload is complete; unless it was cancelled, the
\* goroutine that sends takes the task over.
StartSend(w) ==
  LET t == work[w].task IN
  /\ work[w].pc = "write" /\ work[w].kind = "upload" /\ work[w].next = NFiles + 1
  /\ UploadMaySend(w)
  /\ \/ /\ Persist(t, Connecting(tasks[t]))
        /\ RegisterSender(t, w)
        /\ work' = [work EXCEPT ![w] = [Begin(t, "send", NoTask, FALSE) EXCEPT !.pc = "dial"]]
     \/ /\ PersistFails(t, Connecting(tasks[t]))
        /\ Becomes(w, "failing")
        /\ UNCHANGED cancels
  /\ UNCHANGED <<parts, blobs, expired, host, history>>

\* The sender's update of the state of its task.
Update(w, state, pc) ==
  LET t == work[w].task
      task == [tasks[t] EXCEPT !.state = state]
  IN
  /\ tasks[t] # NoTask
  /\ \/ Persist(t, task) /\ Becomes(w, pc)
     \/ PersistFails(t, task) /\ Becomes(w, "failing")
  /\ UNCHANGED <<parts, blobs, cancels, expired, host, history>>

SendAccepted(w) == work[w].pc = "dial" /\ Update(w, "sending", "send")
SendVerify(w) == work[w].pc = "send" /\ work[w].next = NFiles + 1 /\ Update(w, "verifying", "verify")

\* A file is read from the upload's copy and sent; the receiver's result follows.
SendFile(w) ==
  LET t == work[w].task IN
  /\ work[w].pc = "send"
  /\ work[w].next \in blobs[t]
  /\ ~work[w].cancelled
  /\ Progress(t)
  /\ Becomes(w, "sent")
  /\ UNCHANGED <<disk, cancels, expired, host, faults, history>>

Returns(w, outcome) ==
  /\ work' = [work EXCEPT ![w].pc = "finish",
                          ![w].outcome = IF work[w].cancelled THEN "cancelled" ELSE outcome]
  /\ UNCHANGED <<tasks, disk, cancels, expired, host, faults, history>>

\* The receiver has all files, or the sender the receiver's last result.
Succeeds(w) ==
  /\ \/ work[w].pc = "write" /\ work[w].kind = "receive" /\ work[w].next = NFiles + 1
     \/ work[w].pc = "verify"
  /\ Returns(w, "complete")

\* An error, from any call a worker makes; also what a cancelled context, the
\* end of the connection or a rejected file lead to.
Breaks(w) ==
  /\ Bound(w) /\ work[w].pc # "finish"
  /\ Returns(w, "failed")

FinishWork(w) ==
  /\ work[w].pc = "finish"
  /\ Finish(work[w].task, work[w].outcome)
  /\ work' = [work EXCEPT ![w] = Idle]
  /\ UNCHANGED <<expired, host, history>>

\* The browser leaves: the context of its upload is cancelled.
BrowserLeaves(w) ==
  /\ work[w].kind = "upload" /\ work[w].pc # "idle" /\ work[w].source = NoTask
  /\ ~work[w].cancelled
  /\ work' = [work EXCEPT ![w].cancelled = TRUE]
  /\ UNCHANGED <<tasks, disk, cancels, expired, host, faults, history>>

-----------------------------------------------------------------------------
(* The service                                                             *)

Stop ==
  /\ service = "up"
  /\ starts < MaxStarts
  /\ service' = "stopping"
  /\ work' = [w \in Worker |-> IF work[w].pc = "idle" THEN work[w]
                               ELSE [work[w] EXCEPT !.cancelled = TRUE]]
  /\ UNCHANGED <<tasks, disk, cancels, expired, starts, space, faults, history>>

\* The process is gone, by a crash or once Stop has waited for the workers and
\* cancelled the tasks left (CancelTransfer); nothing but the disk remains.
Exit ==
  /\ service # "down"
  /\ starts < MaxStarts
  /\ service' = "down"
  /\ tasks' = [t \in Task |-> NoTask]
  /\ cancels' = [t \in Task |-> NoCancel]
  /\ work' = [w \in Worker |-> Idle]
  /\ expired' = {}
  /\ UNCHANGED <<disk, starts, space, faults, history>>

\* load: a task whose record is active was interrupted.
Interrupted(t) == records[t] # NoTask /\ Active(records[t].state)
Start ==
  LET loaded == [t \in Task |-> IF Interrupted(t)
                               THEN [Cleaned(records[t]) EXCEPT !.state = "interrupted"]
                               ELSE records[t]]
  IN
  /\ service = "down"
  /\ service' = "up"
  /\ starts' = starts + 1
  /\ tasks' = loaded
  /\ records' = loaded
  /\ parts' = [t \in Task |-> IF Interrupted(t) THEN {} ELSE parts[t]]
  /\ blobs' = [t \in Task |-> IF Interrupted(t) THEN {f \in blobs[t] : Stored(records[t], f)}
                              ELSE blobs[t]]
  /\ UNCHANGED <<cancels, work, expired, space, faults, history>>

-----------------------------------------------------------------------------
(* The specification                                                       *)

Init ==
  /\ space \in Sizes
  /\ tasks = [t \in Task |-> NoTask]
  /\ records = [t \in Task |-> NoTask]
  /\ cancels = [t \in Task |-> NoCancel]
  /\ parts = [t \in Task |-> {}]
  /\ blobs = [t \in Task |-> {}]
  /\ work = [w \in Worker |-> Idle]
  /\ expired = {}
  /\ service = "up"
  /\ starts = 0
  /\ faults = 0
  /\ used = {}
  /\ purged = {}
  /\ stopped = {}

\* What a worker does by itself, and what waits for the browser or the peer.
LocalStep(w) ==
  \/ Bind(w) \/ BindFails(w) \/ RenameFile(w) \/ StartSend(w) \/ SendVerify(w)
  \/ work[w].pc = "record" /\ FileDone(w)
  \/ work[w].cancelled /\ Breaks(w)
  \/ work[w].pc = "failing" /\ Breaks(w)
  \/ FinishWork(w)
PeerStep(w) ==
  \/ WriteFile(w) \/ SendAccepted(w) \/ SendFile(w) \/ Succeeds(w) \/ Breaks(w)
  \/ work[w].pc = "sent" /\ FileDone(w)
  \/ BrowserLeaves(w)

Request ==
  \/ \E t \in Task : CreateTransfer(t) \/ CancelTransfer(t)
  \/ \E t \in Task, deleteFiles \in BOOLEAN : Remove(t, deleteFiles)
  \/ \E w \in Worker, t \in Task : UploadTransfer(w, t) \/ Offer(w, t)
  \/ \E w \in Worker, old, t \in Task : RetryTransfer(w, old, t)

Next ==
  \/ Request
  \/ \E t \in Task : IdleCheck(t) \/ IdleCancel(t)
  \/ \E w \in Worker : LocalStep(w) \/ PeerStep(w)
  \/ Stop \/ Exit \/ Start

Spec == Init /\ [][Next]_vars

\* Timers fire and goroutines run; a peer or a browser need not answer.  The
\* calls of a cancelled worker return: its context closes the connection or
\* the request body they wait on.
Fairness ==
  /\ \A t \in Task : WF_vars(IdleCheck(t)) /\ WF_vars(IdleCancel(t))
  /\ \A w \in Worker : WF_vars(LocalStep(w))
FairSpec == Spec /\ Fairness

-----------------------------------------------------------------------------
(* Safety                                                                  *)

\* A worker past bind has its task to itself while it runs: the task is in
\* memory and active, and the registered cancel function is the worker's own.
\* So two workers never write one directory, fileDone never meets a removed
\* task (it does not check), and Cancel always reaches the worker.
WorkersOwnTheirTasks ==
  \A w \in Worker : Bound(w) =>
    IsActive(work[w].task) /\ cancels[work[w].task] = <<w, work[w].kind>>

\* The disk has room for every byte the admitted tasks still write; create
\* reserves what the others have left, and only transfers take space here.
Writing == {t \in ActiveTasks : tasks[t].state \in {"preparing", "receiving"}}
SpaceSuffices == Outstanding(Writing) <= Free

\* docs/onboarding-and-transfer-plan.md:19: cancellation and failure keep the
\* files that are complete and clean up the rest; no late writer leaves
\* anything behind, and a complete task has every file complete.
EndedTasksAreClean ==
  \A t \in Task : tasks[t] # NoTask /\ ~IsActive(t) =>
    /\ parts[t] = {}
    /\ \A f \in blobs[t] : Stored(tasks[t], f)
    /\ tasks[t].state = "complete" => \A f \in File : tasks[t].files[f] = "complete"

\* A file that memory or the record calls ready or complete is on disk in
\* full, at every moment a crash may choose, unless its deletion was asked for.
StoredFilesExist ==
  \A t \in Task \ purged : \A task \in {tasks[t], records[t]} \ {NoTask} :
    \A f \in File : Stored(task, f) => f \in blobs[t]

\* startSendTransfer: "a cancelled upload must never be resurrected as a
\* background sender".  An accepted cancellation of a task in preparation is
\* not overtaken by the end of its upload.
CancelledUploadStays ==
  [][\A t \in stopped :
       tasks[t] # NoTask /\ tasks[t].state = "preparing" =>
         tasks'[t] = NoTask \/ tasks'[t].state \in {"preparing", "cancelled", "failed"}]_vars

\* An ended task is not made active again, neither by a late update of its
\* worker nor by a restart: sending again makes a new task.
NoRevival ==
  [][\A t \in Task : tasks[t] # NoTask /\ ~IsActive(t) => ~IsActive(t)']_vars

-----------------------------------------------------------------------------
(* Liveness                                                                *)

\* An accepted cancellation ends the task even if its peer and its browser
\* never answer again.
CancelEnds == \A t \in Task : t \in stopped ~> ~IsActive(t)

\* docs/transfer-implementation.md:23: a task nobody uploads for is cancelled.
Waiting(t) == /\ tasks[t] # NoTask /\ tasks[t].state = "preparing"
              /\ \A w \in Worker : Bound(w) => work[w].task # t
IdleTaskEnds == \A t \in Task : Waiting(t) ~> ~Waiting(t)
=============================================================================
