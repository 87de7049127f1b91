--------------------------- MODULE TransferSession ---------------------------
(***************************************************************************)
(* One transfer between its two devices: sendTransfer and handleTransfer,  *)
(* receiveTransfer (internal/service/transfers.go) over one TLS connection *)
(* and what they do to the task each device keeps (transfer_store.go).     *)
(* TransferManager models the tasks of one device with the peer as         *)
(* environment; here both ends are written out, frame by frame.            *)
(*                                                                         *)
(* The sender reads plain results, {ok, message}, and knows them apart by  *)
(* their order only: ready, accept, one per file, the final one.  So the   *)
(* frames on the way to it are a sequence of Booleans.                     *)
(*                                                                         *)
(* It starts where startSendTransfer has handed the uploaded files to the  *)
(* background sender.  Either side may fail, be cancelled by its user or   *)
(* be restarted between any two steps; a record may fail to be written; a  *)
(* source file may change while it is sent.  The connection keeps order    *)
(* and content (TLS), and breaks as a failure of a side, which is when     *)
(* frames are lost.  Sending again makes a new task and a new session.     *)
(***************************************************************************)
EXTENDS Naturals, Sequences

CONSTANTS NFiles,      \* files of the transfer
          MaxFaults,   \* bound: records that cannot be written
          MaxRestarts, \* bound: restarts of the devices
          NoTask

ASSUME SessionAssumption ==
  /\ NFiles \in Nat \ {0}
  /\ MaxFaults \in Nat
  /\ MaxRestarts \in Nat

VARIABLES
  tasks,     \* per device, its task in memory (m.tasks)
  records,   \* per device, the record of the task on disk
  work,      \* per device, the goroutine of the transfer
  stored,    \* the receiver's directory: per file nothing, or a content
  requests,  \* frames on the way to the receiver
  results,   \* results on the way to the sender
  faults, restarts,
  delivered, \* the receiver recorded the transfer as complete (history variable)
  removed,   \* its user removed the task afterwards (history variable)
  disturbed  \* anything but the two programs touched the transfer (history variable)

history == <<delivered, removed, disturbed>>
counts == <<faults, restarts>>
wire == <<requests, results>>
vars == <<tasks, records, work, stored, wire, counts, history>>

-----------------------------------------------------------------------------
File == 1..NFiles
Device == {"sender", "receiver"}

ActiveState == {"connecting", "sending", "verifying", "receiving"}
EndedState == {"complete", "failed", "cancelled", "interrupted"}
\* done: the files the task calls complete.
Task == [state : ActiveState \cup EndedState, done : SUBSET File]

ASSUME NoTaskAssumption == NoTask \notin Task

\* "return" and "over": the function is about to finish its task, has done so.
SenderPc == {"dial", "ready", "accept", "send", "result", "verify", "return", "over"}
ReceiverPc == {"none", "offer", "bind", "file", "stored", "return", "ack", "over"}
Work == [pc : SenderPc \cup ReceiverPc, next : 1..(NFiles + 1), cancelled : BOOLEAN,
         outcome : EndedState]

\* "whole" and "changed": the bytes of a file, as uploaded or not.
Request == {"hello", "offer", "whole", "changed"}

TypeOK ==
  /\ tasks \in [Device -> Task \cup {NoTask}]
  /\ records \in [Device -> Task \cup {NoTask}]
  /\ work \in [Device -> Work]
  /\ work["sender"].pc \in SenderPc
  /\ work["receiver"].pc \in ReceiverPc
  /\ stored \in [File -> {"none", "whole", "changed"}]
  /\ requests \in Seq(Request)
  /\ results \in Seq(BOOLEAN)
  /\ faults \in 0..MaxFaults
  /\ restarts \in 0..MaxRestarts
  /\ delivered \in BOOLEAN
  /\ removed \in BOOLEAN
  /\ disturbed \in BOOLEAN

Active(task) == task # NoTask /\ task.state \in ActiveState

-----------------------------------------------------------------------------
(* The task of a device                                                    *)

Persist(d, task) == /\ tasks' = [tasks EXCEPT ![d] = task]
                    /\ records' = [records EXCEPT ![d] = task]
                    /\ UNCHANGED faults

\* The change stays in memory when the record cannot be written.
PersistFails(d, task) == /\ faults < MaxFaults
                         /\ faults' = faults + 1
                         /\ tasks' = [tasks EXCEPT ![d] = task]
                         /\ UNCHANGED records

\* update and fileDone.
Updated(d, state) == [tasks[d] EXCEPT !.state = state]
FileDone(d, f) == [tasks[d] EXCEPT !.done = @ \cup {f}]

\* cleanIncompleteLocked, for a task that may be in memory or in a record.
Clean(task) == stored' = [f \in File |-> IF f \in task.done THEN stored[f] ELSE "none"]

\* finish.  The sender's files are the upload's, done or not, and stay.
Finish(d, outcome) ==
  \/ tasks[d] = NoTask /\ UNCHANGED <<tasks, records, faults, stored>>
  \/ /\ tasks[d] # NoTask
     /\ \/ Persist(d, Updated(d, outcome))
        \/ PersistFails(d, Updated(d, "failed"))
     /\ IF d = "receiver" /\ outcome # "complete" THEN Clean(tasks[d]) ELSE UNCHANGED stored

-----------------------------------------------------------------------------
(* The connection                                                          *)

SenderOpen == work["sender"].pc \notin {"return", "over"}
Moves(d, pc) == work' = [work EXCEPT ![d].pc = pc]

\* The function returns; its context decides what the error is called.
Returned(d, outcome) ==
  [work EXCEPT ![d].pc = "return",
               ![d].outcome = IF work[d].cancelled THEN "cancelled" ELSE outcome]

\* Mutant: the loop over the files takes one turn too many.
OneFileMore(d) == work[d].next <= NFiles + 1

MoreFiles(d) == work[d].next <= NFiles

Ask(frame) == requests' = Append(requests, frame)
\* A result written after the sender has closed the connection is lost.
Reply(ok) == results' = IF SenderOpen THEN Append(results, ok) ELSE results
HasResult(ok) == results # <<>> /\ Head(results) = ok
ReadResult == results' = Tail(results)
ReadRequest == requests' = Tail(requests)

-----------------------------------------------------------------------------
(* The sender: sendTransfer                                                *)

Dial ==
  /\ work["sender"].pc = "dial"
  /\ Ask("hello")
  /\ Moves("sender", "ready")
  /\ UNCHANGED <<tasks, records, stored, results, counts, history>>

SendOffer ==
  /\ work["sender"].pc = "ready"
  /\ HasResult(TRUE)
  /\ ReadResult
  /\ Ask("offer")
  /\ Moves("sender", "accept")
  /\ UNCHANGED <<tasks, records, stored, counts, history>>

\* A step that saves the sender's task, and goes on or returns the error.
SenderSaves(task, next) ==
  \/ Persist("sender", task) /\ work' = next /\ UNCHANGED disturbed
  \/ PersistFails("sender", task) /\ work' = Returned("sender", "failed") /\ disturbed' = TRUE

Accepted ==
  /\ work["sender"].pc = "accept"
  /\ HasResult(TRUE)
  /\ ReadResult
  /\ SenderSaves(Updated("sender", "sending"), [work EXCEPT !["sender"].pc = "send"])
  /\ UNCHANGED <<stored, requests, restarts, delivered, removed>>

\* The bytes sent are hashed on the way, and compared with the upload's hash.
SendChecked(content) ==
  work' = IF content = "whole" THEN [work EXCEPT !["sender"].pc = "result"]
                               ELSE Returned("sender", "failed")

SendFile(content) ==
  /\ work["sender"].pc = "send"
  /\ MoreFiles("sender")
  /\ Ask(content)
  /\ SendChecked(content)
  /\ disturbed' = (disturbed \/ content = "changed")
  /\ UNCHANGED <<tasks, records, stored, results, counts, delivered, removed>>

FileConfirmed ==
  /\ work["sender"].pc = "result"
  /\ HasResult(TRUE)
  /\ ReadResult
  /\ SenderSaves(FileDone("sender", work["sender"].next),
                 [work EXCEPT !["sender"].pc = "send", !["sender"].next = @ + 1])
  /\ UNCHANGED <<stored, requests, restarts, delivered, removed>>

AwaitFinal == [work EXCEPT !["sender"].pc = "verify"]

AskVerify ==
  /\ work["sender"].pc = "send"
  /\ work["sender"].next = NFiles + 1
  /\ SenderSaves(Updated("sender", "verifying"), AwaitFinal)
  /\ UNCHANGED <<stored, wire, restarts, delivered, removed>>

Confirmed ==
  /\ work["sender"].pc = "verify"
  /\ HasResult(TRUE)
  /\ ReadResult
  /\ work' = Returned("sender", "complete")
  /\ UNCHANGED <<tasks, records, stored, requests, counts, history>>

SenderRefused ==
  /\ work["sender"].pc \in {"ready", "accept", "result", "verify"}
  /\ HasResult(FALSE)
  /\ ReadResult
  /\ work' = Returned("sender", "failed")
  /\ UNCHANGED <<tasks, records, stored, requests, counts, history>>

\* The connection is closed with what was on the way to the sender.
SenderFinishes ==
  /\ work["sender"].pc = "return"
  /\ Finish("sender", work["sender"].outcome)
  /\ Moves("sender", "over")
  /\ results' = <<>>
  /\ disturbed' = (disturbed \/ faults' # faults)
  /\ UNCHANGED <<requests, restarts, delivered, removed>>

-----------------------------------------------------------------------------
(* The receiver: handleTransfer and receiveTransfer                        *)

HasRequest(frame) == requests # <<>> /\ Head(requests) = frame

\* Pairing and receive switch are checked; a refusal ends the handler.
ReceiveHello(ok) ==
  /\ work["receiver"].pc = "none"
  /\ HasRequest("hello")
  /\ ReadRequest
  /\ Reply(ok)
  /\ Moves("receiver", IF ok THEN "offer" ELSE "over")
  /\ disturbed' = (disturbed \/ ~ok)
  /\ UNCHANGED <<tasks, records, stored, counts, delivered, removed>>

\* create refuses for its limits, the switch, the space, or a failed record.
ReceiveOffer ==
  /\ work["receiver"].pc = "offer"
  /\ HasRequest("offer")
  /\ ReadRequest
  /\ Persist("receiver", [state |-> "receiving", done |-> {}])
  /\ Moves("receiver", "bind")
  /\ UNCHANGED <<stored, results, restarts, history>>

RefuseOffer ==
  /\ work["receiver"].pc = "offer"
  /\ HasRequest("offer")
  /\ ReadRequest
  /\ Reply(FALSE)
  /\ Moves("receiver", "over")
  /\ disturbed' = TRUE
  /\ UNCHANGED <<tasks, records, stored, counts, delivered, removed>>

\* Mutant: the receiver forgets to say that it accepts.
AcceptSilently == UNCHANGED results

SayAccept == Reply(TRUE)

Bind ==
  /\ work["receiver"].pc = "bind"
  /\ Active(tasks["receiver"])
  /\ SayAccept
  /\ Moves("receiver", "file")
  /\ UNCHANGED <<tasks, records, stored, requests, counts, history>>

\* The user has cancelled the task in between.  Nothing is written any more.
BindFails ==
  /\ work["receiver"].pc = "bind"
  /\ ~Active(tasks["receiver"])
  /\ Finish("receiver", "failed")
  /\ Moves("receiver", "over")
  /\ UNCHANGED <<wire, restarts, history>>

Accepts(content) == content = "whole"

\* The bytes of a file arrive, are hashed and synced, and the file is renamed.
ReceiveFile ==
  /\ work["receiver"].pc = "file"
  /\ MoreFiles("receiver")
  /\ ~work["receiver"].cancelled
  /\ requests # <<>>
  /\ Accepts(Head(requests))
  /\ ReadRequest
  /\ stored' = [stored EXCEPT ![work["receiver"].next] = Head(requests)]
  /\ Moves("receiver", "stored")
  /\ UNCHANGED <<tasks, records, results, counts, history>>

RefuseFile ==
  /\ work["receiver"].pc = "file"
  /\ MoreFiles("receiver")
  /\ requests # <<>>
  /\ ~Accepts(Head(requests))
  /\ ReadRequest
  /\ Reply(FALSE)
  /\ work' = Returned("receiver", "failed")
  /\ UNCHANGED <<tasks, records, stored, counts, history>>

\* Mutant: the file is confirmed though its record could not be written.
ConfirmUnrecorded == Reply(TRUE)

RecordFailed == UNCHANGED results

\* fileDone, which nothing keeps from following the rename, and the file's
\* result, which may fail to be written.
FileStored ==
  LET task == FileDone("receiver", work["receiver"].next) IN
  /\ work["receiver"].pc = "stored"
  /\ \/ /\ Persist("receiver", task)
        /\ Reply(TRUE)
        /\ work' = [work EXCEPT !["receiver"].pc = "file", !["receiver"].next = @ + 1]
        /\ UNCHANGED disturbed
     \/ /\ Persist("receiver", task)
        /\ work' = Returned("receiver", "failed")
        /\ disturbed' = TRUE
        /\ UNCHANGED results
     \/ /\ PersistFails("receiver", task)
        /\ RecordFailed
        /\ work' = Returned("receiver", "failed")
        /\ disturbed' = TRUE
  /\ UNCHANGED <<stored, requests, restarts, delivered, removed>>

AllReceived ==
  /\ work["receiver"].pc = "file"
  /\ work["receiver"].next = NFiles + 1
  /\ work' = Returned("receiver", "complete")
  /\ UNCHANGED <<tasks, records, stored, wire, counts, history>>

RecordComplete(record) == record # NoTask /\ record.state = "complete"

ReceiverFinishes ==
  /\ work["receiver"].pc = "return"
  /\ Finish("receiver", work["receiver"].outcome)
  /\ Moves("receiver", "ack")
  /\ delivered' = (delivered \/ RecordComplete(records'["receiver"]))
  /\ disturbed' = (disturbed \/ faults' # faults)
  /\ UNCHANGED <<wire, restarts, removed>>

\* Mutant: the final result tells of the transfer, not of its record.
OutcomeComplete == work["receiver"].outcome = "complete"

\* The task is read again after finish; it may be gone by then.
SavedComplete == RecordComplete(tasks["receiver"])

\* The final result; then the connection is closed.
Acknowledge ==
  /\ work["receiver"].pc = "ack"
  /\ Reply(SavedComplete)
  /\ requests' = <<>>
  /\ Moves("receiver", "over")
  /\ UNCHANGED <<tasks, records, stored, counts, history>>

-----------------------------------------------------------------------------
(* What befalls a side                                                     *)

SenderWaits == work["sender"].pc \in {"ready", "accept", "result", "verify"}
ReceiverReads == \/ work["receiver"].pc = "offer"
                 \/ work["receiver"].pc = "file" /\ MoreFiles("receiver")

\* An error of any call: a broken connection, a file that cannot be read or
\* written, the deadline.  Before it has a task the receiver just returns.
SenderFails ==
  /\ SenderOpen
  /\ work' = Returned("sender", "failed")
  /\ disturbed' = TRUE
  /\ UNCHANGED <<tasks, records, stored, wire, counts, delivered, removed>>

ReceiverReturns ==
  work' = IF work["receiver"].pc \in {"none", "offer"} THEN [work EXCEPT !["receiver"].pc = "over"]
                                             ELSE Returned("receiver", "failed")
ReceiverFails ==
  /\ \/ work["receiver"].pc \in {"none", "offer", "file"}
     \/ work["receiver"].pc = "bind" /\ Active(tasks["receiver"])
  /\ ReceiverReturns
  /\ disturbed' = TRUE
  /\ UNCHANGED <<tasks, records, stored, wire, counts, delivered, removed>>

\* A side that waits for a frame nobody will send meets the end of the
\* connection, or its deadline.
SenderStuck ==
  /\ SenderWaits
  /\ results = <<>>
  /\ work["receiver"].pc = "over" \/ (ReceiverReads /\ requests = <<>>)
  /\ work' = Returned("sender", "failed")
  /\ UNCHANGED <<tasks, records, stored, wire, counts, history>>

\* Mutant: a receiver never gives a silent connection up.
WaitsForEver == FALSE

NothingToRead == requests = <<>> /\ (~SenderOpen \/ (SenderWaits /\ results = <<>>))

ReceiverStuck ==
  /\ ReceiverReads
  /\ NothingToRead
  /\ ReceiverReturns
  /\ UNCHANGED <<tasks, records, stored, wire, counts, history>>

\* Cancel of an active task tells its goroutine, or ends the task itself when
\* none is bound to it yet.
Cancel(d) ==
  /\ Active(tasks[d])
  /\ \/ /\ work[d].pc # "bind"
        /\ ~work[d].cancelled
        /\ work' = [work EXCEPT ![d].cancelled = TRUE]
        /\ UNCHANGED <<tasks, records, faults, stored>>
     \/ /\ work[d].pc = "bind"
        /\ \/ Persist(d, Updated(d, "cancelled"))
           \/ PersistFails(d, Updated(d, "cancelled"))
        /\ Clean(tasks[d])
        /\ UNCHANGED work
  /\ disturbed' = TRUE
  /\ UNCHANGED <<wire, restarts, delivered, removed>>

\* A cancelled context closes the connection: what the side waits on returns.
CancelledReturns(d) ==
  /\ work[d].cancelled
  /\ (d = "sender" /\ SenderOpen) \/ work[d].pc = "file"
  /\ work' = Returned(d, "failed")
  /\ UNCHANGED <<tasks, records, stored, wire, counts, history>>

\* The receiver's user removes an ended task, with or without its files.
Remove(deleteFiles) ==
  /\ tasks["receiver"] # NoTask /\ ~Active(tasks["receiver"])
  /\ tasks' = [tasks EXCEPT !["receiver"] = NoTask]
  /\ records' = [records EXCEPT !["receiver"] = NoTask]
  /\ stored' = IF deleteFiles THEN [f \in File |-> "none"] ELSE stored
  /\ removed' = TRUE
  /\ disturbed' = TRUE
  /\ UNCHANGED <<work, wire, counts, delivered>>

\* The process of a device ends, by a crash or not, and starts again: load
\* interrupts a task that was active and cleans up after it.
Restart(d) ==
  LET loaded == IF Active(records[d]) THEN [records[d] EXCEPT !.state = "interrupted"]
                                      ELSE records[d]
  IN
  /\ restarts < MaxRestarts
  /\ restarts' = restarts + 1
  /\ tasks' = [tasks EXCEPT ![d] = loaded]
  /\ records' = [records EXCEPT ![d] = loaded]
  /\ work' = [work EXCEPT ![d].pc = "over", ![d].cancelled = FALSE]
  /\ IF d = "receiver" /\ Active(records[d]) THEN Clean(records[d]) ELSE UNCHANGED stored
  /\ IF d = "sender" THEN results' = <<>> /\ UNCHANGED requests
                     ELSE requests' = <<>> /\ UNCHANGED results
  /\ disturbed' = TRUE
  /\ UNCHANGED <<faults, delivered, removed>>

-----------------------------------------------------------------------------
(* The specification                                                       *)

Init ==
  /\ tasks = [d \in Device |-> IF d = "sender" THEN [state |-> "connecting", done |-> {}]
                                               ELSE NoTask]
  /\ records = tasks
  /\ work = [d \in Device |-> [pc |-> IF d = "sender" THEN "dial" ELSE "none", next |-> 1,
                               cancelled |-> FALSE, outcome |-> "failed"]]
  /\ stored = [f \in File |-> "none"]
  /\ requests = <<>>
  /\ results = <<>>
  /\ faults = 0
  /\ restarts = 0
  /\ delivered = FALSE
  /\ removed = FALSE
  /\ disturbed = FALSE

SenderStep ==
  \/ Dial \/ SendOffer \/ Accepted \/ FileConfirmed \/ AskVerify \/ Confirmed
  \/ SendFile("whole") \/ SendFile("changed")
  \/ SenderRefused \/ SenderFinishes \/ SenderStuck \/ CancelledReturns("sender")
ReceiverStep ==
  \/ \E ok \in BOOLEAN : ReceiveHello(ok)
  \/ ReceiveOffer \/ RefuseOffer \/ Bind \/ BindFails
  \/ ReceiveFile \/ RefuseFile \/ FileStored \/ AllReceived
  \/ ReceiverFinishes \/ Acknowledge \/ ReceiverStuck \/ CancelledReturns("receiver")
Disturbance ==
  \/ SenderFails \/ ReceiverFails
  \/ \E d \in Device : Cancel(d) \/ Restart(d)
  \/ \E deleteFiles \in BOOLEAN : Remove(deleteFiles)

Next == SenderStep \/ ReceiverStep \/ Disturbance

Spec == Init /\ [][Next]_vars

\* Goroutines run, and a read returns once the connection is dead or its
\* deadline has come (two hours on both sides).
FairSpec == Spec /\ WF_vars(SenderStep) /\ WF_vars(ReceiverStep)

-----------------------------------------------------------------------------
(* What the transfer promises                                              *)

\* The two devices seen as TransferDelivery: the sender by what it tells its
\* user, the receiver by its record and directory, which outlive a crash.
Sent == IF Active(tasks["sender"]) THEN "open"
        ELSE IF tasks["sender"].state = "complete" THEN "complete" ELSE "unfinished"
Received == IF removed THEN "removed"
            ELSE IF records["receiver"] = NoTask THEN "none"
            ELSE IF Active(records["receiver"]) THEN "open"
            ELSE IF records["receiver"].state = "complete" THEN "complete" ELSE "unfinished"
Kept == {f \in File : /\ stored[f] = "whole"
                      /\ records["receiver"] # NoTask /\ f \in records["receiver"].done}

Delivery == INSTANCE TransferDelivery
  WITH sent <- Sent, confirmed <- tasks["sender"].done, received <- Received, kept <- Kept

\* Whatever is lost, cancelled, restarted or not written, the devices say
\* "complete" in the order the promise allows: a file is confirmed only when
\* the receiver has it on disk and in its record, the transfer only after the
\* receiver's record of all files is complete (transfers.go:355).
ImplementsDelivery == Delivery!Spec

\* The same as a state predicate: what the sender calls complete, file by file
\* and as a whole, the receiver holds as it was uploaded, unless its user
\* removed it.  A receiver that crashes or cleans up keeps those files.
ConfirmedFilesKept ==
  \/ removed
  \/ /\ tasks["sender"].done \subseteq Kept
     /\ tasks["sender"].state = "complete" => SavedComplete /\ Kept = File

\* Both devices end their task, however the other behaves.
BothEnd == \A d \in Device : Active(tasks[d]) ~> ~Active(tasks[d])

\* An undisturbed transfer is not ended by an error of the two programs'
\* making: no side waits for a frame the other does not send.
UndisturbedCompletes ==
  <>(disturbed \/ \A d \in Device : tasks[d] # NoTask /\ tasks[d].state = "complete")
=============================================================================
