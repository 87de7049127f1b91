----------------------- MODULE TransferManager_proofs -----------------------
(***************************************************************************)
(* Theorems about TransferManager, for any number of tasks, workers, files *)
(* and faults: types, who works on a task, what is on disk of it, and the  *)
(* room there is for it.                                                   *)
(*                                                                         *)
(* The inductive invariant says of each task what memory, its record and   *)
(* its directory tell about one another (TaskOK), of each worker how far   *)
(* its task is (WorkOK), and of the disk that what it holds and what the   *)
(* tasks at work are going to put there fit together (Fits).               *)
(***************************************************************************)
EXTENDS TransferManager, FiniteSetTheorems, TLAPS

Whole(task) == \A f \in File : task.files[f] = "complete"

\* A task nobody has worked on yet.
Pristine(t) ==
  /\ tasks[t].state = IF tasks[t].direction = "send" THEN "preparing" ELSE "receiving"
  /\ tasks[t].done = 0
  /\ \A f \in File : ~Stored(tasks[t], f)
  /\ parts[t] = {} /\ blobs[t] = {}

\* What is on disk of an ended task, in memory or in its record.
Tidy(task, t) ==
  /\ parts[t] = {}
  /\ \A f \in blobs[t] : Stored(task, f)
  /\ task.state = "complete" => Whole(task)

\* What memory or the record says of the files of a task.
Truthful(task, t) ==
  task # NoTask =>
    /\ ~Active(task.state) => Tidy(task, t)
    /\ t \notin purged => \A f \in File : Stored(task, f) => f \in blobs[t]

Storing(t) == tasks[t].state \in {"preparing", "receiving"}
TaskOK(t) ==
  /\ tasks[t] # NoTask \/ records[t] # NoTask \/ t \in stopped => t \in used
  /\ t \notin used => parts[t] = {} /\ blobs[t] = {}
  /\ IsActive(t) =>
       /\ records[t] # NoTask /\ Active(records[t].state)
       /\ cancels[t] = NoCancel => Pristine(t) /\ t \notin stopped
       /\ Storing(t) => parts[t] \cup blobs[t] \subseteq 1..tasks[t].done
  /\ tasks[t] # NoTask /\ records[t] # NoTask =>
       \A f \in File : Stored(records[t], f) => Stored(tasks[t], f)
  /\ Truthful(tasks[t], t)
  /\ Truthful(records[t], t)

\* A goroutine that is not idle has a task of its direction; once bound, it
\* has the task to itself, and knows of its cancellation.
Assigned(w) ==
  LET t == work[w].task IN
  work[w].pc # "idle" =>
    /\ t \in used
    /\ tasks[t] # NoTask => (tasks[t].direction = "receive" <=> work[w].kind = "receive")
    /\ work[w].pc = "bind" => work[w].kind # "send" /\ work[w].next = 1
Owned(w) ==
  LET t == work[w].task IN
  Bound(w) => /\ IsActive(t)
              /\ cancels[t] = <<w, work[w].kind>>
              /\ t \in stopped => work[w].cancelled

\* How far a worker is: what its task says it has done, and what is on disk.
Steps(r, task) ==
  /\ r.kind = "upload" => /\ task.state = "preparing" \/ r.pc \in {"failing", "finish"}
                          /\ task.state \in {"preparing", "connecting"}
                          /\ r.pc \notin {"dial", "send", "sent", "verify"}
  /\ r.kind = "receive" => /\ task.state = "receiving"
                           /\ r.pc \notin {"dial", "send", "sent", "verify"}
  /\ r.kind = "send" => /\ task.state \in {"connecting", "sending", "verifying"}
                        /\ r.pc \notin {"write", "rename", "record"}
  /\ r.pc \in {"rename", "record", "sent"} => r.next \in File /\ task.done = r.next
  /\ r.pc \in {"write", "dial", "send"} => task.done = r.next - 1
  /\ r.pc = "verify" => r.next = NFiles + 1
  /\ r.pc \in {"write", "rename", "record", "dial", "send", "sent", "verify"} =>
       \A f \in File : f < r.next => /\ Stored(task, f)
                                     /\ r.kind # "upload" => task.files[f] = "complete"
  /\ r.pc = "finish" /\ r.outcome = "complete" => r.kind # "upload" /\ Whole(task)
  /\ r.pc = "finish" => r.outcome # "interrupted"
OnDisk(r, partial, full) ==
  /\ r.kind = "send" => partial = {} /\ full = File
  /\ r.pc = "write" => partial = {} /\ full = 1..(r.next - 1)
  /\ r.pc = "rename" => partial = {r.next} /\ full = 1..(r.next - 1)
  /\ r.pc = "record" => partial = {} /\ full = 1..r.next
  /\ r.pc = "finish" /\ r.outcome = "complete" => partial = {}
Placed(w) ==
  LET t == work[w].task IN
  Bound(w) => Steps(work[w], tasks[t]) /\ OnDisk(work[w], parts[t], blobs[t])
WorkOK(w) == Assigned(w) /\ Owned(w) /\ Placed(w)

\* A task is received by the goroutine that created it.
Receives(w) == work[w].pc # "idle" /\ work[w].kind = "receive"
OneReceiver ==
  \A w, x \in Worker :
    Receives(w) /\ Receives(x) /\ work[w].task = work[x].task => w = x

Down == service = "down" => /\ starts < MaxStarts
                            /\ \A t \in Task : tasks[t] = NoTask
                            /\ \A w \in Worker : work[w].pc = "idle"

\* The space a task has, and is going to take.
Claim(t) == {f \in File : \/ f \in parts[t] \cup blobs[t]
                          \/ t \in Writing /\ f > tasks[t].done}
Claims == {tf \in Task \X File : tf[2] \in Claim(tf[1])}
Fits == Cardinality(Claims) <= space

IInv == /\ TypeOK
        /\ \A t \in Task : TaskOK(t)
        /\ \A w \in Worker : WorkOK(w)
        /\ OneReceiver /\ Down /\ Fits

-----------------------------------------------------------------------------
(* Records                                                                 *)

\* A task with another state.
LEMMA InState ==
  ASSUME NEW task \in TaskRecord, NEW s \in ActiveState \cup EndedState
  PROVE  LET new == [task EXCEPT !.state = s] IN
         /\ new \in TaskRecord
         /\ new.state = s /\ new.direction = task.direction
         /\ new.files = task.files /\ new.done = task.done
BY DEF TaskRecord

\* A task with another progress.
LEMMA AtProgress ==
  ASSUME NEW task \in TaskRecord, NEW n \in 0..NFiles
  PROVE  LET new == [task EXCEPT !.done = n] IN
         /\ new \in TaskRecord
         /\ new.state = task.state /\ new.direction = task.direction
         /\ new.files = task.files /\ new.done = n
BY DEF TaskRecord

\* A task with one file marked.
LEMMA WithFile ==
  ASSUME NEW task \in TaskRecord, NEW f \in File, NEW mark \in FileState
  PROVE  LET new == [task EXCEPT !.files[f] = mark] IN
         /\ new \in TaskRecord
         /\ new.state = task.state /\ new.direction = task.direction
         /\ new.done = task.done
         /\ new.files[f] = mark
         /\ \A g \in File \ {f} : new.files[g] = task.files[g]
BY DEF TaskRecord

\* Cleaning marks files; the ones that are stored stay so.
LEMMA CleanedIs ==
  ASSUME NEW task \in TaskRecord
  PROVE  /\ Cleaned(task) \in TaskRecord
         /\ Cleaned(task).state = task.state
         /\ Cleaned(task).direction = task.direction
         /\ Cleaned(task).done = task.done
         /\ \A f \in File : Stored(Cleaned(task), f) <=> Stored(task, f)
<1> DEFINE marks == [f \in File |-> IF Stored(task, f) THEN task.files[f] ELSE "interrupted"]
<1>1. task.files \in [File -> FileState]
  BY DEF TaskRecord
<1>2. marks \in [File -> FileState]
  BY <1>1 DEF FileState
<1>3. Cleaned(task) = [task EXCEPT !.files = marks]
  BY DEF Cleaned
<1>4. \A f \in File : marks[f] = IF Stored(task, f) THEN task.files[f] ELSE "interrupted"
  OBVIOUS
<1> HIDE DEF marks
<1>5. /\ Cleaned(task) \in TaskRecord
      /\ Cleaned(task).state = task.state
      /\ Cleaned(task).direction = task.direction
      /\ Cleaned(task).done = task.done
      /\ Cleaned(task).files = marks
  BY <1>2, <1>3 DEF TaskRecord
<1> QED BY <1>4, <1>5 DEF Stored

\* A task cleaned and ended.
LEMMA EndedIs ==
  ASSUME NEW task \in TaskRecord, NEW s \in EndedState
  PROVE  LET new == [Cleaned(task) EXCEPT !.state = s] IN
         /\ new \in TaskRecord
         /\ new.state = s /\ new.direction = task.direction
         /\ new.done = task.done
         /\ \A f \in File : Stored(new, f) <=> Stored(task, f)
<1>1. Cleaned(task) \in TaskRecord
  BY CleanedIs
<1> DEFINE new == [Cleaned(task) EXCEPT !.state = s]
<1>2. /\ new \in TaskRecord
      /\ new.state = s /\ new.direction = Cleaned(task).direction
      /\ new.files = Cleaned(task).files /\ new.done = Cleaned(task).done
  BY <1>1, InState
<1> HIDE DEF new
<1>3. /\ new \in TaskRecord
      /\ new.state = s /\ new.direction = task.direction
      /\ new.done = task.done
      /\ \A f \in File : Stored(new, f) <=> Stored(task, f)
  BY <1>2, CleanedIs DEF Stored
<1> QED BY <1>3 DEF new

LEMMA FreshIs ==
  ASSUME NEW direction \in {"send", "receive"}
  PROVE  /\ Fresh(direction) \in TaskRecord
         /\ Fresh(direction).direction = direction
         /\ Fresh(direction).state = IF direction = "send" THEN "preparing" ELSE "receiving"
         /\ Fresh(direction).done = 0
         /\ \A f \in File : ~Stored(Fresh(direction), f)
BY TransferAssumption DEF Fresh, TaskRecord, FileState, Stored, ActiveState

LEMMA IdleIs == Idle \in Work /\ Idle.pc = "idle"
BY TransferAssumption DEF Idle, Work, WorkPc, Kind, EndedState

LEMMA BeginIs ==
  ASSUME NEW t \in Task, NEW kind \in Kind, NEW source \in Task \cup {NoTask}, NEW cancelled \in BOOLEAN
  PROVE  LET r == Begin(t, kind, source, cancelled) IN
         /\ r \in Work
         /\ r.pc = "bind" /\ r.kind = kind /\ r.task = t /\ r.next = 1
         /\ r.cancelled = cancelled /\ r.source = source
<1>1. Idle \in Work /\ Idle.next = 1
  BY IdleIs DEF Idle
<1> DEFINE r == [Idle EXCEPT !.pc = "bind", !.kind = kind, !.task = t, !.source = source,
                            !.cancelled = cancelled]
<1>2. /\ r \in Work
      /\ r.pc = "bind" /\ r.kind = kind /\ r.task = t /\ r.next = 1
      /\ r.cancelled = cancelled /\ r.source = source
  BY <1>1 DEF Work, WorkPc
<1> QED BY <1>2 DEF Begin

-----------------------------------------------------------------------------
(* A step touches one task, and one worker or none                         *)

OnlyTask(t) ==
  /\ \A s \in Task \ {t} :
       /\ tasks'[s] = tasks[s] /\ records'[s] = records[s] /\ cancels'[s] = cancels[s]
       /\ parts'[s] = parts[s] /\ blobs'[s] = blobs[s]
       /\ s \in used' <=> s \in used
       /\ s \in purged' <=> s \in purged
       /\ s \in stopped' <=> s \in stopped
  /\ used \subseteq used'

\* The task keeps its direction, or goes.
SameDirection(t) ==
  tasks'[t] # NoTask => tasks[t] # NoTask /\ tasks'[t].direction = tasks[t].direction

\* The other workers are not at work on the task; they may be about to be.
Unshared(t, W) ==
  \A x \in W : work[x].pc # "idle" /\ work[x].task = t => ~Bound(x) /\ SameDirection(t)

LEMMA OtherTask ==
  ASSUME NEW t \in Task, NEW s \in Task \ {t}, OnlyTask(t), TaskOK(s)
  PROVE  TaskOK(s)'
<1>1. /\ tasks'[s] = tasks[s] /\ records'[s] = records[s] /\ cancels'[s] = cancels[s]
      /\ parts'[s] = parts[s] /\ blobs'[s] = blobs[s]
      /\ s \in used' <=> s \in used
      /\ s \in purged' <=> s \in purged
      /\ s \in stopped' <=> s \in stopped
  BY DEF OnlyTask
<1>2. IsActive(s)' <=> IsActive(s)
  BY <1>1 DEF IsActive
<1>3. Truthful(tasks[s], s)' /\ Truthful(records[s], s)'
  BY <1>1 DEF TaskOK, Truthful, Tidy
<1>4. Pristine(s)' <=> Pristine(s)
  BY <1>1 DEF Pristine
<1>5. Storing(s)' <=> Storing(s)
  BY <1>1 DEF Storing
<1> QED BY <1>1, <1>2, <1>3, <1>4, <1>5 DEF TaskOK

LEMMA OtherWorker ==
  ASSUME NEW x \in Worker, TypeOK, WorkOK(x), work'[x] = work[x],
         NEW t \in Task, OnlyTask(t), Unshared(t, {x})
  PROVE  WorkOK(x)'
<1>0. CASE work[x].pc = "idle"
  BY <1>0 DEF WorkOK, Assigned, Owned, Placed, Bound
<1>1. CASE work[x].pc # "idle" /\ work[x].task = t
  <2>1. ~Bound(x) /\ ~Bound(x)' /\ SameDirection(t)
    BY <1>1 DEF Unshared, Bound
  <2>2. Assigned(x)'
    BY <1>1, <2>1 DEF WorkOK, Assigned, SameDirection, OnlyTask
  <2> QED BY <2>1, <2>2 DEF WorkOK, Owned, Placed
<1>2. CASE work[x].pc # "idle" /\ work[x].task # t
  <2> DEFINE s == work[x].task
  <2>1. s \in Task \ {t}
    BY <1>2 DEF WorkOK, Assigned, TypeOK
  <2>2. /\ tasks'[s] = tasks[s] /\ cancels'[s] = cancels[s]
        /\ parts'[s] = parts[s] /\ blobs'[s] = blobs[s]
        /\ s \in used' <=> s \in used
        /\ s \in stopped' <=> s \in stopped
    BY <2>1 DEF OnlyTask
  <2>3. Assigned(x)'
    BY <2>2 DEF WorkOK, Assigned
  <2>4. Owned(x)'
    BY <2>2 DEF WorkOK, Owned, IsActive, Bound
  <2>5. Placed(x)'
    BY <2>2 DEF WorkOK, Placed, Bound
  <2> QED BY <2>3, <2>4, <2>5 DEF WorkOK
<1> QED BY <1>0, <1>1, <1>2

LEMMA FiniteClaims ==
  /\ IsFiniteSet(Task \X File)
  /\ \A S \in SUBSET (Task \X File) : IsFiniteSet(S) /\ Cardinality(S) \in Nat
<1>1. IsFiniteSet(File)
  BY TransferAssumption, FS_Interval DEF File
<1>2. IsFiniteSet(Task \X File)
  BY <1>1, TransferAssumption, FS_Product
<1> QED BY <1>2, FS_Subset, FS_CardinalityType

\* A claim that does not grow fits as before.
LEMMA FitsKept ==
  ASSUME Fits, space' = space, space \in Nat, \A t \in Task : Claim(t)' \subseteq Claim(t)
  PROVE  Fits'
<1>1. Claims' \subseteq Claims
  BY DEF Claims
<1>2. Claims \in SUBSET (Task \X File) /\ Claims' \in SUBSET (Task \X File)
  BY DEF Claims
<1>3. /\ Cardinality(Claims') <= Cardinality(Claims)
      /\ Cardinality(Claims') \in Nat /\ Cardinality(Claims) \in Nat
  BY <1>1, <1>2, FiniteClaims, FS_Subset
<1> QED BY <1>3 DEF Fits

\* The claim of a task the step does not touch.
LEMMA OtherClaim ==
  ASSUME NEW t \in Task, NEW s \in Task \ {t}, OnlyTask(t)
  PROVE  Claim(s)' = Claim(s)
BY DEF OnlyTask, Claim, Writing, ActiveTasks, IsActive

OnlyWorker(w) == \A x \in Worker \ {w} : work'[x] = work[x]

\* A worker receives what it received before, if anything.
SameReceipt(w) == Receives(w)' => Receives(w) /\ work'[w].task = work[w].task

LEMMA ReceiversKept ==
  ASSUME OneReceiver, \A w \in Worker : SameReceipt(w)
  PROVE  OneReceiver'
<1> SUFFICES ASSUME NEW w \in Worker, NEW x \in Worker,
                    Receives(w)', Receives(x)', (work[w].task = work[x].task)'
             PROVE  w = x
  BY DEF OneReceiver
<1>1. Receives(w) /\ Receives(x) /\ work[w].task = work[x].task
  BY DEF SameReceipt
<1> QED BY <1>1 DEF OneReceiver

\* A step of one worker on its task.
LEMMA WorkerStep ==
  ASSUME IInv, TypeOK', NEW t \in Task, NEW w \in Worker,
         OnlyTask(t), OnlyWorker(w), Unshared(t, Worker \ {w}),
         TaskOK(t)', WorkOK(w)', SameReceipt(w),
         Claim(t)' \subseteq Claim(t), space' = space,
         service # "down", service' = service
  PROVE  IInv'
<1>1. \A s \in Task : TaskOK(s)'
  BY OtherTask DEF IInv
<1>2. \A x \in Worker : WorkOK(x)'
  <2> SUFFICES ASSUME NEW x \in Worker \ {w} PROVE WorkOK(x)'
    OBVIOUS
  <2>1. work'[x] = work[x] /\ Unshared(t, {x}) /\ WorkOK(x) /\ TypeOK
    BY DEF OnlyWorker, Unshared, IInv
  <2> QED BY <2>1, OtherWorker
<1>3. OneReceiver'
  <2>1. \A x \in Worker : SameReceipt(x)
    BY DEF SameReceipt, OnlyWorker, Receives
  <2> QED BY <2>1, ReceiversKept DEF IInv
<1>4. Down'
  BY DEF Down
<1>5. Fits'
  <2>1. \A s \in Task : Claim(s)' \subseteq Claim(s)
    BY OtherClaim
  <2>2. space \in Nat
    BY TransferAssumption DEF IInv, TypeOK
  <2> QED BY <2>1, <2>2, FitsKept DEF IInv
<1> QED BY <1>1, <1>2, <1>3, <1>4, <1>5 DEF IInv

\* A step on a task nobody is at work on.
LEMMA TaskStep ==
  ASSUME IInv, TypeOK', NEW t \in Task, OnlyTask(t), work' = work, Unshared(t, Worker),
         TaskOK(t)', Fits', service # "down", service' = service
  PROVE  IInv'
<1>1. \A s \in Task : TaskOK(s)'
  BY OtherTask DEF IInv
<1>2. \A x \in Worker : WorkOK(x)'
  <2> SUFFICES ASSUME NEW x \in Worker PROVE WorkOK(x)'
    OBVIOUS
  <2>1. work'[x] = work[x] /\ Unshared(t, {x}) /\ WorkOK(x) /\ TypeOK
    BY DEF Unshared, IInv
  <2> QED BY <2>1, OtherWorker
<1>3. OneReceiver'
  BY DEF IInv, OneReceiver, Receives
<1>4. Down'
  BY DEF Down
<1> QED BY <1>1, <1>2, <1>3, <1>4 DEF IInv

\* A step of one worker that leaves the tasks alone.
LEMMA WorkerAlone ==
  ASSUME IInv, TypeOK', NEW w \in Worker, OnlyWorker(w), WorkOK(w)', SameReceipt(w),
         UNCHANGED <<tasks, records, parts, blobs, cancels, used, purged, stopped, space, service>>,
         service # "down"
  PROVE  IInv'
<1>1. \A t \in Task : TaskOK(t)'
  BY DEF IInv, TaskOK, IsActive, Truthful, Tidy, Pristine, Storing
<1>2. \A x \in Worker : WorkOK(x)'
  <2> SUFFICES ASSUME NEW x \in Worker \ {w} PROVE WorkOK(x)'
    OBVIOUS
  <2>1. work'[x] = work[x] /\ WorkOK(x)
    BY DEF OnlyWorker, IInv
  <2> QED BY <2>1 DEF WorkOK, Assigned, Owned, Placed, Bound, IsActive
<1>3. OneReceiver'
  <2>1. \A x \in Worker : SameReceipt(x)
    BY DEF SameReceipt, OnlyWorker, Receives
  <2> QED BY <2>1, ReceiversKept DEF IInv
<1>4. Down' /\ Fits'
  BY DEF Down, IInv, Fits, Claims, Claim, Writing, ActiveTasks, IsActive
<1> QED BY <1>1, <1>2, <1>3, <1>4 DEF IInv

-----------------------------------------------------------------------------
(* A new task                                                              *)

LEMMA CreateFits ==
  ASSUME IInv, NEW t \in Task, t \notin used, Admits, space' = space,
         \A s \in Task \ {t} : Claim(s)' \subseteq Claim(s)
  PROVE  Fits'
<1> DEFINE Old == {tf \in Task \X File : tf[2] \in parts[tf[1]] \cup blobs[tf[1]]}
           Rest == {tf \in ActiveTasks \X File : tf[2] > tasks[tf[1]].done}
           Mine == {t} \X File
<1>1. Claims' \subseteq Old \cup Rest \cup Mine
  <2> SUFFICES ASSUME NEW tf \in Task \X File, tf[2] \in Claim(tf[1])', tf[1] # t
               PROVE  tf \in Old \cup Rest
    BY DEF Claims
  <2>1. tf[2] \in Claim(tf[1])
    OBVIOUS
  <2> QED BY <2>1 DEF Claim, Writing
<1>2. IsFiniteSet(Mine) /\ Cardinality(Mine) = NFiles
  <2>1. IsFiniteSet(File) /\ Cardinality(File) = NFiles
    BY TransferAssumption, FS_Interval DEF File
  <2>2. IsFiniteSet({t}) /\ Cardinality({t}) = 1
    BY FS_Singleton
  <2>3. IsFiniteSet(Mine) /\ Cardinality(Mine) = 1 * Cardinality(File)
    BY <2>1, <2>2, FS_Product
  <2> QED BY <2>1, <2>3, TransferAssumption
<1>3. Old \in SUBSET (Task \X File) /\ Rest \in SUBSET (Task \X File)
  BY DEF ActiveTasks
<1>4. /\ IsFiniteSet(Old) /\ IsFiniteSet(Rest)
      /\ Cardinality(Old) \in Nat /\ Cardinality(Rest) \in Nat
  BY <1>3, FiniteClaims
<1>5. NFiles + Cardinality(Rest) <= space - Cardinality(Old)
  BY DEF Admits, Free, Outstanding
<1> HIDE DEF Old, Rest, Mine
<1>6. /\ IsFiniteSet(Old \cup Rest)
      /\ Cardinality(Old \cup Rest) <= Cardinality(Old) + Cardinality(Rest)
      /\ Cardinality(Old \cup Rest) \in Nat
  <2>1. /\ IsFiniteSet(Old \cup Rest)
        /\ Cardinality(Old \cup Rest)
             = Cardinality(Old) + Cardinality(Rest) - Cardinality(Old \cap Rest)
    BY <1>4, FS_Union
  <2>2. Cardinality(Old \cap Rest) \in Nat
    BY <1>4, FS_Intersection, FS_CardinalityType
  <2> QED BY <1>4, <2>1, <2>2, FS_CardinalityType
<1>7. /\ IsFiniteSet(Old \cup Rest \cup Mine)
      /\ Cardinality(Old \cup Rest \cup Mine) <= Cardinality(Old \cup Rest) + NFiles
  <2>1. /\ IsFiniteSet(Old \cup Rest \cup Mine)
        /\ Cardinality(Old \cup Rest \cup Mine)
             = Cardinality(Old \cup Rest) + NFiles - Cardinality((Old \cup Rest) \cap Mine)
    BY <1>2, <1>6, FS_Union
  <2>2. Cardinality((Old \cup Rest) \cap Mine) \in Nat
    BY <1>6, FS_Intersection, FS_CardinalityType
  <2> QED BY <1>6, <2>1, <2>2, TransferAssumption
<1>8. Cardinality(Claims') <= Cardinality(Old \cup Rest \cup Mine) /\ Cardinality(Claims') \in Nat
  BY <1>1, <1>7, FS_Subset, FS_CardinalityType
<1>9. space \in Nat
  BY TransferAssumption DEF IInv, TypeOK
<1>10. Cardinality(Old \cup Rest \cup Mine) \in Nat
  BY <1>7, FS_CardinalityType
<1> QED BY <1>4, <1>5, <1>6, <1>7, <1>8, <1>9, <1>10, TransferAssumption DEF Fits

LEMMA TaskSet ==
  ASSUME tasks \in [Task -> TaskRecord \cup {NoTask}], NEW t \in Task,
         NEW task \in TaskRecord \cup {NoTask}, tasks' = [tasks EXCEPT ![t] = task]
  PROVE  /\ tasks' \in [Task -> TaskRecord \cup {NoTask}]
         /\ tasks'[t] = task
         /\ \A s \in Task \ {t} : tasks'[s] = tasks[s]
OBVIOUS

LEMMA RecordSet ==
  ASSUME records \in [Task -> TaskRecord \cup {NoTask}], NEW t \in Task,
         NEW task \in TaskRecord \cup {NoTask}, records' = [records EXCEPT ![t] = task]
  PROVE  /\ records' \in [Task -> TaskRecord \cup {NoTask}]
         /\ records'[t] = task
         /\ \A s \in Task \ {t} : records'[s] = records[s]
OBVIOUS

LEMMA WorkerSet ==
  ASSUME work \in [Worker -> Work], NEW w \in Worker, NEW r \in Work, work' = [work EXCEPT ![w] = r]
  PROVE  /\ work' \in [Worker -> Work]
         /\ work'[w] = r
         /\ OnlyWorker(w)
BY DEF OnlyWorker

LEMMA Created ==
  ASSUME IInv, NEW t \in Task, NEW direction \in {"send", "receive"}, Create(t, direction),
         UNCHANGED <<parts, blobs, cancels, space, purged, stopped>>
  PROVE  /\ tasks' \in [Task -> TaskRecord \cup {NoTask}]
         /\ records' \in [Task -> TaskRecord \cup {NoTask}]
         /\ used' \in SUBSET Task /\ t \in used' /\ t \notin used /\ UNCHANGED faults
         /\ tasks'[t] # NoTask /\ tasks'[t].direction = direction
         /\ OnlyTask(t) /\ Unshared(t, Worker) /\ TaskOK(t)' /\ Fits'
<1> DEFINE task == Fresh(direction)
<1>0. /\ task \in TaskRecord /\ task # NoTask
      /\ task.direction = direction
      /\ task.state = IF direction = "send" THEN "preparing" ELSE "receiving"
      /\ task.done = 0
      /\ \A f \in File : ~Stored(task, f)
  BY FreshIs, NoneAssumption
<1>1. /\ tasks' = [tasks EXCEPT ![t] = task] /\ records' = [records EXCEPT ![t] = task]
      /\ used' = used \cup {t} /\ t \notin used /\ Admits /\ UNCHANGED faults
  BY DEF Create, Persist
<1> HIDE DEF task
<1>2. TypeOK /\ TaskOK(t)
  BY DEF IInv
<1>3. /\ tasks' \in [Task -> TaskRecord \cup {NoTask}]
      /\ tasks'[t] = task
      /\ \A s \in Task \ {t} : tasks'[s] = tasks[s]
  BY <1>0, <1>1, <1>2, TaskSet DEF TypeOK
<1>4. /\ records' \in [Task -> TaskRecord \cup {NoTask}]
      /\ records'[t] = task
      /\ \A s \in Task \ {t} : records'[s] = records[s]
  BY <1>0, <1>1, <1>2, RecordSet DEF TypeOK
<1>5. used' \in SUBSET Task /\ t \in used'
  BY <1>1, <1>2 DEF TypeOK
<1>6. OnlyTask(t)
  BY <1>1, <1>3, <1>4 DEF OnlyTask
<1>7. Unshared(t, Worker)
  BY <1>1 DEF Unshared, IInv, WorkOK, Assigned
<1>8. TaskOK(t)'
  <2>1. /\ tasks[t] = NoTask /\ records[t] = NoTask /\ t \notin stopped
        /\ parts[t] = {} /\ blobs[t] = {}
    BY <1>1, <1>2 DEF TaskOK
  <2>2. parts'[t] = {} /\ blobs'[t] = {} /\ t \notin stopped'
    BY <2>1
  <2>3. IsActive(t)' /\ Active(task.state)
    BY <1>0, <1>3 DEF IsActive, Active, ActiveState
  <2>4. Pristine(t)'
    BY <1>0, <1>3, <2>2 DEF Pristine
  <2>5. Truthful(tasks[t], t)' /\ Truthful(records[t], t)'
    BY <1>0, <1>3, <1>4, <2>3 DEF Truthful
  <2>6. \A f \in File : Stored(records'[t], f) => Stored(tasks'[t], f)
    BY <1>3, <1>4
  <2>7. (parts[t] \cup blobs[t] \subseteq 1..tasks[t].done)'
    BY <2>2
  <2> QED BY <1>0, <1>3, <1>4, <1>5, <2>2, <2>3, <2>4, <2>5, <2>6, <2>7 DEF TaskOK
<1>9. Fits'
  <2>1. \A s \in Task \ {t} : Claim(s)' \subseteq Claim(s)
    BY <1>6, OtherClaim
  <2> QED BY <1>1, <2>1, CreateFits
<1> QED BY <1>0, <1>1, <1>3, <1>4, <1>5, <1>6, <1>7, <1>8, <1>9

\* A worker comes with the new task.
LEMMA NewTaskStep ==
  ASSUME IInv, TypeOK', NEW t \in Task, NEW w \in Worker,
         OnlyTask(t), Unshared(t, Worker), TaskOK(t)', Fits', service # "down", service' = service,
         WorkOK(w)', OnlyWorker(w), OneReceiver'
  PROVE  IInv'
<1>1. \A s \in Task : TaskOK(s)'
  BY OtherTask DEF IInv
<1>2. \A x \in Worker : WorkOK(x)'
  <2> SUFFICES ASSUME NEW x \in Worker \ {w} PROVE WorkOK(x)'
    OBVIOUS
  <2>1. work'[x] = work[x] /\ Unshared(t, {x}) /\ WorkOK(x) /\ TypeOK
    BY DEF OnlyWorker, Unshared, IInv
  <2> QED BY <2>1, OtherWorker
<1>3. Down'
  BY DEF Down
<1> QED BY <1>1, <1>2, <1>3 DEF IInv

LEMMA CreateTransferKeeps ==
  ASSUME IInv, NEW t \in Task, CreateTransfer(t) PROVE IInv'
<1>1. /\ service = "up" /\ Create(t, "send")
      /\ UNCHANGED <<parts, blobs, cancels, work, expired, host, purged, stopped>>
  BY DEF CreateTransfer
<1>2. /\ tasks' \in [Task -> TaskRecord \cup {NoTask}]
      /\ records' \in [Task -> TaskRecord \cup {NoTask}]
      /\ used' \in SUBSET Task /\ UNCHANGED faults
      /\ OnlyTask(t) /\ Unshared(t, Worker) /\ TaskOK(t)' /\ Fits'
  BY <1>1, Created DEF host
<1>3. TypeOK'
  BY <1>1, <1>2 DEF IInv, TypeOK, host
<1> QED BY <1>1, <1>2, <1>3, TaskStep DEF host

\* A worker takes up a task.
Takes(w, t, kind) ==
  /\ work' \in [Worker -> Work] /\ OnlyWorker(w)
  /\ work'[w].pc = "bind" /\ work'[w].kind = kind /\ work'[w].task = t
  /\ work'[w].next = 1

LEMMA BeginTakes ==
  ASSUME TypeOK, NEW w \in Worker, NEW t \in Task, NEW kind \in Kind,
         NEW source \in Task \cup {NoTask}, NEW cancelled \in BOOLEAN,
         work' = [work EXCEPT ![w] = Begin(t, kind, source, cancelled)]
  PROVE  Takes(w, t, kind)
<1> DEFINE r == Begin(t, kind, source, cancelled)
<1>1. /\ r \in Work
      /\ r.pc = "bind" /\ r.kind = kind /\ r.task = t /\ r.next = 1
  BY BeginIs
<1> HIDE DEF r
<1>2. work' \in [Worker -> Work] /\ work'[w] = r /\ OnlyWorker(w)
  BY <1>1, WorkerSet DEF r, TypeOK
<1> QED BY <1>1, <1>2 DEF Takes

\* A worker that has taken up a task of its direction, and nothing done.
LEMMA TakenOK ==
  ASSUME NEW w \in Worker, NEW t \in Task, NEW kind \in {"upload", "receive"},
         Takes(w, t, kind), t \in used',
         tasks'[t] # NoTask => (tasks'[t].direction = "receive" <=> kind = "receive")
  PROVE  WorkOK(w)'
<1>1. Assigned(w)'
  BY DEF Takes, Assigned
<1>2. ~Bound(w)'
  BY DEF Takes, Bound
<1> QED BY <1>1, <1>2 DEF WorkOK, Owned, Placed

LEMMA UploadTransferKeeps ==
  ASSUME IInv, NEW w \in Worker, NEW t \in Task, UploadTransfer(w, t) PROVE IInv'
<1>1. /\ service = "up" /\ work[w].pc = "idle"
      /\ tasks[t] # NoTask /\ tasks[t].direction = "send"
      /\ work' = [work EXCEPT ![w] = Begin(t, "upload", NoTask, FALSE)]
      /\ UNCHANGED <<tasks, records, parts, blobs, cancels, expired, service, starts, space,
                     faults, used, purged, stopped>>
  BY DEF UploadTransfer, disk, host, history
<1>2. TypeOK /\ TaskOK(t)
  BY DEF IInv
<1>3. Takes(w, t, "upload")
  BY <1>1, <1>2, BeginTakes DEF Kind
<1>4. TypeOK'
  BY <1>1, <1>2, <1>3 DEF TypeOK, Takes
<1>5. WorkOK(w)'
  <2>1. t \in used'
    BY <1>1, <1>2 DEF TaskOK
  <2> QED BY <1>1, <1>3, <2>1, TakenOK
<1>6. OnlyWorker(w) /\ SameReceipt(w)
  BY <1>3 DEF SameReceipt, Takes, Receives
<1> QED BY <1>1, <1>4, <1>5, <1>6, WorkerAlone

LEMMA RetryTransferKeeps ==
  ASSUME IInv, NEW w \in Worker, NEW old \in Task, NEW t \in Task, RetryTransfer(w, old, t)
  PROVE  IInv'
<1>1. /\ service = "up" /\ work[w].pc = "idle" /\ Create(t, "send")
      /\ work' = [work EXCEPT ![w] = Begin(t, "upload", old, FALSE)]
      /\ UNCHANGED <<parts, blobs, cancels, expired, service, starts, space, purged, stopped>>
  BY DEF RetryTransfer, host
<1>2. /\ tasks' \in [Task -> TaskRecord \cup {NoTask}]
      /\ records' \in [Task -> TaskRecord \cup {NoTask}]
      /\ used' \in SUBSET Task /\ t \in used' /\ t \notin used /\ UNCHANGED faults
      /\ tasks'[t] # NoTask /\ tasks'[t].direction = "send"
      /\ OnlyTask(t) /\ Unshared(t, Worker) /\ TaskOK(t)' /\ Fits'
  BY <1>1, Created
<1>3. TypeOK
  BY DEF IInv
<1>4. Takes(w, t, "upload")
  BY <1>1, <1>3, BeginTakes DEF Kind
<1>5. TypeOK'
  BY <1>1, <1>2, <1>3, <1>4 DEF TypeOK, Takes
<1>6. WorkOK(w)'
  BY <1>2, <1>4, TakenOK
<1>7. \A x \in Worker : SameReceipt(x)
  BY <1>4 DEF SameReceipt, Takes, OnlyWorker, Receives
<1> QED BY <1>1, <1>2, <1>4, <1>5, <1>6, <1>7, ReceiversKept, NewTaskStep DEF IInv, Takes

LEMMA OfferKeeps ==
  ASSUME IInv, NEW w \in Worker, NEW t \in Task, Offer(w, t) PROVE IInv'
<1>1. /\ service # "down" /\ work[w].pc = "idle" /\ Create(t, "receive")
      /\ work' = [work EXCEPT ![w] = Begin(t, "receive", NoTask, service = "stopping")]
      /\ UNCHANGED <<parts, blobs, cancels, expired, service, starts, space, purged, stopped>>
  BY DEF Offer, host
<1>2. /\ tasks' \in [Task -> TaskRecord \cup {NoTask}]
      /\ records' \in [Task -> TaskRecord \cup {NoTask}]
      /\ used' \in SUBSET Task /\ t \in used' /\ t \notin used /\ UNCHANGED faults
      /\ tasks'[t] # NoTask /\ tasks'[t].direction = "receive"
      /\ OnlyTask(t) /\ Unshared(t, Worker) /\ TaskOK(t)' /\ Fits'
  BY <1>1, Created
<1>3. TypeOK
  BY DEF IInv
<1>4. Takes(w, t, "receive")
  BY <1>1, <1>3, BeginTakes DEF Kind
<1>5. TypeOK'
  BY <1>1, <1>2, <1>3, <1>4 DEF TypeOK, Takes
<1>6. WorkOK(w)'
  BY <1>2, <1>4, TakenOK
<1>7. OneReceiver'
  <2>1. \A x \in Worker \ {w} : Receives(x)' => Receives(x) /\ work'[x].task = work[x].task /\ work[x].task # t
    BY <1>2, <1>4 DEF Takes, OnlyWorker, Receives, IInv, WorkOK, Assigned
  <2> QED BY <1>4, <2>1 DEF Takes, OneReceiver, IInv
<1> QED BY <1>1, <1>2, <1>4, <1>5, <1>6, <1>7, NewTaskStep DEF Takes

-----------------------------------------------------------------------------
(* The end of a task                                                       *)

LEMMA CleanIs ==
  ASSUME TypeOK, NEW t \in Task, Clean(t)
  PROVE  /\ parts' \in [Task -> SUBSET File] /\ blobs' \in [Task -> SUBSET File]
         /\ parts'[t] = {}
         /\ blobs'[t] = {f \in blobs[t] : Stored(tasks[t], f)}
         /\ \A s \in Task \ {t} : parts'[s] = parts[s] /\ blobs'[s] = blobs[s]
<1> DEFINE kept == {f \in blobs[t] : Stored(tasks[t], f)}
<1>1. parts' = [parts EXCEPT ![t] = {}] /\ blobs' = [blobs EXCEPT ![t] = kept]
  BY DEF Clean
<1>2. kept \in SUBSET File
  BY DEF TypeOK
<1> HIDE DEF kept
<1> QED BY <1>1, <1>2 DEF TypeOK, kept

\* A task that has ended, and what it was before.
Ended(task, old) ==
  /\ task \in TaskRecord
  /\ task.state \in EndedState \ {"complete"}
  /\ task.direction = old.direction
  /\ \A f \in File : Stored(task, f) <=> Stored(old, f)

\* The step ends the task without success.
Ends(t) ==
  /\ tasks' \in [Task -> TaskRecord \cup {NoTask}]
  /\ records' \in [Task -> TaskRecord \cup {NoTask}]
  /\ parts' \in [Task -> SUBSET File] /\ blobs' \in [Task -> SUBSET File]
  /\ tasks'[t] # NoTask /\ Ended(tasks'[t], tasks[t]) /\ ~IsActive(t)'
  /\ \A s \in Task \ {t} : /\ tasks'[s] = tasks[s] /\ records'[s] = records[s]
                           /\ parts'[s] = parts[s] /\ blobs'[s] = blobs[s]
  /\ TaskOK(t)'
  /\ Claim(t)' \subseteq Claim(t)

LEMMA CleanEnds ==
  ASSUME IInv, NEW t \in Task, tasks[t] # NoTask, NEW task, Ended(task, tasks[t]),
         tasks' = [tasks EXCEPT ![t] = task],
         records' = [records EXCEPT ![t] = task] \/ records' = records,
         Clean(t), UNCHANGED <<used, purged>>
  PROVE  Ends(t)
<1>1. TypeOK /\ TaskOK(t)
  BY DEF IInv
<1>2. task \in TaskRecord /\ task # NoTask /\ ~Active(task.state) /\ task.state # "complete"
  BY NoneAssumption DEF Ended, Active, ActiveState, EndedState
<1>3. /\ tasks' \in [Task -> TaskRecord \cup {NoTask}]
      /\ tasks'[t] = task
      /\ \A s \in Task \ {t} : tasks'[s] = tasks[s]
  BY <1>1, <1>2, TaskSet DEF TypeOK
<1>4. /\ records' \in [Task -> TaskRecord \cup {NoTask}]
      /\ records'[t] \in {task, records[t]}
      /\ \A s \in Task \ {t} : records'[s] = records[s]
  BY <1>1, <1>2 DEF TypeOK
<1>5. /\ parts' \in [Task -> SUBSET File] /\ blobs' \in [Task -> SUBSET File]
      /\ parts'[t] = {}
      /\ blobs'[t] = {f \in blobs[t] : Stored(tasks[t], f)}
      /\ \A s \in Task \ {t} : parts'[s] = parts[s] /\ blobs'[s] = blobs[s]
  BY <1>1, CleanIs
<1>6. ~IsActive(t)'
  BY <1>2, <1>3 DEF IsActive
<1>7. t \in used'
  BY <1>1 DEF TaskOK
<1>8. \A f \in File : Stored(task, f) <=> Stored(tasks[t], f)
  BY DEF Ended
<1>9. records[t] # NoTask => \A f \in File : Stored(records[t], f) => Stored(tasks[t], f)
  BY <1>1 DEF TaskOK
<1>10. Truthful(tasks[t], t)'
  <2>1. Tidy(tasks[t], t)'
    BY <1>1, <1>2, <1>3, <1>5, <1>8 DEF Tidy, TypeOK
  <2>2. t \notin purged' => \A f \in File : Stored(task, f) => f \in blobs'[t]
    BY <1>1, <1>5, <1>8 DEF TaskOK, Truthful
  <2> QED BY <1>3, <2>1, <2>2 DEF Truthful
<1>11. Truthful(records[t], t)'
  <2>1. CASE records'[t] = task
    BY <1>3, <1>10, <2>1 DEF Truthful, Tidy
  <2>2. CASE records'[t] = records[t]
    <3> SUFFICES ASSUME records[t] # NoTask PROVE Truthful(records[t], t)'
      BY <2>2 DEF Truthful
    <3>1. ~Active(records[t].state) => Tidy(records[t], t)'
      BY <1>1, <1>5, <2>2 DEF TaskOK, Truthful, Tidy
    <3>2. t \notin purged' => \A f \in File : Stored(records[t], f) => f \in blobs'[t]
      BY <1>1, <1>5, <1>9 DEF TaskOK, Truthful
    <3> QED BY <2>2, <3>1, <3>2 DEF Truthful
  <2> QED BY <1>4, <2>1, <2>2
<1>12. records'[t] # NoTask => \A f \in File : Stored(records'[t], f) => Stored(task, f)
  BY <1>4, <1>8, <1>9
<1>13. TaskOK(t)'
  BY <1>3, <1>6, <1>7, <1>10, <1>11, <1>12 DEF TaskOK
<1>14. Claim(t)' \subseteq Claim(t)
  BY <1>5, <1>6 DEF Claim, Writing, ActiveTasks
<1> QED BY <1>2, <1>3, <1>4, <1>5, <1>6, <1>13, <1>14 DEF Ends

LEMMA EndedKinds ==
  ASSUME NEW old \in TaskRecord, NEW s \in EndedState \ {"complete"},
         NEW one, one = [Cleaned(old) EXCEPT !.state = s]
  PROVE  Ended(one, old) /\ Ended([one EXCEPT !.state = "failed"], old)
<1>1. /\ one \in TaskRecord
      /\ one.state = s /\ one.direction = old.direction
      /\ \A f \in File : Stored(one, f) <=> Stored(old, f)
  BY EndedIs
<1> DEFINE two == [one EXCEPT !.state = "failed"]
<1>2. "failed" \in EndedState \ {"complete"}
  BY DEF EndedState
<1>3. /\ two \in TaskRecord
      /\ two.state = "failed" /\ two.direction = one.direction /\ two.files = one.files
  BY <1>1, <1>2 DEF TaskRecord
<1> HIDE DEF two
<1>4. Ended(one, old)
  BY <1>1 DEF Ended
<1>5. Ended(two, old)
  BY <1>1, <1>2, <1>3 DEF Ended, Stored
<1> QED BY <1>4, <1>5 DEF two

\* A task that ends without success, recorded or not.
LEMMA PersistedEnds ==
  ASSUME IInv, NEW t \in Task, tasks[t] # NoTask, Clean(t), UNCHANGED <<used, purged>>,
         NEW s \in EndedState \ {"complete"}, NEW task, NEW other,
         task = [Cleaned(tasks[t]) EXCEPT !.state = s],
         other \in {task, [task EXCEPT !.state = "failed"]},
         Persist(t, task) \/ PersistFails(t, other)
  PROVE  Ends(t) /\ faults' \in 0..MaxFaults
<1>1. TypeOK /\ tasks[t] \in TaskRecord
  BY DEF IInv, TypeOK
<1>2. Ended(task, tasks[t]) /\ Ended(other, tasks[t])
  BY <1>1, EndedKinds
<1>3. CASE Persist(t, task)
  BY <1>1, <1>2, <1>3, CleanEnds DEF Persist, TypeOK
<1>4. CASE PersistFails(t, other)
  <2>1. faults' \in 0..MaxFaults
    BY <1>1, <1>4, TransferAssumption DEF PersistFails, DiskFault, TypeOK
  <2> QED BY <1>2, <1>4, <2>1, CleanEnds DEF PersistFails
<1> QED BY <1>3, <1>4

\* The fit after a step on one task.
LEMMA TaskFits ==
  ASSUME IInv, NEW t \in Task, OnlyTask(t), Claim(t)' \subseteq Claim(t), space' = space
  PROVE  Fits'
<1>1. \A s \in Task : Claim(s)' \subseteq Claim(s)
  BY OtherClaim
<1>2. space \in Nat
  BY TransferAssumption DEF IInv, TypeOK
<1> QED BY <1>1, <1>2, FitsKept DEF IInv

\* At most the cancellation of a worker changes.
Told(x) ==
  /\ work'[x].pc = work[x].pc /\ work'[x].kind = work[x].kind
  /\ work'[x].task = work[x].task /\ work'[x].next = work[x].next
  /\ work'[x].outcome = work[x].outcome
  /\ work[x].cancelled => work'[x].cancelled

LEMMA ToldIs ==
  ASSUME NEW x \in Worker, work[x] \in Work,
         work'[x] \in {work[x], [work[x] EXCEPT !.cancelled = TRUE]}
  PROVE  work'[x] \in Work /\ Told(x)
<1>1. CASE work'[x] = work[x]
  BY <1>1 DEF Told
<1>2. CASE work'[x] = [work[x] EXCEPT !.cancelled = TRUE]
  <2> DEFINE r == [work[x] EXCEPT !.cancelled = TRUE]
  <2>1. r \in Work
    BY DEF Work
  <2>2. /\ r.pc = work[x].pc /\ r.kind = work[x].kind /\ r.task = work[x].task
        /\ r.next = work[x].next /\ r.outcome = work[x].outcome /\ r.cancelled
    BY DEF Work
  <2> HIDE DEF r
  <2>3. work'[x] = r
    BY <1>2 DEF r
  <2> QED BY <2>1, <2>2, <2>3 DEF Told
<1> QED BY <1>1, <1>2

LEMMA ToldOK ==
  ASSUME NEW x \in Worker, WorkOK(x), Told(x), UNCHANGED <<tasks, cancels, parts, blobs, used>>,
         Bound(x) /\ work[x].task \in stopped' => work'[x].cancelled
  PROVE  WorkOK(x)'
<1>1. Assigned(x)'
  BY DEF WorkOK, Assigned, Told
<1>2. Bound(x)' <=> Bound(x)
  BY DEF Bound, Told
<1>3. Owned(x)'
  BY <1>2 DEF WorkOK, Owned, Told, IsActive
<1>4. Placed(x)'
  BY <1>2 DEF WorkOK, Placed, Told, Steps, OnDisk
<1> QED BY <1>1, <1>3, <1>4 DEF WorkOK

LEMMA ToldReceipt ==
  ASSUME \A x \in Worker : Told(x), OneReceiver PROVE OneReceiver'
<1>1. \A x \in Worker : SameReceipt(x)
  BY DEF SameReceipt, Receives, Told
<1> QED BY <1>1, ReceiversKept

\* A task nobody has registered for is at most about to be worked on.
LEMMA NobodyBound ==
  ASSUME IInv, NEW t \in Task, cancels[t] = NoCancel, NEW x \in Worker, work[x].task = t
  PROVE  ~Bound(x)
<1>1. <<x, work[x].kind>> \in Worker \X Kind
  BY DEF IInv, TypeOK, Work
<1> QED BY <1>1, NoneAssumption DEF IInv, WorkOK, Owned

LEMMA CancelKeeps ==
  ASSUME IInv, NEW t \in Task, Cancel(t), expired' \in SUBSET Task,
         UNCHANGED <<cancels, service, starts, space, used, purged>>
  PROVE  IInv'
<1>1. TypeOK /\ TaskOK(t) /\ IsActive(t) /\ tasks[t] # NoTask /\ stopped' = stopped \cup {t}
  BY DEF IInv, Cancel, IsActive
<1>2. service # "down"
  BY <1>1 DEF IInv, Down
<1>3. CASE /\ cancels[t] # NoCancel
           /\ work' = [w \in Worker |->
                IF cancels[t] = <<w, work[w].kind>> THEN [work[w] EXCEPT !.cancelled = TRUE]
                                                    ELSE work[w]]
           /\ UNCHANGED <<tasks, records, parts, blobs, faults>>
  <2>1. \A x \in Worker : work'[x] \in Work /\ Told(x)
    <3> SUFFICES ASSUME NEW x \in Worker PROVE work'[x] \in Work /\ Told(x)
      OBVIOUS
    <3>1. work[x] \in Work
      BY <1>1 DEF TypeOK
    <3>2. work'[x] \in {work[x], [work[x] EXCEPT !.cancelled = TRUE]}
      BY <1>3
    <3> QED BY <3>1, <3>2, ToldIs
  <2>2. TypeOK'
    BY <1>1, <1>3, <2>1 DEF TypeOK
  <2>3. \A s \in Task : TaskOK(s)'
    <3> SUFFICES ASSUME NEW s \in Task PROVE TaskOK(s)'
      OBVIOUS
    <3>1. TaskOK(s) /\ (IsActive(s)' <=> IsActive(s))
      BY <1>3 DEF IInv, IsActive
    <3>2. Truthful(tasks[s], s)' /\ Truthful(records[s], s)'
      BY <1>3, <3>1 DEF TaskOK, Truthful, Tidy
    <3>3. (Pristine(s)' <=> Pristine(s)) /\ (Storing(s)' <=> Storing(s))
      BY <1>3 DEF Pristine, Storing
    <3>4. s \in stopped' => s \in used /\ (s = t \/ s \in stopped)
      BY <1>1, <3>1 DEF TaskOK
    <3> QED BY <1>3, <3>1, <3>2, <3>3, <3>4 DEF TaskOK
  <2>4. \A x \in Worker : WorkOK(x)'
    <3> SUFFICES ASSUME NEW x \in Worker PROVE WorkOK(x)'
      OBVIOUS
    <3>1. WorkOK(x) /\ Told(x)
      BY <2>1 DEF IInv
    <3>2. Bound(x) /\ work[x].task \in stopped' => work'[x].cancelled
      <4> SUFFICES ASSUME Bound(x), work[x].task \in stopped' PROVE work'[x].cancelled
        OBVIOUS
      <4>1. CASE work[x].task = t
        BY <1>1, <1>3, <3>1, <4>1 DEF WorkOK, Owned, TypeOK, Work
      <4>2. CASE work[x].task # t
        BY <1>1, <3>1, <4>2 DEF WorkOK, Owned, Told
      <4> QED BY <4>1, <4>2
    <3> QED BY <1>3, <3>1, <3>2, ToldOK
  <2>5. OneReceiver'
    BY <2>1, ToldReceipt DEF IInv
  <2>6. Down' /\ Fits'
    BY <1>2, <1>3 DEF Down, IInv, Fits, Claims, Claim, Writing, ActiveTasks, IsActive
  <2> QED BY <2>2, <2>3, <2>4, <2>5, <2>6 DEF IInv
<1>4. CASE /\ cancels[t] = NoCancel
           /\ Clean(t)
           /\ LET ended == [Cleaned(tasks[t]) EXCEPT !.state = "cancelled"]
              IN Persist(t, ended) \/ PersistFails(t, ended)
           /\ UNCHANGED work
  <2>1. Ends(t) /\ faults' \in 0..MaxFaults
    BY <1>1, <1>4, PersistedEnds DEF EndedState
  <2>2. TypeOK'
    BY <1>1, <1>4, <2>1 DEF TypeOK, Ends
  <2>3. OnlyTask(t)
    BY <1>1, <2>1 DEF OnlyTask, Ends
  <2>4. Unshared(t, Worker)
    BY <1>1, <1>4, <2>1, NobodyBound DEF Unshared, SameDirection, Ends, Ended
  <2>5. TaskOK(t)' /\ Fits'
    BY <2>1, <2>3, TaskFits DEF Ends
  <2> QED BY <1>2, <1>4, <2>2, <2>3, <2>4, <2>5, TaskStep
<1> QED BY <1>3, <1>4 DEF Cancel, disk

LEMMA CancelTransferKeeps ==
  ASSUME IInv, NEW t \in Task, CancelTransfer(t) PROVE IInv'
BY CancelKeeps DEF CancelTransfer, host, IInv, TypeOK

\* Nothing but the timers changes.
LEMMA NothingKeeps ==
  ASSUME IInv, expired' \in SUBSET Task,
         UNCHANGED <<tasks, records, parts, blobs, cancels, work, service, starts, space,
                     faults, used, purged, stopped>>
  PROVE  IInv'
<1>1. TypeOK'
  BY DEF IInv, TypeOK
<1>2. \A t \in Task : TaskOK(t)'
  BY DEF IInv, TaskOK, IsActive, Truthful, Tidy, Pristine, Storing
<1>3. \A x \in Worker : WorkOK(x)'
  BY DEF IInv, WorkOK, Assigned, Owned, Placed, Bound, IsActive
<1>4. OneReceiver' /\ Down' /\ Fits'
  BY DEF IInv, OneReceiver, Receives, Down, Fits, Claims, Claim, Writing, ActiveTasks, IsActive
<1> QED BY <1>1, <1>2, <1>3, <1>4 DEF IInv

LEMMA IdleCheckKeeps ==
  ASSUME IInv, NEW t \in Task, IdleCheck(t) PROVE IInv'
BY NothingKeeps DEF IdleCheck, disk, host, history, IInv, TypeOK

LEMMA IdleCancelKeeps ==
  ASSUME IInv, NEW t \in Task, IdleCancel(t) PROVE IInv'
<1>1. /\ expired' \in SUBSET Task
      /\ UNCHANGED <<cancels, service, starts, space, used, purged>>
      /\ \/ Cancel(t)
         \/ UNCHANGED <<tasks, records, parts, blobs, work, faults, stopped>>
  BY DEF IdleCancel, disk, host, IInv, TypeOK
<1> QED BY <1>1, CancelKeeps, NothingKeeps

\* A task that has ended has no worker.
LEMMA EndedUnshared ==
  ASSUME IInv, NEW t \in Task, ~IsActive(t), SameDirection(t) PROVE Unshared(t, Worker)
BY DEF Unshared, IInv, WorkOK, Owned

LEMMA RemoveKeeps ==
  ASSUME IInv, NEW t \in Task, NEW deleteFiles \in BOOLEAN, Remove(t, deleteFiles) PROVE IInv'
<1>1. TypeOK /\ TaskOK(t)
  BY DEF IInv
<1>2. /\ service # "down" /\ tasks[t] # NoTask /\ ~IsActive(t)
      /\ purged' = IF deleteFiles THEN purged \cup {t} ELSE purged
      /\ UNCHANGED <<cancels, work, expired, service, starts, space, used, stopped>>
  BY DEF Remove, Removable, host
<1>3. t \in used
  BY <1>1, <1>2 DEF TaskOK
<1>4. purged' \in SUBSET Task /\ \A s \in Task \ {t} : s \in purged' <=> s \in purged
  BY <1>1, <1>2 DEF TypeOK
<1>5. CASE /\ tasks' = [tasks EXCEPT ![t] = NoTask]
           /\ records' = [records EXCEPT ![t] = NoTask]
           /\ parts' = [parts EXCEPT ![t] = IF deleteFiles THEN {} ELSE @]
           /\ blobs' = [blobs EXCEPT ![t] = IF deleteFiles THEN {} ELSE @]
           /\ UNCHANGED faults
  <2>1. /\ tasks' \in [Task -> TaskRecord \cup {NoTask}]
        /\ tasks'[t] = NoTask
        /\ \A s \in Task \ {t} : tasks'[s] = tasks[s]
    BY <1>1, <1>5, TaskSet DEF TypeOK
  <2>2. /\ records' \in [Task -> TaskRecord \cup {NoTask}]
        /\ records'[t] = NoTask
        /\ \A s \in Task \ {t} : records'[s] = records[s]
    BY <1>1, <1>5, RecordSet DEF TypeOK
  <2>3. /\ parts' \in [Task -> SUBSET File] /\ blobs' \in [Task -> SUBSET File]
        /\ parts'[t] \subseteq parts[t] /\ blobs'[t] \subseteq blobs[t]
        /\ \A s \in Task \ {t} : parts'[s] = parts[s] /\ blobs'[s] = blobs[s]
    BY <1>1, <1>5 DEF TypeOK
  <2>4. TypeOK'
    BY <1>1, <1>2, <1>4, <1>5, <2>1, <2>2, <2>3 DEF TypeOK
  <2>5. OnlyTask(t) /\ SameDirection(t)
    BY <1>2, <1>4, <2>1, <2>2, <2>3 DEF OnlyTask, SameDirection
  <2>6. TaskOK(t)'
    BY <1>2, <1>3, <2>1, <2>2 DEF TaskOK, IsActive, Truthful
  <2>7. Claim(t)' \subseteq Claim(t)
    BY <2>1, <2>3 DEF Claim, Writing, ActiveTasks, IsActive
  <2> QED BY <1>2, <2>4, <2>5, <2>6, <2>7, EndedUnshared, TaskFits, TaskStep
<1>6. CASE /\ deleteFiles
           /\ \E k \in 1..(NFiles + 1) : blobs' = [blobs EXCEPT ![t] = {f \in @ : f >= k}]
           /\ DiskFault
           /\ UNCHANGED <<tasks, records, parts>>
  <2>1. PICK k \in 1..(NFiles + 1) : blobs' = [blobs EXCEPT ![t] = {f \in @ : f >= k}]
    BY <1>6
  <2>2. /\ blobs' \in [Task -> SUBSET File]
        /\ blobs'[t] \subseteq blobs[t]
        /\ \A s \in Task \ {t} : blobs'[s] = blobs[s]
    BY <1>1, <2>1 DEF TypeOK
  <2>3. faults' \in 0..MaxFaults
    BY <1>1, <1>6, TransferAssumption DEF DiskFault, TypeOK
  <2>4. TypeOK'
    BY <1>1, <1>2, <1>4, <1>6, <2>2, <2>3 DEF TypeOK
  <2>5. OnlyTask(t) /\ SameDirection(t)
    BY <1>2, <1>4, <1>6, <2>2 DEF OnlyTask, SameDirection
  <2>6. TaskOK(t)'
    <3>1. t \in purged' /\ ~IsActive(t)' /\ t \in used'
      BY <1>2, <1>3, <1>6 DEF IsActive
    <3>2. Truthful(tasks[t], t)' /\ Truthful(records[t], t)'
      BY <1>1, <1>6, <2>2, <3>1 DEF TaskOK, Truthful, Tidy
    <3> QED BY <1>1, <1>6, <3>1, <3>2 DEF TaskOK
  <2>7. Claim(t)' \subseteq Claim(t)
    BY <1>6, <2>2 DEF Claim, Writing, ActiveTasks, IsActive
  <2> QED BY <1>2, <2>4, <2>5, <2>6, <2>7, EndedUnshared, TaskFits, TaskStep
<1> QED BY <1>5, <1>6 DEF Remove

-----------------------------------------------------------------------------
(* The beginning and the end of a goroutine                                *)

\* A goroutine that is not idle has a task, and the service runs.
LEMMA AtWork ==
  ASSUME IInv, NEW w \in Worker, work[w].pc # "idle"
  PROVE  /\ work[w] \in Work /\ work[w].task \in Task /\ service # "down"
         /\ work[w].task \in used
         /\ Bound(w) => /\ tasks[work[w].task] \in TaskRecord /\ tasks[work[w].task] # NoTask
                        /\ IsActive(work[w].task)
BY DEF IInv, TypeOK, WorkOK, Assigned, Owned, Down, IsActive

LEMMA BoundUnshared ==
  ASSUME IInv, NEW w \in Worker, Bound(w), NEW t \in Task, t = work[w].task, SameDirection(t)
  PROVE  Unshared(t, Worker \ {w})
<1> SUFFICES ASSUME NEW x \in Worker \ {w}, work[x].task = t PROVE ~Bound(x)
  BY DEF Unshared
<1>1. Bound(x) => cancels[t] = <<x, work[x].kind>> /\ cancels[t] = <<w, work[w].kind>>
  BY DEF IInv, WorkOK, Owned
<1> QED BY <1>1

\* A worker goes on to another point.
Moves(w, pc) ==
  /\ work' \in [Worker -> Work] /\ OnlyWorker(w)
  /\ work'[w].pc = pc
  /\ work'[w].kind = work[w].kind /\ work'[w].task = work[w].task
  /\ work'[w].next = work[w].next /\ work'[w].cancelled = work[w].cancelled
  /\ work'[w].outcome = work[w].outcome

LEMMA BecomesMoves ==
  ASSUME TypeOK, NEW w \in Worker, NEW pc \in WorkPc, Becomes(w, pc)
  PROVE  Moves(w, pc)
<1>1. work[w] \in Work
  BY DEF TypeOK
<1> DEFINE r == [work[w] EXCEPT !.pc = pc]
<1>2. /\ r \in Work
      /\ r.pc = pc /\ r.kind = work[w].kind /\ r.task = work[w].task
      /\ r.next = work[w].next /\ r.cancelled = work[w].cancelled /\ r.outcome = work[w].outcome
  BY <1>1 DEF Work
<1>3. work' = [work EXCEPT ![w] = r]
  BY DEF Becomes
<1> HIDE DEF r
<1>4. work' \in [Worker -> Work] /\ work'[w] = r /\ OnlyWorker(w)
  BY <1>2, <1>3, WorkerSet DEF TypeOK
<1> QED BY <1>2, <1>4 DEF Moves

LEMMA IdleOK ==
  ASSUME TypeOK, NEW w \in Worker, work' = [work EXCEPT ![w] = Idle]
  PROVE  work' \in [Worker -> Work] /\ OnlyWorker(w) /\ WorkOK(w)' /\ SameReceipt(w)
<1>1. work' \in [Worker -> Work] /\ work'[w] = Idle /\ OnlyWorker(w)
  BY IdleIs, WorkerSet DEF TypeOK
<1>2. work'[w].pc = "idle"
  BY <1>1, IdleIs
<1> QED BY <1>1, <1>2 DEF WorkOK, Assigned, Owned, Placed, Bound, SameReceipt, Receives

LEMMA BindKeeps ==
  ASSUME IInv, NEW w \in Worker, Bind(w) PROVE IInv'
<1>0. work[w].pc = "bind"
  BY DEF Bind
<1> PICK t \in Task : t = work[w].task
  BY <1>0, AtWork
<1>1. /\ work[w].pc = "bind" /\ IsActive(t) /\ cancels[t] = NoCancel
      /\ cancels' = [cancels EXCEPT ![t] = <<w, work[w].kind>>]
      /\ Becomes(w, "write")
      /\ UNCHANGED <<tasks, records, parts, blobs, expired, service, starts, space,
                     faults, used, purged, stopped>>
  BY DEF Bind, Bindable, Register, disk, host, history
<1>2. TypeOK /\ t \in Task /\ t \in used /\ service # "down" /\ work[w] \in Work
  BY <1>1, AtWork DEF IInv
<1>3. Moves(w, "write")
  BY <1>1, <1>2, BecomesMoves DEF WorkPc
<1>4. <<w, work[w].kind>> \in Worker \X Kind /\ <<w, work[w].kind>> # NoCancel
  BY <1>2, NoneAssumption DEF Work
<1>5. /\ cancels' \in [Task -> (Worker \X Kind) \cup {NoCancel}]
      /\ cancels'[t] = <<w, work[w].kind>>
      /\ \A s \in Task \ {t} : cancels'[s] = cancels[s]
  BY <1>1, <1>2, <1>4 DEF TypeOK
<1>6. TypeOK'
  BY <1>1, <1>2, <1>3, <1>5 DEF TypeOK, Moves
<1>7. OnlyTask(t) /\ SameDirection(t)
  BY <1>1, <1>5 DEF OnlyTask, SameDirection, IsActive
<1>8. Unshared(t, Worker \ {w})
  BY <1>1, <1>2, <1>7, NobodyBound DEF Unshared
<1>9. TaskOK(t) /\ Pristine(t) /\ t \notin stopped /\ tasks[t] # NoTask
  BY <1>1, <1>2 DEF IInv, TaskOK, IsActive
<1>10. TaskOK(t)'
  BY <1>1, <1>4, <1>5, <1>9 DEF TaskOK, IsActive, Truthful, Tidy, Storing
<1>11. /\ tasks[t].direction = "receive" <=> work[w].kind = "receive"
       /\ work[w].kind \in {"upload", "receive"} /\ work[w].next = 1
       /\ tasks[t].direction \in {"send", "receive"}
  BY <1>1, <1>2, <1>9 DEF IInv, WorkOK, Assigned, TypeOK, TaskRecord, Work, Kind
<1>12. work'[w].task = t /\ work'[w].pc = "write" /\ work'[w].kind = work[w].kind /\ work'[w].next = 1
  BY <1>3, <1>11 DEF Moves
<1>13. WorkOK(w)'
  <2>1. Assigned(w)'
    BY <1>1, <1>2, <1>11, <1>12 DEF Assigned
  <2>2. Owned(w)'
    BY <1>1, <1>5, <1>9, <1>12 DEF Owned, IsActive
  <2>3. Steps(work'[w], tasks'[t])
    BY <1>1, <1>9, <1>11, <1>12 DEF Steps, Pristine, File
  <2>4. OnDisk(work'[w], parts'[t], blobs'[t])
    BY <1>1, <1>9, <1>11, <1>12 DEF OnDisk, Pristine
  <2> QED BY <1>12, <2>1, <2>2, <2>3, <2>4 DEF WorkOK, Placed
<1>14. SameReceipt(w)
  BY <1>1, <1>3 DEF SameReceipt, Moves, Receives
<1>15. Claim(t)' \subseteq Claim(t)
  BY <1>1 DEF Claim, Writing, ActiveTasks, IsActive
<1>16. OnlyWorker(w)
  BY <1>3 DEF Moves
<1> QED BY <1>1, <1>2, <1>6, <1>7, <1>8, <1>10, <1>13, <1>14, <1>15, <1>16, WorkerStep

\* What finish leaves of a task, if anything is left.
Finished(t) ==
  /\ tasks' \in [Task -> TaskRecord \cup {NoTask}]
  /\ records' \in [Task -> TaskRecord \cup {NoTask}]
  /\ parts' \in [Task -> SUBSET File] /\ blobs' \in [Task -> SUBSET File]
  /\ cancels' \in [Task -> (Worker \X Kind) \cup {NoCancel}]
  /\ faults' \in 0..MaxFaults
  /\ OnlyTask(t) /\ SameDirection(t) /\ TaskOK(t)' /\ Claim(t)' \subseteq Claim(t)

LEMMA FinishFails ==
  ASSUME IInv, NEW t \in Task, NEW s \in EndedState \ {"complete"}, Finish(t, s),
         UNCHANGED <<used, purged, stopped>>
  PROVE  Finished(t)
<1>1. TypeOK /\ TaskOK(t)
  BY DEF IInv
<1>2. CASE tasks[t] = NoTask /\ UNCHANGED <<tasks, records, parts, blobs, cancels, faults>>
  <2>1. OnlyTask(t) /\ SameDirection(t)
    BY <1>2 DEF OnlyTask, SameDirection
  <2>2. TaskOK(t)'
    BY <1>1, <1>2 DEF TaskOK, IsActive, Truthful, Tidy
  <2>3. Claim(t)' \subseteq Claim(t)
    BY <1>2 DEF Claim, Writing, ActiveTasks, IsActive
  <2> QED BY <1>1, <1>2, <2>1, <2>2, <2>3 DEF Finished, TypeOK
<1>3. CASE tasks[t] # NoTask
  <2> DEFINE ended == [Cleaned(tasks[t]) EXCEPT !.state = s]
  <2>1. /\ cancels' = [cancels EXCEPT ![t] = NoCancel]
        /\ Clean(t)
        /\ Persist(t, ended) \/ PersistFails(t, [ended EXCEPT !.state = "failed"])
    BY <1>3 DEF Finish
  <2> HIDE DEF ended
  <2>2. Ends(t) /\ faults' \in 0..MaxFaults
    BY <1>3, <2>1, PersistedEnds DEF ended
  <2>3. /\ cancels' \in [Task -> (Worker \X Kind) \cup {NoCancel}]
        /\ \A r \in Task \ {t} : cancels'[r] = cancels[r]
    BY <1>1, <2>1 DEF TypeOK
  <2>4. OnlyTask(t) /\ SameDirection(t)
    BY <1>3, <2>2, <2>3 DEF OnlyTask, SameDirection, Ends, Ended
  <2> QED BY <2>2, <2>3, <2>4 DEF Finished, Ends
<1> QED BY <1>2, <1>3 DEF Finish, disk

LEMMA BindFailsKeeps ==
  ASSUME IInv, NEW w \in Worker, BindFails(w) PROVE IInv'
<1>0. work[w].pc = "bind"
  BY DEF BindFails
<1> PICK t \in Task : t = work[w].task
  BY <1>0, AtWork
<1>1. /\ work[w].pc = "bind"
      /\ work' = [work EXCEPT ![w] = Idle]
      /\ IF work[w].kind = "receive" THEN Finish(t, "failed")
         ELSE UNCHANGED <<tasks, records, parts, blobs, cancels, faults>>
      /\ UNCHANGED <<expired, service, starts, space, used, purged, stopped>>
  BY DEF BindFails, disk, host, history
<1>2. TypeOK /\ service # "down"
  BY <1>1, AtWork DEF IInv
<1>3. work' \in [Worker -> Work] /\ OnlyWorker(w) /\ WorkOK(w)' /\ SameReceipt(w)
  BY <1>1, <1>2, IdleOK
<1>4. CASE work[w].kind = "receive"
  <2>1. Finished(t)
    BY <1>1, <1>4, FinishFails DEF EndedState
  <2>2. TypeOK'
    BY <1>1, <1>2, <1>3, <2>1 DEF TypeOK, Finished
  <2>3. Unshared(t, Worker \ {w})
    <3> SUFFICES ASSUME NEW x \in Worker \ {w}, work[x].task = t, Bound(x) PROVE FALSE
      BY <2>1 DEF Unshared, Finished
    <3>1. work[x].pc # "idle" /\ tasks[t] # NoTask /\ WorkOK(x) /\ WorkOK(w)
      BY DEF IInv, WorkOK, Owned, IsActive, Bound
    <3>2. work[x].kind = "receive"
      BY <1>1, <1>4, <3>1 DEF WorkOK, Assigned
    <3> QED BY <1>1, <1>4, <3>1, <3>2 DEF IInv, OneReceiver, Receives
  <2> QED BY <1>1, <1>2, <1>3, <2>1, <2>2, <2>3, WorkerStep DEF Finished
<1>5. CASE work[w].kind # "receive"
  <2>1. TypeOK'
    BY <1>1, <1>2, <1>3, <1>5 DEF TypeOK
  <2> QED BY <1>1, <1>2, <1>3, <1>5, <2>1, WorkerAlone
<1> QED BY <1>4, <1>5

-----------------------------------------------------------------------------
(* A goroutine at work                                                     *)

\* The worker and its task go on, together.
LEMMA BoundStep ==
  ASSUME IInv, TypeOK', NEW w \in Worker, NEW t \in Task, t = work[w].task, Bound(w),
         OnlyTask(t), OnlyWorker(w), UNCHANGED <<used, purged, stopped, space, service>>,
         Bound(w)', work'[w].task = t, work'[w].kind = "receive" <=> work[w].kind = "receive",
         t \in stopped => work'[w].cancelled,
         cancels'[t] = <<w, work'[w].kind>>,
         tasks'[t] # NoTask, Active(tasks'[t].state), tasks'[t].direction = tasks[t].direction,
         records'[t] \in {records[t], tasks'[t]},
         \A f \in File : /\ Stored(tasks[t], f) => Stored(tasks'[t], f)
                         /\ Stored(tasks'[t], f) => Stored(tasks[t], f) \/ f \in blobs[t],
         blobs[t] \subseteq blobs'[t],
         Storing(t)' => parts'[t] \cup blobs'[t] \subseteq 1..tasks'[t].done,
         Steps(work'[w], tasks'[t]), OnDisk(work'[w], parts'[t], blobs'[t]),
         Claim(t)' \subseteq Claim(t)
  PROVE  IInv'
<1>1. /\ TypeOK /\ TaskOK(t) /\ WorkOK(w) /\ IsActive(t) /\ t \in used /\ service # "down"
      /\ work[w].pc # "idle" /\ tasks[t] # NoTask
  BY AtWork DEF IInv, Bound
<1>2. SameDirection(t) /\ SameReceipt(w)
  BY <1>1 DEF SameDirection, SameReceipt, Receives
<1>3. Unshared(t, Worker \ {w})
  BY <1>2, BoundUnshared
<1>4. cancels'[t] # NoCancel
  BY NoneAssumption DEF TypeOK, Work
<1>5. records[t] # NoTask /\ Active(records[t].state)
  BY <1>1 DEF TaskOK
<1>6. \A f \in File : Stored(records[t], f) => Stored(tasks[t], f)
  BY <1>1, <1>5 DEF TaskOK
<1>7. t \notin purged => \A f \in File :
        (Stored(tasks[t], f) => f \in blobs[t]) /\ (Stored(records[t], f) => f \in blobs[t])
  BY <1>1, <1>5 DEF TaskOK, Truthful
<1>8. IsActive(t)' /\ Active(records'[t].state) /\ records'[t] # NoTask
  BY <1>5 DEF IsActive
<1>9. Truthful(tasks[t], t)'
  <2>1. t \notin purged' => \A f \in File : Stored(tasks'[t], f) => f \in blobs'[t]
    <3> SUFFICES ASSUME t \notin purged', NEW f \in File, Stored(tasks'[t], f)
                 PROVE  f \in blobs'[t]
      OBVIOUS
    <3> QED BY <1>7
  <2> QED BY <2>1 DEF Truthful
<1>10. Truthful(records[t], t)'
  <2>1. CASE records'[t] = records[t]
    BY <1>7, <1>8, <2>1 DEF Truthful
  <2>2. CASE records'[t] = tasks'[t]
    BY <1>9, <2>2 DEF Truthful
  <2> QED BY <2>1, <2>2
<1>11. \A f \in File : Stored(records'[t], f) => Stored(tasks'[t], f)
  BY <1>6
<1>12. TaskOK(t)'
  BY <1>1, <1>4, <1>8, <1>9, <1>10, <1>11 DEF TaskOK
<1>13. Assigned(w)'
  BY <1>1 DEF Assigned, WorkOK, Bound
<1>14. Owned(w)'
  BY <1>8 DEF Owned
<1>15. Placed(w)'
  BY DEF Placed
<1> QED BY <1>1, <1>2, <1>3, <1>12, <1>13, <1>14, <1>15, WorkerStep DEF WorkOK

\* What is known of a worker at work, and of its task.
Working(w, t) ==
  /\ TypeOK /\ WorkOK(w) /\ TaskOK(t) /\ Bound(w) /\ t = work[w].task
  /\ work[w] \in Work /\ tasks[t] \in TaskRecord /\ tasks[t] # NoTask /\ Active(tasks[t].state)
  /\ cancels[t] = <<w, work[w].kind>>
  /\ t \in stopped => work[w].cancelled
  /\ Steps(work[w], tasks[t]) /\ OnDisk(work[w], parts[t], blobs[t])

LEMMA AtTask ==
  ASSUME IInv, NEW w \in Worker, Bound(w)
  PROVE  \E t \in Task : Working(w, t)
<1>1. work[w].task \in Task
  BY AtWork DEF Bound
<1> QED BY <1>1, AtWork DEF Working, IInv, WorkOK, Owned, Placed, Bound, IsActive

LEMMA RenameFileKeeps ==
  ASSUME IInv, NEW w \in Worker, RenameFile(w) PROVE IInv'
<1>0. work[w].pc = "rename" /\ Bound(w)
  BY DEF RenameFile, Bound
<1> PICK t \in Task : Working(w, t)
  BY <1>0, AtTask
<1>1. /\ t = work[w].task /\ TypeOK /\ work[w] \in Work
      /\ Steps(work[w], tasks[t]) /\ OnDisk(work[w], parts[t], blobs[t])
  BY DEF Working
<1> PICK f \in File : f = work[w].next
  BY <1>0, <1>1 DEF Steps
<1>2. /\ Rename(t, f)
      /\ Becomes(w, "record")
      /\ UNCHANGED <<tasks, records, cancels, expired, service, starts, space, faults, used, purged, stopped>>
  BY <1>1 DEF RenameFile, host, history
<1>3. Moves(w, "record")
  BY <1>1, <1>2, BecomesMoves DEF WorkPc
<1>4. parts[t] = {f} /\ blobs[t] = 1..(f - 1) /\ tasks[t].done = f
  BY <1>0, <1>1 DEF Steps, OnDisk
<1>5. /\ parts' \in [Task -> SUBSET File] /\ blobs' \in [Task -> SUBSET File]
      /\ parts'[t] = {} /\ blobs'[t] = 1..f
      /\ blobs[t] \subseteq blobs'[t] /\ parts'[t] \cup blobs'[t] \subseteq parts[t] \cup blobs[t]
      /\ \A s \in Task \ {t} : parts'[s] = parts[s] /\ blobs'[s] = blobs[s]
  <2>1. /\ parts' \in [Task -> SUBSET File] /\ blobs' \in [Task -> SUBSET File]
        /\ parts'[t] = parts[t] \ {f} /\ blobs'[t] = blobs[t] \cup {f}
        /\ \A s \in Task \ {t} : parts'[s] = parts[s] /\ blobs'[s] = blobs[s]
    BY <1>1, <1>2 DEF Rename, TypeOK
  <2>2. 1..(f - 1) \cup {f} = 1..f
    BY DEF File
  <2> QED BY <1>4, <2>1, <2>2
<1>6. TypeOK'
  BY <1>1, <1>2, <1>3, <1>5 DEF TypeOK, Moves
<1>7. OnlyTask(t)
  BY <1>2, <1>5 DEF OnlyTask
<1>8. Steps(work'[w], tasks'[t])
  BY <1>0, <1>1, <1>2, <1>3 DEF Steps, Moves
<1>9. OnDisk(work'[w], parts'[t], blobs'[t])
  BY <1>0, <1>1, <1>3, <1>5 DEF OnDisk, Moves, Steps
<1>10. Claim(t)' \subseteq Claim(t)
  BY <1>2, <1>5 DEF Claim, Writing, ActiveTasks, IsActive
<1>11. Bound(w)' /\ work'[w].task = t /\ work'[w].kind = work[w].kind /\ OnlyWorker(w)
  BY <1>1, <1>3 DEF Moves, Bound
<1>12. t \in stopped => work'[w].cancelled
  BY <1>3 DEF Moves, Working
<1>13. parts'[t] \cup blobs'[t] \subseteq 1..tasks'[t].done
  BY <1>2, <1>4, <1>5
<1> QED BY <1>0, <1>1, <1>2, <1>5, <1>6, <1>7, <1>8, <1>9, <1>10, <1>11, <1>12, <1>13, BoundStep
      DEF Working

LEMMA ProgressIs ==
  ASSUME TypeOK, NEW t \in Task, tasks[t] \in TaskRecord, tasks[t] # NoTask,
         NEW f \in 1..NFiles, tasks[t].done = f - 1, Progress(t)
  PROVE  /\ tasks' \in [Task -> TaskRecord \cup {NoTask}] /\ tasks'[t] # NoTask
         /\ tasks'[t].state = tasks[t].state /\ tasks'[t].direction = tasks[t].direction
         /\ tasks'[t].files = tasks[t].files /\ tasks'[t].done = f
         /\ \A s \in Task \ {t} : tasks'[s] = tasks[s]
<1>1. [tasks[t] EXCEPT !.done = f] \in TaskRecord
  BY TransferAssumption, AtProgress
<1> PICK task \in TaskRecord : task = [tasks[t] EXCEPT !.done = f]
  BY <1>1
<1>2. /\ task.state = tasks[t].state /\ task.direction = tasks[t].direction
      /\ task.files = tasks[t].files /\ task.done = f /\ task # NoTask
  BY NoneAssumption DEF TaskRecord
<1>3. tasks' = [tasks EXCEPT ![t] = task]
  <2>1. tasks[t].done + 1 = f
    OBVIOUS
  <2>2. tasks' = [tasks EXCEPT ![t] = [tasks[t] EXCEPT !.done = tasks[t].done + 1]]
    BY DEF Progress
  <2> QED BY <2>1, <2>2
<1>4. /\ tasks' \in [Task -> TaskRecord \cup {NoTask}]
      /\ tasks'[t] = task
      /\ \A s \in Task \ {t} : tasks'[s] = tasks[s]
  BY <1>3, TaskSet DEF TypeOK
<1> QED BY <1>2, <1>4

LEMMA WriteFileKeeps ==
  ASSUME IInv, NEW w \in Worker, WriteFile(w) PROVE IInv'
<1>0. work[w].pc = "write" /\ Bound(w)
  BY DEF WriteFile, Bound
<1> PICK t \in Task : Working(w, t)
  BY <1>0, AtTask
<1>1. /\ t = work[w].task /\ TypeOK /\ work[w] \in Work
      /\ tasks[t] \in TaskRecord /\ tasks[t] # NoTask /\ Active(tasks[t].state)
      /\ Steps(work[w], tasks[t]) /\ OnDisk(work[w], parts[t], blobs[t])
  BY DEF Working
<1> PICK f \in File : f = work[w].next
  BY DEF WriteFile
<1>2. /\ parts' = [parts EXCEPT ![t] = @ \cup {f}]
      /\ Progress(t)
      /\ Becomes(w, "rename")
      /\ UNCHANGED <<records, blobs, cancels, expired, service, starts, space, faults, used, purged, stopped>>
  BY <1>1 DEF WriteFile, host, history
<1>3. Moves(w, "rename")
  BY <1>1, <1>2, BecomesMoves DEF WorkPc
<1>4. parts[t] = {} /\ blobs[t] = 1..(f - 1) /\ tasks[t].done = f - 1 /\ f \in 1..NFiles
  BY <1>0, <1>1 DEF Steps, OnDisk, File
<1>5. /\ parts' \in [Task -> SUBSET File] /\ parts'[t] = {f}
      /\ \A s \in Task \ {t} : parts'[s] = parts[s]
  BY <1>1, <1>2, <1>4 DEF TypeOK
<1>6. /\ tasks' \in [Task -> TaskRecord \cup {NoTask}] /\ tasks'[t] # NoTask
      /\ tasks'[t].state = tasks[t].state /\ tasks'[t].direction = tasks[t].direction
      /\ tasks'[t].files = tasks[t].files /\ tasks'[t].done = f
      /\ \A s \in Task \ {t} : tasks'[s] = tasks[s]
  BY <1>1, <1>2, <1>4, ProgressIs
<1>7. TypeOK'
  BY <1>1, <1>2, <1>3, <1>5, <1>6 DEF TypeOK, Moves
<1>8. OnlyTask(t)
  BY <1>2, <1>5, <1>6 DEF OnlyTask
<1>9. Steps(work'[w], tasks'[t])
  BY <1>0, <1>1, <1>3, <1>6 DEF Steps, Moves, Stored
<1>10. OnDisk(work'[w], parts'[t], blobs'[t])
  BY <1>0, <1>1, <1>2, <1>3, <1>4, <1>5 DEF OnDisk, Moves, Steps
<1>11. Claim(t)' \subseteq Claim(t)
  <2> SUFFICES ASSUME NEW g \in Claim(t)' PROVE g \in Claim(t)
    OBVIOUS
  <2>0. g \in File /\ (g \in parts'[t] \cup blobs'[t] \/ g > tasks'[t].done)
    BY DEF Claim
  <2>1. t \in Writing
    BY <1>0, <1>1 DEF Writing, ActiveTasks, IsActive, Steps, Work, Kind
  <2>2. CASE g \in blobs'[t]
    BY <1>2, <2>0, <2>2 DEF Claim
  <2>3. CASE g = f \/ g > f
    BY <1>4, <2>0, <2>1, <2>3 DEF Claim, File
  <2> QED BY <1>5, <1>6, <2>0, <2>2, <2>3
<1>12. Bound(w)' /\ work'[w].task = t /\ work'[w].kind = work[w].kind /\ OnlyWorker(w)
  BY <1>1, <1>3 DEF Moves, Bound
<1>13. t \in stopped => work'[w].cancelled
  BY <1>3 DEF Moves, Working
<1>14. parts'[t] \cup blobs'[t] \subseteq 1..tasks'[t].done
  BY <1>2, <1>4, <1>5, <1>6 DEF File
<1>15. \A g \in File : Stored(tasks'[t], g) <=> Stored(tasks[t], g)
  BY <1>6 DEF Stored
<1> QED BY <1>0, <1>1, <1>2, <1>6, <1>7, <1>8, <1>9, <1>10, <1>11, <1>12, <1>13, <1>14, <1>15, BoundStep
      DEF Working

LEMMA SendFileKeeps ==
  ASSUME IInv, NEW w \in Worker, SendFile(w) PROVE IInv'
<1>0. work[w].pc = "send" /\ Bound(w)
  BY DEF SendFile, Bound
<1> PICK t \in Task : Working(w, t)
  BY <1>0, AtTask
<1>1. /\ t = work[w].task /\ TypeOK /\ work[w] \in Work
      /\ tasks[t] \in TaskRecord /\ tasks[t] # NoTask /\ Active(tasks[t].state)
      /\ Steps(work[w], tasks[t]) /\ OnDisk(work[w], parts[t], blobs[t])
  BY DEF Working
<1>2. /\ work[w].next \in blobs[t]
      /\ Progress(t)
      /\ Becomes(w, "sent")
      /\ UNCHANGED <<records, parts, blobs, cancels, expired, service, starts, space, faults,
                     used, purged, stopped>>
  BY <1>1 DEF SendFile, disk, host, history
<1> PICK f \in 1..NFiles : f = work[w].next
  BY <1>1, <1>2 DEF TypeOK, File
<1>3. Moves(w, "sent")
  BY <1>1, <1>2, BecomesMoves DEF WorkPc
<1>4. tasks[t].done = f - 1 /\ ~Storing(t) /\ work[w].kind = "send"
  BY <1>0, <1>1 DEF Steps, Storing, Work, Kind
<1>5. /\ tasks' \in [Task -> TaskRecord \cup {NoTask}] /\ tasks'[t] # NoTask
      /\ tasks'[t].state = tasks[t].state /\ tasks'[t].direction = tasks[t].direction
      /\ tasks'[t].files = tasks[t].files /\ tasks'[t].done = f
      /\ \A s \in Task \ {t} : tasks'[s] = tasks[s]
  BY <1>1, <1>2, <1>4, ProgressIs
<1>6. TypeOK'
  BY <1>1, <1>2, <1>3, <1>5 DEF TypeOK, Moves
<1>7. OnlyTask(t)
  BY <1>2, <1>5 DEF OnlyTask
<1>8. Steps(work'[w], tasks'[t])
  <2>1. /\ tasks[t].state \in {"connecting", "sending", "verifying"}
        /\ \A g \in File : g < f => /\ Stored(tasks[t], g)
                                    /\ work[w].kind # "upload" => tasks[t].files[g] = "complete"
    BY <1>0, <1>1, <1>4 DEF Steps
  <2>2. \A g \in File : g < f => /\ Stored(tasks'[t], g)
                                 /\ work[w].kind # "upload" => tasks'[t].files[g] = "complete"
    BY <2>1, <1>5 DEF Stored
  <2>3. work'[w].pc = "sent" /\ work'[w].kind = "send" /\ work'[w].next = f
    BY <1>3, <1>4 DEF Moves
  <2> QED BY <1>4, <1>5, <2>1, <2>2, <2>3 DEF Steps, File
<1>9. OnDisk(work'[w], parts'[t], blobs'[t])
  BY <1>0, <1>1, <1>2, <1>3, <1>4 DEF OnDisk, Moves
<1>10. ~Storing(t)'
  BY <1>4, <1>5 DEF Storing
<1>11. Claim(t)' \subseteq Claim(t)
  BY <1>2, <1>10 DEF Claim, Writing, Storing
<1>12. Bound(w)' /\ work'[w].task = t /\ work'[w].kind = work[w].kind /\ OnlyWorker(w)
  BY <1>1, <1>3 DEF Moves, Bound
<1>13. t \in stopped => work'[w].cancelled
  BY <1>3 DEF Moves, Working
<1>14. \A g \in File : Stored(tasks'[t], g) <=> Stored(tasks[t], g)
  BY <1>5 DEF Stored
<1> QED BY <1>0, <1>1, <1>2, <1>5, <1>6, <1>7, <1>8, <1>9, <1>10, <1>11, <1>12, <1>13, <1>14, BoundStep
      DEF Working

\* A change of a task, recorded or not.
Changes(t, task) ==
  /\ tasks' \in [Task -> TaskRecord \cup {NoTask}]
  /\ records' \in [Task -> TaskRecord \cup {NoTask}]
  /\ tasks'[t] = task /\ tasks'[t] # NoTask /\ records'[t] \in {records[t], tasks'[t]}
  /\ \A s \in Task \ {t} : tasks'[s] = tasks[s] /\ records'[s] = records[s]
  /\ faults' \in 0..MaxFaults

LEMMA PersistChanges ==
  ASSUME TypeOK, NEW t \in Task, NEW task \in TaskRecord, Persist(t, task) \/ PersistFails(t, task)
  PROVE  Changes(t, task)
<1>1. task # NoTask
  BY NoneAssumption
<1>2. /\ tasks' \in [Task -> TaskRecord \cup {NoTask}]
      /\ tasks'[t] = task
      /\ \A s \in Task \ {t} : tasks'[s] = tasks[s]
  BY TaskSet DEF Persist, PersistFails, TypeOK
<1>3. faults' \in 0..MaxFaults
  BY TransferAssumption DEF Persist, PersistFails, DiskFault, TypeOK
<1>4. /\ records' \in [Task -> TaskRecord \cup {NoTask}]
      /\ records'[t] \in {records[t], task}
      /\ \A s \in Task \ {t} : records'[s] = records[s]
  BY RecordSet DEF Persist, PersistFails, TypeOK
<1> QED BY <1>1, <1>2, <1>3, <1>4 DEF Changes

\* A worker goes on to the next file.
LEMMA NextFile ==
  ASSUME TypeOK, NEW w \in Worker, NEW f \in File, f = work[w].next,
         work' = [work EXCEPT ![w].pc = IF @ = "sent" THEN "send" ELSE "write", ![w].next = @ + 1]
  PROVE  /\ work' \in [Worker -> Work] /\ OnlyWorker(w)
         /\ work'[w].pc = IF work[w].pc = "sent" THEN "send" ELSE "write"
         /\ work'[w].kind = work[w].kind /\ work'[w].task = work[w].task
         /\ work'[w].next = f + 1 /\ work'[w].cancelled = work[w].cancelled
<1>1. work[w] \in Work
  BY DEF TypeOK
<1> DEFINE pc == IF work[w].pc = "sent" THEN "send" ELSE "write"
           r == [work[w] EXCEPT !.pc = pc, !.next = f + 1]
<1>2. pc \in WorkPc /\ f + 1 \in 1..(NFiles + 1)
  BY TransferAssumption DEF WorkPc, File
<1> HIDE DEF pc
<1>3. /\ r \in Work
      /\ r.pc = pc /\ r.kind = work[w].kind /\ r.task = work[w].task
      /\ r.next = f + 1 /\ r.cancelled = work[w].cancelled
  BY <1>1, <1>2 DEF Work
<1>4. work' = [work EXCEPT ![w] = r]
  BY <1>1 DEF pc
<1> HIDE DEF r
<1>5. work' \in [Worker -> Work] /\ work'[w] = r /\ OnlyWorker(w)
  BY <1>3, <1>4, WorkerSet DEF TypeOK
<1> QED BY <1>3, <1>5 DEF pc

LEMMA FileDoneKeeps ==
  ASSUME IInv, NEW w \in Worker, FileDone(w) PROVE IInv'
<1>0. work[w].pc \in {"record", "sent"} /\ Bound(w)
  BY DEF FileDone, Bound
<1> PICK t \in Task : Working(w, t)
  BY <1>0, AtTask
<1>1. /\ t = work[w].task /\ TypeOK /\ work[w] \in Work
      /\ tasks[t] \in TaskRecord /\ tasks[t] # NoTask /\ Active(tasks[t].state)
      /\ Steps(work[w], tasks[t]) /\ OnDisk(work[w], parts[t], blobs[t])
  BY DEF Working
<1> PICK f \in File : f = work[w].next
  BY <1>0, <1>1 DEF Steps
<1> PICK mark \in FileState : mark = IF work[w].kind = "upload" THEN "ready" ELSE "complete"
  BY DEF FileState
<1>2. [tasks[t] EXCEPT !.files[f] = mark] \in TaskRecord
  BY <1>1, WithFile
<1> PICK task \in TaskRecord : task = [tasks[t] EXCEPT !.files[f] = mark]
  BY <1>2
<1>3. /\ task.state = tasks[t].state /\ task.direction = tasks[t].direction
      /\ task.done = tasks[t].done /\ task.files[f] = mark
      /\ \A g \in File \ {f} : task.files[g] = tasks[t].files[g]
  BY <1>1, WithFile
<1>4. /\ \/ /\ Persist(t, task)
            /\ work' = [work EXCEPT ![w].pc = IF @ = "sent" THEN "send" ELSE "write", ![w].next = @ + 1]
         \/ PersistFails(t, task) /\ Becomes(w, "failing")
      /\ UNCHANGED <<parts, blobs, cancels, expired, service, starts, space, used, purged, stopped>>
  BY <1>1 DEF FileDone, host, history
<1>5. Changes(t, task)
  BY <1>1, <1>4, PersistChanges
<1>6. /\ work' \in [Worker -> Work] /\ OnlyWorker(w)
      /\ work'[w].kind = work[w].kind /\ work'[w].task = work[w].task
      /\ work'[w].cancelled = work[w].cancelled
      /\ \/ work'[w].pc = "failing"
         \/ /\ work'[w].pc = IF work[w].pc = "sent" THEN "send" ELSE "write"
            /\ work'[w].next = f + 1
  <2>1. CASE Becomes(w, "failing")
    BY <1>1, <2>1, BecomesMoves DEF Moves, WorkPc
  <2>2. CASE work' = [work EXCEPT ![w].pc = IF @ = "sent" THEN "send" ELSE "write", ![w].next = @ + 1]
    BY <1>1, <2>2, NextFile
  <2> QED BY <1>4, <2>1, <2>2
<1>7. TypeOK'
  BY <1>1, <1>4, <1>5, <1>6 DEF TypeOK, Changes
<1>8. OnlyTask(t)
  BY <1>4, <1>5 DEF OnlyTask, Changes
<1>9. Stored(task, f) /\ \A g \in File \ {f} : Stored(task, g) <=> Stored(tasks[t], g)
  BY <1>3 DEF Stored
<1>10. Steps(work'[w], task)
  <2>1. CASE work'[w].pc = "failing"
    BY <1>0, <1>1, <1>3, <1>6, <2>1 DEF Steps
  <2>2. CASE /\ work'[w].pc = IF work[w].pc = "sent" THEN "send" ELSE "write"
             /\ work'[w].next = f + 1
    <3>1. \A g \in File : g < f => /\ Stored(tasks[t], g)
                                   /\ work[w].kind # "upload" => tasks[t].files[g] = "complete"
      BY <1>0, <1>1 DEF Steps
    <3>2. \A g \in File : g < f + 1 => /\ Stored(task, g)
                                       /\ work[w].kind # "upload" => task.files[g] = "complete"
      <4> SUFFICES ASSUME NEW g \in File, g < f + 1
                   PROVE  Stored(task, g) /\ (work[w].kind # "upload" => task.files[g] = "complete")
        OBVIOUS
      <4>1. CASE g = f
        BY <1>3, <1>9, <4>1
      <4>2. CASE g < f
        BY <1>3, <1>9, <3>1, <4>2 DEF File
      <4> QED BY <4>1, <4>2 DEF File
    <3>3. task.done = f /\ f \in 1..NFiles
      BY <1>0, <1>1, <1>3 DEF Steps, File
    <3>4. CASE work[w].pc = "record"
      <4>1. work'[w].pc = "write" /\ work'[w].kind \in {"upload", "receive"}
        BY <1>1, <1>6, <2>2, <3>4 DEF Steps, Work, Kind
      <4>2. /\ work[w].kind = "upload" => task.state = "preparing"
            /\ work[w].kind = "receive" => task.state = "receiving"
        BY <1>1, <1>3, <3>4 DEF Steps
      <4> QED BY <1>6, <2>2, <3>2, <3>3, <4>1, <4>2 DEF Steps
    <3>5. CASE work[w].pc = "sent"
      <4>1. work'[w].pc = "send" /\ work'[w].kind = "send"
        BY <1>1, <1>6, <2>2, <3>5 DEF Steps, Work, Kind
      <4>2. task.state \in {"connecting", "sending", "verifying"}
        BY <1>1, <1>3, <1>6, <4>1 DEF Steps
      <4> QED BY <2>2, <3>2, <3>3, <4>1, <4>2, <1>6 DEF Steps
    <3> QED BY <1>0, <3>4, <3>5
  <2> QED BY <1>6, <2>1, <2>2
<1>11. OnDisk(work'[w], parts'[t], blobs'[t])
  <2>1. parts'[t] = parts[t] /\ blobs'[t] = blobs[t]
    BY <1>4
  <2>2. CASE work'[w].pc = "failing"
    BY <1>1, <1>6, <2>1, <2>2 DEF OnDisk
  <2>3. CASE work[w].pc = "record" /\ work'[w].pc = "write" /\ work'[w].next = f + 1
    <3>1. work[w].kind # "send" /\ parts[t] = {} /\ blobs[t] = 1..f
      BY <1>1, <2>3 DEF OnDisk, Steps
    <3>2. (f + 1) - 1 = f
      BY DEF File
    <3> QED BY <1>6, <2>1, <2>3, <3>1, <3>2 DEF OnDisk
  <2>4. CASE work[w].pc = "sent" /\ work'[w].pc = "send"
    BY <1>1, <1>6, <2>1, <2>4 DEF OnDisk
  <2> QED BY <1>0, <1>6, <2>2, <2>3, <2>4
<1>12. f \in blobs[t] /\ (Storing(t) => parts[t] \cup blobs[t] \subseteq 1..tasks[t].done)
  <2>1. CASE work[w].pc = "record"
    BY <1>1, <2>1 DEF OnDisk, Steps, File
  <2>2. CASE work[w].pc = "sent"
    BY <1>1, <2>2 DEF OnDisk, Steps, Storing, Work, Kind
  <2> QED BY <1>0, <2>1, <2>2
<1>13. Storing(t)' <=> Storing(t)
  BY <1>3, <1>5 DEF Storing, Changes
<1>14. Claim(t)' \subseteq Claim(t)
  BY <1>1, <1>3, <1>4, <1>5 DEF Claim, Writing, ActiveTasks, IsActive, Changes
<1>15. Bound(w)' /\ work'[w].task = t /\ work'[w].kind = work[w].kind
  BY <1>1, <1>6 DEF Bound
<1>16. t \in stopped => work'[w].cancelled
  BY <1>6 DEF Working
<1>17. /\ tasks'[t] = task /\ tasks'[t] # NoTask /\ records'[t] \in {records[t], tasks'[t]}
       /\ tasks'[t].direction = tasks[t].direction /\ Active(tasks'[t].state)
       /\ tasks'[t].done = tasks[t].done
  BY <1>1, <1>3, <1>5 DEF Changes
<1>18. \A g \in File : /\ Stored(tasks[t], g) => Stored(tasks'[t], g)
                       /\ Stored(tasks'[t], g) => Stored(tasks[t], g) \/ g \in blobs[t]
  BY <1>9, <1>12, <1>17
<1>19. /\ cancels'[t] = <<w, work'[w].kind>> /\ blobs[t] \subseteq blobs'[t]
       /\ Storing(t)' => parts'[t] \cup blobs'[t] \subseteq 1..tasks'[t].done
  BY <1>4, <1>6, <1>12, <1>13, <1>17 DEF Working
<1> QED BY <1>0, <1>1, <1>4, <1>6, <1>7, <1>8, <1>10, <1>11, <1>14, <1>15, <1>16, <1>17, <1>18, <1>19, BoundStep

LEMMA UpdateKeeps ==
  ASSUME IInv, NEW w \in Worker, NEW state, NEW pc, Update(w, state, pc),
         \/ work[w].pc = "dial" /\ state = "sending" /\ pc = "send"
         \/ work[w].pc = "send" /\ work[w].next = NFiles + 1 /\ state = "verifying" /\ pc = "verify"
  PROVE  IInv'
<1>0. Bound(w)
  BY DEF Bound
<1> PICK t \in Task : Working(w, t)
  BY <1>0, AtTask
<1>1. /\ t = work[w].task /\ TypeOK /\ work[w] \in Work
      /\ tasks[t] \in TaskRecord /\ tasks[t] # NoTask /\ Active(tasks[t].state)
      /\ Steps(work[w], tasks[t]) /\ OnDisk(work[w], parts[t], blobs[t])
  BY DEF Working
<1>2. state \in {"sending", "verifying"} /\ state \in ActiveState
  BY DEF ActiveState
<1>3. [tasks[t] EXCEPT !.state = state] \in TaskRecord
  BY <1>1, <1>2, InState
<1> PICK task \in TaskRecord : task = [tasks[t] EXCEPT !.state = state]
  BY <1>3
<1>4. /\ task.state = state /\ task.direction = tasks[t].direction
      /\ task.done = tasks[t].done /\ task.files = tasks[t].files
  BY <1>1, <1>2, InState
<1>5. /\ \/ Persist(t, task) /\ Becomes(w, pc)
         \/ PersistFails(t, task) /\ Becomes(w, "failing")
      /\ UNCHANGED <<parts, blobs, cancels, expired, service, starts, space, used, purged, stopped>>
  BY <1>1 DEF Update, host, history
<1>6. Changes(t, task)
  BY <1>1, <1>5, PersistChanges
<1> PICK to \in {pc, "failing"} : Moves(w, to)
  BY <1>1, <1>5, BecomesMoves DEF WorkPc
<1>7. TypeOK'
  BY <1>1, <1>5, <1>6 DEF TypeOK, Changes, Moves
<1>8. OnlyTask(t)
  BY <1>5, <1>6 DEF OnlyTask, Changes
<1>9. work[w].kind = "send"
  BY <1>1 DEF Steps, Work, Kind
<1>10. \A g \in File : Stored(task, g) <=> Stored(tasks[t], g)
  BY <1>4 DEF Stored
<1>11. Steps(work'[w], task)
  <2>1. CASE to = "failing"
    BY <1>2, <1>4, <1>9, <2>1 DEF Steps, Moves
  <2>2. CASE to = pc
    BY <1>1, <1>4, <1>9, <1>10, <2>2 DEF Steps, Moves
  <2> QED BY <2>1, <2>2
<1>12. OnDisk(work'[w], parts'[t], blobs'[t])
  BY <1>1, <1>5, <1>9 DEF OnDisk, Moves
<1>13. tasks'[t] = task /\ tasks'[t] # NoTask /\ records'[t] \in {records[t], tasks'[t]}
  BY <1>6 DEF Changes
<1>14. ~Storing(t)'
  BY <1>2, <1>4, <1>13 DEF Storing
<1>15. Claim(t)' \subseteq Claim(t)
  BY <1>5, <1>14 DEF Claim, Writing, Storing
<1>16. Bound(w)' /\ work'[w].task = t /\ work'[w].kind = work[w].kind /\ OnlyWorker(w)
  BY <1>1 DEF Bound, Moves
<1>17. t \in stopped => work'[w].cancelled
  BY DEF Working, Moves
<1>18. cancels'[t] = <<w, work'[w].kind>>
  BY <1>5, <1>16 DEF Working
<1>19. Active(task.state)
  BY <1>2, <1>4 DEF Active
<1> QED BY <1>0, <1>1, <1>4, <1>5, <1>7, <1>8, <1>10, <1>11, <1>12, <1>13, <1>14, <1>15, <1>16, <1>17, <1>18, <1>19,
           BoundStep

\* A sender that starts.
LEMMA DialSteps ==
  ASSUME NEW r, r.pc = "dial", r.kind = "send", r.next = 1,
         NEW task, task.state = "connecting", task.done = 0
  PROVE  Steps(r, task)
<1>1. \A f \in File : ~(f < 1)
  BY DEF File
<1> QED BY <1>1 DEF Steps

LEMMA StartSendKeeps ==
  ASSUME IInv, NEW w \in Worker, StartSend(w) PROVE IInv'
<1>0. /\ work[w].pc = "write" /\ work[w].kind = "upload" /\ work[w].next = NFiles + 1
      /\ ~work[w].cancelled /\ Bound(w)
  BY DEF StartSend, UploadMaySend, Bound
<1> PICK t \in Task : Working(w, t)
  BY <1>0, AtTask
<1>1. /\ t = work[w].task /\ TypeOK /\ work[w] \in Work
      /\ tasks[t] \in TaskRecord /\ tasks[t] # NoTask /\ Active(tasks[t].state)
      /\ Steps(work[w], tasks[t]) /\ OnDisk(work[w], parts[t], blobs[t])
      /\ t \notin stopped /\ cancels[t] = <<w, "upload">>
  BY <1>0 DEF Working
<1> PICK task : task = Connecting(tasks[t])
  OBVIOUS
<1>2. /\ task \in TaskRecord /\ task.state = "connecting" /\ task.direction = tasks[t].direction
      /\ task.done = 0 /\ task.files = tasks[t].files
  <2>1. 0 \in 0..NFiles /\ "connecting" \in ActiveState
    BY TransferAssumption DEF ActiveState
  <2>2. task = [tasks[t] EXCEPT !.state = "connecting", !.done = 0]
    BY DEF Connecting
  <2> QED BY <1>1, <2>1, <2>2 DEF TaskRecord
<1> PICK r : r = [Begin(t, "send", NoTask, FALSE) EXCEPT !.pc = "dial"]
  OBVIOUS
<1>3. /\ r \in Work /\ r.pc = "dial" /\ r.kind = "send" /\ r.task = t /\ r.next = 1
  <2> PICK no \in BOOLEAN : no = FALSE
    OBVIOUS
  <2> DEFINE b == Begin(t, "send", NoTask, no)
  <2>1. "send" \in Kind /\ NoTask \in Task \cup {NoTask}
    BY DEF Kind
  <2>2. b \in Work /\ b.kind = "send" /\ b.task = t /\ b.next = 1
    BY <2>1, BeginIs
  <2>3. r = [b EXCEPT !.pc = "dial"]
    OBVIOUS
  <2> HIDE DEF b
  <2> QED BY <2>2, <2>3 DEF Work, WorkPc
<1>4. /\ \/ /\ Persist(t, task)
            /\ cancels' = [cancels EXCEPT ![t] = <<w, "send">>]
            /\ work' = [work EXCEPT ![w] = r]
         \/ /\ PersistFails(t, task)
            /\ Becomes(w, "failing")
            /\ UNCHANGED cancels
      /\ UNCHANGED <<parts, blobs, expired, service, starts, space, used, purged, stopped>>
  BY <1>1 DEF StartSend, RegisterSender, host, history
<1>5. Changes(t, task)
  BY <1>1, <1>2, <1>4, PersistChanges
<1>6. /\ cancels' \in [Task -> (Worker \X Kind) \cup {NoCancel}]
      /\ \A s \in Task \ {t} : cancels'[s] = cancels[s]
      /\ work' \in [Worker -> Work] /\ OnlyWorker(w)
      /\ work'[w].task = t /\ cancels'[t] = <<w, work'[w].kind>>
      /\ \/ work'[w] = r
         \/ work'[w].pc = "failing" /\ work'[w].kind = "upload"
  <2>1. CASE /\ cancels' = [cancels EXCEPT ![t] = <<w, "send">>]
             /\ work' = [work EXCEPT ![w] = r]
    <3>1. <<w, "send">> \in Worker \X Kind
      BY DEF Kind
    <3>2. work' \in [Worker -> Work] /\ work'[w] = r /\ OnlyWorker(w)
      BY <1>1, <1>3, <2>1, WorkerSet DEF TypeOK
    <3> QED BY <1>1, <1>3, <2>1, <3>1, <3>2 DEF TypeOK
  <2>2. CASE Becomes(w, "failing") /\ UNCHANGED cancels
    BY <1>0, <1>1, <2>2, BecomesMoves DEF TypeOK, Moves, WorkPc
  <2> QED BY <1>4, <2>1, <2>2
<1>7. TypeOK'
  BY <1>1, <1>4, <1>5, <1>6 DEF TypeOK, Changes
<1>8. OnlyTask(t)
  BY <1>4, <1>5, <1>6 DEF OnlyTask, Changes
<1>9. Steps(work'[w], task)
  <2>1. CASE work'[w] = r
    BY <1>2, <1>3, <2>1, DialSteps
  <2>2. CASE work'[w].pc = "failing" /\ work'[w].kind = "upload"
    BY <1>2, <2>2 DEF Steps
  <2> QED BY <1>6, <2>1, <2>2
<1>10. OnDisk(work'[w], parts'[t], blobs'[t])
  <2>1. parts[t] = {} /\ blobs[t] = 1..NFiles
    BY <1>0, <1>1, TransferAssumption DEF OnDisk
  <2> QED BY <1>3, <1>4, <1>6, <2>1 DEF OnDisk, File
<1>11. tasks'[t] = task /\ tasks'[t] # NoTask /\ records'[t] \in {records[t], tasks'[t]}
  BY <1>5 DEF Changes
<1>12. ~Storing(t)'
  BY <1>2, <1>11 DEF Storing
<1>13. Claim(t)' \subseteq Claim(t)
  BY <1>4, <1>12 DEF Claim, Writing, Storing
<1>14. Bound(w)' /\ (work'[w].kind = "receive" <=> work[w].kind = "receive")
  BY <1>0, <1>3, <1>6 DEF Bound
<1>15. \A g \in File : Stored(task, g) <=> Stored(tasks[t], g)
  BY <1>2 DEF Stored
<1>16. Active(task.state)
  BY <1>2 DEF Active, ActiveState
<1> QED BY <1>0, <1>1, <1>2, <1>4, <1>6, <1>7, <1>8, <1>9, <1>10, <1>11, <1>12, <1>13, <1>14, <1>15, <1>16,
           BoundStep

LEMMA ReturnsKeeps ==
  ASSUME IInv, NEW w \in Worker, Bound(w), NEW outcome \in {"complete", "failed"}, Returns(w, outcome),
         outcome = "complete" => \/ work[w].pc = "write" /\ work[w].kind = "receive" /\ work[w].next = NFiles + 1
                                 \/ work[w].pc = "verify"
  PROVE  IInv'
<1> PICK t \in Task : Working(w, t)
  BY AtTask
<1>1. /\ t = work[w].task /\ TypeOK /\ work[w] \in Work
      /\ tasks[t] # NoTask
      /\ Steps(work[w], tasks[t]) /\ OnDisk(work[w], parts[t], blobs[t])
      /\ service # "down"
  BY AtWork DEF Working, Bound
<1>2. /\ work' = [work EXCEPT ![w].pc = "finish",
                              ![w].outcome = IF work[w].cancelled THEN "cancelled" ELSE outcome]
      /\ UNCHANGED <<tasks, records, parts, blobs, cancels, expired, service, starts, space,
                     faults, used, purged, stopped>>
  BY DEF Returns, disk, host, history
<1> PICK end \in {"cancelled", "complete", "failed"} :
         end = IF work[w].cancelled THEN "cancelled" ELSE outcome
  OBVIOUS
<1> PICK r : r = [work[w] EXCEPT !.pc = "finish", !.outcome = end]
  OBVIOUS
<1>3. /\ r \in Work /\ r.pc = "finish" /\ r.kind = work[w].kind /\ r.task = t
      /\ r.cancelled = work[w].cancelled /\ r.outcome = end
  BY <1>1 DEF Work, WorkPc, EndedState
<1>4. work' = [work EXCEPT ![w] = r]
  BY <1>2
<1>5. work' \in [Worker -> Work] /\ work'[w] = r /\ OnlyWorker(w)
  BY <1>1, <1>3, <1>4, WorkerSet DEF TypeOK
<1>6. TypeOK'
  BY <1>1, <1>2, <1>5 DEF TypeOK
<1>7. end = "complete" => work[w].kind # "upload" /\ Whole(tasks[t]) /\ parts[t] = {}
  <2> SUFFICES ASSUME end = "complete" PROVE work[w].kind # "upload" /\ Whole(tasks[t]) /\ parts[t] = {}
    OBVIOUS
  <2>1. work[w].kind \in {"receive", "send"} /\ work[w].next = NFiles + 1 /\ work[w].pc \in {"write", "verify"}
    BY <1>1 DEF Steps, Work, Kind
  <2>2. \A f \in File : f < NFiles + 1
    BY TransferAssumption DEF File
  <2>3. Whole(tasks[t])
    BY <1>1, <2>1, <2>2 DEF Steps, Whole
  <2>4. parts[t] = {}
    BY <1>1, <2>1 DEF OnDisk, Steps
  <2> QED BY <2>1, <2>3, <2>4
<1>8. Steps(r, tasks[t])
  BY <1>1, <1>3, <1>7 DEF Steps
<1>9. OnDisk(r, parts[t], blobs[t])
  BY <1>1, <1>3, <1>7 DEF OnDisk
<1>10. WorkOK(w)'
  <2>1. WorkOK(w) /\ work[w].pc # "idle" /\ IsActive(t)
    BY DEF Working, Bound, WorkOK, Owned
  <2>2. Assigned(w)'
    BY <1>1, <1>2, <1>3, <1>5, <2>1 DEF WorkOK, Assigned
  <2>3. Owned(w)'
    BY <1>1, <1>2, <1>3, <1>5, <2>1 DEF Working, Owned, IsActive
  <2>4. Placed(w)'
    BY <1>2, <1>3, <1>5, <1>8, <1>9 DEF Placed
  <2> QED BY <2>2, <2>3, <2>4 DEF WorkOK
<1>11. SameReceipt(w)
  BY <1>1, <1>3, <1>5 DEF SameReceipt, Receives, Bound
<1> QED BY <1>1, <1>2, <1>5, <1>6, <1>10, <1>11, WorkerAlone

\* A success: every file of the task is complete and nothing partial is left.
LEMMA FinishSucceeds ==
  ASSUME IInv, NEW w \in Worker, NEW t \in Task, Working(w, t), work[w].pc = "finish",
         work[w].outcome = "complete", Finish(t, "complete"), UNCHANGED <<used, purged, stopped>>
  PROVE  Finished(t)
<1>1. /\ TypeOK /\ TaskOK(t) /\ tasks[t] \in TaskRecord /\ tasks[t] # NoTask /\ IsActive(t)
      /\ Whole(tasks[t]) /\ parts[t] = {}
  BY DEF Working, Steps, OnDisk, IsActive
<1> PICK ended : ended = [tasks[t] EXCEPT !.state = "complete", !.done = NFiles]
  OBVIOUS
<1>2. /\ ended \in TaskRecord /\ ended.state = "complete"
      /\ ended.direction = tasks[t].direction /\ ended.files = tasks[t].files
  <2>1. NFiles \in 0..NFiles /\ "complete" \in EndedState
    BY TransferAssumption DEF EndedState
  <2> QED BY <1>1, <2>1 DEF TaskRecord
<1> PICK lost : lost = [ended EXCEPT !.state = "failed"]
  OBVIOUS
<1>3. /\ lost \in TaskRecord /\ lost.state = "failed"
      /\ lost.direction = tasks[t].direction /\ lost.files = tasks[t].files
  BY <1>2 DEF TaskRecord, EndedState
<1>4. /\ cancels' = [cancels EXCEPT ![t] = NoCancel] /\ UNCHANGED <<parts, blobs>>
      /\ Persist(t, ended) \/ PersistFails(t, lost)
  BY <1>1 DEF Finish
<1> PICK task \in {ended, lost} : Persist(t, task) \/ PersistFails(t, task)
  BY <1>4
<1>5. /\ task \in TaskRecord /\ task.direction = tasks[t].direction /\ task.files = tasks[t].files
      /\ ~Active(task.state) /\ Whole(task) /\ \A f \in File : Stored(task, f) <=> Stored(tasks[t], f)
  <2>1. /\ task \in TaskRecord /\ task.direction = tasks[t].direction /\ task.files = tasks[t].files
        /\ task.state \in {"complete", "failed"}
    BY <1>2, <1>3
  <2> QED BY <1>1, <2>1 DEF Active, ActiveState, Whole, Stored
<1>6. Changes(t, task)
  BY <1>1, <1>5, PersistChanges
<1>7. /\ cancels' \in [Task -> (Worker \X Kind) \cup {NoCancel}]
      /\ \A s \in Task \ {t} : cancels'[s] = cancels[s]
  BY <1>1, <1>4 DEF TypeOK
<1>8. OnlyTask(t) /\ SameDirection(t)
  BY <1>1, <1>4, <1>5, <1>6, <1>7 DEF OnlyTask, SameDirection, Changes
<1>9. ~IsActive(t)' /\ t \in used'
  BY <1>1, <1>5, <1>6 DEF IsActive, Changes, TaskOK
<1>10. Claim(t)' \subseteq Claim(t)
  BY <1>4, <1>9 DEF Claim, Writing, ActiveTasks
<1>11. Tidy(task, t)'
  <2>1. \A f \in File : Stored(task, f)
    BY <1>5 DEF Whole, Stored
  <2> QED BY <1>1, <1>4, <1>5, <2>1 DEF Tidy, TypeOK
<1>12. t \notin purged' => \A f \in File : Stored(task, f) => f \in blobs'[t]
  BY <1>1, <1>4, <1>5 DEF TaskOK, Truthful
<1>13. Truthful(tasks[t], t)'
  BY <1>6, <1>11, <1>12 DEF Truthful, Changes
<1>14. /\ records[t] # NoTask /\ Active(records[t].state)
       /\ \A f \in File : Stored(records[t], f) => Stored(task, f)
  BY <1>1, <1>5 DEF TaskOK
<1>15. Truthful(records[t], t)'
  <2>1. CASE records'[t] = records[t]
    BY <1>12, <1>14, <2>1 DEF Truthful
  <2>2. CASE records'[t] = tasks'[t]
    BY <1>13, <2>2 DEF Truthful
  <2> QED BY <1>6, <2>1, <2>2 DEF Changes
<1>16. \A f \in File : Stored(records'[t], f) => Stored(tasks'[t], f)
  BY <1>6, <1>14 DEF Changes
<1>17. TaskOK(t)'
  BY <1>9, <1>13, <1>15, <1>16 DEF TaskOK
<1> QED BY <1>1, <1>4, <1>6, <1>7, <1>8, <1>10, <1>17 DEF Finished, Changes, TypeOK

LEMMA FinishWorkKeeps ==
  ASSUME IInv, NEW w \in Worker, FinishWork(w) PROVE IInv'
<1>0. work[w].pc = "finish" /\ Bound(w)
  BY DEF FinishWork, Bound
<1> PICK t \in Task : Working(w, t)
  BY <1>0, AtTask
<1>1. /\ t = work[w].task /\ TypeOK /\ work[w] \in Work /\ service # "down"
  BY <1>0, AtWork DEF Working
<1>2. /\ Finish(t, work[w].outcome)
      /\ work' = [work EXCEPT ![w] = Idle]
      /\ UNCHANGED <<expired, service, starts, space, used, purged, stopped>>
  BY <1>1 DEF FinishWork, host, history
<1>3. Finished(t)
  <2>1. CASE work[w].outcome = "complete"
    BY <1>0, <1>2, <2>1, FinishSucceeds
  <2>2. CASE work[w].outcome \in EndedState \ {"complete"}
    BY <1>2, <2>2, FinishFails
  <2> QED BY <1>1, <2>1, <2>2 DEF Work
<1>4. work' \in [Worker -> Work] /\ OnlyWorker(w) /\ WorkOK(w)' /\ SameReceipt(w)
  BY <1>1, <1>2, IdleOK
<1>5. TypeOK'
  BY <1>1, <1>2, <1>3, <1>4 DEF TypeOK, Finished
<1>6. Unshared(t, Worker \ {w})
  BY <1>0, <1>1, <1>3, BoundUnshared DEF Finished
<1> QED BY <1>1, <1>2, <1>3, <1>4, <1>5, <1>6, WorkerStep DEF Finished

-----------------------------------------------------------------------------
(* Cancelled contexts, and the service                                     *)

LEMMA AllTold ==
  ASSUME IInv, TypeOK', \A x \in Worker : Told(x), service' # "down",
         UNCHANGED <<tasks, records, parts, blobs, cancels, used, purged, stopped, space>>
  PROVE  IInv'
<1>1. \A t \in Task : TaskOK(t)'
  BY DEF IInv, TaskOK, IsActive, Truthful, Tidy, Pristine, Storing
<1>2. \A x \in Worker : WorkOK(x)'
  <2> SUFFICES ASSUME NEW x \in Worker PROVE WorkOK(x)'
    OBVIOUS
  <2>1. Bound(x) /\ work[x].task \in stopped' => work'[x].cancelled
    BY DEF IInv, WorkOK, Owned, Told
  <2> QED BY <2>1, ToldOK DEF IInv
<1>3. OneReceiver'
  BY ToldReceipt DEF IInv
<1>4. Down' /\ Fits'
  BY DEF Down, IInv, Fits, Claims, Claim, Writing, ActiveTasks, IsActive
<1> QED BY <1>1, <1>2, <1>3, <1>4 DEF IInv

LEMMA BrowserLeavesKeeps ==
  ASSUME IInv, NEW w \in Worker, BrowserLeaves(w) PROVE IInv'
<1>1. /\ work[w].pc # "idle"
      /\ work' = [work EXCEPT ![w].cancelled = TRUE]
      /\ UNCHANGED <<tasks, records, parts, blobs, cancels, expired, service, starts, space,
                     faults, used, purged, stopped>>
  BY DEF BrowserLeaves, disk, host, history
<1>2. TypeOK /\ service # "down"
  BY <1>1, AtWork DEF IInv
<1>3. work' \in [Worker -> Work] /\ \A x \in Worker : Told(x)
  <2>1. \A x \in Worker : work'[x] \in Work /\ Told(x)
    <3> SUFFICES ASSUME NEW x \in Worker PROVE work'[x] \in Work /\ Told(x)
      OBVIOUS
    <3>1. work[x] \in Work
      BY <1>2 DEF TypeOK
    <3>2. work'[x] \in {work[x], [work[x] EXCEPT !.cancelled = TRUE]}
      BY <1>1, <1>2 DEF TypeOK
    <3> QED BY <3>1, <3>2, ToldIs
  <2>2. work' = [x \in Worker |-> work'[x]]
    BY <1>1, <1>2 DEF TypeOK
  <2> QED BY <2>1, <2>2
<1>4. TypeOK'
  BY <1>1, <1>2, <1>3 DEF TypeOK
<1> QED BY <1>1, <1>2, <1>3, <1>4, AllTold

LEMMA StopKeeps == ASSUME IInv, Stop PROVE IInv'
<1>1. /\ service' = "stopping"
      /\ work' = [w \in Worker |-> IF work[w].pc = "idle" THEN work[w]
                                   ELSE [work[w] EXCEPT !.cancelled = TRUE]]
      /\ UNCHANGED <<tasks, records, parts, blobs, cancels, expired, starts, space,
                     faults, used, purged, stopped>>
  BY DEF Stop, disk, history
<1>2. TypeOK
  BY DEF IInv
<1>3. \A x \in Worker : work'[x] \in Work /\ Told(x)
  <2> SUFFICES ASSUME NEW x \in Worker PROVE work'[x] \in Work /\ Told(x)
    OBVIOUS
  <2>1. work[x] \in Work
    BY <1>2 DEF TypeOK
  <2>2. work'[x] \in {work[x], [work[x] EXCEPT !.cancelled = TRUE]}
    BY <1>1
  <2> QED BY <2>1, <2>2, ToldIs
<1>4. TypeOK'
  BY <1>1, <1>2, <1>3 DEF TypeOK
<1> QED BY <1>1, <1>3, <1>4, AllTold

LEMMA ExitKeeps == ASSUME IInv, Exit PROVE IInv'
<1>1. /\ service' = "down"
      /\ tasks' = [t \in Task |-> NoTask]
      /\ cancels' = [t \in Task |-> NoCancel]
      /\ work' = [w \in Worker |-> Idle]
      /\ expired' = {}
      /\ UNCHANGED <<records, parts, blobs, starts, space, faults, used, purged, stopped>>
  BY DEF Exit, disk, history
<1>2. TypeOK
  BY DEF IInv
<1>3. work' \in [Worker -> Work] /\ \A w \in Worker : work'[w].pc = "idle"
  BY <1>1, IdleIs
<1>4. TypeOK'
  BY <1>1, <1>2, <1>3 DEF TypeOK
<1>5. \A t \in Task : TaskOK(t)'
  <2> SUFFICES ASSUME NEW t \in Task PROVE TaskOK(t)'
    OBVIOUS
  <2>1. TaskOK(t)
    BY DEF IInv
  <2>2. Truthful(tasks[t], t)' /\ Truthful(records[t], t)'
    BY <1>1, <2>1 DEF TaskOK, Truthful, Tidy
  <2> QED BY <1>1, <2>1, <2>2 DEF TaskOK, IsActive
<1>6. \A w \in Worker : WorkOK(w)'
  BY <1>3 DEF WorkOK, Assigned, Owned, Placed, Bound
<1>7. OneReceiver' /\ Down'
  BY <1>1, <1>3 DEF Exit, OneReceiver, Receives, Down
<1>8. Fits'
  <2>1. \A t \in Task : Claim(t)' \subseteq Claim(t)
    BY <1>1 DEF Claim, Writing, ActiveTasks, IsActive
  <2>2. space \in Nat
    BY <1>2, TransferAssumption DEF TypeOK
  <2> QED BY <1>1, <2>1, <2>2, FitsKept DEF IInv
<1> QED BY <1>4, <1>5, <1>6, <1>7, <1>8 DEF IInv

LEMMA StartKeeps == ASSUME IInv, Start PROVE IInv'
<1> DEFINE load(t) == IF Interrupted(t) THEN [Cleaned(records[t]) EXCEPT !.state = "interrupted"]
                      ELSE records[t]
<1>1. /\ service = "down" /\ service' = "up" /\ starts' = starts + 1
      /\ tasks' = [t \in Task |-> load(t)] /\ records' = [t \in Task |-> load(t)]
      /\ parts' = [t \in Task |-> IF Interrupted(t) THEN {} ELSE parts[t]]
      /\ blobs' = [t \in Task |-> IF Interrupted(t) THEN {f \in blobs[t] : Stored(records[t], f)}
                                  ELSE blobs[t]]
      /\ UNCHANGED <<cancels, work, expired, space, faults, used, purged, stopped>>
  BY DEF Start, history
<1>2. TypeOK /\ Down
  BY DEF IInv
<1>3. /\ \A t \in Task : tasks[t] = NoTask
      /\ \A w \in Worker : work[w].pc = "idle"
  BY <1>1, <1>2 DEF Down
<1>4. \A t \in Task : Interrupted(t) =>
        /\ load(t) \in TaskRecord /\ load(t).state = "interrupted"
        /\ \A f \in File : Stored(load(t), f) <=> Stored(records[t], f)
  <2> SUFFICES ASSUME NEW t \in Task, Interrupted(t)
               PROVE  /\ load(t) \in TaskRecord /\ load(t).state = "interrupted"
                      /\ \A f \in File : Stored(load(t), f) <=> Stored(records[t], f)
    OBVIOUS
  <2>1. records[t] \in TaskRecord /\ "interrupted" \in EndedState
    BY <1>2 DEF Interrupted, TypeOK, EndedState
  <2> QED BY <2>1, EndedIs
<1>5. \A t \in Task : ~Interrupted(t) => load(t) = records[t]
  OBVIOUS
<1> HIDE DEF load
<1>6. \A t \in Task : load(t) \in TaskRecord \cup {NoTask}
                      /\ (load(t) # NoTask => ~Active(load(t).state))
  BY <1>2, <1>4, <1>5 DEF TypeOK, Interrupted, Active, ActiveState
<1>7. tasks' \in [Task -> TaskRecord \cup {NoTask}] /\ records' \in [Task -> TaskRecord \cup {NoTask}]
  BY <1>1, <1>6
<1>8. parts' \in [Task -> SUBSET File] /\ blobs' \in [Task -> SUBSET File]
  BY <1>1, <1>2 DEF TypeOK
<1>9. starts' \in 0..MaxStarts
  BY <1>1, <1>2, TransferAssumption DEF Down, TypeOK
<1>10. TypeOK'
  BY <1>1, <1>2, <1>7, <1>8, <1>9 DEF TypeOK
<1>11. \A t \in Task : TaskOK(t)'
  <2> SUFFICES ASSUME NEW t \in Task PROVE TaskOK(t)'
    OBVIOUS
  <2>1. TaskOK(t) /\ tasks'[t] = load(t) /\ records'[t] = load(t)
    BY <1>1 DEF IInv
  <2>2. ~IsActive(t)'
    BY <1>6, <2>1 DEF IsActive
  <2>3. load(t) # NoTask => t \in used
    BY <1>5, <2>1 DEF TaskOK, Interrupted
  <2>4. t \notin used => parts'[t] = {} /\ blobs'[t] = {}
    BY <1>1, <2>1 DEF TaskOK
  <2>5. Truthful(tasks[t], t)'
    <3>1. CASE Interrupted(t)
      <4>1. parts'[t] = {} /\ blobs'[t] = {f \in blobs[t] : Stored(records[t], f)}
        BY <1>1, <3>1
      <4>2. Tidy(tasks[t], t)'
        <5>1. tasks'[t].state = "interrupted" /\ \A f \in blobs[t] : Stored(tasks'[t], f) <=> Stored(records[t], f)
          BY <1>2, <1>4, <2>1, <3>1 DEF TypeOK
        <5> QED BY <4>1, <5>1 DEF Tidy
      <4>3. t \notin purged => \A f \in File : Stored(records[t], f) => f \in blobs[t]
        BY <2>1, <3>1 DEF TaskOK, Truthful, Interrupted
      <4>4. t \notin purged' => \A f \in File : Stored(tasks'[t], f) => f \in blobs'[t]
        BY <1>1, <1>4, <2>1, <3>1, <4>1, <4>3
      <4> QED BY <4>2, <4>4 DEF Truthful
    <3>2. CASE ~Interrupted(t)
      <4>1. load(t) = records[t] /\ parts'[t] = parts[t] /\ blobs'[t] = blobs[t]
        BY <1>1, <1>5, <3>2
      <4> QED BY <1>1, <2>1, <3>2, <4>1 DEF TaskOK, Truthful, Tidy
    <3> QED BY <3>1, <3>2
  <2>6. Truthful(records[t], t)'
    BY <2>1, <2>5
  <2> QED BY <1>1, <2>1, <2>2, <2>3, <2>4, <2>5, <2>6 DEF TaskOK
<1>12. \A w \in Worker : WorkOK(w)'
  BY <1>1, <1>3 DEF WorkOK, Assigned, Owned, Placed, Bound
<1>13. OneReceiver' /\ Down'
  BY <1>1, <1>3 DEF OneReceiver, Receives, Down
<1>14. Fits'
  <2>1. \A t \in Task : ~IsActive(t)'
    BY <1>1, <1>6 DEF IsActive
  <2>2. \A t \in Task : Claim(t)' \subseteq Claim(t)
    BY <1>1, <1>2, <2>1 DEF Claim, Writing, ActiveTasks, TypeOK
  <2>3. space \in Nat
    BY <1>2, TransferAssumption DEF TypeOK
  <2> QED BY <1>1, <2>2, <2>3, FitsKept DEF IInv
<1> QED BY <1>10, <1>11, <1>12, <1>13, <1>14 DEF IInv

-----------------------------------------------------------------------------
(* The invariant                                                           *)

LEMMA InitInv == Init => IInv
<1> SUFFICES ASSUME Init PROVE IInv
  OBVIOUS
<1>1. work \in [Worker -> Work] /\ \A w \in Worker : work[w].pc = "idle"
  BY IdleIs DEF Init
<1>2. TypeOK
  BY <1>1, TransferAssumption DEF Init, TypeOK
<1>3. \A t \in Task : TaskOK(t)
  BY DEF Init, TaskOK, IsActive, Truthful
<1>4. \A w \in Worker : WorkOK(w)
  BY <1>1 DEF WorkOK, Assigned, Owned, Placed, Bound
<1>5. OneReceiver /\ Down
  BY <1>1 DEF Init, OneReceiver, Receives, Down
<1>6. Fits
  <2>1. Claims = {}
    BY DEF Init, Claims, Claim, Writing, ActiveTasks, IsActive
  <2> QED BY <1>2, <2>1, FS_EmptySet, TransferAssumption DEF Fits, TypeOK
<1> QED BY <1>2, <1>3, <1>4, <1>5, <1>6 DEF IInv

LEMMA StepInv == ASSUME IInv, Next PROVE IInv'
<1>1. CASE Request
  BY <1>1, CreateTransferKeeps, CancelTransferKeeps, RemoveKeeps, UploadTransferKeeps,
     OfferKeeps, RetryTransferKeeps DEF Request
<1>2. CASE \E t \in Task : IdleCheck(t) \/ IdleCancel(t)
  BY <1>2, IdleCheckKeeps, IdleCancelKeeps
<1>3. ASSUME NEW w \in Worker, LocalStep(w) \/ PeerStep(w) PROVE IInv'
  <2>1. CASE Bind(w) \/ BindFails(w) \/ RenameFile(w) \/ StartSend(w) \/ FileDone(w) \/ FinishWork(w)
    BY <2>1, BindKeeps, BindFailsKeeps, RenameFileKeeps, StartSendKeeps, FileDoneKeeps, FinishWorkKeeps
  <2>2. CASE WriteFile(w) \/ SendFile(w) \/ BrowserLeaves(w)
    BY <2>2, WriteFileKeeps, SendFileKeeps, BrowserLeavesKeeps
  <2>3. CASE SendVerify(w)
    BY <2>3, UpdateKeeps DEF SendVerify
  <2>4. CASE SendAccepted(w)
    BY <2>4, UpdateKeeps DEF SendAccepted
  <2>5. CASE Breaks(w)
    BY <2>5, ReturnsKeeps DEF Breaks
  <2>6. CASE Succeeds(w)
    BY <2>6, ReturnsKeeps DEF Succeeds, Bound
  <2> QED BY <1>3, <2>1, <2>2, <2>3, <2>4, <2>5, <2>6 DEF LocalStep, PeerStep
<1>4. CASE Stop \/ Exit \/ Start
  BY <1>4, StopKeeps, ExitKeeps, StartKeeps
<1> QED BY <1>1, <1>2, <1>3, <1>4 DEF Next

\* The inductive invariant holds of every state: memory, record and directory of
\* each task agree, each worker is where its task says, and the disk has room.
THEOREM Invariance == Spec => []IInv
<1>1. IInv /\ UNCHANGED vars => IInv'
  BY NothingKeeps DEF vars, disk, host, history, IInv, TypeOK
<1> QED BY <1>1, InitInv, StepInv, PTL DEF Spec

\* Every state is typed: whatever is created, sent, cancelled, removed or lost in
\* a crash, the progress of a task and the place of a worker stay within the
\* task's files (received and fileDone add to them without looking).
THEOREM TypeCorrect == Spec => []TypeOK
BY Invariance, PTL DEF IInv

\* A worker past bind has its task to itself: the task is in memory and active,
\* and the cancel function registered for it is the worker's own (bind,
\* startSendTransfer, Cancel, Remove).
THEOREM WorkersOwn == Spec => []WorkersOwnTheirTasks
<1>1. IInv => WorkersOwnTheirTasks
  BY DEF IInv, WorkOK, Owned, WorkersOwnTheirTasks
<1> QED BY <1>1, Invariance, PTL

\* A task that has ended has no partial file and no file it does not list as
\* stored, whichever of finish, Cancel and load ended it; a complete one has
\* every file complete.
THEOREM EndsClean == Spec => []EndedTasksAreClean
<1>1. IInv => EndedTasksAreClean
  BY DEF IInv, TaskOK, Truthful, Tidy, IsActive, Whole, EndedTasksAreClean
<1> QED BY <1>1, Invariance, PTL

\* A file that memory or the record calls ready or complete is on disk in full
\* at every moment a crash may choose, unless its deletion was asked for.
THEOREM FilesExist == Spec => []StoredFilesExist
<1>1. IInv => StoredFilesExist
  BY DEF IInv, TaskOK, Truthful, StoredFilesExist
<1> QED BY <1>1, Invariance, PTL

\* What the admitted tasks still have to write fits on the disk, however their
\* writes interleave: create sets aside what the others have outstanding.
THEOREM RoomForAll == Spec => []SpaceSuffices
<1>1. ASSUME IInv PROVE SpaceSuffices
  <2> DEFINE Held == {tf \in Task \X File : tf[2] \in parts[tf[1]] \cup blobs[tf[1]]}
             Due == {tf \in Writing \X File : tf[2] > tasks[tf[1]].done}
  <2>1. Claims = Held \cup Due
    BY DEF Claims, Claim, Writing, ActiveTasks
  <2>2. Held \cap Due = {}
    <3> SUFFICES ASSUME NEW tf \in Held, tf \in Due PROVE FALSE
      OBVIOUS
    <3>1. /\ tf[1] \in Task /\ tf[2] \in File /\ tf[2] \in parts[tf[1]] \cup blobs[tf[1]]
          /\ IsActive(tf[1]) /\ Storing(tf[1]) /\ tf[2] > tasks[tf[1]].done
      BY DEF Writing, ActiveTasks, Storing
    <3>2. tf[2] \in 1..tasks[tf[1]].done
      BY <1>1, <3>1 DEF IInv, TaskOK
    <3>3. tasks[tf[1]].done \in 0..NFiles
      BY <1>1, <3>1 DEF IInv, TypeOK, IsActive, TaskRecord
    <3> QED BY <3>1, <3>2, <3>3, TransferAssumption
  <2>3. Held \in SUBSET (Task \X File) /\ Due \in SUBSET (Task \X File)
    BY DEF Writing, ActiveTasks
  <2>4. /\ IsFiniteSet(Held) /\ IsFiniteSet(Due)
        /\ Cardinality(Held) \in Nat /\ Cardinality(Due) \in Nat
    BY <2>3, FiniteClaims
  <2>5. SpaceSuffices <=> Cardinality(Due) <= space - Cardinality(Held)
    BY DEF SpaceSuffices, Outstanding, Free
  <2>6. space \in Nat
    BY <1>1, TransferAssumption DEF IInv, TypeOK
  <2>7. Cardinality(Claims) <= space
    BY <1>1 DEF IInv, Fits
  <2> HIDE DEF Held, Due
  <2>8. Cardinality(Held \cup Due) = Cardinality(Held) + Cardinality(Due)
    <3>1. Cardinality(Held \cup Due)
            = Cardinality(Held) + Cardinality(Due) - Cardinality(Held \cap Due)
      BY <2>4, FS_Union
    <3>2. Cardinality(Held \cap Due) = 0
      BY <2>2, FS_EmptySet
    <3> QED BY <2>4, <3>1, <3>2
  <2> QED BY <2>1, <2>4, <2>5, <2>6, <2>7, <2>8
<1> QED BY <1>1, Invariance, PTL

-----------------------------------------------------------------------------
(* What no step does                                                       *)

\* Where a task may be after a step: an ended one is not at work again, and a
\* cancelled upload goes nowhere but to its end.
Calm(t) ==
  /\ tasks[t] # NoTask /\ ~IsActive(t) => ~IsActive(t)'
  /\ t \in stopped /\ tasks[t] # NoTask /\ tasks[t].state = "preparing" =>
       tasks'[t] = NoTask \/ tasks'[t].state \in {"preparing", "cancelled", "failed"}

LEMMA CalmAsBefore ==
  ASSUME NEW t \in Task, \/ tasks'[t] = tasks[t] \/ tasks'[t] = NoTask
                         \/ tasks'[t].state = tasks[t].state /\ tasks[t] # NoTask
                         \/ tasks'[t].state \in {"cancelled", "failed"}
  PROVE  Calm(t)
<1>1. ~Active("cancelled") /\ ~Active("failed")
  BY DEF Active, ActiveState
<1> QED BY <1>1 DEF Calm, IsActive

\* A step that changes one task is calm if it is about that task.
LEMMA CalmElsewhere ==
  ASSUME NEW t \in Task, \A s \in Task \ {t} : tasks'[s] = tasks[s], Calm(t)
  PROVE  \A s \in Task : Calm(s)
<1> SUFFICES ASSUME NEW s \in Task \ {t} PROVE Calm(s)
  OBVIOUS
<1> QED BY CalmAsBefore

LEMMA UnchangedCalm == ASSUME UNCHANGED tasks PROVE \A t \in Task : Calm(t)
BY CalmAsBefore

LEMMA CreateCalm ==
  ASSUME IInv, NEW t \in Task, NEW direction, Create(t, direction)
  PROVE  \A s \in Task : Calm(s)
<1>1. tasks[t] = NoTask /\ t \notin stopped
  BY DEF Create, IInv, TaskOK
<1>2. \A s \in Task \ {t} : tasks'[s] = tasks[s]
  BY DEF Create, Persist, IInv, TypeOK
<1>3. Calm(t)
  BY <1>1 DEF Calm
<1> QED BY <1>2, <1>3, CalmElsewhere

\* A task that is ended in a step.
LEMMA EndCalm ==
  ASSUME IInv, NEW t \in Task, tasks[t] # NoTask, NEW s \in {"cancelled", "failed"}, NEW task, NEW other,
         task = [Cleaned(tasks[t]) EXCEPT !.state = s],
         other \in {task, [task EXCEPT !.state = "failed"]},
         Persist(t, task) \/ PersistFails(t, other)
  PROVE  \A r \in Task : Calm(r)
<1>1. tasks[t] \in TaskRecord /\ tasks \in [Task -> TaskRecord \cup {NoTask}] /\ s \in EndedState
  BY DEF IInv, TypeOK, EndedState
<1>2. task \in TaskRecord /\ task.state = s
  BY <1>1, EndedIs
<1>3. other.state \in {"cancelled", "failed"}
  BY <1>2 DEF TaskRecord
<1>4. PICK new \in {task, other} : tasks' = [tasks EXCEPT ![t] = new]
  BY DEF Persist, PersistFails
<1>5. tasks'[t].state \in {"cancelled", "failed"} /\ \A r \in Task \ {t} : tasks'[r] = tasks[r]
  BY <1>1, <1>2, <1>3, <1>4
<1> QED BY <1>5, CalmAsBefore, CalmElsewhere

LEMMA CancelCalm ==
  ASSUME IInv, NEW t \in Task, Cancel(t) PROVE \A s \in Task : Calm(s)
<1>1. tasks[t] # NoTask
  BY DEF Cancel, IsActive
<1>2. CASE UNCHANGED tasks
  BY <1>2, UnchangedCalm
<1>3. CASE LET ended == [Cleaned(tasks[t]) EXCEPT !.state = "cancelled"]
           IN Persist(t, ended) \/ PersistFails(t, ended)
  BY <1>1, <1>3, EndCalm
<1> QED BY <1>2, <1>3 DEF Cancel

LEMMA RemoveCalm ==
  ASSUME IInv, NEW t \in Task, NEW deleteFiles \in BOOLEAN, Remove(t, deleteFiles)
  PROVE  \A s \in Task : Calm(s)
<1>1. \/ UNCHANGED tasks
      \/ tasks' = [tasks EXCEPT ![t] = NoTask]
  BY DEF Remove
<1>2. \A s \in Task : tasks'[s] \in {tasks[s], NoTask}
  BY <1>1 DEF IInv, TypeOK
<1> QED BY <1>2, CalmAsBefore

LEMMA BindFailsCalm ==
  ASSUME IInv, NEW w \in Worker, BindFails(w) PROVE \A s \in Task : Calm(s)
<1>1. work[w].pc = "bind"
  BY DEF BindFails
<1> PICK t \in Task : t = work[w].task
  BY <1>1, AtWork
<1>2. CASE UNCHANGED tasks
  BY <1>2, UnchangedCalm
<1>3. CASE tasks[t] # NoTask /\ Finish(t, "failed")
  BY <1>3, EndCalm DEF Finish
<1> QED BY <1>2, <1>3 DEF BindFails, Finish

LEMMA ProgressCalm ==
  ASSUME IInv, NEW w \in Worker, WriteFile(w) \/ SendFile(w) PROVE \A s \in Task : Calm(s)
<1>1. work[w].pc \in {"write", "send"} /\ Bound(w)
  BY DEF WriteFile, SendFile, Bound
<1> PICK t \in Task : Working(w, t)
  BY <1>1, AtTask
<1>2. /\ t = work[w].task /\ tasks[t] \in TaskRecord /\ tasks[t] # NoTask
      /\ tasks \in [Task -> TaskRecord \cup {NoTask}]
  BY DEF Working, TypeOK
<1>3. tasks' = [tasks EXCEPT ![t].done = @ + 1]
  BY <1>2 DEF WriteFile, SendFile, Progress
<1>4. tasks'[t].state = tasks[t].state /\ \A s \in Task \ {t} : tasks'[s] = tasks[s]
  BY <1>2, <1>3 DEF TaskRecord
<1> QED BY <1>2, <1>4, CalmAsBefore, CalmElsewhere

LEMMA FileDoneCalm ==
  ASSUME IInv, NEW w \in Worker, FileDone(w) PROVE \A s \in Task : Calm(s)
<1>1. work[w].pc \in {"record", "sent"} /\ Bound(w)
  BY DEF FileDone, Bound
<1> PICK t \in Task : Working(w, t)
  BY <1>1, AtTask
<1>2. /\ t = work[w].task /\ tasks[t] \in TaskRecord /\ tasks[t] # NoTask
      /\ tasks \in [Task -> TaskRecord \cup {NoTask}]
  BY DEF Working, TypeOK
<1>3. \E f, mark : tasks' = [tasks EXCEPT ![t] = [tasks[t] EXCEPT !.files[f] = mark]]
  BY <1>2 DEF FileDone, Persist, PersistFails
<1>4. tasks'[t].state = tasks[t].state /\ \A s \in Task \ {t} : tasks'[s] = tasks[s]
  BY <1>2, <1>3 DEF TaskRecord
<1> QED BY <1>2, <1>4, CalmAsBefore, CalmElsewhere

\* A task in work whose next state is neither that of a stopped upload nor an end.
LEMMA ActiveCalm ==
  ASSUME NEW t \in Task, IsActive(t), ~(t \in stopped /\ tasks[t].state = "preparing")
  PROVE  Calm(t)
BY DEF Calm

LEMMA StartSendCalm ==
  ASSUME IInv, NEW w \in Worker, StartSend(w) PROVE \A s \in Task : Calm(s)
<1>1. Bound(w) /\ ~work[w].cancelled
  BY DEF StartSend, UploadMaySend, Bound
<1> PICK t \in Task : Working(w, t)
  BY <1>1, AtTask
<1>2. /\ t = work[w].task /\ IsActive(t) /\ t \notin stopped
      /\ tasks \in [Task -> TaskRecord \cup {NoTask}]
  BY <1>1 DEF Working, TypeOK, IsActive
<1>3. tasks' = [tasks EXCEPT ![t] = Connecting(tasks[t])]
  BY <1>2 DEF StartSend, Persist, PersistFails
<1> QED BY <1>2, <1>3, ActiveCalm, CalmElsewhere

LEMMA UpdateCalm ==
  ASSUME IInv, NEW w \in Worker, NEW state, NEW pc, Update(w, state, pc), work[w].pc \in {"dial", "send"}
  PROVE  \A s \in Task : Calm(s)
<1>1. Bound(w)
  BY DEF Bound
<1> PICK t \in Task : Working(w, t)
  BY <1>1, AtTask
<1>2. /\ t = work[w].task /\ IsActive(t) /\ tasks[t].state # "preparing"
      /\ tasks \in [Task -> TaskRecord \cup {NoTask}]
  BY DEF Working, TypeOK, IsActive, Steps, Work, Kind
<1>3. tasks' = [tasks EXCEPT ![t] = [tasks[t] EXCEPT !.state = state]]
  BY <1>2 DEF Update, Persist, PersistFails
<1> QED BY <1>2, <1>3, ActiveCalm, CalmElsewhere

LEMMA FinishWorkCalm ==
  ASSUME IInv, NEW w \in Worker, FinishWork(w) PROVE \A s \in Task : Calm(s)
<1>1. work[w].pc = "finish" /\ Bound(w)
  BY DEF FinishWork, Bound
<1> PICK t \in Task : Working(w, t)
  BY <1>1, AtTask
<1>2. /\ t = work[w].task /\ IsActive(t) /\ tasks[t] # NoTask
      /\ tasks \in [Task -> TaskRecord \cup {NoTask}]
      /\ work[w].outcome \in {"complete", "cancelled", "failed"}
      /\ work[w].outcome = "complete" => tasks[t].state # "preparing"
  BY <1>1 DEF Working, TypeOK, IsActive, Steps, Work, Kind, EndedState
<1>3. Finish(t, work[w].outcome)
  BY <1>2 DEF FinishWork
<1>4. CASE work[w].outcome = "complete"
  <2>1. \E new : tasks' = [tasks EXCEPT ![t] = new]
    BY <1>2, <1>3, <1>4 DEF Finish, Persist, PersistFails
  <2> QED BY <1>2, <1>4, <2>1, ActiveCalm, CalmElsewhere
<1>5. CASE work[w].outcome \in {"cancelled", "failed"}
  BY <1>2, <1>3, <1>5, EndCalm DEF Finish
<1> QED BY <1>2, <1>4, <1>5

LEMMA StepCalm == ASSUME IInv, Next PROVE \A t \in Task : Calm(t)
<1>1. CASE Request
  BY <1>1, CreateCalm, CancelCalm, RemoveCalm, UnchangedCalm
     DEF Request, CreateTransfer, CancelTransfer, UploadTransfer, Offer, RetryTransfer
<1>2. CASE \E t \in Task : IdleCheck(t) \/ IdleCancel(t)
  BY <1>2, CancelCalm, UnchangedCalm DEF IdleCheck, IdleCancel
<1>3. ASSUME NEW w \in Worker, LocalStep(w) \/ PeerStep(w) PROVE \A t \in Task : Calm(t)
  <2>1. CASE BindFails(w) \/ StartSend(w) \/ FileDone(w) \/ FinishWork(w) \/ WriteFile(w) \/ SendFile(w)
    BY <2>1, BindFailsCalm, StartSendCalm, FileDoneCalm, FinishWorkCalm, ProgressCalm
  <2>2. CASE SendVerify(w) \/ SendAccepted(w)
    BY <2>2, UpdateCalm DEF SendVerify, SendAccepted
  <2>3. CASE Bind(w) \/ RenameFile(w) \/ Breaks(w) \/ Succeeds(w) \/ BrowserLeaves(w)
    BY <2>3, UnchangedCalm DEF Bind, RenameFile, Breaks, Succeeds, Returns, BrowserLeaves
  <2> QED BY <1>3, <2>1, <2>2, <2>3 DEF LocalStep, PeerStep
<1>4. CASE Stop
  BY <1>4, UnchangedCalm DEF Stop
<1>5. CASE Exit
  BY <1>5, CalmAsBefore DEF Exit
<1>6. CASE Start
  BY <1>6 DEF Start, Calm, IInv, Down
<1> QED BY <1>1, <1>2, <1>3, <1>4, <1>5, <1>6 DEF Next

\* An ended task is not made active again, by a late update of its worker, by
\* finish or by a restart.
THEOREM EndIsFinal == Spec => NoRevival
<1>1. IInv /\ Next => \A t \in Task : tasks[t] # NoTask /\ ~IsActive(t) => ~IsActive(t)'
  BY StepCalm DEF Calm
<1>2. UNCHANGED vars => \A t \in Task : tasks[t] # NoTask /\ ~IsActive(t) => ~IsActive(t)'
  BY DEF vars, IsActive
<1> QED BY <1>1, <1>2, Invariance, PTL DEF Spec, NoRevival

\* A task whose cancellation was accepted in preparation goes to its end and is
\* not sent: startSendTransfer looks at the context of the upload under the mutex.
THEOREM CancellationHolds == Spec => CancelledUploadStays
<1>1. IInv /\ Next =>
        \A t \in stopped :
          tasks[t] # NoTask /\ tasks[t].state = "preparing" =>
            tasks'[t] = NoTask \/ tasks'[t].state \in {"preparing", "cancelled", "failed"}
  BY StepCalm DEF Calm, IInv, TypeOK
<1>2. UNCHANGED vars =>
        \A t \in stopped :
          tasks[t] # NoTask /\ tasks[t].state = "preparing" =>
            tasks'[t] = NoTask \/ tasks'[t].state \in {"preparing", "cancelled", "failed"}
  BY DEF vars
<1> QED BY <1>1, <1>2, Invariance, PTL DEF Spec, CancelledUploadStays
=============================================================================
