----------------------- MODULE TransferSession_proofs -----------------------
(***************************************************************************)
(* Theorems about TransferSession, for every number of files, faults and   *)
(* restarts: types, what is confirmed is kept, and the session implements  *)
(* TransferDelivery.                                                       *)
(*                                                                         *)
(* The sender only counts results.  So the inductive invariant counts too: *)
(* Consumed is how many the sender has read, Written how many a receiver   *)
(* in good standing has written, and Counted says which promise goes with  *)
(* the positive result at each place.                                      *)
(***************************************************************************)
EXTENDS TransferSession, SequenceTheorems, TLAPS

snd == work["sender"]
rcv == work["receiver"]
mine == tasks["sender"]
its == tasks["receiver"]

Consumed == IF snd.pc \in {"dial", "ready"} THEN 0
            ELSE IF snd.pc = "accept" THEN 1
            ELSE IF snd.pc \in {"send", "result"} THEN snd.next + 1
            ELSE NFiles + 2

GoodStanding == \/ rcv.pc \in {"none", "offer", "bind", "file", "stored"}
                \/ rcv.pc \in {"return", "ack"} /\ rcv.outcome = "complete"

Written == IF rcv.pc = "none" THEN 0
           ELSE IF rcv.pc \in {"offer", "bind"} THEN 1
           ELSE IF rcv.pc \in {"file", "stored"} THEN rcv.next + 1
           ELSE NFiles + 2

\* What a positive result stands for: the first two for nothing, the last for
\* the transfer, the others for a file.
Promised(n) == /\ \A f \in File : n = f + 2 => f \in Kept \/ removed
               /\ n = NFiles + 3 => delivered

\* Results on the way: their number, and what they stand for.
Counted ==
  SenderOpen =>
    /\ GoodStanding => Consumed + Len(results) = Written
    /\ \A i \in 1..Len(results) : results[i] => Promised(Consumed + i)

\* The sender: its record follows its task; it confirms what is kept.
SenderOK ==
  /\ mine \in Task
  /\ records["sender"] \in Task
  /\ records["sender"].done \subseteq mine.done
  /\ mine.done \subseteq Kept \/ removed
  /\ mine.state = "complete" <=> records["sender"].state = "complete"
  /\ Active(mine) => Active(records["sender"])
  /\ snd.pc # "over" => Active(mine)
  /\ mine.state = "complete" => delivered
  /\ snd.pc = "return" /\ snd.outcome = "complete" => delivered

\* The receiver: when it has a task, and what its record and directory hold.
TaskExists ==
  /\ its = NoTask <=> records["receiver"] = NoTask
  /\ rcv.pc \in {"none", "offer"} => its = NoTask /\ ~removed
  /\ rcv.pc \in {"file", "stored", "return"} => Active(its)
  /\ rcv.pc \in {"bind", "ack"} => its # NoTask \/ removed
  /\ removed => its = NoTask /\ rcv.pc \in {"bind", "ack", "over"}

RecordFollows ==
  its # NoTask =>
    /\ records["receiver"].done \subseteq its.done
    /\ \A f \in its.done : stored[f] = "whole"
    /\ its.state = "complete" <=> records["receiver"].state = "complete"
    /\ Active(its) => Active(records["receiver"])
    /\ rcv.pc = "bind" => its.done = {} /\ (Active(its) => its = records["receiver"])
    /\ rcv.pc \in {"file", "stored"} => its = records["receiver"] /\ its.done = 1..(rcv.next - 1)

ReceiverProgressed ==
  /\ rcv.pc = "stored" => MoreFiles("receiver") /\ stored[rcv.next] = "whole"
  /\ rcv.pc = "return" /\ rcv.outcome = "complete" =>
       its = records["receiver"] /\ its.done = File
  /\ rcv.pc \in {"none", "offer", "bind"} => rcv.next = 1

SenderProgressed ==
  /\ snd.pc = "result" => MoreFiles("sender")
  /\ snd.pc \in {"dial", "ready", "accept"} => snd.next = 1

DeliveredOK ==
  /\ delivered => removed \/ (its # NoTask /\ its.state = "complete" /\ Kept = File)
  /\ its # NoTask /\ its.state = "complete" => delivered

IInv == /\ TypeOK /\ Counted
        /\ SenderOK /\ SenderProgressed
        /\ TaskExists /\ RecordFollows /\ ReceiverProgressed /\ DeliveredOK

-----------------------------------------------------------------------------
(* Types                                                                   *)

LEMMA NTask == ASSUME TypeOK, NEW d \in Device, tasks[d] # NoTask
               PROVE  tasks[d] \in Task /\ tasks[d] = [state |-> tasks[d].state, done |-> tasks[d].done]
BY DEF TypeOK, Task

\* A returning goroutine is still one of its device.
LEMMA ReturnedType ==
  ASSUME TypeOK, NEW d \in Device, NEW o \in EndedState, work' = Returned(d, o)
  PROVE  /\ work' \in [Device -> Work]
         /\ work'[d].pc = "return" /\ work'[d].next = work[d].next
         /\ work'[d].cancelled = work[d].cancelled
         /\ work'[d].outcome \in {o, "cancelled"}
         /\ \A e \in Device \ {d} : work'[e] = work[e]
<1> DEFINE o2 == IF work[d].cancelled THEN "cancelled" ELSE o
<1>1. work[d] \in Work BY DEF TypeOK
<1>2. o2 \in EndedState BY DEF EndedState
<1>3. [work[d] EXCEPT !.pc = "return", !.outcome = o2] \in Work
  <2> HIDE DEF o2
  <2> QED BY <1>1, <1>2 DEF Work, SenderPc
<1>4. work' = [work EXCEPT ![d] = [work[d] EXCEPT !.pc = "return", !.outcome = o2]]
  BY DEF Returned, TypeOK
<1>5. work'[d] = [work[d] EXCEPT !.pc = "return", !.outcome = o2] BY <1>4 DEF TypeOK
<1> HIDE DEF o2
<1>6. \A e \in Device \ {d} : work'[e] = work[e] BY <1>4 DEF TypeOK
<1>7. work' \in [Device -> Work] BY <1>3, <1>4 DEF TypeOK
<1>8. /\ work'[d].pc = "return" /\ work'[d].next = work[d].next
      /\ work'[d].cancelled = work[d].cancelled /\ work'[d].outcome = o2
  BY <1>1, <1>5 DEF Work
<1> QED BY <1>6, <1>7, <1>8 DEF o2

LEMMA MovesType ==
  ASSUME TypeOK, NEW d \in Device, NEW pc \in SenderPc \cup ReceiverPc, Moves(d, pc)
  PROVE  /\ work' \in [Device -> Work]
         /\ work'[d].pc = pc /\ work'[d].next = work[d].next
         /\ work'[d].cancelled = work[d].cancelled /\ work'[d].outcome = work[d].outcome
         /\ \A e \in Device \ {d} : work'[e] = work[e]
<1>1. work[d] \in Work BY DEF TypeOK
<1>2. work' = [work EXCEPT ![d] = [work[d] EXCEPT !.pc = pc]] BY DEF Moves, TypeOK
<1>3. [work[d] EXCEPT !.pc = pc] \in Work BY <1>1 DEF Work
<1>4. work' \in [Device -> Work] BY <1>2, <1>3 DEF TypeOK
<1>5. work'[d] = [work[d] EXCEPT !.pc = pc] BY <1>2 DEF TypeOK
<1>6. \A e \in Device \ {d} : work'[e] = work[e] BY <1>2 DEF TypeOK
<1>7. /\ work'[d].pc = pc /\ work'[d].next = work[d].next
      /\ work'[d].cancelled = work[d].cancelled /\ work'[d].outcome = work[d].outcome
  BY <1>1, <1>5 DEF Work
<1> QED BY <1>4, <1>6, <1>7

\* The loop over the files takes its next turn.
LEMMA TurnType ==
  ASSUME TypeOK, NEW d \in Device, NEW pc \in SenderPc \cup ReceiverPc, MoreFiles(d),
         work' = [work EXCEPT ![d].pc = pc, ![d].next = @ + 1]
  PROVE  /\ work' \in [Device -> Work]
         /\ work'[d].pc = pc /\ work'[d].next = work[d].next + 1
         /\ work'[d].cancelled = work[d].cancelled /\ work'[d].outcome = work[d].outcome
         /\ \A e \in Device \ {d} : work'[e] = work[e]
<1>1. work[d] \in Work BY DEF TypeOK
<1>2. work' = [work EXCEPT ![d] = [work[d] EXCEPT !.pc = pc, !.next = @ + 1]] BY DEF TypeOK
<1>3. work[d].next \in 1..NFiles /\ NFiles \in Nat BY <1>1, SessionAssumption DEF Work, MoreFiles
<1>4. [work[d] EXCEPT !.pc = pc, !.next = @ + 1] \in Work
  <2>1. work[d].next + 1 \in 1..(NFiles + 1) BY <1>3
  <2> QED BY <1>1, <2>1 DEF Work
<1>5. work' \in [Device -> Work] BY <1>2, <1>4 DEF TypeOK
<1>6. work'[d] = [work[d] EXCEPT !.pc = pc, !.next = @ + 1] BY <1>2 DEF TypeOK
<1>7. \A e \in Device \ {d} : work'[e] = work[e] BY <1>2 DEF TypeOK
<1>8. /\ work'[d].pc = pc /\ work'[d].next = work[d].next + 1
      /\ work'[d].cancelled = work[d].cancelled /\ work'[d].outcome = work[d].outcome
  BY <1>1, <1>6 DEF Work
<1> QED BY <1>5, <1>7, <1>8

\* What a saved task is, in memory and, if it could be written, in its record.
LEMMA SavedType ==
  ASSUME TypeOK, NEW d \in Device, NEW task \in Task, Persist(d, task) \/ PersistFails(d, task)
  PROVE  /\ tasks' \in [Device -> Task \cup {NoTask}]
         /\ records' \in [Device -> Task \cup {NoTask}]
         /\ faults' \in 0..MaxFaults
         /\ tasks'[d] = task
         /\ Persist(d, task) => records'[d] = task
         /\ PersistFails(d, task) => records'[d] = records[d]
         /\ \A e \in Device \ {d} : tasks'[e] = tasks[e] /\ records'[e] = records[e]
<1>1. tasks' = [tasks EXCEPT ![d] = task] BY DEF Persist, PersistFails
<1>2. tasks' \in [Device -> Task \cup {NoTask}] /\ tasks'[d] = task BY <1>1 DEF TypeOK
<1>3. \A e \in Device \ {d} : tasks'[e] = tasks[e] BY <1>1 DEF TypeOK
<1>4. CASE Persist(d, task)
  <2>1. records' = [records EXCEPT ![d] = task] /\ faults' = faults BY <1>4 DEF Persist
  <2>2. records' \in [Device -> Task \cup {NoTask}] /\ records'[d] = task BY <2>1 DEF TypeOK
  <2>3. \A e \in Device \ {d} : records'[e] = records[e] BY <2>1 DEF TypeOK
  <2>4. PersistFails(d, task) => FALSE
    BY <2>1 DEF PersistFails, TypeOK
  <2> QED BY <1>2, <1>3, <2>1, <2>2, <2>3, <2>4 DEF TypeOK
<1>5. CASE PersistFails(d, task)
  <2>1. records' = records /\ faults' = faults + 1 /\ faults < MaxFaults BY <1>5 DEF PersistFails
  <2>2. faults' \in 0..MaxFaults BY <2>1, SessionAssumption DEF TypeOK
  <2>3. Persist(d, task) => FALSE BY <2>1 DEF Persist, TypeOK
  <2> QED BY <1>2, <1>3, <2>1, <2>2, <2>3 DEF TypeOK
<1> QED BY <1>4, <1>5

TasksOK == /\ tasks \in [Device -> Task \cup {NoTask}]
           /\ records \in [Device -> Task \cup {NoTask}]
           /\ faults \in 0..MaxFaults
WorkOK == /\ work \in [Device -> Work]
          /\ work["sender"].pc \in SenderPc
          /\ work["receiver"].pc \in ReceiverPc
WireOK == requests \in Seq(Request) /\ results \in Seq(BOOLEAN)
RestOK == /\ stored \in [File -> {"none", "whole", "changed"}]
          /\ restarts \in 0..MaxRestarts
          /\ delivered \in BOOLEAN /\ removed \in BOOLEAN /\ disturbed \in BOOLEAN

LEMMA TypeParts == TypeOK <=> TasksOK /\ WorkOK /\ WireOK /\ RestOK
BY DEF TypeOK, TasksOK, WorkOK, WireOK, RestOK

LEMMA TypePartsPrime == ASSUME TasksOK', WorkOK', WireOK', RestOK' PROVE TypeOK'
BY DEF TypeOK, TasksOK, WorkOK, WireOK, RestOK

LEMMA UpdatedTask ==
  ASSUME TypeOK, NEW d \in Device, tasks[d] # NoTask, NEW s \in ActiveState \cup EndedState
  PROVE  /\ Updated(d, s) \in Task /\ Updated(d, s) # NoTask
         /\ Updated(d, s).state = s /\ Updated(d, s).done = tasks[d].done
<1>1. tasks[d] \in Task BY DEF TypeOK
<1>2. Updated(d, s) \in Task BY <1>1 DEF Updated, Task
<1>3. Updated(d, s) # NoTask BY <1>2, NoTaskAssumption
<1> QED BY <1>1, <1>2, <1>3 DEF Updated, Task

LEMMA FileDoneTask ==
  ASSUME TypeOK, NEW d \in Device, tasks[d] # NoTask, NEW f \in File
  PROVE  /\ FileDone(d, f) \in Task /\ FileDone(d, f) # NoTask
         /\ FileDone(d, f).state = tasks[d].state
         /\ FileDone(d, f).done = tasks[d].done \cup {f}
<1>1. tasks[d] \in Task BY DEF TypeOK
<1>2. FileDone(d, f) \in Task BY <1>1 DEF FileDone, Task
<1>3. FileDone(d, f) # NoTask BY <1>2, NoTaskAssumption
<1> QED BY <1>1, <1>2, <1>3 DEF FileDone, Task

LEMMA CleanEffect ==
  ASSUME TypeOK, NEW task, Clean(task)
  PROVE  /\ stored' \in [File -> {"none", "whole", "changed"}]
         /\ \A f \in File : f \in task.done => stored'[f] = stored[f]
<1>1. \A f \in File : stored'[f] = IF f \in task.done THEN stored[f] ELSE "none" BY DEF Clean
<1>2. \A f \in File : stored[f] \in {"none", "whole", "changed"} BY DEF TypeOK
<1>3. stored' = [f \in File |-> stored'[f]] BY DEF Clean
<1>4. \A f \in File : stored'[f] \in {"none", "whole", "changed"} BY <1>1, <1>2
<1> QED BY <1>1, <1>3, <1>4

\* The effect of finish: the task has ended; its record too, or an error is
\* what memory says; the files it lists as done are left.
LEMMA FinishEffect ==
  ASSUME TypeOK, NEW d \in Device, NEW o \in EndedState, Finish(d, o)
  PROVE  /\ TasksOK'
         /\ stored' \in [File -> {"none", "whole", "changed"}]
         /\ \A e \in Device \ {d} : tasks'[e] = tasks[e] /\ records'[e] = records[e]
         /\ d = "sender" => stored' = stored
         /\ tasks[d] = NoTask => tasks' = tasks /\ records' = records /\ stored' = stored
         /\ tasks[d] # NoTask =>
              /\ tasks'[d] \in Task /\ tasks'[d] # NoTask /\ tasks'[d].done = tasks[d].done
              /\ \/ tasks'[d].state = o /\ records'[d] = tasks'[d]
                 \/ tasks'[d].state = "failed" /\ records'[d] = records[d]
              /\ \A f \in File : f \in tasks[d].done => stored'[f] = stored[f]
<1>1. CASE tasks[d] = NoTask
  BY <1>1 DEF Finish, TypeOK, TasksOK
<1>2. CASE tasks[d] # NoTask
  <2>1. "failed" \in EndedState BY DEF EndedState
  <2>2. /\ Updated(d, o) \in Task /\ Updated(d, o) # NoTask
        /\ Updated(d, o).state = o /\ Updated(d, o).done = tasks[d].done
    BY <1>2, UpdatedTask
  <2>3. /\ Updated(d, "failed") \in Task /\ Updated(d, "failed") # NoTask
        /\ Updated(d, "failed").state = "failed" /\ Updated(d, "failed").done = tasks[d].done
    BY <1>2, <2>1, UpdatedTask
  <2>4. /\ stored' \in [File -> {"none", "whole", "changed"}]
        /\ d = "sender" => stored' = stored
        /\ \A f \in File : f \in tasks[d].done => stored'[f] = stored[f]
    <3>1. CASE d = "receiver" /\ o # "complete"
      <4>1. Clean(tasks[d]) BY <1>2, <3>1 DEF Finish
      <4> QED BY <3>1, <4>1, CleanEffect
    <3>2. CASE ~(d = "receiver" /\ o # "complete")
      <4>1. stored' = stored BY <1>2, <3>2 DEF Finish
      <4> QED BY <4>1 DEF TypeOK
    <3> QED BY <3>1, <3>2
  <2>5. CASE Persist(d, Updated(d, o))
    <3>1. /\ TasksOK' /\ tasks'[d] = Updated(d, o) /\ records'[d] = Updated(d, o)
          /\ \A e \in Device \ {d} : tasks'[e] = tasks[e] /\ records'[e] = records[e]
      BY <2>2, <2>5, SavedType DEF TasksOK
    <3> QED BY <1>2, <2>2, <2>4, <3>1
  <2>6. CASE PersistFails(d, Updated(d, "failed"))
    <3>1. /\ TasksOK' /\ tasks'[d] = Updated(d, "failed") /\ records'[d] = records[d]
          /\ \A e \in Device \ {d} : tasks'[e] = tasks[e] /\ records'[e] = records[e]
      BY <2>3, <2>6, SavedType DEF TasksOK
    <3> QED BY <1>2, <2>3, <2>4, <3>1
  <2> QED BY <1>2, <2>5, <2>6 DEF Finish
<1> QED BY <1>1, <1>2

\* Frames written and read.
LEMMA AskType == ASSUME TypeOK, NEW frame \in Request, Ask(frame) PROVE requests' \in Seq(Request)
BY DEF TypeOK, Ask
LEMMA ReplyType == ASSUME TypeOK, NEW ok \in BOOLEAN, Reply(ok) PROVE results' \in Seq(BOOLEAN)
<1>1. results \in Seq(BOOLEAN) BY DEF TypeOK
<1>2. results' = Append(results, ok) \/ results' = results BY DEF Reply
<1> QED BY <1>1, <1>2, AppendProperties
LEMMA ReadRequestType ==
  ASSUME TypeOK, requests # <<>>, ReadRequest PROVE requests' \in Seq(Request)
BY HeadTailProperties DEF TypeOK, ReadRequest
LEMMA ReadResultType ==
  ASSUME TypeOK, results # <<>>, ReadResult
  PROVE  /\ results' \in Seq(BOOLEAN)
         /\ Len(results') = Len(results) - 1 /\ Len(results) \in Nat \ {0}
         /\ \A i \in 1..Len(results') : i + 1 \in 1..Len(results) /\ results'[i] = results[i + 1]
         /\ Head(results) = results[1]
<1>1. results \in Seq(BOOLEAN) BY DEF TypeOK
<1>2. results' = Tail(results) BY DEF ReadResult
<1>3. results' \in Seq(BOOLEAN) /\ Len(results') = Len(results) - 1 BY <1>1, <1>2, HeadTailProperties
<1>4. Len(results) \in Nat \ {0} BY <1>1, EmptySeq
<1>5. \A i \in 1..Len(results') : results'[i] = results[i + 1] BY <1>1, <1>2, HeadTailProperties
<1>6. Head(results) = results[1] BY <1>1, HeadTailProperties
<1> QED BY <1>3, <1>4, <1>5, <1>6

-----------------------------------------------------------------------------
(* Results are counted                                                     *)

\* Steps after which every promise still stands.
StillPromised == /\ \A f \in File : (f \in Kept \/ removed) => (f \in Kept' \/ removed')
                 /\ delivered => delivered'

LEMMA CountTypes ==
  ASSUME TypeOK
  PROVE  /\ Consumed \in Nat /\ Written \in Nat /\ Len(results) \in Nat
         /\ snd.next \in 1..(NFiles + 1) /\ rcv.next \in 1..(NFiles + 1) /\ NFiles \in Nat \ {0}
<1>1. work["sender"] \in Work /\ work["receiver"] \in Work BY DEF TypeOK, Device
<1>2. snd.next \in 1..(NFiles + 1) /\ rcv.next \in 1..(NFiles + 1) BY <1>1 DEF Work, snd, rcv
<1>3. Len(results) \in Nat BY LenProperties DEF TypeOK
<1> QED BY <1>2, <1>3, SessionAssumption DEF Consumed, Written

LEMMA CountedQuiet ==
  ASSUME TypeOK, Counted, StillPromised, results' = results,
         SenderOpen' => SenderOpen /\ Consumed' = Consumed,
         GoodStanding' => GoodStanding /\ Written' = Written
  PROVE  Counted'
<1> SUFFICES ASSUME SenderOpen'
             PROVE  /\ GoodStanding' => Consumed' + Len(results') = Written'
                    /\ \A i \in 1..Len(results') : results'[i] => Promised(Consumed + i)'
  BY DEF Counted
<1>1. SenderOpen /\ Consumed' = Consumed OBVIOUS
<1>2. GoodStanding' => Consumed' + Len(results') = Written' BY <1>1 DEF Counted
<1>3. ASSUME NEW i \in 1..Len(results'), results'[i] PROVE Promised(Consumed + i)'
  <2>1. i \in 1..Len(results) /\ results[i] BY <1>3
  <2>2. Promised(Consumed + i) BY <1>1, <2>1 DEF Counted
  <2> QED BY <1>1, <2>2 DEF Promised, StillPromised
<1> QED BY <1>2, <1>3

LEMMA CountedReply ==
  ASSUME TypeOK, Counted, StillPromised, NEW ok \in BOOLEAN, Reply(ok),
         SenderOpen' <=> SenderOpen, Consumed' = Consumed,
         GoodStanding' => GoodStanding /\ Written' = Written + 1,
         ok => (GoodStanding /\ \A n \in Nat : n = Written + 1 => Promised(n)') \/ (\A n \in Nat : Promised(n)')
  PROVE  Counted'
<1> SUFFICES ASSUME SenderOpen'
             PROVE  /\ GoodStanding' => Consumed' + Len(results') = Written'
                    /\ \A i \in 1..Len(results') : results'[i] => Promised(Consumed + i)'
  BY DEF Counted
<1>0. SenderOpen OBVIOUS
<1>1. /\ Len(results') = Len(results) + 1
      /\ \A i \in 1..Len(results) : results'[i] = results[i]
      /\ results'[Len(results) + 1] = ok
  <2>1. results' = Append(results, ok) BY <1>0 DEF Reply
  <2>2. results \in Seq(BOOLEAN) BY DEF TypeOK
  <2> QED BY <2>1, <2>2, AppendProperties
<1>2. Consumed \in Nat /\ Written \in Nat /\ Len(results) \in Nat BY CountTypes
<1>3. GoodStanding' => Consumed' + Len(results') = Written'
  BY <1>0, <1>1, <1>2 DEF Counted
<1>4. ASSUME NEW i \in 1..Len(results'), results'[i] PROVE Promised(Consumed + i)'
  <2>1. CASE i \in 1..Len(results)
    <3>1. results[i] BY <1>1, <1>4, <2>1
    <3>2. Promised(Consumed + i) BY <1>0, <2>1, <3>1 DEF Counted
    <3> QED BY <3>2 DEF Promised, StillPromised
  <2>2. CASE i = Len(results) + 1
    <3>1. ok BY <1>1, <1>4, <2>2
    <3>2. CASE GoodStanding /\ \A n \in Nat : n = Written + 1 => Promised(n)'
      <4>1. Consumed + Len(results) = Written BY <1>0, <3>2 DEF Counted
      <4>2. Consumed + i = Written + 1 /\ Consumed + i \in Nat BY <1>2, <2>2, <4>1
      <4>3. PICK k \in Nat : k = Consumed + i BY <4>2
      <4>4. Promised(k)' BY <3>2, <4>2, <4>3
      <4> QED BY <4>3, <4>4 DEF Promised
    <3>3. CASE \A n \in Nat : Promised(n)'
      <4>1. Consumed + i \in Nat BY <1>2, <2>2
      <4> QED BY <3>3, <4>1 DEF Promised
    <3> QED BY <3>1, <3>2, <3>3
  <2> QED BY <1>1, <1>2, <2>1, <2>2
<1> QED BY <1>3, <1>4

LEMMA CountedRead ==
  ASSUME TypeOK, Counted, StillPromised, results # <<>>, ReadResult, SenderOpen,
         SenderOpen' => Consumed' = Consumed + 1,
         GoodStanding' <=> GoodStanding, Written' = Written
  PROVE  Counted'
<1> SUFFICES ASSUME SenderOpen'
             PROVE  /\ GoodStanding' => Consumed' + Len(results') = Written'
                    /\ \A i \in 1..Len(results') : results'[i] => Promised(Consumed + i)'
  BY DEF Counted
<1>1. /\ Len(results') = Len(results) - 1
      /\ \A i \in 1..Len(results') : i + 1 \in 1..Len(results) /\ results'[i] = results[i + 1]
  BY ReadResultType
<1>2. Consumed \in Nat /\ Written \in Nat /\ Len(results) \in Nat BY CountTypes
<1>3. GoodStanding' => Consumed' + Len(results') = Written'
  <2>1. GoodStanding => Consumed + Len(results) = Written BY DEF Counted
  <2>2. Len(results') = Len(results) - 1 BY <1>1
  <2> QED BY <1>2, <2>1, <2>2
<1>4. ASSUME NEW i \in 1..Len(results'), results'[i] PROVE Promised(Consumed + i)'
  <2>1. i + 1 \in 1..Len(results) /\ results[i + 1] BY <1>1, <1>4
  <2>2. Promised(Consumed + (i + 1)) BY <2>1 DEF Counted
  <2>3. Consumed' + i = Consumed + (i + 1) BY <1>1, <1>2, <1>4
  <2> QED BY <2>2, <2>3 DEF Promised, StillPromised
<1> QED BY <1>3, <1>4

LEMMA HeadIsFirst == ASSUME NEW s \in Seq(BOOLEAN), s # <<>> PROVE Head(s) = s[1]
BY HeadTailProperties

\* What the sender may rely on when it reads a positive result.
LEMMA PositiveResult ==
  ASSUME TypeOK, Counted, SenderOpen, HasResult(TRUE) PROVE Promised(Consumed + 1)
<1>1. results # <<>> /\ Head(results) = TRUE BY DEF HasResult
<1>2. results \in Seq(BOOLEAN) BY DEF TypeOK
<1>3. Len(results) \in Nat \ {0} BY <1>1, <1>2, EmptySeq
<1>4. results[1] = Head(results) BY <1>1, <1>2, HeadIsFirst
<1>5. 1 \in 1..Len(results) BY <1>3
<1>6. results[1] => Promised(Consumed + 1) BY <1>5 DEF Counted
<1> QED BY <1>1, <1>4, <1>6

-----------------------------------------------------------------------------
(* A step of one side leaves the other side's parts of the invariant        *)

SenderOnly == /\ work'["receiver"] = work["receiver"]
              /\ tasks'["receiver"] = tasks["receiver"]
              /\ records'["receiver"] = records["receiver"]
              /\ UNCHANGED <<stored, delivered, removed>>
ReceiverOnly == /\ work'["sender"] = work["sender"]
                /\ tasks'["sender"] = tasks["sender"]
                /\ records'["sender"] = records["sender"]

LEMMA SenderOnlyKeeps ==
  ASSUME IInv, SenderOnly
  PROVE  /\ TaskExists' /\ RecordFollows' /\ ReceiverProgressed' /\ DeliveredOK'
         /\ Kept' = Kept /\ StillPromised
         /\ (GoodStanding' <=> GoodStanding) /\ Written' = Written
<1>1. Kept' = Kept BY DEF SenderOnly, Kept
<1>2. StillPromised BY <1>1 DEF SenderOnly, StillPromised
<1>3. (GoodStanding' <=> GoodStanding) /\ Written' = Written
  BY DEF SenderOnly, GoodStanding, Written, rcv
<1>4. TaskExists' BY DEF IInv, SenderOnly, TaskExists, its, rcv, Active
<1>5. RecordFollows' BY DEF IInv, SenderOnly, RecordFollows, its, rcv, Active
<1>6. ReceiverProgressed' BY DEF IInv, SenderOnly, ReceiverProgressed, its, rcv, MoreFiles
<1>7. DeliveredOK' BY <1>1 DEF IInv, SenderOnly, DeliveredOK, its
<1> QED BY <1>1, <1>2, <1>3, <1>4, <1>5, <1>6, <1>7

LEMMA ReceiverOnlyKeeps ==
  ASSUME IInv, ReceiverOnly, StillPromised
  PROVE  /\ SenderOK' /\ SenderProgressed'
         /\ (SenderOpen' <=> SenderOpen) /\ Consumed' = Consumed
<1>1. (SenderOpen' <=> SenderOpen) /\ Consumed' = Consumed
  BY DEF ReceiverOnly, SenderOpen, Consumed, snd
<1>2. SenderProgressed' BY DEF IInv, ReceiverOnly, SenderProgressed, snd, MoreFiles
<1>3. mine' = mine /\ snd' = snd /\ records'["sender"] = records["sender"]
  BY DEF ReceiverOnly, mine, snd
<1>4. mine'.done \subseteq Kept' \/ removed'
  <2>1. mine.done \subseteq Kept \/ removed BY DEF IInv, SenderOK
  <2>2. mine.done \subseteq File BY DEF IInv, SenderOK, Task
  <2>3. \A f \in mine.done : f \in Kept' \/ removed' BY <2>1, <2>2 DEF StillPromised
  <2> QED BY <1>3, <2>3
<1>5. SenderOK' BY <1>3, <1>4 DEF IInv, SenderOK, StillPromised, Active
<1> QED BY <1>1, <1>2, <1>5

LEMMA Sides == "sender" \in Device /\ "receiver" \in Device
               /\ Device \ {"sender"} = {"receiver"} /\ Device \ {"receiver"} = {"sender"}
BY DEF Device

-----------------------------------------------------------------------------
(* Steps of the sender                                                     *)

\* The sender returns, and saves nothing.
SenderReturns(o) ==
  /\ SenderOpen
  /\ o = "complete" => delivered
  /\ work' = Returned("sender", o)
  /\ WireOK'
  /\ UNCHANGED <<tasks, records, stored, counts, delivered, removed>>
  /\ disturbed' \in BOOLEAN

LEMMA SenderReturnsInv ==
  ASSUME IInv, NEW o \in EndedState, SenderReturns(o) PROVE IInv'
<1>0. TypeOK BY DEF IInv
<1>1. /\ work' \in [Device -> Work] /\ work'["receiver"] = work["receiver"]
      /\ work'["sender"].pc = "return" /\ work'["sender"].next = work["sender"].next
      /\ work'["sender"].outcome \in {o, "cancelled"}
  BY <1>0, ReturnedType, Sides DEF SenderReturns
<1>2. TypeOK'
  <2>1. WorkOK' BY <1>0, <1>1 DEF TypeOK, WorkOK, SenderPc
  <2>2. TasksOK' BY <1>0 DEF TypeOK, TasksOK, SenderReturns, counts
  <2>3. RestOK' BY <1>0 DEF TypeOK, RestOK, SenderReturns, counts
  <2> QED BY <2>1, <2>2, <2>3, TypePartsPrime DEF SenderReturns
<1>3. SenderOnly BY <1>1 DEF SenderOnly, SenderReturns
<1>4. Counted' BY <1>1 DEF Counted, SenderOpen
<1>5. SenderProgressed' BY <1>1 DEF SenderProgressed, snd
<1>6. SenderOK'
  <2>1. Kept' = Kept BY <1>3, SenderOnlyKeeps
  <2>2. snd.pc # "over" BY DEF SenderReturns, SenderOpen, snd
  <2>3. snd'.outcome = "complete" => delivered' BY <1>1 DEF snd, SenderReturns
  <2> QED BY <2>1, <2>2, <2>3 DEF IInv, SenderOK, SenderReturns, mine, Active
<1> QED BY <1>2, <1>3, <1>4, <1>5, <1>6, SenderOnlyKeeps DEF IInv

LEMMA SenderReturnsSteps ==
  ASSUME IInv, Confirmed \/ SenderRefused \/ SenderStuck \/ CancelledReturns("sender") \/ SenderFails
  PROVE  IInv'
<1>0. TypeOK /\ WireOK BY TypeParts DEF IInv
<1>1. "failed" \in EndedState /\ "complete" \in EndedState BY DEF EndedState
<1>2. CASE Confirmed
  <2>1. SenderOpen BY <1>2 DEF Confirmed, SenderOpen
  <2>2. delivered
    <3>1. Promised(Consumed + 1) BY <1>2, <2>1, PositiveResult DEF IInv, Confirmed
    <3>2. Consumed = NFiles + 2 BY <1>2 DEF Confirmed, Consumed, snd
    <3>3. Consumed + 1 = NFiles + 3 BY <3>2, SessionAssumption
    <3> QED BY <3>1, <3>3 DEF Promised
  <2>3. results # <<>> /\ ReadResult /\ requests' = requests BY <1>2 DEF Confirmed, HasResult
  <2>4. WireOK' BY <1>0, <2>3, ReadResultType DEF WireOK
  <2>5. SenderReturns("complete")
    BY <1>0, <1>2, <2>1, <2>2, <2>4 DEF Confirmed, SenderReturns, history, TypeOK
  <2> QED BY <1>1, <2>5, SenderReturnsInv
<1>3. CASE SenderRefused
  <2>1. SenderOpen BY <1>3 DEF SenderRefused, SenderOpen
  <2>2. results # <<>> /\ ReadResult /\ requests' = requests BY <1>3 DEF SenderRefused, HasResult
  <2>3. WireOK' BY <1>0, <2>2, ReadResultType DEF WireOK
  <2>4. SenderReturns("failed")
    BY <1>0, <1>3, <2>1, <2>3 DEF SenderRefused, SenderReturns, history, TypeOK
  <2> QED BY <1>1, <2>4, SenderReturnsInv
<1>4. CASE SenderStuck \/ CancelledReturns("sender") \/ SenderFails
  <2>1. SenderOpen
    BY <1>0, <1>4 DEF SenderStuck, SenderWaits, CancelledReturns, SenderFails, SenderOpen, TypeOK, SenderPc
  <2>2. WireOK' BY <1>0, <1>4 DEF SenderStuck, CancelledReturns, SenderFails, wire, WireOK
  <2>3. SenderReturns("failed")
    BY <1>0, <1>4, <2>1, <2>2 DEF SenderStuck, CancelledReturns, SenderFails, SenderReturns, history, TypeOK
  <2> QED BY <1>1, <2>3, SenderReturnsInv
<1> QED BY <1>2, <1>3, <1>4

\* The sender goes on: another place in its program, its task perhaps changed.
SenderGoesOn(pc, next) ==
  /\ work' \in [Device -> Work] /\ work'["receiver"] = work["receiver"]
  /\ work'["sender"].pc = pc /\ work'["sender"].next = next
  /\ pc \in SenderPc \ {"return", "over"}
  /\ pc = "result" => next <= NFiles
  /\ pc \in {"dial", "ready", "accept"} => next = 1
  /\ TasksOK' /\ WireOK'
  /\ tasks'["receiver"] = tasks["receiver"] /\ records'["receiver"] = records["receiver"]
  /\ \/ UNCHANGED <<tasks, records>>
     \/ /\ tasks'["sender"] \in Task /\ records'["sender"] = tasks'["sender"]
        /\ tasks'["sender"].state \in ActiveState
        /\ tasks'["sender"].done \subseteq Kept \/ removed
  /\ SenderOpen
  /\ UNCHANGED <<stored, restarts, delivered, removed>>
  /\ disturbed' \in BOOLEAN

LEMMA SenderGoesOnInv ==
  ASSUME IInv, NEW pc, NEW next, SenderGoesOn(pc, next), Counted'
  PROVE  IInv'
<1>0. TypeOK BY DEF IInv
<1>1. TypeOK'
  <2>1. WorkOK' BY <1>0 DEF TypeOK, WorkOK, SenderGoesOn
  <2>2. RestOK' BY <1>0 DEF TypeOK, RestOK, SenderGoesOn
  <2> QED BY <2>1, <2>2, TypePartsPrime DEF SenderGoesOn
<1>2. SenderOnly BY DEF SenderOnly, SenderGoesOn
<1>3. Kept' = Kept BY <1>2, SenderOnlyKeeps
<1>4. SenderProgressed' BY DEF SenderGoesOn, SenderProgressed, snd, MoreFiles
<1>5. SenderOK'
  <2>1. snd.pc # "over" BY DEF SenderGoesOn, SenderOpen, snd
  <2>2. snd'.pc # "return" BY DEF SenderGoesOn, snd
  <2>3. CASE UNCHANGED <<tasks, records>>
    <3>1. delivered' = delivered /\ removed' = removed BY DEF SenderGoesOn
    <3> QED BY <1>3, <2>1, <2>2, <2>3, <3>1 DEF IInv, SenderOK, mine, Active
  <2>4. CASE /\ tasks'["sender"] \in Task /\ records'["sender"] = tasks'["sender"]
             /\ tasks'["sender"].state \in ActiveState
             /\ tasks'["sender"].done \subseteq Kept \/ removed
    <3>1. mine' # NoTask /\ mine'.state # "complete"
      BY <2>4, NoTaskAssumption DEF mine, ActiveState
    <3>2. delivered' = delivered /\ removed' = removed BY DEF SenderGoesOn
    <3> QED BY <1>3, <2>2, <2>4, <3>1, <3>2 DEF SenderOK, mine, Active
  <2> QED BY <2>3, <2>4 DEF SenderGoesOn
<1> QED BY <1>1, <1>2, <1>4, <1>5, SenderOnlyKeeps DEF IInv

LEMMA DialInv == ASSUME IInv, Dial PROVE IInv'
<1>0. TypeOK /\ WireOK /\ TasksOK BY TypeParts DEF IInv
<1>1. work["sender"].pc = "dial" /\ work["sender"].next = 1
  BY DEF Dial, IInv, SenderProgressed, snd
<1>2. /\ work' \in [Device -> Work] /\ work'["receiver"] = work["receiver"]
      /\ work'["sender"].pc = "ready" /\ work'["sender"].next = 1
  BY <1>0, <1>1, MovesType, Sides DEF Dial, SenderPc
<1>3. requests' \in Seq(Request) BY <1>0, AskType DEF Dial, Request
<1>4. SenderGoesOn("ready", 1)
  BY <1>0, <1>1, <1>2, <1>3 DEF Dial, SenderGoesOn, SenderPc, SenderOpen, WireOK, TasksOK, counts, history, TypeOK
<1>5. SenderOnly BY <1>4 DEF SenderGoesOn, SenderOnly
<1>6. Consumed' = Consumed BY <1>1, <1>2 DEF Consumed, snd
<1>7. Counted' BY <1>0, <1>4, <1>5, <1>6, SenderOnlyKeeps, CountedQuiet DEF IInv, SenderGoesOn, Dial
<1> QED BY <1>4, <1>7, SenderGoesOnInv

LEMMA SendOfferInv == ASSUME IInv, SendOffer PROVE IInv'
<1>0. TypeOK /\ WireOK /\ TasksOK BY TypeParts DEF IInv
<1>1. work["sender"].pc = "ready" /\ work["sender"].next = 1
  BY DEF SendOffer, IInv, SenderProgressed, snd
<1>2. /\ work' \in [Device -> Work] /\ work'["receiver"] = work["receiver"]
      /\ work'["sender"].pc = "accept" /\ work'["sender"].next = 1
  BY <1>0, <1>1, MovesType, Sides DEF SendOffer, SenderPc
<1>3. requests' \in Seq(Request) BY <1>0, AskType DEF SendOffer, Request
<1>4. results # <<>> /\ ReadResult BY DEF SendOffer, HasResult
<1>5. results' \in Seq(BOOLEAN) BY <1>0, <1>4, ReadResultType
<1>6. SenderGoesOn("accept", 1)
  BY <1>0, <1>1, <1>2, <1>3, <1>5 DEF SendOffer, SenderGoesOn, SenderPc, SenderOpen, WireOK, TasksOK, counts, history, TypeOK
<1>7. SenderOnly BY <1>6 DEF SenderGoesOn, SenderOnly
<1>8. Consumed' = Consumed + 1 BY <1>1, <1>2 DEF Consumed, snd
<1>9. Counted' BY <1>0, <1>4, <1>6, <1>7, <1>8, SenderOnlyKeeps, CountedRead DEF IInv, SenderGoesOn
<1> QED BY <1>6, <1>9, SenderGoesOnInv

LEMMA SendFileInv == ASSUME IInv, NEW c \in {"whole", "changed"}, SendFile(c) PROVE IInv'
<1>0. TypeOK /\ WireOK /\ TasksOK BY TypeParts DEF IInv
<1>1. work["sender"].pc = "send" /\ MoreFiles("sender") BY DEF SendFile
<1>2. requests' \in Seq(Request) BY <1>0, AskType DEF SendFile, Request
<1>3. SenderOpen BY <1>1 DEF SenderOpen
<1>4. WireOK' BY <1>0, <1>2 DEF SendFile, WireOK
<1>5. CASE c = "whole"
  <2>1. Moves("sender", "result") BY <1>5 DEF SendFile, SendChecked, Moves
  <2>2. /\ work' \in [Device -> Work] /\ work'["receiver"] = work["receiver"]
        /\ work'["sender"].pc = "result" /\ work'["sender"].next = work["sender"].next
    BY <1>0, <2>1, MovesType, Sides DEF SenderPc
  <2>3. work["sender"].next <= NFiles BY <1>1 DEF MoreFiles
  <2>4. SenderGoesOn("result", work["sender"].next)
    BY <1>0, <1>3, <1>4, <2>2, <2>3 DEF SendFile, SenderGoesOn, SenderPc, TasksOK, counts, TypeOK
  <2>5. SenderOnly BY <2>4 DEF SenderGoesOn, SenderOnly
  <2>6. Consumed' = Consumed BY <1>1, <2>2 DEF Consumed, snd
  <2>7. Counted' BY <1>0, <1>3, <2>5, <2>6, SenderOnlyKeeps, CountedQuiet DEF IInv, SendFile
  <2> QED BY <2>4, <2>7, SenderGoesOnInv
<1>6. CASE c = "changed"
  <2>1. SenderReturns("failed")
    BY <1>0, <1>3, <1>4, <1>6 DEF SendFile, SendChecked, SenderReturns, TypeOK
  <2> QED BY <2>1, SenderReturnsInv DEF EndedState
<1> QED BY <1>5, <1>6

LEMMA SenderSaveFails ==
  ASSUME IInv, SenderOpen, NEW task \in Task, task.state \in ActiveState,
         mine.done \subseteq task.done, task.done \subseteq Kept \/ removed,
         PersistFails("sender", task), work' = Returned("sender", "failed"), WireOK',
         UNCHANGED <<stored, restarts, delivered, removed>>, disturbed' \in BOOLEAN
  PROVE  IInv'
<1>0. TypeOK /\ SenderOK BY DEF IInv
<1>1. /\ work' \in [Device -> Work] /\ work'["receiver"] = work["receiver"]
      /\ work'["sender"].pc = "return" /\ work'["sender"].next = work["sender"].next
      /\ work'["sender"].outcome # "complete"
  BY <1>0, ReturnedType, Sides DEF EndedState
<1>2. /\ TasksOK' /\ tasks'["sender"] = task /\ records'["sender"] = records["sender"]
      /\ tasks'["receiver"] = tasks["receiver"] /\ records'["receiver"] = records["receiver"]
  BY <1>0, SavedType, Sides DEF TasksOK
<1>3. TypeOK'
  <2>1. WorkOK' BY <1>0, <1>1 DEF TypeOK, WorkOK, SenderPc
  <2>2. RestOK' BY <1>0 DEF TypeOK, RestOK
  <2> QED BY <1>2, <2>1, <2>2, TypePartsPrime
<1>4. SenderOnly BY <1>1, <1>2 DEF SenderOnly
<1>5. Counted' BY <1>1 DEF Counted, SenderOpen
<1>6. SenderProgressed' BY <1>1 DEF SenderProgressed, snd
<1>7. SenderOK'
  <2>1. Kept' = Kept /\ removed' = removed BY <1>4, SenderOnlyKeeps
  <2>2. Active(mine) /\ Active(records["sender"]) BY <1>0 DEF SenderOK, SenderOpen, snd
  <2>3. records["sender"].state # "complete" BY <2>2 DEF Active, ActiveState
  <2>4. task # NoTask /\ task.state # "complete" BY NoTaskAssumption DEF ActiveState
  <2> QED BY <1>0, <1>1, <1>2, <2>1, <2>2, <2>3, <2>4 DEF SenderOK, mine, snd, Active
<1> QED BY <1>3, <1>4, <1>5, <1>6, <1>7, SenderOnlyKeeps DEF IInv

\* The sender's task, changed in memory.
LEMMA SenderTask ==
  ASSUME IInv
  PROVE  /\ tasks["sender"] # NoTask /\ mine \in Task
         /\ \A s \in ActiveState :
              /\ Updated("sender", s) \in Task /\ Updated("sender", s).state \in ActiveState
              /\ Updated("sender", s).done = mine.done
<1>1. TypeOK /\ mine \in Task BY DEF IInv, SenderOK
<1>2. tasks["sender"] # NoTask BY <1>1, NoTaskAssumption DEF mine
<1> QED BY <1>1, <1>2, UpdatedTask, Sides DEF mine

LEMMA AcceptedInv == ASSUME IInv, Accepted PROVE IInv'
<1>0. TypeOK /\ WireOK /\ (mine.done \subseteq Kept \/ removed) BY TypeParts DEF IInv, SenderOK
<1>1. work["sender"].pc = "accept" /\ work["sender"].next = 1
  BY DEF Accepted, IInv, SenderProgressed, snd
<1>2. SenderOpen BY <1>1 DEF SenderOpen
<1> DEFINE task == Updated("sender", "sending")
<1>3. task \in Task /\ task.state \in ActiveState /\ task.done = mine.done
  BY SenderTask DEF ActiveState
<1>4. results # <<>> /\ ReadResult BY DEF Accepted, HasResult
<1>5. WireOK' BY <1>0, <1>4, ReadResultType DEF WireOK, Accepted
<1> HIDE DEF task
<1>6. CASE Persist("sender", task) /\ Moves("sender", "send") /\ UNCHANGED disturbed
  <2>1. /\ work' \in [Device -> Work] /\ work'["receiver"] = work["receiver"]
        /\ work'["sender"].pc = "send" /\ work'["sender"].next = 1
    BY <1>0, <1>1, <1>6, MovesType, Sides DEF SenderPc
  <2>2. /\ TasksOK' /\ tasks'["sender"] = task /\ records'["sender"] = task
        /\ tasks'["receiver"] = tasks["receiver"] /\ records'["receiver"] = records["receiver"]
    BY <1>0, <1>3, <1>6, SavedType, Sides DEF TasksOK
  <2>3. SenderGoesOn("send", 1)
    BY <1>0, <1>2, <1>3, <1>5, <1>6, <2>1, <2>2 DEF Accepted, SenderGoesOn, SenderPc, TypeOK
  <2>4. SenderOnly BY <2>3 DEF SenderGoesOn, SenderOnly
  <2>5. Consumed' = Consumed + 1 BY <1>1, <2>1 DEF Consumed, snd
  <2>6. Counted' BY <1>0, <1>2, <1>4, <2>4, <2>5, SenderOnlyKeeps, CountedRead DEF IInv
  <2> QED BY <2>3, <2>6, SenderGoesOnInv
<1>7. CASE PersistFails("sender", task) /\ work' = Returned("sender", "failed") /\ disturbed' = TRUE
  BY <1>0, <1>2, <1>3, <1>5, <1>7, SenderSaveFails DEF Accepted
<1> QED BY <1>6, <1>7 DEF Accepted, SenderSaves, Moves, task

LEMMA AskVerifyInv == ASSUME IInv, AskVerify PROVE IInv'
<1>0. TypeOK /\ WireOK /\ (mine.done \subseteq Kept \/ removed) BY TypeParts DEF IInv, SenderOK
<1>1. work["sender"].pc = "send" /\ work["sender"].next = NFiles + 1 BY DEF AskVerify
<1>2. SenderOpen BY <1>1 DEF SenderOpen
<1> DEFINE task == Updated("sender", "verifying")
<1>3. task \in Task /\ task.state \in ActiveState /\ task.done = mine.done
  BY SenderTask DEF ActiveState
<1>5. WireOK' /\ results' = results BY <1>0 DEF WireOK, AskVerify, wire
<1> HIDE DEF task
<1>6. CASE Persist("sender", task) /\ Moves("sender", "verify") /\ UNCHANGED disturbed
  <2>1. /\ work' \in [Device -> Work] /\ work'["receiver"] = work["receiver"]
        /\ work'["sender"].pc = "verify" /\ work'["sender"].next = NFiles + 1
    BY <1>0, <1>1, <1>6, MovesType, Sides DEF SenderPc
  <2>2. /\ TasksOK' /\ tasks'["sender"] = task /\ records'["sender"] = task
        /\ tasks'["receiver"] = tasks["receiver"] /\ records'["receiver"] = records["receiver"]
    BY <1>0, <1>3, <1>6, SavedType, Sides DEF TasksOK
  <2>3. SenderGoesOn("verify", NFiles + 1)
    BY <1>0, <1>2, <1>3, <1>5, <1>6, <2>1, <2>2 DEF AskVerify, SenderGoesOn, SenderPc, TypeOK
  <2>4. SenderOnly BY <2>3 DEF SenderGoesOn, SenderOnly
  <2>5. Consumed' = Consumed BY <1>1, <2>1, SessionAssumption DEF Consumed, snd
  <2>6. Counted' BY <1>0, <1>2, <1>5, <2>4, <2>5, SenderOnlyKeeps, CountedQuiet DEF IInv
  <2> QED BY <2>3, <2>6, SenderGoesOnInv
<1>7. CASE PersistFails("sender", task) /\ work' = Returned("sender", "failed") /\ disturbed' = TRUE
  BY <1>0, <1>2, <1>3, <1>5, <1>7, SenderSaveFails DEF AskVerify
<1> QED BY <1>6, <1>7 DEF AskVerify, AwaitFinal, SenderSaves, Moves, task

LEMMA FileConfirmedInv == ASSUME IInv, FileConfirmed PROVE IInv'
<1>0. TypeOK /\ WireOK /\ (mine.done \subseteq Kept \/ removed) BY TypeParts DEF IInv, SenderOK
<1>1. work["sender"].pc = "result" /\ MoreFiles("sender")
  BY DEF FileConfirmed, IInv, SenderProgressed, snd
<1>2. SenderOpen BY <1>1 DEF SenderOpen
<1> DEFINE f == work["sender"].next
<1> DEFINE task == FileDone("sender", f)
<1>3. f \in File /\ f \in Nat BY <1>0, <1>1, CountTypes DEF MoreFiles, File, snd
<1>4. task \in Task /\ task.state = mine.state /\ task.done = mine.done \cup {f}
  BY <1>0, <1>3, SenderTask, FileDoneTask, Sides DEF mine
<1>5. task.state \in ActiveState
  <2>1. Active(mine) BY <1>1 DEF IInv, SenderOK, snd
  <2> QED BY <1>4, <2>1 DEF Active
<1>6. f \in Kept \/ removed
  <2>1. Promised(Consumed + 1) BY <1>0, <1>2, PositiveResult DEF FileConfirmed, IInv
  <2>2. Consumed = f + 1 BY <1>1 DEF Consumed, snd
  <2>3. Consumed + 1 = f + 2 BY <1>3, <2>2
  <2> QED BY <1>3, <2>1, <2>3 DEF Promised
<1>7. results # <<>> /\ ReadResult BY DEF FileConfirmed, HasResult
<1>8. WireOK' BY <1>0, <1>7, ReadResultType DEF WireOK, FileConfirmed
<1> HIDE DEF task
<1>9. CASE Persist("sender", task) /\ UNCHANGED disturbed
           /\ work' = [work EXCEPT !["sender"].pc = "send", !["sender"].next = @ + 1]
  <2>1. /\ work' \in [Device -> Work] /\ work'["receiver"] = work["receiver"]
        /\ work'["sender"].pc = "send" /\ work'["sender"].next = f + 1
    BY <1>0, <1>1, <1>9, TurnType, Sides DEF SenderPc
  <2>2. /\ TasksOK' /\ tasks'["sender"] = task /\ records'["sender"] = task
        /\ tasks'["receiver"] = tasks["receiver"] /\ records'["receiver"] = records["receiver"]
    BY <1>0, <1>4, <1>9, SavedType, Sides DEF TasksOK
  <2>3. SenderGoesOn("send", f + 1)
    BY <1>0, <1>2, <1>4, <1>5, <1>6, <1>8, <1>9, <2>1, <2>2 DEF FileConfirmed, SenderGoesOn, SenderPc, TypeOK
  <2>4. SenderOnly BY <2>3 DEF SenderGoesOn, SenderOnly
  <2>5. Consumed' = Consumed + 1 BY <1>1, <1>3, <2>1 DEF Consumed, snd
  <2>6. Counted' BY <1>0, <1>2, <1>7, <2>4, <2>5, SenderOnlyKeeps, CountedRead DEF IInv
  <2> QED BY <2>3, <2>6, SenderGoesOnInv
<1>10. CASE PersistFails("sender", task) /\ work' = Returned("sender", "failed") /\ disturbed' = TRUE
  BY <1>0, <1>2, <1>4, <1>5, <1>6, <1>8, <1>10, SenderSaveFails DEF FileConfirmed
<1> QED BY <1>9, <1>10 DEF FileConfirmed, SenderSaves, task

LEMMA SenderFinishesInv == ASSUME IInv, SenderFinishes PROVE IInv'
<1>0. TypeOK /\ SenderOK BY DEF IInv
<1>1. /\ work["sender"].pc = "return" /\ work["sender"].outcome \in EndedState
      /\ Finish("sender", work["sender"].outcome)
  BY <1>0, Sides DEF SenderFinishes, TypeOK, Work
<1>2. /\ work' \in [Device -> Work] /\ work'["receiver"] = work["receiver"]
      /\ work'["sender"].pc = "over" /\ work'["sender"].next = work["sender"].next
  BY <1>0, MovesType, Sides DEF SenderFinishes, SenderPc
<1>3. /\ TasksOK' /\ stored' = stored
      /\ tasks'["receiver"] = tasks["receiver"] /\ records'["receiver"] = records["receiver"]
      /\ tasks'["sender"] \in Task /\ tasks'["sender"] # NoTask
      /\ tasks'["sender"].done = tasks["sender"].done
      /\ \/ /\ tasks'["sender"].state = work["sender"].outcome
            /\ records'["sender"] = tasks'["sender"]
         \/ tasks'["sender"].state = "failed" /\ records'["sender"] = records["sender"]
  BY <1>0, <1>1, FinishEffect, SenderTask, Sides
<1>4. TypeOK'
  <2>1. WorkOK' BY <1>0, <1>2 DEF TypeOK, WorkOK, SenderPc
  <2>2. WireOK' BY <1>0, EmptySeq DEF TypeOK, WireOK, SenderFinishes
  <2>3. RestOK' BY <1>0, <1>3 DEF TypeOK, RestOK, SenderFinishes
  <2> QED BY <1>3, <2>1, <2>2, <2>3, TypePartsPrime
<1>5. SenderOnly BY <1>2, <1>3 DEF SenderOnly, SenderFinishes
<1>6. Counted' BY <1>2 DEF Counted, SenderOpen
<1>7. SenderProgressed' BY <1>2 DEF SenderProgressed, snd
<1>8. SenderOK'
  <2>1. Kept' = Kept /\ removed' = removed /\ delivered' = delivered
    BY <1>5, SenderOnlyKeeps DEF SenderOnly
  <2>2. Active(mine) /\ Active(records["sender"]) BY <1>0, <1>1 DEF SenderOK, snd
  <2>3. records["sender"].state # "complete" BY <2>2 DEF Active, ActiveState
  <2>4. work["sender"].outcome = "complete" => delivered BY <1>0, <1>1 DEF SenderOK, snd
  <2>5. mine'.state \in EndedState BY <1>1, <1>3 DEF mine, EndedState
  <2>6. ~Active(mine') BY <2>5 DEF Active, ActiveState, EndedState
  <2>7. mine' = tasks'["sender"] /\ mine = tasks["sender"] BY DEF mine
  <2>8. mine'.done \subseteq Kept' \/ removed' BY <1>0, <1>3, <2>1, <2>7 DEF SenderOK
  <2>9. mine'.state = "complete" => delivered' BY <1>3, <2>1, <2>4, <2>7
  <2>10. /\ records'["sender"] \in Task
         /\ records'["sender"].done \subseteq mine'.done
         /\ mine'.state = "complete" <=> records'["sender"].state = "complete"
    BY <1>0, <1>3, <2>3, <2>7 DEF SenderOK
  <2>11. work'["sender"].pc = "over" BY <1>2
  <2> QED BY <1>3, <2>6, <2>7, <2>8, <2>9, <2>10, <2>11 DEF SenderOK, snd
<1> QED BY <1>4, <1>5, <1>6, <1>7, <1>8, SenderOnlyKeeps DEF IInv

LEMMA CancelSenderInv == ASSUME IInv, Cancel("sender") PROVE IInv'
<1>0. TypeOK BY DEF IInv
<1>1. work["sender"].pc # "bind" BY <1>0 DEF TypeOK, SenderPc
<1>2. /\ work' = [work EXCEPT !["sender"].cancelled = TRUE]
      /\ UNCHANGED <<tasks, records, faults, stored, wire, restarts, delivered, removed>>
      /\ disturbed' = TRUE
  BY <1>1 DEF Cancel
<1>3. work["sender"] \in Work BY <1>0, Sides DEF TypeOK
<1>4. work' = [work EXCEPT !["sender"] = [work["sender"] EXCEPT !.cancelled = TRUE]]
  BY <1>0, <1>2 DEF TypeOK
<1>5. [work["sender"] EXCEPT !.cancelled = TRUE] \in Work BY <1>3 DEF Work
<1>6. /\ work' \in [Device -> Work] /\ work'["receiver"] = work["receiver"]
      /\ work'["sender"] = [work["sender"] EXCEPT !.cancelled = TRUE]
  BY <1>0, <1>4, <1>5, Sides DEF TypeOK
<1>7. /\ work'["sender"].pc = work["sender"].pc /\ work'["sender"].next = work["sender"].next
      /\ work'["sender"].outcome = work["sender"].outcome
  BY <1>3, <1>6 DEF Work
<1>8. TypeOK'
  <2>1. WorkOK' BY <1>0, <1>6, <1>7 DEF TypeOK, WorkOK
  <2>2. TasksOK' /\ WireOK' BY <1>0, <1>2 DEF TypeOK, TasksOK, WireOK, wire
  <2>3. RestOK' BY <1>0, <1>2 DEF TypeOK, RestOK
  <2> QED BY <2>1, <2>2, <2>3, TypePartsPrime
<1>9. SenderOnly BY <1>2, <1>6 DEF SenderOnly
<1>10. (SenderOpen' <=> SenderOpen) /\ Consumed' = Consumed /\ results' = results
  BY <1>2, <1>7 DEF SenderOpen, Consumed, snd, wire
<1>11. Counted' BY <1>0, <1>9, <1>10, SenderOnlyKeeps, CountedQuiet DEF IInv
<1>12. SenderProgressed' BY <1>7 DEF IInv, SenderProgressed, snd, MoreFiles
<1>13. SenderOK'
  <2>1. Kept' = Kept BY <1>9, SenderOnlyKeeps
  <2> QED BY <1>2, <1>7, <2>1 DEF IInv, SenderOK, mine, snd, Active
<1> QED BY <1>8, <1>9, <1>11, <1>12, <1>13, SenderOnlyKeeps DEF IInv

\* What load makes of the record of a device.
Loaded(d) == IF Active(records[d]) THEN [records[d] EXCEPT !.state = "interrupted"]
                                   ELSE records[d]

LEMMA LoadedTask ==
  ASSUME TypeOK, NEW d \in Device
  PROVE  /\ records[d] = NoTask => Loaded(d) = NoTask
         /\ records[d] # NoTask =>
              /\ Loaded(d) \in Task /\ Loaded(d) # NoTask /\ ~Active(Loaded(d))
              /\ Loaded(d).done = records[d].done
              /\ Active(records[d]) => Loaded(d).state = "interrupted"
              /\ ~Active(records[d]) => Loaded(d) = records[d]
<1>1. CASE records[d] = NoTask BY <1>1 DEF Loaded, Active
<1>2. CASE records[d] # NoTask
  <2>1. records[d] \in Task BY <1>2 DEF TypeOK
  <2>2. CASE Active(records[d])
    <3>1. Loaded(d) = [records[d] EXCEPT !.state = "interrupted"] BY <2>2 DEF Loaded
    <3>2. Loaded(d) \in Task BY <2>1, <3>1 DEF Task, EndedState
    <3>3. Loaded(d).state = "interrupted" /\ Loaded(d).done = records[d].done
      BY <2>1, <3>1 DEF Task
    <3> QED BY <1>2, <2>2, <3>2, <3>3, NoTaskAssumption DEF Active, ActiveState
  <2>3. CASE ~Active(records[d])
    BY <1>2, <2>1, <2>3 DEF Loaded
  <2> QED BY <2>2, <2>3
<1> QED BY <1>1, <1>2

LEMMA RestartEffect ==
  ASSUME TypeOK, NEW d \in Device, Restart(d)
  PROVE  /\ TasksOK' /\ tasks'[d] = Loaded(d) /\ records'[d] = Loaded(d)
         /\ \A e \in Device \ {d} :
              tasks'[e] = tasks[e] /\ records'[e] = records[e] /\ work'[e] = work[e]
         /\ work' \in [Device -> Work]
         /\ work'[d].pc = "over" /\ work'[d].next = work[d].next
         /\ restarts' \in 0..MaxRestarts
<1>1. Loaded(d) \in Task \cup {NoTask} BY LoadedTask
<1>2. tasks' = [tasks EXCEPT ![d] = Loaded(d)] /\ records' = [records EXCEPT ![d] = Loaded(d)]
      /\ faults' = faults
  BY DEF Restart, Loaded
<1>3. /\ TasksOK' /\ tasks'[d] = Loaded(d) /\ records'[d] = Loaded(d)
      /\ \A e \in Device \ {d} : tasks'[e] = tasks[e] /\ records'[e] = records[e]
  BY <1>1, <1>2 DEF TypeOK, TasksOK
<1>4. work[d] \in Work BY DEF TypeOK
<1> DEFINE w == [work[d] EXCEPT !.pc = "over", !.cancelled = FALSE]
<1>5. work' = [work EXCEPT ![d] = w] BY DEF Restart, TypeOK
<1>6. w \in Work /\ w.pc = "over" /\ w.next = work[d].next BY <1>4 DEF Work, SenderPc
<1> HIDE DEF w
<1>7. work' \in [Device -> Work] /\ work'[d] = w /\ \A e \in Device \ {d} : work'[e] = work[e]
  BY <1>5, <1>6 DEF TypeOK
<1>8. restarts' \in 0..MaxRestarts BY SessionAssumption DEF TypeOK, Restart
<1> QED BY <1>3, <1>6, <1>7, <1>8

LEMMA RestartSenderInv == ASSUME IInv, Restart("sender") PROVE IInv'
<1>0. TypeOK /\ SenderOK BY DEF IInv
<1>1. /\ TasksOK' /\ tasks'["sender"] = Loaded("sender") /\ records'["sender"] = Loaded("sender")
      /\ tasks'["receiver"] = tasks["receiver"] /\ records'["receiver"] = records["receiver"]
      /\ work' \in [Device -> Work] /\ work'["receiver"] = work["receiver"]
      /\ work'["sender"].pc = "over" /\ work'["sender"].next = work["sender"].next
      /\ restarts' \in 0..MaxRestarts
  BY <1>0, RestartEffect, Sides
<1>2. results' = <<>> /\ UNCHANGED <<stored, requests, faults, delivered, removed>> /\ disturbed' = TRUE
  BY DEF Restart
<1>3. TypeOK'
  <2>1. WorkOK' BY <1>0, <1>1 DEF TypeOK, WorkOK, SenderPc
  <2>2. WireOK' BY <1>0, <1>2, EmptySeq DEF TypeOK, WireOK
  <2>3. RestOK' BY <1>0, <1>1, <1>2 DEF TypeOK, RestOK
  <2> QED BY <1>1, <2>1, <2>2, <2>3, TypePartsPrime
<1>4. SenderOnly BY <1>1, <1>2 DEF SenderOnly
<1>5. Counted' BY <1>1 DEF Counted, SenderOpen
<1>6. SenderProgressed' BY <1>1 DEF SenderProgressed, snd
<1>7. SenderOK'
  <2>1. Kept' = Kept /\ removed' = removed /\ delivered' = delivered
    BY <1>4, SenderOnlyKeeps DEF SenderOnly
  <2>2. records["sender"] \in Task /\ records["sender"] # NoTask
    BY <1>0, NoTaskAssumption DEF SenderOK
  <2>3. /\ Loaded("sender") \in Task /\ ~Active(Loaded("sender"))
        /\ Loaded("sender").done = records["sender"].done
        /\ Loaded("sender").state = "complete" => records["sender"].state = "complete"
    BY <1>0, <2>2, LoadedTask, Sides
  <2>4. mine' = Loaded("sender") /\ records'["sender"] = Loaded("sender") BY <1>1 DEF mine
  <2>5. mine'.done \subseteq Kept' \/ removed' BY <1>0, <2>1, <2>3, <2>4 DEF SenderOK
  <2>6. mine'.state = "complete" => delivered' BY <1>0, <2>1, <2>3, <2>4 DEF SenderOK
  <2> QED BY <1>1, <2>3, <2>4, <2>5, <2>6 DEF SenderOK, snd
<1> QED BY <1>3, <1>4, <1>5, <1>6, <1>7, SenderOnlyKeeps DEF IInv

-----------------------------------------------------------------------------
(* Steps of the receiver                                                   *)

\* The receiver leaves the exchange of frames: with its task, to finish it,
\* or before it has one.
ReceiverReturnsTo(o) ==
  /\ work["receiver"].pc \in {"bind", "file"} /\ Active(its)
  /\ o = "complete" => work["receiver"].pc = "file" /\ work["receiver"].next = NFiles + 1
  /\ work' = Returned("receiver", o)
ReceiverEndsEarly ==
  /\ work["receiver"].pc \in {"none", "offer"}
  /\ Moves("receiver", "over")
ReceiverLeaves(o) ==
  /\ ReceiverReturnsTo(o) \/ ReceiverEndsEarly
  /\ results' = results \/ Reply(FALSE)
  /\ o = "complete" => results' = results
  /\ requests' \in Seq(Request)
  /\ UNCHANGED <<tasks, records, stored, counts, delivered, removed>>
  /\ disturbed' \in BOOLEAN

LEMMA ReceiverLeavesInv ==
  ASSUME IInv, NEW o \in {"failed", "complete"}, ReceiverLeaves(o) PROVE IInv'
<1>0. TypeOK /\ o \in EndedState BY DEF IInv, EndedState
<1>1. /\ work' \in [Device -> Work] /\ work'["sender"] = work["sender"]
      /\ work'["receiver"].next = work["receiver"].next
      /\ \/ /\ ReceiverEndsEarly /\ work'["receiver"].pc = "over"
         \/ /\ ReceiverReturnsTo(o) /\ work'["receiver"].pc = "return"
            /\ work'["receiver"].outcome \in {o, "cancelled"}
  <2>1. CASE ReceiverEndsEarly
    BY <1>0, <2>1, MovesType, Sides DEF ReceiverEndsEarly, ReceiverPc
  <2>2. CASE ReceiverReturnsTo(o)
    BY <1>0, <2>2, ReturnedType, Sides DEF ReceiverReturnsTo
  <2> QED BY <2>1, <2>2 DEF ReceiverLeaves
<1>2. TypeOK'
  <2>1. WorkOK' BY <1>0, <1>1 DEF TypeOK, WorkOK, ReceiverPc
  <2>2. WireOK' BY <1>0, ReplyType DEF TypeOK, WireOK, ReceiverLeaves
  <2>3. TasksOK' /\ RestOK' BY <1>0 DEF TypeOK, TasksOK, RestOK, ReceiverLeaves, counts
  <2> QED BY <2>1, <2>2, <2>3, TypePartsPrime
<1>3. ReceiverOnly BY <1>1 DEF ReceiverOnly, ReceiverLeaves
<1>4. Kept' = Kept /\ StillPromised BY DEF Kept, StillPromised, ReceiverLeaves
<1>5. GoodStanding' => GoodStanding /\ Written' = Written /\ o = "complete"
  BY <1>0, <1>1, SessionAssumption DEF GoodStanding, Written, rcv, ReceiverReturnsTo
<1>6. Counted'
  <2>1. CASE results' = results
    BY <1>0, <1>3, <1>4, <1>5, <2>1, ReceiverOnlyKeeps, CountedQuiet DEF IInv
  <2>2. CASE Reply(FALSE) /\ o # "complete"
    <3>1. ~GoodStanding' BY <1>5, <2>2
    <3> QED BY <1>0, <1>3, <1>4, <2>2, <3>1, ReceiverOnlyKeeps, CountedReply DEF IInv
  <2> QED BY <2>1, <2>2 DEF ReceiverLeaves
<1>7. UNCHANGED <<tasks, records, stored, delivered, removed>> BY DEF ReceiverLeaves
<1>8. its' = its BY <1>7 DEF its
<1>9. TaskExists'
  <2>1. CASE ReceiverEndsEarly /\ work'["receiver"].pc = "over"
    BY <1>7, <1>8, <2>1 DEF IInv, TaskExists, rcv, ReceiverEndsEarly
  <2>2. CASE ReceiverReturnsTo(o) /\ work'["receiver"].pc = "return"
    <3>1. Active(its) /\ its # NoTask BY <2>2 DEF ReceiverReturnsTo, Active
    <3>2. Active(its)' BY <1>8, <3>1 DEF Active
    <3> QED BY <1>7, <1>8, <2>2, <3>1, <3>2 DEF IInv, TaskExists, rcv
  <2> QED BY <1>1, <2>1, <2>2
<1>10. RecordFollows'
  BY <1>1, <1>7, <1>8 DEF IInv, RecordFollows, rcv, Active
<1>11. ReceiverProgressed'
  <2>1. work'["receiver"].pc \in {"over", "return"} BY <1>1
  <2>2. work'["receiver"].pc = "return" /\ work'["receiver"].outcome = "complete"
          => its = records["receiver"] /\ its.done = File
    <3>1. SUFFICES ASSUME work'["receiver"].pc = "return", work'["receiver"].outcome = "complete"
                   PROVE  its = records["receiver"] /\ its.done = File
      OBVIOUS
    <3>2. ReceiverReturnsTo(o) /\ o = "complete" BY <1>0, <1>1, <3>1
    <3>3. rcv.pc = "file" /\ rcv.next = NFiles + 1 /\ its # NoTask
      BY <3>2 DEF ReceiverReturnsTo, rcv, Active
    <3>4. its = records["receiver"] /\ its.done = 1..(rcv.next - 1)
      BY <3>3 DEF IInv, RecordFollows
    <3> QED BY <3>3, <3>4, SessionAssumption DEF File
  <2> QED BY <1>7, <1>8, <2>1, <2>2 DEF ReceiverProgressed, rcv
<1>12. DeliveredOK' BY <1>4, <1>7, <1>8 DEF IInv, DeliveredOK
<1> QED BY <1>2, <1>3, <1>4, <1>6, <1>9, <1>10, <1>11, <1>12, ReceiverOnlyKeeps DEF IInv

LEMMA ReceiverLeavesSteps ==
  ASSUME IInv, \/ ReceiveHello(FALSE) \/ RefuseOffer \/ RefuseFile \/ AllReceived
               \/ ReceiverStuck \/ ReceiverFails \/ CancelledReturns("receiver")
  PROVE  IInv'
<1>0. TypeOK /\ TaskExists BY DEF IInv
<1>1. rcv.pc = "file" => Active(its) BY <1>0 DEF TaskExists
<1>2. requests # <<>> /\ ReadRequest => requests' \in Seq(Request) BY <1>0, ReadRequestType
<1>3. requests' = requests => requests' \in Seq(Request) BY <1>0 DEF TypeOK
<1>4. disturbed \in BOOLEAN BY <1>0 DEF TypeOK
<1>5. CASE ReceiveHello(FALSE)
  <2>1. ReceiverEndsEarly BY <1>5 DEF ReceiveHello, ReceiverEndsEarly
  <2>2. ReceiverLeaves("failed")
    BY <1>2, <1>4, <1>5, <2>1 DEF ReceiveHello, HasRequest, ReceiverLeaves
  <2> QED BY <2>2, ReceiverLeavesInv
<1>6. CASE RefuseOffer
  <2>1. ReceiverEndsEarly BY <1>6 DEF RefuseOffer, ReceiverEndsEarly
  <2>2. ReceiverLeaves("failed")
    BY <1>2, <1>4, <1>6, <2>1 DEF RefuseOffer, HasRequest, ReceiverLeaves
  <2> QED BY <2>2, ReceiverLeavesInv
<1>7. CASE RefuseFile
  <2>1. ReceiverReturnsTo("failed") BY <1>1, <1>7 DEF RefuseFile, ReceiverReturnsTo, rcv
  <2>2. ReceiverLeaves("failed")
    BY <1>2, <1>4, <1>7, <2>1 DEF RefuseFile, ReceiverLeaves, history
  <2> QED BY <2>2, ReceiverLeavesInv
<1>8. CASE AllReceived
  <2>1. ReceiverReturnsTo("complete") BY <1>1, <1>8 DEF AllReceived, ReceiverReturnsTo, rcv
  <2>2. ReceiverLeaves("complete")
    BY <1>3, <1>4, <1>8, <2>1 DEF AllReceived, ReceiverLeaves, history, wire
  <2> QED BY <2>2, ReceiverLeavesInv
<1>9. CASE ReceiverStuck \/ ReceiverFails
  <2>1. ReceiverReturnsTo("failed") \/ ReceiverEndsEarly
    <3>1. ReceiverReturns BY <1>9 DEF ReceiverStuck, ReceiverFails
    <3>2. \/ work["receiver"].pc \in {"none", "offer"}
          \/ work["receiver"].pc \in {"bind", "file"} /\ Active(its)
      BY <1>1, <1>9 DEF ReceiverStuck, ReceiverReads, ReceiverFails, rcv, its
    <3> QED BY <3>1, <3>2 DEF ReceiverReturns, ReceiverReturnsTo, ReceiverEndsEarly, Moves
  <2>2. ReceiverLeaves("failed")
    BY <1>3, <1>4, <1>9, <2>1 DEF ReceiverStuck, ReceiverFails, ReceiverLeaves, history, wire
  <2> QED BY <2>2, ReceiverLeavesInv
<1>10. CASE CancelledReturns("receiver")
  <2>1. ReceiverReturnsTo("failed")
    BY <1>1, <1>10 DEF CancelledReturns, ReceiverReturnsTo, rcv
  <2>2. ReceiverLeaves("failed")
    BY <1>3, <1>4, <1>10, <2>1 DEF CancelledReturns, ReceiverLeaves, history, wire
  <2> QED BY <2>2, ReceiverLeavesInv
<1> QED BY <1>5, <1>6, <1>7, <1>8, <1>9, <1>10

LEMMA ReceiveHelloInv == ASSUME IInv, ReceiveHello(TRUE) PROVE IInv'
<1>0. TypeOK BY DEF IInv
<1>1. /\ work' \in [Device -> Work] /\ work'["sender"] = work["sender"]
      /\ work'["receiver"].pc = "offer" /\ work'["receiver"].next = work["receiver"].next
  BY <1>0, MovesType, Sides DEF ReceiveHello, ReceiverPc
<1>2. /\ work["receiver"].pc = "none" /\ Reply(TRUE) /\ disturbed' = disturbed
      /\ requests # <<>> /\ ReadRequest
      /\ UNCHANGED <<tasks, records, stored, faults, restarts, delivered, removed>>
  <2>1. disturbed' = (disturbed \/ ~TRUE) BY DEF ReceiveHello
  <2>2. disturbed' = disturbed BY <1>0, <2>1 DEF TypeOK
  <2> QED BY <2>2 DEF ReceiveHello, HasRequest, counts
<1>3. TypeOK'
  <2>1. WorkOK' BY <1>0, <1>1 DEF TypeOK, WorkOK, ReceiverPc
  <2>2. WireOK' BY <1>0, <1>2, ReplyType, ReadRequestType DEF WireOK
  <2>3. TasksOK' /\ RestOK' BY <1>0, <1>2 DEF TypeOK, TasksOK, RestOK
  <2> QED BY <2>1, <2>2, <2>3, TypePartsPrime
<1>4. ReceiverOnly BY <1>1, <1>2 DEF ReceiverOnly
<1>5. Kept' = Kept /\ StillPromised BY <1>2 DEF Kept, StillPromised
<1>6. Counted'
  <2>1. GoodStanding /\ Written = 0 /\ Written' = 1
    BY <1>1, <1>2 DEF GoodStanding, Written, rcv
  <2>2. ASSUME NEW n \in Nat, n = Written + 1 PROVE Promised(n)'
    BY <2>1, <2>2, SessionAssumption DEF Promised, File
  <2>3. Written' = Written + 1 BY <2>1
  <2>4. \A n \in Nat : n = Written + 1 => Promised(n)' BY <2>2
  <2> QED BY <1>0, <1>2, <1>4, <1>5, <2>1, <2>3, <2>4, ReceiverOnlyKeeps, CountedReply DEF IInv
<1>7. its' = its BY <1>2 DEF its
<1>8. TaskExists' BY <1>1, <1>2, <1>7 DEF IInv, TaskExists, rcv
<1>9. RecordFollows' BY <1>1, <1>2, <1>7 DEF IInv, RecordFollows, rcv, Active
<1>10. ReceiverProgressed' BY <1>1, <1>2 DEF IInv, ReceiverProgressed, rcv
<1>11. DeliveredOK' BY <1>2, <1>5, <1>7 DEF IInv, DeliveredOK
<1> QED BY <1>3, <1>4, <1>5, <1>6, <1>8, <1>9, <1>10, <1>11, ReceiverOnlyKeeps DEF IInv

LEMMA ReceiveOfferInv == ASSUME IInv, ReceiveOffer PROVE IInv'
<1>0. TypeOK /\ TaskExists /\ DeliveredOK BY DEF IInv
<1>1. /\ work' \in [Device -> Work] /\ work'["sender"] = work["sender"]
      /\ work'["receiver"].pc = "bind" /\ work'["receiver"].next = work["receiver"].next
  BY <1>0, MovesType, Sides DEF ReceiveOffer, ReceiverPc
<1> DEFINE task == [state |-> "receiving", done |-> {}]
<1>2. task \in Task /\ task.done = {} /\ task.state = "receiving" BY DEF Task, ActiveState
<1>3. /\ work["receiver"].pc = "offer" /\ Persist("receiver", task)
      /\ requests # <<>> /\ ReadRequest /\ results' = results
      /\ UNCHANGED <<stored, restarts, delivered, removed, disturbed>>
  BY DEF ReceiveOffer, HasRequest, history
<1> HIDE DEF task
<1>4. /\ TasksOK' /\ tasks'["receiver"] = task /\ records'["receiver"] = task
      /\ tasks'["sender"] = tasks["sender"] /\ records'["sender"] = records["sender"]
  BY <1>0, <1>2, <1>3, SavedType, Sides DEF TasksOK
<1>5. TypeOK'
  <2>1. WorkOK' BY <1>0, <1>1 DEF TypeOK, WorkOK, ReceiverPc
  <2>2. requests' \in Seq(Request) BY <1>0, <1>3, ReadRequestType
  <2>3. WireOK' /\ RestOK' BY <1>0, <1>3, <2>2 DEF TypeOK, WireOK, RestOK
  <2> QED BY <1>4, <2>1, <2>3, TypePartsPrime
<1>6. its = NoTask /\ records["receiver"] = NoTask /\ ~removed /\ rcv.next = 1
  BY <1>0, <1>3 DEF TaskExists, IInv, ReceiverProgressed, rcv
<1>7. ~delivered BY <1>0, <1>6 DEF DeliveredOK
<1>8. Kept = {} BY <1>6 DEF Kept
<1>9. StillPromised BY <1>3, <1>6, <1>8 DEF StillPromised
<1>10. ReceiverOnly BY <1>1, <1>4 DEF ReceiverOnly
<1>11. Counted'
  <2>1. GoodStanding /\ Written' = Written BY <1>1, <1>3 DEF GoodStanding, Written, rcv
  <2> QED BY <1>0, <1>3, <1>9, <1>10, <2>1, ReceiverOnlyKeeps, CountedQuiet DEF IInv
<1>12. its' = task /\ task # NoTask BY <1>2, <1>4, NoTaskAssumption DEF its
<1>13. Active(task) BY <1>2, <1>12 DEF Active, ActiveState
<1>14. TaskExists' BY <1>1, <1>3, <1>4, <1>6, <1>12 DEF TaskExists, rcv
<1>15. RecordFollows' BY <1>1, <1>2, <1>4, <1>12, <1>13 DEF RecordFollows, rcv, Active
<1>16. ReceiverProgressed' BY <1>1, <1>6 DEF ReceiverProgressed, rcv
<1>17. DeliveredOK' BY <1>2, <1>3, <1>7, <1>12 DEF DeliveredOK
<1> QED BY <1>5, <1>9, <1>10, <1>11, <1>14, <1>15, <1>16, <1>17, ReceiverOnlyKeeps DEF IInv

LEMMA BindInv == ASSUME IInv, Bind PROVE IInv'
<1>0. TypeOK /\ TaskExists /\ RecordFollows /\ ReceiverProgressed BY DEF IInv
<1>1. /\ work' \in [Device -> Work] /\ work'["sender"] = work["sender"]
      /\ work'["receiver"].pc = "file" /\ work'["receiver"].next = work["receiver"].next
  BY <1>0, MovesType, Sides DEF Bind, ReceiverPc
<1>2. /\ work["receiver"].pc = "bind" /\ Active(its) /\ Reply(TRUE)
      /\ UNCHANGED <<tasks, records, stored, requests, faults, restarts, delivered, removed, disturbed>>
  BY DEF Bind, SayAccept, its, counts, history
<1>3. TypeOK'
  <2>1. WorkOK' BY <1>0, <1>1 DEF TypeOK, WorkOK, ReceiverPc
  <2>2. results' \in Seq(BOOLEAN) BY <1>0, <1>2, ReplyType
  <2>3. WireOK' /\ TasksOK' /\ RestOK' BY <1>0, <1>2, <2>2 DEF TypeOK, WireOK, TasksOK, RestOK
  <2> QED BY <2>1, <2>3, TypePartsPrime
<1>4. ReceiverOnly BY <1>1, <1>2 DEF ReceiverOnly
<1>5. Kept' = Kept /\ StillPromised BY <1>2 DEF Kept, StillPromised
<1>6. rcv.pc = "bind" /\ rcv.next = 1 /\ rcv'.pc = "file" /\ rcv'.next = 1
  BY <1>0, <1>1, <1>2 DEF ReceiverProgressed, rcv
<1>7. Counted'
  <2>1. GoodStanding /\ Written = 1 /\ Written' = 2 BY <1>6 DEF GoodStanding, Written
  <2>2. ASSUME NEW n \in Nat, n = Written + 1 PROVE Promised(n)'
    BY <2>1, <2>2, SessionAssumption DEF Promised, File
  <2>3. Written' = Written + 1 BY <2>1
  <2>4. \A n \in Nat : n = Written + 1 => Promised(n)' BY <2>2
  <2> QED BY <1>0, <1>2, <1>4, <1>5, <2>1, <2>3, <2>4, ReceiverOnlyKeeps, CountedReply DEF IInv
<1>8. its' = its /\ its # NoTask BY <1>2 DEF its, Active
<1>9. ~removed BY <1>0, <1>8 DEF TaskExists
<1>10. TaskExists' BY <1>0, <1>2, <1>6, <1>8, <1>9 DEF TaskExists, Active
<1>11. its.done = {} /\ its = records["receiver"]
  BY <1>0, <1>2, <1>6, <1>8 DEF RecordFollows
<1>12. RecordFollows' BY <1>0, <1>2, <1>6, <1>8, <1>11 DEF RecordFollows, Active
<1>13. ReceiverProgressed' BY <1>6 DEF ReceiverProgressed
<1>14. DeliveredOK' BY <1>2, <1>5, <1>8 DEF IInv, DeliveredOK
<1> QED BY <1>3, <1>4, <1>5, <1>7, <1>10, <1>12, <1>13, <1>14, ReceiverOnlyKeeps DEF IInv

\* At bind a cancelled task is not complete: nothing has been received.
LEMMA NothingDelivered ==
  ASSUME IInv, rcv.pc = "bind", its # NoTask PROVE its.state # "complete" /\ ~delivered
<1>1. its.done = {} /\ records["receiver"].done \subseteq its.done /\ ~removed
  BY DEF IInv, RecordFollows, TaskExists
<1>2. 1 \in File BY SessionAssumption DEF File
<1>3. 1 \notin Kept BY <1>1 DEF Kept
<1> QED BY <1>1, <1>2, <1>3 DEF IInv, DeliveredOK

\* The receiver's task ends without being complete.
ReceiverTaskEnds ==
  /\ tasks'["receiver"] \in Task /\ tasks'["receiver"] # NoTask
  /\ tasks'["receiver"].done = its.done
  /\ tasks'["receiver"].state \in EndedState \ {"complete"}
  /\ \/ records'["receiver"] = tasks'["receiver"]
     \/ records'["receiver"] = records["receiver"] /\ records["receiver"].state # "complete"
  /\ its # NoTask /\ ~delivered
  /\ \A f \in its.done : stored'[f] = stored[f]
  /\ delivered' = delivered /\ removed' = removed

LEMMA ReceiverTaskEndsKeeps ==
  ASSUME IInv, ReceiverTaskEnds, work'["receiver"].pc \in {"bind", "ack", "over"},
         work'["receiver"].next = work["receiver"].next,
         work'["receiver"].pc = "bind" => work["receiver"].pc = "bind"
  PROVE  StillPromised /\ TaskExists' /\ RecordFollows' /\ ReceiverProgressed' /\ DeliveredOK'
<1>0. TypeOK /\ TaskExists /\ RecordFollows /\ ReceiverProgressed BY DEF IInv
<1>1. its' = tasks'["receiver"] /\ its # NoTask /\ its \in Task
  BY <1>0, Sides DEF its, ReceiverTaskEnds, TypeOK
<1>2. ~removed /\ records["receiver"] # NoTask BY <1>0, <1>1 DEF TaskExists
<1>3. records["receiver"].done \subseteq its.done BY <1>0, <1>1 DEF RecordFollows
<1>4. /\ records'["receiver"] # NoTask
      /\ records["receiver"].done \subseteq records'["receiver"].done
      /\ records'["receiver"].done \subseteq its.done
  BY <1>1, <1>2, <1>3 DEF ReceiverTaskEnds
<1>5. Kept \subseteq Kept' BY <1>1, <1>3, <1>4 DEF Kept, ReceiverTaskEnds
<1>6. StillPromised BY <1>5 DEF StillPromised, ReceiverTaskEnds
<1>7. ~Active(its') /\ its' # NoTask BY <1>1 DEF Active, ReceiverTaskEnds, ActiveState, EndedState
<1>8. TaskExists' BY <1>1, <1>2, <1>4, <1>7 DEF TaskExists, ReceiverTaskEnds, rcv
<1>9. its'.state # "complete" /\ records'["receiver"].state # "complete"
  BY <1>1 DEF ReceiverTaskEnds
<1>10. its'.done = its.done /\ \A f \in its'.done : stored'[f] = "whole"
  BY <1>0, <1>1 DEF RecordFollows, ReceiverTaskEnds
<1>11. rcv'.pc = "bind" => its'.done = {}
  BY <1>0, <1>1, <1>10 DEF RecordFollows, rcv
<1>12. rcv'.pc \notin {"file", "stored", "none", "offer", "return"} BY DEF rcv
<1>13. Active(its)' = Active(its') BY DEF Active
<1>14. RecordFollows' BY <1>4, <1>7, <1>9, <1>10, <1>11, <1>12, <1>13 DEF RecordFollows
<1>15. ReceiverProgressed' BY <1>0, <1>12 DEF ReceiverProgressed, rcv
<1>16. DeliveredOK' BY <1>9 DEF DeliveredOK, ReceiverTaskEnds
<1> QED BY <1>6, <1>8, <1>14, <1>15, <1>16

LEMMA BindFailsInv == ASSUME IInv, BindFails PROVE IInv'
<1>0. TypeOK BY DEF IInv
<1>1. /\ work' \in [Device -> Work] /\ work'["sender"] = work["sender"]
      /\ work'["receiver"].pc = "over" /\ work'["receiver"].next = work["receiver"].next
  BY <1>0, MovesType, Sides DEF BindFails, ReceiverPc
<1>2. /\ work["receiver"].pc = "bind" /\ Finish("receiver", "failed")
      /\ results' = results /\ requests' = requests
      /\ UNCHANGED <<restarts, delivered, removed, disturbed>>
  BY DEF BindFails, wire, history
<1>3. "failed" \in EndedState BY DEF EndedState
<1>4. /\ TasksOK' /\ stored' \in [File -> {"none", "whole", "changed"}]
      /\ tasks'["sender"] = tasks["sender"] /\ records'["sender"] = records["sender"]
  BY <1>0, <1>2, <1>3, FinishEffect, Sides
<1>5. TypeOK'
  <2>1. WorkOK' BY <1>0, <1>1 DEF TypeOK, WorkOK, ReceiverPc
  <2>2. WireOK' /\ RestOK' BY <1>0, <1>2, <1>4 DEF TypeOK, WireOK, RestOK
  <2> QED BY <1>4, <2>1, <2>2, TypePartsPrime
<1>6. ReceiverOnly BY <1>1, <1>4 DEF ReceiverOnly
<1>7. StillPromised /\ TaskExists' /\ RecordFollows' /\ ReceiverProgressed' /\ DeliveredOK'
  <2>1. CASE its = NoTask
    <3>1. tasks' = tasks /\ records' = records /\ stored' = stored
      BY <1>0, <1>2, <1>3, <2>1, FinishEffect, Sides DEF its
    <3>2. its' = its /\ Kept' = Kept BY <3>1 DEF its, Kept
    <3>3. removed' = removed /\ delivered' = delivered BY <1>2
    <3>4. TaskExists' BY <1>1, <2>1, <3>1, <3>2, <3>3 DEF IInv, TaskExists, rcv
    <3>5. RecordFollows' BY <2>1, <3>2 DEF RecordFollows
    <3>6. ReceiverProgressed' BY <1>1 DEF ReceiverProgressed, rcv
    <3>7. DeliveredOK' BY <3>2, <3>3 DEF IInv, DeliveredOK
    <3> QED BY <3>2, <3>3, <3>4, <3>5, <3>6, <3>7 DEF StillPromised
  <2>2. CASE its # NoTask
    <3>1. its.state # "complete" /\ ~delivered BY <1>2, <2>2, NothingDelivered DEF rcv
    <3>2. records["receiver"].state # "complete" BY <2>2, <3>1 DEF IInv, RecordFollows
    <3>3. /\ tasks'["receiver"] \in Task /\ tasks'["receiver"] # NoTask
          /\ tasks'["receiver"].done = its.done
          /\ tasks'["receiver"].state = "failed"
          /\ records'["receiver"] = tasks'["receiver"] \/ records'["receiver"] = records["receiver"]
          /\ \A f \in File : f \in its.done => stored'[f] = stored[f]
      BY <1>0, <1>2, <1>3, <2>2, FinishEffect, Sides DEF its
    <3>4. its.done \subseteq File BY <1>0, <2>2, Sides DEF TypeOK, its, Task
    <3>5. ReceiverTaskEnds BY <1>2, <2>2, <3>1, <3>2, <3>3, <3>4 DEF ReceiverTaskEnds, EndedState
    <3> QED BY <1>1, <3>5, ReceiverTaskEndsKeeps
  <2> QED BY <2>1, <2>2
<1>8. Counted'
  <2>1. ~GoodStanding' BY <1>1 DEF GoodStanding, rcv
  <2> QED BY <1>0, <1>2, <1>6, <1>7, <2>1, ReceiverOnlyKeeps, CountedQuiet DEF IInv
<1> QED BY <1>5, <1>6, <1>7, <1>8, ReceiverOnlyKeeps DEF IInv

LEMMA CancelReceiverInv == ASSUME IInv, Cancel("receiver") PROVE IInv'
<1>0. TypeOK BY DEF IInv
<1>1. its # NoTask /\ Active(its) /\ requests' = requests /\ results' = results
      /\ UNCHANGED <<restarts, delivered, removed>> /\ disturbed' = TRUE
  BY DEF Cancel, Active, its, wire
<1>2. CASE work["receiver"].pc # "bind"
  <2>1. /\ work' = [work EXCEPT !["receiver"].cancelled = TRUE]
        /\ UNCHANGED <<tasks, records, faults, stored>>
    BY <1>2 DEF Cancel
  <2>2. work["receiver"] \in Work BY <1>0, Sides DEF TypeOK
  <2>3. work' = [work EXCEPT !["receiver"] = [work["receiver"] EXCEPT !.cancelled = TRUE]]
    BY <1>0, <2>1 DEF TypeOK
  <2>4. [work["receiver"] EXCEPT !.cancelled = TRUE] \in Work BY <2>2 DEF Work
  <2>5. /\ work' \in [Device -> Work] /\ work'["sender"] = work["sender"]
        /\ work'["receiver"] = [work["receiver"] EXCEPT !.cancelled = TRUE]
    BY <1>0, <2>3, <2>4, Sides DEF TypeOK
  <2>6. /\ work'["receiver"].pc = work["receiver"].pc
        /\ work'["receiver"].next = work["receiver"].next
        /\ work'["receiver"].outcome = work["receiver"].outcome
    BY <2>2, <2>5 DEF Work
  <2>7. TypeOK'
    <3>1. WorkOK' BY <1>0, <2>5, <2>6 DEF TypeOK, WorkOK
    <3>2. TasksOK' /\ WireOK' /\ RestOK' BY <1>0, <1>1, <2>1 DEF TypeOK, TasksOK, WireOK, RestOK
    <3> QED BY <3>1, <3>2, TypePartsPrime
  <2>8. ReceiverOnly BY <2>1, <2>5 DEF ReceiverOnly
  <2>9. its' = its /\ Kept' = Kept /\ StillPromised BY <1>1, <2>1 DEF its, Kept, StillPromised
  <2>10. (GoodStanding' <=> GoodStanding) /\ Written' = Written
    BY <2>6 DEF GoodStanding, Written, rcv
  <2>11. Counted' BY <1>0, <1>1, <2>8, <2>9, <2>10, ReceiverOnlyKeeps, CountedQuiet DEF IInv
  <2>12. TaskExists' BY <1>1, <2>1, <2>6, <2>9 DEF IInv, TaskExists, rcv, Active
  <2>13. RecordFollows' BY <2>1, <2>6, <2>9 DEF IInv, RecordFollows, rcv, Active
  <2>14. ReceiverProgressed' BY <2>1, <2>6, <2>9 DEF IInv, ReceiverProgressed, rcv, MoreFiles
  <2>15. DeliveredOK' BY <1>1, <2>9 DEF IInv, DeliveredOK
  <2> QED BY <2>7, <2>8, <2>9, <2>11, <2>12, <2>13, <2>14, <2>15, ReceiverOnlyKeeps DEF IInv
<1>3. CASE work["receiver"].pc = "bind"
  <2> DEFINE task == Updated("receiver", "cancelled")
  <2>1. task \in Task /\ task # NoTask /\ task.state = "cancelled" /\ task.done = its.done
    BY <1>0, <1>1, UpdatedTask, Sides DEF its, EndedState
  <2>2. /\ Persist("receiver", task) \/ PersistFails("receiver", task)
        /\ Clean(its) /\ work' = work
    BY <1>3 DEF Cancel, its
  <2> HIDE DEF task
  <2>3. /\ TasksOK' /\ tasks'["receiver"] = task
        /\ records'["receiver"] = task \/ records'["receiver"] = records["receiver"]
        /\ tasks'["sender"] = tasks["sender"] /\ records'["sender"] = records["sender"]
    BY <1>0, <2>1, <2>2, SavedType, Sides DEF TasksOK
  <2>4. /\ stored' \in [File -> {"none", "whole", "changed"}]
        /\ \A f \in File : f \in its.done => stored'[f] = stored[f]
    BY <1>0, <2>2, CleanEffect
  <2>5. TypeOK'
    <3>1. WorkOK' /\ WireOK' /\ RestOK'
      BY <1>0, <1>1, <2>2, <2>4 DEF TypeOK, WorkOK, WireOK, RestOK
    <3> QED BY <2>3, <3>1, TypePartsPrime
  <2>6. ReceiverOnly BY <2>2, <2>3 DEF ReceiverOnly
  <2>7. its.state # "complete" /\ ~delivered BY <1>1, <1>3, NothingDelivered DEF rcv
  <2>8. records["receiver"].state # "complete" BY <1>1, <2>7 DEF IInv, RecordFollows
  <2>9. its.done \subseteq File BY <1>0, <1>1, Sides DEF TypeOK, its, Task
  <2>10. ReceiverTaskEnds
    BY <1>1, <2>1, <2>3, <2>4, <2>7, <2>8, <2>9 DEF ReceiverTaskEnds, EndedState
  <2>11. StillPromised /\ TaskExists' /\ RecordFollows' /\ ReceiverProgressed' /\ DeliveredOK'
    BY <1>3, <2>2, <2>10, ReceiverTaskEndsKeeps
  <2>12. (GoodStanding' <=> GoodStanding) /\ Written' = Written
    BY <2>2 DEF GoodStanding, Written, rcv
  <2>13. Counted' BY <1>0, <1>1, <2>6, <2>11, <2>12, ReceiverOnlyKeeps, CountedQuiet DEF IInv
  <2> QED BY <2>5, <2>6, <2>11, <2>13, ReceiverOnlyKeeps DEF IInv
<1> QED BY <1>2, <1>3

LEMMA ReceiveFileInv == ASSUME IInv, ReceiveFile PROVE IInv'
<1>0. TypeOK /\ TaskExists /\ RecordFollows BY DEF IInv
<1> DEFINE f == work["receiver"].next
<1>1. /\ work' \in [Device -> Work] /\ work'["sender"] = work["sender"]
      /\ work'["receiver"].pc = "stored" /\ work'["receiver"].next = f
  BY <1>0, MovesType, Sides DEF ReceiveFile, ReceiverPc
<1>2. /\ rcv.pc = "file" /\ MoreFiles("receiver") /\ requests # <<>> /\ ReadRequest
      /\ stored' = [stored EXCEPT ![f] = "whole"]
      /\ results' = results
      /\ UNCHANGED <<tasks, records, faults, restarts, delivered, removed, disturbed>>
  BY DEF ReceiveFile, Accepts, counts, history, rcv
<1>3. f \in 1..NFiles BY <1>0, <1>2, CountTypes DEF MoreFiles, rcv
<1>4. /\ stored' \in [File -> {"none", "whole", "changed"}] /\ stored'[f] = "whole"
      /\ \A g \in File \ {f} : stored'[g] = stored[g]
  BY <1>0, <1>2, <1>3 DEF TypeOK, File
<1>5. TypeOK'
  <2>1. WorkOK' BY <1>0, <1>1 DEF TypeOK, WorkOK, ReceiverPc
  <2>2. requests' \in Seq(Request) BY <1>0, <1>2, ReadRequestType
  <2>3. WireOK' /\ TasksOK' BY <1>0, <1>2, <2>2 DEF TypeOK, WireOK, TasksOK
  <2>4. RestOK' BY <1>0, <1>2, <1>4 DEF TypeOK, RestOK
  <2> QED BY <2>1, <2>3, <2>4, TypePartsPrime
<1>6. ReceiverOnly BY <1>1, <1>2 DEF ReceiverOnly
<1>7. its # NoTask /\ its = records["receiver"] /\ its.done = 1..(f - 1) /\ Active(its)
  BY <1>0, <1>2 DEF TaskExists, RecordFollows, Active, rcv
<1>8. f \notin its.done BY <1>3, <1>7
<1>9. Kept' = Kept BY <1>2, <1>4, <1>7, <1>8 DEF Kept
<1>10. StillPromised BY <1>2, <1>9 DEF StillPromised
<1>11. Counted'
  <2>1. (GoodStanding' <=> GoodStanding) /\ Written' = Written
    BY <1>1, <1>2 DEF GoodStanding, Written, rcv
  <2> QED BY <1>0, <1>2, <1>6, <1>10, <2>1, ReceiverOnlyKeeps, CountedQuiet DEF IInv
<1>12. its' = its /\ rcv'.pc = "stored" /\ rcv'.next = f /\ rcv.next = f
  BY <1>1, <1>2 DEF its, rcv
<1>13. TaskExists' BY <1>0, <1>2, <1>7, <1>12 DEF TaskExists, Active
<1>14. RecordFollows'
  <2>1. its.done \subseteq File BY <1>0, <1>7, Sides DEF TypeOK, its, Task
  <2>2. \A g \in its.done : stored'[g] = "whole" BY <1>0, <1>4, <1>7, <1>8, <2>1 DEF RecordFollows
  <2> QED BY <1>0, <1>2, <1>7, <1>12, <2>2 DEF RecordFollows, Active
<1>15. ReceiverProgressed'
  <2>1. f <= NFiles BY <1>2 DEF MoreFiles
  <2> QED BY <1>1, <1>4, <1>12, <2>1 DEF ReceiverProgressed, MoreFiles
<1>16. DeliveredOK' BY <1>2, <1>9, <1>12 DEF IInv, DeliveredOK
<1> QED BY <1>5, <1>6, <1>10, <1>11, <1>13, <1>14, <1>15, <1>16, ReceiverOnlyKeeps DEF IInv

LEMMA FileStoredInv == ASSUME IInv, FileStored PROVE IInv'
<1>0. TypeOK /\ TaskExists /\ RecordFollows /\ ReceiverProgressed BY DEF IInv
<1> DEFINE f == work["receiver"].next
<1> DEFINE task == FileDone("receiver", f)
<1>1. rcv.pc = "stored" /\ rcv.next = f /\ f <= NFiles /\ stored[f] = "whole"
  BY <1>0 DEF FileStored, ReceiverProgressed, MoreFiles, rcv
<1>2. f \in File /\ f \in Nat \ {0} BY <1>0, <1>1, CountTypes DEF File
<1>3. its # NoTask /\ its = records["receiver"] /\ its.done = 1..(f - 1) /\ Active(its)
      /\ its \in Task /\ ~removed
  BY <1>0, <1>1, Sides DEF TaskExists, RecordFollows, Active, TypeOK, its
<1>4. /\ task \in Task /\ task # NoTask /\ task.state = its.state
      /\ task.done = its.done \cup {f}
  BY <1>0, <1>2, <1>3, FileDoneTask, Sides DEF its
<1>5. Active(task) /\ task.state # "complete" BY <1>3, <1>4 DEF Active, ActiveState
<1>6. task.done = 1..f
  <2>1. \A g : g \in 1..f <=> (g \in 1..(f - 1) \/ g = f) BY <1>2
  <2> QED BY <1>3, <1>4, <2>1
<1> HIDE DEF task
<1>7. UNCHANGED <<stored, requests, restarts, delivered, removed>> BY DEF FileStored
<1>8. Persist("receiver", task) \/ PersistFails("receiver", task) BY DEF FileStored, task
<1>9. /\ TasksOK' /\ tasks'["receiver"] = task
      /\ \/ records'["receiver"] = task /\ Persist("receiver", task)
         \/ records'["receiver"] = records["receiver"] /\ PersistFails("receiver", task)
      /\ tasks'["sender"] = tasks["sender"] /\ records'["sender"] = records["sender"]
  BY <1>0, <1>4, <1>8, SavedType, Sides DEF TasksOK
<1>10. \/ /\ work' = [work EXCEPT !["receiver"].pc = "file", !["receiver"].next = @ + 1]
          /\ Persist("receiver", task) /\ Reply(TRUE) /\ UNCHANGED disturbed
       \/ /\ work' = Returned("receiver", "failed") /\ results' = results /\ disturbed' = TRUE
  BY DEF FileStored, RecordFailed, task
<1>11. /\ work' \in [Device -> Work] /\ work'["sender"] = work["sender"]
       /\ \/ /\ work'["receiver"].pc = "file" /\ work'["receiver"].next = f + 1
             /\ records'["receiver"] = task /\ Reply(TRUE)
          \/ /\ work'["receiver"].pc = "return" /\ work'["receiver"].outcome # "complete"
             /\ results' = results
  <2>1. CASE /\ work' = [work EXCEPT !["receiver"].pc = "file", !["receiver"].next = @ + 1]
             /\ Persist("receiver", task) /\ Reply(TRUE)
    <3>1. records'["receiver"] = task BY <1>0, <1>4, <2>1, SavedType, Sides
    <3>2. MoreFiles("receiver") BY <1>1 DEF MoreFiles
    <3> QED BY <1>0, <2>1, <3>1, <3>2, TurnType, Sides DEF ReceiverPc
  <2>2. CASE work' = Returned("receiver", "failed") /\ results' = results
    <3>1. "failed" \in EndedState BY DEF EndedState
    <3>2. /\ work' \in [Device -> Work] /\ work'["sender"] = work["sender"]
          /\ work'["receiver"].pc = "return" /\ work'["receiver"].outcome \in {"failed", "cancelled"}
      BY <1>0, <2>2, <3>1, ReturnedType, Sides
    <3> QED BY <2>2, <3>2
  <2> QED BY <1>10, <2>1, <2>2
<1>12. TypeOK'
  <2>1. WorkOK' BY <1>0, <1>11 DEF TypeOK, WorkOK, ReceiverPc
  <2>2. results' \in Seq(BOOLEAN) BY <1>0, <1>11, ReplyType DEF TypeOK
  <2>3. WireOK' BY <1>0, <1>7, <2>2 DEF TypeOK, WireOK
  <2>4. RestOK' BY <1>0, <1>7, <1>10 DEF TypeOK, RestOK
  <2> QED BY <1>9, <2>1, <2>3, <2>4, TypePartsPrime
<1>13. ReceiverOnly BY <1>9, <1>11 DEF ReceiverOnly
<1>14. Kept \subseteq Kept' /\ (records'["receiver"] = task => f \in Kept')
  <2>1. records'["receiver"] # NoTask /\ records["receiver"].done \subseteq records'["receiver"].done
    BY <1>3, <1>4, <1>9
  <2> QED BY <1>1, <1>2, <1>4, <1>7, <2>1 DEF Kept
<1>15. StillPromised BY <1>7, <1>14 DEF StillPromised
<1>16. its' = task BY <1>9 DEF its
<1>17. Counted'
  <2>1. CASE work'["receiver"].pc = "return" /\ work'["receiver"].outcome # "complete" /\ results' = results
    <3>1. ~GoodStanding' BY <2>1 DEF GoodStanding, rcv
    <3> QED BY <1>0, <1>13, <1>15, <2>1, <3>1, ReceiverOnlyKeeps, CountedQuiet DEF IInv
  <2>2. CASE /\ work'["receiver"].pc = "file" /\ work'["receiver"].next = f + 1
             /\ records'["receiver"] = task /\ Reply(TRUE)
    <3>1. GoodStanding /\ Written = f + 1 BY <1>1 DEF GoodStanding, Written
    <3>2. Written' = f + 2 BY <1>2, <2>2 DEF Written, rcv
    <3>3. Written' = Written + 1 BY <1>2, <3>1, <3>2
    <3>4. ASSUME NEW n \in Nat, n = Written + 1 PROVE Promised(n)'
      <4>1. n = f + 2 /\ n # NFiles + 3 BY <1>1, <1>2, <3>1, <3>4, SessionAssumption
      <4>2. \A g \in File : n = g + 2 => g = f BY <1>2, <4>1, SessionAssumption DEF File
      <4> QED BY <1>14, <2>2, <4>1, <4>2 DEF Promised
    <3>5. \A n \in Nat : n = Written + 1 => Promised(n)' BY <3>4
    <3> QED BY <1>0, <1>13, <1>15, <2>2, <3>1, <3>3, <3>5, ReceiverOnlyKeeps, CountedReply DEF IInv
  <2> QED BY <1>11, <2>1, <2>2
<1>18. records'["receiver"] # NoTask BY <1>3, <1>4, <1>9
<1>19. Active(its') BY <1>5, <1>16
<1>20. TaskExists'
  <2>1. rcv'.pc \in {"file", "return"} BY <1>11 DEF rcv
  <2>2. Active(its)' BY <1>19 DEF Active
  <2> QED BY <1>3, <1>4, <1>7, <1>16, <1>18, <2>1, <2>2 DEF TaskExists
<1>21. RecordFollows'
  <2>1. \A g \in task.done : stored'[g] = "whole"
    BY <1>0, <1>1, <1>3, <1>4, <1>7 DEF RecordFollows
  <2>2. records'["receiver"].done \subseteq task.done BY <1>3, <1>4, <1>9
  <2>3. Active(records'["receiver"]) BY <1>3, <1>5, <1>9
  <2>4. records'["receiver"].state # "complete" BY <2>3 DEF Active, ActiveState
  <2>5. rcv'.pc \in {"file", "stored"} => task = records'["receiver"] /\ task.done = 1..(rcv'.next - 1)
    <3>1. SUFFICES ASSUME rcv'.pc \in {"file", "stored"}
                   PROVE  task = records'["receiver"] /\ task.done = 1..(rcv'.next - 1)
      OBVIOUS
    <3>2. records'["receiver"] = task /\ rcv'.next = f + 1 BY <1>11, <3>1 DEF rcv
    <3>3. rcv'.next - 1 = f BY <1>2, <3>2
    <3> QED BY <1>6, <3>2, <3>3
  <2>6. rcv'.pc # "bind" BY <1>11 DEF rcv
  <2>7. Active(records["receiver"])' BY <2>3 DEF Active
  <2> QED BY <1>5, <1>16, <2>1, <2>2, <2>4, <2>5, <2>6, <2>7 DEF RecordFollows
<1>22. ReceiverProgressed' BY <1>11 DEF ReceiverProgressed, rcv
<1>23. DeliveredOK'
  <2>1. ~delivered BY <1>3 DEF IInv, DeliveredOK, Active, ActiveState
  <2> QED BY <1>5, <1>7, <1>16, <2>1 DEF DeliveredOK
<1> QED BY <1>12, <1>13, <1>15, <1>17, <1>20, <1>21, <1>22, <1>23, ReceiverOnlyKeeps DEF IInv

LEMMA AcknowledgeInv == ASSUME IInv, Acknowledge PROVE IInv'
<1>0. TypeOK BY DEF IInv
<1>1. /\ work' \in [Device -> Work] /\ work'["sender"] = work["sender"]
      /\ work'["receiver"].pc = "over" /\ work'["receiver"].next = work["receiver"].next
  BY <1>0, MovesType, Sides DEF Acknowledge, ReceiverPc
<1> DEFINE ok == its # NoTask /\ its.state = "complete"
<1>2. /\ work["receiver"].pc = "ack" /\ Reply(ok) /\ ok \in BOOLEAN /\ requests' = <<>>
      /\ UNCHANGED <<tasks, records, stored, faults, restarts, delivered, removed, disturbed>>
  BY DEF Acknowledge, SavedComplete, RecordComplete, counts, history, its
<1>3. TypeOK'
  <2>1. WorkOK' BY <1>0, <1>1 DEF TypeOK, WorkOK, ReceiverPc
  <2>2. WireOK' BY <1>0, <1>2, ReplyType, EmptySeq DEF TypeOK, WireOK
  <2>3. TasksOK' /\ RestOK' BY <1>0, <1>2 DEF TypeOK, TasksOK, RestOK
  <2> QED BY <2>1, <2>2, <2>3, TypePartsPrime
<1>4. ReceiverOnly BY <1>1, <1>2 DEF ReceiverOnly
<1>5. its' = its /\ Kept' = Kept /\ StillPromised BY <1>2 DEF its, Kept, StillPromised
<1>6. ~GoodStanding' BY <1>1 DEF GoodStanding, rcv
<1>7. ok => \A n \in Nat : Promised(n)'
  <2>1. SUFFICES ASSUME ok PROVE delivered /\ (removed \/ Kept = File)
    BY <1>2, <1>5, <2>1 DEF Promised
  <2> QED BY <2>1 DEF IInv, DeliveredOK
<1> HIDE DEF ok
<1>8. Counted' BY <1>0, <1>2, <1>4, <1>5, <1>6, <1>7, ReceiverOnlyKeeps, CountedReply DEF IInv
<1>9. TaskExists' BY <1>1, <1>2, <1>5 DEF IInv, TaskExists, rcv
<1>10. RecordFollows' BY <1>1, <1>2, <1>5 DEF IInv, RecordFollows, rcv, Active
<1>11. ReceiverProgressed' BY <1>1 DEF ReceiverProgressed, rcv
<1>12. DeliveredOK' BY <1>2, <1>5 DEF IInv, DeliveredOK
<1> QED BY <1>3, <1>4, <1>5, <1>8, <1>9, <1>10, <1>11, <1>12, ReceiverOnlyKeeps DEF IInv

LEMMA ReceiverFinishesInv == ASSUME IInv, ReceiverFinishes PROVE IInv'
<1>0. TypeOK /\ TaskExists /\ RecordFollows /\ ReceiverProgressed BY DEF IInv
<1> DEFINE o == work["receiver"].outcome
<1>1. /\ work' \in [Device -> Work] /\ work'["sender"] = work["sender"]
      /\ work'["receiver"].pc = "ack" /\ work'["receiver"].next = work["receiver"].next
      /\ work'["receiver"].outcome = work["receiver"].outcome
  BY <1>0, MovesType, Sides DEF ReceiverFinishes, ReceiverPc
<1>2. /\ rcv.pc = "return" /\ Finish("receiver", o) /\ o \in EndedState
      /\ results' = results /\ requests' = requests /\ UNCHANGED <<restarts, removed>>
  BY <1>0, Sides DEF ReceiverFinishes, wire, rcv, TypeOK, Work
<1>3. its # NoTask /\ Active(its) /\ Active(records["receiver"]) /\ records["receiver"] # NoTask
      /\ ~removed /\ its \in Task
  BY <1>0, <1>2, Sides DEF TaskExists, RecordFollows, Active, TypeOK, its
<1>4. ~delivered /\ records["receiver"].state # "complete"
  BY <1>3 DEF IInv, DeliveredOK, Active, ActiveState
<1>5. /\ TasksOK' /\ stored' \in [File -> {"none", "whole", "changed"}]
      /\ tasks'["sender"] = tasks["sender"] /\ records'["sender"] = records["sender"]
      /\ tasks'["receiver"] \in Task /\ tasks'["receiver"] # NoTask
      /\ tasks'["receiver"].done = its.done
      /\ \/ tasks'["receiver"].state = o /\ records'["receiver"] = tasks'["receiver"]
         \/ tasks'["receiver"].state = "failed" /\ records'["receiver"] = records["receiver"]
      /\ \A f \in File : f \in its.done => stored'[f] = stored[f]
  BY <1>0, <1>2, <1>3, FinishEffect, Sides DEF its
<1>6. delivered' <=> records'["receiver"] # NoTask /\ records'["receiver"].state = "complete"
  <2>1. delivered' = (delivered \/ RecordComplete(records'["receiver"])) BY DEF ReceiverFinishes
  <2> QED BY <1>4, <2>1 DEF RecordComplete
<1>7. delivered' \in BOOLEAN /\ disturbed' \in BOOLEAN BY <1>0 DEF ReceiverFinishes, TypeOK
<1>8. TypeOK'
  <2>1. WorkOK' BY <1>0, <1>1 DEF TypeOK, WorkOK, ReceiverPc
  <2>2. WireOK' BY <1>0, <1>2 DEF TypeOK, WireOK
  <2>3. RestOK' BY <1>0, <1>2, <1>5, <1>7 DEF TypeOK, RestOK
  <2> QED BY <1>5, <2>1, <2>2, <2>3, TypePartsPrime
<1>9. ReceiverOnly BY <1>1, <1>5 DEF ReceiverOnly
<1>10. its.done \subseteq File BY <1>3 DEF Task
<1>11. StillPromised /\ TaskExists' /\ RecordFollows' /\ ReceiverProgressed' /\ DeliveredOK'
  <2>1. CASE records'["receiver"].state # "complete" /\ tasks'["receiver"].state # "complete"
    <3>1. delivered' = delivered BY <1>0, <1>4, <1>6, <1>7, <2>1 DEF TypeOK
    <3>2. tasks'["receiver"].state \in EndedState BY <1>2, <1>5 DEF EndedState
    <3>3. ReceiverTaskEnds BY <1>2, <1>3, <1>4, <1>5, <1>10, <2>1, <3>1, <3>2 DEF ReceiverTaskEnds
    <3> QED BY <1>1, <3>3, ReceiverTaskEndsKeeps
  <2>2. CASE o = "complete" /\ records'["receiver"] = tasks'["receiver"] /\ tasks'["receiver"].state = "complete"
    <3>1. its = records["receiver"] /\ its.done = File
      BY <1>0, <1>2, <2>2 DEF ReceiverProgressed, rcv
    <3>2. \A f \in File : stored'[f] = "whole" BY <1>0, <1>3, <1>5, <3>1 DEF RecordFollows
    <3>3. Kept' = File BY <1>5, <2>2, <3>1, <3>2 DEF Kept
    <3>4. delivered' BY <1>5, <1>6, <2>2
    <3>5. StillPromised BY <1>2, <3>3, <3>4 DEF StillPromised
    <3>6. its' = tasks'["receiver"] /\ ~Active(its') BY <2>2 DEF its, Active, ActiveState
    <3>7. TaskExists' BY <1>1, <1>2, <1>3, <1>5, <2>2, <3>6 DEF TaskExists, rcv
    <3>8. Active(its)' = Active(its') BY DEF Active
    <3>9. RecordFollows' BY <1>1, <1>5, <2>2, <3>1, <3>2, <3>6, <3>8 DEF RecordFollows, rcv
    <3>10. ReceiverProgressed' BY <1>1 DEF ReceiverProgressed, rcv
    <3>11. DeliveredOK' BY <1>5, <2>2, <3>3, <3>4, <3>6 DEF DeliveredOK
    <3> QED BY <3>5, <3>7, <3>9, <3>10, <3>11
  <2> QED BY <1>4, <1>5, <2>1, <2>2
<1>12. Counted'
  <2>1. GoodStanding' => GoodStanding /\ Written' = Written
    BY <1>1, <1>2 DEF GoodStanding, Written, rcv
  <2> QED BY <1>0, <1>2, <1>9, <1>11, <2>1, ReceiverOnlyKeeps, CountedQuiet DEF IInv
<1> QED BY <1>8, <1>9, <1>11, <1>12, ReceiverOnlyKeeps DEF IInv

LEMMA RemoveInv == ASSUME IInv, NEW b \in BOOLEAN, Remove(b) PROVE IInv'
<1>0. TypeOK /\ TaskExists BY DEF IInv
<1>1. /\ its # NoTask /\ ~Active(its)
      /\ tasks' = [tasks EXCEPT !["receiver"] = NoTask]
      /\ records' = [records EXCEPT !["receiver"] = NoTask]
      /\ removed' = TRUE /\ disturbed' = TRUE /\ results' = results /\ requests' = requests
      /\ UNCHANGED <<work, faults, restarts, delivered>>
  BY DEF Remove, wire, counts, its
<1>2. stored' \in [File -> {"none", "whole", "changed"}]
  <2>1. CASE b
    <3>1. stored' = [f \in File |-> "none"] BY <2>1 DEF Remove
    <3> QED BY <3>1
  <2>2. CASE ~b
    <3>1. stored' = stored BY <2>2 DEF Remove
    <3> QED BY <1>0, <3>1 DEF TypeOK
  <2> QED BY <2>1, <2>2
<1>3. /\ TasksOK' /\ tasks'["receiver"] = NoTask /\ records'["receiver"] = NoTask
      /\ tasks'["sender"] = tasks["sender"] /\ records'["sender"] = records["sender"]
  BY <1>0, <1>1, Sides DEF TypeOK, TasksOK
<1>4. TypeOK'
  <2>1. WorkOK' /\ WireOK' /\ RestOK' BY <1>0, <1>1, <1>2 DEF TypeOK, WorkOK, WireOK, RestOK
  <2> QED BY <1>3, <2>1, TypePartsPrime
<1>5. ReceiverOnly BY <1>1, <1>3 DEF ReceiverOnly
<1>6. StillPromised BY <1>1 DEF StillPromised
<1>7. Counted'
  <2>1. (GoodStanding' <=> GoodStanding) /\ Written' = Written
    BY <1>1 DEF GoodStanding, Written, rcv
  <2> QED BY <1>0, <1>1, <1>5, <1>6, <2>1, ReceiverOnlyKeeps, CountedQuiet DEF IInv
<1>8. its' = NoTask BY <1>3 DEF its
<1>9. rcv.pc \in {"bind", "ack", "over"} BY <1>0, <1>1 DEF TaskExists, TypeOK, rcv, ReceiverPc
<1>10. TaskExists' BY <1>1, <1>3, <1>8, <1>9 DEF TaskExists, rcv
<1>11. RecordFollows' BY <1>8 DEF RecordFollows
<1>12. ReceiverProgressed' BY <1>1, <1>9 DEF IInv, ReceiverProgressed, rcv
<1>13. DeliveredOK' BY <1>1, <1>8 DEF DeliveredOK
<1> QED BY <1>4, <1>5, <1>6, <1>7, <1>10, <1>11, <1>12, <1>13, ReceiverOnlyKeeps DEF IInv

LEMMA RestartReceiverInv == ASSUME IInv, Restart("receiver") PROVE IInv'
<1>0. TypeOK /\ TaskExists /\ RecordFollows /\ DeliveredOK BY DEF IInv
<1>1. /\ TasksOK' /\ tasks'["receiver"] = Loaded("receiver")
      /\ records'["receiver"] = Loaded("receiver")
      /\ tasks'["sender"] = tasks["sender"] /\ records'["sender"] = records["sender"]
      /\ work' \in [Device -> Work] /\ work'["sender"] = work["sender"]
      /\ work'["receiver"].pc = "over" /\ work'["receiver"].next = work["receiver"].next
      /\ restarts' \in 0..MaxRestarts
  BY <1>0, RestartEffect, Sides
<1>2. /\ requests' = <<>> /\ results' = results /\ disturbed' = TRUE
      /\ UNCHANGED <<faults, delivered, removed>>
  BY DEF Restart
<1>3. stored' \in [File -> {"none", "whole", "changed"}]
      /\ (records["receiver"] = NoTask => stored' = stored)
      /\ (records["receiver"] # NoTask =>
            \A f \in File : f \in records["receiver"].done => stored'[f] = stored[f])
  <2>1. CASE Active(records["receiver"])
    <3>1. Clean(records["receiver"]) BY <2>1 DEF Restart
    <3> QED BY <1>0, <2>1, <3>1, CleanEffect DEF Active
  <2>2. CASE ~Active(records["receiver"])
    <3>1. stored' = stored BY <2>2 DEF Restart
    <3> QED BY <1>0, <3>1 DEF TypeOK
  <2> QED BY <2>1, <2>2
<1>4. TypeOK'
  <2>1. WorkOK' BY <1>0, <1>1 DEF TypeOK, WorkOK, ReceiverPc
  <2>2. WireOK' BY <1>0, <1>2, EmptySeq DEF TypeOK, WireOK
  <2>3. RestOK' BY <1>0, <1>1, <1>2, <1>3 DEF TypeOK, RestOK
  <2> QED BY <1>1, <2>1, <2>2, <2>3, TypePartsPrime
<1>5. ReceiverOnly BY <1>1 DEF ReceiverOnly
<1>6. /\ Kept' = Kept /\ TaskExists' /\ RecordFollows' /\ DeliveredOK'
  <2>1. its' = Loaded("receiver") /\ rcv'.pc = "over" BY <1>1 DEF its, rcv
  <2>2. CASE records["receiver"] = NoTask
    <3>1. Loaded("receiver") = NoTask BY <1>0, <2>2, LoadedTask, Sides
    <3>2. Kept' = Kept BY <1>1, <2>2, <3>1 DEF Kept
    <3>3. its = NoTask BY <1>0, <2>2 DEF TaskExists
    <3>4. TaskExists' BY <1>1, <2>1, <3>1 DEF TaskExists
    <3>5. RecordFollows' BY <2>1, <3>1 DEF RecordFollows
    <3>6. DeliveredOK' BY <1>0, <1>2, <2>1, <3>1, <3>3 DEF DeliveredOK
    <3> QED BY <3>2, <3>4, <3>5, <3>6
  <2>3. CASE records["receiver"] # NoTask
    <3>1. /\ Loaded("receiver") \in Task /\ Loaded("receiver") # NoTask
          /\ ~Active(Loaded("receiver"))
          /\ Loaded("receiver").done = records["receiver"].done
          /\ Loaded("receiver").state = "complete" <=> records["receiver"].state = "complete"
      <4>1. Active(records["receiver"]) => records["receiver"].state # "complete"
        BY DEF Active, ActiveState
      <4> QED BY <1>0, <2>3, <4>1, LoadedTask, Sides
    <3>2. its # NoTask /\ ~removed BY <1>0, <2>3 DEF TaskExists
    <3>3. records["receiver"] \in Task BY <1>0, <2>3, Sides DEF TypeOK
    <3>4. records["receiver"].done \subseteq File BY <3>3 DEF Task
    <3>5. \A f \in records["receiver"].done : stored[f] = "whole" /\ stored'[f] = "whole"
      BY <1>0, <1>3, <2>3, <3>2, <3>4 DEF RecordFollows
    <3>6. Kept' = Kept BY <1>1, <1>3, <2>3, <3>1 DEF Kept
    <3>7. TaskExists' BY <1>1, <1>2, <2>1, <3>1, <3>2 DEF TaskExists
    <3>8. Active(its)' = Active(its') BY DEF Active
    <3>9. RecordFollows' BY <1>1, <2>1, <3>1, <3>5, <3>8 DEF RecordFollows
    <3>10. its.state = "complete" <=> records["receiver"].state = "complete"
      BY <1>0, <3>2 DEF RecordFollows
    <3>11. DeliveredOK' BY <1>0, <1>2, <2>1, <3>1, <3>2, <3>6, <3>10 DEF DeliveredOK
    <3> QED BY <3>6, <3>7, <3>9, <3>11
  <2> QED BY <2>2, <2>3
<1>7. StillPromised BY <1>2, <1>6 DEF StillPromised
<1>8. ReceiverProgressed' BY <1>1 DEF ReceiverProgressed, rcv
<1>9. Counted'
  <2>1. ~GoodStanding' BY <1>1 DEF GoodStanding, rcv
  <2> QED BY <1>0, <1>2, <1>5, <1>7, <2>1, ReceiverOnlyKeeps, CountedQuiet DEF IInv
<1> QED BY <1>4, <1>5, <1>6, <1>7, <1>8, <1>9, ReceiverOnlyKeeps DEF IInv

-----------------------------------------------------------------------------
(* The inductive invariant                                                 *)

LEMMA Initially == Init => IInv
<1> SUFFICES ASSUME Init PROVE IInv OBVIOUS
<1> DEFINE t == [state |-> "connecting", done |-> {}]
<1>1. t \in Task /\ t # NoTask /\ t.done = {} /\ t.state = "connecting"
  <2>1. t \in Task BY DEF Task, ActiveState
  <2> QED BY <2>1, NoTaskAssumption
<1>2. Active(t) BY <1>1 DEF Active, ActiveState
<1> HIDE DEF t
<1>3. /\ tasks \in [Device -> Task \cup {NoTask}] /\ records = tasks
      /\ tasks["sender"] = t /\ tasks["receiver"] = NoTask
  BY <1>1 DEF Init, Device, t
<1>4. /\ work \in [Device -> Work] /\ work["sender"].pc = "dial" /\ work["receiver"].pc = "none"
      /\ work["sender"].next = 1 /\ work["receiver"].next = 1
  <2>1. \A d \in Device : work[d] = [pc |-> IF d = "sender" THEN "dial" ELSE "none", next |-> 1,
                                      cancelled |-> FALSE, outcome |-> "failed"]
    BY DEF Init
  <2>2. 1 \in 1..(NFiles + 1) BY SessionAssumption
  <2>3. \A p \in {"dial", "none"} :
          [pc |-> p, next |-> 1, cancelled |-> FALSE, outcome |-> "failed"] \in Work
    BY <2>2 DEF Work, SenderPc, ReceiverPc, EndedState
  <2>4. \A d \in Device : work[d] \in Work BY <2>1, <2>3
  <2>5. work = [d \in Device |-> work[d]] BY DEF Init
  <2>6. work \in [Device -> Work] BY <2>4, <2>5
  <2> QED BY <2>1, <2>6, Sides
<1>5. /\ stored \in [File -> {"none", "whole", "changed"}] /\ requests = <<>> /\ results = <<>>
      /\ faults = 0 /\ restarts = 0 /\ ~delivered /\ ~removed
      /\ delivered = FALSE /\ removed = FALSE /\ disturbed = FALSE
  BY DEF Init
<1>6. TypeOK
  <2>1. requests \in Seq(Request) /\ results \in Seq(BOOLEAN) BY <1>5, EmptySeq
  <2>2. faults \in 0..MaxFaults /\ restarts \in 0..MaxRestarts BY <1>5, SessionAssumption
  <2>3. work["sender"].pc \in SenderPc /\ work["receiver"].pc \in ReceiverPc
    BY <1>4 DEF SenderPc, ReceiverPc
  <2> QED BY <1>3, <1>4, <1>5, <2>1, <2>2, <2>3 DEF TypeOK
<1>7. Counted
  <2>1. Len(results) = 0 BY <1>5, EmptySeq
  <2> QED BY <1>4, <2>1 DEF Counted, Consumed, Written, snd, rcv
<1>8. SenderOK BY <1>1, <1>2, <1>3, <1>4 DEF SenderOK, mine, snd
<1>9. SenderProgressed BY <1>4 DEF SenderProgressed, snd
<1>10. TaskExists BY <1>3, <1>4, <1>5 DEF TaskExists, its, rcv
<1>11. RecordFollows BY <1>3 DEF RecordFollows, its
<1>12. ReceiverProgressed BY <1>4 DEF ReceiverProgressed, rcv
<1>13. DeliveredOK BY <1>3, <1>5 DEF DeliveredOK, its
<1> QED BY <1>6, <1>7, <1>8, <1>9, <1>10, <1>11, <1>12, <1>13 DEF IInv

LEMMA StutterInv == ASSUME IInv, UNCHANGED vars PROVE IInv'
<1>0. TypeOK BY DEF IInv
<1>1. /\ UNCHANGED <<tasks, records, work, stored, requests, results, faults, restarts>>
      /\ UNCHANGED <<delivered, removed, disturbed>>
  BY DEF vars, wire, counts, history
<1>2. TypeOK' BY <1>0, <1>1 DEF TypeOK
<1>3. SenderOnly /\ ReceiverOnly BY <1>1 DEF SenderOnly, ReceiverOnly
<1>4. Counted'
  BY <1>0, <1>1, <1>3, SenderOnlyKeeps, ReceiverOnlyKeeps, CountedQuiet DEF IInv
<1> QED BY <1>2, <1>3, <1>4, SenderOnlyKeeps, ReceiverOnlyKeeps DEF IInv

LEMMA Inductive == IInv /\ [Next]_vars => IInv'
<1> SUFFICES ASSUME IInv, [Next]_vars PROVE IInv' OBVIOUS
<1>1. CASE SenderStep
  BY <1>1, DialInv, SendOfferInv, AcceptedInv, FileConfirmedInv, AskVerifyInv, SendFileInv,
     SenderFinishesInv, SenderReturnsSteps
  DEF SenderStep
<1>2. CASE ReceiverStep
  <2>1. ASSUME NEW ok \in BOOLEAN, ReceiveHello(ok) PROVE IInv'
    <3>1. CASE ok = TRUE BY <2>1, <3>1, ReceiveHelloInv
    <3>2. CASE ok = FALSE BY <2>1, <3>2, ReceiverLeavesSteps
    <3> QED BY <3>1, <3>2
  <2> QED BY <1>2, <2>1, ReceiveOfferInv, BindInv, BindFailsInv, ReceiveFileInv, FileStoredInv,
             ReceiverFinishesInv, AcknowledgeInv, ReceiverLeavesSteps
          DEF ReceiverStep
<1>3. CASE Disturbance
  <2>1. ASSUME NEW d \in Device, Cancel(d) \/ Restart(d) PROVE IInv'
    BY <2>1, CancelSenderInv, CancelReceiverInv, RestartSenderInv, RestartReceiverInv DEF Device
  <2>2. CASE SenderFails \/ ReceiverFails BY <2>2, SenderReturnsSteps, ReceiverLeavesSteps
  <2> QED BY <1>3, <2>1, <2>2, RemoveInv DEF Disturbance
<1>4. CASE UNCHANGED vars BY <1>4, StutterInv
<1> QED BY <1>1, <1>2, <1>3, <1>4 DEF Next

LEMMA AlwaysIInv == Spec => []IInv
BY Initially, Inductive, PTL DEF Spec

\* Every variable of a transfer stays in its type: among them, no task is
\* changed that its device does not have.
THEOREM TypeCorrect == Spec => []TypeOK
<1>1. IInv => TypeOK BY DEF IInv
<1> QED BY <1>1, AlwaysIInv, PTL

\* What the sender calls complete the receiver holds, whatever is cancelled,
\* restarted or not written on the way (transfers.go:355).
THEOREM ConfirmedStaysKept == Spec => []ConfirmedFilesKept
<1>1. IInv => ConfirmedFilesKept
  <2> SUFFICES ASSUME IInv, ~removed
               PROVE  /\ mine.done \subseteq Kept
                      /\ mine.state = "complete" => SavedComplete /\ Kept = File
    BY DEF ConfirmedFilesKept, mine
  <2>1. mine.done \subseteq Kept BY DEF IInv, SenderOK
  <2>2. mine.state = "complete" => delivered BY DEF IInv, SenderOK
  <2>3. delivered => its # NoTask /\ its.state = "complete" /\ Kept = File
    BY DEF IInv, DeliveredOK
  <2> QED BY <2>1, <2>2, <2>3 DEF SavedComplete, RecordComplete, its
<1> QED BY <1>1, AlwaysIInv, PTL

-----------------------------------------------------------------------------
(* The session implements the promise                                      *)

Stutter == UNCHANGED <<Sent, mine.done, Received, Kept, delivered>>
Promise == Delivery!Next \/ Stutter

LEMMA PromiseIsNext == Promise => [Delivery!Next]_Delivery!vars
BY DEF Promise, Stutter, Delivery!vars, mine

\* What the two users see depends on the tasks, the directory and the history.
LEMMA SameForSender ==
  ASSUME tasks'["sender"] = tasks["sender"] PROVE Sent' = Sent /\ mine'.done = mine.done
BY DEF Sent, mine, Active
LEMMA SameForReceiver ==
  ASSUME records'["receiver"] = records["receiver"], UNCHANGED <<stored, removed>>
  PROVE  Received' = Received /\ Kept' = Kept
BY DEF Received, Kept, Active

LEMMA QuietStep ==
  ASSUME UNCHANGED <<tasks, records, stored, delivered, removed>> PROVE Promise
BY SameForSender, SameForReceiver DEF Promise, Stutter

LEMMA QuietSteps ==
  ASSUME IInv,
         \/ Dial \/ SendOffer \/ SendFile("whole") \/ SendFile("changed") \/ Confirmed
         \/ SenderRefused \/ SenderStuck \/ SenderFails
         \/ (\E d \in Device : CancelledReturns(d)) \/ Cancel("sender")
         \/ (\E ok \in BOOLEAN : ReceiveHello(ok)) \/ RefuseOffer \/ Bind \/ RefuseFile
         \/ AllReceived \/ Acknowledge \/ ReceiverStuck \/ ReceiverFails \/ UNCHANGED vars
  PROVE  Promise
<1>1. Cancel("sender") => UNCHANGED <<tasks, records, stored, delivered, removed>>
  <2>1. work["sender"].pc # "bind" BY DEF IInv, TypeOK, SenderPc
  <2> QED BY <2>1 DEF Cancel
<1>2. UNCHANGED <<tasks, records, stored, delivered, removed>>
  BY <1>1 DEF Dial, SendOffer, SendFile, Confirmed, SenderRefused, SenderStuck, SenderFails,
     CancelledReturns, ReceiveHello, RefuseOffer, Bind, RefuseFile, AllReceived, Acknowledge,
     ReceiverStuck, ReceiverFails, vars, history
<1> QED BY <1>2, QuietStep

LEMMA SenderSavesStep ==
  ASSUME IInv, NEW task \in Task, NEW next, SenderSaves(task, next),
         Active(mine), task.state \in ActiveState,
         UNCHANGED <<stored, delivered, removed>>
  PROVE  /\ Sent = "open" /\ Sent' = "open" /\ mine'.done = task.done
         /\ UNCHANGED <<Received, Kept, delivered>>
<1>0. TypeOK BY DEF IInv
<1>1. Persist("sender", task) \/ PersistFails("sender", task) BY DEF SenderSaves
<1>2. tasks'["sender"] = task /\ records'["receiver"] = records["receiver"]
  BY <1>0, <1>1, SavedType, Sides
<1>3. mine' = task /\ Active(task) BY <1>2, NoTaskAssumption DEF mine, Active
<1>4. Sent = "open" BY DEF Sent, mine
<1>5. Sent' = "open" BY <1>2, <1>3 DEF Sent, Active
<1> QED BY <1>2, <1>3, <1>4, <1>5, SameForReceiver

LEMMA SenderSavesSteps == ASSUME IInv, Accepted \/ AskVerify \/ FileConfirmed PROVE Promise
<1>0. TypeOK /\ SenderOK BY DEF IInv
<1>1. Active(mine) /\ (mine.done \subseteq Kept \/ removed)
  BY <1>0 DEF Accepted, AskVerify, FileConfirmed, SenderOK, snd
<1>2. ASSUME Accepted \/ AskVerify PROVE Promise
  <2>0. PICK s \in {"sending", "verifying"} :
          (\E next : SenderSaves(Updated("sender", s), next)) /\ UNCHANGED <<stored, delivered, removed>>
    BY <1>2 DEF Accepted, AskVerify
  <2>1. PICK next : SenderSaves(Updated("sender", s), next) BY <2>0
  <2>2. /\ Updated("sender", s) \in Task /\ Updated("sender", s).state \in ActiveState
        /\ Updated("sender", s).done = mine.done
    BY SenderTask DEF ActiveState
  <2> QED BY <1>1, <2>0, <2>1, <2>2, SenderSavesStep DEF Promise, Stutter
<1>3. ASSUME FileConfirmed PROVE Promise
  <2> DEFINE f == work["sender"].next
  <2>1. work["sender"].pc = "result" /\ MoreFiles("sender") /\ SenderOpen
    BY <1>3 DEF FileConfirmed, IInv, SenderProgressed, snd, SenderOpen
  <2>2. f \in File /\ f \in Nat BY <1>0, <2>1, CountTypes DEF MoreFiles, File, snd
  <2>3. f \in Kept \/ removed
    <3>1. Promised(Consumed + 1) BY <1>0, <1>3, <2>1, PositiveResult DEF FileConfirmed, IInv
    <3>2. Consumed = f + 1 BY <2>1 DEF Consumed, snd
    <3>3. Consumed + 1 = f + 2 BY <2>2, <3>2
    <3> QED BY <2>2, <3>1, <3>3 DEF Promised
  <2>4. /\ FileDone("sender", f) \in Task /\ FileDone("sender", f).state \in ActiveState
        /\ FileDone("sender", f).done = mine.done \cup {f}
    BY <1>0, <1>1, <2>2, SenderTask, FileDoneTask, Sides DEF mine, Active
  <2>5. PICK next : SenderSaves(FileDone("sender", f), next) /\ UNCHANGED <<stored, delivered, removed>>
    BY <1>3 DEF FileConfirmed
  <2>6. /\ Sent = "open" /\ Sent' = "open" /\ mine'.done = mine.done \cup {f}
        /\ UNCHANGED <<Received, Kept, delivered>>
    BY <1>1, <2>4, <2>5, SenderSavesStep
  <2>7. f \in Kept \/ Received = "removed" BY <2>3 DEF Received
  <2>8. Delivery!ConfirmFile(f) BY <2>6, <2>7 DEF Delivery!ConfirmFile, mine
  <2> QED BY <2>2, <2>8 DEF Promise, Delivery!Next
<1> QED BY <1>2, <1>3

LEMMA SenderFinishesStep == ASSUME IInv, SenderFinishes PROVE Promise
<1>0. TypeOK /\ SenderOK BY DEF IInv
<1>1. /\ work["sender"].pc = "return" /\ work["sender"].outcome \in EndedState
      /\ Finish("sender", work["sender"].outcome) /\ UNCHANGED <<delivered, removed>>
  BY <1>0, Sides DEF SenderFinishes, TypeOK, Work
<1>2. /\ stored' = stored /\ records'["receiver"] = records["receiver"]
      /\ tasks'["sender"] # NoTask /\ tasks'["sender"].done = tasks["sender"].done
      /\ tasks'["sender"].state \in {work["sender"].outcome, "failed"}
  BY <1>0, <1>1, FinishEffect, SenderTask, Sides
<1>3. Sent = "open" BY <1>0, <1>1 DEF SenderOK, snd, Sent, mine
<1>4. UNCHANGED <<Received, Kept, delivered>> BY <1>1, <1>2, SameForReceiver
<1>5. mine'.done = mine.done BY <1>2 DEF mine
<1>6. ~Active(tasks["sender"])'
  <2>1. tasks'["sender"].state \notin ActiveState BY <1>1, <1>2 DEF ActiveState, EndedState
  <2> QED BY <2>1 DEF Active
<1>7. CASE tasks'["sender"].state = "complete"
  <2>1. delivered BY <1>0, <1>1, <1>2, <1>7 DEF SenderOK, snd
  <2>2. Sent' = "complete" BY <1>6, <1>7 DEF Sent
  <2>3. Delivery!Confirm BY <1>3, <1>4, <1>5, <2>1, <2>2 DEF Delivery!Confirm, mine
  <2> QED BY <2>3 DEF Promise, Delivery!Next
<1>8. CASE tasks'["sender"].state # "complete"
  <2>1. Sent' = "unfinished" BY <1>6, <1>8 DEF Sent
  <2>2. Delivery!GiveUp BY <1>3, <1>4, <1>5, <2>1 DEF Delivery!GiveUp, mine
  <2> QED BY <2>2 DEF Promise, Delivery!Next
<1> QED BY <1>7, <1>8

LEMMA RestartSenderStep == ASSUME IInv, Restart("sender") PROVE Promise
<1>0. TypeOK /\ SenderOK BY DEF IInv
<1>1. /\ tasks'["sender"] = Loaded("sender") /\ records'["receiver"] = records["receiver"]
      /\ UNCHANGED <<stored, delivered, removed>>
  BY <1>0, RestartEffect, Sides DEF Restart
<1>2. UNCHANGED <<Received, Kept, delivered>> BY <1>1, SameForReceiver
<1>3. records["sender"] \in Task /\ records["sender"] # NoTask
  BY <1>0, NoTaskAssumption DEF SenderOK
<1>4. /\ ~Active(Loaded("sender")) /\ Loaded("sender").done \subseteq mine.done
      /\ Loaded("sender").state = "complete" <=> records["sender"].state = "complete"
  <2>1. Active(records["sender"]) => records["sender"].state # "complete"
    BY DEF Active, ActiveState
  <2> QED BY <1>0, <1>3, <2>1, LoadedTask, Sides DEF SenderOK
<1>5. ~Active(tasks["sender"])' BY <1>1, <1>4 DEF Active
<1>6. mine'.done \subseteq mine.done BY <1>1, <1>4 DEF mine
<1>7. Sent' = IF Loaded("sender").state = "complete" THEN "complete" ELSE "unfinished"
  BY <1>1, <1>5 DEF Sent
<1>8. CASE Active(mine)
  <2>1. Sent = "open" BY <1>8 DEF Sent, mine
  <2>2. mine.state # "complete" BY <1>8 DEF Active, ActiveState
  <2>3. Sent' = "unfinished" BY <1>0, <1>4, <1>7, <2>2 DEF SenderOK
  <2>4. Delivery!GiveUp BY <1>2, <1>6, <2>1, <2>3 DEF Delivery!GiveUp, mine
  <2> QED BY <2>4 DEF Promise, Delivery!Next
<1>9. CASE ~Active(mine)
  <2>1. Sent = IF mine.state = "complete" THEN "complete" ELSE "unfinished"
    BY <1>9 DEF Sent, mine
  <2>2. Sent' = Sent /\ Sent # "open" BY <1>0, <1>4, <1>7, <2>1 DEF SenderOK
  <2>3. Delivery!Forget BY <1>2, <1>6, <2>2 DEF Delivery!Forget, mine
  <2> QED BY <2>3 DEF Promise, Delivery!Next
<1> QED BY <1>8, <1>9

LEMMA ReceiveOfferStep == ASSUME IInv, ReceiveOffer PROVE Promise
<1>0. TypeOK /\ TaskExists BY DEF IInv
<1> DEFINE task == [state |-> "receiving", done |-> {}]
<1>1. task \in Task /\ task.done = {} /\ task.state = "receiving" /\ task # NoTask
  <2>1. task \in Task BY DEF Task, ActiveState
  <2> QED BY <2>1, NoTaskAssumption
<1>2. Persist("receiver", task) /\ UNCHANGED <<stored, delivered, removed>>
  BY DEF ReceiveOffer, history
<1> HIDE DEF task
<1>3. records'["receiver"] = task /\ tasks'["sender"] = tasks["sender"]
  BY <1>0, <1>1, <1>2, SavedType, Sides
<1>4. records["receiver"] = NoTask /\ ~removed BY <1>0 DEF ReceiveOffer, TaskExists, rcv
<1>5. Received = "none" /\ Kept = {} BY <1>4 DEF Received, Kept
<1>6. Received' = "open" BY <1>1, <1>2, <1>3, <1>4 DEF Received, Active, ActiveState
<1>7. Kept' = {} BY <1>1, <1>3 DEF Kept
<1>8. Delivery!Accept
  BY <1>2, <1>3, <1>5, <1>6, <1>7, SameForSender DEF Delivery!Accept, mine
<1> QED BY <1>8 DEF Promise, Delivery!Next

\* A received file is on disk before it is in the record.
LEMMA ReceiveFileStep == ASSUME IInv, ReceiveFile PROVE Promise
<1>0. TypeOK /\ TaskExists /\ RecordFollows BY DEF IInv
<1> DEFINE f == work["receiver"].next
<1>1. /\ rcv.pc = "file" /\ rcv.next = f /\ stored' = [stored EXCEPT ![f] = "whole"]
      /\ UNCHANGED <<tasks, records, delivered, removed>>
  BY DEF ReceiveFile, Accepts, history, rcv
<1>2. its # NoTask /\ records["receiver"].done = 1..(f - 1)
  BY <1>0, <1>1 DEF TaskExists, RecordFollows, Active
<1>3. f \in Nat BY <1>0, <1>1, CountTypes
<1>4. f \notin records["receiver"].done BY <1>2, <1>3
<1>5. \A g \in File : g # f => stored'[g] = stored[g] BY <1>0, <1>1 DEF TypeOK
<1>6. Kept' = Kept BY <1>1, <1>4, <1>5 DEF Kept
<1>7. Received' = Received BY <1>1 DEF Received, Active
<1> QED BY <1>1, <1>6, <1>7, SameForSender DEF Promise, Stutter

LEMMA FileStoredStep == ASSUME IInv, FileStored PROVE Promise
<1>0. TypeOK /\ TaskExists /\ RecordFollows /\ ReceiverProgressed BY DEF IInv
<1> DEFINE f == work["receiver"].next
<1> DEFINE task == FileDone("receiver", f)
<1>1. rcv.pc = "stored" /\ rcv.next = f /\ f <= NFiles /\ stored[f] = "whole"
  BY <1>0 DEF FileStored, ReceiverProgressed, MoreFiles, rcv
<1>2. f \in File BY <1>0, <1>1, CountTypes DEF File
<1>3. its # NoTask /\ its = records["receiver"] /\ Active(its) /\ ~removed
  BY <1>0, <1>1 DEF TaskExists, RecordFollows, Active
<1>4. task \in Task /\ task # NoTask /\ task.state = its.state /\ task.done = its.done \cup {f}
  BY <1>0, <1>2, <1>3, FileDoneTask, Sides DEF its
<1> HIDE DEF task
<1>5. (Persist("receiver", task) \/ PersistFails("receiver", task))
      /\ UNCHANGED <<stored, delivered, removed>>
  BY DEF FileStored, task
<1>6. tasks'["sender"] = tasks["sender"]
      /\ (records'["receiver"] = task \/ records'["receiver"] = records["receiver"])
  BY <1>0, <1>4, <1>5, SavedType, Sides
<1>7. CASE records'["receiver"] = records["receiver"]
  BY <1>5, <1>6, <1>7, SameForSender, SameForReceiver DEF Promise, Stutter
<1>8. CASE records'["receiver"] = task
  <2>1. Received = "open" BY <1>3 DEF Received
  <2>2. Received' = "open" BY <1>3, <1>4, <1>5, <1>8 DEF Received, Active
  <2>3. Kept' = Kept \cup {f} BY <1>1, <1>2, <1>3, <1>4, <1>5, <1>8 DEF Kept
  <2>4. Delivery!Keep(f) BY <1>5, <1>6, <2>1, <2>2, <2>3, SameForSender DEF Delivery!Keep, mine
  <2> QED BY <1>2, <2>4 DEF Promise, Delivery!Next
<1> QED BY <1>6, <1>7, <1>8

LEMMA ReceiverTaskEndsStep ==
  ASSUME IInv, ReceiverTaskEnds, tasks'["sender"] = tasks["sender"],
         Active(records["receiver"]) \/ its.done = {}
  PROVE  Promise
<1>0. TypeOK /\ TaskExists /\ RecordFollows BY DEF IInv
<1>1. its # NoTask /\ records["receiver"] # NoTask /\ ~removed /\ removed' = removed
      /\ delivered' = delivered
  BY <1>0 DEF ReceiverTaskEnds, TaskExists
<1>2. records["receiver"].done \subseteq its.done BY <1>0, <1>1 DEF RecordFollows
<1>3. \A f \in its.done : stored'[f] = stored[f] BY DEF ReceiverTaskEnds
<1>4. CASE records'["receiver"] = records["receiver"]
  <2>1. Kept' = Kept BY <1>2, <1>3, <1>4 DEF Kept
  <2>2. Received' = Received BY <1>1, <1>4 DEF Received, Active
  <2> QED BY <1>1, <2>1, <2>2, SameForSender DEF Promise, Stutter, ReceiverTaskEnds
<1>5. CASE records'["receiver"] = tasks'["receiver"]
  <2>1. /\ records'["receiver"] # NoTask /\ records'["receiver"].done = its.done
        /\ records'["receiver"].state \in EndedState \ {"complete"}
    BY <1>5 DEF ReceiverTaskEnds
  <2>2. ~Active(records["receiver"])' BY <2>1 DEF Active, ActiveState, EndedState
  <2>3. Received' = "unfinished" BY <1>1, <2>1, <2>2 DEF Received
  <2>4. Kept \subseteq Kept' /\ Kept' \subseteq File BY <1>1, <1>2, <1>3, <2>1 DEF Kept
  <2>5. CASE Active(records["receiver"])
    <3>1. Received = "open" BY <1>1, <2>5 DEF Received
    <3>2. Delivery!Drop BY <1>1, <2>3, <2>4, <3>1, SameForSender DEF Delivery!Drop, mine
    <3> QED BY <3>2 DEF Promise, Delivery!Next
  <2>6. CASE ~Active(records["receiver"]) /\ its.done = {}
    <3>1. Kept' = Kept BY <1>2, <2>1, <2>6 DEF Kept
    <3>2. records["receiver"].state # "complete"
      BY <1>0, <1>1 DEF ReceiverTaskEnds, IInv, DeliveredOK, RecordFollows
    <3>3. Received = "unfinished" BY <1>1, <2>6, <3>2 DEF Received
    <3> QED BY <1>1, <2>3, <3>1, <3>3, SameForSender DEF Promise, Stutter
  <2> QED BY <2>5, <2>6
<1> QED BY <1>4, <1>5 DEF ReceiverTaskEnds

LEMMA BindFailsStep == ASSUME IInv, BindFails PROVE Promise
<1>0. TypeOK BY DEF IInv
<1>1. /\ rcv.pc = "bind" /\ Finish("receiver", "failed") /\ UNCHANGED <<delivered, removed>>
  BY DEF BindFails, history, rcv
<1>2. "failed" \in EndedState BY DEF EndedState
<1>3. CASE its = NoTask
  <2>1. tasks' = tasks /\ records' = records /\ stored' = stored
    BY <1>0, <1>1, <1>2, <1>3, FinishEffect, Sides DEF its
  <2> QED BY <1>1, <2>1, QuietStep
<1>4. CASE its # NoTask
  <2>1. its.state # "complete" /\ ~delivered BY <1>1, <1>4, NothingDelivered
  <2>2. records["receiver"].state # "complete" /\ its.done = {}
    BY <1>1, <1>4, <2>1 DEF IInv, RecordFollows
  <2>3. /\ tasks'["receiver"] \in Task /\ tasks'["receiver"] # NoTask
        /\ tasks'["receiver"].done = its.done
        /\ tasks'["receiver"].state = "failed"
        /\ records'["receiver"] = tasks'["receiver"] \/ records'["receiver"] = records["receiver"]
        /\ tasks'["sender"] = tasks["sender"]
    BY <1>0, <1>1, <1>2, <1>4, FinishEffect, Sides DEF its
  <2>4. ReceiverTaskEnds BY <1>1, <1>4, <2>1, <2>2, <2>3 DEF ReceiverTaskEnds, EndedState
  <2> QED BY <2>2, <2>3, <2>4, ReceiverTaskEndsStep
<1> QED BY <1>3, <1>4

LEMMA CancelReceiverStep == ASSUME IInv, Cancel("receiver") PROVE Promise
<1>0. TypeOK BY DEF IInv
<1>1. its # NoTask /\ UNCHANGED <<delivered, removed>> BY DEF Cancel, Active, its
<1>2. CASE work["receiver"].pc # "bind"
  <2>1. UNCHANGED <<tasks, records, stored>> BY <1>2 DEF Cancel
  <2> QED BY <1>1, <2>1, QuietStep
<1>3. CASE work["receiver"].pc = "bind"
  <2> DEFINE task == Updated("receiver", "cancelled")
  <2>1. task \in Task /\ task # NoTask /\ task.state = "cancelled" /\ task.done = its.done
    BY <1>0, <1>1, UpdatedTask, Sides DEF its, EndedState
  <2>2. Persist("receiver", task) \/ PersistFails("receiver", task) BY <1>3 DEF Cancel
  <2> HIDE DEF task
  <2>3. /\ tasks'["receiver"] = task /\ tasks'["sender"] = tasks["sender"]
        /\ records'["receiver"] = task \/ records'["receiver"] = records["receiver"]
    BY <1>0, <2>1, <2>2, SavedType, Sides
  <2>4. its.state # "complete" /\ ~delivered BY <1>1, <1>3, NothingDelivered DEF rcv
  <2>5. records["receiver"].state # "complete" /\ its.done = {}
    BY <1>1, <1>3, <2>4 DEF IInv, RecordFollows, rcv
  <2>6. ReceiverTaskEnds BY <1>1, <2>1, <2>3, <2>4, <2>5 DEF ReceiverTaskEnds, EndedState
  <2> QED BY <2>3, <2>5, <2>6, ReceiverTaskEndsStep
<1> QED BY <1>2, <1>3

LEMMA ReceiverFinishesStep == ASSUME IInv, ReceiverFinishes PROVE Promise
<1>0. TypeOK /\ TaskExists /\ RecordFollows /\ ReceiverProgressed BY DEF IInv
<1> DEFINE o == work["receiver"].outcome
<1>1. rcv.pc = "return" /\ Finish("receiver", o) /\ o \in EndedState /\ removed' = removed
  BY <1>0, Sides DEF ReceiverFinishes, rcv, TypeOK, Work
<1>2. /\ its # NoTask /\ Active(records["receiver"]) /\ records["receiver"] # NoTask
      /\ ~removed /\ its \in Task /\ Active(its)
  BY <1>0, <1>1, Sides DEF TaskExists, RecordFollows, Active, TypeOK, its
<1>3. ~delivered /\ records["receiver"].state # "complete"
  BY <1>2 DEF IInv, DeliveredOK, Active, ActiveState
<1>4. /\ tasks'["sender"] = tasks["sender"]
      /\ tasks'["receiver"] \in Task /\ tasks'["receiver"] # NoTask
      /\ tasks'["receiver"].done = its.done
      /\ \/ tasks'["receiver"].state = o /\ records'["receiver"] = tasks'["receiver"]
         \/ tasks'["receiver"].state = "failed" /\ records'["receiver"] = records["receiver"]
      /\ \A f \in File : f \in its.done => stored'[f] = stored[f]
  BY <1>0, <1>1, <1>2, FinishEffect, Sides DEF its
<1>5. delivered' = (delivered \/ RecordComplete(records'["receiver"])) BY DEF ReceiverFinishes
<1>6. its.done \subseteq File BY <1>2 DEF Task
<1>7. CASE records'["receiver"].state # "complete" /\ tasks'["receiver"].state # "complete"
  <2>1. delivered' = delivered BY <1>0, <1>3, <1>5, <1>7 DEF TypeOK, RecordComplete
  <2>2. tasks'["receiver"].state \in EndedState BY <1>1, <1>4 DEF EndedState
  <2>3. ReceiverTaskEnds BY <1>1, <1>2, <1>3, <1>4, <1>6, <1>7, <2>1, <2>2 DEF ReceiverTaskEnds
  <2> QED BY <1>2, <1>4, <2>3, ReceiverTaskEndsStep
<1>8. CASE o = "complete" /\ records'["receiver"] = tasks'["receiver"]
           /\ tasks'["receiver"].state = "complete"
  <2>1. its = records["receiver"] /\ its.done = File
    BY <1>0, <1>1, <1>8 DEF ReceiverProgressed, rcv
  <2>2. \A f \in File : stored[f] = "whole" /\ stored'[f] = "whole"
    BY <1>0, <1>2, <1>4, <2>1 DEF RecordFollows
  <2>3. Kept = File /\ Kept' = File BY <1>2, <1>4, <1>8, <2>1, <2>2 DEF Kept
  <2>4. delivered' = TRUE BY <1>4, <1>5, <1>8 DEF RecordComplete
  <2>5. Received = "open" BY <1>2 DEF Received
  <2>6. Received' = "complete" BY <1>1, <1>2, <1>4, <1>8 DEF Received, Active, ActiveState
  <2>7. Delivery!Deliver
    BY <1>4, <2>3, <2>4, <2>5, <2>6, SameForSender DEF Delivery!Deliver, mine
  <2> QED BY <2>7 DEF Promise, Delivery!Next
<1> QED BY <1>3, <1>4, <1>7, <1>8

LEMMA RemoveStep == ASSUME IInv, NEW b \in BOOLEAN, Remove(b) PROVE Promise
<1>0. TypeOK /\ TaskExists BY DEF IInv
<1>1. /\ records["receiver"] # NoTask /\ ~removed /\ removed' = TRUE /\ delivered' = delivered
      /\ records'["receiver"] = NoTask /\ tasks'["sender"] = tasks["sender"]
  BY <1>0, Sides DEF Remove, TaskExists, its, TypeOK
<1>2. Received # "none" /\ Received' = "removed" BY <1>1 DEF Received
<1>3. Kept' = {} BY <1>1 DEF Kept
<1>4. Delivery!Remove BY <1>1, <1>2, <1>3, SameForSender DEF Delivery!Remove, mine
<1> QED BY <1>4 DEF Promise, Delivery!Next

LEMMA RestartReceiverStep == ASSUME IInv, Restart("receiver") PROVE Promise
<1>0. TypeOK /\ TaskExists BY DEF IInv
<1>1. /\ records'["receiver"] = Loaded("receiver") /\ tasks'["sender"] = tasks["sender"]
      /\ UNCHANGED <<delivered, removed>>
  BY <1>0, RestartEffect, Sides DEF Restart
<1>2. CASE ~Active(records["receiver"])
  <2>1. stored' = stored /\ Loaded("receiver") = records["receiver"]
    BY <1>2 DEF Restart, Loaded
  <2> QED BY <1>1, <2>1, SameForSender, SameForReceiver DEF Promise, Stutter
<1>3. CASE Active(records["receiver"])
  <2>1. records["receiver"] # NoTask /\ records["receiver"] \in Task /\ ~removed
    BY <1>0, <1>3, Sides DEF Active, TypeOK, TaskExists
  <2>2. Clean(records["receiver"]) BY <1>3 DEF Restart
  <2>3. \A f \in File : f \in records["receiver"].done => stored'[f] = stored[f]
    BY <1>0, <2>2, CleanEffect
  <2>4. /\ Loaded("receiver") # NoTask /\ ~Active(Loaded("receiver"))
        /\ Loaded("receiver").done = records["receiver"].done
        /\ Loaded("receiver").state = "interrupted"
    BY <1>0, <1>3, <2>1, LoadedTask, Sides
  <2>5. Kept' = Kept BY <1>1, <2>1, <2>3, <2>4 DEF Kept
  <2>6. Received = "open" BY <1>3, <2>1 DEF Received
  <2>7. ~Active(records["receiver"])' BY <1>1, <2>4 DEF Active
  <2>8. Received' = "unfinished" BY <1>1, <2>1, <2>4, <2>7 DEF Received
  <2>9. Kept \subseteq Kept' /\ Kept' \subseteq File BY <2>5 DEF Kept
  <2>10. Delivery!Drop BY <1>1, <2>6, <2>8, <2>9, SameForSender DEF Delivery!Drop, mine
  <2> QED BY <2>10 DEF Promise, Delivery!Next
<1> QED BY <1>2, <1>3

LEMMA EveryStepKeepsThePromise == IInv /\ [Next]_vars => Promise
<1> SUFFICES ASSUME IInv, [Next]_vars PROVE Promise OBVIOUS
<1>1. CASE SenderStep
  BY <1>1, QuietSteps, SenderSavesSteps, SenderFinishesStep, Sides DEF SenderStep
<1>2. CASE ReceiverStep
  BY <1>2, QuietSteps, ReceiveOfferStep, BindFailsStep, ReceiveFileStep, FileStoredStep,
     ReceiverFinishesStep, Sides
  DEF ReceiverStep
<1>3. CASE Disturbance
  <2>1. ASSUME NEW d \in Device, Cancel(d) \/ Restart(d) PROVE Promise
    BY <2>1, QuietSteps, CancelReceiverStep, RestartSenderStep, RestartReceiverStep DEF Device
  <2>2. CASE SenderFails \/ ReceiverFails BY <2>2, QuietSteps
  <2> QED BY <1>3, <2>1, <2>2, RemoveStep DEF Disturbance
<1>4. CASE UNCHANGED vars BY <1>4, QuietSteps
<1> QED BY <1>1, <1>2, <1>3, <1>4 DEF Next

LEMMA InitialPromise == Init => Delivery!Init
<1> SUFFICES ASSUME Init PROVE Delivery!Init OBVIOUS
<1>1. /\ tasks["sender"] = [state |-> "connecting", done |-> {}]
      /\ records["receiver"] = NoTask /\ removed = FALSE /\ delivered = FALSE
  BY DEF Init, Device
<1>2. tasks["sender"] # NoTask BY Initially, NoTaskAssumption DEF IInv, SenderOK, mine
<1>3. Sent = "open" BY <1>1, <1>2 DEF Sent, Active, ActiveState
<1>4. Received = "none" /\ Kept = {} BY <1>1 DEF Received, Kept
<1> QED BY <1>1, <1>3, <1>4 DEF Delivery!Init

\* Frame by frame, with every failure the code handles, the two devices do
\* what TransferDelivery promises: each step is one of its steps or none.
THEOREM Implements == Spec => ImplementsDelivery
<1>1. IInv /\ [Next]_vars => [Delivery!Next]_Delivery!vars
  BY EveryStepKeepsThePromise, PromiseIsNext
<1> QED BY <1>1, AlwaysIInv, InitialPromise, PTL DEF Spec, ImplementsDelivery, Delivery!Spec

-----------------------------------------------------------------------------
(* What follows of the two programs, because it follows of the promise     *)

LEMMA PromisedSteps == Spec => Delivery!Init /\ [][Delivery!Next]_Delivery!vars
BY Implements, PTL DEF ImplementsDelivery, Delivery!Spec

LEMMA DeliveredStep ==
  Delivery!Delivered /\ [Delivery!Next]_Delivery!vars => Delivery!Delivered'
BY DEF Delivery!Delivered, Delivery!Next, Delivery!vars, Delivery!Accept, Delivery!Deliver,
       Delivery!Drop, Delivery!Confirm, Delivery!GiveUp, Delivery!Forget, Delivery!Remove,
       Delivery!Keep, Delivery!ConfirmFile

LEMMA ConfirmedStep ==
  Delivery!ConfirmedIsKept /\ [Delivery!Next]_Delivery!vars => Delivery!ConfirmedIsKept'
BY DEF Delivery!ConfirmedIsKept, Delivery!Next, Delivery!vars, Delivery!Accept,
       Delivery!Deliver, Delivery!Drop, Delivery!Confirm, Delivery!GiveUp, Delivery!Forget,
       Delivery!Remove, Delivery!Keep, Delivery!ConfirmFile

LEMMA WholeStep ==
  Delivery!CompleteIsWhole /\ [Delivery!Next]_Delivery!vars => Delivery!CompleteIsWhole'
BY DEF Delivery!CompleteIsWhole, Delivery!Next, Delivery!vars, Delivery!Accept,
       Delivery!Deliver, Delivery!Drop, Delivery!Confirm, Delivery!GiveUp, Delivery!Forget,
       Delivery!Remove, Delivery!Keep, Delivery!ConfirmFile

\* The order of the two ends: the sending device calls a transfer complete
\* only after the receiving one has (transfers.go:299 and :355).
THEOREM CompleteAfterDelivery == Spec => []Delivery!Delivered
<1>1. Delivery!Init => Delivery!Delivered
  BY DEF Delivery!Init, Delivery!Delivered
<1> QED BY <1>1, PromisedSteps, DeliveredStep, PTL

\* A confirmed file is kept, whoever ends the transfer and however
\* (cleanIncompleteLocked, transfer_store.go:373, leaves it alone).
THEOREM ConfirmedUntilRemoved == Spec => []Delivery!ConfirmedIsKept
<1>1. Delivery!Init => Delivery!ConfirmedIsKept
  BY DEF Delivery!Init, Delivery!ConfirmedIsKept
<1> QED BY <1>1, PromisedSteps, ConfirmedStep, PTL

\* A transfer its receiver calls complete has all its files.
THEOREM CompleteStaysWhole == Spec => []Delivery!CompleteIsWhole
<1>1. Delivery!Init => Delivery!CompleteIsWhole
  BY DEF Delivery!Init, Delivery!CompleteIsWhole
<1> QED BY <1>1, PromisedSteps, WholeStep, PTL
=============================================================================
