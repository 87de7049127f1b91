-------------------------- MODULE Pairing_proofs --------------------------
(* Proofs about Pairing.                                                   *)
EXTENDS Pairing, FiniteSetTheorems, TLAPS

-----------------------------------------------------------------------------
(* Type correctness                                                        *)

LEMMA InitType == Init => TypeOK
<1> SUFFICES ASSUME Init PROVE TypeOK
  OBVIOUS
<1>1. \A r \in Request : [client |-> "idle", server |-> "idle", request |-> r, right |-> FALSE,
                         seen |-> NoRequest, answer |-> "none"] \in CallState
  BY DEF CallState
<1>2. calls \in [Call -> CallState]
  BY <1>1 DEF Init
<1>3. faults \in 0..MaxFaults /\ compared \in [Request -> Nat]
  BY PairingAssumption DEF Init
<1>4. paired \in [Device -> SUBSET Device] /\ recorded \in [Device -> SUBSET Device]
  BY DEF Init
<1>5. pending \in [Request -> Pending \cup {NoRequest}]
  BY DEF Init
<1>6. ends \in [Request -> Ends]
  BY DEF Init
<1>7. /\ stage \in [Request -> Stage]
      /\ session \in [Request -> {"none", "open", "expired"}]
      /\ approved \in SUBSET Request /\ confirmed \in SUBSET Request
  BY DEF Init, Stage
<1> QED BY <1>2, <1>3, <1>4, <1>5, <1>6, <1>7 DEF TypeOK

\* A call in slot c becomes another one.
LEMMA CallBecomes ==
  ASSUME TypeOK, NEW c \in Call, NEW call \in CallState, calls' = [calls EXCEPT ![c] = call]
  PROVE  /\ calls' \in [Call -> CallState]
         /\ calls'[c] = call
         /\ \A b \in Call : b # c => calls'[b] = calls[b]
BY DEF TypeOK

\* The call in slot c after a step, field by field, and the others as they were.
Now(c, client, server, right, seen, answer) ==
  /\ calls' \in [Call -> CallState]
  /\ calls'[c].client = client
  /\ calls'[c].server = server
  /\ calls'[c].request = calls[c].request
  /\ calls'[c].right = right
  /\ calls'[c].seen = seen
  /\ calls'[c].answer = answer
  /\ \A b \in Call : b # c => calls'[b] = calls[b]

LEMMA ClientMoves ==
  ASSUME TypeOK, NEW c \in Call, NEW step \in {"idle", "wait", "save", "forget"}, ClientAt(c, step)
  PROVE  Now(c, step, calls[c].server, calls[c].right, calls[c].seen, calls[c].answer)
<1> DEFINE call == [calls[c] EXCEPT !.client = step]
<1>1. calls[c] \in CallState
  BY DEF TypeOK
<1>2. call \in CallState
  BY <1>1 DEF CallState, Result
<1>3. calls' = [calls EXCEPT ![c] = call]
  BY DEF ClientAt
<1> HIDE DEF call
<1>4. /\ calls' \in [Call -> CallState]
      /\ calls'[c] = call
      /\ \A b \in Call : b # c => calls'[b] = calls[b]
  BY <1>2, <1>3, CallBecomes
<1> QED BY <1>1, <1>4 DEF call, Now, CallState

LEMMA ClientEnds ==
  ASSUME TypeOK, NEW c \in Call, ClientReturns(c)
  PROVE  Now(c, "idle", calls[c].server, calls[c].right, calls[c].seen, "none")
<1> DEFINE call == [calls[c] EXCEPT !.client = "idle", !.answer = "none"]
<1>1. calls[c] \in CallState
  BY DEF TypeOK
<1>2. call \in CallState
  BY <1>1 DEF CallState, Result
<1>3. calls' = [calls EXCEPT ![c] = call]
  BY DEF ClientReturns
<1> HIDE DEF call
<1>4. /\ calls' \in [Call -> CallState]
      /\ calls'[c] = call
      /\ \A b \in Call : b # c => calls'[b] = calls[b]
  BY <1>2, <1>3, CallBecomes
<1> QED BY <1>1, <1>4 DEF call, Now, CallState

LEMMA ServerMoves ==
  ASSUME TypeOK, NEW c \in Call, NEW step \in {"idle", "count", "judge", "save", "reply", "forget"}, ServerAt(c, step)
  PROVE  Now(c, calls[c].client, step, calls[c].right, calls[c].seen, calls[c].answer)
<1> DEFINE call == [calls[c] EXCEPT !.server = step]
<1>1. calls[c] \in CallState
  BY DEF TypeOK
<1>2. call \in CallState
  BY <1>1 DEF CallState, Result
<1>3. calls' = [calls EXCEPT ![c] = call]
  BY DEF ServerAt
<1> HIDE DEF call
<1>4. /\ calls' \in [Call -> CallState]
      /\ calls'[c] = call
      /\ \A b \in Call : b # c => calls'[b] = calls[b]
  BY <1>2, <1>3, CallBecomes
<1> QED BY <1>1, <1>4 DEF call, Now, CallState

LEMMA ServerRefuses ==
  ASSUME TypeOK, NEW c \in Call, Refuse(c)
  PROVE  Now(c, calls[c].client, "idle", FALSE, NoRequest, Result(c, "refused"))
<1> DEFINE call == [calls[c] EXCEPT !.server = "idle", !.right = FALSE, !.seen = NoRequest, !.answer = Result(c, "refused")]
<1>1. calls[c] \in CallState
  BY DEF TypeOK
<1>2. call \in CallState
  BY <1>1 DEF CallState, Result
<1>3. calls' = [calls EXCEPT ![c] = call]
  BY DEF Refuse
<1> HIDE DEF call
<1>4. /\ calls' \in [Call -> CallState]
      /\ calls'[c] = call
      /\ \A b \in Call : b # c => calls'[b] = calls[b]
  BY <1>2, <1>3, CallBecomes
<1> QED BY <1>1, <1>4 DEF call, Now, CallState

LEMMA ServerAdmits ==
  ASSUME TypeOK, NEW c \in Call, Admit(c)
  PROVE  Now(c, calls[c].client, "save", FALSE, NoRequest, calls[c].answer)
<1> DEFINE call == [calls[c] EXCEPT !.server = "save", !.right = FALSE, !.seen = NoRequest]
<1>1. calls[c] \in CallState
  BY DEF TypeOK
<1>2. call \in CallState
  BY <1>1 DEF CallState, Result
<1>3. calls' = [calls EXCEPT ![c] = call]
  BY DEF Admit
<1> HIDE DEF call
<1>4. /\ calls' \in [Call -> CallState]
      /\ calls'[c] = call
      /\ \A b \in Call : b # c => calls'[b] = calls[b]
  BY <1>2, <1>3, CallBecomes
<1> QED BY <1>1, <1>4 DEF call, Now, CallState

LEMMA ServerAnswers ==
  ASSUME TypeOK, NEW c \in Call, ServerReplies(c)
  PROVE  Now(c, calls[c].client, "forget", calls[c].right, calls[c].seen, Result(c, "ok"))
<1> DEFINE call == [calls[c] EXCEPT !.server = "forget", !.answer = Result(c, "ok")]
<1>1. calls[c] \in CallState
  BY DEF TypeOK
<1>2. call \in CallState
  BY <1>1 DEF CallState, Result
<1>3. calls' = [calls EXCEPT ![c] = call]
  BY DEF ServerReplies
<1> HIDE DEF call
<1>4. /\ calls' \in [Call -> CallState]
      /\ calls'[c] = call
      /\ \A b \in Call : b # c => calls'[b] = calls[b]
  BY <1>2, <1>3, CallBecomes
<1> QED BY <1>1, <1>4 DEF call, Now, CallState

LEMMA ServerDrops ==
  ASSUME TypeOK, NEW c \in Call, ConfirmLost(c)
  PROVE  Now(c, calls[c].client, "idle", FALSE, calls[c].seen, calls[c].answer)
<1> DEFINE call == [calls[c] EXCEPT !.server = "idle", !.right = FALSE]
<1>1. calls[c] \in CallState
  BY DEF TypeOK
<1>2. call \in CallState
  BY <1>1 DEF CallState, Result
<1>3. calls' = [calls EXCEPT ![c] = call]
  BY DEF ConfirmLost
<1> HIDE DEF call
<1>4. /\ calls' \in [Call -> CallState]
      /\ calls'[c] = call
      /\ \A b \in Call : b # c => calls'[b] = calls[b]
  BY <1>2, <1>3, CallBecomes
<1> QED BY <1>1, <1>4 DEF call, Now, CallState

LEMMA ServerCopies ==
  ASSUME TypeOK, NEW c \in Call, ServerCounts(c),
         NEW entry, entry = IF pending[calls[c].request] = NoRequest THEN NoRequest
                            ELSE Attempted(pending[calls[c].request])
  PROVE  /\ entry \in Pending \cup {NoRequest}
         /\ pending' = [pending EXCEPT ![calls[c].request] = entry]
         /\ Now(c, calls[c].client, "judge", calls[c].right, entry, calls[c].answer)
<1> DEFINE call == [calls[c] EXCEPT !.server = "judge", !.seen = entry]
<1>1. calls[c] \in CallState /\ calls[c].request \in Request
  BY DEF TypeOK, CallState
<1>2. entry \in Pending \cup {NoRequest}
  BY <1>1, PairingAssumption DEF TypeOK, Attempted, Pending
<1>3. call \in CallState
  BY <1>1, <1>2 DEF CallState
<1>4. calls' = [calls EXCEPT ![c] = call] /\ pending' = [pending EXCEPT ![calls[c].request] = entry]
  BY DEF ServerCounts, Counted
<1> HIDE DEF call
<1>5. /\ calls' \in [Call -> CallState]
      /\ calls'[c] = call
      /\ \A b \in Call : b # c => calls'[b] = calls[b]
  BY <1>3, <1>4, CallBecomes
<1> QED BY <1>1, <1>2, <1>4, <1>5 DEF call, Now, CallState

LEMMA Confirms ==
  ASSUME TypeOK, NEW c \in Call, NEW r \in Request, NEW right \in BOOLEAN,
         ConfirmPairing(c, r, right)
  PROVE  /\ calls' \in [Call -> CallState]
         /\ calls'[c].client = "wait"
         /\ calls'[c].server = "count"
         /\ calls'[c].request = r
         /\ calls'[c].right = right
         /\ calls'[c].seen = NoRequest
         /\ calls'[c].answer = "none"
         /\ \A b \in Call : b # c => calls'[b] = calls[b]
<1> DEFINE call == [client |-> "wait", server |-> "count", request |-> r,
                    right |-> right, seen |-> NoRequest, answer |-> "none"]
<1>1. call \in CallState
  BY DEF CallState
<1>2. calls' = [calls EXCEPT ![c] = call]
  BY DEF ConfirmPairing
<1>3. /\ calls' \in [Call -> CallState]
      /\ calls'[c] = call
      /\ \A b \in Call : b # c => calls'[b] = calls[b]
  BY <1>1, <1>2, CallBecomes
<1> QED BY <1>3

\* What the passing of a request's time does to the entries and the copies.
LEMMA Expires ==
  ASSUME TypeOK, NEW r \in Request, ExpireRequest(r)
  PROVE  /\ pending' \in [Request -> Pending \cup {NoRequest}]
         /\ \A q \in Request :
              /\ pending'[q] = NoRequest <=> pending[q] = NoRequest
              /\ pending[q] # NoRequest => /\ pending'[q].approved = pending[q].approved
                                           /\ pending'[q].attempts = pending[q].attempts
         /\ calls' \in [Call -> CallState]
         /\ \A c \in Call :
              /\ calls'[c].client = calls[c].client
              /\ calls'[c].server = calls[c].server
              /\ calls'[c].request = calls[c].request
              /\ calls'[c].answer = calls[c].answer
              /\ calls'[c].seen = NoRequest <=> calls[c].seen = NoRequest
              /\ calls[c].seen # NoRequest =>
                   /\ calls'[c].seen.approved = calls[c].seen.approved
                   /\ calls'[c].seen.attempts = calls[c].seen.attempts
<1> DEFINE Over(entry) == [entry EXCEPT !.expired = TRUE]
           OverAt(call) == [call EXCEPT !.seen.expired = TRUE]
<1>1. \A entry \in Pending : /\ Over(entry) \in Pending
                             /\ Over(entry).approved = entry.approved
                             /\ Over(entry).attempts = entry.attempts
  BY DEF Pending
<1>2. pending' = IF pending[r] = NoRequest THEN pending
                 ELSE [pending EXCEPT ![r] = Over(pending[r])]
  BY DEF ExpireRequest
<1>3. \A call \in CallState : OverAt(call) = [call EXCEPT !.seen = Over(call.seen)]
  BY DEF CallState
<1>4. \A call \in CallState : call.seen # NoRequest =>
        /\ OverAt(call) \in CallState
        /\ OverAt(call).client = call.client
        /\ OverAt(call).server = call.server
        /\ OverAt(call).request = call.request
        /\ OverAt(call).answer = call.answer
        /\ OverAt(call).seen = Over(call.seen)
  <2> SUFFICES ASSUME NEW call \in CallState, call.seen # NoRequest
               PROVE  /\ OverAt(call) \in CallState
                      /\ OverAt(call).client = call.client
                      /\ OverAt(call).server = call.server
                      /\ OverAt(call).request = call.request
                      /\ OverAt(call).answer = call.answer
                      /\ OverAt(call).seen = Over(call.seen)
    OBVIOUS
  <2>1. call.seen \in Pending
    BY DEF CallState
  <2>2. Over(call.seen) \in Pending
    BY <1>1, <2>1
  <2> HIDE DEF Over
  <2>3. [call EXCEPT !.seen = Over(call.seen)] \in CallState
    BY <2>2 DEF CallState
  <2> QED BY <1>3, <2>2, <2>3 DEF CallState
<1>5. calls' = [c \in Call |-> IF calls[c].request = r /\ calls[c].seen # NoRequest
                               THEN OverAt(calls[c]) ELSE calls[c]]
  BY DEF ExpireRequest
<1>6. \A c \in Call : calls[c] \in CallState /\ calls[c].seen \in Pending \cup {NoRequest}
  BY DEF TypeOK, CallState
<1> HIDE DEF Over, OverAt
<1>7. /\ pending' \in [Request -> Pending \cup {NoRequest}]
      /\ \A q \in Request :
           /\ pending'[q] = NoRequest <=> pending[q] = NoRequest
           /\ pending[q] # NoRequest => /\ pending'[q].approved = pending[q].approved
                                        /\ pending'[q].attempts = pending[q].attempts
  BY <1>1, <1>2, NoRequestAssumption DEF TypeOK
<1>8. calls' \in [Call -> CallState]
  BY <1>4, <1>5, <1>6
<1>9. \A c \in Call : calls'[c] = calls[c] \/ (calls[c].seen # NoRequest /\ calls'[c] = OverAt(calls[c]))
  BY <1>5
<1> QED BY <1>1, <1>4, <1>6, <1>7, <1>8, <1>9, NoRequestAssumption

\* A restart ends the caller's side of a call, or the handler's.
LEMMA Restarts ==
  ASSUME TypeOK, NEW d \in Device, Restart(d)
  PROVE  /\ calls' \in [Call -> CallState]
         /\ \A c \in Call :
              /\ calls'[c].request = calls[c].request
              /\ calls'[c].client = IF From(c) = d THEN "idle" ELSE calls[c].client
              /\ calls'[c].answer = IF From(c) = d THEN "none" ELSE calls[c].answer
              /\ calls'[c].server = IF From(c) # d /\ To(c) = d THEN "idle" ELSE calls[c].server
              /\ calls'[c].seen = IF From(c) # d /\ To(c) = d THEN NoRequest ELSE calls[c].seen
<1> DEFINE Gone(call) == [call EXCEPT !.client = "idle", !.answer = "none"]
           Dropped(call) == [call EXCEPT !.server = "idle", !.seen = NoRequest, !.right = FALSE]
<1>1. \A call \in CallState :
        /\ Gone(call) \in CallState /\ Gone(call).request = call.request
        /\ Gone(call).client = "idle" /\ Gone(call).answer = "none"
        /\ Gone(call).server = call.server /\ Gone(call).seen = call.seen
  BY DEF CallState
<1>2. \A call \in CallState :
        /\ Dropped(call) \in CallState /\ Dropped(call).request = call.request
        /\ Dropped(call).client = call.client /\ Dropped(call).answer = call.answer
        /\ Dropped(call).server = "idle" /\ Dropped(call).seen = NoRequest
  BY DEF CallState
<1>3. calls' = [c \in Call |-> IF From(c) = d THEN Gone(calls[c])
                               ELSE IF To(c) = d THEN Dropped(calls[c]) ELSE calls[c]]
  BY DEF Restart
<1>4. \A c \in Call : calls[c] \in CallState
  BY DEF TypeOK
<1> HIDE DEF Gone, Dropped
<1>5. calls' \in [Call -> CallState]
  BY <1>1, <1>2, <1>3, <1>4
<1> QED BY <1>1, <1>2, <1>3, <1>4, <1>5

LEMMA NextType == TypeOK /\ [Next]_vars => TypeOK'
<1> SUFFICES ASSUME TypeOK, [Next]_vars PROVE TypeOK'
  OBVIOUS
<1> USE PairingAssumption, NoRequestAssumption DEF TypeOK
<1>1. ASSUME NEW r \in Request, StartPairing(r) PROVE TypeOK'
  BY <1>1 DEF StartPairing, config, history, Stage
<1>2. ASSUME NEW r \in Request, HandlePairRequest(r) PROVE TypeOK'
  <2>1. NewEntry \in Pending
    BY DEF NewEntry, Pending
  <2> QED BY <1>2, <2>1 DEF HandlePairRequest, config, history, Stage
<1>3. ASSUME NEW r \in Request, ReadChallenge(r) PROVE TypeOK'
  BY <1>3 DEF ReadChallenge, config, history, Stage
<1>4. ASSUME NEW r \in Request, StartFails(r) PROVE TypeOK'
  BY <1>4 DEF StartFails, config, history, Stage
<1>5. ASSUME NEW r \in Request, Approve(r) PROVE TypeOK'
  <2>1. [pending[r] EXCEPT !.approved = TRUE] \in Pending
    BY <1>5 DEF Approve, Pending
  <2>2. pending' \in [Request -> Pending \cup {NoRequest}]
    BY <1>5, <2>1 DEF Approve
  <2> QED BY <1>5, <2>2 DEF Approve, config, asking
<1>6. ASSUME NEW r \in Request, Discard(r) PROVE TypeOK'
  BY <1>6 DEF Discard, config, asking, history
<1>7. ASSUME NEW r \in Request, ExpireRequest(r) PROVE TypeOK'
  <2>1. /\ pending' \in [Request -> Pending \cup {NoRequest}]
        /\ calls' \in [Call -> CallState]
    BY <1>7, Expires
  <2> QED BY <1>7, <2>1 DEF ExpireRequest, config, asking, history
<1>8. ASSUME NEW r \in Request, ExpireSession(r) PROVE TypeOK'
  BY <1>8 DEF ExpireSession, config, asking, history
<1>9. ASSUME NEW c \in Call, NEW r \in Request, NEW right \in BOOLEAN,
             ConfirmPairing(c, r, right) PROVE TypeOK'
  <2>1. calls' \in [Call -> CallState]
    BY <1>9, Confirms
  <2> QED BY <1>9, <2>1 DEF ConfirmPairing, config, asking, history
<1>10. ASSUME NEW c \in Call, ReadResult(c) PROVE TypeOK'
  <2>1. calls' \in [Call -> CallState]
    BY <1>10, ClientMoves, ClientEnds DEF ReadResult, Now
  <2> QED BY <1>10, <2>1 DEF ReadResult, config, asking, history
<1>11. ASSUME NEW c \in Call, ClientSaves(c) PROVE TypeOK'
  <2>1. calls' \in [Call -> CallState]
    BY <1>11, ClientMoves, ClientEnds DEF ClientSaves, Now
  <2>2. From(c) \in Device /\ To(c) \in Device
    BY DEF From, To, CallState, Ends, End
  <2> QED BY <1>11, <2>1, <2>2 DEF ClientSaves, SavePairedDevice, SaveFails, Fault, asking
<1>12. ASSUME NEW c \in Call, ClientForgets(c) PROVE TypeOK'
  <2>1. calls' \in [Call -> CallState]
    BY <1>12, ClientEnds DEF ClientForgets, Now
  <2>2. calls[c].request \in Request
    BY DEF CallState
  <2> QED BY <1>12, <2>1, <2>2 DEF ClientForgets, config, asking
<1>13. ASSUME NEW c \in Call, ClientLost(c) PROVE TypeOK'
  <2>1. calls' \in [Call -> CallState]
    BY <1>13, ClientEnds DEF ClientLost, Now
  <2> QED BY <1>13, <2>1 DEF ClientLost, Fault, config, asking
<1>14. ASSUME NEW c \in Call, ServerCounts(c) PROVE TypeOK'
  <2>1. calls[c].request \in Request
    BY DEF CallState
  <2>2. /\ pending' \in [Request -> Pending \cup {NoRequest}]
        /\ calls' \in [Call -> CallState]
    BY <1>14, <2>1, ServerCopies DEF Now
  <2> QED BY <1>14, <2>2 DEF ServerCounts, config, asking, history
<1>15. ASSUME NEW c \in Call, ServerJudges(c) PROVE TypeOK'
  <2>1. calls' \in [Call -> CallState]
    BY <1>15, ServerAdmits, ServerRefuses DEF ServerJudges, Now
  <2>2. calls[c].request \in Request
    BY DEF CallState
  <2>3. compared' \in [Request -> Nat]
    BY <1>15, <2>2 DEF ServerJudges
  <2> QED BY <1>15, <2>1, <2>3 DEF ServerJudges, config, asking
<1>16. ASSUME NEW c \in Call, ServerSaves(c) PROVE TypeOK'
  <2>1. calls' \in [Call -> CallState]
    BY <1>16, ServerMoves, ServerRefuses DEF ServerSaves, RefuseUnsaved, Now
  <2>2. From(c) \in Device /\ To(c) \in Device
    BY DEF From, To, CallState, Ends, End
  <2> QED BY <1>16, <2>1, <2>2 DEF ServerSaves, SavePairedDevice, SaveFails, Fault, asking
<1>17. ASSUME NEW c \in Call, ServerReplies(c) PROVE TypeOK'
  <2>1. calls' \in [Call -> CallState]
    BY <1>17, ServerAnswers DEF Now
  <2> QED BY <1>17, <2>1 DEF ServerReplies, config, asking, history
<1>18. ASSUME NEW c \in Call, ServerForgets(c) PROVE TypeOK'
  <2>1. calls' \in [Call -> CallState]
    BY <1>18, ServerMoves DEF ServerForgets, Now
  <2> QED BY <1>18, <2>1 DEF ServerForgets, config, asking, history
<1>19. ASSUME NEW c \in Call, ConfirmLost(c) PROVE TypeOK'
  <2>1. calls' \in [Call -> CallState]
    BY <1>19, ServerDrops DEF Now
  <2> QED BY <1>19, <2>1 DEF ConfirmLost, Fault, config, asking
<1>20. ASSUME NEW d \in Device, SaveConfig(d) PROVE TypeOK'
  BY <1>20 DEF SaveConfig, asking, history
<1>21. ASSUME NEW d \in Device, Restart(d) PROVE TypeOK'
  <2>1. calls' \in [Call -> CallState]
    BY <1>21, Restarts
  <2>2. paired' \in [Device -> SUBSET Device]
    BY <1>21 DEF Restart
  <2>3. stage' \in [Request -> Stage]
    BY <1>21 DEF Restart, Stage
  <2>4. session' \in [Request -> {"none", "open", "expired"}]
    BY <1>21 DEF Restart
  <2>5. pending' \in [Request -> Pending \cup {NoRequest}]
    BY <1>21 DEF Restart
  <2>6. faults' \in 0..MaxFaults
    <3>1. Fault
      BY <1>21 DEF Restart
    <3> QED BY <3>1 DEF Fault
  <2>7. UNCHANGED <<recorded, ends, approved, compared, confirmed>>
    BY <1>21 DEF Restart
  <2> QED BY <2>1, <2>2, <2>3, <2>4, <2>5, <2>6, <2>7
<1>22. UNCHANGED vars => TypeOK'
  BY DEF vars, config, asking, history
<1> QED BY <1>1, <1>2, <1>3, <1>4, <1>5, <1>6, <1>7, <1>8, <1>9, <1>10, <1>11, <1>12, <1>13,
           <1>14, <1>15, <1>16, <1>17, <1>18, <1>19, <1>20, <1>21, <1>22
       DEF Next, ClientStep, ServerStep

\* The variables have their types in every reachable state.
THEOREM TypeCorrect == Spec => []TypeOK
BY InitType, NextType, PTL DEF Spec

-----------------------------------------------------------------------------
(* What is saved, and why                                                  *)

\* The list in memory is never behind the one on disk.
Ahead == \A d \in Device : recorded[d] \subseteq paired[d]

\* An entry is approved only by the user, and so is a copy.
CopiesApproved ==
  /\ \A r \in Request : pending[r] # NoRequest /\ pending[r].approved => r \in approved
  /\ \A c \in Call : calls[c].seen # NoRequest /\ calls[c].seen.approved
                       => calls[c].request \in approved

\* A handler past its checks serves an approved request; past its save, the
\* device is on disk.
HandlerSaved ==
  \A c \in Call :
    /\ calls[c].server \in {"save", "reply", "forget"} => calls[c].request \in approved
    /\ calls[c].server \in {"reply", "forget"} => From(c) \in recorded[To(c)]

\* An answer "ok", and what a caller does on it, come after that.
CallerSaved ==
  \A c \in Call :
    /\ calls[c].answer = "ok" \/ calls[c].client \in {"save", "forget"} =>
         calls[c].request \in approved /\ From(c) \in recorded[To(c)]
    /\ calls[c].client = "forget" => To(c) \in recorded[From(c)]

Saved == TypeOK /\ Ahead /\ CopiesApproved /\ HandlerSaved /\ CallerSaved
           /\ PairedByApproval /\ ConfirmedIsMutual

LEMMA Places ==
  ASSUME TypeOK, NEW c \in Call
  PROVE  /\ calls[c] \in CallState
         /\ calls[c].request \in Request
         /\ From(c) \in Device /\ To(c) \in Device
         /\ Between(calls[c].request, From(c), To(c))
         /\ Between(calls[c].request, To(c), From(c))
<1>1. calls[c] \in CallState /\ calls[c].request \in Request
  BY DEF TypeOK, CallState
<1>2. ends[calls[c].request] \in Ends
  BY <1>1 DEF TypeOK
<1> QED BY <1>1, <1>2 DEF From, To, Ends, End, Between

\* Which steps touch the calls, and which the entries.
LEMMA CallCases ==
  ASSUME [Next]_vars
  PROVE  \/ UNCHANGED calls
         \/ \E r \in Request : ExpireRequest(r)
         \/ \E c \in Call, r \in Request, right \in BOOLEAN : ConfirmPairing(c, r, right)
         \/ \E c \in Call : ClientStep(c)
         \/ \E c \in Call : ServerStep(c)
         \/ \E d \in Device : Restart(d)
BY DEF Next, vars, StartPairing, HandlePairRequest, ReadChallenge, StartFails, Approve,
       Discard, ExpireSession, SaveConfig

\* What the devices have on disk and what users have approved only grows; a
\* device enters a list at the end of a confirmation.
LEMMA Grows ==
  ASSUME TypeOK, Ahead, [Next]_vars
  PROVE  /\ ends' = ends
         /\ approved \subseteq approved'
         /\ Ahead'
         /\ \A d \in Device : recorded[d] \subseteq recorded'[d]
         /\ \A d \in Device : \A e \in paired'[d] :
              \/ e \in paired[d]
              \/ \E c \in Call : /\ calls[c].client = "save" \/ calls[c].server = "save"
                                 /\ {d, e} = {From(c), To(c)}
<1>1. ends' = ends /\ approved \subseteq approved'
  BY DEF Next, vars, asking, history, StartPairing, HandlePairRequest, ReadChallenge, StartFails,
     Approve, Discard, ExpireRequest, ExpireSession, ConfirmPairing, ClientStep, ServerStep,
     ReadResult, ClientSaves, ClientForgets, ClientLost, ServerCounts, ServerJudges, ServerSaves,
     ServerReplies, ServerForgets, ConfirmLost, SaveConfig, Restart
<1>2. \/ UNCHANGED config
      \/ \E c \in Call : ClientSaves(c) \/ ServerSaves(c)
      \/ \E d \in Device : SaveConfig(d) \/ Restart(d)
  BY DEF Next, vars, StartPairing, HandlePairRequest, ReadChallenge, StartFails,
     Approve, Discard, ExpireRequest, ExpireSession, ConfirmPairing, ClientStep, ServerStep,
     ReadResult, ClientForgets, ClientLost, ServerCounts, ServerJudges,
     ServerReplies, ServerForgets, ConfirmLost
<1>3. CASE UNCHANGED config
  BY <1>1, <1>3 DEF config, Ahead
<1>4. ASSUME NEW c \in Call, ClientSaves(c) \/ ServerSaves(c)
      PROVE  \E d, e \in Device : /\ calls[c].client = "save" \/ calls[c].server = "save"
                                  /\ {d, e} = {From(c), To(c)}
                                  /\ SavePairedDevice(d, e) \/ SaveFails(d, e)
  BY <1>4, Places DEF ClientSaves, ServerSaves
<1>5. ASSUME NEW c \in Call, ClientSaves(c) \/ ServerSaves(c)
      PROVE  /\ Ahead'
             /\ \A d \in Device : recorded[d] \subseteq recorded'[d]
             /\ \A d \in Device : \A e \in paired'[d] :
                  \/ e \in paired[d]
                  \/ /\ calls[c].client = "save" \/ calls[c].server = "save"
                     /\ {d, e} = {From(c), To(c)}
  <2>1. PICK d \in Device, e \in Device :
          /\ calls[c].client = "save" \/ calls[c].server = "save"
          /\ {d, e} = {From(c), To(c)}
          /\ SavePairedDevice(d, e) \/ SaveFails(d, e)
    BY <1>4, <1>5
  <2>2. /\ paired' = [paired EXCEPT ![d] = @ \cup {e}]
        /\ recorded' = [recorded EXCEPT ![d] = paired[d] \cup {e}] \/ recorded' = recorded
    BY <2>1 DEF SavePairedDevice, SaveFails
  <2>3. \A x \in Device : /\ paired'[x] = IF x = d THEN paired[x] \cup {e} ELSE paired[x]
                          /\ \/ recorded'[x] = recorded[x]
                             \/ x = d /\ recorded'[x] = paired[x] \cup {e}
    BY <2>2 DEF TypeOK
  <2>4. \A x \in Device : recorded[x] \subseteq recorded'[x] /\ recorded'[x] \subseteq paired'[x]
    BY <2>3 DEF Ahead
  <2>5. ASSUME NEW x \in Device, NEW y \in paired'[x]
        PROVE  y \in paired[x] \/ (x = d /\ y = e)
    <3>1. paired'[x] = paired[x] \/ (x = d /\ paired'[x] = paired[x] \cup {e})
      BY <2>3
    <3> QED BY <3>1
  <2> QED BY <2>1, <2>4, <2>5 DEF Ahead
<1>6. ASSUME NEW d \in Device, SaveConfig(d) \/ Restart(d)
      PROVE  /\ Ahead'
             /\ \A x \in Device : recorded[x] \subseteq recorded'[x]
             /\ \A x \in Device : paired'[x] \subseteq paired[x]
  <2>1. CASE SaveConfig(d)
    <3>1. paired' = paired /\ recorded' = [recorded EXCEPT ![d] = paired[d]]
      BY <2>1 DEF SaveConfig
    <3> QED BY <3>1 DEF Ahead, TypeOK
  <2>2. CASE Restart(d)
    <3>1. recorded' = recorded /\ paired' = [paired EXCEPT ![d] = recorded[d]]
      BY <2>2 DEF Restart
    <3> QED BY <3>1 DEF Ahead, TypeOK
  <2> QED BY <1>6, <2>1, <2>2
<1> QED BY <1>1, <1>2, <1>3, <1>5, <1>6

LEMMA NextCopies == TypeOK /\ Ahead /\ CopiesApproved /\ [Next]_vars => CopiesApproved'
<1> SUFFICES ASSUME TypeOK, Ahead, CopiesApproved, [Next]_vars
             PROVE  CopiesApproved'
  OBVIOUS
<1> DEFINE Entries == \A r \in Request : pending[r] # NoRequest /\ pending[r].approved => r \in approved
           Copies == \A c \in Call : calls[c].seen # NoRequest /\ calls[c].seen.approved
                                       => calls[c].request \in approved
<1> USE NoRequestAssumption
<1>1. approved \subseteq approved'
  BY Grows
<1>2. ASSUME NEW r \in Request, HandlePairRequest(r) PROVE Entries'
  <2>1. \A q \in Request : pending'[q] = pending[q] \/ pending'[q] = NewEntry
    BY <1>2 DEF HandlePairRequest, TypeOK
  <2> QED BY <1>1, <2>1 DEF NewEntry, CopiesApproved
<1>3. ASSUME NEW r \in Request, Approve(r) PROVE Entries'
  <2>1. \A q \in Request : q # r => pending'[q] = pending[q]
    BY <1>3 DEF Approve, TypeOK
  <2>2. r \in approved'
    BY <1>3 DEF Approve
  <2> QED BY <1>1, <2>1, <2>2 DEF CopiesApproved
<1>4. ASSUME NEW r \in Request, ExpireRequest(r) PROVE Entries' /\ Copies'
  BY <1>1, <1>4, Expires DEF CopiesApproved
<1>5. ASSUME NEW c \in Call, ServerCounts(c) PROVE Entries' /\ Copies'
  <2> DEFINE r == calls[c].request
  <2>1. PICK entry : entry = IF pending[r] = NoRequest THEN NoRequest ELSE Attempted(pending[r])
    OBVIOUS
  <2>2. r \in Request
    BY Places
  <2>3. entry # NoRequest => pending[r] # NoRequest /\ entry.approved = pending[r].approved
    BY <2>1, <2>2 DEF Attempted, TypeOK, Pending
  <2>4. /\ pending' = [pending EXCEPT ![r] = entry]
        /\ Now(c, calls[c].client, "judge", calls[c].right, entry, calls[c].answer)
    BY <1>5, <2>1, ServerCopies
  <2>5. Entries'
    <3>1. \A q \in Request : pending'[q] = IF q = r THEN entry ELSE pending[q]
      BY <2>2, <2>4 DEF TypeOK
    <3> QED BY <1>1, <2>3, <3>1 DEF CopiesApproved
  <2>6. Copies'
    <3>1. \A b \in Call : /\ calls'[b].request = calls[b].request
                          /\ calls'[b].seen = IF b = c THEN entry ELSE calls[b].seen
      BY <2>4 DEF Now
    <3> QED BY <1>1, <2>2, <2>3, <3>1 DEF CopiesApproved
  <2> QED BY <2>5, <2>6
<1>6. ASSUME NEW d \in Device, Restart(d) PROVE Entries' /\ Copies'
  <2>1. \A q \in Request : pending'[q] = pending[q] \/ pending'[q] = NoRequest
    BY <1>6 DEF Restart
  <2> QED BY <1>1, <1>6, <2>1, Restarts DEF CopiesApproved
<1>7. ASSUME NEW c \in Call, ServerForgets(c) PROVE Entries'
  <2>1. \A q \in Request : pending'[q] = pending[q] \/ pending'[q] = NoRequest
    BY <1>7 DEF ServerForgets, TypeOK
  <2> QED BY <1>1, <2>1 DEF CopiesApproved
<1>8. ASSUME NEW r \in Request, Discard(r) PROVE Entries'
  <2>1. \A q \in Request : pending'[q] = pending[q] \/ pending'[q] = NoRequest
    BY <1>8 DEF Discard, TypeOK
  <2> QED BY <1>1, <2>1 DEF CopiesApproved
<1>9. Entries'
  <2>1. \/ UNCHANGED pending
        \/ \E r \in Request : HandlePairRequest(r) \/ Approve(r) \/ ExpireRequest(r) \/ Discard(r)
        \/ \E c \in Call : ServerCounts(c) \/ ServerForgets(c)
        \/ \E d \in Device : Restart(d)
    BY DEF Next, vars, StartPairing, ReadChallenge, StartFails, ExpireSession, ConfirmPairing,
       ClientStep, ServerStep, ReadResult, ClientSaves, ClientForgets, ClientLost, ServerJudges,
       ServerSaves, ServerReplies, ConfirmLost, SaveConfig
  <2>2. CASE UNCHANGED pending
    BY <1>1, <2>2 DEF CopiesApproved
  <2> QED BY <1>2, <1>3, <1>4, <1>5, <1>6, <1>7, <1>8, <2>1, <2>2
<1>10. Copies'
  <2>1. CASE UNCHANGED calls
    BY <1>1, <2>1 DEF CopiesApproved
  <2>2. ASSUME NEW c \in Call, NEW r \in Request, NEW right \in BOOLEAN, ConfirmPairing(c, r, right)
        PROVE  Copies'
    BY <1>1, <2>2, Confirms DEF CopiesApproved
  <2>3. ASSUME NEW c \in Call, ClientStep(c) PROVE Copies'
    <3>1. \A b \in Call : calls'[b].request = calls[b].request /\ calls'[b].seen = calls[b].seen
      BY <2>3, ClientMoves, ClientEnds
      DEF ClientStep, ReadResult, ClientSaves, ClientForgets, ClientLost, Now
    <3> QED BY <1>1, <3>1 DEF CopiesApproved
  <2>4. ASSUME NEW c \in Call, ServerStep(c), ~ServerCounts(c) PROVE Copies'
    <3>1. \A b \in Call : /\ calls'[b].request = calls[b].request
                          /\ calls'[b].seen = calls[b].seen \/ calls'[b].seen = NoRequest
      BY <2>4, ServerMoves, ServerRefuses, ServerAdmits, ServerAnswers, ServerDrops
      DEF ServerStep, ServerJudges, ServerSaves, RefuseUnsaved, ServerForgets, Now
    <3> QED BY <1>1, <3>1 DEF CopiesApproved
  <2> QED BY <1>4, <1>5, <1>6, <2>1, <2>2, <2>3, <2>4, CallCases
<1> QED BY <1>9, <1>10 DEF CopiesApproved

\* The two devices of a call do not change.
LEMMA SamePlaces ==
  ASSUME NEW c \in Call, ends' = ends, calls'[c].request = calls[c].request
  PROVE  From(c)' = From(c) /\ To(c)' = To(c)
BY DEF From, To

LEMMA NextHandler ==
  TypeOK /\ Ahead /\ CopiesApproved /\ HandlerSaved /\ [Next]_vars => HandlerSaved'
<1> SUFFICES ASSUME TypeOK, Ahead, CopiesApproved, HandlerSaved, [Next]_vars,
                    NEW b \in Call
             PROVE  /\ calls'[b].server \in {"save", "reply", "forget"} => calls'[b].request \in approved'
                    /\ calls'[b].server \in {"reply", "forget"} => From(b)' \in recorded'[To(b)']
  BY DEF HandlerSaved, From, To
<1> DEFINE Goal == /\ calls'[b].server \in {"save", "reply", "forget"} => calls'[b].request \in approved'
                   /\ calls'[b].server \in {"reply", "forget"} => From(b)' \in recorded'[To(b)']
<1>1. /\ ends' = ends /\ approved \subseteq approved'
      /\ \A d \in Device : recorded[d] \subseteq recorded'[d]
      /\ From(b) \in Device /\ To(b) \in Device
  BY Grows, Places
\* It goes on from where it was at most.
<1>2. ASSUME calls'[b].request = calls[b].request,
             \/ calls'[b].server = calls[b].server
             \/ calls'[b].server \in {"idle", "count", "judge"}
             \/ calls[b].server = "reply" /\ calls'[b].server = "forget"
      PROVE  Goal
  <2>1. From(b)' = From(b) /\ To(b)' = To(b)
    BY <1>1, <1>2, SamePlaces
  <2> QED BY <1>1, <1>2, <2>1 DEF HandlerSaved
<1>3. CASE UNCHANGED calls
  BY <1>2, <1>3
<1>4. ASSUME NEW r \in Request, ExpireRequest(r) PROVE Goal
  BY <1>2, <1>4, Expires
<1>5. ASSUME NEW c \in Call, NEW r \in Request, NEW right \in BOOLEAN, ConfirmPairing(c, r, right)
      PROVE  Goal
  <2>1. CASE b = c
    BY <1>5, <2>1, Confirms
  <2>2. CASE b # c
    <3>1. calls'[b] = calls[b]
      BY <1>5, <2>2, Confirms
    <3> QED BY <1>2, <3>1
  <2> QED BY <2>1, <2>2
<1>6. ASSUME NEW c \in Call, ClientStep(c) PROVE Goal
  <2>1. calls'[b].request = calls[b].request /\ calls'[b].server = calls[b].server
    BY <1>6, ClientMoves, ClientEnds
    DEF ClientStep, ReadResult, ClientSaves, ClientForgets, ClientLost, Now
  <2> QED BY <1>2, <2>1
<1>7. ASSUME NEW c \in Call, ServerCounts(c) PROVE Goal
  <2>1. PICK entry : entry = IF pending[calls[c].request] = NoRequest THEN NoRequest
                             ELSE Attempted(pending[calls[c].request])
    OBVIOUS
  <2>2. Now(c, calls[c].client, "judge", calls[c].right, entry, calls[c].answer)
    BY <1>7, <2>1, ServerCopies
  <2>3. /\ calls'[b].request = calls[b].request
        /\ calls'[b].server = calls[b].server \/ calls'[b].server = "judge"
    BY <2>2 DEF Now
  <2> QED BY <1>2, <2>3
<1>8. ASSUME NEW c \in Call, ServerJudges(c) PROVE Goal
  <2>1. CASE b = c /\ Admitted(c)
    <3>1. calls[b].request \in approved
      BY <2>1 DEF Admitted, CopiesApproved
    <3>2. calls'[b].request = calls[b].request /\ calls'[b].server \in {"save", "idle"}
      BY <1>8, <2>1, ServerAdmits, ServerRefuses DEF ServerJudges, Now
    <3> QED BY <1>1, <3>1, <3>2
  <2>2. CASE ~(b = c /\ Admitted(c))
    <3>1. /\ calls'[b].request = calls[b].request
          /\ calls'[b].server = calls[b].server \/ calls'[b].server = "idle"
      BY <1>8, <2>2, ServerAdmits, ServerRefuses DEF ServerJudges, Now
    <3> QED BY <1>2, <3>1
  <2> QED BY <2>1, <2>2
<1>9. ASSUME NEW c \in Call, ServerSaves(c) PROVE Goal
  <2>1. CASE b = c /\ SavePairedDevice(To(c), From(c)) /\ ServerAt(c, "reply")
    <3>1. calls'[b].request = calls[b].request
      BY <2>1, ServerMoves DEF Now
    <3>2. From(b) \in recorded'[To(b)]
      BY <1>1, <2>1 DEF SavePairedDevice, TypeOK
    <3>3. calls[b].request \in approved
      BY <1>9, <2>1 DEF ServerSaves, HandlerSaved
    <3> QED BY <1>1, <3>1, <3>2, <3>3, SamePlaces
  <2>2. CASE b # c \/ Refuse(c)
    <3>1. /\ calls'[b].request = calls[b].request
          /\ calls'[b].server = calls[b].server \/ calls'[b].server = "idle"
      BY <1>9, <2>2, ServerMoves, ServerRefuses DEF ServerSaves, RefuseUnsaved, Now
    <3> QED BY <1>2, <3>1
  <2> QED BY <1>9, <2>1, <2>2 DEF ServerSaves, RefuseUnsaved
<1>10. ASSUME NEW c \in Call, ServerReplies(c) \/ ServerForgets(c) \/ ConfirmLost(c) PROVE Goal
  <2>1. /\ calls'[b].request = calls[b].request
        /\ \/ calls'[b].server = calls[b].server
           \/ calls'[b].server = "idle"
           \/ calls[b].server = "reply" /\ calls'[b].server = "forget"
    <3>1. CASE ServerReplies(c)
      BY <3>1, ServerAnswers DEF ServerReplies, Now
    <3>2. CASE ServerForgets(c)
      BY <3>2, ServerMoves DEF ServerForgets, Now
    <3>3. CASE ConfirmLost(c)
      BY <3>3, ServerDrops DEF Now
    <3> QED BY <1>10, <3>1, <3>2, <3>3
  <2> QED BY <1>2, <2>1
<1>11. ASSUME NEW d \in Device, Restart(d) PROVE Goal
  <2>1. calls'[b].request = calls[b].request /\ calls'[b].server \in {calls[b].server, "idle"}
    BY <1>11, Restarts
  <2> QED BY <1>2, <2>1
<1> QED BY <1>3, <1>4, <1>5, <1>6, <1>7, <1>8, <1>9, <1>10, <1>11, CallCases DEF ServerStep

LEMMA NextCaller ==
  TypeOK /\ Ahead /\ HandlerSaved /\ CallerSaved /\ [Next]_vars => CallerSaved'
<1> SUFFICES ASSUME TypeOK, Ahead, HandlerSaved, CallerSaved, [Next]_vars,
                    NEW b \in Call
             PROVE  /\ calls'[b].answer = "ok" \/ calls'[b].client \in {"save", "forget"} =>
                         calls'[b].request \in approved' /\ From(b)' \in recorded'[To(b)']
                    /\ calls'[b].client = "forget" => To(b)' \in recorded'[From(b)']
  BY DEF CallerSaved, From, To
<1> DEFINE Goal == /\ calls'[b].answer = "ok" \/ calls'[b].client \in {"save", "forget"} =>
                        calls'[b].request \in approved' /\ From(b)' \in recorded'[To(b)']
                   /\ calls'[b].client = "forget" => To(b)' \in recorded'[From(b)']
           Said(call) == call.answer = "ok" \/ call.client \in {"save", "forget"}
<1>1. /\ ends' = ends /\ approved \subseteq approved'
      /\ \A d \in Device : recorded[d] \subseteq recorded'[d]
      /\ From(b) \in Device /\ To(b) \in Device
  BY Grows, Places
<1>2. ASSUME calls'[b].request = calls[b].request,
             Said(calls'[b]) => Said(calls[b]),
             calls'[b].client = "forget" => calls[b].client = "forget"
      PROVE  Goal
  <2>1. From(b)' = From(b) /\ To(b)' = To(b)
    BY <1>1, <1>2, SamePlaces
  <2> QED BY <1>1, <1>2, <2>1 DEF CallerSaved
<1>3. CASE UNCHANGED calls
  BY <1>2, <1>3
<1>4. ASSUME NEW r \in Request, ExpireRequest(r) PROVE Goal
  BY <1>2, <1>4, Expires
<1>5. ASSUME NEW c \in Call, NEW r \in Request, NEW right \in BOOLEAN, ConfirmPairing(c, r, right)
      PROVE  Goal
  <2>1. CASE b = c
    BY <1>5, <2>1, Confirms
  <2>2. CASE b # c
    <3>1. calls'[b] = calls[b]
      BY <1>5, <2>2, Confirms
    <3> QED BY <1>2, <3>1
  <2> QED BY <2>1, <2>2
<1>6. ASSUME NEW c \in Call, ReadResult(c) PROVE Goal
  <2>1. calls'[b].request = calls[b].request /\ (Said(calls'[b]) => Said(calls[b]))
    BY <1>6, ClientMoves, ClientEnds DEF ReadResult, Successful, Now
  <2>2. calls'[b].client = "forget" => calls[b].client = "forget"
    BY <1>6, ClientMoves, ClientEnds DEF ReadResult, Now
  <2> QED BY <1>2, <2>1, <2>2
<1>7. ASSUME NEW c \in Call, ClientSaves(c) PROVE Goal
  <2>1. CASE b = c /\ SavePairedDevice(From(c), To(c)) /\ ClientAt(c, "forget")
    <3>1. calls'[b].request = calls[b].request
      BY <2>1, ClientMoves DEF Now
    <3>2. To(b) \in recorded'[From(b)]
      BY <1>1, <2>1 DEF SavePairedDevice, TypeOK
    <3>3. calls[b].request \in approved /\ From(b) \in recorded[To(b)]
      BY <1>7, <2>1 DEF ClientSaves, CallerSaved
    <3> QED BY <1>1, <3>1, <3>2, <3>3, SamePlaces
  <2>2. CASE b # c \/ ClientReturns(c)
    <3>1. /\ calls'[b].request = calls[b].request
          /\ Said(calls'[b]) => Said(calls[b])
          /\ calls'[b].client = "forget" => calls[b].client = "forget"
      BY <1>7, <2>2, ClientMoves, ClientEnds DEF ClientSaves, Now
    <3> QED BY <1>2, <3>1
  <2> QED BY <1>7, <2>1, <2>2 DEF ClientSaves
<1>8. ASSUME NEW c \in Call, ClientForgets(c) \/ ClientLost(c) PROVE Goal
  <2>1. /\ calls'[b].request = calls[b].request
        /\ Said(calls'[b]) => Said(calls[b])
        /\ calls'[b].client = "forget" => calls[b].client = "forget"
    BY <1>8, ClientEnds DEF ClientForgets, ClientLost, Now
  <2> QED BY <1>2, <2>1
<1>9. ASSUME NEW c \in Call, ServerCounts(c) PROVE Goal
  <2>1. PICK entry : entry = IF pending[calls[c].request] = NoRequest THEN NoRequest
                             ELSE Attempted(pending[calls[c].request])
    OBVIOUS
  <2>2. Now(c, calls[c].client, "judge", calls[c].right, entry, calls[c].answer)
    BY <1>9, <2>1, ServerCopies
  <2> QED BY <1>2, <2>2 DEF Now
<1>10. ASSUME NEW c \in Call, ServerReplies(c) PROVE Goal
  <2>1. Now(c, calls[c].client, "forget", calls[c].right, calls[c].seen, Result(c, "ok"))
    BY <1>10, ServerAnswers
  <2>2. CASE b = c
    <3>1. calls[b].request \in approved /\ From(b) \in recorded[To(b)]
      BY <1>10, <2>2 DEF ServerReplies, HandlerSaved
    <3>2. calls'[b].request = calls[b].request /\ calls'[b].client = calls[b].client
      BY <2>1, <2>2 DEF Now
    <3>3. From(b)' = From(b) /\ To(b)' = To(b)
      BY <1>1, <3>2, SamePlaces
    <3> QED BY <1>1, <3>1, <3>2, <3>3 DEF CallerSaved
  <2>3. CASE b # c
    BY <1>2, <2>1, <2>3 DEF Now
  <2> QED BY <2>2, <2>3
<1>11. ASSUME NEW c \in Call, ServerJudges(c) \/ ServerSaves(c) \/ ServerForgets(c) \/ ConfirmLost(c)
       PROVE Goal
  <2>1. /\ calls'[b].request = calls[b].request
        /\ calls'[b].client = calls[b].client
        /\ calls'[b].answer = "ok" => calls[b].answer = "ok"
    <3>1. CASE ServerJudges(c)
      BY <3>1, ServerAdmits, ServerRefuses DEF ServerJudges, Result, Now
    <3>2. CASE ServerSaves(c)
      BY <3>2, ServerMoves, ServerRefuses DEF ServerSaves, RefuseUnsaved, Result, Now
    <3>3. CASE ServerForgets(c)
      BY <3>3, ServerMoves DEF ServerForgets, Now
    <3>4. CASE ConfirmLost(c)
      BY <3>4, ServerDrops DEF Now
    <3> QED BY <1>11, <3>1, <3>2, <3>3, <3>4
  <2> QED BY <1>2, <2>1
<1>12. ASSUME NEW d \in Device, Restart(d) PROVE Goal
  <2>1. /\ calls'[b].request = calls[b].request
        /\ calls'[b].client \in {calls[b].client, "idle"}
        /\ calls'[b].answer \in {calls[b].answer, "none"}
    BY <1>12, Restarts
  <2> QED BY <1>2, <2>1
<1> QED BY <1>3, <1>4, <1>5, <1>6, <1>7, <1>8, <1>9, <1>10, <1>11, <1>12, CallCases
       DEF ServerStep, ClientStep

LEMMA NextApproval ==
  TypeOK /\ Ahead /\ HandlerSaved /\ CallerSaved /\ PairedByApproval /\ [Next]_vars
    => PairedByApproval'
<1> SUFFICES ASSUME TypeOK, Ahead, HandlerSaved, CallerSaved, PairedByApproval, [Next]_vars,
                    NEW d \in Device, NEW e \in paired'[d] \cup recorded'[d]
             PROVE  \E r \in approved' : Between(r, d, e)'
  BY DEF PairedByApproval
<1>1. e \in paired'[d]
  BY Grows DEF Ahead
<1>2. \A r : Between(r, d, e)' <=> Between(r, d, e)
  <2>1. ends' = ends
    BY Grows
  <2> QED BY <2>1 DEF Between
<1>3. CASE e \in paired[d]
  <2>1. PICK r \in approved : Between(r, d, e)
    BY <1>3 DEF PairedByApproval
  <2> QED BY <1>2, <2>1, Grows
<1>4. ASSUME NEW c \in Call, calls[c].client = "save" \/ calls[c].server = "save",
             {d, e} = {From(c), To(c)}
      PROVE  \E r \in approved' : Between(r, d, e)'
  <2>1. calls[c].request \in approved
    BY <1>4 DEF HandlerSaved, CallerSaved
  <2>2. Between(calls[c].request, d, e)
    BY <1>4, Places DEF Between
  <2> QED BY <1>2, <2>1, <2>2, Grows
<1> QED BY <1>1, <1>3, <1>4, Grows

LEMMA NextMutual ==
  TypeOK /\ Ahead /\ CallerSaved /\ ConfirmedIsMutual /\ [Next]_vars => ConfirmedIsMutual'
<1> SUFFICES ASSUME TypeOK, Ahead, CallerSaved, ConfirmedIsMutual, [Next]_vars,
                    NEW r \in confirmed', NEW d, NEW e,
                    d = ends'[r]["from"], e = ends'[r]["to"]
             PROVE  /\ e \in paired'[d] \cap recorded'[d]
                    /\ d \in paired'[e] \cap recorded'[e]
  BY DEF ConfirmedIsMutual
<1>1. /\ ends' = ends
      /\ \A x \in Device : recorded[x] \subseteq recorded'[x] /\ recorded'[x] \subseteq paired'[x]
  BY Grows DEF Ahead
<1>2. r \in confirmed \/ \E c \in Call : ClientForgets(c) /\ r = calls[c].request
  BY DEF Next, vars, history, StartPairing, HandlePairRequest, ReadChallenge, StartFails,
     Approve, Discard, ExpireRequest, ExpireSession, ConfirmPairing, ClientStep, ServerStep,
     ReadResult, ClientSaves, ClientForgets, ClientLost, ServerCounts, ServerJudges, ServerSaves,
     ServerReplies, ServerForgets, ConfirmLost, SaveConfig, Restart
<1>3. r \in Request
  BY <1>2, Places DEF TypeOK
<1>4. d \in Device /\ e \in Device
  BY <1>1, <1>3 DEF TypeOK, Ends, End
<1>5. e \in recorded[d] /\ d \in recorded[e]
  <2>1. CASE r \in confirmed
    BY <1>1, <2>1 DEF ConfirmedIsMutual
  <2>2. ASSUME NEW c \in Call, ClientForgets(c), r = calls[c].request
        PROVE  e \in recorded[d] /\ d \in recorded[e]
    BY <1>1, <2>2 DEF CallerSaved, ClientForgets, From, To
  <2> QED BY <1>2, <2>1, <2>2
<1> QED BY <1>1, <1>4, <1>5

LEMMA InitSaved == Init => Saved
<1> SUFFICES ASSUME Init PROVE Saved
  OBVIOUS
<1>1. \A c \in Call : /\ calls[c].client = "idle" /\ calls[c].server = "idle"
                      /\ calls[c].seen = NoRequest /\ calls[c].answer = "none"
  BY DEF Init
<1>2. TypeOK
  BY InitType
<1>3. Ahead /\ PairedByApproval /\ ConfirmedIsMutual
  BY DEF Init, Ahead, PairedByApproval, ConfirmedIsMutual
<1>4. CopiesApproved
  BY <1>1 DEF Init, CopiesApproved
<1>5. HandlerSaved /\ CallerSaved
  BY <1>1 DEF HandlerSaved, CallerSaved
<1> QED BY <1>2, <1>3, <1>4, <1>5 DEF Saved

LEMMA NextSaved == Saved /\ [Next]_vars => Saved'
BY NextType, Grows, NextCopies, NextHandler, NextCaller, NextApproval, NextMutual DEF Saved

\* A device is paired, in memory or on disk, only with a device whose request,
\* or to which a request, a user has approved.
THEOREM PairedAfterApproval == Spec => []PairedByApproval
<1>1. Saved => PairedByApproval
  BY DEF Saved
<1> QED BY <1>1, InitSaved, NextSaved, PTL DEF Spec

\* What ConfirmPairing has reported as done is on disk on both devices.
THEOREM ConfirmedOnBoth == Spec => []ConfirmedIsMutual
<1>1. Saved => ConfirmedIsMutual
  BY DEF Saved
<1> QED BY <1>1, InitSaved, NextSaved, PTL DEF Spec

-----------------------------------------------------------------------------
(* No device is left paired alone                                          *)

\* Without faults, the caller of a handler at work waits for its answer.
CallerWaits ==
  faults = 0 => \A c \in Call : calls[c].server \in {"count", "judge", "save", "reply"} =>
                                  calls[c].client = "wait" /\ calls[c].answer = "none"

\* The caller is going to save the device.
Owes(c) == \/ calls[c].client = "save"
           \/ calls[c].client = "wait" /\ (calls[c].server = "reply" \/ calls[c].answer = "ok")

\* A device has another one as paired first only while that one owes it the same.
OneIsOwed ==
  faults = 0 => \A d \in Device : \A e \in paired[d] :
    d \in paired[e] \/ \E c \in Call : From(c) = e /\ To(c) = d /\ Owes(c)

LEMMA FaultsGrow ==
  ASSUME TypeOK, [Next]_vars, faults' = 0
  PROVE  /\ faults = 0
         /\ \A d \in Device : ~Restart(d)
         /\ \A c \in Call : ~ClientLost(c) /\ ~ConfirmLost(c)
         /\ \A c \in Call : ClientSaves(c) =>
              SavePairedDevice(From(c), To(c)) /\ ClientAt(c, "forget")
         /\ \A c \in Call : ServerSaves(c) =>
              SavePairedDevice(To(c), From(c)) /\ ServerAt(c, "reply")
<1>1. ~Fault
  BY PairingAssumption DEF Fault, TypeOK
<1>2. UNCHANGED faults \/ Fault
  BY DEF Next, vars, history, StartPairing, HandlePairRequest, ReadChallenge, StartFails,
     Approve, Discard, ExpireRequest, ExpireSession, ConfirmPairing, ClientStep, ServerStep,
     ReadResult, ClientSaves, ClientForgets, ClientLost, ServerCounts, ServerJudges, ServerSaves,
     ServerReplies, ServerForgets, ConfirmLost, SaveConfig, Restart
<1>3. faults = 0
  BY <1>1, <1>2
<1>4. /\ \A d \in Device : ~Restart(d)
      /\ \A c \in Call : ~ClientLost(c) /\ ~ConfirmLost(c)
  BY <1>1 DEF Restart, ClientLost, ConfirmLost
<1>5. \A c \in Call : ClientSaves(c) => SavePairedDevice(From(c), To(c)) /\ ClientAt(c, "forget")
  BY <1>1 DEF ClientSaves
<1>6. \A c \in Call : ServerSaves(c) => SavePairedDevice(To(c), From(c)) /\ ServerAt(c, "reply")
  BY <1>1 DEF ServerSaves
<1> QED BY <1>3, <1>4, <1>5, <1>6

LEMMA NextWaits == TypeOK /\ CallerWaits /\ [Next]_vars => CallerWaits'
<1> SUFFICES ASSUME TypeOK, CallerWaits, [Next]_vars, faults' = 0, NEW b \in Call,
                    calls'[b].server \in {"count", "judge", "save", "reply"}
             PROVE  calls'[b].client = "wait" /\ calls'[b].answer = "none"
  BY DEF CallerWaits
<1> DEFINE Goal == calls'[b].client = "wait" /\ calls'[b].answer = "none"
<1>1. faults = 0
  BY FaultsGrow
<1>2. ASSUME calls[b].server \in {"count", "judge", "save", "reply"},
             calls'[b].client = calls[b].client, calls'[b].answer = calls[b].answer
      PROVE  Goal
  BY <1>1, <1>2 DEF CallerWaits
<1>3. CASE UNCHANGED calls
  BY <1>2, <1>3
<1>4. ASSUME NEW r \in Request, ExpireRequest(r) PROVE Goal
  BY <1>2, <1>4, Expires
<1>5. ASSUME NEW c \in Call, NEW r \in Request, NEW right \in BOOLEAN, ConfirmPairing(c, r, right)
      PROVE  Goal
  <2>1. CASE b = c
    BY <1>5, <2>1, Confirms
  <2>2. CASE b # c
    <3>1. calls'[b] = calls[b]
      BY <1>5, <2>2, Confirms
    <3> QED BY <1>2, <3>1
  <2> QED BY <2>1, <2>2
<1>6. ASSUME NEW c \in Call, ClientStep(c) PROVE Goal
  <2>1. /\ calls'[b].server = calls[b].server
        /\ b # c => calls'[b] = calls[b]
    BY <1>6, ClientMoves, ClientEnds
    DEF ClientStep, ReadResult, ClientSaves, ClientForgets, ClientLost, Now
  <2>2. CASE b = c
    <3>1. calls[c].client = "wait" /\ calls[c].answer = "none"
      BY <1>1, <2>1, <2>2 DEF CallerWaits
    <3> QED BY <1>6, <3>1, FaultsGrow DEF ClientStep, ReadResult, ClientSaves, ClientForgets
  <2> QED BY <1>2, <2>1, <2>2
<1>7. ASSUME NEW c \in Call, ServerStep(c) PROVE Goal
  <2>1. CASE b # c
    <3>1. PICK entry : entry = IF pending[calls[c].request] = NoRequest THEN NoRequest
                               ELSE Attempted(pending[calls[c].request])
      OBVIOUS
    <3>2. calls'[b] = calls[b]
      BY <1>7, <2>1, <3>1, ServerMoves, ServerRefuses, ServerAdmits, ServerAnswers, ServerDrops,
         ServerCopies
      DEF ServerStep, ServerJudges, ServerSaves, RefuseUnsaved, ServerForgets, Now
    <3> QED BY <1>2, <3>2
  <2>2. CASE b = c /\ ServerCounts(c)
    <3>1. PICK entry : entry = IF pending[calls[c].request] = NoRequest THEN NoRequest
                               ELSE Attempted(pending[calls[c].request])
      OBVIOUS
    <3>2. Now(c, calls[c].client, "judge", calls[c].right, entry, calls[c].answer)
      BY <2>2, <3>1, ServerCopies
    <3> QED BY <1>2, <2>2, <3>2 DEF ServerCounts, Now
  <2>3. CASE b = c /\ ServerJudges(c)
    <3>1. Admit(c)
      BY <2>3, ServerRefuses DEF ServerJudges, Now
    <3> QED BY <1>2, <2>3, <3>1, ServerAdmits DEF ServerJudges, Now
  <2>4. CASE b = c /\ ServerSaves(c)
    <3>1. ServerAt(c, "reply")
      BY <2>4, FaultsGrow
    <3> QED BY <1>2, <2>4, <3>1, ServerMoves DEF ServerSaves, Now
  <2>5. CASE b = c /\ (ServerReplies(c) \/ ServerForgets(c))
    BY <2>5, ServerAnswers, ServerMoves DEF ServerForgets, Now
  <2> QED BY <1>7, <2>1, <2>2, <2>3, <2>4, <2>5, FaultsGrow DEF ServerStep
<1> QED BY <1>3, <1>4, <1>5, <1>6, <1>7, CallCases, FaultsGrow

\* A debt stays until the device is saved.
LEMMA StillOwes ==
  ASSUME TypeOK, CallerWaits, [Next]_vars, faults' = 0, NEW b \in Call, Owes(b),
         ~ClientSaves(b)
  PROVE  calls'[b].request = calls[b].request /\ Owes(b)'
<1> DEFINE Goal == calls'[b].request = calls[b].request /\ Owes(b)'
<1>1. ASSUME calls'[b].request = calls[b].request, calls'[b].client = calls[b].client,
             calls'[b].server = calls[b].server, calls'[b].answer = calls[b].answer
      PROVE  Goal
  BY <1>1 DEF Owes
<1>2. CASE UNCHANGED calls
  BY <1>1, <1>2
<1>3. ASSUME NEW r \in Request, ExpireRequest(r) PROVE Goal
  BY <1>1, <1>3, Expires
<1>4. ASSUME NEW c \in Call, NEW r \in Request, NEW right \in BOOLEAN, ConfirmPairing(c, r, right)
      PROVE  Goal
  <2>1. b # c
    BY <1>4 DEF ConfirmPairing, Idle, Owes
  <2>2. calls'[b] = calls[b]
    BY <1>4, <2>1, Confirms
  <2> QED BY <1>1, <2>2
<1>5. ASSUME NEW c \in Call, ClientStep(c) PROVE Goal
  <2>1. CASE b # c
    <3>1. calls'[b] = calls[b]
      BY <1>5, <2>1, ClientMoves, ClientEnds
      DEF ClientStep, ReadResult, ClientSaves, ClientForgets, ClientLost, Now
    <3> QED BY <1>1, <3>1
  <2>2. CASE b = c
    <3>1. ReadResult(c)
      BY <1>5, <2>2, FaultsGrow DEF ClientStep, ClientForgets, Owes
    <3>2. calls[c].answer = "ok"
      BY <2>2, <3>1, FaultsGrow DEF ReadResult, Owes, CallerWaits
    <3>3. ClientAt(c, "save")
      BY <3>1, <3>2 DEF ReadResult, Successful
    <3> QED BY <2>2, <3>3, ClientMoves DEF Now, Owes
  <2> QED BY <2>1, <2>2
<1>6. ASSUME NEW c \in Call, ServerStep(c) PROVE Goal
  <2>1. CASE b # c
    <3>1. PICK entry : entry = IF pending[calls[c].request] = NoRequest THEN NoRequest
                               ELSE Attempted(pending[calls[c].request])
      OBVIOUS
    <3>2. calls'[b] = calls[b]
      BY <1>6, <2>1, <3>1, ServerMoves, ServerRefuses, ServerAdmits, ServerAnswers, ServerDrops,
         ServerCopies
      DEF ServerStep, ServerJudges, ServerSaves, RefuseUnsaved, ServerForgets, Now
    <3> QED BY <1>1, <3>2
  <2>2. CASE b = c /\ ServerReplies(c)
    <3>1. calls[c].client = "wait"
      BY <2>2, FaultsGrow DEF ServerReplies, CallerWaits
    <3>2. Result(c, "ok") = "ok"
      BY <3>1 DEF Result
    <3>3. Now(c, "wait", "forget", calls[c].right, calls[c].seen, "ok")
      BY <2>2, <3>1, <3>2, ServerAnswers
    <3>4. /\ calls'[c].request = calls[c].request
          /\ calls'[c].client = "wait"
          /\ calls'[c].answer = "ok"
      BY <3>3 DEF Now
    <3> QED BY <2>2, <3>4 DEF Owes
  <2>3. CASE b = c /\ ServerForgets(c)
    BY <2>3, ServerMoves DEF ServerForgets, Now, Owes
  <2>4. CASE b = c /\ (ServerCounts(c) \/ ServerJudges(c) \/ ServerSaves(c))
    <3>1. calls[c].client = "wait" /\ calls[c].answer = "none" /\ calls[c].server # "reply"
      BY <2>4, FaultsGrow DEF ServerCounts, ServerJudges, ServerSaves, CallerWaits
    <3> QED BY <2>4, <3>1 DEF Owes
  <2> QED BY <1>6, <2>1, <2>2, <2>3, <2>4, FaultsGrow DEF ServerStep
<1> QED BY <1>2, <1>3, <1>4, <1>5, <1>6, CallCases, FaultsGrow

LEMMA NextOwed ==
  TypeOK /\ Ahead /\ CallerSaved /\ CallerWaits /\ OneIsOwed /\ [Next]_vars => OneIsOwed'
<1> SUFFICES ASSUME TypeOK, Ahead, CallerSaved, CallerWaits, OneIsOwed, [Next]_vars,
                    faults' = 0, NEW d \in Device, NEW e \in paired'[d]
             PROVE  d \in paired'[e] \/ \E c \in Call : From(c)' = e /\ To(c)' = d /\ Owes(c)'
  BY DEF OneIsOwed
<1>1. faults = 0
  BY FaultsGrow
<1>2. /\ ends' = ends
      /\ \A x \in Device : recorded'[x] \subseteq paired'[x] /\ recorded[x] \subseteq recorded'[x]
  BY Grows DEF Ahead
<1>3. \/ UNCHANGED paired
      \/ \E c \in Call : ClientSaves(c) \/ ServerSaves(c)
  BY FaultsGrow DEF Next, vars, config, StartPairing, HandlePairRequest, ReadChallenge, StartFails,
     Approve, Discard, ExpireRequest, ExpireSession, ConfirmPairing, ClientStep, ServerStep,
     ReadResult, ClientForgets, ServerCounts, ServerJudges,
     ServerReplies, ServerForgets, SaveConfig
<1>4. \A x \in Device : paired[x] \subseteq paired'[x]
  BY <1>3, FaultsGrow DEF SavePairedDevice, TypeOK
<1>5. ASSUME NEW c \in Call, ClientSaves(c) PROVE To(c) \in paired'[From(c)] /\ From(c) \in paired'[To(c)]
  <2>1. SavePairedDevice(From(c), To(c))
    BY <1>5, FaultsGrow
  <2>2. To(c) \in paired'[From(c)]
    BY <2>1, Places DEF SavePairedDevice, TypeOK
  <2>3. From(c) \in recorded[To(c)]
    BY <1>5 DEF ClientSaves, CallerSaved
  <2> QED BY <1>2, <2>2, <2>3, Places
<1>6. CASE e \in paired[d]
  <2>1. CASE d \in paired[e]
    <3>1. e \in Device
      BY <1>6 DEF TypeOK
    <3> QED BY <1>4, <2>1, <3>1
  <2>2. ASSUME NEW c \in Call, From(c) = e, To(c) = d, Owes(c)
        PROVE  d \in paired'[e] \/ (From(c)' = e /\ To(c)' = d /\ Owes(c)')
    <3>1. CASE ClientSaves(c)
      BY <1>5, <2>2, <3>1
    <3>2. CASE ~ClientSaves(c)
      <4>1. calls'[c].request = calls[c].request /\ Owes(c)'
        BY <2>2, <3>2, StillOwes
      <4> QED BY <1>2, <2>2, <4>1, SamePlaces
    <3> QED BY <3>1, <3>2
  <2> QED BY <1>1, <1>6, <2>1, <2>2 DEF OneIsOwed
<1>7. CASE e \notin paired[d]
  <2>1. PICK c \in Call : ClientSaves(c) \/ ServerSaves(c)
    BY <1>3, <1>7
  <2>2. CASE ClientSaves(c)
    <3>1. d = From(c) /\ e = To(c)
      BY <1>7, <2>2, FaultsGrow, Places DEF SavePairedDevice, TypeOK
    <3> QED BY <1>5, <2>2, <3>1
  <2>3. CASE ServerSaves(c)
    <3>1. SavePairedDevice(To(c), From(c)) /\ ServerAt(c, "reply")
      BY <2>3, FaultsGrow
    <3>2. d = To(c) /\ e = From(c)
      BY <1>7, <3>1, Places DEF SavePairedDevice, TypeOK
    <3>3. calls[c].client = "wait"
      BY <1>1, <2>3 DEF ServerSaves, CallerWaits
    <3>4. /\ calls'[c].request = calls[c].request
          /\ calls'[c].client = "wait"
          /\ calls'[c].server = "reply"
      BY <3>1, <3>3, ServerMoves DEF Now
    <3>5. Owes(c)'
      BY <3>4 DEF Owes
    <3> QED BY <1>2, <3>2, <3>4, <3>5, SamePlaces
  <2> QED BY <2>1, <2>2, <2>3
<1> QED BY <1>6, <1>7

\* Without a failure between the two records, no device is left paired alone.
THEOREM PairedTogether == Spec => []OneSidedOnlyIfDisturbed
<1> DEFINE IInv == Saved /\ CallerWaits /\ OneIsOwed
<1>1. Init => IInv
  <2>1. Init => CallerWaits
    BY DEF Init, CallerWaits
  <2>2. Init => OneIsOwed
    BY DEF Init, OneIsOwed
  <2> QED BY <2>1, <2>2, InitSaved
<1>2. IInv /\ [Next]_vars => IInv'
  <2>1. Saved => TypeOK /\ Ahead /\ CallerSaved
    BY DEF Saved
  <2> QED BY <2>1, NextSaved, NextWaits, NextOwed
<1>3. IInv => OneSidedOnlyIfDisturbed
  BY DEF OneIsOwed, OneSidedOnlyIfDisturbed, AtRest, Idle, Owes, Saved, TypeOK
<1> QED BY <1>1, <1>2, <1>3, PTL DEF Spec

-----------------------------------------------------------------------------
(* How often a code is compared                                            *)

\* The handlers that may still compare the code of a request: their copy has
\* an attempt the request admits.
Open(r) == {c \in Call : /\ calls[c].server = "judge"
                         /\ calls[c].request = r
                         /\ calls[c].seen # NoRequest
                         /\ calls[c].seen.attempts <= Guesses}

\* What has been compared and what may still be is paid for by the attempts
\* the entry counts; once the entry is gone, no handler comes to Open.
Paid == \A r \in Request :
  /\ compared[r] + Cardinality(Open(r)) <= Guesses
  /\ pending[r] # NoRequest => compared[r] + Cardinality(Open(r)) <= pending[r].attempts

\* A request that has not been served has no entry and no handler.
Unserved == \A r \in Request : stage[r] \in {"new", "sent"} =>
  pending[r] = NoRequest /\ compared[r] = 0 /\ Open(r) = {}

LEMMA OpenFinite ==
  ASSUME NEW r
  PROVE  IsFiniteSet(Open(r)) /\ Cardinality(Open(r)) \in Nat
<1>1. Open(r) \in SUBSET Call
  BY DEF Open
<1> QED BY <1>1, PairingAssumption, FS_Subset, FS_CardinalityType

\* A step that admits no handler, compares no code and takes no attempt back.
LEMMA StaysPaid ==
  ASSUME TypeOK, Paid, Unserved, NEW r \in Request,
         Open(r)' \subseteq Open(r), compared'[r] = compared[r],
         \/ pending'[r] = NoRequest
         \/ /\ pending[r] # NoRequest /\ pending'[r] # NoRequest
            /\ pending'[r].attempts = pending[r].attempts,
         stage'[r] \in {"new", "sent"} => stage[r] \in {"new", "sent"}
  PROVE  /\ compared'[r] + Cardinality(Open(r)') <= Guesses
         /\ pending'[r] # NoRequest => compared'[r] + Cardinality(Open(r)') <= pending'[r].attempts
         /\ stage'[r] \in {"new", "sent"} =>
              pending'[r] = NoRequest /\ compared'[r] = 0 /\ Open(r)' = {}
<1> DEFINE was == Open(r)
           is == Open(r)'
<1>1. is \in SUBSET was /\ IsFiniteSet(was) /\ Cardinality(was) \in Nat
  BY OpenFinite
<1>2. /\ compared[r] + Cardinality(was) <= Guesses
      /\ pending[r] # NoRequest => compared[r] + Cardinality(was) <= pending[r].attempts
      /\ stage[r] \in {"new", "sent"} =>
           pending[r] = NoRequest /\ compared[r] = 0 /\ was = {}
  BY DEF Paid, Unserved
<1> HIDE DEF was, is
<1>3. Cardinality(is) \in Nat /\ Cardinality(is) <= Cardinality(was)
  BY <1>1, FS_Subset, FS_CardinalityType
<1>4. compared[r] \in Nat /\ (pending[r] # NoRequest => pending[r].attempts \in Nat)
  BY PairingAssumption DEF TypeOK, Pending
<1>5. compared'[r] + Cardinality(is) <= compared[r] + Cardinality(was)
  BY <1>1, <1>3, <1>4
<1>6. compared'[r] + Cardinality(is) <= Guesses
  BY <1>1, <1>2, <1>3, <1>4, <1>5, PairingAssumption
<1>7. pending'[r] # NoRequest => compared'[r] + Cardinality(is) <= pending'[r].attempts
  BY <1>1, <1>2, <1>3, <1>4, <1>5
<1>8. stage'[r] \in {"new", "sent"} =>
        pending'[r] = NoRequest /\ compared'[r] = 0 /\ is = {}
  BY <1>1, <1>2
<1> QED BY <1>6, <1>7, <1>8 DEF is

LEMMA NextPaid == TypeOK /\ Paid /\ Unserved /\ [Next]_vars => Paid' /\ Unserved'
<1> SUFFICES ASSUME TypeOK, Paid, Unserved, [Next]_vars, NEW r \in Request
             PROVE  /\ compared'[r] + Cardinality(Open(r)') <= Guesses
                    /\ pending'[r] # NoRequest =>
                         compared'[r] + Cardinality(Open(r)') <= pending'[r].attempts
                    /\ stage'[r] \in {"new", "sent"} =>
                         pending'[r] = NoRequest /\ compared'[r] = 0 /\ Open(r)' = {}
  BY DEF Paid, Unserved
<1> DEFINE Goal == /\ compared'[r] + Cardinality(Open(r)') <= Guesses
                   /\ pending'[r] # NoRequest =>
                        compared'[r] + Cardinality(Open(r)') <= pending'[r].attempts
                   /\ stage'[r] \in {"new", "sent"} =>
                        pending'[r] = NoRequest /\ compared'[r] = 0 /\ Open(r)' = {}
           Entry == \/ pending'[r] = NoRequest
                    \/ /\ pending[r] # NoRequest /\ pending'[r] # NoRequest
                       /\ pending'[r].attempts = pending[r].attempts
           Course == stage'[r] \in {"new", "sent"} => stage[r] \in {"new", "sent"}
<1> USE NoRequestAssumption
<1>1. /\ pending[r] \in Pending \cup {NoRequest}
      /\ compared[r] \in Nat
      /\ pending[r] # NoRequest => pending[r].attempts \in 0..(Guesses + 1)
  BY DEF TypeOK, Pending
<1>2. CASE UNCHANGED calls /\ compared' = compared /\ Entry /\ Course
  <2>1. Open(r)' = Open(r)
    BY <1>2 DEF Open
  <2> QED BY <1>2, <2>1, StaysPaid
<1>3. ASSUME NEW q \in Request, HandlePairRequest(q) PROVE Goal
  <2>1. UNCHANGED calls /\ compared' = compared /\ Course
    BY <1>3 DEF HandlePairRequest, history, TypeOK
  <2>2. CASE q # r
    <3>1. pending'[r] = pending[r]
      BY <1>3, <2>2 DEF HandlePairRequest, TypeOK
    <3> QED BY <1>2, <2>1, <3>1
  <2>3. CASE q = r
    <3>1. stage[r] = "sent" /\ stage'[r] \notin {"new", "sent"}
      BY <1>3, <2>3 DEF HandlePairRequest, TypeOK
    <3>2. compared[r] = 0 /\ Open(r) = {} /\ pending[r] = NoRequest
      BY <3>1 DEF Unserved
    <3>3. Open(r)' = {} /\ compared'[r] = 0
      BY <2>1, <3>2 DEF Open
    <3>4. pending'[r] \in {NoRequest, NewEntry}
      BY <1>3, <2>3, <3>2 DEF HandlePairRequest, TypeOK
    <3>5. NewEntry.attempts = 0
      BY DEF NewEntry
    <3> QED BY <3>1, <3>3, <3>4, <3>5, FS_EmptySet, PairingAssumption
  <2> QED BY <2>2, <2>3
<1>4. ASSUME NEW q \in Request, Approve(q) PROVE Goal
  <2>1. pending'[r] = pending[r] \/ pending'[r] = [pending[r] EXCEPT !.approved = TRUE]
    BY <1>4 DEF Approve, TypeOK
  <2>2. pending[r] # NoRequest => [pending[r] EXCEPT !.approved = TRUE] \in Pending
    BY <1>1 DEF Pending
  <2>3. pending[r] # NoRequest => [pending[r] EXCEPT !.approved = TRUE].attempts = pending[r].attempts
    BY <1>1 DEF Pending
  <2>4. pending'[r] = pending[r] \/ pending[r] # NoRequest
    BY <1>4 DEF Approve, TypeOK
  <2>5. Entry
    BY <2>1, <2>2, <2>3, <2>4
  <2> QED BY <1>2, <1>4, <2>5 DEF Approve, asking
<1>5. ASSUME NEW q \in Request, ExpireRequest(q) PROVE Goal
  <2>1. Open(r)' \subseteq Open(r)
    BY <1>5, Expires DEF Open
  <2>2. Entry
    BY <1>5, Expires
  <2> QED BY <1>5, <2>1, <2>2, StaysPaid DEF ExpireRequest, asking, history
<1>6. ASSUME NEW c \in Call, NEW q \in Request, NEW right \in BOOLEAN, ConfirmPairing(c, q, right)
      PROVE  Goal
  <2>1. Open(r)' \subseteq Open(r)
    BY <1>6, Confirms DEF Open
  <2> QED BY <1>6, <2>1, StaysPaid DEF ConfirmPairing, asking, history
<1>7. ASSUME NEW c \in Call, ClientStep(c) PROVE Goal
  <2>1. /\ \A b \in Call : /\ calls'[b].server = calls[b].server
                           /\ calls'[b].request = calls[b].request
                           /\ calls'[b].seen = calls[b].seen
        /\ UNCHANGED <<stage, pending, compared>>
    BY <1>7, ClientMoves, ClientEnds
    DEF ClientStep, ReadResult, ClientSaves, ClientForgets, ClientLost, Now, asking, history
  <2>2. Open(r)' \subseteq Open(r)
    BY <2>1 DEF Open
  <2> QED BY <2>1, <2>2, StaysPaid
<1>8. ASSUME NEW d \in Device, Restart(d) PROVE Goal
  <2>1. Open(r)' \subseteq Open(r)
    BY <1>8, Restarts DEF Open
  <2>2. Entry /\ Course
    BY <1>8 DEF Restart
  <2> QED BY <1>8, <2>1, <2>2, StaysPaid DEF Restart
<1>9. ASSUME NEW c \in Call, ServerCounts(c) PROVE Goal
  <2> DEFINE q == calls[c].request
             was == Open(r)
             is == Open(r)'
  <2>1. PICK entry : entry = IF pending[q] = NoRequest THEN NoRequest ELSE Attempted(pending[q])
    OBVIOUS
  <2>2. /\ entry \in Pending \cup {NoRequest}
        /\ pending' = [pending EXCEPT ![q] = entry]
        /\ Now(c, calls[c].client, "judge", calls[c].right, entry, calls[c].answer)
    BY <1>9, <2>1, ServerCopies
  <2>3. q \in Request /\ c \notin was
    BY <1>9, Places DEF ServerCounts, Open
  <2>4. UNCHANGED <<stage, compared>>
    BY <1>9 DEF ServerCounts, asking, history
  <2>5. CASE q # r \/ entry = NoRequest
    <3>1. is \subseteq was
      BY <2>2, <2>5 DEF Now, Open
    <3>2. \A e \in Pending : Attempted(e) \in Pending
      BY PairingAssumption DEF Attempted, Pending
    <3>3. entry = NoRequest => pending[q] = NoRequest
      BY <2>1, <2>3, <3>2 DEF TypeOK
    <3>4. pending'[r] = pending[r]
      BY <2>2, <2>3, <2>5, <3>3 DEF TypeOK
    <3> QED BY <2>4, <3>1, <3>4, StaysPaid
  <2>6. CASE q = r /\ entry # NoRequest
    <3>1. pending[r] # NoRequest /\ entry = Attempted(pending[r]) /\ pending'[r] = entry
      BY <2>1, <2>2, <2>3, <2>6 DEF TypeOK
    <3>2. entry.attempts = IF pending[r].attempts <= Guesses THEN pending[r].attempts + 1
                                                             ELSE pending[r].attempts
      BY <1>1, <3>1 DEF Attempted, Pending
    <3>3. is \in SUBSET (was \cup {c}) /\ (entry.attempts > Guesses => is \in SUBSET was)
      <4>1. \A b \in Call : b # c => (b \in is <=> b \in was)
        BY <2>2 DEF Now, Open
      <4>2. c \in is => entry.attempts <= Guesses
        BY <2>2 DEF Now, Open
      <4>3. is \in SUBSET Call
        BY DEF Open
      <4> QED BY <1>1, <3>2, <4>1, <4>2, <4>3, <3>1, PairingAssumption
    <3>4. IsFiniteSet(was) /\ Cardinality(was) \in Nat
      BY OpenFinite
    <3>5. /\ compared[r] + Cardinality(was) <= Guesses
          /\ compared[r] + Cardinality(was) <= pending[r].attempts
          /\ stage[r] \notin {"new", "sent"}
      BY <3>1 DEF Paid, Unserved
    <3> HIDE DEF was, is
    <3>6. IsFiniteSet(was \cup {c}) /\ Cardinality(was \cup {c}) = Cardinality(was) + 1
      BY <2>3, <3>4, FS_AddElement
    <3>7. /\ Cardinality(is) \in Nat
          /\ Cardinality(is) <= Cardinality(was) + 1
          /\ entry.attempts > Guesses => Cardinality(is) <= Cardinality(was)
      BY <3>3, <3>4, <3>6, FS_Subset, FS_CardinalityType
    <3>8. compared[r] + Cardinality(is) <= Guesses /\ compared[r] + Cardinality(is) <= entry.attempts
      BY <1>1, <3>1, <3>2, <3>4, <3>5, <3>7, PairingAssumption
    <3> QED BY <2>4, <3>1, <3>5, <3>8 DEF is
  <2> QED BY <2>5, <2>6
<1>10. ASSUME NEW c \in Call, ServerJudges(c) PROVE Goal
  <2> DEFINE q == calls[c].request
             was == Open(r)
             is == Open(r)'
  <2>1. UNCHANGED <<stage, pending>>
    BY <1>10 DEF ServerJudges, asking
  <2>2. q \in Request
    BY Places
  <2>3. is = was \ {c}
    <3>1. /\ calls'[c].server # "judge"
          /\ \A b \in Call : b # c => calls'[b] = calls[b]
      BY <1>10, ServerRefuses, ServerAdmits DEF ServerJudges, Now
    <3> QED BY <3>1 DEF Open
  <2>4. CASE q = r /\ Admitted(c)
    <3>1. compared'[r] = compared[r] + 1
      BY <1>10, <2>2, <2>4 DEF ServerJudges, TypeOK
    <3>2. c \in was
      BY <1>10, <2>4 DEF ServerJudges, Admitted, Open
    <3>3. IsFiniteSet(was) /\ Cardinality(was) \in Nat
      BY OpenFinite
    <3>4. stage[r] \notin {"new", "sent"}
      BY <3>2 DEF Unserved
    <3>5. /\ compared[r] + Cardinality(was) <= Guesses
          /\ pending[r] # NoRequest => compared[r] + Cardinality(was) <= pending[r].attempts
      BY DEF Paid
    <3> HIDE DEF was, is
    <3>6. Cardinality(is) = Cardinality(was) - 1
      BY <2>3, <3>2, <3>3, FS_RemoveElement
    <3>7. compared'[r] + Cardinality(is) = compared[r] + Cardinality(was)
      BY <1>1, <3>1, <3>3, <3>6
    <3> QED BY <2>1, <3>4, <3>5, <3>7 DEF is
  <2>5. CASE ~(q = r /\ Admitted(c))
    <3>1. compared'[r] = compared[r]
      BY <1>10, <2>2, <2>5 DEF ServerJudges, TypeOK
    <3> QED BY <2>1, <2>3, <3>1, StaysPaid
  <2> QED BY <2>4, <2>5
<1>11. ASSUME NEW c \in Call, ServerSaves(c) \/ ServerReplies(c) \/ ServerForgets(c) \/ ConfirmLost(c)
       PROVE  Goal
  <2>1. Open(r)' \subseteq Open(r)
    BY <1>11, ServerMoves, ServerRefuses, ServerAnswers, ServerDrops
    DEF ServerSaves, RefuseUnsaved, ServerForgets, ConfirmLost, Now, Open
  <2>2. UNCHANGED <<stage, compared>>
    BY <1>11 DEF ServerSaves, ServerReplies, ServerForgets, ConfirmLost, asking, history
  <2>3. pending'[r] \in {pending[r], NoRequest}
    BY <1>11 DEF ServerSaves, ServerReplies, ServerForgets, ConfirmLost, TypeOK
  <2> QED BY <2>1, <2>2, <2>3, StaysPaid
<1>12. ASSUME NEW q \in Request,
              StartPairing(q) \/ ReadChallenge(q) \/ StartFails(q) \/ Discard(q) \/ ExpireSession(q)
       PROVE  Goal
  <2>1. UNCHANGED calls /\ compared' = compared
    BY <1>12 DEF StartPairing, ReadChallenge, StartFails, Discard, ExpireSession, history
  <2>2. Course
    BY <1>12 DEF StartPairing, ReadChallenge, StartFails, Discard, ExpireSession, asking, TypeOK
  <2>3. pending'[r] \in {pending[r], NoRequest}
    BY <1>12 DEF StartPairing, ReadChallenge, StartFails, Discard, ExpireSession, TypeOK
  <2> QED BY <1>2, <2>1, <2>2, <2>3
<1>13. CASE UNCHANGED vars \/ \E d \in Device : SaveConfig(d)
  BY <1>2, <1>13 DEF vars, SaveConfig, asking, history
<1> QED BY <1>3, <1>4, <1>5, <1>6, <1>7, <1>8, <1>9, <1>10, <1>11, <1>12, <1>13
        DEF Next, ServerStep

\* A code is compared no more often than the request admits attempts, for any
\* number of confirmations at the same time.
THEOREM ComparedAtMost == Spec => []FewGuesses
<1> DEFINE IInv == TypeOK /\ Paid /\ Unserved
<1>1. Init => IInv
  <2> SUFFICES ASSUME Init PROVE IInv
    OBVIOUS
  <2>1. \A r \in Request : /\ pending[r] = NoRequest /\ compared[r] = 0
                           /\ Open(r) = {}
    BY DEF Init, Open
  <2>2. Paid
    BY <2>1, FS_EmptySet, PairingAssumption DEF Paid
  <2>3. Unserved
    BY <2>1 DEF Unserved
  <2> QED BY <2>2, <2>3, InitType
<1>2. IInv /\ [Next]_vars => IInv'
  BY NextType, NextPaid
<1>3. IInv => FewGuesses
  <2> SUFFICES ASSUME IInv, NEW r \in Request PROVE compared[r] <= Guesses
    BY DEF FewGuesses
  <2>1. compared[r] \in Nat /\ Cardinality(Open(r)) \in Nat
        /\ compared[r] + Cardinality(Open(r)) <= Guesses
    BY OpenFinite DEF TypeOK, Paid
  <2> QED BY <2>1, PairingAssumption
<1> QED BY <1>1, <1>2, <1>3, PTL DEF Spec
=============================================================================
