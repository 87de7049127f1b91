------------------------------ MODULE Pairing ------------------------------
(***************************************************************************)
(* Pairing of devices (internal/service/pairing.go): a device asks another *)
(* one, whose user approves the request and reads out a code, which the    *)
(* user of the first device types in.  Requests and sessions are kept in   *)
(* memory; a finished pairing is in the configuration of either device     *)
(* (PairedDevices, internal/store/store.go), and nothing takes it out.     *)
(*                                                                         *)
(* Several pairings, in either direction, and several confirmations of one *)
(* pairing may be under way.  A connection may break before or after the   *)
(* other end has acted on it; a configuration may fail to be written; a    *)
(* device may restart between any two steps; the sixty seconds of a        *)
(* request pass at any time, for the two ends each by its own clock.       *)
(*                                                                         *)
(* Left out: addresses and discovery; keys, nonces and signatures, which   *)
(* hold between the two devices of a request.  A code is right or wrong,   *)
(* and may be right by a guess.                                            *)
(***************************************************************************)
EXTENDS Naturals, FiniteSets

CONSTANTS Device,
          Request,   \* the random ids of requests and of their sessions
          Call,      \* slots for calls of ConfirmPairing in progress
          Guesses,   \* confirmations a request admits; 3 in the code
          MaxFaults, \* bound: failures of connections, writes and processes
          NoRequest

ASSUME PairingAssumption == /\ IsFiniteSet(Call)
                            /\ Guesses \in Nat
                            /\ MaxFaults \in Nat

VARIABLES
  paired,    \* per device, its paired devices in memory
  recorded,  \* per device, those of config.json
  ends,      \* per request, the devices it is from and to (it never changes)
  stage,     \* per request, how far StartPairing is
  pending,   \* per request, its entry in the other device's pairingRequests
  session,   \* per request, its entry in the asking device's outboundPairs
  calls,     \* per slot, ConfirmPairing and the handlePairConfirm that serves it
  approved,  \* the requests a user has approved (history variable)
  compared,  \* per request, how often its code was compared (history variable)
  confirmed, \* the requests ConfirmPairing succeeded for (history variable)
  faults     \* failures of connections, writes and processes so far

config == <<paired, recorded>>
asking == <<ends, stage>>
history == <<approved, compared, confirmed>>
vars == <<config, asking, pending, session, calls, history, faults>>

-----------------------------------------------------------------------------
End == {"from", "to"}
Ends == [End -> Device]
Stage == {"new", "sent", "challenged", "over"}

\* pendingPair.  Beyond the limit the attempts are not told apart.
Pending == [approved : BOOLEAN, attempts : 0..(Guesses + 1), expired : BOOLEAN]
ASSUME NoRequestAssumption == NoRequest \notin Pending

\* client: ConfirmPairing; server: its handler, by the step it takes next.
\* seen: the handler's copy of the request; answer: the result on the wire.
CallState == [client : {"idle", "wait", "save", "forget"},
              server : {"idle", "count", "judge", "save", "reply", "forget"},
              request : Request, right : BOOLEAN,
              seen : Pending \cup {NoRequest}, answer : {"none", "ok", "refused"}]

TypeOK ==
  /\ paired \in [Device -> SUBSET Device]
  /\ recorded \in [Device -> SUBSET Device]
  /\ ends \in [Request -> Ends]
  /\ stage \in [Request -> Stage]
  /\ pending \in [Request -> Pending \cup {NoRequest}]
  /\ session \in [Request -> {"none", "open", "expired"}]
  /\ calls \in [Call -> CallState]
  /\ approved \in SUBSET Request
  /\ compared \in [Request -> Nat]
  /\ confirmed \in SUBSET Request
  /\ faults \in 0..MaxFaults

Fault == faults < MaxFaults /\ faults' = faults + 1

From(c) == ends[calls[c].request]["from"]
To(c) == ends[calls[c].request]["to"]

-----------------------------------------------------------------------------
(* The configuration                                                       *)

\* SavePairedDevice: the device is in the list before the list is written.
SavePairedDevice(d, e) ==
  /\ paired' = [paired EXCEPT ![d] = @ \cup {e}]
  /\ recorded' = [recorded EXCEPT ![d] = paired[d] \cup {e}]

SaveFails(d, e) ==
  /\ paired' = [paired EXCEPT ![d] = @ \cup {e}]
  /\ UNCHANGED recorded

\* Any other change of the configuration writes the whole of it.
SaveConfig(d) ==
  /\ recorded' = [recorded EXCEPT ![d] = paired[d]]
  /\ UNCHANGED <<paired, asking, pending, session, calls, history, faults>>

-----------------------------------------------------------------------------
(* A request: StartPairing, handlePairRequest and the user of the device   *)

StartPairing(r) ==
  /\ stage[r] = "new"
  /\ ends[r]["to"] \notin paired[ends[r]["from"]]
  /\ stage' = [stage EXCEPT ![r] = "sent"]
  /\ UNCHANGED <<config, ends, pending, session, calls, history, faults>>

NewEntry == [approved |-> FALSE, attempts |-> 0, expired |-> FALSE]

\* Refuses a device it has as paired.
HandlePairRequest(r) ==
  LET accepts == ends[r]["from"] \notin paired[ends[r]["to"]] IN
  /\ stage[r] = "sent"
  /\ stage' = [stage EXCEPT ![r] = IF accepts THEN "challenged" ELSE "over"]
  /\ pending' = IF accepts THEN [pending EXCEPT ![r] = NewEntry]
                           ELSE pending
  /\ UNCHANGED <<config, ends, session, calls, history, faults>>

ReadChallenge(r) ==
  /\ stage[r] = "challenged"
  /\ stage' = [stage EXCEPT ![r] = "over"]
  /\ session' = [session EXCEPT ![r] = "open"]
  /\ UNCHANGED <<config, ends, pending, calls, history, faults>>

\* The request is not served, or its challenge not read.
StartFails(r) ==
  /\ stage[r] \in {"sent", "challenged"}
  /\ stage' = [stage EXCEPT ![r] = "over"]
  /\ UNCHANGED <<config, ends, pending, session, calls, history, faults>>

Approve(r) ==
  /\ pending[r] # NoRequest
  /\ ~pending[r].expired
  /\ pending' = [pending EXCEPT ![r].approved = TRUE]
  /\ approved' = approved \cup {r}
  /\ UNCHANGED <<config, asking, session, calls, compared, confirmed, faults>>

\* RejectPairingRequest, at any time; PairingRequests, once it has expired.
Discard(r) ==
  /\ pending[r] # NoRequest
  /\ pending' = [pending EXCEPT ![r] = NoRequest]
  /\ UNCHANGED <<config, asking, session, calls, history, faults>>

\* Its sixty seconds are over, for one end; a copy has the deadline too.
ExpireRequest(r) ==
  /\ pending' = IF pending[r] = NoRequest THEN pending
                ELSE [pending EXCEPT ![r].expired = TRUE]
  /\ calls' = [c \in Call |-> IF calls[c].request = r /\ calls[c].seen # NoRequest
                              THEN [calls[c] EXCEPT !.seen.expired = TRUE] ELSE calls[c]]
  /\ UNCHANGED <<config, asking, session, history, faults>>

ExpireSession(r) ==
  /\ session[r] = "open"
  /\ session' = [session EXCEPT ![r] = "expired"]
  /\ UNCHANGED <<config, asking, pending, calls, history, faults>>

-----------------------------------------------------------------------------
(* The confirmation: ConfirmPairing                                        *)

Idle(c) == calls[c].client = "idle" /\ calls[c].server = "idle"

ConfirmPairing(c, r, right) ==
  /\ Idle(c)
  /\ session[r] = "open"
  /\ calls' = [calls EXCEPT ![c] = [client |-> "wait", server |-> "count", request |-> r,
                                    right |-> right, seen |-> NoRequest, answer |-> "none"]]
  /\ UNCHANGED <<config, asking, pending, session, history, faults>>

ClientAt(c, step) == calls' = [calls EXCEPT ![c].client = step]
ClientReturns(c) == 
  calls' = [calls EXCEPT ![c] = [@ EXCEPT !.client = "idle", !.answer = "none"]]

\* Mutant: the deadline is looked at again before the device is saved.
SuccessfulInTime(c) == calls[c].answer = "ok" /\ session[calls[c].request] = "open"

Successful(c) == calls[c].answer = "ok"

ReadResult(c) ==
  /\ calls[c].client = "wait"
  /\ calls[c].answer # "none"
  /\ IF Successful(c) THEN ClientAt(c, "save") ELSE ClientReturns(c)
  /\ UNCHANGED <<config, asking, pending, session, history, faults>>

\* The session is kept when the device cannot be recorded.
ClientSaves(c) ==
  /\ calls[c].client = "save"
  /\ \/ /\ SavePairedDevice(From(c), To(c))
        /\ ClientAt(c, "forget")
        /\ UNCHANGED faults
     \/ /\ SaveFails(From(c), To(c))
        /\ ClientReturns(c)
        /\ Fault
  /\ UNCHANGED <<asking, pending, session, approved, compared, confirmed>>

ClientForgets(c) ==
  /\ calls[c].client = "forget"
  /\ session' = [session EXCEPT ![calls[c].request] = "none"]
  /\ ClientReturns(c)
  /\ confirmed' = confirmed \cup {calls[c].request}
  /\ UNCHANGED <<config, asking, pending, approved, compared, faults>>

\* It cannot connect, or the connection breaks before the result is read.
ClientLost(c) ==
  /\ calls[c].client = "wait"
  /\ ClientReturns(c)
  /\ Fault
  /\ UNCHANGED <<config, asking, pending, session, approved, compared, confirmed>>

-----------------------------------------------------------------------------
(* Its handler on the other device: handlePairConfirm                      *)

ServerAt(c, step) == calls' = [calls EXCEPT ![c].server = step]

\* A result is lost on a caller that has returned; the copy is not read again.
Result(c, answer) == IF calls[c].client = "wait" THEN answer ELSE "none"
Refuse(c) ==
  calls' = [calls EXCEPT ![c] = [@ EXCEPT !.server = "idle", !.answer = Result(c, "refused"),
                                          !.seen = NoRequest, !.right = FALSE]]
Admit(c) ==
  calls' = [calls EXCEPT ![c] = [@ EXCEPT !.server = "save",
                                          !.seen = NoRequest, !.right = FALSE]]

\* Mutant: an attempt counts twice.
AttemptedTwice(entry) == [entry EXCEPT !.attempts = @ + 2]

Attempted(entry) ==
  [entry EXCEPT !.attempts = IF @ <= Guesses THEN @ + 1 ELSE @]

\* Mutant: only the copy is counted on.
CountedCopy(r, entry) == pending' = pending

Counted(r, entry) == pending' = [pending EXCEPT ![r] = entry]

\* Under the lock: the attempt is counted, and the entry copied.
ServerCounts(c) ==
  LET r == calls[c].request
      entry == IF pending[r] = NoRequest THEN NoRequest ELSE Attempted(pending[r])
  IN
  /\ calls[c].server = "count"
  /\ Counted(r, entry)
  /\ calls' = [calls EXCEPT ![c] = [@ EXCEPT !.server = "judge", !.seen = entry]]
  /\ UNCHANGED <<config, asking, session, history, faults>>

\* Mutant: the approval is not looked at.
Unapproved(c) == /\ calls[c].seen # NoRequest
                 /\ calls[c].seen.attempts <= Guesses
                 /\ ~calls[c].seen.expired

Admitted(c) ==
  /\ calls[c].seen # NoRequest
  /\ calls[c].seen.approved
  /\ calls[c].seen.attempts <= Guesses
  /\ ~calls[c].seen.expired

\* By the copy, whatever became of the request meanwhile.
ServerJudges(c) ==
  /\ calls[c].server = "judge"
  /\ IF Admitted(c) /\ calls[c].right THEN Admit(c) ELSE Refuse(c)
  /\ compared' = IF Admitted(c) THEN [compared EXCEPT ![calls[c].request] = @ + 1]
                                ELSE compared
  /\ UNCHANGED <<config, asking, pending, session, approved, confirmed, faults>>

\* Mutant: the reply does not wait for the record.
ReplyAnyway(c) == ServerAt(c, "reply")

RefuseUnsaved(c) == Refuse(c)

ServerSaves(c) ==
  /\ calls[c].server = "save"
  /\ \/ SavePairedDevice(To(c), From(c)) /\ ServerAt(c, "reply") /\ UNCHANGED faults
     \/ SaveFails(To(c), From(c)) /\ RefuseUnsaved(c) /\ Fault
  /\ UNCHANGED <<asking, pending, session, approved, compared, confirmed>>

\* Whether the result can be written is not looked at.
ServerReplies(c) ==
  /\ calls[c].server = "reply"
  /\ calls' = [calls EXCEPT ![c] = [@ EXCEPT !.server = "forget", !.answer = Result(c, "ok")]]
  /\ UNCHANGED <<config, asking, pending, session, history, faults>>

ServerForgets(c) ==
  /\ calls[c].server = "forget"
  /\ pending' = [pending EXCEPT ![calls[c].request] = NoRequest]
  /\ ServerAt(c, "idle")
  /\ UNCHANGED <<config, asking, session, history, faults>>

ConfirmLost(c) ==
  /\ calls[c].server = "count"
  /\ calls' = [calls EXCEPT ![c] = [@ EXCEPT !.server = "idle", !.right = FALSE]]
  /\ Fault
  /\ UNCHANGED <<config, asking, pending, session, approved, compared, confirmed>>

-----------------------------------------------------------------------------
\* The process of a device ends and starts again: what was in memory only is
\* gone, and the devices are those of config.json.
Restart(d) ==
  /\ paired' = [paired EXCEPT ![d] = recorded[d]]
  /\ stage' = [r \in Request |-> IF ends[r]["from"] = d /\ stage[r] # "new" THEN "over"
                                                                            ELSE stage[r]]
  /\ session' = [r \in Request |-> IF ends[r]["from"] = d THEN "none" ELSE session[r]]
  /\ pending' = [r \in Request |-> IF ends[r]["to"] = d THEN NoRequest ELSE pending[r]]
  /\ calls' = [c \in Call |->
       IF From(c) = d THEN [calls[c] EXCEPT !.client = "idle", !.answer = "none"]
       ELSE IF To(c) = d THEN [calls[c] EXCEPT !.server = "idle", !.seen = NoRequest,
                                               !.right = FALSE]
       ELSE calls[c]]
  /\ Fault
  /\ UNCHANGED <<recorded, ends, approved, compared, confirmed>>

Init ==
  /\ paired = [d \in Device |-> {}]
  /\ recorded = paired
  /\ ends \in {f \in [Request -> Ends] : \A r \in Request : f[r]["from"] # f[r]["to"]}
  /\ stage = [r \in Request |-> "new"]
  /\ pending = [r \in Request |-> NoRequest]
  /\ session = [r \in Request |-> "none"]
  /\ \E r \in Request :
       calls = [c \in Call |-> [client |-> "idle", server |-> "idle", request |-> r,
                                right |-> FALSE, seen |-> NoRequest, answer |-> "none"]]
  /\ approved = {}
  /\ compared = [r \in Request |-> 0]
  /\ confirmed = {}
  /\ faults = 0

ClientStep(c) == ReadResult(c) \/ ClientSaves(c) \/ ClientForgets(c) \/ ClientLost(c)
ServerStep(c) == \/ ServerCounts(c) \/ ServerJudges(c) \/ ServerSaves(c)
                 \/ ServerReplies(c) \/ ServerForgets(c) \/ ConfirmLost(c)

Next ==
  \/ \E r \in Request :
       \/ StartPairing(r) \/ HandlePairRequest(r) \/ ReadChallenge(r) \/ StartFails(r)
       \/ Approve(r) \/ Discard(r) \/ ExpireRequest(r) \/ ExpireSession(r)
  \/ \E c \in Call :
       \/ \E r \in Request, right \in BOOLEAN : ConfirmPairing(c, r, right)
       \/ ClientStep(c) \/ ServerStep(c)
  \/ \E d \in Device : SaveConfig(d) \/ Restart(d)

Spec == Init /\ [][Next]_vars

-----------------------------------------------------------------------------
(* Properties                                                              *)

Between(r, d, e) == {ends[r][side] : side \in End} = {d, e}

\* A device has another one as paired only after the user of one of the two
\* has approved a request of the other (pairing.go:281), whatever requests and
\* confirmations overlap and whatever fails.
PairedByApproval ==
  \A d \in Device : \A e \in paired[d] \cup recorded[d] :
    \E r \in approved : Between(r, d, e)

\* A code is compared three times at most, with confirmations at the same time
\* and requests discarded meanwhile: counting and copying are one (:274-280).
FewGuesses == \A r \in Request : compared[r] <= Guesses

\* What ConfirmPairing reports as done is in the configuration of both
\* devices, and stays: the other device answers after its write (:298-304).
ConfirmedIsMutual ==
  \A r \in confirmed : LET d == ends[r]["from"] e == ends[r]["to"] IN
    /\ e \in paired[d] \cap recorded[d]
    /\ d \in paired[e] \cap recorded[e]

AtRest == \A c \in Call : Idle(c)

\* Expiry, rejection, wrong codes and confirmations at the same time leave no
\* device paired alone when no confirmation is in progress.  Only a connection,
\* a write or a process that fails between the two records does.
OneSidedOnlyIfDisturbed ==
  AtRest /\ faults = 0 => \A d, e \in Device : e \in paired[d] <=> d \in paired[e]
=============================================================================
