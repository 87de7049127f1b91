------------------------------ MODULE Sharing ------------------------------
(***************************************************************************)
(* How a folder of one device becomes a sync space of two paired devices:  *)
(* invitation and acceptance (internal/service/sharing.go), the settings   *)
(* form and the removal of a space (internal/service/api.go), and the      *)
(* configuration they all write (internal/store/store.go).                 *)
(*                                                                         *)
(* Both InviteShare and AcceptShareInvitation store the space first, then  *)
(* ask the peer, and delete the space again unless the peer says yes.  The *)
(* peer's handler may run before, after or without the caller's learning   *)
(* of it, while users save forms, delete spaces and stop the program.      *)
(*                                                                         *)
(* Left out: names, folders, addresses and timers of a space, whose checks *)
(* (an overlap, a bad address) refuse a call before it changes anything;   *)
(* locks and statuses; spaces of the old protocol (state "legacy"), which  *)
(* have no peer; a configuration file that cannot be written.              *)
(***************************************************************************)
EXTENDS Naturals

CONSTANTS Device,
          Share,   \* ids of spaces; an id is random and never used twice
          Call,    \* calls between devices in progress at one time
          NoShare, NoForm, NoCall, NoInvite

\* A space as a device stores it, a form that has read it, a call between two
\* devices, and an offer.
Entry == [state : {"pending", "active"}, peer : Device]
Form == [share : Share, read : Entry]
AnyCall == [kind : {"invite", "accept"}, from : Device, to : Device, share : Share,
            client : {"waiting", "ended"}, server : {"coming", "checked", "ended"},
            reply : {"none", "ok", "error"}]
Invite == [by : Device, to : Device]

ASSUME SharingAssumption ==
  /\ NoShare \notin Entry
  /\ NoForm \notin Form
  /\ NoCall \notin AnyCall
  /\ NoInvite \notin Invite

VARIABLES
  paired,       \* the devices a device has paired with; pairing is not modelled
  shares,       \* config.Shares: state and peer of a space, or NoShare
  invitations,  \* config.ShareInvitations: spaces offered, each with its device
  forms,        \* a handleUpdateShare between its read and its write, or NoForm
  calls,        \* the calls in progress
  invites,      \* who offered a space to whom, or NoInvite (history variable)
  past          \* what has happened to a space (history variable)

vars == <<paired, shares, invitations, forms, calls, invites, past>>

\* What may have happened to a space: its invitation returned without an error;
\* an acceptance did; a user deleted it; a caller ended without the answer to a
\* request that was or may still be served; a caller was stopped by the end of
\* its process; a form put back a state it had read.
Event == {"invited", "accepted", "deleted", "cut", "stopped", "reverted"}
Note(e, s) == past' = [past EXCEPT ![e] = @ \cup {s}]

\* A call is over when both of its ends are.
Settled(r) == IF r.client = "ended" /\ r.server = "ended" THEN NoCall ELSE r
Put(c, r) == calls' = [calls EXCEPT ![c] = Settled(r)]
Begin(c, kind, d, e, s) ==
  /\ calls[c] = NoCall
  /\ Put(c, [kind |-> kind, from |-> d, to |-> e, share |-> s,
             client |-> "waiting", server |-> "coming", reply |-> "none"])
Answer(c, reply) == Put(c, [calls[c] EXCEPT !.server = "ended", !.reply = reply])

\* AddShare refuses an id it has; UpdateShare and DeleteShare one they have not.
\* Mutant: AddShare replaces the space it has.
AddShareAnyway(d, s, entry) == shares' = [shares EXCEPT ![d][s] = entry]
AddShare(d, s, entry) ==
  /\ shares[d][s] = NoShare
  /\ shares' = [shares EXCEPT ![d][s] = entry]
UpdateShare(d, s, entry) == shares' = [shares EXCEPT ![d][s] = IF @ = NoShare THEN @ ELSE entry]
DeleteShare(d, s) == shares' = [shares EXCEPT ![d][s] = NoShare]

\* The deferred function of InviteShare and AcceptShareInvitation.
\* Mutants: it is only in the second; it is in none.
RollBackAccept(r) == IF r.kind = "accept" THEN DeleteShare(r.from, r.share) ELSE UNCHANGED shares
NoRollBack(r) == UNCHANGED shares
RollBack(r) == DeleteShare(r.from, r.share)

-----------------------------------------------------------------------------
(* The callers                                                             *)

InviteShare(c, d, e, s) ==
  /\ e \in paired[d]
  /\ invites[s] = NoInvite
  /\ invites' = [invites EXCEPT ![s] = [by |-> d, to |-> e]]
  /\ AddShare(d, s, [state |-> "pending", peer |-> e])
  /\ Begin(c, "invite", d, e, s)
  /\ UNCHANGED <<paired, invitations, forms, past>>

\* Mutant: the invitation is used up by the attempt.
AcceptOnce(c, d, e, s) ==
  /\ [share |-> s, from |-> e] \in invitations[d]
  /\ e \in paired[d]
  /\ AddShare(d, s, [state |-> "active", peer |-> e])
  /\ Begin(c, "accept", d, e, s)
  /\ invitations' = [invitations EXCEPT ![d] = @ \ {[share |-> s, from |-> e]}]
  /\ UNCHANGED <<paired, forms, invites, past>>

AcceptShareInvitation(c, d, e, s) ==
  /\ [share |-> s, from |-> e] \in invitations[d]
  /\ e \in paired[d]
  /\ AddShare(d, s, [state |-> "active", peer |-> e])
  /\ Begin(c, "accept", d, e, s)
  /\ UNCHANGED <<paired, invitations, forms, invites, past>>

Waiting(c) == calls[c] # NoCall /\ calls[c].client = "waiting"

\* The answer arrives; the deferred function deletes the space unless it is yes.
Returns(c) ==
  LET r == calls[c] IN
  /\ Waiting(c)
  /\ r.reply # "none"
  /\ Put(c, [r EXCEPT !.client = "ended"])
  /\ IF r.reply = "ok"
     THEN /\ invitations' = [invitations EXCEPT ![r.from] =
                               @ \ {[share |-> r.share, from |-> r.to]}]
          /\ Note(IF r.kind = "invite" THEN "invited" ELSE "accepted", r.share)
          /\ UNCHANGED shares
     ELSE RollBack(r) /\ UNCHANGED <<invitations, past>>
  /\ UNCHANGED <<paired, forms, invites>>

\* Dialling, writing or reading fails: an early return with the same deferred
\* function.  Unless the peer's handler has ended
\* without saying yes, the request may have been served, or still be.
ClientFails(c) ==
  LET r == calls[c] IN
  /\ Waiting(c)
  /\ Put(c, [r EXCEPT !.client = "ended"])
  /\ RollBack(r)
  /\ IF r.server = "ended" /\ r.reply # "ok" THEN UNCHANGED past ELSE Note("cut", r.share)
  /\ UNCHANGED <<paired, invitations, forms, invites>>

-----------------------------------------------------------------------------
(* The handlers                                                            *)

At(c, kind, pc) == calls[c] # NoCall /\ calls[c].kind = kind /\ calls[c].server = pc

\* The request never reaches a handler.
RequestLost(c) ==
  /\ calls[c] # NoCall
  /\ calls[c].server = "coming"
  /\ Put(c, [calls[c] EXCEPT !.server = "ended"])
  /\ UNCHANGED <<paired, shares, invitations, forms, invites, past>>

HandleShareInvite(c) ==
  LET r == calls[c] IN
  /\ At(c, "invite", "coming")
  /\ IF r.from \in paired[r.to] /\ shares[r.to][r.share] = NoShare
     THEN /\ invitations' = [invitations EXCEPT ![r.to] =
                               @ \cup {[share |-> r.share, from |-> r.from]}]
          /\ Answer(c, "ok")
     ELSE Answer(c, "error") /\ UNCHANGED invitations
  /\ UNCHANGED <<paired, shares, forms, invites, past>>

\* handleShareAccept reads the space, then writes what it has read as active.
MayActivate(r) ==
  /\ r.from \in paired[r.to]
  /\ shares[r.to][r.share] = [state |-> "pending", peer |-> r.from]

CheckShareAccept(c) ==
  /\ At(c, "accept", "coming")
  /\ IF MayActivate(calls[c]) THEN Put(c, [calls[c] EXCEPT !.server = "checked"])
     ELSE Answer(c, "error")
  /\ UNCHANGED <<paired, shares, invitations, forms, invites, past>>

ActivateShare(c) ==
  LET r == calls[c] IN
  /\ At(c, "accept", "checked")
  /\ UpdateShare(r.to, r.share, [state |-> "active", peer |-> r.from])
  /\ Answer(c, IF shares[r.to][r.share] = NoShare THEN "error" ELSE "ok")
  /\ UNCHANGED <<paired, invitations, forms, invites, past>>

-----------------------------------------------------------------------------
(* The users' other requests, and the end of the program                   *)

\* Mutant: the form of a space that is gone is not refused.
OpenFormAnyway(d, s) ==
  /\ forms[d] = NoForm
  /\ forms' = [forms EXCEPT ![d] = [share |-> s, read |-> shares[d][s]]]
  /\ UNCHANGED <<paired, shares, invitations, calls, invites, past>>

\* handleUpdateShare reads the whole space, and later writes it back whole.
OpenForm(d, s) ==
  /\ forms[d] = NoForm
  /\ shares[d][s] # NoShare
  /\ forms' = [forms EXCEPT ![d] = [share |-> s, read |-> shares[d][s]]]
  /\ UNCHANGED <<paired, shares, invitations, calls, invites, past>>

SaveForm(d) ==
  LET f == forms[d] IN
  /\ f # NoForm
  /\ UpdateShare(d, f.share, f.read)
  /\ forms' = [forms EXCEPT ![d] = NoForm]
  /\ IF shares[d][f.share] \in {NoShare, f.read} THEN UNCHANGED past
     ELSE Note("reverted", f.share)
  /\ UNCHANGED <<paired, invitations, calls, invites>>

HandleDeleteShare(d, s) ==
  /\ shares[d][s] # NoShare
  /\ DeleteShare(d, s)
  /\ Note("deleted", s)
  /\ UNCHANGED <<paired, invitations, forms, calls, invites>>

\* The process of a device ends, and starts again from its configuration: the
\* callers end without their deferred functions, the handlers where they are.
Ended(d, r) ==
  IF r = NoCall THEN r
  ELSE Settled([r EXCEPT !.client = IF r.from = d THEN "ended" ELSE @,
                         !.server = IF r.to = d THEN "ended" ELSE @])

Restart(d) ==
  /\ forms' = [forms EXCEPT ![d] = NoForm]
  /\ calls' = [c \in Call |-> Ended(d, calls[c])]
  /\ past' = [past EXCEPT !["stopped"] = @ \cup
                {calls[c].share : c \in {x \in Call : Waiting(x) /\ calls[x].from = d}}]
  /\ UNCHANGED <<paired, shares, invitations, invites>>

-----------------------------------------------------------------------------
(* The specification                                                       *)

\* The lost answer of a pairing leaves one device paired and the other not, so
\* pairings need not be mutual.
Init ==
  /\ paired \in {p \in [Device -> SUBSET Device] : \A d \in Device : d \notin p[d]}
  /\ shares = [d \in Device |-> [s \in Share |-> NoShare]]
  /\ invitations = [d \in Device |-> {}]
  /\ forms = [d \in Device |-> NoForm]
  /\ calls = [c \in Call |-> NoCall]
  /\ invites = [s \in Share |-> NoInvite]
  /\ past = [e \in Event |-> {}]

CallStep(c) ==
  \/ \E d, e \in Device, s \in Share : InviteShare(c, d, e, s) \/ AcceptShareInvitation(c, d, e, s)
  \/ Returns(c) \/ ClientFails(c) \/ RequestLost(c)
  \/ HandleShareInvite(c) \/ CheckShareAccept(c) \/ ActivateShare(c)

UserStep(d) ==
  \/ \E s \in Share : OpenForm(d, s) \/ HandleDeleteShare(d, s)
  \/ SaveForm(d) \/ Restart(d)

Next == (\E c \in Call : CallStep(c)) \/ (\E d \in Device : UserStep(d))

Spec == Init /\ [][Next]_vars

-----------------------------------------------------------------------------
(* Properties                                                              *)

TypeOK ==
  /\ paired \in [Device -> SUBSET Device]
  /\ shares \in [Device -> [Share -> Entry \cup {NoShare}]]
  /\ invitations \in [Device -> SUBSET [share : Share, from : Device]]
  /\ forms \in [Device -> Form \cup {NoForm}]
  /\ calls \in [Call -> AnyCall \cup {NoCall}]
  /\ invites \in [Share -> Invite \cup {NoInvite}]
  /\ past \in [Event -> SUBSET Share]

Offered == {s \in Share : invites[s] # NoInvite}
Here(s) == shares[invites[s].by][s]
There(s) == shares[invites[s].to][s]
Active(entry) == entry # NoShare /\ entry.state = "active"
Asking(d, s) == \E c \in Call : Waiting(c) /\ calls[c].from = d /\ calls[c].share = s
InProgress(s) == \E c \in Call : calls[c] # NoCall /\ calls[c].share = s

\* An acceptance that was reported done stays: the deferred deletion of another
\* attempt at the same invitation never removes the space, only a user does.
AcceptedKept == \A s \in past["accepted"] \ past["deleted"] : Active(There(s))

\* A space that a device has was agreed on, or is just being asked about: a
\* failed invitation or acceptance leaves none behind, at whatever step it
\* failed.  Only a process that ends in the middle skips the clean-up.
HalfDoneIsUndone ==
  \A s \in Offered \ past["stopped"] :
    /\ Here(s) # NoShare => s \in past["invited"] \/ Asking(invites[s].by, s)
    /\ There(s) # NoShare => s \in past["accepted"] \/ Asking(invites[s].to, s)

\* A space that waits for its acceptance can be accepted: the other device has
\* the invitation as long as the space is pending, through failed attempts and
\* restarts of either device.
PendingCanBeAccepted ==
  \A s \in past["invited"] \ (past["deleted"] \cup past["reverted"]) :
    ~Active(Here(s)) => [share |-> s, from |-> invites[s].by] \in invitations[invites[s].to]

\* Without a lost answer, an ended process, a deletion or a stale form, the two
\* devices agree when no call is in progress: both have the space active, and
\* the acceptance is reported, or neither has.
ActiveTogether ==
  \A s \in Offered \ UNION {past[e] : e \in {"deleted", "cut", "stopped", "reverted"}} :
    ~InProgress(s) => /\ Active(Here(s)) <=> s \in past["accepted"]
                      /\ Active(There(s)) <=> s \in past["accepted"]

\* README.md, step 5 of the first use: the other device accepts the invitation
\* and then the first sync starts.  For that the space is active also where it
\* was offered, or every round is refused there.  A form breaks it: saved over
\* an acceptance, it makes the space pending again, with no invitation left.
AcceptedMeansActive ==
  \A s \in (past["invited"] \cap past["accepted"]) \ past["deleted"] : Active(Here(s))
=============================================================================
