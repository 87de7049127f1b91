--------------------------- MODULE Sharing_proofs ---------------------------
(***************************************************************************)
(* Proofs about Sharing, for any devices, spaces and calls in progress:    *)
(* type correctness; an acceptance that was reported stays until a user    *)
(* deletes the space; a failed attempt leaves no space behind; a pending   *)
(* space can be accepted; the two devices agree on an acceptance.          *)
(*                                                                         *)
(* Roles says who may speak of a space: the device that offered it and the *)
(* one it was offered to, each in its part.  Fresh keeps everything away   *)
(* from an id nobody has offered yet.  ThereActive: where a space was      *)
(* accepted it is only ever stored as active.  Attempts: while no user     *)
(* deletes it, a space has one acceptance in progress at most, and none    *)
(* once one was reported, because AddShare refuses the second.             *)
(*                                                                         *)
(* Solo: a space has one invitation call, and it is over once the          *)
(* invitation is reported.  Openable: while it is invited, a space is      *)
(* there, and active or its invitation waits.  Agreed: where a space was   *)
(* offered it is active just when the answer to an acceptance was yes,     *)
(* received or on its way; and an invitation that waits was answered yes.  *)
(***************************************************************************)
EXTENDS Sharing, TLAPS

Accepting(s) == {c \in Call : Waiting(c) /\ calls[c].kind = "accept" /\ calls[c].share = s}

Roles ==
  /\ \A d \in Device : d \notin paired[d]
  /\ \A s \in Offered : invites[s].by # invites[s].to
  /\ \A d \in Device : \A v \in invitations[d] :
       v.share \in Offered /\ invites[v.share] = [by |-> v.from, to |-> d]
  /\ \A c \in Call : calls[c] # NoCall =>
       /\ calls[c].share \in Offered
       /\ invites[calls[c].share] =
            IF calls[c].kind = "invite" THEN [by |-> calls[c].from, to |-> calls[c].to]
            ELSE [by |-> calls[c].to, to |-> calls[c].from]

Fresh ==
  \A s \in Share \ Offered :
    /\ \A d \in Device : shares[d][s] = NoShare
    /\ \A d \in Device : forms[d] = NoForm \/ forms[d].share # s
    /\ s \notin past["accepted"]

ThereActive ==
  \A s \in Offered :
    /\ There(s) # NoShare => There(s).state = "active"
    /\ LET f == forms[invites[s].to] IN
       f # NoForm /\ f.share = s => f.read.state = "active"

Attempts ==
  \A s \in Offered \ past["deleted"] :
    /\ s \in past["accepted"] => There(s) # NoShare
    /\ \A c \in Accepting(s) : There(s) # NoShare /\ s \notin past["accepted"]
    /\ \A c, x \in Accepting(s) : c = x

Inviting(s) == {c \in Call : Waiting(c) /\ calls[c].kind = "invite" /\ calls[c].share = s}
Answered(c) == calls[c].reply = "ok"
Waits(s) == [share |-> s, from |-> invites[s].by] \in invitations[invites[s].to]
Acknowledged(s) == s \in past["accepted"] \/ \E c \in Accepting(s) : Answered(c)
Spoilt(s) == \E e \in {"deleted", "cut", "stopped", "reverted"} : s \in past[e]

AnsweredLast ==
  \A c \in Call : calls[c] # NoCall /\ calls[c].reply # "none" => calls[c].server = "ended"
Solo ==
  /\ past["invited"] \subseteq Offered
  /\ \A s \in Offered : /\ \A c \in Inviting(s) : s \notin past["invited"]
                        /\ \A c, x \in Inviting(s) : c = x
  /\ AnsweredLast

Openable(s) ==
  s \in past["invited"] \/ Inviting(s) # {} =>
    /\ Here(s) # NoShare
    /\ (\E c \in Accepting(s) : Answered(c)) => Active(Here(s))
    /\ s \in past["invited"] \/ (\E c \in Inviting(s) : Answered(c)) =>
         Active(Here(s)) \/ Waits(s)
AllOpenable == \A s \in Offered \ (past["deleted"] \cup past["reverted"]) : Openable(s)

Served(s) ==
  \A c \in Call : calls[c] # NoCall /\ calls[c].share = s /\ calls[c].server # "ended" => Waiting(c)
Agreed(s) ==
  /\ Served(s)
  /\ Active(Here(s)) <=> Acknowledged(s)
  /\ \A c \in Inviting(s) :
       Answered(c) \/ (~Waits(s) /\ Accepting(s) = {} /\ s \notin past["accepted"])
AllAgreed == \A s \in Offered : ~Spoilt(s) => Agreed(s)

IInv == /\ TypeOK /\ Roles /\ Fresh /\ ThereActive /\ Attempts /\ HalfDoneIsUndone
        /\ Solo /\ AllOpenable /\ AllAgreed
-----------------------------------------------------------------------------
(* Types                                                                   *)

LEMMA PutType ==
  ASSUME TypeOK, NEW c \in Call, NEW r \in AnyCall, Put(c, r)
  PROVE  calls' \in [Call -> AnyCall \cup {NoCall}]
BY DEF TypeOK, Put, Settled

LEMMA NoteType ==
  ASSUME TypeOK, NEW e \in Event, NEW s \in Share, Note(e, s)
  PROVE  past' \in [Event -> SUBSET Share]
BY DEF TypeOK, Note

LEMMA DeleteType ==
  ASSUME TypeOK, NEW d \in Device, NEW s \in Share, DeleteShare(d, s)
  PROVE  shares' \in [Device -> [Share -> Entry \cup {NoShare}]]
BY DEF TypeOK, DeleteShare

LEMMA UpdateType ==
  ASSUME TypeOK, NEW d \in Device, NEW s \in Share, NEW x \in Entry, UpdateShare(d, s, x)
  PROVE  shares' \in [Device -> [Share -> Entry \cup {NoShare}]]
BY DEF TypeOK, UpdateShare

LEMMA BeginType ==
  ASSUME TypeOK, NEW c \in Call, NEW k \in {"invite", "accept"}, NEW d \in Device,
         NEW e \in Device, NEW s \in Share, Begin(c, k, d, e, s)
  PROVE  calls' \in [Call -> AnyCall \cup {NoCall}]
<1>1. [kind |-> k, from |-> d, to |-> e, share |-> s, client |-> "waiting",
       server |-> "coming", reply |-> "none"] \in AnyCall
  BY DEF AnyCall
<1> QED BY <1>1, PutType DEF Begin

\* What a call becomes: its client ends, or its server does or moves on.
LEMMA CallType ==
  ASSUME TypeOK, NEW c \in Call, calls[c] # NoCall
  PROVE  /\ calls[c] \in AnyCall
         /\ [calls[c] EXCEPT !.client = "ended"] \in AnyCall
         /\ \A k \in {"checked", "ended"} : [calls[c] EXCEPT !.server = k] \in AnyCall
         /\ \A y \in {"none", "ok", "error"} :
              [calls[c] EXCEPT !.server = "ended", !.reply = y] \in AnyCall
BY DEF TypeOK, AnyCall

LEMMA EndedType ==
  ASSUME NEW d \in Device, NEW r \in AnyCall \cup {NoCall}
  PROVE  Ended(d, r) \in AnyCall \cup {NoCall}
<1>1. CASE r = NoCall
  BY <1>1 DEF Ended
<1>2. CASE r # NoCall
  <2>1. [r EXCEPT !.client = IF r.from = d THEN "ended" ELSE @,
                  !.server = IF r.to = d THEN "ended" ELSE @] \in AnyCall
    BY <1>2 DEF AnyCall
  <2> QED BY <1>2, <2>1 DEF Ended, Settled
<1> QED BY <1>1, <1>2

LEMMA TypeStep == ASSUME TypeOK, [Next]_vars PROVE TypeOK'
<1>1. ASSUME NEW c \in Call, NEW d \in Device, NEW e \in Device, NEW s \in Share,
             InviteShare(c, d, e, s)
      PROVE  TypeOK'
  <2>1. calls' \in [Call -> AnyCall \cup {NoCall}]
    BY <1>1, BeginType DEF InviteShare
  <2>2. shares' \in [Device -> [Share -> Entry \cup {NoShare}]]
    BY <1>1 DEF InviteShare, AddShare, TypeOK, Entry
  <2>3. invites' \in [Share -> Invite \cup {NoInvite}]
    BY <1>1 DEF InviteShare, TypeOK, Invite
  <2> QED BY <1>1, <2>1, <2>2, <2>3 DEF InviteShare, TypeOK
<1>2. ASSUME NEW c \in Call, NEW d \in Device, NEW e \in Device, NEW s \in Share,
             AcceptShareInvitation(c, d, e, s)
      PROVE  TypeOK'
  <2>1. calls' \in [Call -> AnyCall \cup {NoCall}]
    BY <1>2, BeginType DEF AcceptShareInvitation
  <2>2. shares' \in [Device -> [Share -> Entry \cup {NoShare}]]
    BY <1>2 DEF AcceptShareInvitation, AddShare, TypeOK, Entry
  <2> QED BY <1>2, <2>1, <2>2 DEF AcceptShareInvitation, TypeOK
<1>3. ASSUME NEW c \in Call, Returns(c) PROVE TypeOK'
  <2>1. calls[c] # NoCall
    BY <1>3 DEF Returns, Waiting
  <2>2. calls[c].from \in Device /\ calls[c].to \in Device /\ calls[c].share \in Share
    BY <2>1, CallType DEF AnyCall
  <2>3. calls' \in [Call -> AnyCall \cup {NoCall}]
    BY <1>3, <2>1, CallType, PutType DEF Returns
  <2>4. CASE calls[c].reply = "ok"
    <3>1. past' \in [Event -> SUBSET Share]
      BY <1>3, <2>2, <2>4, NoteType DEF Returns, Event
    <3>2. invitations' \in [Device -> SUBSET [share : Share, from : Device]]
      BY <1>3, <2>2, <2>4 DEF Returns, TypeOK
    <3> QED BY <1>3, <2>3, <2>4, <3>1, <3>2 DEF Returns, TypeOK
  <2>5. CASE calls[c].reply # "ok"
    BY <1>3, <2>2, <2>3, <2>5, DeleteType DEF Returns, RollBack, TypeOK
  <2> QED BY <2>4, <2>5
<1>4. ASSUME NEW c \in Call, ClientFails(c) PROVE TypeOK'
  <2>1. calls[c] # NoCall
    BY <1>4 DEF ClientFails, Waiting
  <2>2. calls[c].from \in Device /\ calls[c].share \in Share
    BY <2>1, CallType DEF AnyCall
  <2>3. calls' \in [Call -> AnyCall \cup {NoCall}]
    BY <1>4, <2>1, CallType, PutType DEF ClientFails
  <2>4. shares' \in [Device -> [Share -> Entry \cup {NoShare}]]
    BY <1>4, <2>2, DeleteType DEF ClientFails, RollBack
  <2>5. past' \in [Event -> SUBSET Share]
    BY <1>4, <2>2, NoteType DEF ClientFails, Event, TypeOK
  <2> QED BY <1>4, <2>3, <2>4, <2>5 DEF ClientFails, TypeOK
<1>5. ASSUME NEW c \in Call, RequestLost(c) PROVE TypeOK'
  <2>1. calls' \in [Call -> AnyCall \cup {NoCall}]
    BY <1>5, CallType, PutType DEF RequestLost
  <2> QED BY <1>5, <2>1 DEF RequestLost, TypeOK
<1>6. ASSUME NEW c \in Call, HandleShareInvite(c) PROVE TypeOK'
  <2>1. calls[c] # NoCall
    BY <1>6 DEF HandleShareInvite, At
  <2>2. calls' \in [Call -> AnyCall \cup {NoCall}]
    BY <1>6, <2>1, CallType, PutType DEF HandleShareInvite, Answer
  <2>3. [share |-> calls[c].share, from |-> calls[c].from] \in [share : Share, from : Device]
    BY <2>1, CallType DEF AnyCall
  <2>4. invitations' \in [Device -> SUBSET [share : Share, from : Device]]
    BY <1>6, <2>3 DEF HandleShareInvite, TypeOK
  <2> QED BY <1>6, <2>2, <2>4 DEF HandleShareInvite, TypeOK
<1>7. ASSUME NEW c \in Call, CheckShareAccept(c) PROVE TypeOK'
  <2>1. calls[c] # NoCall
    BY <1>7 DEF CheckShareAccept, At
  <2>2. calls' \in [Call -> AnyCall \cup {NoCall}]
    BY <1>7, <2>1, CallType, PutType DEF CheckShareAccept, Answer
  <2> QED BY <1>7, <2>2 DEF CheckShareAccept, TypeOK
<1>8. ASSUME NEW c \in Call, ActivateShare(c) PROVE TypeOK'
  <2>1. calls[c] # NoCall
    BY <1>8 DEF ActivateShare, At
  <2>2. /\ calls[c].to \in Device /\ calls[c].share \in Share
        /\ [state |-> "active", peer |-> calls[c].from] \in Entry
    BY <2>1, CallType DEF AnyCall, Entry
  <2>3. calls' \in [Call -> AnyCall \cup {NoCall}]
    BY <1>8, <2>1, CallType, PutType DEF ActivateShare, Answer
  <2>4. shares' \in [Device -> [Share -> Entry \cup {NoShare}]]
    BY <1>8, <2>2, UpdateType DEF ActivateShare
  <2> QED BY <1>8, <2>3, <2>4 DEF ActivateShare, TypeOK
<1>9. ASSUME NEW d \in Device, NEW s \in Share, OpenForm(d, s) PROVE TypeOK'
  <2>1. [share |-> s, read |-> shares[d][s]] \in Form
    BY <1>9 DEF OpenForm, TypeOK, Form
  <2> QED BY <1>9, <2>1 DEF OpenForm, TypeOK
<1>10. ASSUME NEW d \in Device, NEW s \in Share, HandleDeleteShare(d, s) PROVE TypeOK'
  BY <1>10, DeleteType, NoteType DEF HandleDeleteShare, TypeOK, Event
<1>11. ASSUME NEW d \in Device, SaveForm(d) PROVE TypeOK'
  <2>1. forms[d].share \in Share /\ forms[d].read \in Entry
    BY <1>11 DEF SaveForm, TypeOK, Form
  <2>2. shares' \in [Device -> [Share -> Entry \cup {NoShare}]]
    BY <1>11, <2>1, UpdateType DEF SaveForm
  <2>3. past' \in [Event -> SUBSET Share]
    BY <1>11, <2>1, NoteType DEF SaveForm, Event, TypeOK
  <2> QED BY <1>11, <2>2, <2>3 DEF SaveForm, TypeOK
<1>12. ASSUME NEW d \in Device, Restart(d) PROVE TypeOK'
  <2>1. ASSUME NEW c \in Call PROVE Ended(d, calls[c]) \in AnyCall \cup {NoCall}
    BY EndedType DEF TypeOK
  <2>2. calls' \in [Call -> AnyCall \cup {NoCall}]
    BY <1>12, <2>1 DEF Restart
  <2>3. \A c \in Call : Waiting(c) => calls[c].share \in Share
    BY DEF TypeOK, Waiting, AnyCall
  <2>4. past' \in [Event -> SUBSET Share]
    BY <1>12, <2>3 DEF Restart, TypeOK, Event
  <2> QED BY <1>12, <2>2, <2>4 DEF Restart, TypeOK
<1>13. CASE UNCHANGED vars
  BY <1>13 DEF vars, TypeOK
<1> QED BY <1>1, <1>2, <1>3, <1>4, <1>5, <1>6, <1>7, <1>8, <1>9, <1>10, <1>11, <1>12, <1>13
        DEF Next, CallStep, UserStep

-----------------------------------------------------------------------------
(* What the actions do to the calls                                        *)

Same(q, r) == q.kind = r.kind /\ q.from = r.from /\ q.to = r.to /\ q.share = r.share
Carried(x) == calls'[x] # NoCall => calls[x] # NoCall /\ Same(calls'[x], calls[x])

LEMMA BeginEffect ==
  ASSUME TypeOK, NEW c \in Call, NEW k \in {"invite", "accept"}, NEW d \in Device,
         NEW e \in Device, NEW s \in Share, Begin(c, k, d, e, s)
  PROVE  /\ calls[c] = NoCall
         /\ \A x \in Call \ {c} : calls'[x] = calls[x]
         /\ calls'[c] # NoCall
         /\ calls'[c].kind = k /\ calls'[c].from = d /\ calls'[c].to = e
         /\ calls'[c].share = s /\ calls'[c].client = "waiting"
<1> DEFINE r == [kind |-> k, from |-> d, to |-> e, share |-> s, client |-> "waiting",
                 server |-> "coming", reply |-> "none"]
<1>1. r \in AnyCall /\ Settled(r) = r
  BY DEF AnyCall, Settled
<1>2. r # NoCall
  BY <1>1, SharingAssumption
<1> QED BY <1>1, <1>2 DEF Begin, Put, TypeOK

\* A handler's step: nobody starts or stops waiting.
LEMMA ServerEffect ==
  ASSUME TypeOK, NEW c \in Call,
         RequestLost(c) \/ HandleShareInvite(c) \/ CheckShareAccept(c) \/ ActivateShare(c)
  PROVE  \A x \in Call : Carried(x) /\ (Waiting(x)' <=> Waiting(x))
<1>1. calls[c] # NoCall
  BY DEF RequestLost, HandleShareInvite, CheckShareAccept, ActivateShare, At
<1>2. PICK r \in AnyCall :
        Put(c, r) /\ Same(r, calls[c]) /\ r.client = calls[c].client
  <2>1. calls[c] \in AnyCall
    BY <1>1, CallType
  <2>2. \A k \in {"checked", "ended"} :
          LET r == [calls[c] EXCEPT !.server = k] IN
          r \in AnyCall /\ Same(r, calls[c]) /\ r.client = calls[c].client
    BY <2>1 DEF Same, AnyCall
  <2>3. \A y \in {"none", "ok", "error"} :
          LET r == [calls[c] EXCEPT !.server = "ended", !.reply = y] IN
          r \in AnyCall /\ Same(r, calls[c]) /\ r.client = calls[c].client
    BY <2>1 DEF Same, AnyCall
  <2>4. \/ \E k \in {"checked", "ended"} : Put(c, [calls[c] EXCEPT !.server = k])
        \/ \E y \in {"none", "ok", "error"} :
             Put(c, [calls[c] EXCEPT !.server = "ended", !.reply = y])
    BY DEF RequestLost, HandleShareInvite, CheckShareAccept, ActivateShare, Answer
  <2> QED BY <2>2, <2>3, <2>4
<1>3. r # NoCall
  BY SharingAssumption
<1> QED BY <1>1, <1>2, <1>3 DEF Put, Settled, Same, Carried, Waiting, TypeOK

\* The end of a caller: it waits no longer, the others do as before.
LEMMA ClientEffect ==
  ASSUME TypeOK, NEW c \in Call, Returns(c) \/ ClientFails(c)
  PROVE  /\ Waiting(c)
         /\ \A x \in Call : Carried(x) /\ (Waiting(x)' <=> Waiting(x) /\ x # c)
<1>1. Waiting(c) /\ Put(c, [calls[c] EXCEPT !.client = "ended"])
  BY DEF Returns, ClientFails
<1> DEFINE r == [calls[c] EXCEPT !.client = "ended"]
<1>2. calls[c] \in AnyCall /\ r \in AnyCall
  BY <1>1, CallType DEF Waiting
<1>3. Same(r, calls[c]) /\ r.client = "ended"
  BY <1>2 DEF Same, AnyCall
<1> QED BY <1>1, <1>2, <1>3 DEF Put, Settled, Same, Carried, Waiting, TypeOK

\* The end of a process: the callers of its device wait no longer.
LEMMA RestartEffect ==
  ASSUME TypeOK, NEW d \in Device, Restart(d)
  PROVE  \A x \in Call : Carried(x) /\ (Waiting(x)' <=> Waiting(x) /\ calls[x].from # d)
<1> SUFFICES ASSUME NEW x \in Call
             PROVE  Carried(x) /\ (Waiting(x)' <=> Waiting(x) /\ calls[x].from # d)
  OBVIOUS
<1>1. calls'[x] = Ended(d, calls[x])
  BY DEF Restart
<1>2. CASE calls[x] = NoCall
  BY <1>1, <1>2 DEF Ended, Carried, Waiting
<1>3. CASE calls[x] # NoCall
  <2> DEFINE r == [calls[x] EXCEPT !.client = IF calls[x].from = d THEN "ended" ELSE @,
                                   !.server = IF calls[x].to = d THEN "ended" ELSE @]
  <2>1. /\ r \in AnyCall /\ Same(r, calls[x])
        /\ r.client = "waiting" <=> calls[x].client = "waiting" /\ calls[x].from # d
    <3>1. calls[x] \in AnyCall
      BY <1>3, CallType
    <3> QED BY <3>1 DEF Same, AnyCall
  <2>2. calls'[x] = Settled(r)
    BY <1>1, <1>3 DEF Ended
  <2>3. r # NoCall
    BY <2>1, SharingAssumption
  <2> HIDE DEF r
  <2> QED BY <1>3, <2>1, <2>2, <2>3 DEF Settled, Carried, Same, Waiting
<1> QED BY <1>2, <1>3

-----------------------------------------------------------------------------
(* Who speaks of a space, and of which                                     *)

LEMMA RolesKept ==
  ASSUME TypeOK, Roles, UNCHANGED <<paired, invites>>, \A x \in Call : Carried(x),
         \A d \in Device : invitations'[d] \subseteq invitations[d]
  PROVE  Roles'
BY DEF Roles, Offered, Carried, Same

LEMMA RolesStep == ASSUME TypeOK, Roles, [Next]_vars PROVE Roles'
<1> DEFINE Calm == UNCHANGED <<paired, invites, invitations, calls>>
<1>1. ASSUME NEW c \in Call, NEW d \in Device, NEW e \in Device, NEW s \in Share,
             InviteShare(c, d, e, s)
      PROVE  Roles'
  <2>1. s \notin Offered /\ d # e
    BY <1>1 DEF InviteShare, Offered, Roles
  <2>2. invites' = [invites EXCEPT ![s] = [by |-> d, to |-> e]]
    BY <1>1 DEF InviteShare
  <2>3. Offered' = Offered \cup {s} /\ invites'[s] = [by |-> d, to |-> e]
    BY <2>2, SharingAssumption DEF Offered, TypeOK, Invite
  <2>4. \A x \in Offered : invites'[x] = invites[x]
    BY <2>1, <2>2 DEF Offered, TypeOK
  <2>5. \A x \in Call \ {c} : calls'[x] = calls[x]
    BY <1>1, BeginEffect DEF InviteShare
  <2>6. calls'[c].kind = "invite" /\ calls'[c].from = d /\ calls'[c].to = e /\ calls'[c].share = s
    BY <1>1, BeginEffect DEF InviteShare
  <2>7. UNCHANGED <<paired, invitations>>
    BY <1>1 DEF InviteShare
  <2>8. ASSUME NEW x \in Offered' PROVE (invites[x].by # invites[x].to)'
    BY <2>1, <2>3, <2>4 DEF Roles
  <2>9. ASSUME NEW x \in Call, calls'[x] # NoCall
        PROVE  /\ calls'[x].share \in Offered'
               /\ invites'[calls'[x].share] =
                    IF calls'[x].kind = "invite"
                    THEN [by |-> calls'[x].from, to |-> calls'[x].to]
                    ELSE [by |-> calls'[x].to, to |-> calls'[x].from]
    BY <2>3, <2>4, <2>5, <2>6, <2>9 DEF Roles
  <2> QED BY <2>3, <2>4, <2>7, <2>8, <2>9 DEF Roles
<1>2. ASSUME NEW c \in Call, NEW d \in Device, NEW e \in Device, NEW s \in Share,
             AcceptShareInvitation(c, d, e, s)
      PROVE  Roles'
  <2>1. s \in Offered /\ invites[s] = [by |-> e, to |-> d]
    BY <1>2 DEF AcceptShareInvitation, Roles
  <2>2. \A x \in Call \ {c} : calls'[x] = calls[x]
    BY <1>2, BeginEffect DEF AcceptShareInvitation
  <2>3. calls'[c].kind = "accept" /\ calls'[c].from = d /\ calls'[c].to = e /\ calls'[c].share = s
    BY <1>2, BeginEffect DEF AcceptShareInvitation
  <2> QED BY <1>2, <2>1, <2>2, <2>3 DEF AcceptShareInvitation, Roles, Offered
<1>3. ASSUME NEW c \in Call, Returns(c) PROVE Roles'
  <2>1. \A d \in Device : invitations'[d] \subseteq invitations[d]
    BY <1>3 DEF Returns, TypeOK
  <2> QED BY <1>3, <2>1, ClientEffect, RolesKept DEF Returns
<1>4. ASSUME NEW c \in Call, ClientFails(c) PROVE Roles'
  BY <1>4, ClientEffect, RolesKept DEF ClientFails
<1>5. ASSUME NEW c \in Call, RequestLost(c) \/ CheckShareAccept(c) \/ ActivateShare(c)
      PROVE  Roles'
  BY <1>5, ServerEffect, RolesKept DEF RequestLost, CheckShareAccept, ActivateShare
<1>6. ASSUME NEW c \in Call, HandleShareInvite(c) PROVE Roles'
  <2>1. calls[c] # NoCall /\ calls[c].kind = "invite"
    BY <1>6 DEF HandleShareInvite, At
  <2>2. /\ calls[c].share \in Offered
        /\ invites[calls[c].share] = [by |-> calls[c].from, to |-> calls[c].to]
    BY <2>1 DEF Roles
  <2>3. \A d \in Device : \A v \in invitations'[d] :
          \/ v \in invitations[d]
          \/ d = calls[c].to /\ v = [share |-> calls[c].share, from |-> calls[c].from]
    BY <1>6 DEF HandleShareInvite, TypeOK
  <2>4. UNCHANGED <<paired, invites>>
    BY <1>6 DEF HandleShareInvite
  <2>5. \A x \in Call : Carried(x)
    BY <1>6, ServerEffect
  <2> QED BY <2>2, <2>3, <2>4, <2>5 DEF Roles, Offered, Carried, Same
<1>7. ASSUME NEW d \in Device, Restart(d) PROVE Roles'
  BY <1>7, RestartEffect, RolesKept DEF Restart
<1>8. CASE Calm
  BY <1>8 DEF Roles, Offered
<1>9. ASSUME NEW d \in Device, NEW s \in Share, OpenForm(d, s) \/ HandleDeleteShare(d, s)
      PROVE  Roles'
  BY <1>8, <1>9 DEF OpenForm, HandleDeleteShare
<1>10. ASSUME NEW d \in Device, SaveForm(d) PROVE Roles'
  BY <1>8, <1>10 DEF SaveForm
<1>11. CASE UNCHANGED vars
  BY <1>8, <1>11 DEF vars
<1> QED BY <1>1, <1>2, <1>3, <1>4, <1>5, <1>6, <1>7, <1>9, <1>10, <1>11
        DEF Next, CallStep, UserStep

-----------------------------------------------------------------------------
(* Spaces nobody has offered, and spaces where they were accepted          *)

LEMMA FreshStep == ASSUME TypeOK, Roles, Fresh, [Next]_vars PROVE Fresh'
<1>1. ASSUME NEW c \in Call, NEW d \in Device, NEW e \in Device, NEW s \in Share,
             InviteShare(c, d, e, s)
      PROVE  Fresh'
  <2>1. Share \ Offered' = (Share \ Offered) \ {s}
    <3>1. [by |-> d, to |-> e] # NoInvite
      BY SharingAssumption DEF Invite
    <3> QED BY <1>1, <3>1 DEF InviteShare, Offered, TypeOK
  <2>2. \A x \in Share \ {s} : \A a \in Device : shares'[a][x] = shares[a][x]
    BY <1>1 DEF InviteShare, AddShare, TypeOK
  <2> QED BY <1>1, <2>1, <2>2 DEF InviteShare, Fresh
<1>2. ASSUME NEW c \in Call, NEW d \in Device, NEW e \in Device, NEW s \in Share,
             AcceptShareInvitation(c, d, e, s)
      PROVE  Fresh'
  <2>1. s \in Offered
    BY <1>2 DEF AcceptShareInvitation, Roles
  <2>2. \A x \in Share \ {s} : \A a \in Device : shares'[a][x] = shares[a][x]
    BY <1>2 DEF AcceptShareInvitation, AddShare, TypeOK
  <2> QED BY <1>2, <2>1, <2>2 DEF AcceptShareInvitation, Fresh, Offered
<1>3. ASSUME NEW c \in Call, Returns(c) PROVE Fresh'
  <2>1. calls[c].share \in Offered
    BY <1>3 DEF Returns, Waiting, Roles
  <2>2. \A x \in Share : \A a \in Device : shares'[a][x] \in {shares[a][x], NoShare}
    BY <1>3 DEF Returns, RollBack, DeleteShare, TypeOK
  <2>3. past'["accepted"] \subseteq past["accepted"] \cup {calls[c].share}
    BY <1>3 DEF Returns, Note, TypeOK, Event
  <2> QED BY <1>3, <2>1, <2>2, <2>3 DEF Returns, Fresh, Offered
<1>4. ASSUME NEW c \in Call, ClientFails(c) PROVE Fresh'
  <2>1. \A x \in Share : \A a \in Device : shares'[a][x] \in {shares[a][x], NoShare}
    BY <1>4 DEF ClientFails, RollBack, DeleteShare, TypeOK
  <2>2. past'["accepted"] = past["accepted"]
    BY <1>4 DEF ClientFails, Note, TypeOK, Event
  <2> QED BY <1>4, <2>1, <2>2 DEF ClientFails, Fresh, Offered
<1>5. ASSUME NEW c \in Call, RequestLost(c) \/ HandleShareInvite(c) \/ CheckShareAccept(c)
      PROVE  Fresh'
  BY <1>5 DEF RequestLost, HandleShareInvite, CheckShareAccept, Fresh, Offered
<1>6. ASSUME NEW c \in Call, ActivateShare(c) PROVE Fresh'
  <2>1. \A x \in Share : \A a \in Device : shares[a][x] = NoShare => shares'[a][x] = NoShare
    BY <1>6 DEF ActivateShare, UpdateShare, TypeOK
  <2> QED BY <1>6, <2>1 DEF ActivateShare, Fresh, Offered
<1>7. ASSUME NEW d \in Device, NEW s \in Share, OpenForm(d, s) PROVE Fresh'
  <2>1. s \in Offered
    BY <1>7 DEF OpenForm, Fresh
  <2>2. \A a \in Device : forms'[a] = forms[a] \/ forms'[a].share = s
    BY <1>7 DEF OpenForm, TypeOK
  <2> QED BY <1>7, <2>1, <2>2 DEF OpenForm, Fresh, Offered
<1>8. ASSUME NEW d \in Device, NEW s \in Share, HandleDeleteShare(d, s) PROVE Fresh'
  <2>1. \A x \in Share : \A a \in Device : shares'[a][x] \in {shares[a][x], NoShare}
    BY <1>8 DEF HandleDeleteShare, DeleteShare, TypeOK
  <2>2. past'["accepted"] = past["accepted"]
    BY <1>8 DEF HandleDeleteShare, Note, TypeOK, Event
  <2> QED BY <1>8, <2>1, <2>2 DEF HandleDeleteShare, Fresh, Offered
<1>9. ASSUME NEW d \in Device, SaveForm(d) PROVE Fresh'
  <2>1. \A x \in Share : \A a \in Device : shares[a][x] = NoShare => shares'[a][x] = NoShare
    BY <1>9 DEF SaveForm, UpdateShare, TypeOK
  <2>2. past'["accepted"] = past["accepted"]
    BY <1>9 DEF SaveForm, Note, TypeOK, Event
  <2>3. \A a \in Device : forms'[a] \in {forms[a], NoForm}
    BY <1>9 DEF SaveForm, TypeOK
  <2> QED BY <1>9, <2>1, <2>2, <2>3 DEF SaveForm, Fresh, Offered
<1>10. ASSUME NEW d \in Device, Restart(d) PROVE Fresh'
  <2>1. past'["accepted"] = past["accepted"]
    BY <1>10 DEF Restart, TypeOK, Event
  <2>2. \A a \in Device : forms'[a] \in {forms[a], NoForm}
    BY <1>10 DEF Restart, TypeOK
  <2> QED BY <1>10, <2>1, <2>2 DEF Restart, Fresh, Offered
<1>11. CASE UNCHANGED vars
  BY <1>11 DEF vars, Fresh, Offered
<1> QED BY <1>1, <1>2, <1>3, <1>4, <1>5, <1>6, <1>7, <1>8, <1>9, <1>10, <1>11
        DEF Next, CallStep, UserStep

LEMMA ThereActiveStep ==
  ASSUME TypeOK, Roles, Fresh, ThereActive, [Next]_vars PROVE ThereActive'
<1>1. ASSUME NEW c \in Call, NEW d \in Device, NEW e \in Device, NEW s \in Share,
             InviteShare(c, d, e, s)
      PROVE  ThereActive'
  <2>1. s \notin Offered /\ d # e
    BY <1>1 DEF InviteShare, Offered, Roles
  <2>2. invites'[s].to = e /\ \A x \in Share \ {s} : invites'[x] = invites[x]
    BY <1>1 DEF InviteShare, TypeOK
  <2>3. Offered' \subseteq Offered \cup {s}
    BY <2>2 DEF Offered
  <2>4. /\ shares'[e][s] = NoShare
        /\ \A x \in Share \ {s} : \A a \in Device : shares'[a][x] = shares[a][x]
    BY <1>1, <2>1 DEF InviteShare, AddShare, TypeOK, Fresh
  <2>5. forms' = forms /\ (forms[e] = NoForm \/ forms[e].share # s)
    BY <1>1, <2>1 DEF InviteShare, Fresh
  <2>6. \A x \in Offered : invites[x].to \in Device /\ x \in Share
    BY DEF Offered, TypeOK, Invite
  <2> QED BY <2>1, <2>2, <2>3, <2>4, <2>5, <2>6 DEF ThereActive, There
<1>2. ASSUME NEW c \in Call, NEW d \in Device, NEW e \in Device, NEW s \in Share,
             AcceptShareInvitation(c, d, e, s)
      PROVE  ThereActive'
  <2>1. shares' = [shares EXCEPT ![d][s] = [state |-> "active", peer |-> e]]
    BY <1>2 DEF AcceptShareInvitation, AddShare
  <2>2. \A x \in Share : \A a \in Device :
          shares'[a][x] = shares[a][x] \/ shares'[a][x].state = "active"
    BY <2>1 DEF TypeOK
  <2>3. \A x \in Offered : invites[x].to \in Device /\ x \in Share
    BY DEF Offered, TypeOK, Invite
  <2> QED BY <1>2, <2>2, <2>3 DEF AcceptShareInvitation, ThereActive, There, Offered
<1>3. ASSUME NEW c \in Call,
             Returns(c) \/ ClientFails(c) \/ RequestLost(c) \/ HandleShareInvite(c)
               \/ CheckShareAccept(c)
      PROVE  ThereActive'
  <2>1. \A x \in Share : \A a \in Device : shares'[a][x] \in {shares[a][x], NoShare}
    BY <1>3 DEF Returns, ClientFails, RequestLost, HandleShareInvite, CheckShareAccept,
                RollBack, DeleteShare, TypeOK
  <2>2. UNCHANGED <<invites, forms>>
    BY <1>3 DEF Returns, ClientFails, RequestLost, HandleShareInvite, CheckShareAccept
  <2>3. \A x \in Offered : invites[x].to \in Device /\ x \in Share
    BY DEF Offered, TypeOK, Invite
  <2> QED BY <2>1, <2>2, <2>3 DEF ThereActive, There, Offered
<1>4. ASSUME NEW c \in Call, ActivateShare(c) PROVE ThereActive'
  <2>1. \A x \in Share : \A a \in Device :
          shares'[a][x] = shares[a][x] \/ shares'[a][x].state = "active"
    BY <1>4 DEF ActivateShare, UpdateShare, TypeOK
  <2>2. \A x \in Offered : invites[x].to \in Device /\ x \in Share
    BY DEF Offered, TypeOK, Invite
  <2> QED BY <1>4, <2>1, <2>2 DEF ActivateShare, ThereActive, There, Offered
<1>5. ASSUME NEW d \in Device, NEW s \in Share, OpenForm(d, s) PROVE ThereActive'
  <2>1. /\ \A a \in Device \ {d} : forms'[a] = forms[a]
        /\ forms'[d].share = s /\ forms'[d].read = shares[d][s]
    BY <1>5 DEF OpenForm, TypeOK
  <2>2. \A x \in Offered : invites[x].to \in Device
    BY DEF Offered, TypeOK, Invite
  <2> QED BY <1>5, <2>1, <2>2 DEF OpenForm, ThereActive, There, Offered
<1>6. ASSUME NEW d \in Device, NEW s \in Share, HandleDeleteShare(d, s) PROVE ThereActive'
  <2>1. \A x \in Share : \A a \in Device : shares'[a][x] \in {shares[a][x], NoShare}
    BY <1>6 DEF HandleDeleteShare, DeleteShare, TypeOK
  <2>2. \A x \in Offered : invites[x].to \in Device /\ x \in Share
    BY DEF Offered, TypeOK, Invite
  <2> QED BY <1>6, <2>1, <2>2 DEF HandleDeleteShare, ThereActive, There, Offered
<1>7. ASSUME NEW d \in Device, SaveForm(d) PROVE ThereActive'
  <2>1. \A x \in Share : \A a \in Device :
          \/ shares'[a][x] = shares[a][x]
          \/ a = d /\ x = forms[d].share /\ shares'[a][x] = forms[d].read
    BY <1>7 DEF SaveForm, UpdateShare, TypeOK
  <2>2. \A x \in Offered : invites[x].to \in Device /\ x \in Share
    BY DEF Offered, TypeOK, Invite
  <2>3. forms[d] # NoForm /\ \A a \in Device : forms'[a] \in {forms[a], NoForm}
    BY <1>7 DEF SaveForm, TypeOK
  <2> QED BY <1>7, <2>1, <2>2, <2>3 DEF SaveForm, ThereActive, There, Offered
<1>8. ASSUME NEW d \in Device, Restart(d) PROVE ThereActive'
  <2>1. \A a \in Device : forms'[a] \in {forms[a], NoForm}
    BY <1>8 DEF Restart, TypeOK
  <2>2. \A x \in Offered : invites[x].to \in Device
    BY DEF Offered, TypeOK, Invite
  <2> QED BY <1>8, <2>1, <2>2 DEF Restart, ThereActive, There, Offered
<1>9. CASE UNCHANGED vars
  BY <1>9 DEF vars, ThereActive, There, Offered
<1> QED BY <1>1, <1>2, <1>3, <1>4, <1>5, <1>6, <1>7, <1>8, <1>9
        DEF Next, CallStep, UserStep

-----------------------------------------------------------------------------
(* Who is asking about a space                                             *)

Askers(d, s) == {c \in Call : Waiting(c) /\ calls[c].from = d /\ calls[c].share = s}

LEMMA AskingAskers ==
  ASSUME NEW d, NEW s PROVE Asking(d, s) <=> Askers(d, s) # {}
BY DEF Asking, Askers

LEMMA ServerAskers ==
  ASSUME TypeOK, NEW c \in Call, NEW s,
         RequestLost(c) \/ HandleShareInvite(c) \/ CheckShareAccept(c) \/ ActivateShare(c)
  PROVE  /\ Accepting(s)' = Accepting(s)
         /\ \A d : Askers(d, s)' = Askers(d, s)
BY ServerEffect DEF Accepting, Askers, Carried, Same, Waiting

LEMMA ClientAskers ==
  ASSUME TypeOK, NEW c \in Call, NEW s, Returns(c) \/ ClientFails(c)
  PROVE  /\ Accepting(s)' = Accepting(s) \ {c}
         /\ \A d : Askers(d, s)' = Askers(d, s) \ {c}
BY ClientEffect DEF Accepting, Askers, Carried, Same, Waiting

LEMMA RestartAskers ==
  ASSUME TypeOK, NEW a \in Device, NEW s, Restart(a)
  PROVE  /\ Accepting(s)' \subseteq Accepting(s)
         /\ \A d : Askers(d, s)' = IF d = a THEN {} ELSE Askers(d, s)
BY RestartEffect DEF Accepting, Askers, Carried, Same, Waiting

LEMMA BeginAskers ==
  ASSUME TypeOK, NEW c \in Call, NEW k \in {"invite", "accept"}, NEW d \in Device,
         NEW e \in Device, NEW s \in Share, Begin(c, k, d, e, s), NEW x
  PROVE  /\ Accepting(x)' = IF k = "accept" /\ x = s THEN Accepting(x) \cup {c}
                            ELSE Accepting(x)
         /\ \A a : Askers(a, x) \subseteq Askers(a, x)'
         /\ Askers(d, s)' # {}
BY BeginEffect DEF Accepting, Askers, Waiting

LEMMA StillAskers ==
  ASSUME UNCHANGED calls, NEW s
  PROVE  Accepting(s)' = Accepting(s) /\ \A d : Askers(d, s)' = Askers(d, s)
BY DEF Accepting, Askers, Waiting

-----------------------------------------------------------------------------
(* One acceptance at a time                                                *)

LEMMA OfferType ==
  ASSUME TypeOK, NEW s \in Offered
  PROVE  s \in Share /\ invites[s].by \in Device /\ invites[s].to \in Device
BY DEF Offered, TypeOK, Invite

LEMMA CallRoles ==
  ASSUME TypeOK, Roles, NEW c \in Call, calls[c] # NoCall
  PROVE  /\ calls[c] \in AnyCall
         /\ calls[c].share \in Offered
         /\ invites[calls[c].share].by # invites[calls[c].share].to
         /\ calls[c].kind = "invite" => invites[calls[c].share].by = calls[c].from
         /\ calls[c].kind = "accept" => invites[calls[c].share].to = calls[c].from
<1>1. calls[c] \in AnyCall
  BY CallType
<1>2. /\ calls[c].share \in Offered
      /\ invites[calls[c].share] =
           IF calls[c].kind = "invite" THEN [by |-> calls[c].from, to |-> calls[c].to]
           ELSE [by |-> calls[c].to, to |-> calls[c].from]
  BY DEF Roles
<1>3. invites[calls[c].share].by # invites[calls[c].share].to
  BY <1>2 DEF Roles
<1> QED BY <1>1, <1>2, <1>3

\* A deletion by a caller touches only its own device's entry: where the space
\* was accepted, only an acceptance deletes it.
LEMMA RolledBack ==
  ASSUME TypeOK, Roles, NEW c \in Call, calls[c] # NoCall, UNCHANGED invites,
         RollBack(calls[c])
  PROVE  \A x \in Offered :
           (x # calls[c].share \/ calls[c].kind # "accept") => There(x)' = There(x)
<1> SUFFICES ASSUME NEW x \in Offered, x # calls[c].share \/ calls[c].kind # "accept"
             PROVE  There(x)' = There(x)
  OBVIOUS
<1>1. x # calls[c].share \/ invites[x].to # calls[c].from
  BY CallRoles DEF AnyCall
<1>2. shares'[invites[x].to][x] = shares[invites[x].to][x]
  BY <1>1, OfferType DEF RollBack, DeleteShare, TypeOK
<1> QED BY <1>2 DEF There

\* Steps that neither answer nor begin an acceptance and keep what is there.
LEMMA AttemptsKept ==
  ASSUME TypeOK, Attempts, UNCHANGED invites,
         past'["accepted"] = past["accepted"],
         past["deleted"] \subseteq past'["deleted"],
         \A s \in Offered \ past'["deleted"] :
           /\ There(s) # NoShare => There(s)' # NoShare
           /\ Accepting(s)' \subseteq Accepting(s)
  PROVE  Attempts'
BY DEF Attempts, Offered

LEMMA AttemptsStep ==
  ASSUME TypeOK, Roles, Fresh, Attempts, [Next]_vars PROVE Attempts'
<1>1. ASSUME NEW c \in Call, NEW d \in Device, NEW e \in Device, NEW s \in Share,
             InviteShare(c, d, e, s)
      PROVE  Attempts'
  <2>1. s \notin Offered
    BY <1>1 DEF InviteShare, Offered
  <2>2. \A x \in Share \ {s} : invites'[x] = invites[x]
    BY <1>1 DEF InviteShare, TypeOK
  <2>3. Offered' \subseteq Offered \cup {s}
    BY <2>2 DEF Offered
  <2>4. \A x \in Share \ {s} : \A a \in Device : shares'[a][x] = shares[a][x]
    BY <1>1 DEF InviteShare, AddShare, TypeOK
  <2>5. \A x : Accepting(x)' = Accepting(x)
    BY <1>1, BeginAskers DEF InviteShare
  <2>6. Accepting(s) = {} /\ s \notin past["accepted"]
    <3>1. \A x \in Call : Waiting(x) => calls[x].share \in Offered
      BY DEF Waiting, Roles
    <3> QED BY <2>1, <3>1 DEF Accepting, Fresh
  <2>7. \A x \in Offered : There(x)' = There(x)
    BY <2>1, <2>2, <2>4, OfferType DEF There
  <2> QED BY <1>1, <2>1, <2>3, <2>5, <2>6, <2>7 DEF InviteShare, Attempts
<1>2. ASSUME NEW c \in Call, NEW d \in Device, NEW e \in Device, NEW s \in Share,
             AcceptShareInvitation(c, d, e, s)
      PROVE  Attempts'
  <2>1. s \in Offered /\ invites[s].to = d
    <3>1. s \in Offered /\ invites[s] = [by |-> e, to |-> d]
      BY <1>2 DEF AcceptShareInvitation, Roles
    <3> QED BY <3>1
  <2>2. There(s) = NoShare
    BY <1>2, <2>1 DEF AcceptShareInvitation, AddShare, There
  <2>3. shares' = [shares EXCEPT ![d][s] = [state |-> "active", peer |-> e]]
    BY <1>2 DEF AcceptShareInvitation, AddShare
  <2>4. [state |-> "active", peer |-> e] # NoShare
    BY SharingAssumption DEF Entry
  <2>5. UNCHANGED <<invites, past>> /\ Offered' = Offered
    BY <1>2 DEF AcceptShareInvitation, Offered
  <2>6. There(s)' # NoShare
    BY <2>1, <2>3, <2>4, <2>5 DEF There, TypeOK
  <2>7. \A x \in Offered \ {s} : There(x)' = There(x)
    BY <2>3, <2>5, OfferType DEF There, TypeOK
  <2>8. \A x : Accepting(x)' = IF x = s THEN Accepting(x) \cup {c} ELSE Accepting(x)
    BY <1>2, BeginAskers DEF AcceptShareInvitation
  <2>9. s \notin past["deleted"] => s \notin past["accepted"] /\ Accepting(s) = {}
    BY <2>1, <2>2 DEF Attempts
  <2> QED BY <2>5, <2>6, <2>7, <2>8, <2>9 DEF Attempts
<1>3. ASSUME NEW c \in Call, Returns(c) PROVE Attempts'
  <2> DEFINE s == calls[c].share
  <2>1. Waiting(c) /\ calls[c] # NoCall
    BY <1>3 DEF Returns, Waiting
  <2>2. calls[c].kind \in {"invite", "accept"} /\ s \in Offered
    BY <2>1, CallRoles DEF AnyCall
  <2>3. \A x : Accepting(x)' = Accepting(x) \ {c}
    BY <1>3, ClientAskers
  <2>4. calls[c].kind = "accept" => c \in Accepting(s)
    BY <2>1 DEF Accepting
  <2>5. UNCHANGED invites /\ Offered' = Offered
    BY <1>3 DEF Returns, Offered
  <2>6. CASE calls[c].reply = "ok"
    <3>1. /\ UNCHANGED shares /\ past'["deleted"] = past["deleted"]
          /\ past'["accepted"] = IF calls[c].kind = "accept" THEN past["accepted"] \cup {s}
                                 ELSE past["accepted"]
      BY <1>3, <2>2, <2>6 DEF Returns, Note, TypeOK, Event
    <3>2. \A x \in Offered : There(x)' = There(x)
      BY <2>5, <3>1 DEF There
    <3> QED BY <2>2, <2>3, <2>4, <2>5, <3>1, <3>2 DEF Attempts
  <2>7. CASE calls[c].reply # "ok"
    <3>1. UNCHANGED past /\ RollBack(calls[c])
      BY <1>3, <2>7 DEF Returns
    <3>2. \A x \in Offered :
            (x # s \/ calls[c].kind # "accept") => There(x)' = There(x)
      BY <2>1, <2>5, <3>1, RolledBack
    <3> QED BY <2>3, <2>4, <2>5, <3>1, <3>2 DEF Attempts
  <2> QED BY <2>6, <2>7
<1>4. ASSUME NEW c \in Call, ClientFails(c) PROVE Attempts'
  <2> DEFINE s == calls[c].share
  <2>1. Waiting(c) /\ calls[c] # NoCall
    BY <1>4 DEF ClientFails, Waiting
  <2>2. calls[c].kind \in {"invite", "accept"} /\ s \in Offered
    BY <2>1, CallRoles DEF AnyCall
  <2>3. \A x : Accepting(x)' = Accepting(x) \ {c}
    BY <1>4, ClientAskers
  <2>4. calls[c].kind = "accept" => c \in Accepting(s)
    BY <2>1 DEF Accepting
  <2>5. UNCHANGED invites /\ Offered' = Offered
    BY <1>4 DEF ClientFails, Offered
  <2>6. RollBack(calls[c])
    BY <1>4 DEF ClientFails
  <2>7. past'["accepted"] = past["accepted"] /\ past'["deleted"] = past["deleted"]
    BY <1>4 DEF ClientFails, Note, TypeOK, Event
  <2>8. \A x \in Offered :
            (x # s \/ calls[c].kind # "accept") => There(x)' = There(x)
    BY <2>1, <2>5, <2>6, RolledBack
  <2> QED BY <2>3, <2>4, <2>5, <2>7, <2>8 DEF Attempts
<1>5. ASSUME NEW c \in Call, RequestLost(c) \/ HandleShareInvite(c) \/ CheckShareAccept(c)
      PROVE  Attempts'
  <2>1. UNCHANGED <<shares, invites, past>>
    BY <1>5 DEF RequestLost, HandleShareInvite, CheckShareAccept
  <2>2. \A x : Accepting(x)' = Accepting(x)
    BY <1>5, ServerAskers
  <2> QED BY <2>1, <2>2, AttemptsKept DEF There
<1>6. ASSUME NEW c \in Call, ActivateShare(c) PROVE Attempts'
  <2>1. \A x \in Share : \A a \in Device : shares[a][x] # NoShare => shares'[a][x] # NoShare
    <3>1. calls[c] # NoCall
      BY <1>6 DEF ActivateShare, At
    <3>2. [state |-> "active", peer |-> calls[c].from] # NoShare
      <4>1. calls[c] \in AnyCall
        BY <3>1, CallType
      <4>2. calls[c].from \in Device
        BY <4>1 DEF AnyCall
      <4> QED BY <4>2, SharingAssumption DEF Entry
    <3> QED BY <1>6, <3>2 DEF ActivateShare, UpdateShare, TypeOK
  <2>2. \A x : Accepting(x)' = Accepting(x)
    BY <1>6, ServerAskers
  <2>3. UNCHANGED <<invites, past>>
    BY <1>6 DEF ActivateShare
  <2> QED BY <2>1, <2>2, <2>3, OfferType, AttemptsKept DEF There
<1>7. ASSUME NEW d \in Device, NEW s \in Share, OpenForm(d, s) PROVE Attempts'
  BY <1>7, StillAskers, AttemptsKept DEF OpenForm, There
<1>8. ASSUME NEW d \in Device, NEW s \in Share, HandleDeleteShare(d, s) PROVE Attempts'
  <2>1. /\ past'["accepted"] = past["accepted"]
        /\ past'["deleted"] = past["deleted"] \cup {s}
    BY <1>8 DEF HandleDeleteShare, Note, TypeOK, Event
  <2>2. \A x \in Share \ {s} : \A a \in Device : shares'[a][x] = shares[a][x]
    BY <1>8 DEF HandleDeleteShare, DeleteShare, TypeOK
  <2>3. UNCHANGED <<invites, calls>>
    BY <1>8 DEF HandleDeleteShare
  <2> QED BY <2>1, <2>2, <2>3, OfferType, StillAskers, AttemptsKept DEF There
<1>9. ASSUME NEW d \in Device, SaveForm(d) PROVE Attempts'
  <2>1. forms[d].read # NoShare
    BY <1>9, SharingAssumption DEF SaveForm, TypeOK, Form
  <2>2. \A x \in Share : \A a \in Device : shares[a][x] # NoShare => shares'[a][x] # NoShare
    BY <1>9, <2>1 DEF SaveForm, UpdateShare, TypeOK
  <2>3. past'["accepted"] = past["accepted"] /\ past'["deleted"] = past["deleted"]
    BY <1>9 DEF SaveForm, Note, TypeOK, Event
  <2>4. UNCHANGED <<invites, calls>>
    BY <1>9 DEF SaveForm
  <2> QED BY <2>2, <2>3, <2>4, OfferType, StillAskers, AttemptsKept DEF There
<1>10. ASSUME NEW d \in Device, Restart(d) PROVE Attempts'
  <2>1. past'["accepted"] = past["accepted"] /\ past'["deleted"] = past["deleted"]
    BY <1>10 DEF Restart, TypeOK, Event
  <2>2. UNCHANGED <<invites, shares>>
    BY <1>10 DEF Restart
  <2> QED BY <1>10, <2>1, <2>2, RestartAskers, AttemptsKept DEF There
<1>11. CASE UNCHANGED vars
  BY <1>11, StillAskers, AttemptsKept DEF vars, There
<1> QED BY <1>1, <1>2, <1>3, <1>4, <1>5, <1>6, <1>7, <1>8, <1>9, <1>10, <1>11
        DEF Next, CallStep, UserStep

-----------------------------------------------------------------------------
(* Nothing is left of an attempt that failed                               *)

\* The part of HalfDoneIsUndone about one device of a space.
Accounted(d, s, e) == shares[d][s] # NoShare => s \in past[e] \/ Askers(d, s) # {}

LEMMA HalfDoneParts ==
  HalfDoneIsUndone <=>
    \A s \in Offered \ past["stopped"] :
      Accounted(invites[s].by, s, "invited") /\ Accounted(invites[s].to, s, "accepted")
BY AskingAskers DEF HalfDoneIsUndone, Accounted, Here, There

LEMMA HalfDonePrimed ==
  HalfDoneIsUndone' <=>
    \A s \in Offered' \ past'["stopped"] :
      Accounted(invites[s].by, s, "invited")' /\ Accounted(invites[s].to, s, "accepted")'
BY DEF HalfDoneIsUndone, Accounted, Here, There, Asking, Askers

\* Steps that add no space and end no caller.
LEMMA HalfDoneKept ==
  ASSUME TypeOK, HalfDoneIsUndone, UNCHANGED invites,
         \A e \in {"invited", "accepted", "stopped"} : past'[e] = past[e],
         \A s \in Share, d \in Device : shares'[d][s] # NoShare => shares[d][s] # NoShare,
         \A s \in Share, d \in Device : Askers(d, s)' = Askers(d, s)
  PROVE  HalfDoneIsUndone'
<1>1. Offered' = Offered
  BY DEF Offered
<1>2. ASSUME NEW s \in Offered \ past["stopped"]
      PROVE  /\ Accounted(invites[s].by, s, "invited")'
             /\ Accounted(invites[s].to, s, "accepted")'
  BY OfferType, HalfDoneParts DEF Accounted
<1> QED BY <1>1, <1>2, HalfDonePrimed

LEMMA HalfDoneStep ==
  ASSUME TypeOK, Roles, Fresh, HalfDoneIsUndone, [Next]_vars PROVE HalfDoneIsUndone'
<1> DEFINE Parts(s) == /\ Accounted(invites[s].by, s, "invited")
                       /\ Accounted(invites[s].to, s, "accepted")
<1>a. \A s \in Offered \ past["stopped"] : Parts(s)
  BY HalfDoneParts
<1>b. SUFFICES \A s \in Offered' \ past'["stopped"] : Parts(s)'
  BY HalfDonePrimed
<1>1. ASSUME NEW c \in Call, NEW d \in Device, NEW e \in Device, NEW s \in Share,
             InviteShare(c, d, e, s)
      PROVE  \A x \in Offered' \ past'["stopped"] : Parts(x)'
  <2>1. s \notin Offered /\ d # e
    BY <1>1 DEF InviteShare, Offered, Roles
  <2>2. /\ invites'[s].by = d /\ invites'[s].to = e
        /\ \A x \in Share \ {s} : invites'[x] = invites[x]
    BY <1>1 DEF InviteShare, TypeOK
  <2>3. Offered' \subseteq Offered \cup {s} /\ past' = past
    BY <1>1, <2>2 DEF Offered, InviteShare
  <2>4. /\ shares'[e][s] = NoShare
        /\ \A x \in Share \ {s} : \A a \in Device : shares'[a][x] = shares[a][x]
    BY <1>1, <2>1 DEF InviteShare, AddShare, TypeOK, Fresh
  <2>5. Askers(d, s)' # {} /\ \A x, a : Askers(a, x) \subseteq Askers(a, x)'
    BY <1>1, BeginAskers DEF InviteShare
  <2>6. Parts(s)'
    BY <2>2, <2>4, <2>5 DEF Accounted
  <2>7. ASSUME NEW x \in Offered \ past["stopped"] PROVE Parts(x)'
    BY <1>a, <2>1, <2>2, <2>3, <2>4, <2>5, OfferType DEF Accounted
  <2> QED BY <2>3, <2>6, <2>7
<1>2. ASSUME NEW c \in Call, NEW d \in Device, NEW e \in Device, NEW s \in Share,
             AcceptShareInvitation(c, d, e, s)
      PROVE  \A x \in Offered' \ past'["stopped"] : Parts(x)'
  <2>1. UNCHANGED <<invites, past>> /\ Offered' = Offered
    BY <1>2 DEF AcceptShareInvitation, Offered
  <2>2. \A x \in Share : \A a \in Device : (a # d \/ x # s) => shares'[a][x] = shares[a][x]
    BY <1>2 DEF AcceptShareInvitation, AddShare, TypeOK
  <2>3. Askers(d, s)' # {} /\ \A x, a : Askers(a, x) \subseteq Askers(a, x)'
    BY <1>2, BeginAskers DEF AcceptShareInvitation
  <2> QED BY <1>a, <2>1, <2>2, <2>3, OfferType DEF Accounted
<1>3. ASSUME NEW c \in Call, Returns(c)
      PROVE  \A x \in Offered' \ past'["stopped"] : Parts(x)'
  <2> DEFINE s == calls[c].share
  <2>1. Waiting(c) /\ calls[c] # NoCall
    BY <1>3 DEF Returns, Waiting
  <2>2. calls[c].kind \in {"invite", "accept"} /\ calls[c].from \in Device /\ s \in Offered
    BY <2>1, CallRoles DEF AnyCall
  <2>3. UNCHANGED invites /\ Offered' = Offered /\ past'["stopped"] = past["stopped"]
    BY <1>3 DEF Returns, Offered, Note, TypeOK, Event
  <2>4. \A x, a : Askers(a, x)' = Askers(a, x) \ {c}
    BY <1>3, ClientAskers
  <2>5. \A x, a : c \in Askers(a, x) => x = s /\ a = calls[c].from
    BY DEF Askers
  <2>6. CASE calls[c].reply = "ok"
    <3>1. /\ UNCHANGED shares
          /\ past["invited"] \subseteq past'["invited"]
          /\ past["accepted"] \subseteq past'["accepted"]
          /\ s \in past'[IF calls[c].kind = "invite" THEN "invited" ELSE "accepted"]
      BY <1>3, <2>6 DEF Returns, Note, TypeOK, Event
    <3>2. ASSUME NEW x \in Offered \ past["stopped"] PROVE Parts(x)'
      BY <1>a, <2>1, <2>2, <2>3, <2>4, <2>5, <3>1, CallRoles DEF Accounted
    <3> QED BY <2>3, <3>2
  <2>7. CASE calls[c].reply # "ok"
    <3>1. UNCHANGED past /\ shares' = [shares EXCEPT ![calls[c].from][s] = NoShare]
      BY <1>3, <2>7 DEF Returns, RollBack, DeleteShare
    <3>2. \A x \in Share : \A a \in Device :
            shares'[a][x] = IF a = calls[c].from /\ x = s THEN NoShare ELSE shares[a][x]
      BY <3>1 DEF TypeOK
    <3>3. ASSUME NEW x \in Offered \ past["stopped"] PROVE Parts(x)'
      BY <1>a, <2>3, <2>4, <2>5, <3>1, <3>2, OfferType DEF Accounted
    <3> QED BY <2>3, <3>3
  <2> QED BY <2>6, <2>7
<1>4. ASSUME NEW c \in Call, ClientFails(c)
      PROVE  \A x \in Offered' \ past'["stopped"] : Parts(x)'
  <2> DEFINE s == calls[c].share
  <2>1. UNCHANGED invites /\ Offered' = Offered
    BY <1>4 DEF ClientFails, Offered
  <2>2. \A e \in {"invited", "accepted", "stopped"} : past'[e] = past[e]
    BY <1>4 DEF ClientFails, Note, TypeOK, Event
  <2>3. shares' = [shares EXCEPT ![calls[c].from][s] = NoShare]
    BY <1>4 DEF ClientFails, RollBack, DeleteShare
  <2>4. \A x \in Share : \A a \in Device :
          shares'[a][x] = IF a = calls[c].from /\ x = s THEN NoShare ELSE shares[a][x]
    BY <2>3 DEF TypeOK
  <2>5. \A x, a : Askers(a, x)' = Askers(a, x) \ {c}
    BY <1>4, ClientAskers
  <2>6. \A x, a : c \in Askers(a, x) => x = s /\ a = calls[c].from
    BY DEF Askers
  <2>7. ASSUME NEW x \in Offered \ past["stopped"] PROVE Parts(x)'
    BY <1>a, <2>1, <2>2, <2>4, <2>5, <2>6, OfferType DEF Accounted
  <2> QED BY <2>1, <2>2, <2>7
<1>5. ASSUME NEW c \in Call,
             RequestLost(c) \/ HandleShareInvite(c) \/ CheckShareAccept(c) \/ ActivateShare(c)
      PROVE  HalfDoneIsUndone'
  <2>1. UNCHANGED <<invites, past>>
    BY <1>5 DEF RequestLost, HandleShareInvite, CheckShareAccept, ActivateShare
  <2>2. \A x \in Share, a \in Device : shares'[a][x] # NoShare => shares[a][x] # NoShare
    BY <1>5 DEF RequestLost, HandleShareInvite, CheckShareAccept, ActivateShare, UpdateShare,
                TypeOK
  <2> QED BY <1>5, <2>1, <2>2, ServerAskers, HalfDoneKept
<1>6. ASSUME NEW d \in Device, NEW s \in Share, OpenForm(d, s) PROVE HalfDoneIsUndone'
  BY <1>6, StillAskers, HalfDoneKept DEF OpenForm
<1>7. ASSUME NEW d \in Device, NEW s \in Share, HandleDeleteShare(d, s)
      PROVE  HalfDoneIsUndone'
  <2>1. /\ UNCHANGED <<invites, calls>>
        /\ \A e \in {"invited", "accepted", "stopped"} : past'[e] = past[e]
    BY <1>7 DEF HandleDeleteShare, Note, TypeOK, Event
  <2>2. \A x \in Share, a \in Device : shares'[a][x] # NoShare => shares[a][x] # NoShare
    BY <1>7 DEF HandleDeleteShare, DeleteShare, TypeOK
  <2> QED BY <2>1, <2>2, StillAskers, HalfDoneKept
<1>8. ASSUME NEW d \in Device, SaveForm(d) PROVE HalfDoneIsUndone'
  <2>1. /\ UNCHANGED <<invites, calls>>
        /\ \A e \in {"invited", "accepted", "stopped"} : past'[e] = past[e]
    BY <1>8 DEF SaveForm, Note, TypeOK, Event
  <2>2. \A x \in Share, a \in Device : shares'[a][x] # NoShare => shares[a][x] # NoShare
    BY <1>8 DEF SaveForm, UpdateShare, TypeOK
  <2> QED BY <2>1, <2>2, StillAskers, HalfDoneKept
<1>9. ASSUME NEW d \in Device, Restart(d)
      PROVE  \A x \in Offered' \ past'["stopped"] : Parts(x)'
  <2>1. UNCHANGED <<invites, shares>> /\ Offered' = Offered
    BY <1>9 DEF Restart, Offered
  <2>2. /\ past'["invited"] = past["invited"] /\ past'["accepted"] = past["accepted"]
        /\ past["stopped"] \subseteq past'["stopped"]
        /\ \A x : Askers(d, x) # {} => x \in past'["stopped"]
    BY <1>9 DEF Restart, TypeOK, Event, Askers
  <2>3. \A x, a : Askers(a, x)' = IF a = d THEN {} ELSE Askers(a, x)
    BY <1>9, RestartAskers
  <2>4. ASSUME NEW x \in Offered \ past'["stopped"] PROVE Parts(x)'
    <3>1. x \in Offered \ past["stopped"] /\ Askers(d, x) = {}
      BY <2>2
    <3>2. \A a : Askers(a, x)' = Askers(a, x)
      BY <2>3, <3>1
    <3> QED BY <1>a, <2>1, <2>2, <3>1, <3>2 DEF Accounted
  <2> QED BY <2>1, <2>4
<1>10. ASSUME UNCHANGED vars PROVE HalfDoneIsUndone'
  <2>1. UNCHANGED <<shares, calls, invites, past>>
    BY <1>10 DEF vars
  <2> QED BY <2>1, StillAskers, HalfDoneKept
<1>c. HalfDoneIsUndone' => \A s \in Offered' \ past'["stopped"] : Parts(s)'
  BY HalfDonePrimed
<1> QED BY <1>1, <1>2, <1>3, <1>4, <1>5, <1>6, <1>7, <1>8, <1>9, <1>10, <1>c
        DEF Next, CallStep, UserStep

-----------------------------------------------------------------------------
(* The calls of a space and their answers                                  *)

LEMMA PutEffect ==
  ASSUME TypeOK, NEW c \in Call, NEW r \in AnyCall, Put(c, r)
  PROVE  /\ \A x \in Call \ {c} : calls'[x] = calls[x]
         /\ calls'[c] = Settled(r) /\ r # NoCall
BY SharingAssumption DEF TypeOK, Put

LEMMA BeginInviting ==
  ASSUME TypeOK, NEW c \in Call, NEW k \in {"invite", "accept"}, NEW d \in Device,
         NEW e \in Device, NEW s \in Share, Begin(c, k, d, e, s)
  PROVE  /\ \A x \in Call \ {c} : calls'[x] = calls[x]
         /\ Waiting(c)' /\ ~Answered(c)' /\ calls'[c].reply = "none"
         /\ \A x : /\ c \notin Inviting(x) /\ c \notin Accepting(x)
                   /\ Inviting(x)' = IF k = "invite" /\ x = s THEN Inviting(x) \cup {c}
                                     ELSE Inviting(x)
                   /\ Accepting(x)' = IF k = "accept" /\ x = s THEN Accepting(x) \cup {c}
                                      ELSE Accepting(x)
<1> DEFINE r == [kind |-> k, from |-> d, to |-> e, share |-> s, client |-> "waiting",
                 server |-> "coming", reply |-> "none"]
<1>1. r \in AnyCall /\ Settled(r) = r
  BY DEF AnyCall, Settled
<1>2. calls'[c] = r /\ r # NoCall /\ calls[c] = NoCall
  BY <1>1, PutEffect DEF Begin
<1>3. \A x \in Call \ {c} : calls'[x] = calls[x]
  BY <1>1, PutEffect DEF Begin
<1> QED BY <1>2, <1>3 DEF Waiting, Answered, Inviting, Accepting

\* A handler's step gives one call an answer, or leaves its answer as it was.
LEMMA ServerAnswers ==
  ASSUME TypeOK, NEW c \in Call,
         RequestLost(c) \/ HandleShareInvite(c) \/ CheckShareAccept(c) \/ ActivateShare(c)
  PROVE  /\ calls[c] # NoCall /\ calls[c].server # "ended"
         /\ \A x \in Call \ {c} : calls'[x] = calls[x]
         /\ \A x : Inviting(x)' = Inviting(x) /\ Accepting(x)' = Accepting(x)
<1>1. calls[c] # NoCall /\ calls[c].server # "ended"
  BY DEF RequestLost, HandleShareInvite, CheckShareAccept, ActivateShare, At
<1>2. \A x \in Call \ {c} : calls'[x] = calls[x]
  BY DEF RequestLost, HandleShareInvite, CheckShareAccept, ActivateShare, Answer, Put, TypeOK
<1> QED BY <1>1, <1>2, ServerEffect DEF Inviting, Accepting, Carried, Same, Waiting

LEMMA ClientStops ==
  ASSUME TypeOK, NEW c \in Call, Returns(c) \/ ClientFails(c)
  PROVE  /\ Waiting(c)
         /\ calls'[c] # NoCall => calls[c].server # "ended" /\ calls'[c].server = calls[c].server
                                  /\ calls'[c].reply = calls[c].reply
         /\ \A x \in Call \ {c} : calls'[x] = calls[x]
         /\ \A x : Inviting(x)' = Inviting(x) \ {c} /\ Accepting(x)' = Accepting(x) \ {c}
<1>1. Waiting(c) /\ Put(c, [calls[c] EXCEPT !.client = "ended"])
  BY DEF Returns, ClientFails
<1> DEFINE r == [calls[c] EXCEPT !.client = "ended"]
<1>2. calls[c] \in AnyCall /\ r \in AnyCall
  BY <1>1, CallType DEF Waiting
<1>3. /\ \A x \in Call \ {c} : calls'[x] = calls[x]
      /\ calls'[c] = Settled(r)
  BY <1>1, <1>2, PutEffect
<1>4. r.client = "ended" /\ r.server = calls[c].server /\ r.reply = calls[c].reply
  BY <1>2 DEF AnyCall
<1>5. calls'[c] # NoCall => calls[c].server # "ended" /\ calls'[c].server = calls[c].server
                            /\ calls'[c].reply = calls[c].reply
  <2> HIDE DEF r
  <2> QED BY <1>3, <1>4 DEF Settled
<1>6. \A x \in Call : Carried(x) /\ (Waiting(x)' <=> Waiting(x) /\ x # c)
  BY ClientEffect
<1>7. \A x : Inviting(x)' = Inviting(x) \ {c} /\ Accepting(x)' = Accepting(x) \ {c}
  BY <1>6 DEF Inviting, Accepting, Carried, Same, Waiting
<1> QED BY <1>1, <1>3, <1>5, <1>7

LEMMA RestartStops ==
  ASSUME TypeOK, NEW d \in Device, Restart(d)
  PROVE  \A x \in Call : calls'[x] # NoCall =>
           /\ calls[x] # NoCall /\ calls'[x].reply = calls[x].reply
           /\ calls[x].server = "ended" => calls'[x].server = "ended"
<1> SUFFICES ASSUME NEW x \in Call, calls'[x] # NoCall
             PROVE  /\ calls[x] # NoCall /\ calls'[x].reply = calls[x].reply
                    /\ calls[x].server = "ended" => calls'[x].server = "ended"
  OBVIOUS
<1>1. calls[x] # NoCall /\ calls'[x] = Ended(d, calls[x])
  BY DEF Restart, Ended
<1> DEFINE r == [calls[x] EXCEPT !.client = IF calls[x].from = d THEN "ended" ELSE @,
                                 !.server = IF calls[x].to = d THEN "ended" ELSE @]
<1>2. calls'[x] = Settled(r)
  BY <1>1 DEF Ended
<1>3. r.reply = calls[x].reply /\ (calls[x].server = "ended" => r.server = "ended")
  <2>1. calls[x] \in AnyCall
    BY <1>1, CallType
  <2> QED BY <2>1 DEF AnyCall
<1> HIDE DEF r
<1> QED BY <1>1, <1>2, <1>3 DEF Settled

LEMMA RestartInviting ==
  ASSUME TypeOK, NEW d \in Device, Restart(d), NEW s
  PROVE  /\ Inviting(s)' = {c \in Inviting(s) : calls[c].from # d}
         /\ Accepting(s)' = {c \in Accepting(s) : calls[c].from # d}
         /\ \A c \in Inviting(s)' \cup Accepting(s)' : Answered(c)' = Answered(c)
BY RestartEffect, RestartStops DEF Inviting, Accepting, Answered, Carried, Same, Waiting

LEMMA StillInviting ==
  ASSUME UNCHANGED calls
  PROVE  /\ \A x : Inviting(x)' = Inviting(x) /\ Accepting(x)' = Accepting(x)
         /\ \A c \in Call : Answered(c)' = Answered(c)
BY DEF Inviting, Accepting, Answered, Waiting

-----------------------------------------------------------------------------
(* One invitation, and its one call                                        *)

LEMMA SoloKept ==
  ASSUME Solo, UNCHANGED invites, past'["invited"] = past["invited"],
         \A x : Inviting(x)' \subseteq Inviting(x), AnsweredLast'
  PROVE  Solo'
BY DEF Solo, AnsweredLast, Offered

LEMMA SoloStep == ASSUME TypeOK, Roles, Solo, [Next]_vars PROVE Solo'
<1>1. ASSUME NEW c \in Call, NEW d \in Device, NEW e \in Device, NEW s \in Share,
             InviteShare(c, d, e, s)
      PROVE  Solo'
  <2>1. s \notin Offered /\ UNCHANGED past
    BY <1>1 DEF InviteShare, Offered
  <2>2. Offered' = Offered \cup {s}
    BY <1>1, SharingAssumption DEF InviteShare, Offered, TypeOK, Invite
  <2>3. Inviting(s) = {}
    BY <2>1 DEF Inviting, Waiting, Roles
  <2>4. /\ \A x \in Call \ {c} : calls'[x] = calls[x]
        /\ calls'[c].reply = "none"
        /\ \A x : Inviting(x)' = IF x = s THEN Inviting(x) \cup {c} ELSE Inviting(x)
    BY <1>1, BeginInviting DEF InviteShare
  <2>5. AnsweredLast'
    BY <2>4 DEF Solo, AnsweredLast
  <2>6. ASSUME NEW x \in Offered'
        PROVE  /\ \A y \in Inviting(x)' : x \notin past'["invited"]
               /\ \A y, z \in Inviting(x)' : y = z
    BY <2>1, <2>2, <2>3, <2>4 DEF Solo
  <2> QED BY <2>1, <2>2, <2>5, <2>6 DEF Solo, AnsweredLast
<1>2. ASSUME NEW c \in Call, NEW d \in Device, NEW e \in Device, NEW s \in Share,
             AcceptShareInvitation(c, d, e, s)
      PROVE  Solo'
  <2>1. /\ \A x \in Call \ {c} : calls'[x] = calls[x]
        /\ calls'[c].reply = "none"
        /\ \A x : Inviting(x)' = Inviting(x)
    BY <1>2, BeginInviting DEF AcceptShareInvitation
  <2>2. AnsweredLast'
    BY <2>1 DEF Solo, AnsweredLast
  <2> QED BY <1>2, <2>1, <2>2, SoloKept DEF AcceptShareInvitation
<1>3. ASSUME NEW c \in Call, Returns(c) \/ ClientFails(c) PROVE Solo'
  <2> DEFINE s == calls[c].share
  <2>1. Waiting(c) /\ s \in Offered /\ calls[c] # NoCall
    BY <1>3, ClientStops, CallRoles DEF Waiting
  <2>2. UNCHANGED invites /\ Offered' = Offered
    BY <1>3 DEF Returns, ClientFails, Offered
  <2>3. /\ \A x \in Call \ {c} : calls'[x] = calls[x]
        /\ \A x : Inviting(x)' = Inviting(x) \ {c}
        /\ calls'[c] # NoCall => calls'[c].server = calls[c].server
                                 /\ calls'[c].reply = calls[c].reply
    BY <1>3, ClientStops
  <2>4. AnsweredLast'
    BY <2>1, <2>3 DEF Solo, AnsweredLast
  <2>5. \/ past'["invited"] = past["invited"]
        \/ past'["invited"] = past["invited"] \cup {s} /\ c \in Inviting(s)
    <3>1. calls[c].kind \in {"invite", "accept"}
      BY <2>1, CallRoles DEF AnyCall
    <3> QED BY <1>3, <2>1, <3>1 DEF Returns, ClientFails, Note, TypeOK, Event, Inviting
  <2>6. ASSUME NEW x \in Offered
        PROVE  /\ \A y \in Inviting(x)' : x \notin past'["invited"]
               /\ \A y, z \in Inviting(x)' : y = z
    BY <2>1, <2>3, <2>5 DEF Solo
  <2> QED BY <2>1, <2>2, <2>4, <2>5, <2>6 DEF Solo, AnsweredLast
<1>4. ASSUME NEW c \in Call,
             RequestLost(c) \/ HandleShareInvite(c) \/ CheckShareAccept(c) \/ ActivateShare(c)
      PROVE  Solo'
  <2>1. /\ calls[c] \in AnyCall /\ calls[c].server # "ended"
        /\ \A x \in Call \ {c} : calls'[x] = calls[x]
        /\ \A x : Inviting(x)' = Inviting(x)
    BY <1>4, ServerAnswers, CallType
  <2>2. calls[c].reply = "none"
    BY <1>4, <2>1, ServerAnswers DEF Solo, AnsweredLast
  <2>3. calls'[c] # NoCall /\ calls'[c].reply # "none" => calls'[c].server = "ended"
    <3>1. \/ \E k \in {"checked", "ended"} : Put(c, [calls[c] EXCEPT !.server = k])
          \/ \E y \in {"none", "ok", "error"} :
               Put(c, [calls[c] EXCEPT !.server = "ended", !.reply = y])
      BY <1>4 DEF RequestLost, HandleShareInvite, CheckShareAccept, ActivateShare, Answer
    <3>2. \A k \in {"checked", "ended"} :
            LET r == [calls[c] EXCEPT !.server = k] IN r \in AnyCall /\ r.reply = "none"
      BY <2>1, <2>2 DEF AnyCall
    <3>3. \A y \in {"none", "ok", "error"} :
            LET r == [calls[c] EXCEPT !.server = "ended", !.reply = y] IN
            r \in AnyCall /\ r.server = "ended"
      BY <2>1 DEF AnyCall
    <3> QED BY <3>1, <3>2, <3>3, PutEffect DEF Settled
  <2>4. AnsweredLast'
    BY <2>1, <2>3 DEF Solo, AnsweredLast
  <2> QED BY <1>4, <2>1, <2>4, SoloKept
          DEF RequestLost, HandleShareInvite, CheckShareAccept, ActivateShare
<1>5. ASSUME NEW d \in Device, Restart(d) PROVE Solo'
  <2>1. AnsweredLast'
    BY <1>5, RestartStops DEF Solo, AnsweredLast
  <2>2. past'["invited"] = past["invited"] /\ UNCHANGED invites
    BY <1>5 DEF Restart, TypeOK, Event
  <2> QED BY <1>5, <2>1, <2>2, RestartInviting, SoloKept
<1>6. ASSUME UNCHANGED <<calls, invites>>, past'["invited"] = past["invited"] PROVE Solo'
  <2>1. AnsweredLast'
    BY <1>6 DEF Solo, AnsweredLast
  <2> QED BY <1>6, <2>1, StillInviting, SoloKept
<1>7. ASSUME NEW d \in Device, NEW s \in Share, OpenForm(d, s) \/ HandleDeleteShare(d, s)
      PROVE  Solo'
  BY <1>6, <1>7 DEF OpenForm, HandleDeleteShare, Note, TypeOK, Event
<1>8. ASSUME NEW d \in Device, SaveForm(d) PROVE Solo'
  BY <1>6, <1>8 DEF SaveForm, Note, TypeOK, Event
<1>9. CASE UNCHANGED vars
  BY <1>6, <1>9 DEF vars
<1> QED BY <1>1, <1>2, <1>3, <1>4, <1>5, <1>7, <1>8, <1>9 DEF Next, CallStep, UserStep

-----------------------------------------------------------------------------
(* What the steps do to the space where it was offered                     *)

LEMMA AnswerEffect ==
  ASSUME TypeOK, NEW c \in Call, calls[c] # NoCall, NEW y \in {"none", "ok", "error"}, Answer(c, y)
  PROVE  calls'[c] # NoCall => calls'[c].reply = y
<1> DEFINE r == [calls[c] EXCEPT !.server = "ended", !.reply = y]
<1>1. r \in AnyCall /\ r.reply = y
  <2>1. calls[c] \in AnyCall
    BY CallType
  <2> QED BY <2>1 DEF AnyCall
<1>2. calls'[c] = Settled(r)
  BY <1>1, PutEffect DEF Answer
<1> HIDE DEF r
<1> QED BY <1>1, <1>2 DEF Settled

LEMMA UnansweredEffect ==
  ASSUME TypeOK, NEW c \in Call, calls[c] # NoCall, NEW k \in {"checked", "ended"},
         Put(c, [calls[c] EXCEPT !.server = k])
  PROVE  calls'[c] # NoCall => calls'[c].reply = calls[c].reply
<1> DEFINE r == [calls[c] EXCEPT !.server = k]
<1>1. r \in AnyCall /\ r.reply = calls[c].reply
  <2>1. calls[c] \in AnyCall
    BY CallType
  <2> QED BY <2>1 DEF AnyCall
<1>2. calls'[c] = Settled(r)
  BY <1>1, PutEffect
<1> HIDE DEF r
<1> QED BY <1>1, <1>2 DEF Settled

\* A lost request and a check that fails give nobody the answer yes.
LEMMA NotAnswered ==
  ASSUME TypeOK, NEW c \in Call, RequestLost(c) \/ CheckShareAccept(c)
  PROVE  /\ \A x : \A y \in Inviting(x) \cup Accepting(x) : Answered(y)' => Answered(y)
         /\ \A x : \A y \in Inviting(x) : c = y => Answered(y)' = Answered(y)
<1>1. calls[c] # NoCall /\ \A x \in Call \ {c} : calls'[x] = calls[x]
  BY ServerAnswers
<1>2. \A x : \A y \in Inviting(x) \cup Accepting(x) : calls'[y] # NoCall
  BY ServerEffect DEF Inviting, Accepting, Waiting
<1>3. CASE RequestLost(c)
  <2>1. calls'[c] # NoCall => calls'[c].reply = calls[c].reply
    BY <1>1, <1>3, UnansweredEffect DEF RequestLost
  <2> QED BY <1>1, <1>2, <2>1 DEF Answered, Inviting, Accepting
<1>4. CASE CheckShareAccept(c)
  <2>1. calls'[c] # NoCall => calls'[c].reply \in {calls[c].reply, "error"}
    BY <1>1, <1>4, UnansweredEffect, AnswerEffect DEF CheckShareAccept
  <2>2. calls[c].kind = "accept"
    BY <1>4 DEF CheckShareAccept, At
  <2> QED BY <1>1, <1>2, <2>1, <2>2 DEF Answered, Inviting, Accepting
<1> QED BY <1>3, <1>4

LEMMA HereRolledBack ==
  ASSUME TypeOK, Roles, NEW c \in Call, calls[c] # NoCall, UNCHANGED invites,
         RollBack(calls[c])
  PROVE  \A x \in Offered :
           Here(x)' = IF x = calls[c].share /\ calls[c].kind = "invite" THEN NoShare ELSE Here(x)
<1> SUFFICES ASSUME NEW x \in Offered
             PROVE  Here(x)' = IF x = calls[c].share /\ calls[c].kind = "invite" THEN NoShare
                               ELSE Here(x)
  OBVIOUS
<1>1. x = calls[c].share => (calls[c].kind = "invite" <=> invites[x].by = calls[c].from)
  BY CallRoles DEF AnyCall
<1>2. shares'[invites[x].by][x] = IF x = calls[c].share /\ invites[x].by = calls[c].from
                                  THEN NoShare ELSE shares[invites[x].by][x]
  BY OfferType DEF RollBack, DeleteShare, TypeOK
<1> QED BY <1>1, <1>2 DEF Here

\* The device that accepts is not the one that offered.
LEMMA AcceptEffect ==
  ASSUME TypeOK, Roles, NEW c \in Call, NEW d \in Device, NEW e \in Device, NEW s \in Share,
         AcceptShareInvitation(c, d, e, s)
  PROVE  /\ s \in Offered /\ Waits(s)
         /\ \A x \in Offered : Here(x)' = Here(x) /\ (Waits(x)' <=> Waits(x))
<1>1. s \in Offered /\ invites[s] = [by |-> e, to |-> d]
  BY DEF AcceptShareInvitation, Roles
<1>2. e # d /\ invites[s].by = e /\ invites[s].to = d
  BY <1>1 DEF Roles
<1>3. \A x \in Share : \A a \in Device : (a # d \/ x # s) => shares'[a][x] = shares[a][x]
  BY DEF AcceptShareInvitation, AddShare, TypeOK
<1>4. UNCHANGED <<invites, invitations>>
  BY DEF AcceptShareInvitation
<1>5. Waits(s)
  BY <1>2 DEF AcceptShareInvitation, Waits
<1> QED BY <1>1, <1>2, <1>3, <1>4, <1>5, OfferType DEF Here, Waits

\* The answer yes uses up the invitation of the one who accepted.
LEMMA ReturnEffect ==
  ASSUME TypeOK, Roles, NEW c \in Call, Returns(c), calls[c].reply = "ok"
  PROVE  /\ UNCHANGED <<shares, invites>>
         /\ \A x \in Offered :
              x # calls[c].share \/ calls[c].kind = "invite" => (Waits(x)' <=> Waits(x))
         /\ \A x \in Offered : Waits(x)' => Waits(x)
         /\ \A x \in Share : x \in past'["invited"] <=>
              x \in past["invited"] \/ (x = calls[c].share /\ calls[c].kind = "invite")
         /\ \A x \in Share : x \in past'["accepted"] <=>
              x \in past["accepted"] \/ (x = calls[c].share /\ calls[c].kind = "accept")
         /\ \A e \in {"deleted", "cut", "stopped", "reverted"} : past'[e] = past[e]
<1>1. calls[c] # NoCall
  BY DEF Returns, Waiting
<1>2. calls[c].kind \in {"invite", "accept"} /\ calls[c].from \in Device
  BY <1>1, CallRoles DEF AnyCall
<1>3. UNCHANGED <<shares, invites>>
  BY DEF Returns
<1>4. \A d \in Device : invitations'[d] =
        IF d = calls[c].from
        THEN invitations[d] \ {[share |-> calls[c].share, from |-> calls[c].to]}
        ELSE invitations[d]
  BY <1>2 DEF Returns, TypeOK
<1>5. \A x \in Offered : Waits(x)' => Waits(x)
  BY <1>3, <1>4, OfferType DEF Waits
<1>6. ASSUME NEW x \in Offered, x # calls[c].share \/ calls[c].kind = "invite"
      PROVE  (Waits(x)' <=> Waits(x))
  <2>1. x = calls[c].share => invites[x].to # calls[c].from
    BY <1>1, <1>6, CallRoles
  <2> QED BY <1>3, <1>4, <1>5, <2>1, OfferType DEF Waits
<1>7. past' = [past EXCEPT ![IF calls[c].kind = "invite" THEN "invited" ELSE "accepted"] =
                 @ \cup {calls[c].share}]
  BY DEF Returns, Note
<1> QED BY <1>2, <1>3, <1>5, <1>6, <1>7 DEF TypeOK, Event

\* The handler of an invitation: an answer yes, and the invitation is there.
LEMMA InvitedEffect ==
  ASSUME TypeOK, Roles, NEW c \in Call, HandleShareInvite(c),
         NEW s, s = calls[c].share
  PROVE  /\ calls[c] # NoCall /\ calls[c].kind = "invite" /\ s \in Offered
         /\ UNCHANGED <<shares, invites, past>>
         /\ \A x \in Offered : x # s => (Waits(x)' <=> Waits(x))
         /\ \A x \in Offered : Waits(x) => Waits(x)'
         /\ \/ Waits(s)' /\ (calls'[c] # NoCall => Answered(c)')
            \/ /\ (Waits(s)' <=> Waits(s))
               /\ calls'[c] # NoCall => ~Answered(c)'
<1>1. calls[c] # NoCall /\ calls[c].kind = "invite"
  BY DEF HandleShareInvite, At
<1>2. s \in Offered /\ invites[s].by = calls[c].from /\ invites[s].to = calls[c].to
  <2>1. s \in Offered /\ invites[s] = [by |-> calls[c].from, to |-> calls[c].to]
    BY <1>1 DEF Roles
  <2> QED BY <2>1
<1>3. UNCHANGED <<shares, invites, past>>
  BY DEF HandleShareInvite
<1>4. CASE /\ invitations' = [invitations EXCEPT ![calls[c].to] =
                               @ \cup {[share |-> s, from |-> calls[c].from]}]
           /\ Answer(c, "ok")
  <2>1. calls'[c] # NoCall => Answered(c)'
    BY <1>1, <1>4, AnswerEffect DEF Answered
  <2>2. \A d \in Device : invitations'[d] =
          IF d = calls[c].to THEN invitations[d] \cup {[share |-> s, from |-> calls[c].from]}
          ELSE invitations[d]
    BY <1>4 DEF TypeOK
  <2>3. Waits(s)'
    BY <1>2, <1>3, <2>2, OfferType DEF Waits
  <2>4. ASSUME NEW x \in Offered
        PROVE  (Waits(x) => Waits(x)') /\ (x # s => (Waits(x)' <=> Waits(x)))
    <3>1. invites'[x] = invites[x] /\ invites[x].to \in Device
      BY <1>3, OfferType
    <3>2. \A v : v \in invitations'[invites[x].to] =>
            v \in invitations[invites[x].to] \/ v = [share |-> s, from |-> calls[c].from]
      BY <2>2, <3>1
    <3>3. invitations[invites[x].to] \subseteq invitations'[invites[x].to]
      BY <2>2, <3>1
    <3>4. x # s /\ Waits(x)' => Waits(x)
      <4>1. x # s => [share |-> x, from |-> invites[x].by] # [share |-> s, from |-> calls[c].from]
        OBVIOUS
      <4> QED BY <3>1, <3>2, <4>1 DEF Waits
    <3>5. Waits(x) => Waits(x)'
      BY <3>1, <3>3 DEF Waits
    <3> QED BY <3>4, <3>5
  <2> QED BY <1>1, <1>2, <1>3, <2>1, <2>3, <2>4
<1>5. CASE Answer(c, "error") /\ UNCHANGED invitations
  <2>1. calls'[c] # NoCall => ~Answered(c)'
    BY <1>1, <1>5, AnswerEffect DEF Answered
  <2> QED BY <1>1, <1>2, <1>3, <1>5, <2>1 DEF Waits
<1> QED BY <1>4, <1>5 DEF HandleShareInvite

\* The handler of an acceptance: an answer yes, and the space is active.
LEMMA ActivateEffect ==
  ASSUME TypeOK, Roles, NEW c \in Call, ActivateShare(c),
         NEW s, s = calls[c].share
  PROVE  /\ calls[c] # NoCall /\ calls[c].kind = "accept" /\ s \in Offered
         /\ UNCHANGED <<invitations, invites, past>>
         /\ \A x \in Offered : x # s => Here(x)' = Here(x)
         /\ \/ Active(Here(s))' /\ (calls'[c] # NoCall => Answered(c)')
            \/ /\ Here(s)' = Here(s)
               /\ calls'[c] # NoCall => ~Answered(c)'
<1>1. calls[c] # NoCall /\ calls[c].kind = "accept"
  BY DEF ActivateShare, At
<1> DEFINE new == [state |-> "active", peer |-> calls[c].from]
<1>2. s \in Offered /\ invites[s].by = calls[c].to
  <2>1. s \in Offered /\ invites[s] = [by |-> calls[c].to, to |-> calls[c].from]
    BY <1>1 DEF Roles
  <2> QED BY <2>1
<1>3. UNCHANGED <<invitations, invites, past>>
  BY DEF ActivateShare
<1>4. new # NoShare
  <2>1. calls[c].from \in Device
    BY <1>1, CallType DEF AnyCall
  <2> QED BY <2>1, SharingAssumption DEF Entry
<1>5. \A x \in Offered : shares'[invites[x].by][x] =
        IF x = s /\ Here(s) # NoShare THEN new ELSE shares[invites[x].by][x]
  BY <1>2, OfferType DEF ActivateShare, UpdateShare, Here, TypeOK
<1>6. Answer(c, IF Here(s) = NoShare THEN "error" ELSE "ok")
  BY <1>2 DEF ActivateShare, Here
<1>7. calls'[c] # NoCall => (Answered(c)' <=> Here(s) # NoShare)
  BY <1>1, <1>6, AnswerEffect DEF Answered
<1>8. \A x \in Offered : Here(x)' = IF x = s /\ Here(s) # NoShare THEN new ELSE Here(x)
  BY <1>3, <1>5 DEF Here
<1>9. Here(s) # NoShare => Active(Here(s))'
  BY <1>2, <1>4, <1>8 DEF Active
<1> QED BY <1>1, <1>2, <1>3, <1>7, <1>8, <1>9

\* A form that puts back what is there changes nothing; another one is noted.
LEMMA SaveEffect ==
  ASSUME TypeOK, NEW d \in Device, SaveForm(d)
  PROVE  /\ UNCHANGED <<invites, invitations, calls>>
         /\ \A e \in Event \ {"reverted"} : past'[e] = past[e]
         /\ past["reverted"] \subseteq past'["reverted"]
         /\ \A x \in Offered : x \notin past'["reverted"] => Here(x)' = Here(x)
<1>1. UNCHANGED <<invites, invitations, calls>>
  BY DEF SaveForm
<1>2. /\ \A e \in Event \ {"reverted"} : past'[e] = past[e]
      /\ past["reverted"] \subseteq past'["reverted"]
  BY DEF SaveForm, Note, TypeOK, Event
<1>3. ASSUME NEW x \in Offered, x \notin past'["reverted"] PROVE Here(x)' = Here(x)
  <2>1. x # forms[d].share \/ shares[d][x] \in {NoShare, forms[d].read}
    BY <1>3 DEF SaveForm, Note, TypeOK, Event
  <2>2. shares'[invites[x].by][x] = shares[invites[x].by][x]
    BY <2>1, OfferType DEF SaveForm, UpdateShare, TypeOK
  <2> QED BY <1>1, <2>2 DEF Here
<1> QED BY <1>1, <1>2, <1>3

-----------------------------------------------------------------------------
(* An invitation can be accepted as long as its space is pending           *)

LEMMA OpenableKept ==
  ASSUME NEW s, Openable(s), Here(s)' = Here(s), Waits(s) => Waits(s)',
         s \in past'["invited"] <=> s \in past["invited"],
         Inviting(s)' \subseteq Inviting(s),
         \A y \in Inviting(s)' : Answered(y)' => Answered(y),
         \A y \in Accepting(s)' : Answered(y)' => y \in Accepting(s) /\ Answered(y)
  PROVE  Openable(s)'
<1>1. Active(Here(s)') <=> Active(Here(s))
  BY DEF Active
<1>2. CASE s \in past["invited"] \/ Inviting(s) # {}
  BY <1>1, <1>2 DEF Openable, Active
<1>3. CASE ~(s \in past["invited"] \/ Inviting(s) # {})
  BY <1>3 DEF Openable
<1> QED BY <1>2, <1>3

LEMMA OpenableStep ==
  ASSUME TypeOK, Roles, Solo, AllOpenable, [Next]_vars PROVE AllOpenable'
<1> DEFINE Gone == past["deleted"] \cup past["reverted"]
<1>1. ASSUME NEW c \in Call, NEW d \in Device, NEW e \in Device, NEW s \in Share,
             InviteShare(c, d, e, s)
      PROVE  AllOpenable'
  <2>1. s \notin Offered /\ s \notin past["invited"] /\ UNCHANGED <<past, invitations>>
    BY <1>1 DEF InviteShare, Offered, Solo
  <2>2. invites'[s].by = d /\ \A x \in Share \ {s} : invites'[x] = invites[x]
    BY <1>1 DEF InviteShare, TypeOK
  <2>3. Offered' \subseteq Offered \cup {s}
    BY <2>2 DEF Offered
  <2>4. /\ shares'[d][s] = [state |-> "pending", peer |-> e]
        /\ \A x \in Share \ {s} : \A a \in Device : shares'[a][x] = shares[a][x]
    BY <1>1 DEF InviteShare, AddShare, TypeOK
  <2>5. /\ \A x \in Call \ {c} : calls'[x] = calls[x]
        /\ ~Answered(c)'
        /\ \A x : /\ c \notin Inviting(x) /\ c \notin Accepting(x)
                  /\ Inviting(x)' = IF x = s THEN Inviting(x) \cup {c} ELSE Inviting(x)
                  /\ Accepting(x)' = Accepting(x)
    BY <1>1, BeginInviting DEF InviteShare
  <2>6. Inviting(s) = {} /\ Accepting(s) = {}
    BY <2>1 DEF Inviting, Accepting, Waiting, Roles
  <2>7. Openable(s)'
    <3>1. Here(s)' # NoShare
      BY <2>2, <2>4, SharingAssumption DEF Here, Entry
    <3> QED BY <2>1, <2>5, <2>6, <3>1 DEF Openable
  <2>8. ASSUME NEW x \in Offered, Openable(x) PROVE Openable(x)'
    <3>1. invites'[x] = invites[x] /\ x # s
      BY <2>1, <2>2, OfferType
    <3>2. Here(x)' = Here(x) /\ (Waits(x) => Waits(x)')
      BY <2>1, <2>4, <3>1, OfferType DEF Here, Waits
    <3>3. /\ Inviting(x)' = Inviting(x) /\ Accepting(x)' = Accepting(x)
          /\ \A y \in Inviting(x) \cup Accepting(x) : Answered(y)' <=> Answered(y)
      BY <2>5, <3>1 DEF Answered, Inviting, Accepting
    <3> QED BY <2>1, <2>8, <3>2, <3>3, OpenableKept
  <2> QED BY <2>1, <2>3, <2>7, <2>8 DEF AllOpenable
<1>a. ASSUME UNCHANGED invites, Gone \subseteq Gone',
             \A s \in Offered : s \notin Gone' /\ Openable(s) => Openable(s)'
      PROVE  AllOpenable'
  BY <1>a DEF AllOpenable, Offered
<1>2. ASSUME NEW c \in Call, NEW d \in Device, NEW e \in Device, NEW s \in Share,
             AcceptShareInvitation(c, d, e, s)
      PROVE  AllOpenable'
  <2>1. /\ \A x \in Call \ {c} : calls'[x] = calls[x]
        /\ ~Answered(c)'
        /\ \A x : /\ c \notin Inviting(x)
                  /\ Inviting(x)' = Inviting(x)
                  /\ Accepting(x)' \subseteq Accepting(x) \cup {c}
    BY <1>2, BeginInviting DEF AcceptShareInvitation
  <2>2. UNCHANGED <<invites, past>>
    BY <1>2 DEF AcceptShareInvitation
  <2>3. ASSUME NEW x \in Offered, Openable(x) PROVE Openable(x)'
    <3>1. /\ \A y \in Inviting(x)' : Answered(y)' => Answered(y)
          /\ \A y \in Accepting(x)' : Answered(y)' => y \in Accepting(x) /\ Answered(y)
      BY <2>1 DEF Answered, Inviting, Accepting
    <3> QED BY <1>2, <2>1, <2>2, <2>3, <3>1, AcceptEffect, OpenableKept
  <2> QED BY <1>a, <2>2, <2>3
<1>3. ASSUME NEW c \in Call, Returns(c), calls[c].reply = "ok" PROVE AllOpenable'
  <2>1. /\ Waiting(c) /\ \A x \in Call \ {c} : calls'[x] = calls[x]
        /\ \A x : Inviting(x)' = Inviting(x) \ {c} /\ Accepting(x)' = Accepting(x) \ {c}
    BY <1>3, ClientStops
  <2>2. \A y \in Call \ {c} : Answered(y)' <=> Answered(y)
    BY <2>1 DEF Answered
  <2>3. UNCHANGED invites /\ Gone' = Gone
    BY <1>3, ReturnEffect
  <2>4. ASSUME NEW x \in Offered, Openable(x) PROVE Openable(x)'
    <3>1. Here(x)' = Here(x)
      BY <1>3, ReturnEffect DEF Here
    <3>2. x \in Share
      BY OfferType
    <3>3. calls[c].kind \in {"invite", "accept"}
      BY <2>1, CallType DEF Waiting, AnyCall
    <3>4. CASE x = calls[c].share /\ calls[c].kind = "invite"
      <4>1. c \in Inviting(x) /\ Answered(c)
        BY <1>3, <2>1, <3>4 DEF Inviting, Answered
      <4>2. Waits(x) => Waits(x)'
        BY <1>3, <3>4, ReturnEffect
      <4>3. Active(Here(x)') <=> Active(Here(x))
        BY <3>1
      <4> QED BY <2>1, <2>2, <2>4, <3>1, <4>1, <4>2, <4>3 DEF Openable, Active, Accepting
    <3>5. CASE x = calls[c].share /\ calls[c].kind = "accept"
      <4>1. c \in Accepting(x) /\ Answered(c)
        BY <1>3, <2>1, <3>5 DEF Accepting, Answered
      <4>2. x \in past'["invited"] <=> x \in past["invited"]
        BY <1>3, <3>2, <3>5, ReturnEffect
      <4>3. Inviting(x)' \subseteq Inviting(x)
        BY <2>1
      <4> QED BY <2>4, <3>1, <4>1, <4>2, <4>3 DEF Openable, Active
    <3>6. CASE x # calls[c].share
      <4>1. Waits(x) => Waits(x)'
        BY <1>3, <3>6, ReturnEffect
      <4>2. x \in past'["invited"] <=> x \in past["invited"]
        BY <1>3, <3>2, <3>6, ReturnEffect
      <4> QED BY <2>1, <2>2, <2>4, <3>1, <4>1, <4>2, OpenableKept DEF Inviting, Accepting
    <3> QED BY <3>3, <3>4, <3>5, <3>6
  <2> QED BY <1>a, <2>3, <2>4
<1>4. ASSUME NEW c \in Call, (Returns(c) /\ calls[c].reply # "ok") \/ ClientFails(c)
      PROVE  AllOpenable'
  <2>1. /\ Waiting(c) /\ calls[c] # NoCall /\ \A x \in Call \ {c} : calls'[x] = calls[x]
        /\ \A x : Inviting(x)' = Inviting(x) \ {c} /\ Accepting(x)' = Accepting(x) \ {c}
    BY <1>4, ClientStops DEF Waiting
  <2>2. /\ UNCHANGED <<invites, invitations>> /\ RollBack(calls[c])
        /\ \A e \in Event \ {"cut"} : past'[e] = past[e]
    BY <1>4 DEF Returns, ClientFails, Note, TypeOK, Event
  <2>3. ASSUME NEW x \in Offered, Openable(x) PROVE Openable(x)'
    <3>1. past'["invited"] = past["invited"]
      BY <2>2 DEF Event
    <3>2. CASE x = calls[c].share /\ calls[c].kind = "invite"
      <4>1. c \in Inviting(x)
        BY <2>1, <3>2 DEF Inviting
      <4>2. x \notin past["invited"] /\ Inviting(x) = {c}
        BY <4>1 DEF Solo
      <4> QED BY <2>1, <3>1, <4>2 DEF Openable
    <3>3. CASE ~(x = calls[c].share /\ calls[c].kind = "invite")
      <4>1. Here(x)' = Here(x) /\ (Waits(x) => Waits(x)')
        BY <2>1, <2>2, <3>3, HereRolledBack DEF Waits
      <4>2. \A y \in Call \ {c} : Answered(y)' <=> Answered(y)
        BY <2>1 DEF Answered
      <4> QED BY <2>1, <2>3, <3>1, <4>1, <4>2, OpenableKept DEF Inviting, Accepting
    <3> QED BY <3>2, <3>3
  <2>4. Gone' = Gone
    BY <2>2 DEF Event
  <2> QED BY <1>a, <2>2, <2>3, <2>4
<1>5. ASSUME NEW c \in Call, RequestLost(c) \/ CheckShareAccept(c) PROVE AllOpenable'
  <2>1. UNCHANGED <<shares, invites, invitations, past>>
    BY <1>5 DEF RequestLost, CheckShareAccept
  <2>2. \A x : /\ Inviting(x)' = Inviting(x) /\ Accepting(x)' = Accepting(x)
               /\ \A y \in Inviting(x) \cup Accepting(x) : Answered(y)' => Answered(y)
    BY <1>5, ServerAnswers, NotAnswered
  <2>3. ASSUME NEW x \in Offered, Openable(x) PROVE Openable(x)'
    <3>1. Here(x)' = Here(x) /\ (Waits(x) => Waits(x)')
      BY <2>1 DEF Here, Waits
    <3> QED BY <2>1, <2>2, <2>3, <3>1, OpenableKept
  <2> QED BY <1>a, <2>1, <2>3
<1>6. ASSUME NEW c \in Call, HandleShareInvite(c) PROVE AllOpenable'
  <2> DEFINE s == calls[c].share
  <2>1. /\ \A x \in Call \ {c} : calls'[x] = calls[x]
        /\ \A x : Inviting(x)' = Inviting(x) /\ Accepting(x)' = Accepting(x)
    BY <1>6, ServerAnswers
  <2>2. \A y \in Call \ {c} : Answered(y)' <=> Answered(y)
    BY <2>1 DEF Answered
  <2>3. UNCHANGED <<shares, invites, past>> /\ calls[c].kind = "invite"
    BY <1>6, InvitedEffect
  <2>4. ASSUME NEW x \in Offered, Openable(x) PROVE Openable(x)'
    <3>1. Here(x)' = Here(x) /\ (Waits(x) => Waits(x)') /\ (Active(Here(x)') <=> Active(Here(x)))
      BY <1>6, <2>3, InvitedEffect DEF Here
    <3>2. \A y \in Accepting(x) : y # c
      BY <2>3 DEF Accepting
    <3>3. CASE c \notin Inviting(x) \/ ~Answered(c)'
      BY <2>1, <2>2, <2>3, <2>4, <3>1, <3>2, <3>3, OpenableKept DEF Inviting, Accepting
    <3>4. CASE c \in Inviting(x) /\ Answered(c)'
      <4>1. calls'[c] # NoCall
        BY <2>1, <3>4 DEF Inviting, Waiting
      <4>2. x = calls[c].share
        BY <3>4 DEF Inviting
      <4>3. Waits(x)'
        <5> HIDE DEF s
        <5> QED BY <1>6, <3>1, <3>4, <4>1, <4>2, InvitedEffect
      <4> QED BY <2>1, <2>2, <2>3, <2>4, <3>1, <3>2, <3>4, <4>3 DEF Openable, Accepting
    <3> QED BY <3>3, <3>4
  <2> QED BY <1>a, <2>3, <2>4
<1>7. ASSUME NEW c \in Call, ActivateShare(c) PROVE AllOpenable'
  <2>1. /\ \A x \in Call \ {c} : calls'[x] = calls[x]
        /\ \A x : Inviting(x)' = Inviting(x) /\ Accepting(x)' = Accepting(x)
    BY <1>7, ServerAnswers
  <2>2. \A y \in Call \ {c} : Answered(y)' <=> Answered(y)
    BY <2>1 DEF Answered
  <2>3. UNCHANGED <<invitations, invites, past>> /\ calls[c].kind = "accept"
    BY <1>7, ActivateEffect
  <2>4. ASSUME NEW x \in Offered, Openable(x) PROVE Openable(x)'
    <3>1. Waits(x) => Waits(x)'
      BY <2>3 DEF Waits
    <3>2. CASE Active(Here(x)')
      BY <2>1, <2>3, <3>2 DEF Openable, Active
    <3>3. CASE ~Active(Here(x)')
      <4>1. Here(x)' = Here(x)
        BY <1>7, <3>3, ActivateEffect
      <4>2. \A y \in Inviting(x) : y # c
        BY <2>3 DEF Inviting
      <4>3. c \in Accepting(x) => ~Answered(c)'
        <5>1. c \in Accepting(x) => calls'[c] # NoCall /\ x = calls[c].share
          BY <2>1 DEF Accepting, Waiting
        <5> QED BY <1>7, <3>3, <5>1, ActivateEffect
      <4> QED BY <2>1, <2>2, <2>3, <2>4, <3>1, <4>1, <4>2, <4>3, OpenableKept
              DEF Inviting, Accepting
    <3> QED BY <3>2, <3>3
  <2> QED BY <1>a, <2>3, <2>4
<1>8. ASSUME NEW d \in Device, Restart(d) PROVE AllOpenable'
  <2>1. UNCHANGED <<shares, invites, invitations>> /\ Gone' = Gone
        /\ past'["invited"] = past["invited"]
    BY <1>8 DEF Restart, TypeOK, Event
  <2>2. ASSUME NEW x \in Offered, Openable(x) PROVE Openable(x)'
    <3>1. Here(x)' = Here(x) /\ (Waits(x) => Waits(x)')
      BY <2>1 DEF Here, Waits
    <3>2. /\ Inviting(x)' \subseteq Inviting(x) /\ Accepting(x)' \subseteq Accepting(x)
          /\ \A y \in Inviting(x)' \cup Accepting(x)' : Answered(y)' = Answered(y)
      BY <1>8, RestartInviting
    <3> QED BY <2>1, <2>2, <3>1, <3>2, OpenableKept
  <2> QED BY <1>a, <2>1, <2>2
<1>b. ASSUME UNCHANGED <<calls, invites, invitations>>, Gone \subseteq Gone',
             past'["invited"] = past["invited"],
             \A x \in Offered : x \notin Gone' => Here(x)' = Here(x)
      PROVE  AllOpenable'
  <2>1. ASSUME NEW x \in Offered, x \notin Gone', Openable(x) PROVE Openable(x)'
    <3>1. Waits(x) => Waits(x)'
      BY <1>b DEF Waits
    <3>2. Here(x)' = Here(x)
      BY <1>b, <2>1
    <3>3. /\ Inviting(x)' = Inviting(x) /\ Accepting(x)' = Accepting(x)
          /\ \A y \in Inviting(x) \cup Accepting(x) : Answered(y)' = Answered(y)
      BY <1>b, StillInviting DEF Inviting, Accepting
    <3> QED BY <1>b, <2>1, <3>1, <3>2, <3>3, OpenableKept
  <2> QED BY <1>a, <1>b, <2>1
<1>9. ASSUME NEW d \in Device, NEW s \in Share, OpenForm(d, s) PROVE AllOpenable'
  BY <1>9, <1>b DEF OpenForm, Here
<1>10. ASSUME NEW d \in Device, NEW s \in Share, HandleDeleteShare(d, s) PROVE AllOpenable'
  <2>1. /\ past'["deleted"] = past["deleted"] \cup {s} /\ past'["reverted"] = past["reverted"]
        /\ past'["invited"] = past["invited"]
        /\ UNCHANGED <<calls, invites, invitations>>
    BY <1>10 DEF HandleDeleteShare, Note, TypeOK, Event
  <2>2. \A x \in Share \ {s} : \A a \in Device : shares'[a][x] = shares[a][x]
    BY <1>10 DEF HandleDeleteShare, DeleteShare, TypeOK
  <2> QED BY <1>b, <2>1, <2>2, OfferType DEF Here
<1>11. ASSUME NEW d \in Device, SaveForm(d) PROVE AllOpenable'
  <2>1. past'["deleted"] = past["deleted"] /\ past'["invited"] = past["invited"]
    BY <1>11, SaveEffect DEF Event
  <2> QED BY <1>11, <1>b, <2>1, SaveEffect
<1>12. CASE UNCHANGED vars
  BY <1>12, <1>b DEF vars, Here
<1> QED BY <1>1, <1>2, <1>3, <1>4, <1>5, <1>6, <1>7, <1>8, <1>9, <1>10, <1>11, <1>12
        DEF Next, CallStep, UserStep, Returns

-----------------------------------------------------------------------------
(* With every answer received, both devices know of an acceptance          *)

LEMMA AgreedKept ==
  ASSUME NEW s, Agreed(s), Served(s)', Here(s)' = Here(s), Waits(s)' => Waits(s),
         Acknowledged(s)' <=> Acknowledged(s),
         s \in past'["accepted"] => s \in past["accepted"],
         Inviting(s)' \subseteq Inviting(s), Accepting(s)' \subseteq Accepting(s),
         \A y \in Inviting(s)' : Answered(y) => Answered(y)'
  PROVE  Agreed(s)'
<1>1. Active(Here(s)') <=> Active(Here(s))
  BY DEF Active
<1>2. (Active(Here(s)) <=> Acknowledged(s))'
  BY <1>1 DEF Agreed, Active
<1>3. ASSUME NEW y \in Inviting(s)'
      PROVE  (Answered(y) \/ (~Waits(s) /\ Accepting(s) = {} /\ s \notin past["accepted"]))'
  BY DEF Agreed
<1> QED BY <1>2, <1>3 DEF Agreed

LEMMA ServedServer ==
  ASSUME TypeOK, NEW c \in Call, NEW s, Served(s),
         RequestLost(c) \/ HandleShareInvite(c) \/ CheckShareAccept(c) \/ ActivateShare(c)
  PROVE  Served(s)'
<1>1. calls[c] # NoCall /\ calls[c].server # "ended" /\ \A x \in Call \ {c} : calls'[x] = calls[x]
  BY ServerAnswers
<1>2. \A x \in Call : Carried(x) /\ (Waiting(x)' <=> Waiting(x))
  BY ServerEffect
<1> SUFFICES ASSUME NEW x \in Call, calls'[x] # NoCall, calls'[x].share = s,
                    calls'[x].server # "ended"
             PROVE  Waiting(x)'
  BY DEF Served
<1> QED BY <1>1, <1>2 DEF Served, Carried, Same

LEMMA ServedClient ==
  ASSUME TypeOK, NEW c \in Call, Returns(c) \/ ClientFails(c), NEW s, Served(s),
         calls[c].share = s => calls[c].server = "ended"
  PROVE  Served(s)'
<1>1. /\ calls'[c] # NoCall => calls[c].server # "ended"
      /\ \A x \in Call \ {c} : calls'[x] = calls[x]
  BY ClientStops
<1>2. \A x \in Call : Carried(x) /\ (Waiting(x)' <=> Waiting(x) /\ x # c)
  BY ClientEffect
<1> SUFFICES ASSUME NEW x \in Call, calls'[x] # NoCall, calls'[x].share = s,
                    calls'[x].server # "ended"
             PROVE  Waiting(x)'
  BY DEF Served
<1>3. x # c
  BY <1>1, <1>2 DEF Carried, Same
<1> QED BY <1>1, <1>2, <1>3 DEF Served

LEMMA ServedBegin ==
  ASSUME TypeOK, NEW c \in Call, NEW s, Served(s), Waiting(c)',
         \A x \in Call \ {c} : calls'[x] = calls[x]
  PROVE  Served(s)'
BY DEF Served, Waiting

\* A handler that is not done has not answered.
LEMMA NotYet ==
  ASSUME TypeOK, Solo, NEW c \in Call, calls[c] # NoCall, calls[c].server # "ended"
  PROVE  ~Answered(c)
BY DEF Solo, AnsweredLast, Answered

LEMMA AgreedStep ==
  ASSUME TypeOK, Roles, Fresh, Solo, AllAgreed, [Next]_vars PROVE AllAgreed'
<1> DEFINE Bad == {"deleted", "cut", "stopped", "reverted"}
<1>1. ASSUME NEW c \in Call, NEW d \in Device, NEW e \in Device, NEW s \in Share,
             InviteShare(c, d, e, s)
      PROVE  AllAgreed'
  <2>1. s \notin Offered /\ UNCHANGED <<past, invitations>>
    BY <1>1 DEF InviteShare, Offered
  <2>2. /\ invites'[s].by = d /\ invites'[s].to = e
        /\ \A x \in Share \ {s} : invites'[x] = invites[x]
    BY <1>1 DEF InviteShare, TypeOK
  <2>3. Offered' \subseteq Offered \cup {s}
    BY <2>2 DEF Offered
  <2>4. /\ shares'[d][s] = [state |-> "pending", peer |-> e]
        /\ \A x \in Share \ {s} : \A a \in Device : shares'[a][x] = shares[a][x]
    BY <1>1 DEF InviteShare, AddShare, TypeOK
  <2>5. /\ \A x \in Call \ {c} : calls'[x] = calls[x]
        /\ Waiting(c)'
        /\ \A x : /\ c \notin Inviting(x) /\ c \notin Accepting(x)
                  /\ Inviting(x)' = IF x = s THEN Inviting(x) \cup {c} ELSE Inviting(x)
                  /\ Accepting(x)' = Accepting(x)
    BY <1>1, BeginInviting DEF InviteShare
  <2>6. s \notin past["accepted"] /\ Accepting(s) = {} /\ Inviting(s) = {} /\ Served(s)
    <3>1. \A x \in Call : calls[x] # NoCall => calls[x].share # s
      BY <2>1 DEF Roles
    <3>2. s \notin past["accepted"]
      BY <2>1 DEF Fresh
    <3> QED BY <3>1, <3>2 DEF Inviting, Accepting, Waiting, Served
  <2>7. Agreed(s)'
    <3>1. ~Active(Here(s))'
      BY <2>2, <2>4 DEF Here, Active
    <3>2. ~Acknowledged(s)'
      BY <2>1, <2>5, <2>6 DEF Acknowledged
    <3>3. Served(s)'
      BY <2>5, <2>6, ServedBegin
    <3>4. ~Waits(s)'
      <4>1. \A v \in invitations[e] : v.share # s
        BY <2>1, <1>1 DEF Roles
      <4> QED BY <2>1, <2>2, <4>1 DEF Waits
    <3> QED BY <2>1, <2>5, <2>6, <3>1, <3>2, <3>3, <3>4 DEF Agreed
  <2>8. ASSUME NEW x \in Offered, Agreed(x) PROVE Agreed(x)'
    <3>1. invites'[x] = invites[x] /\ x # s
      BY <2>1, <2>2, OfferType
    <3>2. Here(x)' = Here(x) /\ (Waits(x)' => Waits(x))
      BY <2>1, <2>4, <3>1, OfferType DEF Here, Waits
    <3>3. /\ Inviting(x)' = Inviting(x) /\ Accepting(x)' = Accepting(x)
          /\ \A y \in Inviting(x) \cup Accepting(x) : Answered(y)' <=> Answered(y)
      BY <2>5, <3>1 DEF Answered, Inviting, Accepting
    <3>4. Served(x)' /\ (Acknowledged(x)' <=> Acknowledged(x))
      BY <2>1, <2>5, <2>8, <3>3, ServedBegin DEF Agreed, Acknowledged
    <3> QED BY <2>1, <2>8, <3>2, <3>3, <3>4, AgreedKept
  <2>9. \A x : Spoilt(x)' <=> Spoilt(x)
    BY <2>1 DEF Spoilt
  <2> QED BY <2>3, <2>7, <2>8, <2>9 DEF AllAgreed
<1>a. ASSUME UNCHANGED invites, \A e \in Bad : past[e] \subseteq past'[e],
             \A s \in Offered : ~Spoilt(s)' /\ Agreed(s) => Agreed(s)'
      PROVE  AllAgreed'
  <2>1. \A s \in Offered : ~Spoilt(s)' => ~Spoilt(s)
    BY <1>a DEF Spoilt
  <2> QED BY <1>a, <2>1 DEF AllAgreed, Offered
<1>2. ASSUME NEW c \in Call, NEW d \in Device, NEW e \in Device, NEW s \in Share,
             AcceptShareInvitation(c, d, e, s)
      PROVE  AllAgreed'
  <2>1. /\ \A x \in Call \ {c} : calls'[x] = calls[x]
        /\ Waiting(c)' /\ ~Answered(c)'
        /\ \A x : /\ c \notin Inviting(x) /\ c \notin Accepting(x)
                  /\ Inviting(x)' = Inviting(x)
                  /\ Accepting(x)' = IF x = s THEN Accepting(x) \cup {c} ELSE Accepting(x)
    BY <1>2, BeginInviting DEF AcceptShareInvitation
  <2>2. UNCHANGED <<invites, past>>
    BY <1>2 DEF AcceptShareInvitation
  <2>3. ASSUME NEW x \in Offered, Agreed(x) PROVE Agreed(x)'
    <3>1. \A y \in Inviting(x) \cup Accepting(x) : Answered(y)' <=> Answered(y)
      BY <2>1 DEF Answered, Inviting, Accepting
    <3>2. Here(x)' = Here(x) /\ (Waits(x)' <=> Waits(x)) /\ (x = s => Waits(x))
      BY <1>2, AcceptEffect
    <3>3. Served(x)' /\ (Acknowledged(x)' <=> Acknowledged(x))
      BY <2>1, <2>2, <2>3, <3>1, ServedBegin DEF Agreed, Acknowledged
    <3>4. CASE x # s
      BY <2>1, <2>2, <2>3, <3>1, <3>2, <3>3, <3>4, AgreedKept
    <3>5. CASE x = s
      <4>1. \A y \in Inviting(x)' : Answered(y)'
        BY <2>1, <2>3, <3>1, <3>2, <3>5 DEF Agreed
      <4>2. Active(Here(x)') <=> Active(Here(x))
        BY <3>2
      <4> QED BY <2>3, <3>3, <4>1, <4>2 DEF Agreed, Active
    <3> QED BY <3>4, <3>5
  <2> QED BY <1>a, <2>2, <2>3
<1>3. ASSUME NEW c \in Call, Returns(c), calls[c].reply = "ok" PROVE AllAgreed'
  <2>1. /\ Waiting(c) /\ calls[c] # NoCall /\ \A x \in Call \ {c} : calls'[x] = calls[x]
        /\ \A x : Inviting(x)' = Inviting(x) \ {c} /\ Accepting(x)' = Accepting(x) \ {c}
    BY <1>3, ClientStops DEF Waiting
  <2>2. \A y \in Call \ {c} : Answered(y)' <=> Answered(y)
    BY <2>1 DEF Answered
  <2>3. UNCHANGED <<shares, invites>> /\ \A e \in Bad : past'[e] = past[e]
    BY <1>3, ReturnEffect
  <2>4. ASSUME NEW x \in Offered, Agreed(x) PROVE Agreed(x)'
    <3>1. Here(x)' = Here(x) /\ (Waits(x)' => Waits(x))
      BY <1>3, <2>3, ReturnEffect DEF Here
    <3>2. Served(x)'
      <4>1. calls[c].server = "ended"
        BY <1>3, <2>1 DEF Solo, AnsweredLast
      <4> QED BY <1>3, <2>4, <4>1, ServedClient DEF Agreed
    <3>3. x \in past'["accepted"] <=>
            x \in past["accepted"] \/ (x = calls[c].share /\ calls[c].kind = "accept")
      BY <1>3, ReturnEffect, OfferType
    <3>4. CASE x = calls[c].share /\ calls[c].kind = "accept"
      <4>1. c \in Accepting(x) /\ Answered(c) /\ c \notin Inviting(x)
        BY <1>3, <2>1, <3>4 DEF Accepting, Answered, Inviting
      <4>2. Acknowledged(x) /\ Acknowledged(x)'
        BY <3>3, <3>4, <4>1 DEF Acknowledged
      <4>3. \A y \in Inviting(x)' : Answered(y)'
        BY <2>1, <2>2, <2>4, <4>1 DEF Agreed, Inviting
      <4>4. Active(Here(x)') <=> Active(Here(x))
        BY <3>1
      <4> QED BY <2>4, <3>2, <4>2, <4>3, <4>4 DEF Agreed, Active
    <3>5. CASE ~(x = calls[c].share /\ calls[c].kind = "accept")
      <4>1. c \notin Accepting(x) /\ \A y \in Accepting(x) : y # c
        BY <3>5 DEF Accepting
      <4>2. Acknowledged(x)' <=> Acknowledged(x)
        BY <2>1, <2>2, <3>3, <3>5, <4>1 DEF Acknowledged, Accepting
      <4> QED BY <2>1, <2>2, <2>4, <3>1, <3>2, <3>3, <3>5, <4>2, AgreedKept DEF Inviting
    <3> QED BY <3>4, <3>5
  <2> QED BY <1>a, <2>3, <2>4
<1>4. ASSUME NEW c \in Call, (Returns(c) /\ calls[c].reply # "ok") \/ ClientFails(c)
      PROVE  AllAgreed'
  <2>1. /\ Waiting(c) /\ calls[c] # NoCall /\ \A x \in Call \ {c} : calls'[x] = calls[x]
        /\ \A x : Inviting(x)' = Inviting(x) \ {c} /\ Accepting(x)' = Accepting(x) \ {c}
    BY <1>4, ClientStops DEF Waiting
  <2>2. /\ UNCHANGED <<invites, invitations>> /\ RollBack(calls[c])
        /\ past'["accepted"] = past["accepted"]
        /\ \A e \in Bad : past[e] \subseteq past'[e]
    BY <1>4 DEF Returns, ClientFails, Note, TypeOK, Event
  <2>3. \A y \in Call \ {c} : Answered(y)' <=> Answered(y)
    BY <2>1 DEF Answered
  <2>4. ASSUME NEW x \in Offered, ~Spoilt(x)', Agreed(x) PROVE Agreed(x)'
    <3>1. x = calls[c].share => calls[c].server = "ended" /\ ~Answered(c)
      <4>1. CASE Returns(c) /\ calls[c].reply # "ok"
        BY <2>1, <4>1 DEF Returns, Solo, AnsweredLast, Answered
      <4>2. CASE ClientFails(c)
        <5>1. x \notin past'["cut"]
          BY <2>4 DEF Spoilt
        <5> QED BY <2>4, <4>2, <5>1, OfferType DEF ClientFails, Note, Answered, TypeOK, Event
      <4> QED BY <1>4, <4>1, <4>2
    <3>2. Served(x)'
      BY <1>4, <2>4, <3>1, ServedClient DEF Agreed
    <3>3. Acknowledged(x)' <=> Acknowledged(x)
      BY <2>1, <2>2, <2>3, <3>1 DEF Acknowledged, Accepting
    <3>4. CASE x = calls[c].share /\ calls[c].kind = "invite"
      <4>1. c \in Inviting(x)
        BY <2>1, <3>4 DEF Inviting
      <4>2. Inviting(x)' = {}
        BY <2>1, <4>1 DEF Solo
      <4>3. ~Acknowledged(x)
        BY <2>4, <3>1, <3>4, <4>1 DEF Agreed, Acknowledged
      <4>4. ~Active(Here(x)')
        BY <2>1, <2>2, <3>4, HereRolledBack DEF Active
      <4> QED BY <3>2, <3>3, <4>2, <4>3, <4>4 DEF Agreed, Active
    <3>5. CASE ~(x = calls[c].share /\ calls[c].kind = "invite")
      <4>1. Here(x)' = Here(x) /\ (Waits(x)' => Waits(x))
        BY <2>1, <2>2, <3>5, HereRolledBack DEF Waits
      <4> QED BY <2>1, <2>2, <2>3, <2>4, <3>2, <3>3, <4>1, AgreedKept DEF Inviting
    <3> QED BY <3>4, <3>5
  <2> QED BY <1>a, <2>2, <2>4
<1>5. ASSUME NEW c \in Call, RequestLost(c) \/ CheckShareAccept(c) PROVE AllAgreed'
  <2>1. UNCHANGED <<shares, invites, invitations, past>>
    BY <1>5 DEF RequestLost, CheckShareAccept
  <2>2. /\ \A x : Inviting(x)' = Inviting(x) /\ Accepting(x)' = Accepting(x)
        /\ \A y \in Call \ {c} : Answered(y)' <=> Answered(y)
        /\ ~Answered(c)
    BY <1>5, ServerAnswers, NotYet DEF Answered
  <2>3. \A x : \A y \in Inviting(x) \cup Accepting(x) : Answered(y)' <=> Answered(y)
    BY <1>5, <2>2, NotAnswered DEF Inviting, Accepting
  <2>4. ASSUME NEW x \in Offered, Agreed(x) PROVE Agreed(x)'
    <3>1. Here(x)' = Here(x) /\ (Waits(x)' => Waits(x))
      BY <2>1 DEF Here, Waits
    <3>2. Served(x)' /\ (Acknowledged(x)' <=> Acknowledged(x))
      BY <1>5, <2>1, <2>2, <2>3, <2>4, ServedServer DEF Agreed, Acknowledged
    <3> QED BY <2>1, <2>2, <2>3, <2>4, <3>1, <3>2, AgreedKept
  <2> QED BY <1>a, <2>1, <2>4
<1>6. ASSUME NEW c \in Call, HandleShareInvite(c) PROVE AllAgreed'
  <2>1. /\ calls[c] # NoCall /\ calls[c].server # "ended" /\ ~Answered(c)
        /\ \A x : Inviting(x)' = Inviting(x) /\ Accepting(x)' = Accepting(x)
        /\ \A y \in Call \ {c} : Answered(y)' <=> Answered(y)
    BY <1>6, ServerAnswers, NotYet DEF Answered
  <2>2. UNCHANGED <<shares, invites, past>> /\ calls[c].kind = "invite"
    BY <1>6, InvitedEffect
  <2>3. ASSUME NEW x \in Offered, Agreed(x) PROVE Agreed(x)'
    <3>1. Here(x)' = Here(x)
      BY <2>2 DEF Here
    <3>2. \A y \in Accepting(x) : y # c
      BY <2>2 DEF Accepting
    <3>3. Served(x)' /\ (Acknowledged(x)' <=> Acknowledged(x))
      BY <1>6, <2>1, <2>2, <2>3, <3>2, ServedServer DEF Agreed, Acknowledged, Accepting
    <3>4. \A y \in Inviting(x) : Answered(y) => Answered(y)'
      BY <2>1 DEF Inviting
    <3>5. CASE Waits(x)' => Waits(x)
      BY <2>1, <2>2, <2>3, <3>1, <3>3, <3>4, <3>5, AgreedKept
    <3>6. CASE Waits(x)' /\ ~Waits(x)
      <4>1. x = calls[c].share /\ (calls'[c] # NoCall => Answered(c)')
        BY <1>6, <3>6, InvitedEffect
      <4>2. Waiting(c)
        BY <2>1, <2>3, <4>1 DEF Agreed, Served
      <4>3. c \in Inviting(x)
        BY <2>2, <4>1, <4>2 DEF Inviting
      <4>4. calls'[c] # NoCall
        BY <2>1, <4>3 DEF Inviting, Waiting
      <4>5. \A y \in Inviting(x)' : Answered(y)'
        BY <2>1, <4>1, <4>3, <4>4 DEF Solo
      <4>6. Active(Here(x)') <=> Active(Here(x))
        BY <3>1
      <4> QED BY <2>3, <3>3, <4>5, <4>6 DEF Agreed, Active
    <3> QED BY <3>5, <3>6
  <2> QED BY <1>a, <2>2, <2>3
<1>7. ASSUME NEW c \in Call, ActivateShare(c) PROVE AllAgreed'
  <2>1. /\ calls[c] # NoCall /\ calls[c].server # "ended" /\ ~Answered(c)
        /\ \A x : Inviting(x)' = Inviting(x) /\ Accepting(x)' = Accepting(x)
        /\ \A y \in Call \ {c} : Answered(y)' <=> Answered(y)
    BY <1>7, ServerAnswers, NotYet DEF Answered
  <2>2. UNCHANGED <<invitations, invites, past>> /\ calls[c].kind = "accept"
    BY <1>7, ActivateEffect
  <2>3. ASSUME NEW x \in Offered, Agreed(x) PROVE Agreed(x)'
    <3>1. (Waits(x)' => Waits(x)) /\ Served(x)'
      BY <1>7, <2>2, <2>3, ServedServer DEF Waits, Agreed
    <3>2. \A y \in Inviting(x) : y # c /\ (Answered(y) => Answered(y)')
      BY <2>1, <2>2 DEF Inviting
    <3>3. c \in Accepting(x) => calls'[c] # NoCall /\ x = calls[c].share
      BY <2>1 DEF Accepting, Waiting
    <3>4. CASE Here(x)' = Here(x) /\ ~(c \in Accepting(x) /\ Answered(c)')
      <4>1. Acknowledged(x)' <=> Acknowledged(x)
        BY <2>1, <2>2, <3>4 DEF Acknowledged, Accepting
      <4> QED BY <2>1, <2>2, <2>3, <3>1, <3>2, <3>4, <4>1, AgreedKept
    <3>5. CASE ~(Here(x)' = Here(x) /\ ~(c \in Accepting(x) /\ Answered(c)'))
      <4>1. x = calls[c].share /\ Active(Here(x)') /\ (calls'[c] # NoCall => Answered(c)')
        BY <1>7, <3>3, <3>5, ActivateEffect DEF Active
      <4>2. Waiting(c)
        BY <2>1, <2>3, <4>1 DEF Agreed, Served
      <4>3. c \in Accepting(x)
        BY <2>2, <4>1, <4>2 DEF Accepting
      <4>4. Acknowledged(x)'
        BY <2>1, <3>3, <4>1, <4>3 DEF Acknowledged
      <4>5. \A y \in Inviting(x)' : Answered(y)'
        BY <2>1, <2>3, <3>2, <4>3 DEF Agreed
      <4> QED BY <3>1, <4>1, <4>4, <4>5 DEF Agreed, Active
    <3> QED BY <3>4, <3>5
  <2> QED BY <1>a, <2>2, <2>3
<1>8. ASSUME NEW d \in Device, Restart(d) PROVE AllAgreed'
  <2>1. /\ UNCHANGED <<shares, invites, invitations>>
        /\ past'["accepted"] = past["accepted"]
        /\ \A e \in Bad : past[e] \subseteq past'[e]
        /\ \A x \in Call : Waiting(x) /\ calls[x].from = d => calls[x].share \in past'["stopped"]
    BY <1>8 DEF Restart, TypeOK, Event
  <2>2. ASSUME NEW x \in Offered, ~Spoilt(x)', Agreed(x) PROVE Agreed(x)'
    <3>1. x \notin past'["stopped"]
      BY <2>2 DEF Spoilt
    <3>2. \A y \in Call : Waiting(y) /\ calls[y].share = x => Waiting(y)'
      BY <1>8, <2>1, <3>1, RestartEffect
    <3>3. /\ Inviting(x)' = Inviting(x) /\ Accepting(x)' = Accepting(x)
          /\ \A y \in Inviting(x) \cup Accepting(x) : Answered(y)' = Answered(y)
      <4>1. \A y \in Inviting(x) \cup Accepting(x) : calls[y].from # d
        BY <2>1, <3>1 DEF Inviting, Accepting
      <4>2. /\ Inviting(x)' = {y \in Inviting(x) : calls[y].from # d}
            /\ Accepting(x)' = {y \in Accepting(x) : calls[y].from # d}
            /\ \A y \in Inviting(x)' \cup Accepting(x)' : Answered(y)' = Answered(y)
        BY <1>8, RestartInviting
      <4>3. Inviting(x)' = Inviting(x) /\ Accepting(x)' = Accepting(x)
        BY <4>1, <4>2
      <4> QED BY <4>2, <4>3
    <3>4. Served(x)'
      <4> SUFFICES ASSUME NEW y \in Call, calls'[y] # NoCall, calls'[y].share = x,
                          calls'[y].server # "ended"
                   PROVE  Waiting(y)'
        BY DEF Served
      <4>1. calls[y] # NoCall /\ calls[y].share = x /\ calls[y].server # "ended"
        BY <1>8, RestartStops, RestartEffect DEF Carried, Same
      <4> QED BY <2>2, <3>2, <4>1 DEF Agreed, Served
    <3>5. Here(x)' = Here(x) /\ (Waits(x)' => Waits(x))
      BY <2>1 DEF Here, Waits
    <3>6. Acknowledged(x)' <=> Acknowledged(x)
      BY <2>1, <3>3 DEF Acknowledged
    <3> QED BY <2>1, <2>2, <3>3, <3>4, <3>5, <3>6, AgreedKept
  <2> QED BY <1>a, <2>1, <2>2
<1>b. ASSUME UNCHANGED <<calls, invites, invitations>>, past'["accepted"] = past["accepted"],
             \A e \in Bad : past[e] \subseteq past'[e],
             \A x \in Offered :
               x \notin past'["deleted"] \cup past'["reverted"] => Here(x)' = Here(x)
      PROVE  AllAgreed'
  <2>1. ASSUME NEW x \in Offered, ~Spoilt(x)', Agreed(x) PROVE Agreed(x)'
    <3>1. Here(x)' = Here(x) /\ (Waits(x)' => Waits(x))
      BY <1>b, <2>1 DEF Waits, Spoilt
    <3>2. /\ Inviting(x)' = Inviting(x) /\ Accepting(x)' = Accepting(x)
          /\ \A y \in Inviting(x) \cup Accepting(x) : Answered(y)' = Answered(y)
      BY <1>b, StillInviting DEF Inviting, Accepting
    <3>3. Served(x)' /\ (Acknowledged(x)' <=> Acknowledged(x))
      BY <1>b, <2>1, <3>2 DEF Served, Agreed, Waiting, Acknowledged
    <3> QED BY <1>b, <2>1, <3>1, <3>2, <3>3, AgreedKept
  <2> QED BY <1>a, <1>b, <2>1
<1>9. ASSUME NEW d \in Device, NEW s \in Share, OpenForm(d, s) PROVE AllAgreed'
  BY <1>9, <1>b DEF OpenForm, Here
<1>10. ASSUME NEW d \in Device, NEW s \in Share, HandleDeleteShare(d, s) PROVE AllAgreed'
  <2>1. /\ past'["deleted"] = past["deleted"] \cup {s} /\ past'["accepted"] = past["accepted"]
        /\ \A e \in Bad : past[e] \subseteq past'[e]
        /\ UNCHANGED <<calls, invites, invitations>>
    BY <1>10 DEF HandleDeleteShare, Note, TypeOK, Event
  <2>2. \A x \in Share \ {s} : \A a \in Device : shares'[a][x] = shares[a][x]
    BY <1>10 DEF HandleDeleteShare, DeleteShare, TypeOK
  <2> QED BY <1>b, <2>1, <2>2, OfferType DEF Here
<1>11. ASSUME NEW d \in Device, SaveForm(d) PROVE AllAgreed'
  <2>1. past'["accepted"] = past["accepted"] /\ \A e \in Bad : past[e] \subseteq past'[e]
    BY <1>11, SaveEffect DEF Event
  <2> QED BY <1>11, <1>b, <2>1, SaveEffect
<1>12. CASE UNCHANGED vars
  BY <1>12, <1>b DEF vars, Here
<1> QED BY <1>1, <1>2, <1>3, <1>4, <1>5, <1>6, <1>7, <1>8, <1>9, <1>10, <1>11, <1>12
        DEF Next, CallStep, UserStep, Returns

-----------------------------------------------------------------------------
(* The theorems                                                            *)

LEMMA InitInv == Init => IInv
<1> SUFFICES ASSUME Init PROVE IInv
  OBVIOUS
<1>1. TypeOK
  BY DEF Init, TypeOK, Event
<1>2. Offered = {} /\ \A c \in Call : calls[c] = NoCall
  BY DEF Init, Offered
<1>3. Roles /\ Fresh
  BY <1>2 DEF Init, Roles, Fresh, Event
<1>4. ThereActive /\ Attempts /\ HalfDoneIsUndone
  BY <1>2 DEF ThereActive, Attempts, HalfDoneIsUndone
<1>5. Solo
  BY <1>2 DEF Init, Solo, AnsweredLast, Event
<1>6. AllOpenable /\ AllAgreed
  BY <1>2 DEF AllOpenable, AllAgreed
<1> QED BY <1>1, <1>3, <1>4, <1>5, <1>6 DEF IInv

LEMMA NextInv == IInv /\ [Next]_vars => IInv'
BY TypeStep, RolesStep, FreshStep, ThereActiveStep, AttemptsStep, HalfDoneStep, SoloStep,
   OpenableStep, AgreedStep
   DEF IInv

LEMMA Invariance == Spec => []IInv
BY InitInv, NextInv, PTL DEF Spec

\* Type correctness of the configuration, the calls and the forms.
THEOREM TypeCorrect == Spec => []TypeOK
<1>1. IInv => TypeOK
  BY DEF IInv
<1> QED BY <1>1, Invariance, PTL

\* AcceptShareInvitation with AddShare's check for a duplicate: however many
\* attempts, restarts, forms and lost messages there are, no rollback removes
\* the space of an acceptance that was reported.
THEOREM AcceptanceStays == Spec => []AcceptedKept
<1>1. IInv => AcceptedKept
  <2> SUFFICES ASSUME IInv, NEW s \in past["accepted"] \ past["deleted"]
               PROVE  Active(There(s))
    BY DEF AcceptedKept
  <2>1. s \in Offered
    BY DEF IInv, Fresh, TypeOK, Event
  <2> QED BY <2>1 DEF IInv, Attempts, ThereActive, Active
<1> QED BY <1>1, Invariance, PTL

\* The deferred deletions of InviteShare and AcceptShareInvitation: a device
\* has no space of an attempt that is over and failed.
THEOREM FailureLeavesNothing == Spec => []HalfDoneIsUndone
<1>1. IInv => HalfDoneIsUndone
  BY DEF IInv
<1> QED BY <1>1, Invariance, PTL

\* HandleShareInvite and the deferred deletion of InviteShare: whichever of
\* attempts, restarts and lost answers there were, the other device still has
\* the invitation of a space that is pending.
THEOREM PendingHasInvitation == Spec => []PendingCanBeAccepted
<1>1. IInv => PendingCanBeAccepted
  <2> SUFFICES ASSUME IInv, NEW s \in past["invited"] \ (past["deleted"] \cup past["reverted"]),
                      ~Active(Here(s))
               PROVE  Waits(s)
    BY DEF PendingCanBeAccepted, Waits
  <2>1. s \in Offered
    BY DEF IInv, Solo
  <2> QED BY <2>1 DEF IInv, AllOpenable, Openable
<1> QED BY <1>1, Invariance, PTL

\* InviteShare, AcceptShareInvitation and handleShareAccept together: when
\* every answer arrives, the two devices never end with one of them active.
THEOREM DevicesAgree == Spec => []ActiveTogether
<1>1. IInv => ActiveTogether
  <2> DEFINE Bad == {"deleted", "cut", "stopped", "reverted"}
  <2> SUFFICES ASSUME IInv, NEW s \in Offered \ UNION {past[e] : e \in Bad}, ~InProgress(s)
               PROVE  /\ Active(Here(s)) <=> s \in past["accepted"]
                      /\ Active(There(s)) <=> s \in past["accepted"]
    BY DEF ActiveTogether
  <2>1. s \in Offered /\ ~Spoilt(s) /\ s \notin past["deleted"] /\ s \notin past["stopped"]
    BY DEF Spoilt
  <2>2. \A c \in Call : calls[c] = NoCall \/ calls[c].share # s
    BY DEF InProgress
  <2>3. Accepting(s) = {} /\ \A d : ~Asking(d, s)
    BY <2>2 DEF Accepting, Asking, Waiting
  <2>4. Active(Here(s)) <=> s \in past["accepted"]
    BY <2>1, <2>3 DEF IInv, AllAgreed, Agreed, Acknowledged
  <2>5. s \in past["accepted"] => Active(There(s))
    BY <2>1 DEF IInv, Attempts, ThereActive, Active
  <2>6. Active(There(s)) => s \in past["accepted"]
    BY <2>1, <2>3 DEF IInv, HalfDoneIsUndone, Active
  <2> QED BY <2>4, <2>5, <2>6
<1> QED BY <1>1, Invariance, PTL

=============================================================================
