-------------------------- MODULE TransferDelivery --------------------------
(***************************************************************************)
(* What a one-off transfer promises its two users, whatever happens on the *)
(* way (docs/transfer-implementation.md, docs/onboarding-and-transfer-     *)
(* plan.md:95 and :150).  The receiving device keeps files one by one and  *)
(* calls the transfer complete once it keeps all of them; the sending      *)
(* device confirms a file only when the other keeps it, and the transfer   *)
(* only when the other has called it complete.  Either device may end the  *)
(* transfer unfinished at any moment, and nothing undoes an end or takes a *)
(* kept file away but the user's removal.                                  *)
(***************************************************************************)
CONSTANT File

VARIABLES
  sent,      \* what the sending device says: "open", "complete" or "unfinished"
  confirmed, \* the files it calls complete
  received,  \* what the receiving device has recorded of the transfer
  kept,      \* the files it has recorded and holds as they were uploaded
  delivered  \* whether it ever called the transfer complete

vars == <<sent, confirmed, received, kept, delivered>>

Init == /\ sent = "open"
        /\ confirmed = {}
        /\ received = "none"
        /\ kept = {}
        /\ delivered = FALSE

Accept == /\ received = "none"
          /\ received' = "open"
          /\ UNCHANGED <<sent, confirmed, kept, delivered>>

Keep(f) == /\ received = "open"
           /\ kept' = kept \cup {f}
           /\ UNCHANGED <<sent, confirmed, received, delivered>>

ConfirmFile(f) == /\ sent = "open"
                  /\ f \in kept \/ received = "removed"
                  /\ confirmed' = confirmed \cup {f}
                  /\ UNCHANGED <<sent, received, kept, delivered>>

Deliver == /\ received = "open"
           /\ kept = File
           /\ received' = "complete"
           /\ delivered' = TRUE
           /\ UNCHANGED <<sent, confirmed, kept>>

\* The receiving device ends the transfer; what it keeps, it goes on keeping.
Drop == /\ received = "open"
        /\ received' = "unfinished"
        /\ kept \subseteq kept' /\ kept' \subseteq File
        /\ UNCHANGED <<sent, confirmed, delivered>>

Confirm == /\ sent = "open"
           /\ delivered
           /\ sent' = "complete"
           /\ UNCHANGED <<confirmed, received, kept, delivered>>

\* The sending device ends the transfer; a restart may forget confirmations.
GiveUp == /\ sent = "open"
          /\ sent' = "unfinished"
          /\ confirmed' \subseteq confirmed
          /\ UNCHANGED <<received, kept, delivered>>

Forget == /\ sent # "open"
          /\ confirmed' \subseteq confirmed
          /\ UNCHANGED <<sent, received, kept, delivered>>

Remove == /\ received # "none"
          /\ received' = "removed"
          /\ kept' = {}
          /\ UNCHANGED <<sent, confirmed, delivered>>

Next == \/ Accept \/ Deliver \/ Drop \/ Confirm \/ GiveUp \/ Forget \/ Remove
        \/ \E f \in File : Keep(f) \/ ConfirmFile(f)

Spec == Init /\ [][Next]_vars

-----------------------------------------------------------------------------
\* A transfer the sender calls complete was complete at the receiver, and what
\* the sender confirmed is kept until the receiver's user removes it.
Delivered == sent = "complete" => delivered
ConfirmedIsKept == confirmed \subseteq kept \/ received = "removed"
CompleteIsWhole == received = "complete" => kept = File
=============================================================================
