------------------------- MODULE MCTransferSession -------------------------
(* One transfer for TLC.  Its sets are its constants: nothing to add but   *)
(* the module the runs name.                                               *)
EXTENDS TransferSession
=============================================================================
