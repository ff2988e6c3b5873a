------------------------- MODULE MCTransferProgress -------------------------
(* Small instances of TransferProgress for TLC. *)
EXTENDS TransferProgress

CONSTANT Size
MCFileSize == [f \in Files |-> Size]
=============================================================================
