--------------------------- MODULE MCFileTransfer ---------------------------
(* Small instances of FileTransfer for TLC. *)
EXTENDS FileTransferClaims, TLC

CONSTANT Size
MCFileSize == [f \in Files |-> Size]

\* Files differ in nothing but their names: stamps order a file's own partials.
FileSymmetry == Permutations(Files)

\* At most two datagrams in flight, both ways together.
FewInFlight == Len(toServer) + Len(toClient) <= 2
=============================================================================
