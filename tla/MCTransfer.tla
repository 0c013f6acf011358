----------------------------- MODULE MCTransfer -----------------------------
(* Values of the constants of Transfer for TLC. *)
EXTENDS TransferInv

\* No block that starts like a FINACK, or only the last one.
NoFinLike == {}
LastFinLike == {N}

\* The output file can be created, or perhaps not (Either).
Opens == {TRUE}

Either == BOOLEAN

\* The ack of recvfile.cpp 104-106, of which isFin and the checksum are not filled:
\* it verifies and is no FIN, or reads as a FIN and does not verify.
AnyButAFin == {[isFin |-> NoFin, ok |-> TRUE], [isFin |-> FIN, ok |-> FALSE]}
=============================================================================
