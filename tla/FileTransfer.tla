---------------------------- MODULE FileTransfer ----------------------------
(***************************************************************************)
(* What project2 promises of a transfer of N blocks, with no network, no    *)
(* window and no acknowledgement: the output grows block after block, it is *)
(* complete before anybody is told so, and at last the sender is told.      *)
(***************************************************************************)
EXTENDS Naturals, Sequences

CONSTANT N

VARIABLES
    output,     \* blocks in the output file
    complete,   \* the receiving side has announced the end
    confirmed   \* the sending side has been told

vars == <<output, complete, confirmed>>

Prefix(n) == [k \in 1..n |-> k]

Init == output = <<>> /\ complete = FALSE /\ confirmed = FALSE

\* The next blocks arrive, one or, when a gap is filled, several.  The last
\* block is written and the end announced in one step.
Write ==
    \E n \in (Len(output) + 1)..N :
        /\ output' = Prefix(n)
        /\ complete' = (n = N)
        /\ UNCHANGED confirmed

Confirm ==
    /\ complete /\ ~confirmed
    /\ confirmed' = TRUE
    /\ UNCHANGED <<output, complete>>

Next == Write \/ Confirm

Spec == Init /\ [][Next]_vars
FairSpec == Spec /\ WF_vars(Next)
=============================================================================
