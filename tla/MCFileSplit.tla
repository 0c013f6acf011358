----------------------------- MODULE MCFileSplit -----------------------------
\* Values for the constants of FileSplit.
EXTENDS FileSplit

\* The lengths a __uint32_t can hold.
ShortLengths == 0..(Modulus - 1)
=============================================================================
