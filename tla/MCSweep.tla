------------------------------ MODULE MCSweep ------------------------------
EXTENDS Sweep

\* Lengths of two cells, in size_t of 6 and of 4 bits.
MCMasks == [wide |-> 64, narrow |-> 16]

\* Collections that a reader of the narrow width can hold, and one in which more
\* objects fit than the loop looks at.
MCSizes == {8, 10, 12, 14, 44}
=============================================================================
