-------------------------- MODULE MC_BufferManager --------------------------
\* One application buffer in the larger of two pools, the smaller being used
\* up by other tasks, and four debug buffers, one more than the debug queue
\* holds.
EXTENDS BufferManager

CONSTANTS a, d1, d2, d3, d4

McPoolBuffers == [p \in 0 .. 2 |-> CASE p = 0 -> <<d1, d2, d3, d4>>
                                     [] p = 1 -> <<>>
                                     [] OTHER -> <<a>>]
=============================================================================
