------------------------------ MODULE MCBufferCache ------------------------------
(* Two threads and three sectors over a cache of two slots.                   *)
EXTENDS BufferCache, TLC

CONSTANTS t1, t2

\* One writes and in the end closes, the other reads and writes.
MCCalls == t1 :> {"write", "close"} @@ t2 :> {"read"}

=============================================================================
