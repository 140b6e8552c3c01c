----------------------------- MODULE MCCpuScheduler -----------------------------
(* Three threads under each of the four algorithms.                           *)
EXTENDS CpuScheduler, TLC

CONSTANTS t1, t2, t3

\* All alike, two that beat one, one that beats two, all different.
MCPriority == {t1 :> 0 @@ t2 :> p @@ t3 :> q : <<p, q>> \in {<<0, 0>>, <<0, 1>>, <<1, 1>>, <<1, 2>>}}

\* Nodes of fresh, zeroed memory; and one of zeros, one that held a time where a
\* transfer's start is, one that held a time in every field.
Blank == [arival |-> 0, finish |-> 0, io_burst_start |-> 0, io_burst_end |-> 0,
          first_cpu_burst_start |-> 0, first_cpu_burst_end |-> 0, second_cpu_burst_start |-> 0]
Reused == [f \in DOMAIN Blank |-> 5]
MCMemory == {[t \in Thread |-> Blank],
             t1 :> Reused @@ t2 :> [Blank EXCEPT !.io_burst_start = 5] @@ t3 :> Blank}

=============================================================================
