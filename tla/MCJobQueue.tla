----------------------------- MODULE MCJobQueue -----------------------------
(* Instances of JobQueue for TLC.                                          *)
EXTENDS JobQueue

CONSTANTS j1, j2

\* Two jobs of different priority.
MCPriority == [j \in Jobs |-> IF j = j1 THEN 2 ELSE 1]

\* A fault can strike anywhere a task is between two commands.
Everywhere == (WorkerPoints \cup ClientPoints) \ {"poll", "free", "dead"}

\* A fault strikes while the handler runs, where a worker spends its time.
InHandler == {"run"}
=============================================================================
