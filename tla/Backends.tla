------------------------------ MODULE Backends ------------------------------
(***************************************************************************)
(* The clients of other servers side by side: the connector of the event   *)
(* store, the job queue, the tracker of write errors and the broadcaster.  *)
(* The first two share the database servers and fail over each on its own; *)
(* a behaviour follows the one that has load.                              *)
(***************************************************************************)
EXTENDS Connector, JobQueue, StatusTracker, Broadcaster

CONSTANTS Loads,        \* the clients a behaviour may follow
          MaxCrashes    \* for each of them, a bound on the crashes

VARIABLE load

vars == <<serverVars, connVars, queueVars, statusVars, castVars, load>>

Init ==
    /\ load \in Loads
    /\ ServersInit
    /\ load = "broadcast" => up = Masters
    /\ ConnInit
    /\ QueueInit
    /\ StatusInit
    /\ CastInit
    /\ load # "broadcast" => owner = "server"

Next ==
    /\ UNCHANGED load
    /\ \/ /\ load \in {"writes", "jobs"}
          /\ ServersNext
          /\ crashes' <= MaxCrashes[load]
          /\ UNCHANGED <<connVars, queueVars, statusVars, castVars>>
       \/ /\ load = "writes"
          /\ ConnNext
          /\ UNCHANGED <<serverVars, queueVars, statusVars, castVars>>
       \/ /\ load = "jobs"
          /\ QueueNext
          /\ UNCHANGED <<serverVars, connVars, statusVars, castVars>>
       \/ /\ load = "status"
          /\ StatusNext
          /\ UNCHANGED <<serverVars, connVars, queueVars, castVars>>
       \/ /\ load = "broadcast"
          /\ CastNext
          /\ UNCHANGED <<serverVars, connVars, queueVars, statusVars>>

\* A push that is under way goes on, and so do the goroutines of a broadcast;
\* nothing is assumed of the servers.
Spec == Init /\ [][Next]_vars /\ QueueFairness /\ CastFairness
=============================================================================
