----------------------------- MODULE JobQueue ------------------------------
(***************************************************************************)
(* rq: Push inserts jobs into River's table through the pool the River     *)
(* client was created with, and when that fails for a reason that calls    *)
(* for another master, pauses, pings the active master, and switches:      *)
(* a new pool, the migrations, a new River client on it.  The masters are  *)
(* views of one table (external), and River skips a job whose arguments    *)
(* are already there (UniqueOpts ByArgs, external).                        *)
(***************************************************************************)
EXTENDS Servers, Sequences

CONSTANTS Pushers,    \* concurrent callers of Push
          Jobs,       \* jobs, told apart by their arguments
          QPools      \* names for pools, reused once nobody refers to them

VARIABLES qpool,      \* pool -> its master and whether it is open
          qactive,    \* DB.Active
          qcurrent,   \* DB.CurrentIndex
          river,      \* the pool of the River client
          qlock,      \* SwitchMu: its holder or ""
          push,       \* where each Push is, and the pool of its insert
          want,       \* its jobs
          result,     \* how the last one ended
          rows        \* rows of each job in the table

queueVars == <<qpool, qactive, qcurrent, river, qlock, push, want, result, rows>>

AtRest == [pc |-> "idle", p |-> 0]

PoolOK(p) == qpool[p].open /\ qpool[p].idx \in up

UnusedPools == QPools \ ({qactive, river} \cup {push[c].p : c \in Pushers})
NewPool == CHOOSE p \in UnusedPools : TRUE

\* calculateConnectOrder: the others in turn, the current one last.
ConnectOrder(cur) == [i \in 1 .. NMasters |-> (cur + i) % NMasters]

\* newClient: the first master gets a pool, which never fails, and it must
\* answer for the migrations to run.
QueueInit ==
    /\ 0 \in up
    /\ qpool = [p \in QPools |-> [idx |-> 0, open |-> p = 1]]
    /\ qactive = 1
    /\ qcurrent = 0
    /\ river = 1
    /\ qlock = ""
    /\ push = [c \in Pushers |-> AtRest]
    /\ want = [c \in Pushers |-> {}]
    /\ result = [c \in Pushers |-> "none"]
    /\ rows = [j \in Jobs |-> 0]

Goto(c, pc) == push' = [push EXCEPT ![c] = [pc |-> pc, p |-> 0]]

End(c, res) ==
    /\ Goto(c, "idle")
    /\ want' = [want EXCEPT ![c] = {}]
    /\ result' = [result EXCEPT ![c] = res]

Push(c, js) ==
    /\ push[c].pc = "idle"
    /\ Goto(c, "insert")
    /\ want' = [want EXCEPT ![c] = js]
    /\ UNCHANGED <<qpool, qactive, qcurrent, river, qlock, result, rows>>

\* Mutant: no unique options.
InsertedAgain(js) == [j \in Jobs |-> IF j \in js THEN rows[j] + 1 ELSE rows[j]]

\* Insert or InsertMany with UniqueOpts, in one transaction.
Inserted(js) == [j \in Jobs |-> IF j \in js /\ rows[j] = 0 THEN 1 ELSE rows[j]]

\* push(): the insert is committed, or fails because the pool is closed or its
\* master dead, which shouldSwitchMaster tells from the error.
Insert(c) ==
    /\ push[c].pc = "insert"
    /\ \/ /\ PoolOK(river)
          /\ rows' = Inserted(want[c])
          /\ push' = [push EXCEPT ![c] = [pc |-> "reply", p |-> river]]
       \/ /\ ~PoolOK(river)
          /\ Goto(c, "pause")
          /\ UNCHANGED rows
    /\ UNCHANGED <<qpool, qactive, qcurrent, river, qlock, want, result>>

\* The answer of the insert arrives, or the connection broke first.
Reply(c) ==
    /\ push[c].pc = "reply"
    /\ \/ qpool[push[c].p].idx \in up /\ End(c, "ok")
       \/ qpool[push[c].p].idx \notin up /\ Goto(c, "pause") /\ UNCHANGED <<want, result>>
    /\ UNCHANGED <<qpool, qactive, qcurrent, river, qlock, rows>>

\* Mutant: the health check only asks for a River client.
HealthCheckNoPing(c) ==
    /\ push[c].pc = "pause"
    /\ Goto(c, "insert")
    /\ UNCHANGED <<qpool, qactive, qcurrent, river, qlock, want, result, rows>>

\* After the pause, HealthCheck pings the active pool: if it answers the insert
\* is tried again, on the River client as it is.
HealthCheck(c) ==
    /\ push[c].pc = "pause"
    /\ Goto(c, IF PoolOK(qactive) THEN "insert" ELSE "switch")
    /\ UNCHANGED <<qpool, qactive, qcurrent, river, qlock, want, result, rows>>

\* trySwitchMaster, switchMaster: the first master in order that answers a ping
\* gets a new active pool, and the old pool closes.
TrySwitchMaster(c) ==
    /\ push[c].pc = "switch"
    /\ qlock = ""
    /\ LET live == SelectSeq(ConnectOrder(qcurrent), LAMBDA m : m \in up)
       IN  IF live = << >>
           THEN /\ Goto(c, "insert")
                /\ UNCHANGED <<qpool, qactive, qcurrent, qlock>>
           ELSE /\ UnusedPools # {}
                /\ qpool' = [qpool EXCEPT ![NewPool] = [idx |-> Head(live), open |-> TRUE],
                                          ![qactive].open = FALSE]
                /\ qactive' = NewPool
                /\ qcurrent' = Head(live)
                /\ qlock' = c
                /\ Goto(c, "migrate")
    /\ UNCHANGED <<river, want, result, rows>>

\* Close of the old pool waits until nobody has a connection of it.
Drained == \A d \in Pushers : push[d].pc = "reply" => qpool[push[d].p].open

\* Once the old pool is closed, initDatabaseClient migrates the new one, and
\* initRiverClient replaces the River client; if the migration fails the River
\* client keeps the closed pool.
Reinit(c) ==
    /\ push[c].pc = "migrate"
    /\ Drained
    /\ river' = IF PoolOK(qactive) THEN qactive ELSE river
    /\ qlock' = ""
    /\ Goto(c, "insert")
    /\ UNCHANGED <<qpool, qactive, qcurrent, want, result, rows>>

\* The context of the push ends, also while the insert is under way.  It governs
\* the pings of a switch, which then finds no master once it has the lock, and
\* the migration, which then fails and leaves the River client as it is.
Abandon(c) ==
    /\ push[c].pc # "idle"
    /\ push[c].pc = "switch" => qlock = ""
    /\ push[c].pc = "migrate" => Drained
    /\ End(c, "cancelled")
    /\ qlock' = IF push[c].pc = "migrate" THEN "" ELSE qlock
    /\ UNCHANGED <<qpool, qactive, qcurrent, river, rows>>

PushStep(c) == Insert(c) \/ Reply(c) \/ HealthCheck(c) \/ TrySwitchMaster(c) \/ Reinit(c)

QueueNext ==
    \E c \in Pushers :
        \/ \E js \in (SUBSET Jobs) \ {{}} : Push(c, js)
        \/ PushStep(c)
        \/ Abandon(c)

\* Every push is a goroutine of its own.
QueueFairness == \A c \in Pushers : WF_queueVars(PushStep(c))

-----------------------------------------------------------------------------
(* Properties.                                                              *)

\* A migration failed after the switch: nobody is switching, and the River client
\* has a closed pool although the active one answers the health check.
Wedged == qlock = "" /\ ~qpool[river].open /\ PoolOK(qactive)

\* Whatever masters crash while it retries, a push ends once one master stays up,
\* unless a migration that failed, or whose push was cancelled, has left the River
\* client on a closed pool for good.
PushEnds == \A c \in Pushers : push[c].pc = "insert" ~> (push[c].pc = "idle" \/ []Wedged)

\* The queue implements the outbox: no retry after a lost answer stores a job
\* twice, and no push is answered before its jobs are stored.
TheOutbox == INSTANCE Outbox WITH Pushers <- Pushers, Jobs <- Jobs,
                                  want <- want, result <- result, rows <- rows
ImplementsOutbox == TheOutbox!OutboxSpec
=============================================================================
