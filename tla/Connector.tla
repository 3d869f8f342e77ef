----------------------------- MODULE Connector -----------------------------
(***************************************************************************)
(* database/query/internal/connector: calls that write through the active  *)
(* master, the switch to another master when it is dead, the watcher that  *)
(* returns to the preferred master once it answers again, and the          *)
(* detection of the preferred master that is postponed until every master  *)
(* was reachable once.                                                     *)
(*                                                                         *)
(* A pool connects lazily (poolConnect): creating one for a dead master    *)
(* succeeds.  Closing a pool refuses new connections at once and then      *)
(* waits for the ones in use.                                              *)
(***************************************************************************)
EXTENDS Servers, Sequences

CONSTANTS Callers,     \* concurrent writers
          Watchers,    \* slots for connectToPreferredMasterOnceAvailable
          PoolIds,     \* names for pools, reused once nobody refers to them
          MaxTries,    \* bound on the attempts
          MaxReturns,  \* bound on the watches that get to their switch
          Pings        \* pingsForPreferredMasterSwitch

ASSUME ConnectorAssumption ==
    /\ Watchers \subseteq Nat \ {0}
    /\ PoolIds \subseteq Nat \ {0} /\ 1 \in PoolIds
    /\ MaxTries \in Nat /\ MaxReturns \in Nat /\ Pings \in Nat \ {0}

VARIABLES pool,        \* pool id -> its master and whether it is open
          active,      \* writeLB.Active
          current,     \* writeLB.CurrentIndex
          preferred,   \* writeLB.PreferredUrl
          handle,      \* writeLB.CancelPreferredMasterSwitch: a watcher or Free
          watch,       \* the watchers and the postponed detection
          drain,       \* pools in waitPoolFreeToClose, with their watcher
          call,        \* the writers
          tries,       \* attempts so far
          returns,     \* watches that got to their switch
          lock         \* writeLB.SwitchMu: its holder while it closes a pool

connVars == <<pool, active, current, preferred, handle, watch, drain, call, tries, returns, lock>>

Detector == 0
Agents == Watchers \cup {Detector}
Free == -1
NoPool == [idx |-> 0, open |-> FALSE]

Idle == [pc |-> "idle", p |-> 0, seen |-> 0]
Off == [pc |-> "off", idx |-> 0, pings |-> 0, live |-> FALSE, conn |-> 0, seen |-> 0]

Open(p) == pool[p].open
Answers(p) == pool[p].idx \in up
Running(p) == \E c \in Callers : call[c].pc = "run" /\ call[c].p = p

InUse == {active} \cup {d.p : d \in drain}
         \cup (UNION {{call[c].p, call[c].seen} : c \in Callers})
         \cup (UNION {{watch[w].conn, watch[w].seen} : w \in Agents})

\* A name nobody refers to any more, also if its pool was leaked open.
Unnamed == PoolIds \ InUse
Fresh == CHOOSE p \in Unnamed : TRUE

\* poolConnect: a new open pool for master m.
PoolConnect(m) ==
    [p \in PoolIds |-> IF p = Fresh THEN [idx |-> m, open |-> TRUE]
                       ELSE IF p \in InUse THEN pool[p] ELSE NoPool]

\* Mutant: the last address of the ring is lost.
ConnectOrderShort(cur) == [i \in 1 .. NMasters - 2 |-> (cur + i) % NMasters]

CalculateConnectOrder(cur) ==
    [i \in 1 .. NMasters - 1 |-> (cur + i) % NMasters]

-----------------------------------------------------------------------------
\* WithWriteURLs: the reachable master with the least latency is the active and
\* preferred one; the detection is postponed unless all of them answered.
ConnInit ==
    \E m \in up :
        /\ pool = [p \in PoolIds |-> IF p = 1 THEN [idx |-> m, open |-> TRUE] ELSE NoPool]
        /\ active = 1
        /\ current = m
        /\ preferred = m
        /\ handle = Free
        /\ watch = [w \in Agents |->
                     IF w = Detector /\ up # Masters
                     THEN [Off EXCEPT !.pc = "wait", !.live = TRUE] ELSE Off]
        /\ drain = {}
        /\ call = [c \in Callers |-> Idle]
        /\ tries = 0
        /\ returns = 0
        /\ lock = Free

-----------------------------------------------------------------------------
(* switchMaster, the part under SwitchMu.                                   *)

\* CancelPreferredMasterSwitch(): the context of the watcher of the handle, and
\* of the pools it replaced.
CancelWatch(ws) == [w \in Agents |-> [ws[w] EXCEPT !.live = @ /\ w # handle]]
CancelDrain(ds) == {[d EXCEPT !.live = @ /\ d.by # handle] : d \in ds}

SlotFree(w) == watch[w].pc = "off" /\ ~ \E d \in drain : d.by = w

\* A switch away from the preferred master cancels the watch of the handle and
\* starts one; ws and ds are the watchers and the replaced pools otherwise.
StartWatch(ws, ds) ==
    IF current = preferred
    THEN LET w == CHOOSE x \in Watchers : SlotFree(x)
         IN /\ \E x \in Watchers : SlotFree(x)
            /\ watch' = [CancelWatch(ws) EXCEPT
                           ![w] = [Off EXCEPT !.pc = "ping", !.idx = current, !.live = TRUE]]
            /\ drain' = CancelDrain(ds)
            /\ handle' = w
    ELSE watch' = ws /\ drain' = ds /\ UNCHANGED handle

AlreadySwitched(seen) == seen # active

-----------------------------------------------------------------------------
(* Exec, ExecOne, ExecMany, DoInTransaction: withRetry around one attempt.  *)

Move(c, r) == call' = [call EXCEPT ![c] = r]

\* primary(): the attempt uses the pool that is active now.
Attempt(c) ==
    /\ tries < MaxTries
    /\ tries' = tries + 1
    /\ Move(c, [Idle EXCEPT !.pc = "query", !.p = active])
    /\ UNCHANGED <<pool, active, current, preferred, handle, watch, drain, returns, lock>>

Begin(c) == call[c].pc = "idle" /\ Attempt(c)

\* A connection of the pool: a closed pool is no dead instance and ends the
\* call with that error; a dead master sends it to switchMaster.
Acquire(c) ==
    /\ call[c].pc = "query"
    /\ Move(c, IF ~Open(call[c].p) THEN Idle
               ELSE [call[c] EXCEPT !.pc = IF Answers(call[c].p) THEN "run" ELSE "load"])
    /\ UNCHANGED <<pool, active, current, preferred, handle, watch, drain, tries, returns, lock>>

\* The statement ends, or its connection breaks.
Execute(c) ==
    /\ call[c].pc = "run"
    /\ Move(c, IF Answers(call[c].p) THEN Idle ELSE [call[c] EXCEPT !.pc = "load"])
    /\ UNCHANGED <<pool, active, current, preferred, handle, watch, drain, tries, returns, lock>>

\* switchMaster reads Active before it takes the lock.
LoadActive(c) ==
    /\ call[c].pc = "load"
    /\ Move(c, [call[c] EXCEPT !.pc = "lock", !.seen = active])
    /\ UNCHANGED <<pool, active, current, preferred, handle, watch, drain, tries, returns, lock>>

\* Under the lock: done if another switch came first, or if there is no other
\* master; otherwise the next master in order gets a new pool, which becomes
\* active, and the old pool closes.
SwitchMaster(c) ==
    /\ call[c].pc = "lock"
    /\ lock = Free
    /\ IF AlreadySwitched(call[c].seen) \/ CalculateConnectOrder(current) = << >>
       THEN /\ Move(c, [call[c] EXCEPT !.pc = "retry", !.seen = 0])
            /\ UNCHANGED <<pool, active, current, preferred, handle, watch, drain, tries, returns, lock>>
       ELSE /\ Unnamed # {}
            /\ LET next == Head(CalculateConnectOrder(current))
               IN  /\ pool' = [PoolConnect(next) EXCEPT ![active].open = FALSE]
                   /\ active' = Fresh
                   /\ current' = next
            /\ StartWatch(watch, drain)
            /\ lock' = active
            /\ Move(c, [call[c] EXCEPT !.pc = "close", !.seen = 0])
            /\ UNCHANGED <<preferred, tries, returns>>

\* oldMaster.Close() returns, and with it switchMaster, once the connections
\* in use are back.
ClosedPool(c) ==
    /\ call[c].pc = "close"
    /\ ~Running(lock)
    /\ lock' = Free
    /\ Move(c, [call[c] EXCEPT !.pc = "retry"])
    /\ UNCHANGED <<pool, active, current, preferred, handle, watch, drain, tries, returns>>

\* The next attempt after the backoff.
Retry(c) == call[c].pc = "retry" /\ Attempt(c)

\* WithMaxElapsedTime: 25 seconds have passed, the last error is returned.
GiveUp(c) ==
    /\ call[c].pc = "retry"
    /\ Move(c, Idle)
    /\ UNCHANGED <<pool, active, current, preferred, handle, watch, drain, tries, returns, lock>>

-----------------------------------------------------------------------------
(* connectToPreferredMasterOnceAvailable, waitPoolFreeToClose and           *)
(* postponeMinLatencyDetection.                                             *)

\* One round: a pool of its own, a ping, and enough pings in a row.
Probe(w) ==
    /\ watch[w].pc = "ping"
    /\ LET x == watch[w]
           n == x.pings + 1
       IN  \/ /\ ~x.live
              /\ watch' = [watch EXCEPT ![w] = Off]
              /\ UNCHANGED <<pool, returns>>
           \/ /\ x.live /\ x.idx \notin up
              /\ watch' = [watch EXCEPT ![w].pings = 0]
              /\ UNCHANGED <<pool, returns>>
           \/ /\ x.live /\ x.idx \in up /\ n < Pings
              /\ watch' = [watch EXCEPT ![w].pings = n]
              /\ UNCHANGED <<pool, returns>>
           \/ /\ x.live /\ x.idx \in up /\ n = Pings
              /\ returns < MaxReturns /\ Unnamed # {}
              /\ returns' = returns + 1
              /\ pool' = PoolConnect(x.idx)
              /\ watch' = [watch EXCEPT ![w] = [x EXCEPT !.pc = "load", !.pings = 0, !.conn = Fresh]]
    /\ UNCHANGED <<active, current, preferred, handle, drain, call, tries, lock>>

\* Every master answered: the one with the least latency keeps its pool.
Detect(m) ==
    /\ watch[Detector].pc = "wait"
    /\ up = Masters /\ Unnamed # {}
    /\ pool' = PoolConnect(m)
    /\ watch' = [watch EXCEPT ![Detector] =
                   [@ EXCEPT !.pc = "assign", !.idx = m, !.conn = Fresh]]
    /\ UNCHANGED <<active, current, preferred, handle, drain, call, tries, returns, lock>>

\* assignPreferredMaster: under the lock, released before the switch.
AssignPreferredMaster ==
    /\ watch[Detector].pc = "assign"
    /\ lock = Free
    /\ IF watch[Detector].idx # current
       THEN /\ preferred' = watch[Detector].idx
            /\ watch' = [watch EXCEPT ![Detector].pc = "load"]
       ELSE /\ watch' = [watch EXCEPT ![Detector] = Off]
            /\ UNCHANGED preferred
    /\ UNCHANGED <<pool, active, current, handle, drain, call, tries, returns, lock>>

WatchLoadActive(w) ==
    /\ watch[w].pc = "load"
    /\ watch' = [watch EXCEPT ![w].pc = "lock", ![w].seen = active]
    /\ UNCHANGED <<pool, active, current, preferred, handle, drain, call, tries, returns, lock>>

\* switchMaster with the pool of the preferred master: the old one is closed
\* when it is free.  If another switch came first the watch ends and its pool
\* stays open.
SwitchToPreferred(w) ==
    /\ watch[w].pc = "lock"
    /\ lock = Free
    /\ IF AlreadySwitched(watch[w].seen)
       THEN /\ watch' = [watch EXCEPT ![w] = Off]
            /\ UNCHANGED <<active, current, handle, drain>>
       ELSE /\ active' = watch[w].conn
            /\ current' = watch[w].idx
            /\ StartWatch([watch EXCEPT ![w] = Off],
                          drain \cup {[p |-> active, by |-> w, live |-> watch[w].live]})
    /\ UNCHANGED <<pool, preferred, call, tries, returns, lock>>

\* The replaced pool is free, or the context of its watcher was cancelled: the
\* watch of the handle is cancelled, whichever it is by now, and the pool closes.
WaitPoolFreeToClose(d) ==
    /\ d \in drain
    /\ ~Running(d.p) \/ ~d.live
    /\ drain' = CancelDrain(drain \ {d})
    /\ watch' = CancelWatch(watch)
    /\ pool' = [pool EXCEPT ![d.p].open = FALSE]
    /\ UNCHANGED <<active, current, preferred, handle, call, tries, returns, lock>>

CallStep(c) ==
    \/ Acquire(c) \/ Execute(c) \/ LoadActive(c) \/ SwitchMaster(c)
    \/ ClosedPool(c) \/ Retry(c) \/ GiveUp(c)

WatchStep(w) == Probe(w) \/ WatchLoadActive(w) \/ SwitchToPreferred(w)

Background ==
    \/ \E w \in Agents : WatchStep(w)
    \/ \E m \in Masters : Detect(m)
    \/ AssignPreferredMaster
    \/ \E d \in drain : WaitPoolFreeToClose(d)

ConnNext == Background \/ \E c \in Callers : Begin(c) \/ CallStep(c)

-----------------------------------------------------------------------------
(* Properties.                                                              *)

ConnTypeOK ==
    /\ pool \in [PoolIds -> [idx : Masters, open : BOOLEAN]]
    /\ active \in PoolIds
    /\ current \in Masters
    /\ preferred \in Masters
    /\ handle \in Watchers \cup {Free}
    /\ \A c \in Callers : /\ call[c].pc \in {"idle", "query", "run", "load", "lock", "close", "retry"}
                          /\ {call[c].p, call[c].seen} \subseteq PoolIds \cup {0}
    /\ lock \in PoolIds \cup {Free}

\* The failover is sound: whatever switches and watches interleave, the active
\* pool is open and belongs to the master the connector believes in, and a call
\* that retries after a dead master never gets the pool that failed it again,
\* if there is another master.
FailoverSound ==
    /\ ConnTypeOK
    /\ Open(active) /\ pool[active].idx = current
    /\ NMasters > 1 => \A c \in Callers : call[c].pc = "retry" => call[c].p # active
=============================================================================
