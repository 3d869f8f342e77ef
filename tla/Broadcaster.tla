---------------------------- MODULE Broadcaster ----------------------------
(***************************************************************************)
(* server/broadcaster: events are published to the relays of their users   *)
(* over connections kept in a map by URL.  LoadOrCompute connects under    *)
(* the lock of the entry; a failed publish deletes the entry of the URL    *)
(* and closes what it found there; each relay has its own goroutine, whose *)
(* result goes through a channel with room for one result per user.        *)
(* The relay has two broadcasters: the server's runs Broadcast with a      *)
(* context that is never cancelled, the push manager's runs BroadcastTo in *)
(* jobs, whose context, and every connection made with it, ends with the   *)
(* job (go-nostr and River, external).                                     *)
(***************************************************************************)
EXTENDS Integers, FiniteSets

CONSTANTS
    Casts,          \* calls of Broadcast, or jobs
    Batches,        \* call -> the batches of events it may be given
    RelayLists,     \* user -> the relays of the stored relay list, maybe none
    SelfURL,        \* the URL of this relay
    Conns,          \* names for connections, reused once nobody holds them
    NoConn,
    MaxFaults       \* bounds the failures of peers in a behaviour

Users == DOMAIN RelayLists
URLs == (UNION {RelayLists[u] : u \in Users}) \ {SelfURL}
Tasks == Casts \X Users \X URLs
NoJob == "nobody"

ASSUME BroadcastAssumption == NoConn \notin Conns /\ IsFiniteSet(Users)

VARIABLES
    owner,          \* "server" or "push": which broadcaster this is
    relays,         \* Broadcaster.relays: URL -> connection
    locked,         \* URL -> whether a goroutine dials under the lock of its entry
    context,        \* the open connections -> the job that dialled them
    task,           \* the goroutines: where they are and their connection
    cast,           \* the calls: where they are and their channel
    closing,        \* Close: "no", "range" or "done"
    faults          \* how often a peer failed

castVars == <<owner, relays, locked, context, task, cast, closing, faults>>

-----------------------------------------------------------------------------
(* collectTargets: a batch is a set of events with a type, a user (author  *)
(* or receiver) and, for an embedding of a relay list, its relays.  A      *)
(* batch with an embedding is not authoritative: the authors are not       *)
(* looked up, the authors of what the events refer to are.                 *)
Authoritative(batch) == \A e \in batch : e.type # "embedding"
Lookup(batch) ==
    {e.user : e \in {x \in batch : x.type \in {"giftwrap", "award"}}} \cup
    {IF Authoritative(batch) THEN e.user ELSE e.refers : e \in {x \in batch : x.type = "other"}}
Embedded(batch, u) == UNION {e.relays : e \in {x \in batch : x.type = "embedding" /\ x.user = u}}
collectTargets(batch) ==
    LET found(u) == IF u \in Lookup(batch) /\ RelayLists[u] # {} THEN RelayLists[u]
                    ELSE Embedded(batch, u)
    IN  [u \in {v \in Users : found(v) # {}} |-> found(u)]

NoGoroutine == [pc |-> "none", conn |-> NoConn]
CastInit ==
    /\ owner \in {"server", "push"}
    /\ relays = [u \in URLs |-> NoConn]
    /\ locked = [u \in URLs |-> FALSE]
    /\ context = [c \in {} |-> NoJob]
    /\ task = [t \in Tasks |-> NoGoroutine]
    /\ cast = [c \in Casts |-> [pc |-> "idle", room |-> 0, queued |-> 0, got |-> 0]]
    /\ closing = "no" /\ faults = 0

Alive == DOMAIN context
Held == {task[t].conn : t \in Tasks} \cup {relays[u] : u \in URLs}
Unused == Conns \ (Alive \cup Held)
Without(cs) == [c \in Alive \ cs |-> context[c]]
Fault == faults < MaxFaults /\ faults' = faults + 1
Goes(t, pc, conn) == task' = [task EXCEPT ![t] = [pc |-> pc, conn |-> conn]]

(* Broadcast starts a goroutine per user and relay, but not for itself.    *)
Started(c, targets) ==
    [t \in Tasks |-> IF t[1] = c /\ t[2] \in DOMAIN targets /\ t[3] \in targets[t[2]]
                     THEN [NoGoroutine EXCEPT !.pc = "ensure"] ELSE task[t]]
Room(targets) == Cardinality(DOMAIN targets)
Broadcast(c, batch) ==
    LET targets == collectTargets(batch) IN
    /\ owner = "server" /\ closing = "no"
    /\ cast[c].pc = "idle"
    /\ cast' = [cast EXCEPT ![c].pc = IF DOMAIN targets = {} THEN "ended" ELSE "running",
                            ![c].room = Room(targets)]
    /\ task' = Started(c, targets)
    /\ UNCHANGED <<owner, relays, locked, context, closing, faults>>

(* A job publishes to one relay; its goroutine reads its own result.       *)
Work(c, u, url) ==
    /\ owner = "push" /\ url \in RelayLists[u]
    /\ cast[c].pc = "idle"
    /\ cast' = [cast EXCEPT ![c].pc = "running", ![c].room = 1]
    /\ task' = [task EXCEPT ![<<c, u, url>>].pc = "ensure"]
    /\ UNCHANGED <<owner, relays, locked, context, closing, faults>>

(* ensureRelay: the cached connection, whatever has become of it, or a new *)
(* one under the lock of the entry.                                        *)
EnsureHit(t) ==
    /\ task[t].pc = "ensure" /\ relays[t[3]] # NoConn
    /\ Goes(t, "publish", relays[t[3]])
    /\ UNCHANGED <<owner, relays, locked, context, cast, closing, faults>>

(* newRelay, under the lock: connect, then authenticate; a connection that *)
(* does not authenticate is closed.                                        *)
Misses(t) == task[t].pc = "ensure" /\ relays[t[3]] = NoConn /\ ~locked[t[3]]

ContextOf(t) == IF owner = "push" THEN t[1] ELSE NoJob
Connect(t) ==
    /\ Misses(t)
    /\ locked' = [locked EXCEPT ![t[3]] = TRUE]
    /\ Unused # {}
    /\ LET c == CHOOSE x \in Unused : TRUE IN
          /\ context' = [x \in Alive \cup {c} |-> IF x = c THEN ContextOf(t) ELSE context[x]]
          /\ Goes(t, "auth", c)
    /\ UNCHANGED <<owner, relays, cast, closing, faults>>

ConnectFails(t) ==
    /\ Fault
    /\ Misses(t)
    /\ Goes(t, "report", NoConn)
    /\ UNCHANGED <<owner, relays, locked, context, cast, closing>>

Authenticated(t) ==
    /\ task[t].pc = "auth"
    /\ relays' = [relays EXCEPT ![t[3]] = task[t].conn]
    /\ locked' = [locked EXCEPT ![t[3]] = FALSE]
    /\ Goes(t, "publish", task[t].conn)
    /\ UNCHANGED <<owner, context, cast, closing, faults>>

AuthFails(t) ==
    /\ Fault
    /\ task[t].pc = "auth"
    /\ context' = Without({task[t].conn})
    /\ locked' = [locked EXCEPT ![t[3]] = FALSE]
    /\ Goes(t, "report", NoConn)
    /\ UNCHANGED <<owner, relays, cast, closing>>

(* BroadcastTo publishes; when that fails the entry of the URL is taken    *)
(* out, whichever connection it holds by now, and closed.                  *)
Publish(t) ==
    /\ task[t].pc = "publish"
    /\ \/ /\ task[t].conn \in Alive
          /\ \/ Goes(t, "report", NoConn) /\ UNCHANGED faults
             \/ Goes(t, "evict", NoConn) /\ Fault
       \/ task[t].conn \notin Alive /\ Goes(t, "evict", NoConn) /\ UNCHANGED faults
    /\ UNCHANGED <<owner, relays, locked, context, cast, closing>>

Evict(t) ==
    /\ task[t].pc = "evict" /\ ~locked[t[3]]
    /\ relays' = [relays EXCEPT ![t[3]] = NoConn]
    /\ Goes(t, "close", relays[t[3]])
    /\ UNCHANGED <<owner, locked, context, cast, closing, faults>>

CloseEvictedNot(t) == Goes(t, "report", NoConn) /\ UNCHANGED context  \* mutated
CloseEvicted(t) == Goes(t, "report", NoConn) /\ context' = Without({task[t].conn})
Close(t) ==
    /\ task[t].pc = "close"
    /\ CloseEvicted(t)
    /\ UNCHANGED <<owner, relays, locked, cast, closing, faults>>

(* The result waits for room in the channel, which Broadcast empties as    *)
(* the results come, and which is closed after the last goroutine.         *)
Report(t) ==
    /\ task[t].pc = "report" /\ cast[t[1]].queued < cast[t[1]].room
    /\ cast' = [cast EXCEPT ![t[1]].queued = @ + 1]
    /\ Goes(t, "done", NoConn)
    /\ UNCHANGED <<owner, relays, locked, context, closing, faults>>

Unfinished(c) == {t \in Tasks : t[1] = c /\ task[t].pc \notin {"none", "done"}}
MayReceiveLast(c) == Unfinished(c) = {}  \* mutated: reads after all goroutines
MayReceive(c) == TRUE
Receive(c) ==
    /\ cast[c].pc = "running" /\ cast[c].queued > 0 /\ MayReceive(c)
    /\ cast' = [cast EXCEPT ![c].queued = @ - 1, ![c].got = @ + 1]
    /\ UNCHANGED <<owner, relays, locked, context, task, closing, faults>>

(* The call returns; the context of a job ends and with it the connections *)
(* that were made with it, which stay in the map.                          *)
Return(c) ==
    /\ cast[c].pc = "running" /\ Unfinished(c) = {} /\ cast[c].queued = 0
    /\ cast' = [cast EXCEPT ![c].pc = "ended"]
    /\ context' = Without({x \in Alive : context[x] = c})
    /\ UNCHANGED <<owner, relays, locked, task, closing, faults>>

(* The peer closes a connection (external).                                *)
PeerCloses(x) ==
    /\ Fault
    /\ context' = Without({x})
    /\ UNCHANGED <<owner, relays, locked, task, cast, closing>>

(* Broadcaster.Close at shutdown: the connections in the map, then the map. *)
CloseRange ==
    /\ owner = "server" /\ closing = "no"
    /\ closing' = "range"
    /\ context' = Without({relays[u] : u \in URLs})
    /\ UNCHANGED <<owner, relays, locked, task, cast, faults>>
CloseClear ==
    /\ closing = "range"
    /\ closing' = "done"
    /\ relays' = [u \in URLs |-> NoConn]
    /\ UNCHANGED <<owner, locked, context, task, cast, faults>>

TaskStep(t) ==
    \/ EnsureHit(t) \/ Connect(t) \/ ConnectFails(t) \/ Authenticated(t)
    \/ AuthFails(t) \/ Publish(t) \/ Evict(t) \/ Close(t) \/ Report(t)

CastNext ==
    \/ \E c \in Casts : \/ \E batch \in Batches[c] : Broadcast(c, batch)
                        \/ \E u \in Users, url \in URLs : Work(c, u, url)
                        \/ Receive(c) \/ Return(c)
    \/ \E t \in Tasks : TaskStep(t)
    \/ \E x \in Alive : PeerCloses(x)
    \/ CloseRange \/ CloseClear

(* Goroutines run, and connecting and publishing have a timeout.           *)
CastFairness ==
    WF_castVars((\E t \in Tasks : TaskStep(t)) \/ \E c \in Casts : Receive(c) \/ Return(c))

-----------------------------------------------------------------------------
(* Until the shutdown no connection is lost: one that is open is in the    *)
(* map, or in the hands of the goroutine that is about to put it there or  *)
(* to close it (ensureRelay, BroadcastTo); and a call that has returned    *)
(* has the result of each of its goroutines (Broadcast).                   *)
BroadcastSound ==
    /\ closing = "no" =>
          \A x \in Alive : \/ \E u \in URLs : relays[u] = x
                          \/ \E t \in Tasks : task[t].conn = x /\ task[t].pc \in {"auth", "close"}
    /\ \A c \in Casts : cast[c].pc = "ended" =>
          cast[c].got = Cardinality({t \in Tasks : t[1] = c /\ task[t].pc = "done"})

(* Every call returns, although a user may have more relays than the       *)
(* channel has room (Broadcast).                                           *)
BroadcastEnds == \A c \in Casts : (cast[c].pc = "running") ~> (cast[c].pc = "ended")
=============================================================================
