--------------------------- MODULE BackendsProofs ---------------------------
(***************************************************************************)
(* Proofs about the clients of other servers, for any number of masters,   *)
(* pools, callers, watchers, pushers, jobs, reporters, calls and relays,   *)
(* and any threshold and window.  The four clients share no variable, so   *)
(* each has an inductive invariant of its own, which a step of another     *)
(* client leaves alone.                                                    *)
(***************************************************************************)
EXTENDS Backends, FiniteSetTheorems, TLAPS

-----------------------------------------------------------------------------
(* The job queue implements the outbox.                                    *)

PushPCs == {"idle", "insert", "reply", "pause", "switch", "migrate"}

\* A push that waits for the answer of its insert has all its jobs stored,
\* and only a push at rest wants nothing.
QueueInv ==
    /\ DOMAIN push = Pushers
    /\ \A c \in Pushers : push[c].pc \in PushPCs
    /\ want \in [Pushers -> SUBSET Jobs]
    /\ DOMAIN result = Pushers
    /\ rows \in [Jobs -> {0, 1}]
    /\ \A c \in Pushers : push[c].pc = "idle" <=> want[c] = {}
    /\ \A c \in Pushers : push[c].pc = "reply" => \A j \in want[c] : rows[j] = 1

LEMMA QueueStart == QueueInit => QueueInv
<1> SUFFICES ASSUME QueueInit PROVE QueueInv
  OBVIOUS
<1>1. \A c \in Pushers : push[c].pc = "idle" /\ want[c] = {}
  BY DEF QueueInit, AtRest
<1>2. want \in [Pushers -> SUBSET Jobs] /\ rows \in [Jobs -> {0, 1}]
  BY DEF QueueInit
<1>3. DOMAIN push = Pushers /\ DOMAIN result = Pushers
  BY DEF QueueInit
<1> QED BY <1>1, <1>2, <1>3 DEF QueueInv, PushPCs

\* Goto changes the place of one push and of no other (JobQueue!Goto).
LEMMA GotoPlace ==
    ASSUME DOMAIN push = Pushers, NEW c \in Pushers, NEW pc, Goto(c, pc)
    PROVE  /\ DOMAIN push' = Pushers
           /\ push'[c].pc = pc
           /\ \A d \in Pushers : d # c => push'[d] = push[d]
BY DEF Goto

\* What a step of a push does to the outbox, and that it keeps the invariant:
\* Push asks, an insert that commits stores what is missing or does nothing
\* when a retry finds it all there, the answer of an insert answers, and
\* everything else is a stutter of the outbox or cancels the push.
LEMMA QueueStep ==
    ASSUME QueueInv, QueueNext
    PROVE  QueueInv' /\ [TheOutbox!OutboxNext]_(TheOutbox!outVars)
<1> USE DEF QueueInv, PushPCs
<1>1. PICK c \in Pushers : \/ \E js \in (SUBSET Jobs) \ {{}} : Push(c, js)
                           \/ PushStep(c) \/ Abandon(c)
  BY DEF QueueNext
<1>2. ASSUME NEW js \in (SUBSET Jobs) \ {{}}, Push(c, js)
      PROVE  QueueInv' /\ TheOutbox!Ask(c, js)
  <2>1. push[c].pc = "idle" /\ push'[c].pc = "insert" /\ DOMAIN push' = Pushers
        /\ \A d \in Pushers : d # c => push'[d] = push[d]
    BY <1>2, GotoPlace DEF Push
  <2>2. want' = [want EXCEPT ![c] = js] /\ UNCHANGED <<result, rows>>
    BY <1>2 DEF Push
  <2>3. QueueInv'
    BY <2>1, <2>2
  <2> QED BY <2>1, <2>2, <2>3 DEF TheOutbox!Ask
<1>3. CASE Insert(c)
  <2>1. CASE PoolOK(river) /\ rows' = Inserted(want[c])
             /\ push' = [push EXCEPT ![c] = [pc |-> "reply", p |-> river]]
             /\ UNCHANGED <<want, result>>
    <3>0. push[c].pc = "insert" BY <1>3 DEF Insert
    <3>1. rows' \in [Jobs -> {0, 1}] /\ \A j \in Jobs : rows'[j] = IF j \in want[c] THEN 1 ELSE rows[j]
      BY <2>1 DEF Inserted
    <3>2. /\ DOMAIN push' = Pushers /\ push'[c].pc = "reply"
          /\ \A d \in Pushers : d # c => push'[d] = push[d]
      BY <2>1
    <3>3. QueueInv'
      <4>1. \A d \in Pushers : push'[d].pc = "reply" => \A j \in want[d] : rows'[j] = 1
        BY <3>1, <3>2
      <4>2. \A d \in Pushers : push'[d].pc = "idle" <=> want[d] = {}
        BY <3>0, <3>2
      <4> QED BY <2>1, <3>1, <3>2, <4>1, <4>2
    <3>4. CASE \E j \in want[c] : rows[j] = 0
      <4>1. rows' = [j \in Jobs |-> IF j \in want[c] THEN 1 ELSE rows[j]]
        BY <3>1
      <4> QED BY <2>1, <3>3, <3>4, <4>1 DEF TheOutbox!Store, TheOutbox!OutboxNext
    <3>5. CASE ~ \E j \in want[c] : rows[j] = 0
      <4>1. \A j \in Jobs : rows'[j] = rows[j]
        BY <3>1, <3>5
      <4>2. rows' = rows
        BY <3>1, <4>1
      <4> QED BY <2>1, <3>3, <4>2 DEF TheOutbox!outVars
    <3> QED BY <3>4, <3>5
  <2>2. CASE Goto(c, "pause") /\ UNCHANGED <<want, result, rows>>
    BY <1>3, <2>2, GotoPlace DEF Insert, TheOutbox!outVars
  <2> QED BY <1>3, <2>1, <2>2 DEF Insert
<1>4. CASE Reply(c)
  <2>1. CASE End(c, "ok")
    <3>1. /\ push[c].pc = "reply" /\ push'[c].pc = "idle" /\ DOMAIN push' = Pushers
          /\ \A d \in Pushers : d # c => push'[d] = push[d]
      BY <1>4, <2>1, GotoPlace DEF Reply, End
    <3>2. QueueInv'
      BY <1>4, <2>1, <3>1 DEF Reply, End
    <3>3. TheOutbox!Answer(c)
      BY <1>4, <2>1, <3>1 DEF Reply, End, TheOutbox!Answer
    <3> QED BY <3>2, <3>3 DEF TheOutbox!OutboxNext
  <2>2. CASE Goto(c, "pause") /\ UNCHANGED <<want, result>>
    BY <1>4, <2>2, GotoPlace DEF Reply, TheOutbox!outVars
  <2> QED BY <1>4, <2>1, <2>2 DEF Reply
<1>5. CASE HealthCheck(c)
  BY <1>5, GotoPlace DEF HealthCheck, TheOutbox!outVars
<1>6. CASE TrySwitchMaster(c)
  <2>1. /\ push[c].pc = "switch"
        /\ Goto(c, "insert") \/ Goto(c, "migrate")
        /\ UNCHANGED <<want, result, rows>>
    BY <1>6 DEF TrySwitchMaster
  <2> QED BY <2>1, GotoPlace DEF TheOutbox!outVars
<1>7. CASE Reinit(c)
  <2>1. push[c].pc = "migrate" /\ Goto(c, "insert") /\ UNCHANGED <<want, result, rows>>
    BY <1>7 DEF Reinit
  <2> QED BY <2>1, GotoPlace DEF TheOutbox!outVars
<1>8. CASE Abandon(c)
  <2>1. /\ push[c].pc # "idle" /\ push'[c].pc = "idle" /\ DOMAIN push' = Pushers
        /\ \A d \in Pushers : d # c => push'[d] = push[d]
    BY <1>8, GotoPlace DEF Abandon, End
  <2>2. QueueInv'
    BY <1>8, <2>1 DEF Abandon, End
  <2>3. TheOutbox!Cancel(c)
    BY <1>8, <2>1 DEF Abandon, End, TheOutbox!Cancel
  <2> QED BY <2>2, <2>3 DEF TheOutbox!OutboxNext
<1>9. CASE \E js \in (SUBSET Jobs) \ {{}} : Push(c, js)
  BY <1>2, <1>9 DEF TheOutbox!OutboxNext
<1> QED
  BY <1>1, <1>3, <1>4, <1>5, <1>6, <1>7, <1>8, <1>9 DEF PushStep

\* The job queue implements the outbox, whatever masters crash and come back,
\* pools are closed and pushes are cancelled meanwhile: no retry after a lost
\* answer stores a job twice, and no push returns before its jobs are stored
\* (rq Push, switchMaster).
THEOREM QueueImplementsOutbox == Spec => ImplementsOutbox
<1>1. Init => QueueInv /\ TheOutbox!OutboxInit
  BY QueueStart DEF Init, QueueInit, TheOutbox!OutboxInit
<1>2. QueueInv /\ [Next]_vars => QueueInv' /\ [TheOutbox!OutboxNext]_(TheOutbox!outVars)
  <2> SUFFICES ASSUME QueueInv, [Next]_vars
               PROVE  QueueInv' /\ [TheOutbox!OutboxNext]_(TheOutbox!outVars)
    OBVIOUS
  <2>1. CASE UNCHANGED queueVars
    BY <2>1 DEF QueueInv, queueVars, TheOutbox!outVars
  <2>2. CASE QueueNext
    BY <2>2, QueueStep
  <2> QED BY <2>1, <2>2 DEF Next, vars
<1> QED BY <1>1, <1>2, PTL DEF Spec, ImplementsOutbox, TheOutbox!OutboxSpec

-----------------------------------------------------------------------------
(* The broadcaster loses no connection and no result.                      *)

TaskPCs == {"none", "ensure", "auth", "publish", "evict", "close", "report", "done"}

CastTypes ==
    /\ relays \in [URLs -> Conns \cup {NoConn}]
    /\ locked \in [URLs -> BOOLEAN]
    /\ Alive \subseteq Conns
    /\ task \in [Tasks -> [pc : TaskPCs, conn : Conns \cup {NoConn}]]
    /\ cast \in [Casts -> [pc : {"idle", "running", "ended"}, room : Nat, queued : Nat, got : Nat]]

\* A goroutine that dials has the lock of its entry, alone, and the entry is
\* empty: what it puts there overwrites nothing.
DialsAlone ==
    /\ \A t \in Tasks : task[t].pc = "auth" => locked[t[3]] /\ relays[t[3]] = NoConn
    /\ \A t, s \in Tasks : task[t].pc = "auth" /\ task[s].pc = "auth" /\ t[3] = s[3] => t = s

NothingLost ==
    closing = "no" =>
        \A x \in Alive : \/ \E u \in URLs : relays[u] = x
                         \/ \E t \in Tasks : task[t].conn = x /\ task[t].pc \in {"auth", "close"}

\* The goroutines of a call that ended with their result sent.
Done(c) == {t \in Tasks : t[1] = c /\ task[t].pc = "done"}

\* A call that has not begun has no goroutines, one that has returned has no
\* unfinished ones and nothing in its channel, and the results read and those
\* in the channel are the ones its goroutines sent.
ResultsCounted ==
    \A c \in Casts :
        /\ IsFiniteSet(Done(c))
        /\ cast[c].got + cast[c].queued = Cardinality(Done(c))
        /\ cast[c].pc = "idle" => \A t \in Tasks : t[1] = c => task[t].pc = "none"
        /\ cast[c].pc = "ended" => Unfinished(c) = {} /\ cast[c].queued = 0

CastInv == CastTypes /\ DialsAlone /\ NothingLost /\ ResultsCounted

LEMMA CastStart == CastInit => CastInv
<1> SUFFICES ASSUME CastInit PROVE CastInv
  OBVIOUS
<1>1. Alive = {}
  BY DEF CastInit, Alive
<1>2. \A t \in Tasks : task[t] = NoGoroutine
  BY DEF CastInit
<1>3. CastTypes
  BY <1>1 DEF CastInit, CastTypes, NoGoroutine, TaskPCs
<1>4. \A c \in Casts : Done(c) = {} /\ Unfinished(c) = {}
  BY <1>2 DEF Done, Unfinished, NoGoroutine
<1>5. ResultsCounted
  <2>1. \A c \in Casts : IsFiniteSet(Done(c)) /\ Cardinality(Done(c)) = 0
    BY <1>4, FS_EmptySet
  <2>2. \A c \in Casts : cast[c].got = 0 /\ cast[c].queued = 0 /\ cast[c].pc = "idle"
    BY DEF CastInit
  <2> QED BY <1>2, <2>1, <2>2 DEF ResultsCounted, NoGoroutine
<1> QED BY <1>1, <1>2, <1>3, <1>5 DEF CastInv, DialsAlone, NothingLost, NoGoroutine

\* The relay of a goroutine is one of the relays (Broadcaster!Tasks).
LEMMA TaskParts == \A t \in Tasks : t[1] \in Casts /\ t[2] \in Users /\ t[3] \in URLs
BY DEF Tasks

\* Goes moves one goroutine (Broadcaster!Goes).
LEMMA GoesMoves ==
    ASSUME CastTypes, NEW t \in Tasks, NEW pc \in TaskPCs, NEW conn \in Conns \cup {NoConn},
           Goes(t, pc, conn)
    PROVE  /\ task' \in [Tasks -> [pc : TaskPCs, conn : Conns \cup {NoConn}]]
           /\ task'[t] = [pc |-> pc, conn |-> conn] /\ task'[t].pc = pc
           /\ \A s \in Tasks : s # t => task'[s] = task[s]
BY DEF Goes, CastTypes

\* Closing connections takes them out of the open ones (Broadcaster!Without).
LEMMA WithoutCloses ==
    ASSUME NEW cs, context' = Without(cs)
    PROVE  Alive' = Alive \ cs
BY DEF Without, Alive

\* The results stay counted while no goroutine starts or ends.
LEMMA CountsStay ==
    ASSUME ResultsCounted, UNCHANGED cast,
           \A s \in Tasks : task'[s].pc = task[s].pc \/ {task[s].pc, task'[s].pc} \cap {"none", "done"} = {}
    PROVE  ResultsCounted'
<1>1. \A c \in Casts : Done(c)' = Done(c) /\ Unfinished(c)' = Unfinished(c)
  BY DEF Done, Unfinished
<1>2. ASSUME NEW c \in Casts, cast[c].pc = "idle", NEW t \in Tasks, t[1] = c
      PROVE  task'[t].pc = "none"
  BY <1>2 DEF ResultsCounted
<1> QED BY <1>1, <1>2 DEF ResultsCounted

\* A step of a goroutine keeps the invariant.
LEMMA TaskStepKeeps ==
    ASSUME CastInv, NEW t \in Tasks, TaskStep(t)
    PROVE  CastInv'
<1> USE DEF CastInv
<1>0. t[3] \in URLs /\ t[1] \in Casts
  BY TaskParts
<1>1. CASE EnsureHit(t)
  <2>1. Goes(t, "publish", relays[t[3]]) /\ relays[t[3]] \in Conns \cup {NoConn} /\ task[t].pc = "ensure"
    BY <1>0, <1>1 DEF EnsureHit, CastTypes
  <2>2. /\ task' \in [Tasks -> [pc : TaskPCs, conn : Conns \cup {NoConn}]]
        /\ task'[t].pc = "publish"
        /\ \A s \in Tasks : s # t => task'[s] = task[s]
    BY <2>1, GoesMoves, ZenonT(60) DEF TaskPCs
  <2>3. UNCHANGED <<relays, locked, context, cast, closing>> /\ Alive' = Alive
    BY <1>1 DEF EnsureHit, Alive
  <2>4. ResultsCounted'
    BY <2>1, <2>2, <2>3, CountsStay
  <2>5. CastTypes'
    BY <2>2, <2>3 DEF CastTypes
  <2>6. DialsAlone'
    BY <2>1, <2>2, <2>3 DEF DialsAlone
  <2>7. NothingLost'
    BY <2>1, <2>2, <2>3 DEF NothingLost
  <2> QED BY <2>4, <2>5, <2>6, <2>7
<1>2. CASE Connect(t)
  <2> DEFINE c == CHOOSE x \in Unused : TRUE
  <2>0. c \in Conns /\ c \notin Alive
    BY <1>2 DEF Connect, Unused
  <2> HIDE DEF c
  <2>1. Goes(t, "auth", c) /\ Misses(t) /\ Alive' = Alive \cup {c}
    BY <1>2 DEF Connect, Alive, c
  <2>2. /\ task' \in [Tasks -> [pc : TaskPCs, conn : Conns \cup {NoConn}]]
        /\ task'[t] = [pc |-> "auth", conn |-> c]
        /\ \A s \in Tasks : s # t => task'[s] = task[s]
    BY <2>0, <2>1, GoesMoves DEF TaskPCs
  <2>3. /\ UNCHANGED <<relays, cast, closing>> /\ locked' = [locked EXCEPT ![t[3]] = TRUE]
        /\ task[t].pc = "ensure" /\ relays[t[3]] = NoConn /\ ~locked[t[3]]
    BY <1>2 DEF Connect, Misses
  <2>4. ResultsCounted'
    BY <2>2, <2>3, CountsStay
  <2>5. CastTypes'
    BY <2>0, <2>1, <2>2, <2>3 DEF CastTypes
  <2>6. DialsAlone'
    <3>1. \A s \in Tasks : task[s].pc = "auth" => s[3] # t[3]
      BY <2>3 DEF DialsAlone
    <3>2. locked'[t[3]] /\ \A u \in URLs : locked[u] => locked'[u]
      BY <1>0, <2>3 DEF CastTypes
    <3>3. \A s \in Tasks : task'[s].pc = "auth" => s = t \/ task[s].pc = "auth"
      BY <2>2
    <3> QED BY <2>3, <3>1, <3>2, <3>3, TaskParts DEF DialsAlone
  <2>7. NothingLost'
    <3>1. \A s \in Tasks : task[s].pc \in {"auth", "close"} => task'[s] = task[s]
      BY <2>2, <2>3
    <3> QED BY <2>1, <2>2, <2>3, <3>1 DEF NothingLost
  <2> QED BY <2>4, <2>5, <2>6, <2>7
<1>3. CASE ConnectFails(t)
  <2>1. Goes(t, "report", NoConn) /\ task[t].pc = "ensure"
    BY <1>3 DEF ConnectFails, Misses
  <2>2. /\ task' \in [Tasks -> [pc : TaskPCs, conn : Conns \cup {NoConn}]]
        /\ task'[t].pc = "report"
        /\ \A s \in Tasks : s # t => task'[s] = task[s]
    BY <2>1, GoesMoves DEF TaskPCs
  <2>3. UNCHANGED <<relays, locked, context, cast, closing>> /\ Alive' = Alive
    BY <1>3 DEF ConnectFails, Alive
  <2>4. ResultsCounted'
    BY <2>1, <2>2, <2>3, CountsStay
  <2>5. CastTypes'
    BY <2>2, <2>3 DEF CastTypes
  <2>6. DialsAlone'
    BY <2>1, <2>2, <2>3 DEF DialsAlone
  <2>7. NothingLost'
    BY <2>1, <2>2, <2>3 DEF NothingLost
  <2> QED BY <2>4, <2>5, <2>6, <2>7
<1>4. CASE Authenticated(t)
  <2>0. task[t].conn \in Conns \cup {NoConn}
    BY DEF CastTypes
  <2>1. Goes(t, "publish", task[t].conn) /\ task[t].pc = "auth"
    BY <1>4 DEF Authenticated
  <2>2. /\ task' \in [Tasks -> [pc : TaskPCs, conn : Conns \cup {NoConn}]]
        /\ task'[t].pc = "publish"
        /\ \A s \in Tasks : s # t => task'[s] = task[s]
    BY <2>0, <2>1, GoesMoves DEF TaskPCs
  <2>3. /\ UNCHANGED <<context, cast, closing>> /\ Alive' = Alive
        /\ relays' = [relays EXCEPT ![t[3]] = task[t].conn]
        /\ locked' = [locked EXCEPT ![t[3]] = FALSE]
    BY <1>4 DEF Authenticated, Alive
  <2>4. ResultsCounted'
    BY <2>1, <2>2, <2>3, CountsStay
  <2>5. CastTypes'
    BY <1>0, <2>0, <2>2, <2>3 DEF CastTypes
  <2>8. \A s \in Tasks : task'[s].pc = "auth" => task[s].pc = "auth" /\ s # t /\ s[3] # t[3]
    BY <2>1, <2>2 DEF DialsAlone
  <2>6. DialsAlone'
    <3>1. \A u \in URLs : u # t[3] => locked'[u] = locked[u] /\ relays'[u] = relays[u]
      BY <1>0, <2>3 DEF CastTypes
    <3> QED BY <2>8, <3>1, TaskParts DEF DialsAlone
  <2>7. NothingLost'
    <3>1. relays[t[3]] = NoConn
      BY <2>1 DEF DialsAlone
    <3>2. ASSUME NEW u \in URLs, relays[u] \in Conns
          PROVE  relays'[u] = relays[u]
      BY <1>0, <2>3, <3>1, <3>2, BroadcastAssumption DEF CastTypes
    <3>3. relays'[t[3]] = task[t].conn
      BY <1>0, <2>3 DEF CastTypes
    <3>4. \A s \in Tasks : s # t => task'[s] = task[s]
      BY <2>2
    <3> QED BY <1>0, <2>3, <3>2, <3>3, <3>4 DEF NothingLost, CastTypes
  <2> QED BY <2>4, <2>5, <2>6, <2>7
<1>5. CASE AuthFails(t)
  <2>1. Goes(t, "report", NoConn) /\ task[t].pc = "auth"
    BY <1>5 DEF AuthFails
  <2>2. /\ task' \in [Tasks -> [pc : TaskPCs, conn : Conns \cup {NoConn}]]
        /\ task'[t].pc = "report"
        /\ \A s \in Tasks : s # t => task'[s] = task[s]
    BY <2>1, GoesMoves DEF TaskPCs
  <2>3. /\ UNCHANGED <<relays, cast, closing>> /\ Alive' = Alive \ {task[t].conn}
        /\ locked' = [locked EXCEPT ![t[3]] = FALSE]
    BY <1>5, WithoutCloses DEF AuthFails
  <2>4. ResultsCounted'
    BY <2>1, <2>2, <2>3, CountsStay
  <2>5. CastTypes'
    BY <2>2, <2>3 DEF CastTypes
  <2>6. DialsAlone'
    <3>1. \A s \in Tasks : task'[s].pc = "auth" => task[s].pc = "auth" /\ s # t /\ s[3] # t[3]
      BY <2>1, <2>2 DEF DialsAlone
    <3>2. \A u \in URLs : u # t[3] => locked'[u] = locked[u]
      BY <1>0, <2>3 DEF CastTypes
    <3> QED BY <2>3, <3>1, <3>2, TaskParts DEF DialsAlone
  <2>7. NothingLost'
    BY <2>2, <2>3 DEF NothingLost
  <2> QED BY <2>4, <2>5, <2>6, <2>7
<1>6. CASE Publish(t)
  <2>1. (Goes(t, "report", NoConn) \/ Goes(t, "evict", NoConn)) /\ task[t].pc = "publish"
    BY <1>6 DEF Publish
  <2>2. /\ task' \in [Tasks -> [pc : TaskPCs, conn : Conns \cup {NoConn}]]
        /\ task'[t].pc \in {"report", "evict"}
        /\ \A s \in Tasks : s # t => task'[s] = task[s]
    BY <2>1, GoesMoves DEF TaskPCs
  <2>3. UNCHANGED <<relays, locked, context, cast, closing>> /\ Alive' = Alive
    BY <1>6 DEF Publish, Alive
  <2>4. ResultsCounted'
    BY <2>1, <2>2, <2>3, CountsStay
  <2>5. CastTypes'
    BY <2>2, <2>3 DEF CastTypes
  <2>6. DialsAlone'
    BY <2>1, <2>2, <2>3 DEF DialsAlone
  <2>7. NothingLost'
    BY <2>1, <2>2, <2>3 DEF NothingLost
  <2> QED BY <2>4, <2>5, <2>6, <2>7
<1>7. CASE Evict(t)
  <2>0. relays[t[3]] \in Conns \cup {NoConn}
    BY <1>0 DEF CastTypes
  <2>1. Goes(t, "close", relays[t[3]]) /\ task[t].pc = "evict" /\ ~locked[t[3]]
    BY <1>7 DEF Evict
  <2>2. /\ task' \in [Tasks -> [pc : TaskPCs, conn : Conns \cup {NoConn}]]
        /\ task'[t] = [pc |-> "close", conn |-> relays[t[3]]]
        /\ \A s \in Tasks : s # t => task'[s] = task[s]
    BY <2>0, <2>1, GoesMoves DEF TaskPCs
  <2>3. /\ UNCHANGED <<locked, context, cast, closing>> /\ Alive' = Alive
        /\ relays' = [relays EXCEPT ![t[3]] = NoConn]
    BY <1>7 DEF Evict, Alive
  <2>4. ResultsCounted'
    BY <2>1, <2>2, <2>3, CountsStay
  <2>5. CastTypes'
    BY <2>2, <2>3 DEF CastTypes
  <2>6. DialsAlone'
    <3>1. \A s \in Tasks : task'[s].pc = "auth" => task[s].pc = "auth"
      BY <2>2
    <3>2. \A u \in URLs : relays[u] = NoConn => relays'[u] = NoConn
      BY <2>3 DEF CastTypes
    <3> QED BY <2>3, <3>1, <3>2, TaskParts DEF DialsAlone
  <2>7. NothingLost'
    <3>1. \A u \in URLs : u # t[3] => relays'[u] = relays[u]
      BY <1>0, <2>3 DEF CastTypes
    <3>2. task'[t].pc = "close" /\ task'[t].conn = relays[t[3]]
      BY <2>2
    <3>3. \A s \in Tasks : task[s].pc \in {"auth", "close"} => task'[s] = task[s]
      BY <2>1, <2>2
    <3> QED BY <2>3, <3>1, <3>2, <3>3 DEF NothingLost
  <2> QED BY <2>4, <2>5, <2>6, <2>7
<1>8. CASE Close(t)
  <2>1. Goes(t, "report", NoConn) /\ task[t].pc = "close"
    BY <1>8 DEF Close, CloseEvicted
  <2>2. /\ task' \in [Tasks -> [pc : TaskPCs, conn : Conns \cup {NoConn}]]
        /\ task'[t].pc = "report"
        /\ \A s \in Tasks : s # t => task'[s] = task[s]
    BY <2>1, GoesMoves DEF TaskPCs
  <2>3. UNCHANGED <<relays, locked, cast, closing>> /\ Alive' = Alive \ {task[t].conn}
    BY <1>8, WithoutCloses DEF Close, CloseEvicted
  <2>4. ResultsCounted'
    BY <2>1, <2>2, <2>3, CountsStay
  <2>5. CastTypes'
    BY <2>2, <2>3 DEF CastTypes
  <2>6. DialsAlone'
    BY <2>2, <2>3 DEF DialsAlone
  <2>7. NothingLost'
    BY <2>2, <2>3 DEF NothingLost
  <2> QED BY <2>4, <2>5, <2>6, <2>7
<1>9. CASE Report(t)
  <2>1. Goes(t, "done", NoConn) /\ task[t].pc = "report"
    BY <1>9 DEF Report
  <2>2. /\ task' \in [Tasks -> [pc : TaskPCs, conn : Conns \cup {NoConn}]]
        /\ task'[t].pc = "done"
        /\ \A s \in Tasks : s # t => task'[s] = task[s]
    BY <2>1, GoesMoves DEF TaskPCs
  <2>3. /\ UNCHANGED <<relays, locked, context, closing>> /\ Alive' = Alive
        /\ cast' = [cast EXCEPT ![t[1]].queued = @ + 1]
    BY <1>9 DEF Report, Alive
  <2>4. ResultsCounted'
    <3>1. \A c \in Casts : c # t[1] => cast'[c] = cast[c] /\ Done(c)' = Done(c) /\ Unfinished(c)' = Unfinished(c)
      BY <2>2, <2>3, ZenonT(60) DEF Done, Unfinished, CastTypes
    <3>2. cast'[t[1]].got = cast[t[1]].got /\ cast'[t[1]].queued = cast[t[1]].queued + 1 /\ cast'[t[1]].pc = cast[t[1]].pc
      BY <1>0, <2>3 DEF CastTypes
    <3>3. Done(t[1])' = Done(t[1]) \cup {t} /\ t \notin Done(t[1])
      BY <2>1, <2>2 DEF Done
    <3>4. IsFiniteSet(Done(t[1])') /\ Cardinality(Done(t[1])') = Cardinality(Done(t[1])) + 1
      BY <1>0, <3>3, FS_AddElement DEF ResultsCounted
    <3>5. cast'[t[1]].got + cast'[t[1]].queued = Cardinality(Done(t[1])')
      BY <1>0, <3>2, <3>4 DEF ResultsCounted, CastTypes
    <3>6. cast[t[1]].pc = "running"
      BY <1>0, <2>1 DEF ResultsCounted, CastTypes, Unfinished
    <3>7. ASSUME NEW c \in Casts, cast'[c].pc = "idle", NEW s \in Tasks, s[1] = c
          PROVE  task'[s].pc = "none"
      BY <2>2, <3>1, <3>2, <3>6, <3>7 DEF ResultsCounted
    <3>8. ASSUME NEW c \in Casts
          PROVE  /\ IsFiniteSet(Done(c)')
                 /\ cast'[c].got + cast'[c].queued = Cardinality(Done(c)')
                 /\ cast'[c].pc = "ended" => Unfinished(c)' = {} /\ cast'[c].queued = 0
      BY <3>1, <3>2, <3>4, <3>5, <3>6 DEF ResultsCounted
    <3> QED BY <3>7, <3>8 DEF ResultsCounted
  <2>5. CastTypes'
    <3>1. cast[t[1]].queued + 1 \in Nat
      BY <1>0 DEF CastTypes
    <3>2. cast' \in [Casts -> [pc : {"idle", "running", "ended"}, room : Nat, queued : Nat, got : Nat]]
      BY <2>3, <3>1 DEF CastTypes
    <3> QED BY <2>2, <2>3, <3>2 DEF CastTypes
  <2>6. DialsAlone'
    BY <2>2, <2>3 DEF DialsAlone
  <2>7. NothingLost'
    BY <2>1, <2>2, <2>3 DEF NothingLost
  <2> QED BY <2>4, <2>5, <2>6, <2>7
<1> QED BY <1>1, <1>2, <1>3, <1>4, <1>5, <1>6, <1>7, <1>8, <1>9 DEF TaskStep

\* The result of a call that starts goroutines (Broadcast, or the worker of
\* the push manager) keeps the invariant: none of them was running before.
LEMMA StartKeeps ==
    ASSUME CastInv, NEW c \in Casts, cast[c].pc = "idle",
           NEW S \in SUBSET {t \in Tasks : t[1] = c},
           task' \in [Tasks -> [pc : TaskPCs, conn : Conns \cup {NoConn}]],
           \A t \in S : task'[t].pc = "ensure",
           \A t \in Tasks \ S : task'[t] = task[t],
           NEW pc \in {"running", "ended"}, NEW room \in Nat,
           cast' = [cast EXCEPT ![c].pc = pc, ![c].room = room],
           pc = "ended" => S = {},
           UNCHANGED <<relays, locked, context, closing>>
    PROVE  CastInv'
<1> USE DEF CastInv
<1>1. \A t \in Tasks : t[1] = c => task[t].pc = "none"
  BY DEF ResultsCounted
<1>2. Alive' = Alive
  BY DEF Alive
<1>3. \A t \in Tasks : task[t].pc \in {"auth", "close"} => task'[t] = task[t]
  BY <1>1
<1>4. \A t \in Tasks : task'[t].pc \in {"auth", "close"} => task'[t] = task[t]
  OBVIOUS
<1>5. \A d \in Casts : Done(d)' = Done(d) /\ (d # c \/ S = {} => Unfinished(d)' = Unfinished(d))
  BY <1>1 DEF Done, Unfinished
<1>6. /\ cast'[c].pc = pc /\ cast'[c].got = cast[c].got /\ cast'[c].queued = cast[c].queued
      /\ \A d \in Casts : d # c => cast'[d] = cast[d]
  BY DEF CastTypes
<1>7. Done(c) = {} /\ Unfinished(c) = {}
  BY <1>1 DEF Done, Unfinished
<1>8. cast[c].queued = 0
  <2>1. cast[c].got + cast[c].queued = 0
    BY <1>7, FS_EmptySet DEF ResultsCounted
  <2> QED BY <2>1 DEF CastTypes
<1>9. ResultsCounted'
  <2>1. ASSUME NEW d \in Casts, cast'[d].pc = "idle", NEW t \in Tasks, t[1] = d
        PROVE  task'[t].pc = "none"
    <3>1. d # c /\ cast[d].pc = "idle"
      BY <2>1, <1>6
    <3>2. t \in Tasks \ S
      BY <2>1, <3>1
    <3> QED BY <2>1, <3>1, <3>2 DEF ResultsCounted
  <2>2. ASSUME NEW d \in Casts
        PROVE  /\ IsFiniteSet(Done(d)') /\ cast'[d].got + cast'[d].queued = Cardinality(Done(d)')
               /\ cast'[d].pc = "ended" => Unfinished(d)' = {} /\ cast'[d].queued = 0
    <3>1. CASE d = c
      <4>1. Cardinality({}) = 0 /\ IsFiniteSet({})
        BY FS_EmptySet
      <4>2. cast[c].got + cast[c].queued = 0
        BY <1>7, <4>1 DEF ResultsCounted
      <4>3. Done(c)' = {} /\ (pc = "ended" => Unfinished(c)' = {})
        BY <1>5, <1>7
      <4> QED BY <1>6, <1>8, <3>1, <4>1, <4>2, <4>3
    <3>2. CASE d # c
      <4>1. cast'[d] = cast[d] /\ Done(d)' = Done(d) /\ Unfinished(d)' = Unfinished(d)
        BY <1>5, <1>6, <3>2
      <4> QED BY <4>1, ZenonT(60) DEF ResultsCounted
    <3> QED BY <3>1, <3>2
  <2> QED BY <2>1, <2>2 DEF ResultsCounted
<1>10. CastTypes'
  BY <1>2, ZenonT(60) DEF CastTypes
<1>11. DialsAlone'
  BY <1>4 DEF DialsAlone
<1>12. NothingLost'
  BY <1>2, <1>3 DEF NothingLost
<1> QED BY <1>9, <1>10, <1>11, <1>12

\* Every step of the broadcaster keeps its invariant.
LEMMA CastStep ==
    ASSUME CastInv, CastNext
    PROVE  CastInv'
<1> USE DEF CastInv
<1>1. ASSUME NEW c \in Casts, NEW batch \in Batches[c], Broadcast(c, batch)
      PROVE  CastInv'
  <2> DEFINE targets == collectTargets(batch)
             S == {t \in Tasks : t[1] = c /\ t[2] \in DOMAIN targets /\ t[3] \in targets[t[2]]}
             pc == IF DOMAIN targets = {} THEN "ended" ELSE "running"
  <2>1. Room(targets) \in Nat
    <3>1. DOMAIN targets \subseteq Users
      BY DEF collectTargets
    <3> HIDE DEF targets
    <3> QED BY <3>1, FS_Subset, FS_CardinalityType, BroadcastAssumption DEF Room
  <2> HIDE DEF targets
  <2>2. /\ cast[c].pc = "idle" /\ task' = Started(c, targets)
        /\ cast' = [cast EXCEPT ![c].pc = pc, ![c].room = Room(targets)]
        /\ UNCHANGED <<relays, locked, context, closing>>
    BY <1>1 DEF Broadcast, targets
  <2>3. /\ task' \in [Tasks -> [pc : TaskPCs, conn : Conns \cup {NoConn}]]
        /\ \A t \in S : task'[t].pc = "ensure"
        /\ \A t \in Tasks \ S : task'[t] = task[t]
    BY <2>2 DEF Started, NoGoroutine, TaskPCs, CastTypes
  <2>4. pc \in {"running", "ended"} /\ (pc = "ended" => S = {}) /\ S \in SUBSET {t \in Tasks : t[1] = c}
    OBVIOUS
  <2> QED BY <2>1, <2>2, <2>3, <2>4, StartKeeps
<1>2. ASSUME NEW c \in Casts, NEW u \in Users, NEW url \in URLs, Work(c, u, url)
      PROVE  CastInv'
  <2> DEFINE t0 == <<c, u, url>>
  <2>1. t0 \in Tasks /\ t0[1] = c
    BY DEF Tasks
  <2>2. /\ cast[c].pc = "idle" /\ task' = [task EXCEPT ![t0].pc = "ensure"]
        /\ cast' = [cast EXCEPT ![c].pc = "running", ![c].room = 1]
        /\ UNCHANGED <<relays, locked, context, closing>>
    BY <1>2 DEF Work
  <2>3. /\ task' \in [Tasks -> [pc : TaskPCs, conn : Conns \cup {NoConn}]]
        /\ \A t \in {t0} : task'[t].pc = "ensure"
        /\ \A t \in Tasks \ {t0} : task'[t] = task[t]
    BY <2>1, <2>2, ZenonT(60) DEF TaskPCs, CastTypes
  <2>4. {t0} \in SUBSET {t \in Tasks : t[1] = c} /\ 1 \in Nat
    BY <2>1
  <2> HIDE DEF t0
  <2> QED BY <2>2, <2>3, <2>4, StartKeeps
<1>3. ASSUME NEW c \in Casts, Receive(c)
      PROVE  CastInv'
  <2>1. /\ cast[c].pc = "running" /\ cast[c].queued > 0
        /\ cast' = [cast EXCEPT ![c].queued = @ - 1, ![c].got = @ + 1]
        /\ UNCHANGED <<relays, locked, context, task, closing>>
    BY <1>3 DEF Receive
  <2>2. Alive' = Alive /\ \A d \in Casts : Done(d)' = Done(d) /\ Unfinished(d)' = Unfinished(d)
    BY <2>1 DEF Alive, Done, Unfinished
  <2>3. cast[c].queued - 1 \in Nat /\ cast[c].got + 1 \in Nat
    BY <2>1 DEF CastTypes
  <2>4. /\ cast'[c].pc = "running" /\ cast'[c].queued = cast[c].queued - 1 /\ cast'[c].got = cast[c].got + 1
        /\ \A d \in Casts : d # c => cast'[d] = cast[d]
    BY <2>1 DEF CastTypes
  <2>5. cast'[c].got + cast'[c].queued = cast[c].got + cast[c].queued
    BY <2>4 DEF CastTypes
  <2>6. ResultsCounted'
    BY <2>1, <2>2, <2>4, <2>5, ZenonT(60) DEF ResultsCounted
  <2>7. CastTypes'
    BY <2>1, <2>2, <2>3 DEF CastTypes
  <2>8. DialsAlone' /\ NothingLost'
    BY <2>1, <2>2 DEF DialsAlone, NothingLost
  <2> QED BY <2>6, <2>7, <2>8
<1>4. ASSUME NEW c \in Casts, Return(c)
      PROVE  CastInv'
  <2>1. /\ cast[c].pc = "running" /\ Unfinished(c) = {} /\ cast[c].queued = 0
        /\ cast' = [cast EXCEPT ![c].pc = "ended"]
        /\ UNCHANGED <<relays, locked, task, closing>>
    BY <1>4 DEF Return
  <2>2. Alive' \subseteq Alive /\ \A d \in Casts : Done(d)' = Done(d) /\ Unfinished(d)' = Unfinished(d)
    BY <1>4, <2>1, WithoutCloses DEF Return, Done, Unfinished
  <2>3. /\ cast'[c].pc = "ended" /\ cast'[c].queued = cast[c].queued /\ cast'[c].got = cast[c].got
        /\ \A d \in Casts : d # c => cast'[d] = cast[d]
    BY <2>1 DEF CastTypes
  <2>4. ResultsCounted'
    BY <2>1, <2>2, <2>3 DEF ResultsCounted
  <2>5. CastTypes'
    BY <2>1, <2>2 DEF CastTypes
  <2>6. DialsAlone' /\ NothingLost'
    BY <2>1, <2>2 DEF DialsAlone, NothingLost
  <2> QED BY <2>4, <2>5, <2>6
<1>5. ASSUME NEW x, PeerCloses(x)
      PROVE  CastInv'
  <2>1. Alive' \subseteq Alive /\ UNCHANGED <<relays, locked, task, cast, closing>>
    BY <1>5, WithoutCloses DEF PeerCloses
  <2>2. ResultsCounted'
    BY <2>1, CountsStay
  <2> QED BY <2>1, <2>2 DEF CastTypes, DialsAlone, NothingLost
<1>6. CASE CloseRange
  <2>1. Alive' \subseteq Alive /\ UNCHANGED <<relays, locked, task, cast>> /\ closing' = "range"
    BY <1>6, WithoutCloses DEF CloseRange
  <2>2. ResultsCounted'
    BY <2>1, CountsStay
  <2> QED BY <2>1, <2>2 DEF CastTypes, DialsAlone, NothingLost
<1>7. CASE CloseClear
  <2>1. /\ Alive' = Alive /\ UNCHANGED <<locked, task, cast>> /\ closing' = "done"
        /\ relays' = [u \in URLs |-> NoConn]
    BY <1>7 DEF CloseClear, Alive
  <2>2. ResultsCounted'
    BY <2>1, CountsStay
  <2>3. DialsAlone'
    BY <2>1, TaskParts DEF DialsAlone
  <2> QED BY <2>1, <2>2, <2>3 DEF CastTypes, NothingLost
<1> QED BY <1>1, <1>2, <1>3, <1>4, <1>5, <1>6, <1>7, TaskStepKeeps DEF CastNext

\* The broadcaster of the server and that of the push manager lose no
\* connection and no result, for any users, relays and calls: until the
\* shutdown an open connection is in the map or about to be put there or
\* closed, and a call that returned has read the result of each of its
\* goroutines (ensureRelay, BroadcastTo, Broadcast).
THEOREM BroadcastIsSound == Spec => []BroadcastSound
<1>1. Init => CastInv
  BY CastStart DEF Init
<1>2. CastInv /\ [Next]_vars => CastInv'
  <2> SUFFICES ASSUME CastInv, [Next]_vars
               PROVE  CastInv'
    OBVIOUS
  <2>1. CASE UNCHANGED castVars
    <3>1. ResultsCounted'
      BY <2>1, CountsStay DEF CastInv, castVars
    <3> QED BY <2>1, <3>1 DEF CastInv, castVars, CastTypes, DialsAlone, NothingLost, Alive
  <2>2. CASE CastNext
    BY <2>2, CastStep
  <2> QED BY <2>1, <2>2 DEF Next, vars
<1>3. CastInv => BroadcastSound
  <2> SUFFICES ASSUME CastInv, NEW c \in Casts, cast[c].pc = "ended"
               PROVE  cast[c].got = Cardinality({t \in Tasks : t[1] = c /\ task[t].pc = "done"})
    BY DEF CastInv, NothingLost, BroadcastSound
  <2>1. cast[c].got + cast[c].queued = Cardinality(Done(c)) /\ cast[c].queued = 0
    BY DEF CastInv, ResultsCounted
  <2> QED BY <2>1 DEF CastInv, CastTypes, Done
<1> QED BY <1>1, <1>2, <1>3, PTL DEF Spec

-----------------------------------------------------------------------------
(* The failover is sound.                                                  *)

CallPCs == {"idle", "query", "run", "load", "lock", "close", "retry"}
WatchPCs == {"off", "ping", "wait", "assign", "load", "lock"}
Calls == [pc : CallPCs, p : PoolIds \cup {0}, seen : PoolIds \cup {0}]
Watches == [pc : WatchPCs, idx : Masters, pings : Nat, live : BOOLEAN,
            conn : PoolIds \cup {0}, seen : PoolIds \cup {0}]
Drains == [p : PoolIds, by : Agents, live : BOOLEAN]

ConnTypes ==
    /\ pool \in [PoolIds -> [idx : Masters, open : BOOLEAN]]
    /\ active \in PoolIds /\ current \in Masters /\ preferred \in Masters
    /\ handle \in Watchers \cup {Free} /\ lock \in PoolIds \cup {Free}
    /\ call \in [Callers -> Calls]
    /\ watch \in [Agents -> Watches]
    /\ drain \subseteq Drains

\* A watcher, or the detection, that is about to switch brings a pool along.
Brings(w) == watch[w].pc \in {"assign", "load", "lock"}

\* That pool is open, belongs to the master of the watch, and nobody else
\* refers to it: not the connector, not a call, not a pool that waits to be
\* closed, not another watcher.
PoolBrought(w) ==
    /\ watch[w].conn \in PoolIds /\ watch[w].conn # active
    /\ pool[watch[w].conn].open /\ pool[watch[w].conn].idx = watch[w].idx
    /\ \A d \in drain : d.p # watch[w].conn
    /\ \A c \in Callers : call[c].p # watch[w].conn
    /\ \A v \in Agents : v # w /\ Brings(v) => watch[v].conn # watch[w].conn

\* A call whose pool is still the active one has read it as such before the
\* lock, and one that is past the switch has another pool.
CallMovesOn(c) ==
    /\ call[c].pc = "lock" /\ call[c].p = active => call[c].seen = active
    /\ NMasters > 1 /\ call[c].pc \in {"close", "retry"} => call[c].p # active

FailoverInv ==
    /\ ConnTypes
    /\ pool[active].open /\ pool[active].idx = current
    /\ \A w \in Agents : Brings(w) => PoolBrought(w)
    /\ \A d \in drain : d.p # active
    /\ \A c \in Callers : CallMovesOn(c)

\* Who holds a pool name (Connector!InUse).
LEMMA Holders ==
    /\ active \in InUse
    /\ \A d \in drain : d.p \in InUse
    /\ \A c \in Callers : call[c].p \in InUse
    /\ \A w \in Agents : watch[w].conn \in InUse
<1> DEFINE Ofcalls == {{call[c].p, call[c].seen} : c \in Callers}
           Ofwatches == {{watch[w].conn, watch[w].seen} : w \in Agents}
<1>1. ASSUME NEW c \in Callers PROVE call[c].p \in UNION Ofcalls
  <2>1. {call[c].p, call[c].seen} \in Ofcalls
    OBVIOUS
  <2> QED BY <2>1
<1>2. ASSUME NEW w \in Agents PROVE watch[w].conn \in UNION Ofwatches
  <2>1. {watch[w].conn, watch[w].seen} \in Ofwatches
    OBVIOUS
  <2> QED BY <2>1
<1> DEFINE Oc == UNION Ofcalls
           Ow == UNION Ofwatches
           Od == {d.p : d \in drain}
<1>3. InUse = {active} \cup Od \cup Oc \cup Ow
  BY DEF InUse
<1>4. ASSUME NEW d \in drain PROVE d.p \in Od
  OBVIOUS
<1>5. (\A c \in Callers : call[c].p \in Oc) /\ (\A w \in Agents : watch[w].conn \in Ow)
  BY <1>1, <1>2
<1> HIDE DEF Oc, Ow, Od
<1> QED BY <1>3, <1>4, <1>5

\* A fresh pool name is in nobody's hands (Connector!Fresh).
LEMMA FreshUnused ==
    ASSUME Unnamed # {}
    PROVE  /\ Fresh \in PoolIds /\ Fresh \notin InUse
           /\ Fresh # active
           /\ \A d \in drain : Fresh # d.p
           /\ \A c \in Callers : Fresh # call[c].p
           /\ \A w \in Agents : Fresh # watch[w].conn
<1>1. Fresh \in Unnamed
  BY DEF Fresh
<1>2. Fresh \in PoolIds /\ Fresh \notin InUse
  BY <1>1 DEF Unnamed
<1> HIDE DEF Fresh, InUse
<1> QED BY <1>2, Holders

\* A new pool is open and of its master, and the pools in use stay as they
\* are (poolConnect).
LEMMA PoolConnected ==
    ASSUME ConnTypes, Unnamed # {}, NEW m \in Masters
    PROVE  /\ PoolConnect(m) \in [PoolIds -> [idx : Masters, open : BOOLEAN]]
           /\ PoolConnect(m)[Fresh] = [idx |-> m, open |-> TRUE]
           /\ \A p \in InUse \cap PoolIds : PoolConnect(m)[p] = pool[p]
<1>1. Fresh \in PoolIds /\ Fresh \notin InUse
  BY FreshUnused
<1>2. NoPool \in [idx : Masters, open : BOOLEAN]
  BY NMastersAssumption DEF NoPool, Masters
<1> HIDE DEF Fresh
<1> QED BY <1>1, <1>2 DEF PoolConnect, ConnTypes

\* Cancelling a watch changes no place and no pool (CancelPreferredMasterSwitch).
LEMMA CancelKeeps ==
    ASSUME NEW ws \in [Agents -> Watches], NEW ds \in SUBSET Drains
    PROVE  /\ CancelWatch(ws) \in [Agents -> Watches]
           /\ \A w \in Agents : /\ CancelWatch(ws)[w].pc = ws[w].pc
                                /\ CancelWatch(ws)[w].conn = ws[w].conn
                                /\ CancelWatch(ws)[w].idx = ws[w].idx
           /\ CancelDrain(ds) \in SUBSET Drains
           /\ \A d \in CancelDrain(ds) : \E e \in ds : d.p = e.p
<1>1. ASSUME NEW w \in Agents
      PROVE  /\ [ws[w] EXCEPT !.live = @ /\ w # handle] \in Watches
             /\ [ws[w] EXCEPT !.live = @ /\ w # handle].pc = ws[w].pc
             /\ [ws[w] EXCEPT !.live = @ /\ w # handle].conn = ws[w].conn
             /\ [ws[w] EXCEPT !.live = @ /\ w # handle].idx = ws[w].idx
  BY DEF Watches
<1>2. ASSUME NEW d \in ds
      PROVE  /\ [d EXCEPT !.live = @ /\ d.by # handle] \in Drains
             /\ [d EXCEPT !.live = @ /\ d.by # handle].p = d.p
  BY DEF Drains
<1> QED BY <1>1, <1>2, ZenonT(60) DEF CancelWatch, CancelDrain

\* A switch starts no watch that brings a pool, and keeps the others as they
\* were (switchMaster).
LEMMA StartKeepsPlaces ==
    ASSUME ConnTypes, NEW ws \in [Agents -> Watches], NEW ds \in SUBSET Drains, StartWatch(ws, ds)
    PROVE  /\ watch' \in [Agents -> Watches] /\ drain' \subseteq Drains
           /\ handle' \in Watchers \cup {Free}
           /\ \A w \in Agents : watch'[w].pc \in {"assign", "load", "lock"} =>
                 watch'[w].pc = ws[w].pc /\ watch'[w].conn = ws[w].conn /\ watch'[w].idx = ws[w].idx
           /\ \A d \in drain' : \E e \in ds : d.p = e.p
<1>1. CASE current = preferred
  <2> DEFINE w0 == CHOOSE x \in Watchers : SlotFree(x)
             r == [Off EXCEPT !.pc = "ping", !.idx = current, !.live = TRUE]
  <2>1. w0 \in Watchers /\ w0 \in Agents
    BY <1>1 DEF StartWatch, Agents
  <2>2. r \in Watches /\ r.pc = "ping"
    BY DEF Off, Watches, WatchPCs, ConnTypes
  <2>3. watch' = [CancelWatch(ws) EXCEPT ![w0] = r] /\ drain' = CancelDrain(ds) /\ handle' = w0
    BY <1>1 DEF StartWatch
  <2> HIDE DEF w0, r
  <2>4. watch' \in [Agents -> Watches] /\ \A w \in Agents : w # w0 => watch'[w] = CancelWatch(ws)[w]
    BY <2>2, <2>3, CancelKeeps
  <2>5. watch'[w0].pc = "ping"
    BY <2>1, <2>2, <2>3, CancelKeeps
  <2> QED BY <2>1, <2>3, <2>4, <2>5, CancelKeeps
<1>2. CASE current # preferred
  BY <1>2 DEF StartWatch, ConnTypes
<1> QED BY <1>1, <1>2

LEMMA FailoverStart == ServersInit /\ ConnInit => FailoverInv
<1> SUFFICES ASSUME ServersInit, NEW m \in up,
                    pool = [p \in PoolIds |-> IF p = 1 THEN [idx |-> m, open |-> TRUE] ELSE NoPool],
                    active = 1, current = m, preferred = m, handle = Free, lock = Free, drain = {},
                    watch = [w \in Agents |-> IF w = Detector /\ up # Masters
                                              THEN [Off EXCEPT !.pc = "wait", !.live = TRUE] ELSE Off],
                    call = [c \in Callers |-> Idle]
             PROVE  FailoverInv
  BY DEF ConnInit
<1>1. m \in Masters /\ 0 \in Masters
  BY NMastersAssumption DEF ServersInit, Masters
<1>2. Off \in Watches /\ [Off EXCEPT !.pc = "wait", !.live = TRUE] \in Watches
  BY <1>1 DEF Off, Watches, WatchPCs
<1>3. watch \in [Agents -> Watches] /\ \A w \in Agents : ~Brings(w)
  BY <1>2 DEF Brings, Off
<1>4. pool \in [PoolIds -> [idx : Masters, open : BOOLEAN]]
  BY <1>1 DEF NoPool
<1>5. call \in [Callers -> Calls] /\ \A c \in Callers : call[c].pc = "idle"
  BY DEF Idle, Calls, CallPCs
<1>6. ConnTypes
  BY <1>1, <1>3, <1>4, <1>5, ConnectorAssumption DEF ConnTypes
<1>7. pool[active].open /\ pool[active].idx = current
  BY ConnectorAssumption
<1>8. \A c \in Callers : CallMovesOn(c)
  BY <1>5 DEF CallMovesOn
<1> QED BY <1>3, <1>6, <1>7, <1>8 DEF FailoverInv

\* A step of one call that leaves the pools, the active one and the watchers
\* alone keeps the invariant if the call does.
LEMMA CallKeeps ==
    ASSUME FailoverInv, NEW c \in Callers, NEW r \in Calls, Move(c, r),
           UNCHANGED <<pool, active, current, preferred, handle, watch, drain>>,
           lock' \in PoolIds \cup {Free},
           r.p = call[c].p \/ r.p = active \/ r.p = 0,
           r.pc = "lock" /\ r.p = active => r.seen = active,
           NMasters > 1 /\ r.pc \in {"close", "retry"} => r.p # active
    PROVE  FailoverInv'
<1>1. /\ call' \in [Callers -> Calls] /\ call'[c] = r
      /\ \A d \in Callers : d # c => call'[d] = call[d]
  BY DEF Move, FailoverInv, ConnTypes
<1>2. ConnTypes'
  BY <1>1 DEF FailoverInv, ConnTypes
<1>3. ASSUME NEW w \in Agents, Brings(w)'
      PROVE  PoolBrought(w)'
  <2>1. PoolBrought(w)
    BY <1>3 DEF FailoverInv, Brings
  <2>2. watch[w].conn # 0
    BY <2>1, ConnectorAssumption DEF PoolBrought
  <2>3. \A d \in Callers : call'[d].p # watch[w].conn
    BY <1>1, <2>1, <2>2 DEF PoolBrought
  <2> QED BY <2>1, <2>3 DEF PoolBrought, Brings
<1>4. \A d \in Callers : CallMovesOn(d)'
  BY <1>1 DEF FailoverInv, CallMovesOn
<1> QED BY <1>2, <1>3, <1>4 DEF FailoverInv

\* A step of a call keeps the invariant: the switch closes the pool that was
\* active only after another one took its place.
LEMMA CallStepKeeps ==
    ASSUME FailoverInv, NEW c \in Callers, Begin(c) \/ CallStep(c)
    PROVE  FailoverInv'
<1> USE DEF FailoverInv
<1>0. call[c] \in Calls /\ Idle \in Calls /\ active \in PoolIds /\ active # 0
  BY ConnectorAssumption DEF ConnTypes, Idle, Calls, CallPCs
<1>1. CASE Attempt(c)
  <2> DEFINE r == [Idle EXCEPT !.pc = "query", !.p = active]
  <2>1. r \in Calls /\ r.p = active /\ r.pc = "query"
    BY <1>0 DEF Idle, Calls, CallPCs
  <2>2. Move(c, r) /\ UNCHANGED <<pool, active, current, preferred, handle, watch, drain, lock>>
    BY <1>1 DEF Attempt
  <2> HIDE DEF r
  <2> QED BY <2>1, <2>2, CallKeeps DEF ConnTypes
<1>2. CASE Acquire(c) \/ Execute(c) \/ GiveUp(c)
  <2>1. PICK r \in {Idle, [call[c] EXCEPT !.pc = "run"], [call[c] EXCEPT !.pc = "load"]} :
           /\ Move(c, r)
           /\ UNCHANGED <<pool, active, current, preferred, handle, watch, drain, lock>>
    BY <1>2 DEF Acquire, Execute, GiveUp
  <2>2. r \in Calls /\ r.p \in {0, call[c].p} /\ r.pc \notin {"lock", "close", "retry"}
    BY <1>0 DEF Idle, Calls, CallPCs
  <2> QED BY <2>1, <2>2, CallKeeps DEF ConnTypes
<1>3. CASE LoadActive(c)
  <2> DEFINE r == [call[c] EXCEPT !.pc = "lock", !.seen = active]
  <2>1. r \in Calls /\ r.p = call[c].p /\ r.pc = "lock" /\ r.seen = active
    BY <1>0 DEF Calls, CallPCs
  <2>2. Move(c, r) /\ UNCHANGED <<pool, active, current, preferred, handle, watch, drain, lock>>
    BY <1>3 DEF LoadActive
  <2> HIDE DEF r
  <2> QED BY <2>1, <2>2, CallKeeps DEF ConnTypes
<1>4. CASE ClosedPool(c)
  <2> DEFINE r == [call[c] EXCEPT !.pc = "retry"]
  <2>1. r \in Calls /\ r.p = call[c].p /\ r.pc = "retry"
    BY <1>0 DEF Calls, CallPCs
  <2>2. /\ call[c].pc = "close" /\ lock' = Free
        /\ Move(c, r) /\ UNCHANGED <<pool, active, current, preferred, handle, watch, drain>>
    BY <1>4 DEF ClosedPool
  <2>3. NMasters > 1 => r.p # active
    BY <2>1, <2>2 DEF CallMovesOn
  <2> HIDE DEF r
  <2> QED BY <2>1, <2>2, <2>3, CallKeeps
<1>5. CASE SwitchMaster(c) /\ (AlreadySwitched(call[c].seen) \/ CalculateConnectOrder(current) = << >>)
  <2> DEFINE r == [call[c] EXCEPT !.pc = "retry", !.seen = 0]
  <2>1. r \in Calls /\ r.p = call[c].p /\ r.pc = "retry"
    BY <1>0 DEF Calls, CallPCs
  <2>2. /\ call[c].pc = "lock"
        /\ Move(c, r) /\ UNCHANGED <<pool, active, current, preferred, handle, watch, drain, lock>>
    BY <1>5 DEF SwitchMaster
  <2>3. NMasters > 1 => r.p # active
    <3>1. CASE AlreadySwitched(call[c].seen)
      BY <2>1, <2>2, <3>1 DEF AlreadySwitched, CallMovesOn
    <3>2. CASE CalculateConnectOrder(current) = << >>
      <4>1. NMasters > 1 => 1 \in DOMAIN CalculateConnectOrder(current)
        BY NMastersAssumption DEF CalculateConnectOrder
      <4>2. DOMAIN << >> = {}
        OBVIOUS
      <4> QED BY <3>2, <4>1, <4>2
    <3> QED BY <1>5, <3>1, <3>2
  <2> HIDE DEF r
  <2> QED BY <2>1, <2>2, <2>3, CallKeeps DEF ConnTypes
<1>6. CASE SwitchMaster(c) /\ ~(AlreadySwitched(call[c].seen) \/ CalculateConnectOrder(current) = << >>)
  <2> DEFINE next == Head(CalculateConnectOrder(current))
             r == [call[c] EXCEPT !.pc = "close", !.seen = 0]
  <2>1. /\ Unnamed # {} /\ pool' = [PoolConnect(next) EXCEPT ![active].open = FALSE]
        /\ active' = Fresh /\ current' = next /\ StartWatch(watch, drain)
        /\ lock' = active /\ Move(c, r) /\ UNCHANGED preferred
    BY <1>6 DEF SwitchMaster
  <2>2. next \in Masters
    <3>1. NMasters - 1 >= 1
      <4>1. CASE NMasters - 1 < 1
        <5>1. 1 .. NMasters - 1 = {}
          BY <4>1, NMastersAssumption
        <5>2. CalculateConnectOrder(current) = << >>
          BY <5>1 DEF CalculateConnectOrder
        <5> QED BY <1>6, <5>2
      <4> QED BY <4>1, NMastersAssumption
    <3>2. CalculateConnectOrder(current) \in Seq(Int) /\ CalculateConnectOrder(current)[1] = (current + 1) % NMasters
      BY <3>1, NMastersAssumption DEF CalculateConnectOrder, ConnTypes, Masters
    <3>3. next = (current + 1) % NMasters
      BY <3>2
    <3> QED BY <3>3, NMastersAssumption DEF Masters, ConnTypes
  <2>3. r \in Calls /\ r.p = call[c].p /\ r.pc = "close"
    BY <1>0 DEF Calls, CallPCs
  <2> HIDE DEF next, r, Fresh
  <2>4. /\ Fresh \in PoolIds /\ Fresh # active
        /\ \A d \in drain : Fresh # d.p
        /\ \A d \in Callers : Fresh # call[d].p
        /\ \A w \in Agents : Fresh # watch[w].conn
    BY <2>1, FreshUnused
  <2>5. /\ PoolConnect(next) \in [PoolIds -> [idx : Masters, open : BOOLEAN]]
        /\ PoolConnect(next)[Fresh] = [idx |-> next, open |-> TRUE]
        /\ \A p \in InUse \cap PoolIds : PoolConnect(next)[p] = pool[p]
    BY <2>1, <2>2, PoolConnected
  <2>6. /\ pool' \in [PoolIds -> [idx : Masters, open : BOOLEAN]]
        /\ pool'[Fresh] = [idx |-> next, open |-> TRUE]
        /\ \A p \in InUse \cap PoolIds : p # active => pool'[p] = pool[p]
    BY <1>0, <2>1, <2>4, <2>5
  <2>7. /\ call' \in [Callers -> Calls] /\ call'[c] = r
        /\ \A d \in Callers : d # c => call'[d] = call[d]
    BY <2>1, <2>3 DEF Move, ConnTypes
  <2>8. /\ watch' \in [Agents -> Watches] /\ drain' \subseteq Drains
        /\ handle' \in Watchers \cup {Free}
        /\ \A w \in Agents : watch'[w].pc \in {"assign", "load", "lock"} =>
              watch'[w].pc = watch[w].pc /\ watch'[w].conn = watch[w].conn /\ watch'[w].idx = watch[w].idx
        /\ \A d \in drain' : \E e \in drain : d.p = e.p
    BY <2>1, StartKeepsPlaces DEF ConnTypes
  <2>9. ConnTypes'
    BY <1>0, <2>1, <2>2, <2>4, <2>6, <2>7, <2>8 DEF ConnTypes
  <2>10. ASSUME NEW w \in Agents, Brings(w)'
         PROVE  PoolBrought(w)'
    <3>1. Brings(w) /\ watch'[w].conn = watch[w].conn /\ watch'[w].idx = watch[w].idx
      BY <2>8, <2>10 DEF Brings
    <3>2. PoolBrought(w)
      BY <3>1
    <3>3. pool'[watch[w].conn] = pool[watch[w].conn]
      BY <2>6, <3>2, Holders DEF PoolBrought
    <3>4. \A d \in Callers : call'[d].p = call[d].p
      BY <2>3, <2>7
    <3>5. \A v \in Agents : Brings(v)' => Brings(v) /\ watch'[v].conn = watch[v].conn
      BY <2>8 DEF Brings
    <3>6. \A d \in drain' : d.p # watch[w].conn
      BY <2>8, <3>2 DEF PoolBrought
    <3> QED BY <2>1, <2>4, <3>1, <3>2, <3>3, <3>4, <3>5, <3>6 DEF PoolBrought
  <2>11. \A d \in Callers : CallMovesOn(d)'
    BY <2>1, <2>3, <2>4, <2>7 DEF CallMovesOn
  <2>12. \A d \in drain' : d.p # active'
    BY <2>1, <2>4, <2>8
  <2>13. pool'[active'].open /\ pool'[active'].idx = current'
    BY <2>1, <2>6
  <2> QED BY <2>9, <2>10, <2>11, <2>12, <2>13
<1> QED BY <1>1, <1>2, <1>3, <1>4, <1>5, <1>6 DEF Begin, CallStep, Retry

\* A step of one watcher that leaves the pools and the active one alone keeps
\* the invariant if it brings no pool but the one it has brought.
LEMMA WatchKeeps ==
    ASSUME FailoverInv, NEW w \in Agents, NEW r \in Watches,
           watch' = [watch EXCEPT ![w] = r],
           r.pc \in {"assign", "load", "lock"} => Brings(w) /\ r.conn = watch[w].conn /\ r.idx = watch[w].idx,
           UNCHANGED <<pool, active, current, handle, drain, call, lock>>,
           preferred' \in Masters
    PROVE  FailoverInv'
<1> USE DEF FailoverInv
<1>1. /\ watch' \in [Agents -> Watches] /\ watch'[w] = r
      /\ \A v \in Agents : v # w => watch'[v] = watch[v]
  BY DEF ConnTypes
<1>2. ConnTypes'
  BY <1>1 DEF ConnTypes
<1>3. \A v \in Agents : Brings(v)' => Brings(v) /\ watch'[v].conn = watch[v].conn /\ watch'[v].idx = watch[v].idx
  BY <1>1 DEF Brings
<1>4. \A v \in Agents : Brings(v)' => PoolBrought(v)'
  BY <1>3 DEF PoolBrought
<1>5. \A c \in Callers : CallMovesOn(c)'
  BY DEF CallMovesOn
<1> QED BY <1>2, <1>4, <1>5

\* A watcher, or the detection, that makes a pool brings it (poolConnect).
LEMMA ConnectKeeps ==
    ASSUME FailoverInv, NEW w \in Agents, NEW m \in Masters, NEW r \in Watches,
           watch' = [watch EXCEPT ![w] = r], r.conn = Fresh, r.idx = m,
           Unnamed # {}, pool' = PoolConnect(m), ~Brings(w),
           UNCHANGED <<active, current, preferred, handle, drain, call, lock>>
    PROVE  FailoverInv'
<1> USE DEF FailoverInv
<1> HIDE DEF Fresh
<1>1. /\ watch' \in [Agents -> Watches] /\ watch'[w] = r
      /\ \A v \in Agents : v # w => watch'[v] = watch[v]
  BY DEF ConnTypes
<1>2. /\ Fresh \in PoolIds /\ Fresh # active
      /\ \A d \in drain : Fresh # d.p
      /\ \A d \in Callers : Fresh # call[d].p
      /\ \A v \in Agents : Fresh # watch[v].conn
  BY FreshUnused
<1>3. /\ pool' \in [PoolIds -> [idx : Masters, open : BOOLEAN]]
      /\ pool'[Fresh] = [idx |-> m, open |-> TRUE]
      /\ \A p \in InUse \cap PoolIds : pool'[p] = pool[p]
  BY PoolConnected
<1>4. ConnTypes'
  BY <1>1, <1>3 DEF ConnTypes
<1>5. pool'[active] = pool[active]
  BY <1>3, Holders DEF ConnTypes
<1>6. ASSUME NEW v \in Agents, v # w, Brings(v)'
      PROVE  PoolBrought(v)'
  <2>1. Brings(v) /\ watch'[v] = watch[v]
    BY <1>1, <1>6 DEF Brings
  <2>2. PoolBrought(v)
    BY <2>1
  <2>3. pool'[watch[v].conn] = pool[watch[v].conn]
    BY <1>3, <2>2, Holders DEF PoolBrought
  <2>4. \A u \in Agents : u # v /\ Brings(u)' => watch'[u].conn # watch[v].conn
    BY <1>1, <1>2, <2>2 DEF PoolBrought, Brings
  <2> QED BY <2>1, <2>2, <2>3, <2>4 DEF PoolBrought
<1>7. ASSUME Brings(w)'
      PROVE  PoolBrought(w)'
  <2>1. \A u \in Agents : u # w /\ Brings(u)' => watch'[u].conn # Fresh
    BY <1>1, <1>2
  <2> QED BY <1>1, <1>2, <1>3, <2>1 DEF PoolBrought
<1>8. \A c \in Callers : CallMovesOn(c)'
  BY DEF CallMovesOn
<1> QED BY <1>4, <1>5, <1>6, <1>7, <1>8

\* A step of a watcher, of the detection or of a pool that is to be closed
\* keeps the invariant: the pool that closes late is never the active one, nor
\* one that a watcher is about to make active.
LEMMA BackgroundKeeps ==
    ASSUME FailoverInv, Background
    PROVE  FailoverInv'
<1> USE DEF FailoverInv
<1>0. Off \in Watches
  BY NMastersAssumption DEF Off, Watches, WatchPCs, Masters
<1>1. ASSUME NEW w \in Agents, Probe(w)
      PROVE  FailoverInv'
  <2>0. watch[w] \in Watches /\ watch[w].pc = "ping" /\ ~Brings(w)
    BY <1>1 DEF ConnTypes, Probe, Brings
  <2>1. CASE watch' = [watch EXCEPT ![w] = Off] /\ UNCHANGED pool
    BY <1>0, <1>1, <2>1, WatchKeeps DEF Probe, Off, ConnTypes
  <2>2. ASSUME NEW n \in Nat, watch' = [watch EXCEPT ![w].pings = n], UNCHANGED pool
        PROVE  FailoverInv'
    <3>1. [watch[w] EXCEPT !.pings = n] \in Watches /\ [watch[w] EXCEPT !.pings = n].pc = "ping"
      BY <2>0 DEF Watches
    <3>2. watch' = [watch EXCEPT ![w] = [watch[w] EXCEPT !.pings = n]]
      BY <2>2 DEF ConnTypes
    <3> QED BY <1>1, <2>2, <3>1, <3>2, WatchKeeps DEF Probe, ConnTypes
  <2>3. CASE /\ Unnamed # {} /\ pool' = PoolConnect(watch[w].idx)
             /\ watch' = [watch EXCEPT ![w] = [watch[w] EXCEPT !.pc = "load", !.pings = 0, !.conn = Fresh]]
    <3> DEFINE r == [watch[w] EXCEPT !.pc = "load", !.pings = 0, !.conn = Fresh]
    <3>1. Fresh \in PoolIds
      BY <2>3, FreshUnused
    <3> HIDE DEF Fresh
    <3>2. r \in Watches /\ r.conn = Fresh /\ r.idx = watch[w].idx /\ watch[w].idx \in Masters
      BY <2>0, <3>1 DEF Watches, WatchPCs
    <3> HIDE DEF r
    <3>3. watch' = [watch EXCEPT ![w] = r]
      BY <2>3 DEF r
    <3> QED BY <1>1, <2>0, <2>3, <3>2, <3>3, ConnectKeeps DEF Probe
  <2>4. watch[w].pings + 1 \in Nat
    BY <2>0 DEF Watches
  <2> QED BY <1>1, <2>1, <2>2, <2>3, <2>4 DEF Probe
<1>2. ASSUME NEW m \in Masters, Detect(m)
      PROVE  FailoverInv'
  <2> DEFINE r == [watch[Detector] EXCEPT !.pc = "assign", !.idx = m, !.conn = Fresh]
  <2>1. Detector \in Agents /\ watch[Detector] \in Watches /\ ~Brings(Detector)
    BY <1>2 DEF Agents, ConnTypes, Brings, Detect
  <2>2. Fresh \in PoolIds /\ Unnamed # {}
    BY <1>2, FreshUnused DEF Detect
  <2> HIDE DEF Fresh
  <2>3. r \in Watches /\ r.conn = Fresh /\ r.idx = m
    BY <2>1, <2>2 DEF Watches, WatchPCs
  <2>4. watch' = [watch EXCEPT ![Detector] = r]
    BY <1>2 DEF Detect
  <2> HIDE DEF r
  <2> QED BY <1>2, <2>1, <2>2, <2>3, <2>4, ConnectKeeps DEF Detect
<1>3. CASE AssignPreferredMaster
  <2>1. Detector \in Agents /\ watch[Detector] \in Watches /\ Brings(Detector)
    BY <1>3 DEF Agents, ConnTypes, Brings, AssignPreferredMaster
  <2>2. [watch[Detector] EXCEPT !.pc = "load"] \in Watches
    BY <2>1 DEF Watches, WatchPCs
  <2>3. PICK r \in {Off, [watch[Detector] EXCEPT !.pc = "load"]} :
           /\ watch' = [watch EXCEPT ![Detector] = r]
           /\ preferred' \in {preferred, watch[Detector].idx}
           /\ UNCHANGED <<pool, active, current, handle, drain, call, lock>>
    BY <1>3 DEF AssignPreferredMaster, ConnTypes
  <2>4. /\ r \in Watches
        /\ r.pc \in {"assign", "load", "lock"} => r.conn = watch[Detector].conn /\ r.idx = watch[Detector].idx
    <3>1. CASE r = Off
      BY <1>0, <3>1 DEF Off
    <3>2. CASE r = [watch[Detector] EXCEPT !.pc = "load"]
      BY <2>1, <2>2, <3>2 DEF Watches
    <3> QED BY <2>3, <3>1, <3>2
  <2>5. preferred' \in Masters
    BY <2>1, <2>3 DEF Watches, ConnTypes
  <2> QED BY <2>1, <2>3, <2>4, <2>5, WatchKeeps
<1>4. ASSUME NEW w \in Agents, WatchLoadActive(w)
      PROVE  FailoverInv'
  <2> DEFINE r == [watch[w] EXCEPT !.pc = "lock", !.seen = active]
  <2>1. watch[w] \in Watches /\ Brings(w) /\ active \in PoolIds
    BY <1>4 DEF ConnTypes, Brings, WatchLoadActive
  <2>2. r \in Watches /\ r.conn = watch[w].conn /\ r.idx = watch[w].idx
    BY <2>1 DEF Watches, WatchPCs
  <2>3. watch' = [watch EXCEPT ![w] = r]
    BY <1>4 DEF WatchLoadActive, ConnTypes
  <2> HIDE DEF r
  <2> QED BY <1>4, <2>1, <2>2, <2>3, WatchKeeps DEF WatchLoadActive, ConnTypes
<1>5. ASSUME NEW w \in Agents, SwitchToPreferred(w)
      PROVE  FailoverInv'
  <2>0. Brings(w) /\ PoolBrought(w) /\ watch[w] \in Watches
    BY <1>5 DEF SwitchToPreferred, Brings, ConnTypes
  <2>1. CASE AlreadySwitched(watch[w].seen)
    BY <1>0, <1>5, <2>1, WatchKeeps DEF SwitchToPreferred, Off, ConnTypes
  <2>2. CASE ~AlreadySwitched(watch[w].seen)
    <3> DEFINE ws == [watch EXCEPT ![w] = Off]
               d0 == [p |-> active, by |-> w, live |-> watch[w].live]
    <3>1. /\ active' = watch[w].conn /\ current' = watch[w].idx
          /\ StartWatch(ws, drain \cup {d0})
          /\ UNCHANGED <<pool, preferred, call, lock>>
      BY <1>5, <2>2 DEF SwitchToPreferred
    <3>2. ws \in [Agents -> Watches] /\ ws[w].pc = "off" /\ \A v \in Agents : v # w => ws[v] = watch[v]
      BY <1>0 DEF ConnTypes, Off
    <3>3. drain \cup {d0} \in SUBSET Drains /\ d0.p = active
      BY <2>0 DEF Drains, Watches, ConnTypes
    <3> HIDE DEF ws, d0
    <3>4. /\ watch' \in [Agents -> Watches] /\ drain' \subseteq Drains
          /\ handle' \in Watchers \cup {Free}
          /\ \A v \in Agents : watch'[v].pc \in {"assign", "load", "lock"} =>
                watch'[v].pc = ws[v].pc /\ watch'[v].conn = ws[v].conn /\ watch'[v].idx = ws[v].idx
          /\ \A d \in drain' : \E e \in drain \cup {d0} : d.p = e.p
      BY <3>1, <3>2, <3>3, StartKeepsPlaces
    <3>5. \A v \in Agents : Brings(v)' =>
             v # w /\ Brings(v) /\ watch'[v].conn = watch[v].conn /\ watch'[v].idx = watch[v].idx
      BY <3>2, <3>4 DEF Brings
    <3>6. ConnTypes'
      BY <2>0, <3>1, <3>4 DEF ConnTypes, PoolBrought, Watches
    <3>7. ASSUME NEW v \in Agents, Brings(v)'
          PROVE  PoolBrought(v)'
      <4>1. v # w /\ Brings(v) /\ PoolBrought(v) /\ watch'[v].conn = watch[v].conn /\ watch'[v].idx = watch[v].idx
        BY <3>5, <3>7
      <4>2. watch[v].conn # watch[w].conn
        BY <2>0, <4>1 DEF PoolBrought
      <4>3. \A d \in drain' : d.p # watch[v].conn
        BY <3>3, <3>4, <4>1 DEF PoolBrought
      <4>4. \A u \in Agents : u # v /\ Brings(u)' => watch'[u].conn # watch[v].conn
        BY <3>5, <4>1 DEF PoolBrought
      <4> QED BY <3>1, <4>1, <4>2, <4>3, <4>4 DEF PoolBrought
    <3>8. \A d \in drain' : d.p # active'
      BY <2>0, <3>1, <3>3, <3>4 DEF PoolBrought
    <3>9. \A c \in Callers : CallMovesOn(c)'
      BY <2>0, <3>1 DEF CallMovesOn, PoolBrought
    <3>10. pool'[active'].open /\ pool'[active'].idx = current'
      BY <2>0, <3>1 DEF PoolBrought
    <3> QED BY <3>6, <3>7, <3>8, <3>9, <3>10
  <2> QED BY <2>1, <2>2
<1>6. ASSUME NEW d0 \in drain, WaitPoolFreeToClose(d0)
      PROVE  FailoverInv'
  <2>1. /\ drain' = CancelDrain(drain \ {d0}) /\ watch' = CancelWatch(watch)
        /\ pool' = [pool EXCEPT ![d0.p].open = FALSE]
        /\ UNCHANGED <<active, current, preferred, handle, call, lock>>
    BY <1>6 DEF WaitPoolFreeToClose
  <2>2. /\ watch' \in [Agents -> Watches] /\ drain' \subseteq Drains
        /\ \A w \in Agents : /\ watch'[w].pc = watch[w].pc
                             /\ watch'[w].conn = watch[w].conn
                             /\ watch'[w].idx = watch[w].idx
        /\ \A d \in drain' : \E e \in drain : d.p = e.p
    <3>1. drain \ {d0} \in SUBSET Drains /\ watch \in [Agents -> Watches]
      BY DEF ConnTypes
    <3> QED BY <2>1, <3>1, CancelKeeps
  <2>3. /\ pool' \in [PoolIds -> [idx : Masters, open : BOOLEAN]]
        /\ \A p \in PoolIds : p # d0.p => pool'[p] = pool[p]
    BY <2>1 DEF ConnTypes
  <2>4. ConnTypes'
    BY <2>1, <2>2, <2>3 DEF ConnTypes
  <2>5. ASSUME NEW w \in Agents, Brings(w)'
        PROVE  PoolBrought(w)'
    <3>1. PoolBrought(w)
      BY <2>2, <2>5 DEF Brings
    <3>2. pool'[watch[w].conn] = pool[watch[w].conn]
      BY <1>6, <2>3, <3>1 DEF PoolBrought
    <3>3. \A d \in drain' : d.p # watch[w].conn
      BY <2>2, <3>1 DEF PoolBrought
    <3> QED BY <2>1, <2>2, <3>1, <3>2, <3>3, ZenonT(60) DEF PoolBrought, Brings
  <2>6. \A d \in drain' : d.p # active'
    BY <2>1, <2>2
  <2>7. pool'[active'].open /\ pool'[active'].idx = current'
    BY <1>6, <2>1, <2>3 DEF ConnTypes
  <2>8. \A c \in Callers : CallMovesOn(c)'
    BY <2>1 DEF CallMovesOn
  <2> QED BY <2>4, <2>5, <2>6, <2>7, <2>8
<1> QED BY <1>1, <1>2, <1>3, <1>4, <1>5, <1>6 DEF Background, WatchStep

\* The failover of the event store is sound for any number of masters, calls
\* and watchers: the active pool is open and belongs to the master the
\* connector believes in, and a call that retries has another pool than the
\* one that failed it, if there is another master (switchMaster,
\* connectToPreferredMasterOnceAvailable, waitPoolFreeToClose).
THEOREM FailoverIsSound == Spec => []FailoverSound
<1>1. Init => FailoverInv
  BY FailoverStart DEF Init
<1>2. FailoverInv /\ [Next]_vars => FailoverInv'
  <2> SUFFICES ASSUME FailoverInv, [Next]_vars
               PROVE  FailoverInv'
    OBVIOUS
  <2>1. CASE UNCHANGED connVars
    BY <2>1 DEF connVars, FailoverInv, ConnTypes, Brings, PoolBrought, CallMovesOn
  <2>2. CASE ConnNext
    BY <2>2, CallStepKeeps, BackgroundKeeps DEF ConnNext
  <2> QED BY <2>1, <2>2 DEF Next, vars
<1>3. FailoverInv => FailoverSound
  <2> SUFFICES ASSUME FailoverInv PROVE FailoverSound
    OBVIOUS
  <2>1. ASSUME NEW c \in Callers
        PROVE  /\ call[c].pc \in {"idle", "query", "run", "load", "lock", "close", "retry"}
               /\ {call[c].p, call[c].seen} \subseteq PoolIds \cup {0}
    BY DEF FailoverInv, ConnTypes, Calls, CallPCs
  <2>2. ConnTypeOK
    BY <2>1 DEF FailoverInv, ConnTypes, ConnTypeOK
  <2> QED BY <2>2 DEF FailoverInv, FailoverSound, Open, CallMovesOn
<1> QED BY <1>1, <1>2, <1>3, PTL DEF Spec

-----------------------------------------------------------------------------
(* The status follows the operations.                                      *)

Ops == [err : BOOLEAN, at : Int]

StatusTypes ==
    /\ now \in Int
    /\ report \in [Reporters -> Seq(Ops)]
    /\ queue \in Seq(Ops)
    /\ seen \in Seq(Ops)
    /\ fsm \in [bad : BOOLEAN, errs : Nat, oks : Nat, start : Int]

AllFailed(i, k) == \A x \in i .. k : seen[x].err
WithinWindow(i, k) == \A x, y \in i .. k : seen[y].at - seen[x].at <= Window

\* Operation a began the failures that are counted, all of them in its window.
\* The failures at the end are all counted, except for fewer than Threshold
\* that came right before a in the same window.
CountedFrom(a) ==
    /\ seen[a].err /\ seen[a].at = fsm.start
    /\ Cardinality(Failures(a, Len(seen))) >= fsm.errs
    /\ \A k \in Failures(a, Len(seen)) : seen[k].at - fsm.start <= Window
    /\ \A i \in a .. Len(seen) : AllFailed(i, Len(seen)) => Len(seen) - i + 1 <= fsm.errs
    /\ \A i \in 1 .. a - 1 : AllFailed(i, Len(seen)) /\ WithinWindow(i, Len(seen)) => a - i < Threshold

\* Operations a to b made the machine say error, and the successes it counts
\* are the last operations, after a failure or after b.
BadBecause(a, b) ==
    LET last == Len(seen) - fsm.oks
    IN  /\ seen[a].err
        /\ Cardinality(Failures(a, b)) >= Threshold
        /\ \A k \in Failures(a, b) : seen[k].at - seen[a].at <= Window
        /\ ~Recovered(b + 1, Len(seen))
        /\ fsm.oks < Threshold /\ b <= last /\ (b = last \/ seen[last].err)

StatusInv ==
    /\ StatusTypes
    /\ fsm.bad => \E a, b \in 1 .. Len(seen) : BadBecause(a, b)
    /\ ~fsm.bad => fsm.errs < Threshold
    /\ ~fsm.bad /\ fsm.errs = 0 /\ Len(seen) > 0 => ~seen[Len(seen)].err
    /\ ~fsm.bad /\ fsm.errs > 0 => \E a \in 1 .. Len(seen) : CountedFrom(a)

\* The failures among given operations are finitely many.
LEMMA FailuresFinite ==
    ASSUME NEW a \in Int, NEW b \in Int
    PROVE  IsFiniteSet(Failures(a, b)) /\ Cardinality(Failures(a, b)) \in Nat
<1>1. Failures(a, b) \subseteq a .. b /\ IsFiniteSet(a .. b)
  BY FS_Interval DEF Failures
<1> QED BY <1>1, FS_Subset, FS_CardinalityType

\* What the machine is given is never forgotten (the worker of status.go).
LEMMA SeenGrows ==
    ASSUME StatusTypes, NEW op \in Ops, seen' = Append(seen, op), NEW n, n = Len(seen)
    PROVE  /\ seen' \in Seq(Ops) /\ Len(seen') = n + 1 /\ n \in Nat
           /\ \A k \in 1 .. n : seen'[k] = seen[k]
           /\ seen'[n + 1] = op
           /\ \A a, b \in 1 .. n : Failures(a, b)' = Failures(a, b)
           /\ op.err => \A a \in 1 .. n + 1 : Failures(a, n + 1)' = Failures(a, n) \cup {n + 1}
           /\ ~op.err => \A a \in 1 .. n + 1 : Failures(a, n + 1)' = Failures(a, n)
<1>1. /\ seen' \in Seq(Ops) /\ Len(seen') = n + 1 /\ n \in Nat
      /\ \A k \in 1 .. n : seen'[k] = seen[k]
      /\ seen'[n + 1] = op
  BY DEF StatusTypes
<1>2. \A a, b \in 1 .. n : Failures(a, b)' = Failures(a, b)
  BY <1>1 DEF Failures
<1>3. ASSUME op.err, NEW a \in 1 .. n + 1
      PROVE  Failures(a, n + 1)' = Failures(a, n) \cup {n + 1}
  BY <1>1, <1>3 DEF Failures
<1>4. ASSUME ~op.err, NEW a \in 1 .. n + 1
      PROVE  Failures(a, n + 1)' = Failures(a, n)
  BY <1>1, <1>4 DEF Failures
<1> QED BY <1>1, <1>2, <1>3, <1>4

\* While the machine says error, another failure or a success that is not yet
\* the last of Threshold keeps the reason.
LEMMA StaysBad ==
    ASSUME StatusInv, fsm.bad, NEW op \in Ops, seen' = Append(seen, op),
           op.err => fsm'.oks = 0,
           ~op.err => fsm.oks + 1 < Threshold /\ fsm'.oks = fsm.oks + 1
    PROVE  \E a, b \in 1 .. Len(seen') : BadBecause(a, b)'
<1>0. PICK n \in Nat : n = Len(seen)
  BY DEF StatusInv, StatusTypes
<1>1. /\ seen' \in Seq(Ops) /\ Len(seen') = n + 1 /\ n \in Nat
      /\ \A k \in 1 .. n : seen'[k] = seen[k]
      /\ seen'[n + 1] = op
  BY <1>0, SeenGrows DEF StatusInv
<1>2. PICK a \in 1 .. n, b \in 1 .. n : BadBecause(a, b)
  BY <1>0 DEF StatusInv
<1>3. fsm.oks \in Nat /\ Threshold \in Nat /\ Threshold >= 1
  BY StatusAssumption DEF StatusInv, StatusTypes
<1>10. Failures(a, b)' = Failures(a, b)
  BY <1>0, SeenGrows DEF StatusInv
<1>4. /\ seen[a].err /\ Cardinality(Failures(a, b)) >= Threshold
      /\ \A k \in Failures(a, b) : seen[k].at - seen[a].at <= Window
      /\ ~Recovered(b + 1, n)
      /\ b <= n - fsm.oks /\ (b = n - fsm.oks \/ seen[n - fsm.oks].err)
  BY <1>0, <1>2 DEF BadBecause
<1>5. \A k \in Failures(a, b) : seen'[k].at - seen'[a].at <= Window
  BY <1>1, <1>4 DEF Failures
<1>6. ASSUME NEW i \in b + 1 .. n + 2 - Threshold
      PROVE  \E k \in i .. i + Threshold - 1 : seen'[k].err
  <2>1. CASE i <= n + 1 - Threshold
    <3>1. PICK k \in i .. i + Threshold - 1 : seen[k].err
      <4>1. i \in b + 1 .. n + 1 - Threshold
        BY <1>3, <2>1
      <4>2. ~ \A k \in i .. i + Threshold - 1 : ~seen[k].err
        BY <1>4, <4>1 DEF Recovered
      <4> QED BY <4>2
    <3>2. k \in 1 .. n
      BY <1>1, <1>3, <2>1
    <3> QED BY <1>1, <3>1, <3>2
  <2>2. CASE i = n + 2 - Threshold
    <3>1. CASE op.err
      <4>1. n + 1 \in i .. i + Threshold - 1
        BY <1>1, <1>3, <2>2
      <4> QED BY <1>1, <3>1, <4>1
    <3>2. CASE ~op.err
      <4>1. n - fsm.oks \in i .. i + Threshold - 1 /\ n - fsm.oks \in 1 .. n /\ n - fsm.oks # b
        BY <1>1, <1>3, <1>4, <2>2, <3>2, SMTT(60)
      <4> QED BY <1>1, <1>4, <4>1
    <3> QED BY <3>1, <3>2
  <2>3. i <= n + 1 - Threshold \/ i = n + 2 - Threshold
    BY <1>3
  <2> QED BY <2>1, <2>2, <2>3
<1>7. ~Recovered(b + 1, n + 1)'
  <2>1. n + 1 + 1 - Threshold = n + 2 - Threshold
    BY <1>3
  <2>2. Recovered(b + 1, n + 1)' =
           \E i \in b + 1 .. n + 2 - Threshold : \A k \in i .. i + Threshold - 1 : ~seen'[k].err
    BY <2>1 DEF Recovered
  <2> QED BY <1>6, <2>2
<1>8. /\ fsm'.oks < Threshold /\ b <= n + 1 - fsm'.oks
      /\ b = n + 1 - fsm'.oks \/ seen'[n + 1 - fsm'.oks].err
  <2>1. CASE op.err
    BY <1>1, <1>3, <2>1
  <2>2. CASE ~op.err
    <3>1. n + 1 - fsm'.oks = n - fsm.oks /\ n - fsm.oks \in 1 .. n
      BY <1>1, <1>3, <1>4, <2>2, SMTT(60)
    <3> QED BY <1>1, <1>4, <2>2, <3>1
  <2> QED BY <2>1, <2>2
<1>9. BadBecause(a, b)'
  <2>1. seen'[a].err /\ Cardinality(Failures(a, b)') >= Threshold
    BY <1>1, <1>4, <1>10
  <2>2. ~Recovered(b + 1, Len(seen))' /\ \A k \in Failures(a, b)' : seen'[k].at - seen'[a].at <= Window
    BY <1>1, <1>5, <1>7, <1>10
  <2>3. /\ fsm'.oks < Threshold /\ b <= Len(seen') - fsm'.oks
        /\ b = Len(seen') - fsm'.oks \/ seen'[Len(seen') - fsm'.oks].err
    <3>1. fsm'.oks \in Nat
      BY <1>3
    <3>2. Len(seen') - fsm'.oks = n + 1 - fsm'.oks
      BY <1>1, <3>1
    <3> QED BY <1>8, <3>2
  <2> QED BY <2>1, <2>2, <2>3, Zenon DEF BadBecause
<1> QED BY <1>1, <1>9

\* A failure outside the window, or the first one, starts the count again, and
\* fewer than Threshold failures right before it share a window with it.
LEMMA CountRestarts ==
    ASSUME StatusInv, ~fsm.bad, NEW op \in Ops, op.err, seen' = Append(seen, op),
           fsm.errs = 0 \/ op.at - fsm.start > Window,
           fsm'.errs = 1, fsm'.start = op.at
    PROVE  \E a \in 1 .. Len(seen') : CountedFrom(a)'
<1>0. PICK n \in Nat : n = Len(seen)
  BY DEF StatusInv, StatusTypes
<1>1. /\ Len(seen') = n + 1
      /\ \A k \in 1 .. n : seen'[k] = seen[k] /\ seen[k] \in Ops
      /\ seen'[n + 1] = op /\ seen'[n + 1].err /\ seen'[n + 1].at = op.at
  BY <1>0, SeenGrows DEF StatusInv, StatusTypes
<1>2. Failures(n + 1, n + 1)' = {n + 1}
  BY <1>1 DEF Failures
<1>4. op.at \in Int /\ Window \in Nat /\ Threshold \in Nat /\ fsm.errs \in Nat /\ fsm.start \in Int
  BY StatusAssumption DEF Ops, StatusInv, StatusTypes
<1>5. \A k \in {n + 1} : seen'[k].at - op.at <= Window
  BY <1>1, <1>4
<1>6. ASSUME NEW i \in 1 .. n, AllFailed(i, n + 1)', WithinWindow(i, n + 1)'
      PROVE  n + 1 - i < Threshold
  <2>1. \A x \in i .. n : seen[x].err
    BY <1>1, <1>6 DEF AllFailed
  <2>2. fsm.errs > 0 /\ op.at - fsm.start > Window
    BY <1>0, <1>4, <2>1 DEF StatusInv
  <2>3. PICK a \in 1 .. n : CountedFrom(a)
    BY <1>0, <2>2 DEF StatusInv
  <2>4. CASE i <= a
    <3>1. a \in i .. n + 1 /\ n + 1 \in i .. n + 1
      BY <2>4
    <3>2. seen'[n + 1].at - seen'[a].at <= Window
      BY <1>6, <3>1 DEF WithinWindow
    <3>3. seen'[a].at = fsm.start
      BY <1>1, <2>3 DEF CountedFrom
    <3> QED BY <1>1, <1>4, <2>2, <3>2, <3>3
  <2>5. CASE a < i
    <3>1. n - i + 1 <= fsm.errs
      BY <1>0, <2>1, <2>3, <2>5 DEF CountedFrom, AllFailed
    <3>2. fsm.errs < Threshold
      BY DEF StatusInv
    <3> QED BY <1>4, <3>1, <3>2
  <2> QED BY <2>4, <2>5
<1>7. PICK m \in 1 .. n + 1 : m = n + 1
  OBVIOUS
<1>8. CountedFrom(m)'
  <2>1. seen'[m].err /\ seen'[m].at = fsm'.start
    BY <1>1, <1>7
  <2>2. Failures(m, Len(seen))' = {m}
    BY <1>1, <1>2, <1>7
  <2>3. Cardinality(Failures(m, Len(seen))') >= fsm'.errs
    <3>1. Cardinality({m}) = 1
      BY FS_Singleton
    <3>2. Cardinality(Failures(m, Len(seen))') = 1
      BY <2>2, <3>1
    <3> QED BY <3>2
  <2>4. \A k \in Failures(m, Len(seen))' : seen'[k].at - fsm'.start <= Window
    BY <1>5, <1>7, <2>2
  <2>5. \A i \in m .. Len(seen') : Len(seen') - i + 1 <= fsm'.errs
    BY <1>1, <1>7
  <2>6. \A i \in 1 .. m - 1 : AllFailed(i, Len(seen))' /\ WithinWindow(i, Len(seen))' => m - i < Threshold
    <3>1. ASSUME NEW i \in 1 .. m - 1, AllFailed(i, Len(seen))', WithinWindow(i, Len(seen))'
          PROVE  m - i < Threshold
      <4>1. i \in 1 .. n
        BY <1>7
      <4>2. AllFailed(i, n + 1)' /\ WithinWindow(i, n + 1)'
        BY <1>1, <3>1 DEF AllFailed, WithinWindow
      <4>3. n + 1 - i < Threshold
        BY <1>6, <4>1, <4>2
      <4> QED BY <1>7, <4>3
    <3> QED BY <3>1
  <2> QED BY <2>1, <2>3, <2>4, <2>5, <2>6 DEF CountedFrom
<1> QED BY <1>1, <1>8

\* A failure within the window is counted.
LEMMA CountGoesOn ==
    ASSUME StatusInv, ~fsm.bad, NEW op \in Ops, op.err, seen' = Append(seen, op),
           fsm.errs > 0, ~(op.at - fsm.start > Window),
           fsm'.errs = fsm.errs + 1, fsm'.start = fsm.start
    PROVE  \E a \in 1 .. Len(seen') : CountedFrom(a)'
<1>0. PICK n \in Nat : n = Len(seen)
  BY DEF StatusInv, StatusTypes
<1>1. /\ Len(seen') = n + 1
      /\ \A k \in 1 .. n : seen'[k] = seen[k] /\ seen[k] \in Ops
      /\ seen'[n + 1] = op /\ seen'[n + 1].err /\ seen'[n + 1].at = op.at
  BY <1>0, SeenGrows DEF StatusInv, StatusTypes
<1>2. PICK a \in 1 .. n : CountedFrom(a)
  BY <1>0 DEF StatusInv
<1>3. Failures(a, n + 1)' = Failures(a, n) \cup {n + 1} /\ n + 1 \notin Failures(a, n)
  BY <1>0, SeenGrows DEF StatusInv, Failures
<1>4. op.at \in Int /\ Window \in Nat /\ Threshold \in Nat /\ fsm.errs \in Nat /\ fsm.start \in Int
  BY StatusAssumption DEF Ops, StatusInv, StatusTypes
<1>5. Cardinality(Failures(a, n)) \in Nat /\ Cardinality(Failures(a, n + 1)') = Cardinality(Failures(a, n)) + 1
  <2>1. IsFiniteSet(Failures(a, n)) /\ Cardinality(Failures(a, n)) \in Nat
    <3>1. a \in Int /\ n \in Int
      OBVIOUS
    <3> QED BY <3>1, FailuresFinite
  <2>2. Cardinality(Failures(a, n) \cup {n + 1}) = Cardinality(Failures(a, n)) + 1
    BY <1>3, <2>1, FS_AddElement
  <2> QED BY <1>3, <2>1, <2>2
<1>6. /\ seen[a].err /\ seen[a].at = fsm.start
      /\ Cardinality(Failures(a, n)) >= fsm.errs
      /\ \A k \in Failures(a, n) : seen[k].at - fsm.start <= Window
      /\ \A i \in a .. n : AllFailed(i, n) => n - i + 1 <= fsm.errs
      /\ \A i \in 1 .. a - 1 : AllFailed(i, n) /\ WithinWindow(i, n) => a - i < Threshold
  BY <1>0, <1>2 DEF CountedFrom
<1>7. \A k \in Failures(a, n + 1)' : seen'[k].at - fsm.start <= Window
  <2>1. ASSUME NEW k \in Failures(a, n)
        PROVE  seen'[k].at - fsm.start <= Window
    BY <1>1, <1>6 DEF Failures
  <2>2. seen'[n + 1].at - fsm.start <= Window
    BY <1>1, <1>4
  <2> QED BY <1>3, <2>1, <2>2
<1>8. ASSUME NEW i \in 1 .. n, AllFailed(i, n + 1)'
      PROVE  AllFailed(i, n)
  BY <1>1, <1>8 DEF AllFailed
<1>9. ASSUME NEW i \in 1 .. n, WithinWindow(i, n + 1)'
      PROVE  WithinWindow(i, n)
  BY <1>1, <1>9 DEF WithinWindow
<1>10. ASSUME NEW i \in a .. n + 1, AllFailed(i, n + 1)'
       PROVE  n + 1 - i + 1 <= fsm'.errs
  <2>1. CASE i = n + 1
    BY <1>4, <2>1
  <2>2. CASE i \in a .. n
    <3>1. n - i + 1 <= fsm.errs
      BY <1>6, <1>8, <1>10, <2>2
    <3> QED BY <1>4, <2>2, <3>1
  <2> QED BY <2>1, <2>2
<1>11. ASSUME NEW i \in 1 .. a - 1, AllFailed(i, n + 1)', WithinWindow(i, n + 1)'
       PROVE  a - i < Threshold
  BY <1>6, <1>8, <1>9, <1>11
<1>12. Cardinality(Failures(a, n + 1)') >= fsm'.errs
  BY <1>4, <1>5, <1>6
<1>13. seen'[a].err /\ seen'[a].at = fsm'.start
  BY <1>1, <1>6
<1>14. CountedFrom(a)'
  <2>1. \A k \in Failures(a, n + 1)' : seen'[k].at - fsm'.start <= Window
    BY <1>7
  <2>2. \A i \in a .. n + 1 : AllFailed(i, n + 1)' => n + 1 - i + 1 <= fsm'.errs
    BY <1>10
  <2>3. \A i \in 1 .. a - 1 : AllFailed(i, n + 1)' /\ WithinWindow(i, n + 1)' => a - i < Threshold
    BY <1>11
  <2>4. Failures(a, Len(seen))' = Failures(a, n + 1)'
    BY <1>1 DEF Failures
  <2>5. \A i : (AllFailed(i, Len(seen))' <=> AllFailed(i, n + 1)') /\ (WithinWindow(i, Len(seen))' <=> WithinWindow(i, n + 1)')
    BY <1>1 DEF AllFailed, WithinWindow
  <2>6. \A i \in a .. Len(seen') : AllFailed(i, Len(seen))' => Len(seen') - i + 1 <= fsm'.errs
    BY <1>1, <2>2, <2>5
  <2>7. \A i \in 1 .. a - 1 : AllFailed(i, Len(seen))' /\ WithinWindow(i, Len(seen))' => a - i < Threshold
    BY <2>3, <2>5
  <2> QED BY <1>12, <1>13, <2>1, <2>4, <2>6, <2>7 DEF CountedFrom
<1> QED BY <1>1, <1>14

\* Threshold failures counted are a reason to say error.
LEMMA BecomesBad ==
    ASSUME StatusTypes', NEW a \in 1 .. Len(seen'), CountedFrom(a)',
           fsm'.errs >= Threshold, fsm'.oks = 0
    PROVE  \E b \in 1 .. Len(seen') : BadBecause(a, b)'
<1>0. PICK m \in Nat : m = Len(seen')
  BY DEF StatusTypes
<1>1. m \in 1 .. m /\ a \in 1 .. m
  BY <1>0
<1>2. Threshold \in Nat /\ Threshold >= 1 /\ fsm'.errs \in Nat
  BY StatusAssumption DEF StatusTypes
<1>3. /\ seen'[a].err /\ seen'[a].at = fsm'.start
      /\ Cardinality(Failures(a, m)') >= fsm'.errs
      /\ \A k \in Failures(a, m)' : seen'[k].at - fsm'.start <= Window
  BY <1>0 DEF CountedFrom
<1>4. Cardinality(Failures(a, m)') \in Nat
  <2>1. Failures(a, m)' \subseteq a .. m
    BY DEF Failures
  <2>2. a \in Int /\ m \in Int
    BY <1>1
  <2>3. IsFiniteSet(a .. m)
    BY <2>2, FS_Interval
  <2> QED BY <2>1, <2>3, FS_Subset, FS_CardinalityType
<1>5. ~Recovered(m + 1, m)'
  BY <1>2 DEF Recovered
<1>6. m - 0 = m
  OBVIOUS
<1>7. BadBecause(a, m)'
  <2>1. Cardinality(Failures(a, m)') >= Threshold
    BY <1>2, <1>3, <1>4
  <2>2. ~Recovered(m + 1, Len(seen))' /\ Len(seen') - fsm'.oks = m /\ m <= m /\ fsm'.oks < Threshold
    BY <1>0, <1>2, <1>5
  <2> QED BY <1>3, <2>1, <2>2 DEF BadBecause
<1> QED BY <1>0, <1>1, <1>7

\* The machine stays a machine (statefsm Push).
LEMMA MachineTypes ==
    ASSUME StatusTypes, NEW op \in Ops
    PROVE  FsmPush(fsm, op) \in [bad : BOOLEAN, errs : Nat, oks : Nat, start : Int]
<1> DEFINE Machines == [bad : BOOLEAN, errs : Nat, oks : Nat, start : Int]
<1>1. fsm \in Machines /\ op.at \in Int
  BY DEF StatusTypes, Ops
<1>2. Failed(fsm, op.at) \in Machines
  BY <1>1 DEF Failed
<1>3. Succeeded(fsm) \in Machines
  <2>1. [bad |-> FALSE, errs |-> 0, oks |-> fsm.oks + 1, start |-> 0] \in Machines
    BY <1>1
  <2>2. [fsm EXCEPT !.oks = @ + 1] \in Machines
    BY <1>1
  <2> QED BY <2>1, <2>2 DEF Succeeded
<1> QED BY <1>2, <1>3 DEF FsmPush

\* The worker keeps the invariant, whatever the operation and the machine.
LEMMA WorkerKeeps ==
    ASSUME StatusInv, Worker
    PROVE  StatusInv'
<1> DEFINE op == Head(queue)
<1>1. op \in Ops /\ Tail(queue) \in Seq(Ops)
  BY DEF StatusInv, StatusTypes, Worker
<1> HIDE DEF op
<1>2. /\ seen' = Append(seen, op) /\ fsm' = FsmPush(fsm, op)
      /\ queue' = Tail(queue) /\ UNCHANGED <<now, report>>
  BY DEF Worker, op
<1>3. StatusTypes'
  <2>1. seen' \in Seq(Ops)
    BY <1>1, <1>2 DEF StatusInv, StatusTypes
  <2>2. fsm' \in [bad : BOOLEAN, errs : Nat, oks : Nat, start : Int]
    BY <1>1, <1>2, MachineTypes DEF StatusInv
  <2> QED BY <1>1, <1>2, <2>1, <2>2 DEF StatusInv, StatusTypes
<1>4. /\ fsm.errs \in Nat /\ fsm.oks \in Nat /\ fsm.start \in Int /\ op.at \in Int
      /\ fsm.bad \in BOOLEAN /\ op.err \in BOOLEAN
      /\ Threshold \in Nat /\ Threshold >= 1 /\ Window \in Nat
  BY <1>1, StatusAssumption DEF StatusInv, StatusTypes, Ops
<1>5. Len(seen') = Len(seen) + 1 /\ Len(seen) \in Nat /\ seen'[Len(seen')] = op
  BY <1>1, <1>2 DEF StatusInv, StatusTypes
<1>6. CASE op.err /\ fsm.bad
  <2>1. fsm'.bad /\ fsm'.oks = 0
    BY <1>2, <1>6 DEF FsmPush, Failed
  <2>2. \E a, b \in 1 .. Len(seen') : BadBecause(a, b)'
    BY <1>1, <1>2, <1>6, <2>1, StaysBad
  <2> QED BY <1>3, <2>1, <2>2 DEF StatusInv
<1>7. CASE op.err /\ ~fsm.bad
  <2>1. /\ fsm'.bad <=> fsm'.errs >= Threshold
        /\ fsm'.oks = 0
        /\ \/ /\ fsm.errs = 0 \/ op.at - fsm.start > Window
              /\ fsm'.errs = 1 /\ fsm'.start = op.at
           \/ /\ fsm.errs > 0 /\ ~(op.at - fsm.start > Window)
              /\ fsm'.errs = fsm.errs + 1 /\ fsm'.start = fsm.start
    <3> DEFINE late == fsm.errs > 0 /\ op.at - fsm.start > Window
               errs == IF late THEN 1 ELSE fsm.errs + 1
    <3>1. fsm' = [bad |-> errs >= Threshold, errs |-> errs, oks |-> 0,
                  start |-> IF late \/ fsm.errs = 0 THEN op.at ELSE fsm.start]
      BY <1>2, <1>4, <1>7 DEF FsmPush, Failed
    <3>2. fsm'.errs = errs /\ fsm'.oks = 0 /\ (fsm'.bad <=> errs >= Threshold)
          /\ fsm'.start = IF late \/ fsm.errs = 0 THEN op.at ELSE fsm.start
      BY <3>1
    <3>3. CASE late
      BY <3>2, <3>3
    <3>4. CASE fsm.errs = 0
      BY <3>2, <3>4
    <3>5. CASE ~late /\ fsm.errs > 0
      BY <3>2, <3>5
    <3> QED BY <1>4, <3>2, <3>3, <3>4, <3>5
  <2>2. PICK a \in 1 .. Len(seen') : CountedFrom(a)'
    BY <1>1, <1>2, <1>7, <2>1, CountRestarts, CountGoesOn
  <2>3. fsm'.errs > 0
    BY <1>4, <2>1
  <2>4. CASE fsm'.bad
    BY <1>3, <2>1, <2>2, <2>4, BecomesBad DEF StatusInv
  <2>5. CASE ~fsm'.bad
    BY <1>3, <1>4, <2>1, <2>2, <2>3, <2>5, SMTT(60) DEF StatusInv, StatusTypes
  <2> QED BY <2>4, <2>5
<1>8. CASE ~op.err /\ fsm.bad /\ fsm.oks + 1 >= Threshold
  <2>1. fsm'.bad = FALSE /\ fsm'.errs = 0
    BY <1>2, <1>8 DEF FsmPush, Succeeded
  <2> QED BY <1>3, <1>4, <1>5, <1>8, <2>1 DEF StatusInv
<1>9. CASE ~op.err /\ fsm.bad /\ ~(fsm.oks + 1 >= Threshold)
  <2>1. fsm' = [fsm EXCEPT !.oks = @ + 1]
    BY <1>2, <1>9 DEF FsmPush, Succeeded
  <2>2. fsm'.bad /\ fsm'.oks = fsm.oks + 1
    BY <1>9, <2>1 DEF StatusInv, StatusTypes
  <2>3. fsm.oks + 1 < Threshold
    BY <1>4, <1>9
  <2>4. \E a, b \in 1 .. Len(seen') : BadBecause(a, b)'
    BY <1>1, <1>2, <1>9, <2>2, <2>3, StaysBad
  <2> QED BY <1>3, <2>2, <2>4 DEF StatusInv
<1>10. CASE ~op.err /\ ~fsm.bad
  <2>1. fsm' = [fsm EXCEPT !.oks = @ + 1]
    BY <1>2, <1>10 DEF FsmPush, Succeeded
  <2>2. ~fsm'.bad /\ fsm'.errs = fsm.errs /\ fsm'.start = fsm.start
    BY <1>10, <2>1 DEF StatusInv, StatusTypes
  <2>3. ASSUME fsm.errs > 0
        PROVE  \E a \in 1 .. Len(seen') : CountedFrom(a)'
    <3>0. PICK n \in Nat : n = Len(seen)
      BY <1>5
    <3>1. PICK a \in 1 .. n : CountedFrom(a)
      BY <1>10, <2>3, <3>0 DEF StatusInv
    <3>2. /\ Len(seen') = n + 1 /\ seen'[n + 1] = op
          /\ \A k \in 1 .. n : seen'[k] = seen[k]
          /\ Failures(a, n + 1)' = Failures(a, n)
      BY <1>1, <1>2, <1>10, <3>0, SeenGrows DEF StatusInv
    <3>3. Failures(a, Len(seen))' = Failures(a, n) /\ \A k \in Failures(a, n) : k \in 1 .. n
      BY <3>2 DEF Failures
    <3>4. \A i \in 1 .. n + 1 : ~AllFailed(i, Len(seen))'
      BY <1>10, <3>2 DEF AllFailed
    <3>5. /\ seen'[a].err /\ seen'[a].at = fsm'.start
          /\ Cardinality(Failures(a, Len(seen))') >= fsm'.errs
          /\ \A k \in Failures(a, Len(seen))' : seen'[k].at - fsm'.start <= Window
      BY <2>2, <3>0, <3>1, <3>2, <3>3 DEF CountedFrom
    <3>6. \A i \in a .. Len(seen') : ~AllFailed(i, Len(seen))'
      BY <3>2, <3>4
    <3>7. \A i \in 1 .. a - 1 : ~AllFailed(i, Len(seen))'
      BY <3>4
    <3>8. CountedFrom(a)'
      BY <3>5, <3>6, <3>7 DEF CountedFrom
    <3> QED BY <3>2, <3>8
  <2> QED BY <1>3, <1>5, <1>10, <2>2, <2>3 DEF StatusInv
<1> QED BY <1>4, <1>6, <1>7, <1>8, <1>9, <1>10

\* What neither gives the machine an operation nor changes it keeps the
\* invariant.
LEMMA OthersKeep ==
    ASSUME StatusInv, StatusTypes', UNCHANGED <<seen, fsm>>
    PROVE  StatusInv'
<1>1. \A a, b : BadBecause(a, b)' <=> BadBecause(a, b)
  BY DEF BadBecause, Failures, Recovered
<1>2. \A a : CountedFrom(a)' <=> CountedFrom(a)
  BY DEF CountedFrom, Failures, AllFailed, WithinWindow
<1> QED BY <1>1, <1>2 DEF StatusInv

\* Every step of the tracker keeps the invariant.
LEMMA StatusStep ==
    ASSUME StatusInv, StatusNext
    PROVE  StatusInv'
<1>2. CASE Tick
  BY <1>2, OthersKeep DEF Tick, StatusInv, StatusTypes
<1>3. ASSUME NEW r \in Reporters, NEW err \in BOOLEAN, Submit(r, err)
      PROVE  StatusInv'
  <2>1. <<[err |-> err, at |-> now]>> \in Seq(Ops)
    BY DEF StatusInv, StatusTypes, Ops
  <2> QED BY <1>3, <2>1, OthersKeep DEF Submit, StatusInv, StatusTypes
<1>4. ASSUME NEW r \in Reporters, Enqueue(r)
      PROVE  StatusInv'
  <2>1. queue \o report[r] \in Seq(Ops) /\ NoReport \in Seq(Ops)
    BY DEF StatusInv, StatusTypes, NoReport
  <2> QED BY <1>4, <2>1, OthersKeep DEF Enqueue, StatusInv, StatusTypes
<1> QED BY <1>2, <1>3, <1>4, WorkerKeeps DEF StatusNext

\* The status follows the operations, for any threshold, window and capacity
\* of the queue and whatever the order in which stamped reports arrive: while
\* it says error, Threshold operations failed within a window and Threshold in
\* a row have not succeeded since; and 2 * Threshold - 1 failures in a row
\* within a window do turn it to error (status.go, statefsm Push).
THEOREM StatusIsSound == Spec => []StatusFollowsOperations
<1>1. Init => StatusInv
  <2> SUFFICES ASSUME StatusInit PROVE StatusInv
    BY DEF Init
  <2>1. StatusTypes
    BY DEF StatusInit, StatusTypes, NoReport
  <2>2. fsm.bad = FALSE /\ fsm.errs = 0 /\ Len(seen) = 0
    BY DEF StatusInit
  <2> QED BY <2>1, <2>2, StatusAssumption DEF StatusInv
<1>2. StatusInv /\ [Next]_vars => StatusInv'
  <2> SUFFICES ASSUME StatusInv, [Next]_vars
               PROVE  StatusInv'
    OBVIOUS
  <2>1. CASE UNCHANGED statusVars
    BY <2>1, OthersKeep DEF statusVars, StatusInv, StatusTypes
  <2>2. CASE StatusNext
    BY <2>2, StatusStep
  <2> QED BY <2>1, <2>2 DEF Next, vars
<1>3. StatusInv => StatusFollowsOperations
  <2> SUFFICES ASSUME StatusInv PROVE StatusFollowsOperations
    OBVIOUS
  <2> DEFINE n == Len(seen)
             burst == n - 2 * Threshold + 2 .. n
  <2>1. fsm.bad => \E a, b \in 1 .. n : /\ seen[a].err
                                        /\ Cardinality(Failures(a, b)) >= Threshold
                                        /\ \A k \in Failures(a, b) : seen[k].at - seen[a].at <= Window
                                        /\ ~Recovered(b + 1, n)
    BY DEF StatusInv, BadBecause
  <2>2. ASSUME n >= 2 * Threshold - 1, \A i \in burst : seen[i].err,
               \A i, k \in burst : seen[k].at - seen[i].at <= Window, ~fsm.bad
        PROVE  FALSE
    <3>1. n \in Nat /\ Threshold \in Nat /\ Threshold >= 1 /\ fsm.errs \in Nat /\ fsm.errs < Threshold
      BY <2>2, StatusAssumption DEF StatusInv, StatusTypes
    <3>2. n > 0 /\ seen[n].err
      BY <2>2, <3>1
    <3>3. fsm.errs > 0
      BY <2>2, <3>1, <3>2 DEF StatusInv
    <3>4. PICK a \in 1 .. n : CountedFrom(a)
      BY <2>2, <3>3 DEF StatusInv
    <3>5. PICK i \in 1 .. n : i = n - 2 * Threshold + 2
      <4>1. n - 2 * Threshold + 2 \in 1 .. n
        BY <2>2, <3>1
      <4> QED BY <4>1
    <3>6. AllFailed(i, n) /\ WithinWindow(i, n)
      BY <2>2, <3>5 DEF AllFailed, WithinWindow
    <3>7. CASE a <= i
      <4>1. n - i + 1 <= fsm.errs
        BY <3>4, <3>6, <3>7 DEF CountedFrom
      <4> QED BY <3>1, <3>5, <4>1
    <3>8. CASE i < a
      <4>1. a - i < Threshold
        BY <3>4, <3>6, <3>8 DEF CountedFrom
      <4>2. AllFailed(a, n)
        BY <3>6, <3>8 DEF AllFailed
      <4>3. n - a + 1 <= fsm.errs
        BY <3>4, <4>2 DEF CountedFrom
      <4> QED BY <3>1, <3>5, <4>1, <4>3
    <3> QED BY <3>7, <3>8
  <2> QED BY <2>1, <2>2 DEF StatusFollowsOperations
<1> QED BY <1>1, <1>2, <1>3, PTL DEF Spec
=============================================================================
