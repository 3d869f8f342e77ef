-------------------------------- MODULE Push --------------------------------
(***************************************************************************)
(* Push notifications (push-notifications/).  Stored events are handed to  *)
(* the manager in tasks of the shared pool, one task for each, in any      *)
(* order.  A task sends to the cached devices whose filters match, one     *)
(* pool task for each notification, takes devices with a dead token out of *)
(* the cache, queues the work for other relays, and last applies device    *)
(* registrations and deletions to the cache.  Jobs of the queue run beside *)
(* the tasks.  The cache is two maps and the filter index, each changed by *)
(* calls of its own; a restart reads it from the database again.           *)
(***************************************************************************)
EXTENDS Naturals, FiniteSets

CONSTANTS
    Regs,        \* device registrations
    Reg,         \* of each: key, author, owner, pub, remote, here, price, wants
    Posts,       \* events that may notify somebody
    Post,        \* of each: kind, author, to, dev, far
    Dels,        \* deletions
    Del,         \* of each: by, ids and keys it names, kinds: whether they include registrations
    Elsewhere,   \* users whose relay list names another relay
    PoolSize,    \* size of the pool of goroutines
    MaxOpen,     \* bound: tasks that are not over when an event is published
    MaxAttempts, \* attempts of a queued notification
    MaxRestarts  \* bound: restarts of the relay

None == "none"
Topic == "system"       \* stands for the topic of each language
Events == Regs \cup Posts \cup Dels
Keys == {Reg[r].key : r \in Regs}
Pubs == {Reg[r].pub : r \in {d \in Regs : ~Reg[d].remote}}
RegsOf(k) == {r \in Regs : Reg[r].key = k}
Targets == Regs \cup {Topic}

(* What a deletion removes from the database: what its author owns of what *)
(* it names by ID or address, or all of it when it names nothing.          *)
AccountDelete(d) == Del[d].ids = {} /\ Del[d].keys = {}
Owned(d) == {r \in Regs : /\ Reg[r].author = Del[d].by
                          /\ AccountDelete(d) \/ r \in Del[d].ids \/ Reg[r].key \in Del[d].keys}

(* And from the cache: what it names by ID, whoever owns it.               *)
shouldProcessDeletionEvent(d) == Del[d].kinds
Named(d) == IF shouldProcessDeletionEvent(d) THEN Regs \cap Del[d].ids ELSE {}

(* A task is the handling of an event, or of a queued notification of an   *)
(* event for one device.                                                   *)
Tasks == [ev : Events, pub : {None}] \cup [ev : {p \in Posts : Post[p].far}, pub : Pubs]
Task(e) == [ev |-> e, pub |-> None]
Job(type, e) == [type |-> type, ev |-> e]

ASSUME PushAssumption ==
    /\ PoolSize \in Nat
    /\ MaxAttempts \in Nat \ {0} /\ MaxRestarts \in Nat /\ MaxOpen \in Nat
    /\ Regs \cap Posts = {} /\ Regs \cap Dels = {} /\ Posts \cap Dels = {}
    /\ {None, Topic} \cap (Events \cup Pubs) = {}
    /\ IsFiniteSet(Regs)

VARIABLES
    stored,     \* the stored registration of each device key
    invalid,    \* registrations whose token is marked invalid in the database
    rows,       \* pn_price_changes: the registration behind each key's row
    byId,       \* devicesEventMap by event ID
    byKey,      \* devicesEventMap by device key
    index,      \* devicesFilterIndex, by hash of the device key
    task,       \* tasks
    remotes,    \* tasks of AcceptEventsForRemotePush
    jobs,       \* queued jobs, unique by their arguments
    restarts,   \* how often the relay was restarted
    raced,      \* keys two operations on which were under way at a time
    left,       \* keys of which the code leaves the cache and the database apart
    stale       \* keys whose price row the code may leave behind

vars == <<stored, invalid, rows, byId, byKey, index, task, remotes, jobs, restarts, raced, left, stale>>
cache == <<byId, byKey, index>>
ghosts == <<raced, left, stale>>

Idle == [pc |-> "new", todo |-> {}, out |-> {}, sent |-> 0, total |-> 0, bad |-> {}, rest |-> {},
         arg |-> None, old |-> None, err |-> FALSE, tries |-> 0]
Done == [Idle EXCEPT !.pc = "done"]     \* an error is only logged

-----------------------------------------------------------------------------
(* Who is notified.                                                        *)
Lookup(p) == {r \in {index[k] : k \in Keys} \ {None} : Post[p].kind \in Reg[r].wants}

collectUserDevices(user, remote, p) ==
    {r \in Lookup(p) : Reg[r].remote = remote /\ user \in {None, Reg[r].owner, Reg[r].pub}}
collectLocalDevices(user, p) == collectUserDevices(user, FALSE, p)
collectTargetMasterKeys(p) == {Reg[r].owner : r \in collectLocalDevices(None, p)}

(* The handlers.  Every one but that of quotes leaves the author out.      *)
Others(p) == UNION {collectLocalDevices(user, p) : user \in Post[p].to \ {Post[p].author}}

handleEventWithPublicKey(p) == Others(p)
handleCommunityMessageEvent(p) == Others(p)
handleMentionReplyEvent(p) == Others(p)
handleNewFollowerEvent(p) == Others(p)
handleAnonymousFundSendEvent(p) == Others(p)
handleGiftWrapEvent(p) == {r \in Others(p) : Reg[r].pub = Post[p].dev}
handleQuoteEvent(p) == UNION {collectLocalDevices(user, p) : user \in Post[p].to}
handleNewPostEvent(p) == {r \in collectLocalDevices(None, p) : Reg[r].owner # Post[p].author}
handleNewDVMEvent(p) == collectLocalDevices(None, p)
handleSystemEvent(p) == {Topic}

(* Whoever wants them hears of the trades of a token and of its creation,  *)
(* unless its owner trades or creates it.                                  *)
handleTokenizedCommunityAction(p) == Post[p].to # {} /\ Post[p].author \notin Post[p].to
handleTokenizedCommunityCreation(p) == Post[p].to # {} /\ Post[p].author \notin Post[p].to
handleTokenizedCommunityEvent(p) ==
    {r \in collectLocalDevices(None, p) :
        IF Post[p].kind = "trade" THEN handleTokenizedCommunityAction(p)
        ELSE handleTokenizedCommunityCreation(p)}

processEvent(p) ==
    CASE Post[p].kind \in {"post", "article"} -> handleNewPostEvent(p)
      [] Post[p].kind \in {"reaction", "repost"} -> handleEventWithPublicKey(p)
      [] Post[p].kind = "community" -> handleCommunityMessageEvent(p)
      [] Post[p].kind = "mention" -> handleMentionReplyEvent(p)
      [] Post[p].kind = "quote" -> handleQuoteEvent(p)
      [] Post[p].kind = "follow" -> handleNewFollowerEvent(p)
      [] Post[p].kind = "fund" -> handleAnonymousFundSendEvent(p)
      [] Post[p].kind = "giftwrap" -> handleGiftWrapEvent(p)
      [] Post[p].kind \in {"trade", "token"} -> handleTokenizedCommunityEvent(p)
      [] Post[p].kind = "dvm" -> handleNewDVMEvent(p)
      [] OTHER -> {}

collectNotifications(p) == IF Post[p].kind = "system" THEN handleSystemEvent(p) ELSE processEvent(p)

-----------------------------------------------------------------------------
(* What a task works on, for the ghosts and the properties.                *)
Over(t) == task[t].pc \in {"new", "done"}
Manages(t) == IF t.ev \in Regs THEN {Reg[t.ev].key}
              ELSE IF t.ev \in Dels THEN {Reg[r].key : r \in Named(t.ev)} ELSE {}
Holds(t) == {Reg[r].key : r \in (task[t].todo \cup task[t].out \cup task[t].bad) \ {Topic}}
Touched == UNION {Manages(t) \cup Holds(t) : t \in {u \in Tasks : ~Over(u)}}
Changing == UNION {Manages(t) : t \in {u \in Tasks : ~Over(u)}}

Callers == {t \in Tasks : t.pub = None /\ task[t].pc \notin {"new", "queued", "done"}}
Sending == UNION {{<<t, d>> : d \in task[t].out} : t \in Tasks}
Busy == Cardinality(Callers) + Cardinality(Sending) + Cardinality(remotes)

Set(t, f) == task' = [task EXCEPT ![t] = f]

Init ==
    /\ stored = [k \in Keys |-> None] /\ invalid = {} /\ rows = [k \in Keys |-> None]
    /\ byId = {} /\ byKey = [k \in Keys |-> None] /\ index = [k \in Keys |-> None]
    /\ task = [t \in Tasks |-> Idle]
    /\ remotes = {} /\ jobs = {} /\ restarts = 0 /\ raced = {} /\ left = {} /\ stale = {}

(* query.AcceptEvents stores the event, the last one of an address wins,   *)
(* and the task is submitted.  A registration for another relay, and an    *)
(* event for users of this one, come by broadcast and are not stored.      *)
Publish(e) ==
    /\ task[Task(e)].pc = "new" /\ Cardinality({t \in Tasks : ~Over(t)}) < MaxOpen
    /\ stored' = [k \in Keys |-> IF e \in Regs /\ Reg[e].key = k /\ (Reg[e].here \/ Reg[e].remote) THEN e
                                 ELSE IF e \in Dels /\ stored[k] \in Owned(e) THEN None ELSE stored[k]]
    /\ Set(Task(e), [Idle EXCEPT !.pc = "queued"])
    /\ raced' = raced \cup (Manages(Task(e)) \cap Touched)
    /\ left' = IF e \in Regs
               THEN IF Reg[e].here \/ Reg[e].remote THEN left \ {Reg[e].key} ELSE left \cup {Reg[e].key}
               ELSE IF e \in Dels THEN left \cup {k \in Keys : (stored[k] \in Owned(e)) # (stored[k] \in Named(e))}
               ELSE left
    /\ UNCHANGED <<invalid, rows, cache, remotes, jobs, restarts, stale>>

-----------------------------------------------------------------------------
(* AcceptEvents and the worker of queued notifications.                    *)

(* A task of the listener takes a goroutine of the pool; the queue has its *)
(* own.                                                                    *)
MayStart(t) ==
    /\ task[t].pc = "queued"
    /\ t.pub = None => Busy < PoolSize
FromBroadcast(t) == t.pub = None /\ t.ev \in Posts /\ Post[t.ev].far

(* A batch of embedded events is left to a job.                            *)
AcceptEventsFromBroadcast(t) ==
    /\ MayStart(t) /\ FromBroadcast(t)
    /\ jobs' = jobs \cup {Job("users", t.ev)}
    /\ Set(t, Done)
    /\ UNCHANGED <<stored, invalid, rows, cache, remotes, restarts, ghosts>>

(* What comes after the notifications: a queued one is over, and is tried  *)
(* again after an error.                                                   *)
AfterSend(t, f) ==
    IF t.pub = None THEN [f EXCEPT !.pc = "jobs"]
    ELSE IF f.err /\ f.tries + 1 < MaxAttempts THEN [Idle EXCEPT !.pc = "queued", !.tries = f.tries + 1]
    ELSE Done

(* collectNotifications looks the devices up; the profile of the author    *)
(* may be missing, or the database fail.                                   *)
AcceptEvents(t) ==
    /\ MayStart(t) /\ ~FromBroadcast(t)
    /\ LET found == IF t.ev \notin Posts THEN {}
                    ELSE IF t.pub = None THEN collectNotifications(t.ev)
                    ELSE {d \in collectNotifications(t.ev) : d # Topic /\ Reg[d].pub = t.pub}
       IN  \/ /\ Set(t, IF found = {} THEN AfterSend(t, task[t])
                        ELSE [task[t] EXCEPT !.pc = "send", !.todo = found, !.total = Cardinality(found)])
              /\ raced' = raced \cup ({Reg[d].key : d \in found \ {Topic}} \cap Changing)
           \/ /\ t.ev \in Posts
              /\ Set(t, AfterSend(t, [task[t] EXCEPT !.err = TRUE]))
              /\ UNCHANGED raced
    /\ UNCHANGED <<stored, invalid, rows, cache, remotes, jobs, restarts, left, stale>>

SubmitSend(t, d) ==
    /\ task[t].pc = "send" /\ d \in task[t].todo /\ Busy < PoolSize
    /\ Set(t, [task[t] EXCEPT !.todo = @ \ {d}, !.out = @ \cup {d}])
    /\ UNCHANGED <<stored, invalid, rows, cache, remotes, jobs, restarts, ghosts>>

(* mutated: the channel of the results has room for all but one.           *)
ErrChanCapShort(total) == total - 1
ErrChanCap(total) == total

(* SendSingle, after the retries of sendWithRetry: delivered, the token is *)
(* dead, or another error.  The result is written before wg.Wait returns,  *)
(* so the channel needs room for all of them.                              *)
SendEnd(t, d, result) ==
    /\ d \in task[t].out /\ task[t].sent < ErrChanCap(task[t].total)
    /\ d = Topic => result # "invalid"
    /\ Set(t, [task[t] EXCEPT !.out = @ \ {d}, !.sent = @ + 1,
                              !.bad = IF result = "invalid" THEN @ \cup {d} ELSE @,
                              !.err = @ \/ result = "error"])
    /\ UNCHANGED <<stored, invalid, rows, cache, remotes, jobs, restarts, ghosts>>

collectErrors(t) ==
    /\ task[t].pc = "send" /\ task[t].todo = {} /\ task[t].out = {}
    /\ Set(t, IF task[t].bad = {} THEN AfterSend(t, [task[t] EXCEPT !.sent = 0, !.total = 0])
              ELSE [task[t] EXCEPT !.pc = "mark", !.sent = 0, !.total = 0])
    /\ UNCHANGED <<stored, invalid, rows, cache, remotes, jobs, restarts, ghosts>>

(* handleInvalidDeviceTokens: the cache stays as it is when no row of the  *)
(* devices was updated.                                                    *)
MarkTokenAsInvalid(t) ==
    /\ task[t].pc = "mark"
    /\ LET marked == {r \in task[t].bad : stored[Reg[r].key] = r} IN
       \/ /\ marked # {}
          /\ invalid' = invalid \cup marked
          /\ Set(t, [task[t] EXCEPT !.pc = "next", !.rest = task[t].bad])
       \/ /\ Set(t, AfterSend(t, [task[t] EXCEPT !.err = TRUE, !.bad = {}]))
          /\ UNCHANGED invalid
    /\ UNCHANGED <<stored, rows, cache, remotes, jobs, restarts, ghosts>>

-----------------------------------------------------------------------------
(* The rest of a caller's task: AcceptEventsForBroadcast pushes a job,     *)
(* which the queue refuses when its database cannot be reached, and        *)
(* AcceptEventsForRemotePush submits another task.                         *)
AcceptEventsElsewhere(t) ==
    /\ task[t].pc = "jobs" /\ Busy < PoolSize
    /\ \/ jobs' = jobs \cup (IF t.ev \in Posts THEN {Job("relays", t.ev)} ELSE {})
       \/ UNCHANGED jobs
    /\ remotes' = remotes \cup (IF t.ev \in Posts THEN {t.ev} ELSE {})
    /\ Set(t, IF Manages(t) = {} THEN Done
              ELSE [task[t] EXCEPT !.pc = "next", !.rest = IF t.ev \in Regs THEN {t.ev} ELSE Named(t.ev)])
    /\ UNCHANGED <<stored, invalid, rows, cache, restarts, ghosts>>

RemotePush(p) ==
    /\ p \in remotes /\ remotes' = remotes \ {p}
    /\ jobs' = IF collectUserDevices(None, TRUE, p) = {} THEN jobs ELSE jobs \cup {Job("cast", p)}
    /\ UNCHANGED <<stored, invalid, rows, cache, task, restarts, ghosts>>

-----------------------------------------------------------------------------
(* removeDeviceFromCache, for the registrations of "rest" one by one: the  *)
(* dead ones of a notification, those a deletion names where the cache     *)
(* has them, or the predecessor of a registration, which is added next.    *)
(* The maps, the index and the database change in steps of their own.      *)
RemovalsOver(t) ==
    /\ task[t].pc = "next" /\ task[t].rest = {}
    /\ Set(t, IF t.ev \in Posts THEN AfterSend(t, [task[t] EXCEPT !.bad = {}])
              ELSE IF t.ev \in Regs THEN [task[t] EXCEPT !.pc = "add"] ELSE Done)
    /\ UNCHANGED <<stored, invalid, rows, cache, remotes, jobs, restarts, ghosts>>

(* mutated: only the entry of the event itself is removed.                 *)
UnlinkSame(t, r) ==
    /\ task[t].pc = "next" /\ r \in task[t].rest
    /\ LET k == Reg[r].key
           found == r \in byId \/ t.ev \notin Dels IN
       /\ byId' = IF found THEN byId \ {r} ELSE byId
       /\ byKey' = IF found /\ byKey[k] = r THEN [byKey EXCEPT ![k] = None] ELSE byKey
       /\ Set(t, [task[t] EXCEPT !.rest = @ \ {r}, !.arg = r, !.pc = IF found /\ byKey[k] = r THEN "clear" ELSE "next"])
    /\ UNCHANGED <<stored, invalid, rows, index, remotes, jobs, restarts, ghosts>>

Unlink(t, r) ==
    /\ task[t].pc = "next" /\ r \in task[t].rest
    /\ LET k == Reg[r].key
           found == r \in byId \/ t.ev \notin Dels IN
       /\ byId' = IF found THEN byId \ {r, byKey[k]} ELSE byId
       /\ byKey' = IF found THEN [byKey EXCEPT ![k] = None] ELSE byKey
       /\ Set(t, [task[t] EXCEPT !.rest = @ \ {r}, !.arg = r, !.pc = IF found /\ byKey[k] # None THEN "clear" ELSE "next"])
    /\ UNCHANGED <<stored, invalid, rows, index, remotes, jobs, restarts, ghosts>>

(* RemoveByHash returns what the index had under the key.                  *)
Clear(t) ==
    /\ task[t].pc = "clear"
    /\ LET k == Reg[task[t].arg].key IN
       /\ index' = [index EXCEPT ![k] = None]
       /\ Set(t, [task[t] EXCEPT !.old = index[k],
                                 !.pc = IF index[k] # None /\ Reg[index[k]].price /\ ~Reg[index[k]].remote
                                        THEN "row" ELSE "next"])
    /\ UNCHANGED <<stored, invalid, rows, byId, byKey, remotes, jobs, restarts, ghosts>>

(* DeletePriceChangeSubscriber, for the request of that registration; an   *)
(* error is only logged.                                                   *)
DeleteRow(t) ==
    /\ task[t].pc = "row"
    /\ LET r == task[t].old IN
       \/ /\ rows' = [rows EXCEPT ![Reg[r].key] = IF @ = r THEN None ELSE @] /\ UNCHANGED stale
       \/ /\ UNCHANGED rows /\ stale' = stale \cup {Reg[r].key}
    /\ Set(t, [task[t] EXCEPT !.pc = "next"])
    /\ UNCHANGED <<stored, invalid, cache, remotes, jobs, restarts, raced, left>>

(* processDeviceRegistrationEvent, after the predecessor is gone.  A       *)
(* registration made for another relay ends here, and so does one whose    *)
(* price request cannot be registered.                                     *)
RegisterPrice(t) ==
    /\ task[t].pc = "add"
    /\ LET r == t.ev
           k == Reg[r].key IN
       \/ /\ ~Reg[r].remote /\ ~Reg[r].here
          /\ Set(t, Done) /\ UNCHANGED <<rows, left>>
       \/ /\ Reg[r].remote \/ Reg[r].here
          /\ rows' = IF Reg[r].price /\ ~Reg[r].remote THEN [rows EXCEPT ![k] = r] ELSE rows
          /\ Set(t, [task[t] EXCEPT !.pc = "maps"]) /\ UNCHANGED left
       \/ /\ Reg[r].here /\ Reg[r].price /\ ~Reg[r].remote
          /\ left' = left \cup {k} /\ UNCHANGED rows
          /\ Set(t, Done)
    /\ UNCHANGED <<stored, invalid, cache, remotes, jobs, restarts, raced, stale>>

StoreMaps(t) ==
    /\ task[t].pc = "maps"
    /\ byId' = byId \cup {t.ev} /\ byKey' = [byKey EXCEPT ![Reg[t.ev].key] = t.ev]
    /\ Set(t, [task[t] EXCEPT !.pc = "index"])
    /\ UNCHANGED <<stored, invalid, rows, index, remotes, jobs, restarts, ghosts>>

Index(t) ==
    /\ task[t].pc = "index"
    /\ index' = [index EXCEPT ![Reg[t.ev].key] = t.ev]
    /\ Set(t, Done)
    /\ UNCHANGED <<stored, invalid, rows, byId, byKey, remotes, jobs, restarts, ghosts>>

-----------------------------------------------------------------------------
(* The workers.  A job that fails is tried again and, after its last       *)
(* attempt, discarded.                                                     *)
WorkRelays(p) ==
    /\ Job("relays", p) \in jobs
    /\ jobs' = (jobs \ {Job("relays", p)})
               \cup (IF collectTargetMasterKeys(p) \cap Elsewhere # {} THEN {Job("cast", p)} ELSE {})
    /\ UNCHANGED <<stored, invalid, rows, cache, task, remotes, restarts, ghosts>>

(* One job for each device key: the queue takes a job it already has once. *)
WorkUsers(p) ==
    /\ Job("users", p) \in jobs
    /\ jobs' = jobs \ {Job("users", p)}
    /\ task' = [t \in Tasks |-> IF t.ev = p /\ t.pub \in {Reg[r].pub : r \in collectLocalDevices(None, p)}
                                   /\ task[t].pc = "new" THEN [Idle EXCEPT !.pc = "queued"] ELSE task[t]]
    /\ UNCHANGED <<stored, invalid, rows, cache, remotes, restarts, ghosts>>

WorkCast(p) ==
    /\ Job("cast", p) \in jobs /\ jobs' = jobs \ {Job("cast", p)}
    /\ UNCHANGED <<stored, invalid, rows, cache, task, remotes, restarts, ghosts>>

(* The process starts again: tasks are lost, jobs stay, syncDevices reads  *)
(* the registrations that have a token, not marked, for this relay, and    *)
(* goes on where one of them fails.                                        *)
Loaded(k) == stored[k] # None /\ ~Reg[stored[k]].remote /\ Reg[stored[k]].here /\ stored[k] \notin invalid

Restart ==
    /\ restarts < MaxRestarts /\ restarts' = restarts + 1
    /\ \E failed \in SUBSET {k \in Keys : Loaded(k) /\ Reg[stored[k]].price} :
       LET now == [k \in Keys |-> IF Loaded(k) /\ k \notin failed THEN stored[k] ELSE None] IN
       /\ byId' = {now[k] : k \in Keys} \ {None} /\ byKey' = now /\ index' = now
       /\ rows' = [k \in Keys |-> IF now[k] # None /\ Reg[now[k]].price THEN now[k] ELSE rows[k]]
       /\ stale' = stale \cup raced \cup left \cup Touched \cup failed
       /\ left' = failed \cup {k \in Keys : stored[k] # None /\ Reg[stored[k]].remote}
    /\ task' = [t \in Tasks |-> IF Over(t) THEN task[t]
                                ELSE [Idle EXCEPT !.pc = IF t.pub = None THEN "done" ELSE "queued", !.tries = task[t].tries]]
    /\ remotes' = {} /\ raced' = {}
    /\ UNCHANGED <<stored, invalid, jobs>>

-----------------------------------------------------------------------------
Step(t) ==
    \/ AcceptEventsFromBroadcast(t) \/ AcceptEvents(t)
    \/ \E d \in Targets : SubmitSend(t, d)
    \/ collectErrors(t) \/ MarkTokenAsInvalid(t) \/ AcceptEventsElsewhere(t)
    \/ \E r \in Regs : Unlink(t, r)
    \/ RemovalsOver(t) \/ Clear(t) \/ DeleteRow(t)
    \/ RegisterPrice(t) \/ StoreMaps(t) \/ Index(t)

Deliver(t) == \E d \in Targets, result \in {"ok", "invalid", "error"} : SendEnd(t, d, result)
Work(p) == WorkRelays(p) \/ WorkUsers(p) \/ WorkCast(p)

Next ==
    \/ \E e \in Events : Publish(e)
    \/ \E t \in Tasks : Step(t) \/ Deliver(t)
    \/ \E p \in Posts : RemotePush(p) \/ Work(p)
    \/ Restart

(* The goroutines run, FCM calls end (requestDeadline), and the queue runs *)
(* its jobs.  Nothing makes a client publish or the relay restart.         *)
Fairness ==
    /\ \A t \in Tasks : WF_vars(Step(t)) /\ WF_vars(Deliver(t))
    /\ \A p \in Posts : WF_vars(RemotePush(p)) /\ WF_vars(Work(p))

Spec == Init /\ [][Next]_vars /\ Fairness

-----------------------------------------------------------------------------
TypeOK ==
    /\ stored \in [Keys -> Regs \cup {None}] /\ invalid \subseteq Regs
    /\ rows \in [Keys -> Regs \cup {None}]
    /\ byId \subseteq Regs /\ byKey \in [Keys -> Regs \cup {None}] /\ index \in [Keys -> Regs \cup {None}]
    /\ DOMAIN task = Tasks
    /\ \A t \in Tasks : /\ task[t].todo \cup task[t].out \subseteq Targets
                        /\ task[t].bad \cup task[t].rest \subseteq Regs
                        /\ task[t].sent + Cardinality(task[t].todo) + Cardinality(task[t].out) = task[t].total
    /\ remotes \subseteq Posts /\ raced \cup left \cup stale \subseteq Keys
    /\ jobs \subseteq [type : {"relays", "users", "cast"}, ev : Posts]

(* The cache of a device key is that of the database: once no task works   *)
(* on the key, if its tasks never overlapped, none of them failed half way *)
(* and no deletion since means one thing to the database and another to    *)
(* the cache (left), the two maps and the index have the stored            *)
(* registration and nothing else, or nothing when the token is dead or     *)
(* nothing is stored, and the price row is that registration's.  A restart *)
(* repairs the cache, not the rows.                                        *)
CacheCurrent ==
    /\ TypeOK
    /\ \A k \in Keys \ (Touched \cup raced \cup left) :
       LET r == IF stored[k] \in invalid THEN None ELSE stored[k] IN
       /\ byKey[k] = r /\ index[k] = r
       /\ byId \cap RegsOf(k) = {r} \ {None}
       /\ k \notin stale => rows[k] = IF r # None /\ Reg[r].price /\ ~Reg[r].remote THEN r ELSE None

(* Every goroutine of the pool runs a call that waits for another one.     *)
Jammed ==
    /\ Cardinality(Callers) >= PoolSize /\ Sending = {} /\ remotes = {}
    /\ \A t \in Callers : task[t].pc = "jobs" \/ (task[t].pc = "send" /\ task[t].todo # {})

(* The events handed to the manager are handled to their end: no task      *)
(* waits for ever for room in the channel of the results or for the        *)
(* notifications it sent, nor for a free goroutine, unless the calls fill  *)
(* the pool they submit to and it is jammed for good.                      *)
CallsEnd == (\E t \in Tasks : ~Over(t)) ~> ((\A t \in Tasks : Over(t)) \/ []Jammed)
=============================================================================
