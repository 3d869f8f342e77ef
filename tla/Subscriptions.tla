--------------------------- MODULE Subscriptions ---------------------------
(***************************************************************************)
(* The life of a websocket subscription and the hand-over from the stored  *)
(* query to the live feed (server/ws/ws.go, server/ws/subscriptions.go,    *)
(* model/subscription.go).                                                 *)
(*                                                                         *)
(* Handle runs every incoming message in a goroutine of its own, so the    *)
(* REQ and CLOSE messages of one connection interleave with each other,    *)
(* with the connection's Read loop that unlinks everything at the end, and *)
(* with one BroadcastNewEvents goroutine per accepted event.  A REQ stands *)
(* for its *model.Subscription: the pointer identity is the REQ itself.    *)
(*                                                                         *)
(* The matcher keeps the values by hash and, under another lock, the       *)
(* routing keys of each hash: Index and Remove change the first and then   *)
(* the second, and messages about one ID may do so at the same time        *)
(* (module EventMatcher is about one shard of it).                         *)
(***************************************************************************)
EXTENDS Naturals, FiniteSets

CONSTANTS
    Conns,      \* websocket connections (their remote addresses)
    Ids,        \* subscription IDs the clients choose
    Reqs,       \* REQ messages
    Closes,     \* CLOSE messages
    Events,     \* events the relay accepts, one broadcast each
    Addrs,      \* event addresses: the replaceable coordinate, or the event ID
    ConnOf,     \* the connection a message arrives on
    IdOf,       \* the subscription ID a message names
    OneShot,    \* the REQs prepareSubscription turns into single requests
    Paging,     \* the REQs with a global gift wrap filter
    Wants,      \* Wants[r]: the events r's filters match and its user may see
    Addr,       \* Event.Address
    Keys,       \* routing keys of the matcher
    FilterKeys, \* parseFilters of a REQ's filters
    EventKeys,  \* parseEvent of an event
    ReadReplica \* whether stored queries are answered by a read replica

Handlers == Reqs \cup Closes

ASSUME ConstantsAssumption ==
    /\ Reqs # {} /\ Reqs \cap Closes = {}
    /\ ConnOf \in [Handlers -> Conns]
    /\ IdOf \in [Handlers -> Ids]
    /\ Handlers \cap Conns = {}
    /\ OneShot \subseteq Reqs /\ Paging \subseteq Reqs
    /\ Wants \in [Reqs -> SUBSET Events]
    /\ Addr \in [Events -> Addrs]
    /\ FilterKeys \in [Reqs -> SUBSET Keys]
    /\ EventKeys \in [Events -> SUBSET Keys]
    /\ ReadReplica \in BOOLEAN

(* The prefilter loses nothing: a filter and an event it matches share a   *)
(* routing key (EventMatcher's run LiveMatch and module RequestsProofs).   *)
ASSUME RoutingAssumption ==
    \A r \in Reqs : \A e \in Wants[r] : FilterKeys[r] \cap EventKeys[e] # {}

VARIABLES
    conn,       \* the Read loop: open, broken (writer gone), ranging over
                \* the metadata, unbinding what it removed, gone
    snap,       \* the IDs in the metadata when Read's clean-up began
    visited,    \* the IDs Read's clean-up has removed from the index
    inflight,   \* history: the handlers running when the clean-up began
    pc,         \* where each message handler is
    ret,        \* what follows unlinkSubscription: the CLOSED message or nothing
    err,        \* the deferred function of handleReq will find an error
    index,      \* handler.Subscriptions.Values: the REQs whose pair is stored
    bits,       \* its Indexes: the pairs <<hash, routing key>> that are set
    old,        \* the REQ whose entry a handler or a Read loop replaced or
                \* deleted, and has to remove from the bitmaps
    crossed,    \* history: the hashes that had two matcher calls at the same
                \* time which change them
    tangled,    \* history: those that were linked or unlinked, matcher and
                \* metadata, by two handlers at the same time
    meta,       \* the REQs stored in their connection's metadata
    live,       \* Subscription.live
    pending,    \* Subscription.pending
    batch,      \* what GetPending returned to streamEventsBuffered
    asked,      \* what a gift wrap REQ could read when its paging began
    eosed,      \* EOSE was written
    closed,     \* CLOSED was written
    sent,       \* events the REQ's handler wrote: stored and buffered ones
    liveSent,   \* events BroadcastNewEvents wrote
    stored,     \* the events in the primary database
    replica,    \* the events in the read replica
    bpc,        \* where each event's broadcast is
    left,       \* the hashes its Lookup has not collected yet
    found,      \* the hashes it collected and has still to load
    tgt         \* the subscription its Lookup yielded last

connVars == <<conn, snap, visited, inflight>>
ctlVars  == <<pc, ret, err>>
indexVars == <<index, bits, old, crossed, tangled>>
subVars  == <<live, pending, batch, asked, eosed, closed, sent>>
scanVars == <<left, found, tgt>>
castVars == <<stored, replica, bpc, scanVars, liveSent>>
vars == <<connVars, ctlVars, indexVars, meta, subVars, castVars>>

-----------------------------------------------------------------------------
(* subscriptionPair.Hash: remote address and subscription ID.              *)
Hash(h) == <<ConnOf[h], IdOf[h]>>
Hashes == {Hash(r) : r \in Reqs}

(* A map from hashes to REQs is the set of its values.                     *)
At(S, k) == {r \in S : Hash(r) = k}
Without(S, k) == {r \in S : Hash(r) # k}
Replace(S, r) == Without(S, Hash(r)) \cup {r}

(* The bits of REQs in Indexes.                                            *)
BitsOf(S) == UNION {{Hash(r)} \X FilterKeys[r] : r \in S}

Finished == {"live", "done"}
Active(h) == pc[h] \notin Finished \cup {"idle"}

(* A handler between the two halves of Index or Remove, and one between    *)
(* the first of these and the matching change of the metadata.  Nothing    *)
(* keeps another one from starting on the same hash meanwhile.             *)
Midway == {"unbind", "bind", "closeBits"}
Linking == {"unbind", "bind", "meta"}
Unlinking == {"closeBits", "closeMeta"}
Busy(k, states) == \E h \in Handlers : Hash(h) = k /\ pc[h] \in states

MarkOverlap(k) ==
    /\ crossed' = IF Busy(k, Midway) THEN crossed \cup {k} ELSE crossed
    /\ tangled' = IF Busy(k, Linking \cup Unlinking) THEN tangled \cup {k} ELSE tangled

Init ==
    /\ conn = [c \in Conns |-> "open"]
    /\ snap = [c \in Conns |-> {}]
    /\ visited = [c \in Conns |-> {}]
    /\ inflight = [c \in Conns |-> {}]
    /\ pc = [h \in Handlers |-> "idle"]
    /\ ret = [h \in Handlers |-> "done"]
    /\ err = [r \in Reqs |-> FALSE]
    /\ index = {}
    /\ bits = {}
    /\ old = [p \in Handlers \cup Conns |-> {}]
    /\ crossed = {}
    /\ tangled = {}
    /\ meta = {}
    /\ live = [r \in Reqs |-> FALSE]
    /\ pending = [r \in Reqs |-> {}]
    /\ batch = [r \in Reqs |-> {}]
    /\ asked = [r \in Reqs |-> {}]
    /\ eosed = [r \in Reqs |-> FALSE]
    /\ closed = [r \in Reqs |-> FALSE]
    /\ sent = [r \in Reqs |-> {}]
    /\ liveSent = [r \in Reqs |-> {}]
    /\ stored = {}
    /\ replica = {}
    /\ bpc = [e \in Events |-> "new"]
    /\ left = [e \in Events |-> {}]
    /\ found = [e \in Events |-> {}]
    /\ tgt = [e \in Events |-> CHOOSE r \in Reqs : TRUE]

-----------------------------------------------------------------------------
(* Mutated forms: the bugs the properties below would catch.               *)

\* Push ignores what arrives before EOSE.
CastPushDropped(e) ==
    /\ bpc[e] = "push"
    /\ bpc' = [bpc EXCEPT ![e] = "scan"]
    /\ UNCHANGED <<connVars, ctlVars, indexVars, meta, subVars, stored, replica, scanVars, liveSent>>

\* BroadcastNewEvents does not ask IsLive.
CastAlwaysLive(e) ==
    /\ bpc[e] = "check"
    /\ bpc' = [bpc EXCEPT ![e] = "write"]
    /\ UNCHANGED <<connVars, ctlVars, indexVars, meta, subVars, stored, replica, scanVars, liveSent>>

\* The deferred unlink is forgotten.
ReqWriteFailKeeps(r) ==
    /\ pc[r] = "eose" \/ (pc[r] = "flush" /\ batch[r] # {})
    /\ conn[ConnOf[r]] # "open"
    /\ pc' = [pc EXCEPT ![r] = "done"]
    /\ \E part \in SUBSET batch[r] : sent' = [sent EXCEPT ![r] = @ \cup part]
    /\ UNCHANGED <<connVars, ret, err, indexVars, meta, live, pending, batch, asked, eosed,
                   closed, castVars>>

\* The metadata is cleared without removing its subscriptions.
RangeClearEarly(c) ==
    /\ conn[c] = "ranging"
    /\ meta' = {r \in meta : ConnOf[r] # c}
    /\ conn' = [conn EXCEPT ![c] = "gone"]
    /\ UNCHANGED <<snap, visited, inflight, ctlVars, indexVars, subVars, castVars>>

\* handleReq returns the error of the stored query: the deferred function
\* unlinks, but CLOSED is not written.
ReqStreamFailSilent(r) ==
    /\ pc[r] \in {"stream", "page"}
    /\ pc' = [pc EXCEPT ![r] = IF r \in OneShot THEN "done" ELSE "close"]
    /\ ret' = [ret EXCEPT ![r] = "done"]
    /\ UNCHANGED <<connVars, err, indexVars, meta, subVars, castVars>>

-----------------------------------------------------------------------------
(* The Read loop starts a handler, go h.Handle(...), whatever other        *)
(* messages about the same ID are being handled.                           *)
Receive(h) ==
    /\ pc[h] = "idle"
    /\ conn[ConnOf[h]] = "open"
    /\ pc' = [pc EXCEPT ![h] = IF h \in Reqs THEN "recv" ELSE "close"]
    /\ UNCHANGED <<connVars, ret, err, indexVars, meta, subVars, castVars>>

(* handleReq: the REQ needs authentication the connection lacks, or asks   *)
(* for what the user may not read: closeSubscriptionWithReason.            *)
ReqReject(r) ==
    /\ pc[r] = "recv"
    /\ pc' = [pc EXCEPT ![r] = "close"]
    /\ ret' = [ret EXCEPT ![r] = "reply"]
    /\ UNCHANGED <<connVars, err, indexVars, meta, subVars, castVars>>

(* authRequiredReq: the AUTH message cannot be written; handleReq returns  *)
(* before anything was linked.                                             *)
ReqAuthFail(r) ==
    /\ pc[r] = "recv"
    /\ conn[ConnOf[r]] # "open"
    /\ pc' = [pc EXCEPT ![r] = "done"]
    /\ UNCHANGED <<connVars, ret, err, indexVars, meta, subVars, castVars>>

(* handleReq, linkSubscription: a one-shot REQ is not linked; any other is *)
(* indexed first and put into the connection's metadata afterwards.        *)
(* Matcher.Index: LoadAndStore, then the bits of the replaced value go,    *)
(* then the own ones are set.                                              *)
ReqIndex(r) ==
    /\ pc[r] = "recv"
    /\ IF r \in OneShot
       THEN /\ pc' = [pc EXCEPT ![r] = "stream"]
            /\ UNCHANGED indexVars
       ELSE /\ index' = Replace(index, r)
            /\ old' = [old EXCEPT ![r] = At(index, Hash(r))]
            /\ pc' = [pc EXCEPT ![r] = IF At(index, Hash(r)) # {} THEN "unbind" ELSE "bind"]
            /\ MarkOverlap(Hash(r))
            /\ UNCHANGED bits
    /\ UNCHANGED <<connVars, ret, err, meta, subVars, castVars>>

ReqUnbind(r) ==
    /\ pc[r] = "unbind"
    /\ pc' = [pc EXCEPT ![r] = "bind"]
    /\ bits' = bits \ BitsOf(old[r])
    /\ old' = [old EXCEPT ![r] = {}]
    /\ UNCHANGED <<connVars, ret, err, index, crossed, tangled, meta, subVars, castVars>>

ReqBind(r) ==
    /\ pc[r] = "bind"
    /\ pc' = [pc EXCEPT ![r] = "meta"]
    /\ bits' = bits \cup BitsOf({r})
    /\ UNCHANGED <<connVars, ret, err, index, old, crossed, tangled, meta, subVars, castVars>>

ReqSetMeta(r) ==
    /\ pc[r] = "meta"
    /\ pc' = [pc EXCEPT ![r] = "stream"]
    /\ meta' = Replace(meta, r)
    /\ UNCHANGED <<connVars, ret, err, indexVars, subVars, castVars>>

(* What a stored query of r returns: DB.replica() falls back to the        *)
(* primary when no read URL is configured.                                 *)
StoredFor(r) == (IF ReadReplica THEN replica ELSE stored) \cap Wants[r]

(* streamGiftWrapEvents: page after page is queried, for as long as they   *)
(* are full.                                                               *)
ReqPage(r) ==
    /\ pc[r] = "stream" /\ r \in Paging
    /\ pc' = [pc EXCEPT ![r] = "page"]
    /\ asked' = [asked EXCEPT ![r] = StoredFor(r)]
    /\ UNCHANGED <<connVars, ret, err, indexVars, meta, live, pending, batch, eosed, closed,
                   sent, castVars>>

(* streamEvents: the stored events are queried and written one by one.     *)
(* Pages miss no event that was stored all the time (module GiftWraps),    *)
(* and may have others.                                                    *)
ReqStream(r) ==
    /\ pc[r] = IF r \in Paging THEN "page" ELSE "stream"
    /\ pc' = [pc EXCEPT ![r] = "eose"]
    /\ IF r \in Paging
       THEN \E part \in SUBSET (asked[r] \cup StoredFor(r)) :
               /\ asked[r] \cap StoredFor(r) \subseteq part
               /\ sent' = [sent EXCEPT ![r] = @ \cup part]
       ELSE sent' = [sent EXCEPT ![r] = @ \cup StoredFor(r)]
    /\ asked' = [asked EXCEPT ![r] = {}]
    /\ UNCHANGED <<connVars, ret, err, indexVars, meta, live, pending, batch, eosed, closed,
                   castVars>>

(* streamEvents fails: the query did (an error, or the getter's minute ran *)
(* out), or a write to a closed connection, after any part of the result.  *)
ReqStreamFail(r) ==
    /\ pc[r] \in {"stream", "page"}
    /\ pc' = [pc EXCEPT ![r] = "close"]
    /\ ret' = [ret EXCEPT ![r] = "reply"]
    /\ err' = [err EXCEPT ![r] = TRUE]
    /\ \E part \in SUBSET (asked[r] \cup StoredFor(r)) :
          sent' = [sent EXCEPT ![r] = @ \cup part]
    /\ asked' = [asked EXCEPT ![r] = {}]
    /\ UNCHANGED <<connVars, indexVars, meta, live, pending, batch, eosed, closed, castVars>>

ReqEose(r) ==
    /\ pc[r] = "eose"
    /\ eosed' = [eosed EXCEPT ![r] = TRUE]
    /\ pc' = [pc EXCEPT ![r] = IF r \in OneShot THEN "close" ELSE "golive"]
    /\ ret' = [ret EXCEPT ![r] = IF r \in OneShot THEN "reply" ELSE @]
    /\ UNCHANGED <<connVars, err, indexVars, meta, live, pending, batch, asked, closed, sent,
                   castVars>>

(* A write to a closed connection returns an error; the deferred function  *)
(* of handleReq unlinks unless the subscription is one-shot.               *)
ReqWriteFail(r) ==
    /\ pc[r] = "eose" \/ (pc[r] = "flush" /\ batch[r] # {})
    /\ conn[ConnOf[r]] # "open"
    /\ pc' = [pc EXCEPT ![r] = IF r \in OneShot THEN "done" ELSE "close"]
    /\ \E part \in SUBSET batch[r] : sent' = [sent EXCEPT ![r] = @ \cup part]
    /\ UNCHANGED <<connVars, ret, err, indexVars, meta, live, pending, batch, asked, eosed,
                   closed, castVars>>

ReqSetLive(r) ==
    /\ pc[r] = "golive"
    /\ pc' = [pc EXCEPT ![r] = "drain"]
    /\ live' = [live EXCEPT ![r] = TRUE]
    /\ UNCHANGED <<connVars, ret, err, indexVars, meta, pending, batch, asked, eosed, closed,
                   sent, castVars>>

(* streamEventsBuffered: GetPending takes the buffer under the mutex, the  *)
(* events are written after it.                                            *)
ReqGetPending(r) ==
    /\ pc[r] = "drain"
    /\ pc' = [pc EXCEPT ![r] = "flush"]
    /\ batch' = [batch EXCEPT ![r] = pending[r]]
    /\ pending' = [pending EXCEPT ![r] = {}]
    /\ UNCHANGED <<connVars, ret, err, indexVars, meta, live, asked, eosed, closed, sent, castVars>>

ReqFlush(r) ==
    /\ pc[r] = "flush"
    /\ pc' = [pc EXCEPT ![r] = "live"]
    /\ sent' = [sent EXCEPT ![r] = @ \cup batch[r]]
    /\ batch' = [batch EXCEPT ![r] = {}]
    /\ UNCHANGED <<connVars, ret, err, indexVars, meta, live, pending, asked, eosed, closed,
                   castVars>>

-----------------------------------------------------------------------------
(* unlinkSubscription with an ID, called by CLOSE, by                      *)
(* closeSubscriptionWithReason and by the deferred function of handleReq.  *)
(* Matcher.Remove: LoadAndDelete, then the bits of the deleted value go;   *)
(* if there was one, Metadata.Delete follows.                              *)
UnlinkRemove(h) ==
    /\ pc[h] = "close"
    /\ index' = Without(index, Hash(h))
    /\ old' = [old EXCEPT ![h] = At(index, Hash(h))]
    /\ IF At(index, Hash(h)) # {}
       THEN /\ pc' = [pc EXCEPT ![h] = "closeBits"]
            /\ MarkOverlap(Hash(h))
       ELSE /\ pc' = [pc EXCEPT ![h] = ret[h]]
            /\ UNCHANGED <<crossed, tangled>>
    /\ UNCHANGED <<connVars, ret, err, bits, meta, subVars, castVars>>

UnlinkUnbind(h) ==
    /\ pc[h] = "closeBits"
    /\ pc' = [pc EXCEPT ![h] = "closeMeta"]
    /\ bits' = bits \ BitsOf(old[h])
    /\ old' = [old EXCEPT ![h] = {}]
    /\ UNCHANGED <<connVars, ret, err, index, crossed, tangled, meta, subVars, castVars>>

UnlinkDelete(h) ==
    /\ pc[h] = "closeMeta"
    /\ pc' = [pc EXCEPT ![h] = ret[h]]
    /\ meta' = Without(meta, Hash(h))
    /\ UNCHANGED <<connVars, ret, err, indexVars, subVars, castVars>>

(* closeSubscriptionWithReason writes CLOSED, or fails to on a closed      *)
(* connection; handleReq returns, and the deferred function unlinks the ID *)
(* once more when the stored query has failed.                             *)
ReqClosed(r) ==
    /\ pc[r] = "reply"
    /\ \/ closed' = [closed EXCEPT ![r] = TRUE]
       \/ conn[ConnOf[r]] # "open" /\ UNCHANGED closed
    /\ pc' = [pc EXCEPT ![r] = IF err[r] /\ r \notin OneShot THEN "close" ELSE "done"]
    /\ ret' = [ret EXCEPT ![r] = "done"]
    /\ UNCHANGED <<connVars, err, indexVars, meta, live, pending, batch, asked, eosed, sent,
                   castVars>>

-----------------------------------------------------------------------------
(* The transport fails under the writer before Read notices.               *)
Break(c) ==
    /\ conn[c] = "open"
    /\ conn' = [conn EXCEPT ![c] = "broken"]
    /\ UNCHANGED <<snap, visited, inflight, ctlVars, indexVars, meta, subVars, castVars>>

(* ReadMessage returns an error and unlinkSubscription(stream, nil) begins *)
(* to range over the metadata.                                             *)
ReadEnd(c) ==
    /\ conn[c] \in {"open", "broken"}
    /\ conn' = [conn EXCEPT ![c] = "ranging"]
    /\ snap' = [snap EXCEPT ![c] = {IdOf[r] : r \in {q \in meta : ConnOf[q] = c}}]
    /\ inflight' = [inflight EXCEPT ![c] =
                       {h \in Handlers : ConnOf[h] = c /\ Active(h)}]
    /\ UNCHANGED <<visited, ctlVars, indexVars, meta, subVars, castVars>>

(* sync.Map.Range yields each key at most once; a key stored meanwhile may *)
(* or may not be yielded.  Remove deletes the entry of its hash ...        *)
RangeRemove(c) ==
    /\ conn[c] = "ranging"
    /\ \E r \in meta :
          /\ ConnOf[r] = c /\ IdOf[r] \notin visited[c]
          /\ index' = Without(index, Hash(r))
          /\ old' = [old EXCEPT ![c] = At(index, Hash(r))]
          /\ conn' = [conn EXCEPT ![c] =
                         IF At(index, Hash(r)) # {} THEN "unbinding" ELSE "ranging"]
          /\ visited' = [visited EXCEPT ![c] = @ \cup {IdOf[r]}]
    /\ UNCHANGED <<snap, inflight, ctlVars, bits, crossed, tangled, meta, subVars, castVars>>

(* ... and then its bits.                                                  *)
RangeUnbind(c) ==
    /\ conn[c] = "unbinding"
    /\ bits' = bits \ BitsOf(old[c])
    /\ old' = [old EXCEPT ![c] = {}]
    /\ conn' = [conn EXCEPT ![c] = "ranging"]
    /\ UNCHANGED <<snap, visited, inflight, ctlVars, index, crossed, tangled, meta, subVars,
                   castVars>>

RangeClear(c) ==
    /\ conn[c] = "ranging"
    /\ \A r \in meta : ConnOf[r] = c /\ IdOf[r] \in snap[c] => IdOf[r] \in visited[c]
    /\ meta' = {r \in meta : ConnOf[r] # c}
    /\ conn' = [conn EXCEPT ![c] = "gone"]
    /\ UNCHANGED <<snap, visited, inflight, ctlVars, indexVars, subVars, castVars>>

-----------------------------------------------------------------------------
(* The event is committed to the database, replacing an older version of   *)
(* the same address, and its BroadcastNewEvents goroutine starts.          *)
Accept(e) ==
    /\ bpc[e] = "new"
    /\ stored' = {x \in stored : Addr[x] # Addr[e]} \cup {e}
    /\ bpc' = [bpc EXCEPT ![e] = "scan"]
    /\ left' = [left EXCEPT ![e] = Hashes]
    /\ UNCHANGED <<connVars, ctlVars, indexVars, meta, subVars, replica, found, tgt, liveSent>>

(* A later step of the event listener fails (command or storage            *)
(* AcceptEvents): the event is stored but never broadcast.                 *)
AcceptFail(e) ==
    /\ bpc[e] = "new"
    /\ stored' = {x \in stored : Addr[x] # Addr[e]} \cup {e}
    /\ bpc' = [bpc EXCEPT ![e] =
                  IF \E x \in stored : Addr[x] = Addr[e] THEN "failed" ELSE "inserted"]
    /\ UNCHANGED <<connVars, ctlVars, indexVars, meta, subVars, replica, scanVars, liveSent>>

(* rollbackIfErr after a failed consensus: what the accept inserted is     *)
(* deleted by its address.  An accept that replaced a version is not       *)
(* undone: replaceable_events_before_update is not filled.                 *)
AcceptUndo(e) ==
    /\ bpc[e] = "inserted"
    /\ stored' = {x \in stored : Addr[x] # Addr[e]}
    /\ bpc' = [bpc EXCEPT ![e] = "undone"]
    /\ UNCHANGED <<connVars, ctlVars, indexVars, meta, subVars, replica, scanVars, liveSent>>

(* The replica catches up with the primary.                                *)
Replicate ==
    /\ replica # stored
    /\ replica' = stored
    /\ UNCHANGED <<connVars, ctlVars, indexVars, meta, subVars, stored, bpc, scanVars, liveSent>>

(* Lookup, first half: under the shard's read lock the bitmaps of e's keys *)
(* are collected; a hash is in them or is passed over for good.  The       *)
(* shards are collected one after the other, here each hash on its own.    *)
CastCollect(e) ==
    /\ bpc[e] = "scan"
    /\ \E k \in left[e] :
          /\ left' = [left EXCEPT ![e] = @ \ {k}]
          /\ found' = [found EXCEPT ![e] =
                          IF \E key \in EventKeys[e] : <<k, key>> \in bits
                          THEN @ \cup {k} ELSE @]
    /\ UNCHANGED <<connVars, ctlVars, indexVars, meta, subVars, stored, replica, bpc, tgt, liveSent>>

(* Lookup, second half, without the lock: nothing is stored under the hash *)
(* any more or canForwardLiveEvent refuses what now is ...                 *)
CastSkip(e) ==
    /\ bpc[e] = "scan"
    /\ \E k \in found[e] :
          /\ ~ \E r \in index : Hash(r) = k /\ e \in Wants[r]
          /\ found' = [found EXCEPT ![e] = @ \ {k}]
    /\ UNCHANGED <<connVars, ctlVars, indexVars, meta, subVars, stored, replica, bpc,
                   left, tgt, liveSent>>

(* ... or the subscription stored under it is the next target.             *)
CastVisit(e) ==
    /\ bpc[e] = "scan"
    /\ \E r \in index :
          /\ Hash(r) \in found[e] /\ e \in Wants[r]
          /\ found' = [found EXCEPT ![e] = @ \ {Hash(r)}]
          /\ tgt' = [tgt EXCEPT ![e] = r]
    /\ bpc' = [bpc EXCEPT ![e] = "check"]
    /\ UNCHANGED <<connVars, ctlVars, indexVars, meta, subVars, stored, replica, left, liveSent>>

CastIsLive(e) ==
    /\ bpc[e] = "check"
    /\ bpc' = [bpc EXCEPT ![e] = IF live[tgt[e]] THEN "write" ELSE "push"]
    /\ UNCHANGED <<connVars, ctlVars, indexVars, meta, subVars, stored, replica, scanVars, liveSent>>

CastWrite(e) ==
    /\ bpc[e] = "write"
    /\ bpc' = [bpc EXCEPT ![e] = "scan"]
    /\ liveSent' = [liveSent EXCEPT ![tgt[e]] = @ \cup {e}]
    /\ UNCHANGED <<connVars, ctlVars, indexVars, meta, subVars, stored, replica, scanVars>>

(* The write fails on a closed connection: the error is only logged.       *)
CastWriteFail(e) ==
    /\ bpc[e] = "write"
    /\ conn[ConnOf[tgt[e]]] # "open"
    /\ bpc' = [bpc EXCEPT ![e] = "scan"]
    /\ UNCHANGED <<connVars, ctlVars, indexVars, meta, subVars, stored, replica, scanVars, liveSent>>

(* Subscription.Push: an event of the same address is overwritten.         *)
CastPush(e) ==
    /\ bpc[e] = "push"
    /\ bpc' = [bpc EXCEPT ![e] = "scan"]
    /\ pending' = [pending EXCEPT ![tgt[e]] =
                      {x \in @ : Addr[x] # Addr[e]} \cup {e}]
    /\ UNCHANGED <<connVars, ctlVars, indexVars, meta, live, batch, asked, eosed, closed, sent,
                   stored, replica, scanVars, liveSent>>

CastEnd(e) ==
    /\ bpc[e] = "scan" /\ left[e] = {} /\ found[e] = {}
    /\ bpc' = [bpc EXCEPT ![e] = "done"]
    /\ UNCHANGED <<connVars, ctlVars, indexVars, meta, subVars, stored, replica, scanVars, liveSent>>

-----------------------------------------------------------------------------
ReqStep(r) ==
    \/ ReqReject(r) \/ ReqAuthFail(r) \/ ReqIndex(r) \/ ReqUnbind(r) \/ ReqBind(r)
    \/ ReqSetMeta(r) \/ ReqPage(r) \/ ReqStream(r) \/ ReqStreamFail(r) \/ ReqEose(r)
    \/ ReqWriteFail(r) \/ ReqSetLive(r) \/ ReqGetPending(r) \/ ReqFlush(r) \/ ReqClosed(r)

CloseStep(h) == UnlinkRemove(h) \/ UnlinkUnbind(h) \/ UnlinkDelete(h)

ReadStep(c) == RangeRemove(c) \/ RangeUnbind(c) \/ RangeClear(c)

CastStep(e) ==
    \/ CastCollect(e) \/ CastSkip(e) \/ CastVisit(e) \/ CastIsLive(e)
    \/ CastWrite(e) \/ CastWriteFail(e) \/ CastPush(e) \/ CastEnd(e)

Next ==
    \/ \E h \in Handlers : Receive(h) \/ CloseStep(h)
    \/ \E r \in Reqs : ReqStep(r)
    \/ \E c \in Conns : Break(c) \/ ReadEnd(c) \/ ReadStep(c)
    \/ \E e \in Events : Accept(e) \/ AcceptFail(e) \/ AcceptUndo(e) \/ CastStep(e)
    \/ ReadReplica /\ Replicate

Spec == Init /\ [][Next]_vars

(* Goroutines that can run are run: every handler of a REQ that started    *)
(* goes on.  Nothing obliges a client to send or to disconnect, a          *)
(* broadcast may be stuck in a write for ever, and the pages of gift wraps *)
(* need not end: a full page of one timestamp is asked for again.          *)
Fairness ==
    \A r \in Reqs : WF_vars(CloseStep(r) \/ (pc[r] # "page" /\ ReqStep(r)))

FairSpec == Spec /\ Fairness
-----------------------------------------------------------------------------
UnlinkStates == {"close", "closeBits", "closeMeta"}
ReqStates == {"idle", "recv", "unbind", "bind", "meta", "stream", "page", "eose", "golive",
              "drain", "flush", "live", "reply", "done"} \cup UnlinkStates

TypeOK ==
    /\ conn \in [Conns -> {"open", "broken", "ranging", "unbinding", "gone"}]
    /\ snap \in [Conns -> SUBSET Ids]
    /\ visited \in [Conns -> SUBSET Ids]
    /\ inflight \in [Conns -> SUBSET Handlers]
    /\ pc \in [Handlers -> ReqStates]
    /\ ret \in [Handlers -> {"reply", "done"}]
    /\ \A k \in Closes : pc[k] \in {"idle", "done"} \cup UnlinkStates /\ ret[k] = "done"
    /\ err \in [Reqs -> BOOLEAN]
    /\ index \subseteq Reqs /\ meta \subseteq Reqs
    /\ bits \subseteq Hashes \X Keys
    /\ old \in [Handlers \cup Conns -> SUBSET Reqs]
    /\ crossed \subseteq Hashes /\ tangled \subseteq Hashes
    /\ live \in [Reqs -> BOOLEAN] /\ eosed \in [Reqs -> BOOLEAN]
    /\ closed \in [Reqs -> BOOLEAN] /\ asked \in [Reqs -> SUBSET Events]
    /\ pending \in [Reqs -> SUBSET Events] /\ batch \in [Reqs -> SUBSET Events]
    /\ sent \in [Reqs -> SUBSET Events] /\ liveSent \in [Reqs -> SUBSET Events]
    /\ stored \subseteq Events /\ replica \subseteq Events
    /\ bpc \in [Events -> {"new", "scan", "check", "write", "push", "done",
                         "failed", "inserted", "undone"}]
    /\ left \in [Events -> SUBSET Hashes]
    /\ found \in [Events -> SUBSET Hashes]
    /\ tgt \in [Events -> Reqs]

(* Another event of e's address was accepted: the promise about e is void, *)
(* the database and the buffer keep one version only.                      *)
Superseded(e) == \E f \in Events \ {e} : Addr[f] = Addr[e] /\ bpc[f] # "new"

(* No gap between the stored query and the live feed.  Once handleReq has  *)
(* put a subscription live, an event whose broadcast is over has been      *)
(* written to the client or is in the subscription's buffer, whatever the  *)
(* order of the commit, the Index, the query, SetLive and the broadcast.   *)
(* It is why linkSubscription precedes streamEvents.  Messages about its   *)
(* ID may be handled at the same time; only when two of them were inside   *)
(* Index or Remove at once nothing is promised, since the later half of a  *)
(* Remove may wipe the bits of what replaced its value.                    *)
NoGap ==
    \A r \in index, e \in Events :
       /\ pc[r] = "live" /\ conn[ConnOf[r]] = "open" /\ bpc[e] = "done" /\ e \in Wants[r]
       /\ Hash(r) \notin crossed
       => \/ e \in sent[r] \cup liveSent[r] \cup pending[r]
          \/ Superseded(e)

(* Every event accepted while a subscription is being set up reaches its   *)
(* client: what is buffered before EOSE is sent after it.                  *)
AllForwarded ==
    \A r \in index, e \in Events :
       pc[r] = "live" /\ conn[ConnOf[r]] = "open" /\ bpc[e] = "done" /\ e \in Wants[r]
       => \/ e \in sent[r] \cup liveSent[r]
          \/ Superseded(e)

(* A subscription receives live events only after its EOSE, although the   *)
(* broadcasts find it in the index from the start.                         *)
LiveAfterEose ==
    \A r \in Reqs : liveSent[r] # {} => eosed[r]

(* A REQ that failed or was one-shot is not left in the index, by whatever *)
(* error path handleReq was left.                                          *)
FailedUnlinked ==
    \A r \in Reqs : pc[r] = "done" => r \notin index

(* When a connection is closing its subscriptions are removed: once Read   *)
(* has returned, only a REQ that was still being handled when the clean-up *)
(* began can have an entry in the index, or one whose ID was linked and    *)
(* unlinked by two handlers at the same time, so that the metadata is not  *)
(* what the index has.                                                     *)
CleanupRemovesSettled ==
    \A c \in Conns : conn[c] = "gone" =>
       \A r \in index : ConnOf[r] = c => r \in inflight[c] \/ Hash(r) \in tangled

(* A subscription that went live stays indexed until its own connection    *)
(* ends or a later message on the same connection names its ID: no other   *)
(* client, no rejected or failed REQ of another ID unlinks it.             *)
LiveStaysLinked ==
    \A r \in Reqs :
       /\ pc[r] = "live" /\ conn[ConnOf[r]] \in {"open", "broken"}
       /\ \A h \in Handlers \ {r} : Hash(h) = Hash(r) => pc[h] = "idle"
       => r \in index

(* Both: unlinkSubscription removes what belongs to the connection and     *)
(* nothing else.                                                           *)
CleanupExact == CleanupRemovesSettled /\ LiveStaysLinked

(* Every REQ a handler was started for is answered with EOSE or CLOSED     *)
(* unless its connection fails, whatever fails in the stored query; only   *)
(* the paging of gift wraps may keep a client waiting for ever.            *)
Answered(r) == eosed[r] \/ closed[r] \/ conn[ConnOf[r]] # "open"
ReqAnswered ==
    \A r \in Reqs : pc[r] = "recv" ~> Answered(r) \/ [](r \in Paging /\ pc[r] = "page")
=============================================================================
