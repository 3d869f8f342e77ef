# Verification of the subzero relay

TLA+ specifications of the parts of subzero whose correctness depends on the
order in which goroutines, connections, databases and other relays act, with the
TLC runs that check small instances and the TLAPS proofs that cover every
instance.

## 1. The system

Subzero is a Nostr relay written in Go. A client holds a websocket (or
webtransport) connection and sends `EVENT`, `REQ`, `COUNT`, `CLOSE` and `AUTH`
messages. Accepted events are stored in PostgreSQL, handed to the other parts of
the relay, sent to the other relays of their users, and broadcast to the
subscriptions whose filters they match.

| Component | State it keeps | Operations | Hard part | Correct when |
|---|---|---|---|---|
| websocket handler, subscriptions (`server/ws`, `model/subscription.go`) | subscription index, metadata of a connection, `live` flag and `pending` buffer of a subscription | REQ, CLOSE, EVENT, COUNT, BroadcastNewEvents, clean-up | every message has a goroutine of its own; hand-over from stored to live events; clean-up against late handlers | nothing falls between stored and live; each REQ is answered |
| subscription index (`event-matcher`) | `Values` (concurrent map), `Indexes` (bitmaps under a mutex), two shards per CPU | Index, Remove, Lookup | two structures, two locks | a lookup misses nothing that stays indexed |
| filter matching (`model/filter.go`, `event-matcher/filter.go`, `event.go`) | none | parseFilters, parseEvent, FiltersMatch | a prefilter that must not lose what the exact match accepts | stored and live answers agree |
| adapters (`server/ws/internal/adapters`) | write queue, close channel | WriteMessage, Write, Close | full queue, close against send | writes return, close is harmless |
| authentication, attestations (`server/ws/auth.go`, `server/auth`, `model/onbehalf.go`) | session of a connection, attestation lists | AUTH, publishing for a master key | check-then-set; lists change under open sessions | what is stored was allowed at that moment |
| communities (`validation_icip_3000.go`, `_4000.go`) | definition, patches, joins, bans | the validators of each | validated, then stored; patches out of order | roles bound what a request changes |
| event store, query builder (`database/query`) | events table, undo records | AcceptEvents, CommitEvents, RollbackEvents, stored queries, expiry | batches that fail half-way, dependants, rollback | undo complete, no reference dangles |
| connector (`database/query/internal/connector`) | active master, preferred master, watchers, pools | calls with retries, switch, return to the preferred master | switches race each other and the watchers | the active pool is open and of the current master |
| status tracker and state machine (`status.go`, `tracing/statefsm`) | queue of 100, error window | submit, worker | dropped and reordered reports | the status follows the operations |
| job queue (`rq`) | River client, active pool | Push with retries and switch | an insert whose answer is lost | a job is stored once, a push ends |
| broadcaster (`server/broadcaster`) | cached relay connections | BroadcastTo, Broadcast, Close | eviction by URL, channel of results | no connection is lost, calls return |
| data vending machine (`dvm`) | jobs, cache of responses, price rows | request, stop, result, price alert | double IDs, deadlines, expiry, repeated jobs | each job is answered, alerts keep their distance |
| push notifications (`push-notifications`) | device cache (two maps and an index), queued jobs | registration, deletion, send, remote push | tasks in any order, pool tasks that wait for pool tasks, dead tokens, restart | cache and database agree, calls end |
| file storage (`storage`) | files, bags, download queue | upload, delete, promote, download, restart | bags built from shared sets of files; replaced while they download | answered uploads stay, no stored torrent is forgotten |
| consensus commands (`database/command`) | none | callbacks around the event store | disabled in the build | see event store |
| statistics senders (`hashtags-sender`, `nft-content-sender`, `followers-sender`) | queue of hashtags, channel of batches | a pool task per accepted message, batches, repeated requests | a queue taken over by several tasks; news decided by a version read earlier | nothing lost or sent twice, services know the stored version |
| HTTP API, server shell, transport | configuration | request parsing, start-up | | pure I/O |

How they interact: `Handle` (ws.go) validates an event against what is stored and
calls the registered event listener (`cmd/subzero-ion-connect`), which stores it
(`query.AcceptEvents`, through the connector), agrees on it (`command.AcceptEvents`,
which may call `query.RollbackEvents`), hands it to `storage`, `dvm` and
`push-notifications`, and only then submits `BroadcastNewEvents`; that looks the
event up in the subscription index and writes to connections or pushes into the
buffers of subscriptions. A REQ links itself into the index, queries the event
store (a read replica when one is configured), writes EOSE, goes live and drains
its buffer. Work for other relays goes through the job queue and the broadcaster.

## 2. Modules

| Module | Models | Extends |
|---|---|---|
| `Subscriptions` | life of a REQ, CLOSE, the Read loop's clean-up, accept and broadcast of events | |
| `EventMatcher` | one shard of the index, in the atomic steps of its two locks | |
| `FilterIndex` | routing keys and exact match, as operators | |
| `LiveFilter` | what is forwarded: candidates of the index that match exactly | `FilterIndex` |
| `StoredQuery` | what a stored query selects, beside the live match | `LiveFilter` |
| `GiftWraps` | pages of gift wraps, and the clean-up of expired events | |
| `Requests` | the answers to a REQ and the index together | `StoredQuery`, `GiftWraps`, `EventMatcher` |
| `Adapters` | WriteMessage, the Write goroutine and Close | |
| `EventStore` | AcceptEvents, CommitEvents, RollbackEvents, statement by statement | |
| `Sessions` | attestations, AUTH, publishing for a master key | |
| `Communities` | definition, patches, joins, bans, posts and deletions of a community | |
| `Access` | the two above together | `Sessions`, `Communities` |
| `Servers` | the database masters (external): they crash and recover | |
| `Connector` | writes, switches and watchers of the event store's connector | `Servers` |
| `JobQueue` | Push and its switch | `Servers` |
| `Outbox` | what the job queue promises (abstract) | |
| `StatusTracker` | reports, the bounded queue, the state machine | |
| `Broadcaster` | connections to other relays, Broadcast and BroadcastTo | |
| `Backends` | the four clients of other servers together | `Connector`, `JobQueue`, `StatusTracker`, `Broadcaster` |
| `DVM` | jobs, responses, price alerts | |
| `Push` | device cache, notifications, jobs | |
| `Storage` | the files and bags of one user | |
| `Senders` | the three senders of statistics | |
| `Consumers` | the two above together | `Storage`, `Senders` |
| `MC*` | bounded instances for TLC | the module of that name |
| `*Proofs` | theorems | the module of that name; `ConnectionsProofs` `Adapters` and `Access` |

`Access`, `Requests`, `Backends` and `Consumers` put components side by side that share
an input (stored events, a REQ, the servers, accepted messages) and do not read each other's state; a behaviour
of theirs follows one component, named by a variable that never changes, so that
the states of the others do not multiply. `MaxCrashes` is a bound for each of them.

### Subscriptions

State: `index` and `bits` are the two structures of `handler.Subscriptions` (`Values` and
`Indexes`), `meta` the metadata of the connection; `live`, `pending` and `batch` are
`Subscription.live`, `Subscription.pending` and the local result of `GetPending`;
`stored` and `replica` are the events of the primary and of a read replica; `pc`, `bpc`
and `conn` are the program counters of message handlers, of the broadcast of each event
and of the Read loop of each connection; `ret` is where a handler returns to from
`unlinkSubscription`; `old` is what a caller took out of `Values` and has still to take
out of the bitmaps; `left`, `found` and `tgt` are the state of a `Lookup` iteration;
`sent`, `liveSent`, `eosed` and `closed` record what was written to the client, `asked`
what the pages of gift wraps could read. `snap` and `visited` are the range over the
metadata. Three histories name the overlaps the code does not exclude: `inflight`, the
handlers that were running when the clean-up of their connection began; `crossed`, the
hashes that two callers were changing in the matcher at the same time; `tangled`, those
that two handlers were linking or unlinking (matcher and metadata) at the same time.

A REQ stands for its `*model.Subscription`; every message has a handler of its own, and
nothing keeps the client from sending the next one before the last was answered
(`ws.go:109`). `handleReq` is split at every point where another goroutine can act:
the matcher's Index is LoadAndStore, the removal of the old bits and the adding of the
new ones (`ReqIndex`, `ReqUnbind`, `ReqBind`), then metadata (`ReqSetMeta`), query and
writes (`ReqStream`, `ReqStreamFail`; pages of gift wraps, which may go on for ever,
`ReqPage`), EOSE (`ReqEose`), `SetLive` (`ReqSetLive`), `GetPending` (`ReqGetPending`),
writing the buffer (`ReqFlush`). `unlinkSubscription` is LoadAndDelete, the removal of
the bits and the deletion of the metadata (`UnlinkRemove`, `UnlinkUnbind`,
`UnlinkDelete`); a CLOSE, `closeSubscriptionWithReason` (followed by `ReqClosed`) and the
deferred function of `handleReq` share it. The clean-up of the Read loop is
`RangeRemove`, `RangeUnbind` and `RangeClear`. `BroadcastNewEvents` is `CastCollect`
(the bits of one hash after the other), `CastSkip` and `CastVisit` (values after it),
`CastIsLive`, `CastWrite`, `CastPush`. The accept of an event is one step (`Accept`);
`AcceptFail` is an accept that stored the event and failed later in the listener,
`AcceptUndo` the rollback that deletes it. Versions that were replaced are not restored,
because the trigger that fills `replaceable_events_before_update` is dropped
(`ddl/00009_events_triggers.sql:338`).

Abstractions: the events a REQ's filters match and its user may see are a constant
set `Wants[r]`, and the routing keys of its filters and of an event are constants which
share a key where the event is wanted (`RoutingAssumption`; that they do is
`PrefilterSound` of `RequestsProofs`). A write is one step that may fail only when the
connection is no longer open; the stored query and its writes are one step (the events it
returns are the ones committed at that moment, a later commit is found by its broadcast;
`GiftWraps` has the pages in detail). `ReadReplica` says whether stored queries go to a
replica that lags.

### EventMatcher

`values` is `Values`, `bits` the pairs of routing key and hash that `Indexes`
holds. `Index` is `IndexStore` (LoadAndStore), `IndexDrop` (removeEntry of the old
keys, under the mutex) and `IndexAdd`; `RemoveByHash` is `RemoveLoad` and
`RemoveDrop`; `Lookup` is `LookupCollect` under the read lock and one `LookupYield`
per hash without it. Callers of one hash may overlap, as the handlers of one subscription
ID do: `crossed` is the history of hashes that had two writers at the same time,
`doubtful` what a lookup found it to be when it collected its bitmap.

### FilterIndex, LiveFilter, StoredQuery

Filters are records of kinds (a sequence, because an exclusion only counts before
the kind it is compared with), authors, tag patterns and the fields that have no
routing key. `parseFilters` and `parseEvent` are the sets of routing keys;
`FiltersMatch` is the exact match; `MatchesTags` belongs to the nostr library and is
modelled from its use. Lists are sets: a repeated author counts once towards the
Cartesian limit here and twice in the code, which moves the limit but not what is
indexed on either side of it.

`StoredQuery` has one operator per condition of the WHERE clause (`ApplyFilterKinds`,
`ApplyFilterTags`, ...), over the columns that `toDatabaseEvent` and `FromTags` fill.
`PlainFilter` and `PlainRow` are the filters and rows that both sides read alike;
what they exclude is where the stored and the live answer differ by design or by
accident: exclusions, search flags, topics and languages, empty lists, zero
timestamps, patterns that end in a wild card, other keys of the user, community
posts and soft-deleted rows. Any tag name that begins with an exclamation mark is an
exclusion to the stored query and a tag like others to the live match (`Excluded`). The
live feed asks the community of an event (`canForwardCommunityEvent`, the constant
`Admitting`) and the stored query does not; of the p tags of a gift wrap the row keeps the
last (`lastP`), while the live match accepts any, so that a gift wrap to several receivers
is answered to the last of them only and forwarded to each. `Ask` is a REQ with the filters of the subscription
once the event is stored.

### GiftWraps

`versions` is the sequence of contents of the table; a page reads any version a
replica has not gone past, so that two pages may be read from different replicas in
the wrong order. `steady` is the history of rows that were in all of them. Ties of
`created_at` are broken either way. `deleteExpiredEvents` deletes in batches while
the pages are read.

### Adapters

One module for the two adapters, which differ in where a frame is written: `kind`
says whether the connection is a websocket (a channel of capacity `Capacity` between
WriteMessage and the Write goroutine, which also queues pings) or a webtransport
stream (a channel without buffer, which Close closes too). A call of WriteMessage is
`Cancellable` when its context ends with the connection (handlers) and is not when it
comes from a broadcast. `Close` is its atomic swap, the close of the channels and the
close of the connection, in the order of the code; several goroutines call it. A send
on a closed channel is the state `panicked` of that call. Frames are model values;
their bytes are left out.

### EventStore

A batch is one call of AcceptEvents, told from others by the hash of its events, and
may store events (`Save`) and delete them (`Kill`, a sequence of delete filters).
`table` is the events table, `undo` is `rollbackableEvents`, `work` the record the
running call builds, `front` the addresses whose dependants the loop of `deleteEvents`
deletes next. Each SQL statement is one step; statements of other batches come in
between, and a statement of a batch in `Faulty` may fail. `AcceptSave` is
`executeSave`, `AcceptDelete` and `AcceptCascade` are `deleteEvents`, `AcceptFinish` the
end of `executeBatch`; `RollbackDelete`, `RollbackCascade` and `RollbackSave` are the
same in the reverse order, from the undo record. `before`, `touched`, `foreign`
and `faulted` are histories used by the properties.

A repost brings the event it reposts with it. When that event has no row, the trigger
stores a hidden one (`hidden`), and the repost is tied to the row by the foreign key
`reference_id` (`link`). The key is `ON DELETE CASCADE` (`ddl/00002_events.sql:28`): a
deletion, or a version that marks its row as deleted (`Soft`), takes the linked reposts
along (`Fallen`) without returning them. They are on no undo record and in no next level,
so they count as `foreign`. `Unwind` is what a save does to the hidden
rows and the links.

Abstractions: an event is a model value with an address, a digest (`system_id`), the
addresses it refers to and its place in a tokenized community; the rights of the
author of a delete request are taken to be checked, that is, `Kill` names events it
owns (`Communities` has the other case; the disjunct of the delete filter for events
stored on behalf of another could also reach hidden rows, which is left out). The query
for dependants is built like that of a REQ, with the conditions it adds on its own: a
post of a community and a gift wrap of somebody else are not seen by it (`Seen`) and
survive. The constraint on digests is checked at the end of the statement.

What a rollback does not undo is in the list of `Undoable`, the precondition of
`RollbackRestores`: replaced versions (their backup trigger is dropped), events that
were stored before and accepted again, events that refer to what is rolled back, events
the batch both stored and deleted (the test of the rollback in `query_batch_test.go`
counts them as restored), community events, and a second application of the record.

### Sessions

`list` is the stored attestation list of one master key, `session` the
`UserDataContext` of a connection, `auths` and `posts` the messages being handled.
`handleAuth` is `AuthStart` (the check) and `AuthEnd` (ValidateUserAccess and
authConnSet), with other messages in between. `Entry` is what
`ParseAttestationTags` makes of a list: each tag overwrites what its action sets, so the
last tag of each action (`LastTag`) decides; `UpdateAllowed` and `AllowedOnInsert` are the
functions of the database triggers, the second over the rows of `event_tags`, in which a
tag that repeats an earlier one of its list has none (`NewestRow`, `RepeatsItself`); `Accepted` the path of a list that travels with the event
(`verifyEphemeralAttestation`). Signatures are taken to be valid. An EVENT takes from
the session only what it says at the start, so no AUTH is run beside one; the list,
the clock and the relay list do change.

### Communities

`store` holds the events of one community, `inflight` the requests that were
validated and not yet stored. Each validator is an operator over the definition that
`getCommunityDefinition` returns, that is, the newest definition with all patches
applied in the order of their dates. `fresh` records that nothing was stored since a
request was validated. A join is of the user its p tag names, whoever sends it. What
definitions, patches and joins may say are the constants `Definitions`, `Changes` and
`Joins`. Tags are tuples; the ones the validators do not read are left out.

### Servers, Connector

`up` is the set of masters that answer. A call is `Begin`, `Acquire`, `Execute`, and
after an error of a dead master `LoadActive`, `SwitchMaster`, `ClosedPool` and `Retry`
or `GiveUp`. `watch` holds the goroutines of `connectToPreferredMasterOnceAvailable`
and of the postponed detection, `handle` the cancel function that a later switch
calls, `drain` the goroutines of `waitPoolFreeToClose`. Pools are named by numbers and
reused when nobody refers to them, which keeps the state finite.

### JobQueue, Outbox

A push is `Push`, `Insert`, `Reply` (the answer, which a dead master loses), and after
an error `HealthCheck`, `TrySwitchMaster` and `Reinit` (the close of the old pool waits
until nobody has a connection of it, `Drained`; then the new one is migrated); its context may end it at each of them
(`Abandon`), during a switch or a migration too. `Outbox` is the abstract
specification: ask, store, answer or cancel. The mapping is the identity on `want`,
`result` and `rows`; the pools, the lock and the program counters are hidden.

### StatusTracker, Broadcaster

A report is stamped (`Submit`) before it is sent (`Enqueue`), so reports reach the
worker out of order or are dropped. `FSM.Push` is `Failed` and `Succeeded`.

A goroutine of the broadcaster is `EnsureHit` or `Connect`, `Authenticated`,
`Publish`, `Evict`, `Close`, `Report`; `locked` is the lock of an entry of the map.
`owner` says whose broadcaster it is: the one of the push manager makes connections
with the context of a job, which end with it and stay in the map.

### DVM, Push, Storage, Senders

`DVM`: `Jobs` is the map of running jobs, `proc` the goroutines, `entry` and `maps` the
response cache (an entry points to a map that goroutines also hold), `rows` the table
of price requests, one for a device and a token and one for a device and all tokens of a
user (`Subscribers`, `Generic`, `DeviceOf`). `displaced` is the history of the responses
in a map that a submission begun before an expiry put its older map in place of.

`Push`: `byId`, `byKey` and `index` are the device cache, changed in steps of their own.
A deletion removes from the database what its author owns and names by ID, by address or
by naming nothing (the account) (`Owned`), and from the cache what it names by ID,
whoever owns it (`Named`). `raced`, `left` and `stale` are the keys for which the code
does not keep cache and database together (overlapping operations on one device; a
registration whose price request fails, or a deletion that means different things to the
two; rows left by a restart). Any number of events is handed to the pool; a call waits
for a goroutine (`PoolSize`), and in one it waits for its notifications, which need
another: `Jammed` is the pool full of such calls.

`Storage`: `ub` is the key that names the user's bag, `torrents` the stored torrents,
`queue`, `loop` and `active` the download queue and its slots; a bag is what it holds and
who made it. An announcement is handled in the writes of the code: the old bag is stopped
and perhaps removed (`newBagIDPromoted`), the new one named (`saveBagPerUser`), stored
(`download`) and queued (`Enqueue`), with a crash possible between any two. `stalled` are
torrents the code leaves neither queued nor downloading until the next start: their
request was cancelled, the library did not start them, or they were stopped while the
loop was starting them (`ItemStarted` stores them stopped, and the slot is kept).

`Senders`: `before` is the table as the statement of a message saw it, from which
`Event.Previous` comes; `notice` is where the pool task of the NFT or the followers
sender is (compare, load, send, and how it ended); `pending`, `held`, `toSend` and
`hand` are the places a hashtag passes: `eventsQueue`, the copy of a task, the channel,
and the batch `startSender` posts. An event is its kind and what the senders look at.
The messages are of one user. Whether a note is a comment, a community post or a story
is one flag (`aside`), and the pauses between repetitions are left out.

## 3. Runs

| Run | Checks | Bounds |
|---|---|---|
| `SubHandOff` | `NoGap`, `LiveAfterEose`, `FailedUnlinked`, `CleanupExact` | 2 REQs of one ID handled at once, one with pages of gift wraps, 1 event: two is what it takes to replace an entry while a broadcast holds the old one. A REQ that is rejected or fails closes its ID by the steps of a CLOSE |
| `SubAnswer` | `ReqAnswered` (liveness) | a one-shot REQ and one with pages, of one ID, 1 event, lagging replica |
| `SubLost` | `AllForwarded`, violated | 1 REQ, 1 event |
| `MatcherOverlap` | `LookupFindsEvery`, violated | the instance of `LiveMatch` |
| `LiveMatch` | `MatchingIsForwarded`, `StoredMatchesLive`, `AnswerVisible`; `PagesComplete`, `PagesEnd` (liveness); `IndexesAgree`, `LookupFindsAll` | 9 kind lists, 3 author sets, 7 tag sets, filters with each stored condition and exclusions of 4 names, pairs of filters; 72 routed events and 23 with what the stored query looks at (communities that admit and one that does not, gift wraps with one and with two receivers), limit 2 so that both branches occur; 4 gift wraps with repeated timestamps, pages of 2, 2 changes of the table: a page boundary falls inside a timestamp; 4 values over 2 hashes, 2 removals, 1 lookup, 3 keys: three writers of one hash overlap |
| `AdapterWrites` | `CloseHarmless`, `WritesReturn`, `AcceptedIsWritten` (liveness) | 2 handlers and a broadcast against a channel of 2: one more writer than it holds |
| `StoreRollback` | `UndoComplete`, `NoOrphans`, `RollbackRestores`, `CallsEnd` (liveness) | 3 batches: a replay that stores a post, a reply that belongs to a community, a definition and a version of an article that marks its row as deleted; one that stores another version, a list and a repost of the post and deletes the reply; one that deletes the post and may be repeated. Article and list refer to each other; statements of two batches may fail |
| `Access` | `AccessFollowsHistory`, `StoredAllowed`, `KeyKept`; `DefinitionConsistent`, `RolesRespected` | 1 device, lists of 3 tags and 3 instants: active, inactive, active again, or revoked, with equal dates; 2 AUTHs at a time. 3 users, 3 stored events, one overtaken request: a definition and two patches in any order, which close and open the community, or promote and dismiss the moderator, so that the order counts; joins that name the moderator |
| `Backends` | `FailoverSound`, `StatusFollowsOperations`, `BroadcastSound`, `ImplementsOutbox`, `PushEnds`, `BroadcastEnds` (liveness) | 2 masters; 2 writers, 1 crash, 2 watchers and 1 return; 2 pushers and 2 crashes; queue of 2, threshold 2, 4 reports; 2 broadcasts to 2 relays and 1 fault: one user has more relays than the channel has room |
| `DVM` | `EntriesRun`, `ResponsesFound`, `AlertsSpaced`, `JobsAnswered` (liveness) | a job sent twice and a stop, a job and a trade, or two trades within one window, one device with a request for the token and one for all tokens; 1 expiry, 2 repetitions |
| `Push` | `CacheCurrent`, `CallsEnd` (liveness) | 2 registrations of one device, a deletion by ID and address, 2 posts, a pool of 2 for all 5 calls and their notifications, so that it can jam, 1 restart |
| `Consumers` | `UploadsStored`, `TorrentsFetched`, `UploadAdds`; `SendersSound` | 2 files, 2 requests at a time and 3 in all, 2 announced bags, 1 slot, 1 restart. 3 messages with hashtags against a queue and a channel of 2, so that a batch is dropped; 3 profiles (or 2, or content) and 3 follow lists that overtake each other, 1 repetition |

The first invariant of a module includes its type invariant (`AccessFollowsHistory`,
`DefinitionConsistent`, `FailoverSound`, `EntriesRun`, `CacheCurrent`,
`UploadsStored`). Deadlock is not checked: all runs may stop, because all messages of
the instance have been handled. The two violated runs are disagreements between the code
and a test or a comment; `PROJECT.json` quotes them under `findings`. Each property that holds has a
mutated definition that violates it (operators commented "mutated" or "Mutant").

Conditions under which properties hold, and what happens outside them:

* `NoGap` counts an event in the buffer as kept. `SubLost` shows that an event pushed
  after the buffer was drained stays there. It exempts IDs with `crossed` matcher calls:
  the late half of a Remove wipes the bits of the REQ that was indexed meanwhile, which is
  then live and never found (`matcher.go:131`), the case of `MatcherOverlap`.
* `CleanupExact` exempts REQs that were being handled when the clean-up began, and IDs
  that two handlers linked or unlinked at the same time (`tangled`). The comment says
  "Connection is closing, remove all subscriptions." (`subscriptions.go:136`), but
  the clean-up waits for no handler (`ws.go:109` starts one per message): a REQ that links
  while or after it ranges over the metadata stays in the index, and since WriteMessage to
  a closed connection need not fail, `handleReq` does not unlink it either.
* `ReqAnswered` does not hold of a REQ whose pages of gift wraps repeat for ever; see
  `PagesEnd`, which fails where one timestamp has a full page of rows (`Crowded`).
* `IndexesAgree` and `LookupFindsAll` exempt the hashes that had two writers at the same
  time. A removal between the store and the add of an Index also leaves bits that
  nothing removes (`matcher.go:91`).
* `MatchingIsForwarded` is about direct matches of uniform filters. A filter that
  names one key of a user is no candidate for events signed with the user's other key,
  and one that only excludes kinds forwards nothing live (`model/filter.go:35`, `:81`),
  although stored queries answer it.
* `EventStore` protects tokenized communities in the last delete filter of a batch
  only: `BuildForDelete` joins the filters with OR and appends the protection with AND
  (`query_where_builder.go:1810`).
* `RolesRespected` is about requests that were not overtaken between validation and
  storage. It and `DefinitionConsistent` are about definitions that name a user and each
  kind of access once: of repeated tags a patch removes the first only
  (`validation_icip_4000.go:441`), and the role of a user is that of the first tag left.
* `StoredAllowed` exempts devices whose latest attestation repeats an earlier one. The
  trigger says "If the latest action is 'inactive', 'revoked', or anything else, permission
  is denied." (`ddl/00001_functions.sql:227`), but reads the newest row of `event_tags`
  (`:191`), and a repeated tag has none (`ON CONFLICT DO NOTHING`,
  `ddl/00021_event_tags_tx_index.sql:35`, `:110`): after inactive:1, active:1, inactive:1
  the device may store events, although `IsAccessAllowed` denies it.
* `UndoComplete`, `NoOrphans` and `RollbackRestores` are about rows that statements
  returned. The reposts that fall with a deleted event (`ddl/00002_events.sql:28`,
  linked by `ddl/00009_events_triggers.sql:188`) are on no undo record and stay away after
  a rollback, and what refers to them stays behind. `TestDeleteNestedEvents` restores all
  rows about an event (`query_test.go:1139`); none of its rows is a repost. `NoOrphans`
  also leaves out the dependants the query cannot see.
* `StatusFollowsOperations` is about the reports the worker was given; what a full
  queue drops the status does not know. The failures it counts need not be consecutive: a
  success while healthy leaves `errCounter` as it is (`statefsm/fsm.go:96`), although the
  comments say "Threshold for consecutive failed operations before marking the database as
  unhealthy." (`status.go:15`), "Indicates if the last N write operations failed."
  (`status.go:26`) and "Count of consecutive failed operations." (`fsm.go:20`). A burst of `2 * Threshold - 1` failures within
  a window is always noticed, `Threshold` of them may be split over two windows.
* `PushEnds` ends in a wedge when a migration fails after a switch: the River client
  keeps the closed pool while the active pool answers the health check (`rq/client.go:256`).
  `Wedged` is that state while nobody is switching, and the push stays in it for ever.
* `ResponsesFound` exempts the responses that a late Set displaced: the map of a user is
  got, filled and set again in separate calls, and when the entry expires in between,
  another response is put into a new map, which this Set replaces by the old one
  (`dvm/events_storage.go:86`). The test of concurrent submissions requires that all are
  found (`events_storage_test.go:69`); its entry does not expire.
* `AlertsSpaced` is about one price request. A device may have one for a token and a
  generic one, since the conflict of the INSERT is on token and device
  (`query_pn_price.go:101`), although the comment says "but not both for the same device"
  (`:98`); a trade of the token matches both (`:334`) and the device is alerted twice.
* `CacheCurrent` is about devices whose operations did not overlap, and which no deletion
  since treated differently in the two places. `removeDevicesIfAny` collects only "e" tags
  (`devices.go:214`) and asks for no owner: a deletion by address, or of the account,
  removes the registration from the database (`query_where_builder.go:133`, `:1776`) and
  leaves the device in the cache until a restart, although "If there are no 'k' tags, we
  treat it as a deletion of all kinds, including device registrations." (`devices.go:199`);
  a stranger's deletion by ID does the opposite.
* `CallsEnd` of `Push` ends in a jam when the calls fill the pool they submit their
  notifications to (`pushnotifications.go:801`); nothing in the code bounds the callers.
* `TorrentsFetched` exempts torrents that stalled since the last start. A crash between
  the removal of a bag and the write of its successor leaves no torrent that nobody
  fetches, but the removed bag is gone until the next announcement. Announcements are of
  bags of other relays (`AnnouncedAssumption`); the event listener passes those of bags
  made here as well (`subzero_ion_connect.go:195`).
* `SendersSound` is about versions whose save did not overlap another one. `Previous` is
  what the snapshot of the statement had (`query.go:824`, one statement, not a
  transaction): of two concurrent profiles the later may have the wallet of the version
  before both and is then not reported. Reports that fail, or whose attestation the
  replica does not have yet, are not made up for, and of two BSC wallets the comparison
  takes any (`nftcontentsender.go:73`). Batches a full channel refuses are dropped, and
  the queue is only looked at when the next hashtag comes (`hashtagssender.go:113`).
* `UploadAdds` is about an upload that runs alone from a settled state; what two of
  them at a time leave depends on their order, until the next upload or deletion.

### Fairness

* `SubAnswer`: weak fairness of the steps of every REQ handler that was started, except
  in the pages of gift wraps. The Go scheduler runs every runnable goroutine; database
  calls return (they have time-outs) and so do the writes of a handler, which is
  `WritesReturn` of `AdapterWrites`. Nothing is assumed of clients, of new events, of
  broadcasts or of the clean-up of a connection.
* `AdapterWrites`: weak fairness of the steps of goroutines that can run; strong
  fairness of a send on the channel, because Go serves the senders that wait on a
  channel in their order. A write to the network ends by its deadline, a
  read when the client or our own Close has ended the connection; that a client ever
  leaves is not assumed.
* `StoreRollback`: weak fairness of the steps of a call that has begun: a statement
  returns, with an error if it must. Nothing says that a batch is ever sent,
  committed or rolled back.
* `LiveMatch`: weak fairness of the next page; a page is a statement with a time-out.
* `Backends`: weak fairness of the steps of each push and of the goroutines and the
  reader of a broadcast; connecting and publishing have time-outs. Nothing is assumed
  of servers, peers or the context of a push.
* `DVM`: weak fairness of goroutines (a job has a deadline of a minute) and of the job
  queue. `Push`: weak fairness of tasks, of calls to FCM (`requestDeadline`) and of the
  job queue. Nothing makes a client publish, an entry expire or the relay restart.
* `Access` and `Consumers` check safety only.

## 4. Proofs

TLAPS checks the following for all values of the constants that satisfy the
named assumptions.

* `SubscriptionsProofs`: `TypeCorrect`, `EoseFirst` (`LiveAfterEose`), `NothingLeft`
  (`FailedUnlinked`) and `HandOver` (`NoGap`, when stored queries read the primary).
  `NoGap` is not inductive: it speaks only of finished subscriptions and finished
  broadcasts. The invariant `IInv` follows an event from the commit: it is delivered
  or buffered, or it still will be read by the stored query (`Ahead`), or the
  broadcast has the hash of the subscription before it or in hand (`OnItsWay`), or
  another version superseded it (`Feed`). It rests on: one entry per hash
  (`OnePerHash`), entries only of handlers in certain states (`Placed`), an accepted
  event stays in the database unless superseded or undone (`Kept`), the handler's
  batch is empty outside `flush` (`Buffers`), finished broadcasts have nothing left
  (`Over`). Since the matcher calls take several steps it also needs that a caller wipes
  bits of its own hash only (`Owns`), and that an entry whose hash was never crossed has its
  bits from the second half of Index on, with nobody about to wipe them (`Bound`).
  `LiveAfterEose` follows from `Gated`. `CleanupIsExact` (`CleanupExact`) holds for any
  messages handled at once. Its invariant `Tidy` says, of hashes that were not tangled, that
  nothing else is indexed under them while a handler links or unlinks them (`HashHeld`), that
  what is linked is in the metadata or about to be put there (`InMeta`), and that what the
  clean-up has still to remove is ahead of it (`AheadOfRange`); that no handler starts once
  the clean-up has begun (`Begun`), and that a subscription nobody else names stays linked
  (`StaysLinked`).
* `RequestsProofs`, about all that `Requests` composes. `PrefilterSound`
  (`MatchingIsForwarded`): a matching event shares a routing key with the filter on both
  sides of the Cartesian limit; the lemmas `KindRouted`, `TargetShared` and `KeyShared`
  are about the operators. `StoredAgreesWithLive` (`StoredMatchesLive`) compares the
  stored query with the live match part by part: kinds (`KindsAgree`), tags
  (`TagsAgree`), the whole filter (`FilterAgrees`), gift wraps (`GiftWrapAgrees`) and
  what the statement selects (`SelectionAgrees`). `AnswersAreVisible` (`AnswerVisible`)
  follows from the same parts. `PagesAreComplete` (`PagesComplete`) needs `PagesInv`:
  what was stored all the time is sent or not newer than the current `until`. A full
  page holds the newest rows of the range (`PageIsNewest`), so nothing newer than its
  oldest row is skipped. That a set of numbers has a least and, if bounded, a greatest
  member (`LeastExists`, `Bounded`) comes from the library's theorem on minimal
  elements of well-founded orders (`WFMin`), which takes no operator. About the index of
  `EventMatcher`, for calls that overlap in any way: `Agreement` (`IndexesAgree`) and
  `LookupCompleteness` (`LookupFindsAll`); the invariant says, of each hash that was not
  crossed, for the program counter of its one writer which keys of the hash are set and, for each lookup, that a settled value is
  yielded, still to be yielded, or replaced.
* `ConnectionsProofs`, about `Adapters` and `Sessions`. `CloseSafe` and `WaitSafe`,
  together `CloseIsHarmless` (`CloseHarmless`), follow from `CloseInvariant`: at most one
  caller of Close has won the swap, the channels are closed by that caller only, the
  close channel first, and a call that waited in its select waits on or has returned.
  `SessionInv` says that the stored list is valid and that an AUTH under way knows the
  key of its connection, or that this key came while it ran; `KeyIsKept` (`KeyKept`)
  follows, also for two AUTH of one key. `AccessIsHistory` (`AccessFollowsHistory`) and
  `StoredIsAllowed` (`StoredAllowed`) need what the list of a device looks like:
  `ParseAttestationTags` is written with the last tag of each action (`LastTag`), tags of
  a device that follow one another obey the table of states (`NextTagFollows`, by least
  and greatest indices), a revocation is the last tag of its device (`RevokedIsLast`),
  and what the trigger allows at the insert the full check allows as well, unless the
  latest tag repeats an earlier one (`InsertIsAllowed`).
* `EventStoreProofs`: `TypeCorrect` (`TypeOK`), `UndoIsComplete` (`UndoComplete`) and
  `NothingOrphaned` (`NoOrphans`), for any graph of references. Both properties speak of
  calls that have returned; the invariant adds what holds on the way: what was removed
  so far is on the record under construction (`Recorded`), and whoever still refers to a
  removed event refers to the level that comes next (`Covered`), so that an empty level
  leaves no one. `Frame` shows that a step of one batch counts as foreign for all
  others; `OwnStep` follows the batch that acts. `RollbackIsExact` (`RollbackRestores`)
  adds `RollbackInv`: each row stands for itself or for the address it replaced (`Rows`),
  and at each point of AcceptEvents and RollbackEvents the rows of the batch are those
  it found, less what its record says, plus what it stored (`Restorable`).
* `BackendsProofs`, from one inductive invariant per client, which the steps of the
  others leave alone. `QueueImplementsOutbox` (`ImplementsOutbox`): every step of
  `JobQueue` is a step of `Outbox` or leaves its variables alone, under the mapping of
  `TheOutbox`; the invariant says that a job in the table is the one its push has
  tried, and that an insert is repeated only when the table has none.
  `BroadcastIsSound` (`BroadcastSound`): an open connection is in the map, or in exactly
  one pair of hands. `FailoverIsSound` (`FailoverSound`): the holder of the lock is the
  only one that is about to close or replace the active pool; a retry differs from the
  pool that failed only where there is a second master (`NMasters > 1`).
  `StatusIsSound` (`StatusFollowsOperations`): the machine's window and counters, in
  terms of the operations it has seen.
* `DVMProofs`: `JobMapDoesNotLeak` (`EntriesRun`), `SubmittedIsFound` (`ResponsesFound`)
  and `AlertsAreSpaced` (`AlertsSpaced`); what a goroutine has fetched is still the map
  of the cache entry or belongs to an expired one, what was kept and not displaced is in
  the map of the entry, and a price request is at least as new as its last alert.
* `PushProofs`: `CacheIsCurrent` (`CacheCurrent`), which speaks only of keys no task works
  on. Its invariant `PushInv` has four parts. `Types` says what the frame of a task can
  hold at each program counter (`Shape`). `Filed`: registrations are filed under their own
  key, and what is stored was published before. `Company`, for a key that was not raced
  for: whoever registers or deletes it is alone with it, and whoever holds one of its
  devices holds the stored one, marked invalid once it is being removed. `Cached`: while a
  task has the key in hand (from the removal of the old entry to its last step) the maps,
  the index and the price row are what that step leaves (`Handled`); while none has, the
  three agree (`Settled`), and what they have is what the database says or is about to be
  removed or replaced by a task that has not come so far (`Explained`). `CompanyFrame` and
  `CachedFrame` say once which steps are no news for a key; each action shows that it is
  no news for the keys it is not about, and follows its own. A restart at any point
  empties all hands.
* `ConsumersProofs`, about `Storage` and `Senders`. `SendersAreSound` (`SendersSound`) has
  an invariant for each half. `TagInv` counts the places the hashtags of a
  message are in (the queue, the copies tasks have taken, the batches of the channel, the
  batch in hand, what was posted or dropped): none before its task has run and one ever
  after, which each step keeps because what leaves one place enters another. `ReportInv` says how far the report of a message has come
  and which version it was compared with. The two properties about services follow a chain
  of versions; instead of an induction over the chain, the proof takes the first version
  in the order of storage that the service could not know, whose predecessor it does
  know. About `Storage`: `UploadsAreStored` (`UploadsStored`),
  `TorrentsAreFetched` (`TorrentsFetched`) and `UploadsAdd` (`UploadAdds`). The first two
  follow from `StorageInv`: a bag made here is never downloaded, so `newBagIDPromoted`
  stops it and does not remove it (`Kept`); the loop that holds an item has a slot for it
  (`SlotKept`); a torrent that has not begun is in the queue, with the loop or with a
  request that will queue it, or has stalled (`Fetched`). `UploadAdds`
  needs `AddInv`: as long as no other request comes, the bag that the upload is based on
  stays complete and its files stay on the disk; and when the new bag is not taken, a
  larger one has replaced the base, which a download in the hands of the loop cannot
  bring back (`Adding`).

The constants are assumed to be what the code makes of them, each assumption in the
module that declares it: positive sizes of queues, windows and thresholds, finite sets
of files, events of a batch, device registrations, wallets of a profile and masters,
replaceable addresses that are no event IDs,
and announced bags that carry another relay's name. Identities of pools, connections
and goroutines come from sets the model does not exhaust: the actions that need a new
one are guarded by there being one (`UnusedPools`, `Unused`, `Unnamed`), a bound of the
model like the other bounds.

Only model-checked:

* Liveness (`ReqAnswered`, `WritesReturn`, `AcceptedIsWritten`, both `CallsEnd`,
  `PagesEnd`, `PushEnds`, `BroadcastEnds`, `JobsAnswered`): TLAPS has no fairness here.
* `RolesRespected` and `DefinitionConsistent` compare a state with a fold over the
  patches of a community, sorted by date: what the fold computes for every set of patches
  is an induction over data. They are also not true of every definition (see section 3),
  so that a theorem would need an assumption the validators do not enforce.

## 5. Plan

All components with state of their own are modelled, and every safety property of the
runs but those of `Communities` has a theorem. What is left, in order:

1. `DefinitionConsistent` and `RolesRespected` of `Communities`, if the fold over the
   patches can be put into a closed form, as the list of attestations was.
2. Two hazards without a property, both of the consensus the build disables: a second
   rollback of the same events (`query.go:412`), and the backups `CommitEvents` expects of
   a trigger that is dropped (`query.go:548`).
3. The operations the components below leave out.

## 6. Not modelled

* Websocket upgrade and HTTP plumbing, certificates, telemetry, configuration and the
  load test: pure I/O. The shutdown of the server: `NewCustomCancelContext` does not
  keep the channel it is given (`adapters/context.go:10`).
* COUNT and the rate limiter: no state that another message reads.
* SQL of text search, ranks, the dependencies a filter may ask for, counters and most
  triggers: their results have no counterpart in the rest of the relay to compare with.
* Deletion of an account, except of its device registrations (`Push`), and the statements
  around it.
* Validators of the shape of a single event: pure predicates.
* Consensus: disabled in the build (`database/command/global.go:27`); its callbacks are
  the callers of `EventStore`. The time-outs inside the library are not known here.
* Storage: the check of who may announce a bag, downloads on behalf of another relay,
  the DHT and the contents of headers. One user is followed; users meet only in the
  queue and its slots.
* Texts of notifications, translations, statistics; the groups of a count.
* Cryptography: signatures are valid or the event is refused before the model begins.
