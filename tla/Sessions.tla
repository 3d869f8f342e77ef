------------------------------ MODULE Sessions ------------------------------
(***************************************************************************)
(* Who may publish for whom.  A master key keeps a list of attestations    *)
(* for its device keys (model/onbehalf.go, validation_icip_2000.go); a     *)
(* connection is authenticated with NIP-42 (server/ws/auth.go,             *)
(* server/auth/auth.go) and keeps what AUTH found; an event of a device is *)
(* checked again when it is stored, by a trigger of the events table or    *)
(* against an attestation list that travels with it.  The handlers of one  *)
(* connection run in goroutines of their own, and lists change while       *)
(* sessions are open.                                                      *)
(***************************************************************************)
EXTENDS Naturals, FiniteSets, SequencesExt

CONSTANTS
    Conns,      \* connections
    Master,     \* the master key
    Devices,    \* device keys
    Kinds,      \* event kinds that need authentication
    Embeddable, \* those an attestation list may travel with
    KindLists,  \* sets of kinds attestations are limited to, {} for no limit
    MaxTime,    \* bound: the clock, and the dates of attestations
    MaxTags,    \* bound: length of an attestation list
    MaxHandlers \* bound: AUTH messages handled at a time

ASSUME SessionsAssumption ==
    /\ Master \notin Devices
    /\ Embeddable \subseteq Kinds /\ KindLists \subseteq SUBSET Kinds /\ {} \in KindLists
    /\ Kinds \cap {"giftwrap", "file"} = {}
    /\ MaxTime \in Nat \ {0} /\ MaxTags \in Nat /\ MaxHandlers \in Nat

FreeKinds == {"giftwrap", "file"}    \* eventKindsNoAuth
Never == 0              \* nil timestamp
NoKey == "nobody"
Anonymous == [key |-> NoKey, kinds |-> {}]
Keys == Devices \cup {Master}
Instants == 1..MaxTime
Actions == {"active", "inactive", "revoked"}
Tags == {t \in [dev : Devices, action : Actions, ts : Instants, kinds : KindLists] : t.action # "active" => t.kinds = {}}

VARIABLES
    now,        \* the clock
    list,       \* the stored attestation list of the master
    relays,     \* whether the stored relay list of the master names this relay
    challenge,  \* connections that were sent a challenge
    session,    \* UserDataContext of each connection
    auths,      \* AUTH messages being handled
    posts,      \* EVENT messages being handled, after handleEvents let them in
    stored      \* the event the last step has stored

sessionVars == <<now, list, relays, challenge, session, auths, posts, stored>>

-----------------------------------------------------------------------------
(* validateAttestationEvent: the states of one device follow the table and *)
(* their dates do not go back.                                             *)
attestationStateMap == [active |-> {"inactive", "revoked"}, inactive |-> {"active", "revoked"}, revoked |-> {}]
TagsOf(tags, dev) == {i \in 1..Len(tags) : tags[i].dev = dev}

validateAttestationEvent(tags) ==
    \A dev \in Devices : \A i, j \in TagsOf(tags, dev) :
       i < j /\ (\A k \in TagsOf(tags, dev) : k <= i \/ j <= k) =>
          /\ tags[j].action \in attestationStateMap[tags[i].action]
          /\ tags[i].ts <= tags[j].ts

(* subzero_nostr_attestation_update_is_allowed: a stored list only grows,  *)
(* and nothing follows the revocation of a device.                         *)
UpdateAllowed(old, new) ==
    /\ IsPrefix(old, new)
    /\ \A i \in 1..Len(new), j \in Len(old) + 1..Len(new) :
          ~(i < j /\ new[i].action = "revoked" /\ new[i].dev = new[j].dev)

(* The last tag of a device that has one of the actions, 0 without one.    *)
LastTag(tags, dev, actions) ==
    LET wanted == {i \in TagsOf(tags, dev) : tags[i].action \in actions}
    IN  IF wanted = {} THEN 0 ELSE CHOOSE i \in wanted : \A j \in wanted : j <= i
DateOf(tags, i) == IF i = 0 THEN Never ELSE tags[i].ts
KindsOf(tags, i) == IF i = 0 THEN {} ELSE tags[i].kinds

(* mutated: a device that was made inactive keeps its access.              *)
EntryNeverEnds(tags, dev) ==
    LET active == LastTag(tags, dev, {"active"})
    IN  [start |-> DateOf(tags, active), end |-> Never, revoked |-> Never, kinds |-> KindsOf(tags, active)]

(* ParseAttestationTags: what the tags of a device add up to.  Each tag    *)
(* overwrites what its action sets, so the last one of each action counts; *)
(* an active one also takes the end back.                                  *)
Entry(tags, dev) ==
    LET active == LastTag(tags, dev, {"active"})
        inactive == LastTag(tags, dev, {"inactive"})
    IN  [start |-> DateOf(tags, active),
         end |-> IF inactive > active THEN tags[inactive].ts ELSE Never,
         revoked |-> DateOf(tags, LastTag(tags, dev, {"revoked"})),
         kinds |-> KindsOf(tags, active)]

(* IsAccessAllowed; a kind is not asked for when a connection              *)
(* authenticates.                                                          *)
IsAccessAllowed(tags, dev, at) ==
    LET e == Entry(tags, dev)
    IN  /\ ~(e.revoked # Never /\ at >= e.revoked)
        /\ ~(e.end # Never /\ at > e.end)
        /\ e.start # Never /\ at >= e.start
AllowedKinds(tags, dev) == Entry(tags, dev).kinds
KindAllowed(kinds, kind) == kinds = {} \/ kind \in kinds

(* trigger_events_after_insert_generate_tags and its twin for updates: the *)
(* tags get rows in their order, and one that repeats an earlier tag of    *)
(* the list gets none.  The newest row of a device, 0 without one.         *)
NewestRow(tags, dev) ==
    LET rows == {i \in TagsOf(tags, dev) : \A j \in TagsOf(tags, dev) : j < i => tags[j] # tags[i]}
    IN  IF rows = {} THEN 0 ELSE CHOOSE i \in rows : \A j \in rows : j <= i

(* mutated: the kinds of the attestation are not looked at.                *)
AllowedOnInsertAnyKind(tags, dev, kind, at) ==
    LET newest == NewestRow(tags, dev)
    IN  newest # 0 /\ tags[newest].action = "active" /\ at > tags[newest].ts

(* subzero_nostr_onbehalf_is_allowed_on_time_light: the trigger reads the  *)
(* newest row of the device only.                                          *)
AllowedOnInsert(tags, dev, kind, at) ==
    LET newest == NewestRow(tags, dev)
    IN  /\ newest # 0
        /\ tags[newest].action = "active"
        /\ at > tags[newest].ts
        /\ KindAllowed(tags[newest].kinds, kind)

-----------------------------------------------------------------------------
SessionInit ==
    /\ now = 1 /\ list = <<>> /\ relays = FALSE
    /\ challenge = {} /\ session = [c \in Conns |-> Anonymous]
    /\ auths = {} /\ posts = {} /\ stored = {}

Tick == now < MaxTime /\ now' = now + 1
        /\ UNCHANGED <<list, relays, challenge, session, auths, posts>>

(* The master publishes a list with one more attestation.  Where it        *)
(* replaces a stored one the trigger compares them.                        *)
PublishList(tags) ==
    /\ validateAttestationEvent(tags)
    /\ list # <<>> => UpdateAllowed(list, tags)
    /\ list' = tags
    /\ UNCHANGED <<now, relays, challenge, session, auths, posts>>

PublishRelays == relays' = ~relays /\ UNCHANGED <<now, list, challenge, session, auths, posts>>

(* The master deletes its list: BuildForDelete does not spare it.          *)
DeleteList ==
    /\ list # <<>> /\ list' = <<>>
    /\ UNCHANGED <<now, relays, challenge, session, auths, posts>>

-----------------------------------------------------------------------------
(* mutated: the key of the connection is not looked at.                    *)
AuthStartAnyKey(c, key) ==
    /\ c \in challenge /\ Cardinality(auths) < MaxHandlers /\ posts = {}
    /\ auths' = auths \cup {[conn |-> c, key |-> key, over |-> {}]}
    /\ UNCHANGED <<now, list, relays, challenge, session, posts>>

(* handleAuth answers with an error unless there is a challenge and the    *)
(* connection has no other key; signature, challenge and relay of the      *)
(* event are checked by NIP-42.  "over" collects the sessions that end     *)
(* while the handler runs.                                                 *)
AuthStart(c, key) ==
    /\ c \in challenge /\ Cardinality(auths) < MaxHandlers /\ posts = {}
    /\ session[c].key \in {NoKey, key}
    /\ auths' = auths \cup {[conn |-> c, key |-> key, over |-> {}]}
    /\ UNCHANGED <<now, list, relays, challenge, session, posts>>

(* ValidateUserAccess for a device: by the list the event brings along, or *)
(* by the stored one on a relay the master names                           *)
(* (IsRelayAuthoritativeForUser).                                          *)
ValidateUserAccess(key, with) ==
    IF with # <<>> THEN validateAttestationEvent(with) /\ IsAccessAllowed(with, key, now)
                   ELSE relays /\ IsAccessAllowed(list, key, now)

Granted(key, with) ==
    [key |-> key, kinds |-> IF key = Master THEN {} ELSE AllowedKinds(IF with # <<>> THEN with ELSE list, key)]

(* authConnSet replaces the whole state of the connection.                 *)
AuthEnd(a, with) ==
    LET granted == a.key = Master \/ ValidateUserAccess(a.key, with)
    IN  /\ auths' = {[b EXCEPT !.over = IF granted /\ b.conn = a.conn THEN @ \cup {a.key} ELSE @] : b \in auths \ {a}}
        /\ session' = IF granted THEN [session EXCEPT ![a.conn] = Granted(a.key, with)] ELSE session
        /\ UNCHANGED <<now, list, relays, challenge, posts>>

(* An EVENT is let in by what the session says at its start, so that only  *)
(* the list, the clock and the relays matter to it from then on: no AUTH   *)
(* runs beside it here.                                                    *)
(* handleEvents: kinds that need authentication get a challenge, or are    *)
(* checked against the kinds AUTH found; the listener refuses gift wraps   *)
(* of authenticated connections.                                           *)
Challenge(c) ==
    /\ session[c].key = NoKey
    /\ challenge' = challenge \cup {c}
    /\ UNCHANGED <<now, list, relays, session, auths, posts>>

Post(c, by, kind, embedded) ==
    /\ auths = {} /\ posts = {}
    /\ kind \in Kinds => session[c].key # NoKey /\ KindAllowed(session[c].kinds, kind)
    /\ kind = "giftwrap" => session[c].key = NoKey
    /\ posts' = posts \cup {[by |-> by, kind |-> kind, embedded |-> embedded]}
    /\ UNCHANGED <<now, list, relays, challenge, session, auths>>

(* AcceptEvents: an embedded list that grants the kind takes the event     *)
(* past the trigger; one that refuses the device fails the batch           *)
(* (verifyEphemeralAttestation).                                           *)
Accepted(p) ==
    LET travels == p.embedded # <<>> /\ p.kind \in Embeddable
    IN  \/ p.by = Master
        \/ /\ travels => IsAccessAllowed(p.embedded, p.by, now)
           /\ \/ travels /\ KindAllowed(AllowedKinds(p.embedded, p.by), p.kind)
              \/ AllowedOnInsert(list, p.by, p.kind, now)

PostEnd(p) ==
    /\ posts' = posts \ {p}
    /\ \/ Accepted(p) /\ stored' = {p}
       \/ stored' = {}                  \* refused, or an error of the database
    /\ UNCHANGED <<now, list, relays, challenge, session, auths>>

(* The lists that are around: the stored one and its earlier versions.     *)
Lists == {SubSeq(list, 1, n) : n \in 0..Len(list)}

(* What a client sends: an event may bring a list along where that has an  *)
(* effect.                                                                 *)
PostSent(c) ==
    \/ \E kind \in Kinds \cup FreeKinds : Post(c, Master, kind, <<>>)
    \/ \E dev \in Devices, kind \in Kinds \cup {"file"} :
          \E l \in {x \in Lists : x # <<>> => kind \in Embeddable} : Post(c, dev, kind, l)

Quiet ==
    \/ Tick \/ DeleteList \/ PublishRelays
    \/ \E tag \in Tags : Len(list) < MaxTags /\ PublishList(Append(list, tag))
    \/ \E c \in Conns : Challenge(c) \/ PostSent(c) \/ \E key \in Keys : AuthStart(c, key)
    \/ \E a \in auths, with \in Lists : AuthEnd(a, with)

SessionNext ==
    \/ Quiet /\ stored' = {}
    \/ \E p \in posts : PostEnd(p)

-----------------------------------------------------------------------------
(* Sessions belong to keys and kinds that exist and to connections that    *)
(* were challenged; the stored list stays a valid one.                     *)
SessionsTyped ==
    /\ now \in Instants /\ relays \in BOOLEAN
    /\ validateAttestationEvent(list)
    /\ \A c \in Conns : session[c].key \in Keys \cup {NoKey} /\ session[c].kinds \subseteq Kinds
    /\ \A c \in Conns : session[c].key # NoKey => c \in challenge

(* Whatever list passed validation and whenever it is asked: access is     *)
(* only given to a device whose last attestation that has begun is an      *)
(* active one, or ends at this very moment (ParseAttestationTags and       *)
(* IsAccessAllowed against the history the list tells).                    *)
AccessFollowsHistory ==
    /\ SessionsTyped
    /\ \A dev \in Devices, at \in Instants :
       LET begun == {i \in TagsOf(list, dev) : list[i].ts <= at}
       IN  IsAccessAllowed(list, dev, at) =>
              \E i \in begun : /\ list[i].action = "active"
                               /\ AllowedKinds(list, dev) = list[i].kinds
                               /\ \A j \in begun : j > i => list[j].action = "inactive" /\ list[j].ts = at

(* The latest attestation of a device repeats an earlier one, word for     *)
(* word: the trigger then reads the one before it.                         *)
RepeatsItself(tags, dev) ==
    LET last == LastTag(tags, dev, Actions)
    IN  \E i \in TagsOf(tags, dev) : i < last /\ tags[i] = tags[last]

(* However old the session, and whatever the list was when the message     *)
(* came in: what is stored for the master in the name of a device is       *)
(* allowed, kind and all, by the list stored at that moment, or by a list  *)
(* of the master that came with it; unless the latest attestation of the   *)
(* device repeats an earlier one of its list, which has no row of its own. *)
StoredAllowed ==
    [][ \A p \in stored' : p.by # Master =>
           \/ RepeatsItself(list, p.by)
           \/ \E l \in {list, p.embedded} :
                 IsAccessAllowed(l, p.by, now) /\ KindAllowed(AllowedKinds(l, p.by), p.kind) ]_sessionVars

(* A connection changes its key only by an AUTH that was under way when    *)
(* the other one succeeded.                                                *)
KeyKept ==
    [][ \A c \in Conns :
           session[c].key \notin {NoKey, session'[c].key} =>
              \E a \in auths \ auths' : a.conn = c /\ session[c].key \in a.over ]_sessionVars
=============================================================================
