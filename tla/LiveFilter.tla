----------------------------- MODULE LiveFilter -----------------------------
(***************************************************************************)
(* What a subscription is forwarded live: BroadcastNewEvents takes the     *)
(* candidates of the index and keeps those the exact match accepts         *)
(* (server/ws/subscriptions.go, event-matcher, model/filter.go).           *)
(***************************************************************************)
EXTENDS FilterIndex

CONSTANTS
    FilterSets,     \* the sets of filters clients subscribe with
    Users,          \* the key pairs {device key, master key} of the users
    EventSet,       \* the events that are published
    DeviceKey, MasterKey,   \* the keys of the user who asks
    GiftWrap,       \* nostr.KindGiftWrap
    CommunityProtected, \* communityProtectedEventKinds
    Admitting       \* the communities whose definition is stored and that are
                    \* not private, or have the user as a member not banned

(* Without the authors field there are no authors; kinds are numbers, and  *)
(* no event has one of the pseudo-kinds that exist in filters only.        *)
ASSUME LiveAssumption ==
    /\ \A fs \in FilterSets : \A f \in fs :
          /\ f.kinds \in Seq(Int)
          /\ f.authors # {} => f.hasAuthors
    /\ \A ev \in EventSet : ev.kind \in Nat \ DOMAIN RepostKind

VARIABLES
    subs,           \* the indexed subscriptions: at most one, filters and user
    seen,           \* history: subscriptions and the event broadcast to them
    forwarded       \* the ones among them the event was forwarded to

liveVars == <<subs, seen, forwarded>>

LiveInit == subs = {} /\ seen = {} /\ forwarded = {}

(* linkSubscription: Index under the keys of the filters.                  *)
Subscribe ==
    /\ subs = {}
    /\ \E fs \in FilterSets, u \in Users : subs' = {[filters |-> fs, user |-> u]}
    /\ UNCHANGED <<seen, forwarded>>

ValuesOf(tags, n) == IF n \in DOMAIN tags THEN tags[n] ELSE {}
Firsts(tags, n) == {vals[1] : vals \in {v \in ValuesOf(tags, n) : Len(v) >= 1}} \ {Empty}

(* canForwardEvent, for a user who acts for himself: a gift wrap goes to   *)
(* the devices that one of its p tags names.                               *)
canForwardEvent(ev) ==
    ev.kind = GiftWrap =>
       \E v \in ValuesOf(ev.tags, "p") :
          \/ Len(v) = 1 /\ v[1] = DeviceKey
          \/ Len(v) = 3 /\ v[1] = MasterKey /\ v[3] = DeviceKey

(* The first h tag decides; with one community per event, its only one.    *)
canForwardCommunityEvent(ev) ==
    ev.kind \in CommunityProtected => Firsts(ev.tags, "h") \subseteq Admitting

canForwardLiveEvent(fs, ev, user) ==
    /\ FiltersMatch(fs, ev, user)
    /\ canForwardEvent(ev)
    /\ canForwardCommunityEvent(ev)

(* BroadcastNewEvents: Lookup, then canForwardLiveEvent.                   *)
Forwards(s, ev) == IsCandidate(s.filters, ev) /\ canForwardLiveEvent(s.filters, ev, s.user)

Broadcast ==
    /\ subs # {} /\ seen = {}
    /\ \E ev \in EventSet :
          /\ seen' = {<<s, ev>> : s \in subs}
          /\ forwarded' = {<<s, ev>> : s \in {x \in subs : Forwards(x, ev)}}
    /\ UNCHANGED subs

LiveNext == Subscribe \/ Broadcast

-----------------------------------------------------------------------------
(* The prefilter loses no match of a uniform filter whose authors match    *)
(* the event directly, on either side of the Cartesian limit, with repost  *)
(* pseudo-kinds and excluded kinds (parseFilters, parseEvent): what is not *)
(* withheld as a gift wrap or as a community's event is forwarded.         *)
MatchingIsForwarded ==
    \A p \in seen : \A f \in p[1].filters :
       /\ FilterMatch(f, p[2], p[1].user)
       /\ Uniform(f)
       /\ f.hasAuthors => DirectAuthor(f, p[2])
       /\ canForwardEvent(p[2]) /\ canForwardCommunityEvent(p[2])
       => p \in forwarded
=============================================================================
