---------------------------- MODULE StoredQuery ----------------------------
(***************************************************************************)
(* What a stored query selects (database/query/query_where_builder.go and  *)
(* query_where_builder_filter.go), beside what the live match forwards.    *)
(* The two are written independently, one as SQL and one in Go, and a      *)
(* client sees the one before EOSE and the other after it.                 *)
(*                                                                         *)
(* Filters have besides their fields of FilterIndex                        *)
(*   search   the words of the search field, pairs of a name and a value;  *)
(*   markers  a set of records [tag, marker, exclude].                     *)
(* Events have besides theirs                                              *)
(*   original the tags of the event a repost carries, <<>> without one;    *)
(*   edit     "deleted" for the empty edit of an article or a note;        *)
(*   hidden   the row a repost creates for the event it carries;           *)
(*   lastP    its last p tag that names a key, <<>> without one.           *)
(* Text search, ranks and the dependencies of a filter are left out.       *)
(***************************************************************************)
EXTENDS LiveFilter

CONSTANTS
    Excluded,               \* the name after the '!' of each name with one
    CommunityPosts,         \* the kinds of whereBuilderCommunityFilter
    MaxTagValues,           \* maxTagValues
    LangISO                 \* model.LangISO

At(vals, i) == IF i <= Len(vals) THEN vals[i] ELSE Empty

(* The receiver a p tag of a gift wrap names: the device key, or the       *)
(* master key without one.                                                 *)
Target(v) == IF At(v, 3) # Empty THEN v[3] ELSE At(v, 1)

(* Timestamps are numbers, and tags are sequences.                         *)
ASSUME QueryAssumption ==
    /\ Wild \notin BOOLEAN /\ MaxTagValues \in Nat
    /\ \A u \in Users : u = {DeviceKey, MasterKey}
    /\ \A fs \in FilterSets : \A f \in fs : {f.since, f.until} \subseteq {Wild} \cup Nat
    /\ \A ev \in EventSet :
          /\ ev.at \in Nat
          /\ \A n \in DOMAIN ev.tags : \A vals \in ev.tags[n] : Len(vals) \in Nat
          /\ ev.lastP \in ValuesOf(ev.tags, "p") \cup {<<>>}
          /\ Target(ev.lastP) = Empty => \A v \in ValuesOf(ev.tags, "p") : Target(v) = Empty

VARIABLES
    asked,                  \* whether a later REQ asked with the same filters
    answered                \* the pairs of seen it is answered with

queryVars == <<liveVars, asked, answered>>

-----------------------------------------------------------------------------
(* The columns of a row: toDatabaseEvent and FromTags.                     *)
IsLang(vals) == Len(vals) >= 2 /\ vals[1] # Empty /\ vals[2] = LangISO
HasMarker(tags, names, marker) ==
    \E n \in names : \E vals \in ValuesOf(tags, n) : At(vals, 3) = marker

(* The tags that fill the columns: a repost adds those of its original.    *)
Sources(ev) == {ev.tags, ev.original}

Topics(ev) == UNION {Firsts(t, "t") : t \in Sources(ev)}
Languages(ev) ==
    {vals[1] : vals \in {v \in UNION {ValuesOf(t, "l") : t \in Sources(ev)} : IsLang(v)}}
Column(ev, flag) ==
    \E t \in Sources(ev) :
       CASE flag \in {"images", "videos"} -> \E vals \in ValuesOf(t, "imeta") : flag \in {vals[i] : i \in 1..Len(vals)}
         [] flag = "quotes" -> DOMAIN t \cap {"q", "Q"} # {}
         [] flag = "references" -> DOMAIN t \cap {"a", "e"} # {}
         [] flag = "expiration" -> "expiration" \in DOMAIN t
HasReference(ev) == ev.original # <<>>   \* the column reference_id of a repost
IsReply(ev) == ~HasReference(ev) /\ HasMarker(ev.tags, {"a", "e"}, "reply")

(* gift_receiver_pubkey: FromTags goes through the p tags, and the last    *)
(* one that names a key decides.  It reads the fourth element of a p tag   *)
(* of three: such an event has no row (Storable).  Languages are a set     *)
(* here, a column of one value there: no event has two of them.            *)
Receivers(ev) == {Target(ev.lastP)} \ {Empty}
Storable(ev) == ev.kind = GiftWrap => \A v \in ValuesOf(ev.tags, "p") : Len(v) # 2

-----------------------------------------------------------------------------
(* The conditions of the WHERE clause.  A slice that is nil or empty sets  *)
(* no condition (sliceBuilder).                                            *)
Given(slice) == slice # Wild /\ slice # {}
OneOf(value, slice) == Given(slice) => value \in slice

(* parseNostrFilterFlags: the first word of each name counts, and only if  *)
(* its value is one the parser knows.                                      *)
On == {"true", "1", "on", "yes"}
Off == {"false", "0", "off", "no"}
Flag(f, n) ==
    LET words == {i \in 1..Len(f.search) : f.search[i][1] = n}
        value == f.search[CHOOSE i \in words : \A j \in words : i <= j][2]
    IN  IF words = {} \/ value \notin On \cup Off THEN Wild ELSE value \in On
Flags == {"expiration", "videos", "images", "quotes", "references", "media"}

IsFilterEmpty(f) ==
    /\ ~Given(f.ids) /\ f.kinds = <<>> /\ f.authors = {} /\ f.tags = <<>>
    /\ f.markers = {} /\ ~Given(f.addresses) /\ f.since = Wild /\ f.until = Wild
    /\ \A n \in Flags : Flag(f, n) = Wild

(* ApplySpecialKinds: a pseudo-kind becomes the generic repost of the kind *)
(* it stands for, unless the list names the generic repost itself.         *)
Listed(f) == {f.kinds[i] : i \in 1..Len(f.kinds)}
Reposted(f) == {RepostKind[k] : k \in Listed(f) \cap DOMAIN RepostKind}
AsIs(f) == GenericRepost \in Listed(f) \/ Reposted(f) = {}
SpecialKinds(f) ==
    IF AsIs(f) THEN Listed(f)
    ELSE (Listed(f) \ DOMAIN RepostKind) \cup {GenericRepost}
ApplySpecialKindsAny(f, ev) == TRUE  \* mutated: reposts of every kind
ApplySpecialKinds(f, ev) ==
    ~AsIs(f) /\ ev.kind = GenericRepost => ev.reposted \in Reposted(f)

(* ApplyFilterKinds: exclusions count only without positive kinds.         *)
ApplyFilterKinds(f, ev) ==
    LET kinds == SpecialKinds(f)
        positive == {k \in kinds : k >= 0}
    IN  IF positive # {} THEN ev.kind \in positive ELSE -ev.kind \notin kinds

(* ApplyFilterAddresses: an address that holds a colon is compared with    *)
(* the address, any other one with the id.  The address of an event        *)
(* without a colon is its id.                                              *)
ApplyFilterAddresses(f, ev) ==
    Given(f.addresses) => ev.address \in f.addresses \/ ev.id \in f.addresses

(* ApplyFilterForExtensions: media asks for either column, or for neither. *)
ApplyFilterForExtensions(f, ev) ==
    /\ CASE Flag(f, "media") = TRUE -> Column(ev, "videos") \/ Column(ev, "images")
         [] Flag(f, "media") = FALSE -> ~Column(ev, "videos") /\ ~Column(ev, "images")
         [] OTHER -> \A n \in {"videos", "images"} :
                        Flag(f, n) # Wild => Column(ev, n) = Flag(f, n)
    /\ \A n \in {"quotes", "expiration"} : Flag(f, n) # Wild => Column(ev, n) = Flag(f, n)
    /\ Flag(f, "references") # Wild =>
          HasReference(ev) \/ Column(ev, "references") = Flag(f, "references")

ApplyFilterTtags(f, ev) ==
    /\ Firsts(f.tags, "t") # {} => Firsts(f.tags, "t") \cap Topics(ev) # {}
    /\ Firsts(f.tags, "!t") \cap Topics(ev) = {}

ApplyFilterLang(f, ev) ==
    LET langs == {v[1] : v \in {w \in ValuesOf(f.tags, "l") : Len(w) = 2 /\ IsLang(w)}}
    IN  langs # {} => Languages(ev) \cap langs # {}

(* ApplyTimeRange; since after until is an error (BadRange).               *)
BadRange(f) == f.since # Wild /\ f.until # Wild /\ f.since > f.until
ApplyTimeRange(f, ev) ==
    /\ f.since # Wild /\ (f.since > 0 \/ f.since = f.until) => ev.at >= f.since
    /\ f.until # Wild /\ (f.until > 0 \/ f.since = f.until) => ev.at <= f.until

(* ApplyFilterTags: the patterns of a name are alternatives, a nil value   *)
(* matches any and also none, and positions after maxTagValues are cut.    *)
(* A name that excludes negates each alternative.  A single d is compared  *)
(* with the column d_tag, which is empty without the tag.                  *)
Fitting(pat, vals) ==
    \A i \in 1..Len(pat) :
       i <= MaxTagValues /\ pat[i] # Wild => i <= Len(vals) /\ pat[i] = vals[i]
HasValue(pat) == \E i \in 1..Len(pat) : pat[i] # Wild
HasValues(f, n) == \E pat \in ValuesOf(f.tags, n) : HasValue(pat)
Patterns(f, n) ==
    {pat \in f.tags[n] : HasValue(pat) /\ ~(n = "l" /\ Len(pat) = 2 /\ IsLang(pat))}
Exists(ev, n, pat) == \E vals \in ValuesOf(ev.tags, n) : Fitting(pat, vals)
IsSingleD(f) ==
    DOMAIN f.tags = {"d"} /\ \E v \in Firsts(f.tags, "d") \cup {Empty} : f.tags.d = {<<v>>}
ApplyFilterTags(f, ev) ==
    IF IsSingleD(f)
    THEN {At(v, 1) : v \in f.tags.d} =
            (IF "d" \in DOMAIN ev.tags THEN {At(v, 1) : v \in ev.tags.d} ELSE {Empty})
    ELSE /\ \A n \in DOMAIN f.tags \ ({"t", "!t"} \cup DOMAIN Excluded) :
               IF HasValues(f, n)
               THEN Patterns(f, n) # {} => \E pat \in Patterns(f, n) : Exists(ev, n, pat)
               ELSE n \in DOMAIN ev.tags
         /\ \A n \in DOMAIN f.tags \cap DOMAIN Excluded :
               IF HasValues(f, n)
               THEN \E pat \in Patterns(f, n) : ~Exists(ev, Excluded[n], pat)
               ELSE Excluded[n] \notin DOMAIN ev.tags

ApplyFilterTagMarkers(f, ev) ==
    \A m \in f.markers :
       IF m.tag \in {"a", "e"} /\ m.marker = "reply"
       THEN IsReply(ev) = ~m.exclude
       ELSE (\E t \in Sources(ev) : HasMarker(t, {m.tag}, m.marker)) = ~m.exclude

(* A soft-deleted row is selected by id, or by the address of an           *)
(* addressable event.                                                      *)
NamesRow(f) ==
    Given(f.ids) \/ (f.kinds # <<>> /\ f.authors # {} /\ HasValues(f, "d"))
ApplyFilterSoftDeletedKinds(f, ev) ==  \* mutated: any kinds and authors
    Given(f.ids) \/ (f.kinds # <<>> /\ f.authors # {}) \/ ev.edit # "deleted"
ApplyFilterSoftDeleted(f, ev) == NamesRow(f) \/ ev.edit # "deleted"

(* A post of a community is selected only by a filter on h.                *)
ApplyCommunity(f, ev) ==
    "h" \in DOMAIN f.tags \/ ev.kind \notin CommunityPosts \/ Firsts(ev.tags, "h") \subseteq {ev.id}

ApplyAuthors(f, ev) == f.authors # {} => DirectAuthor(f, ev)

ApplyFilter(f, ev) ==
    \/ IsFilterEmpty(f)
    \/ /\ OneOf(ev.id, f.ids)
       /\ ApplyFilterAddresses(f, ev)
       /\ ApplySpecialKinds(f, ev)
       /\ ApplyFilterKinds(f, ev)
       /\ ApplyFilterForExtensions(f, ev)
       /\ ApplyFilterTtags(f, ev)
       /\ ApplyFilterLang(f, ev)
       /\ ApplyAuthors(f, ev)
       /\ ApplyTimeRange(f, ev)
       /\ ApplyFilterTags(f, ev)
       /\ ApplyFilterTagMarkers(f, ev)
       /\ ApplyFilterSoftDeleted(f, ev)
       /\ ApplyCommunity(f, ev)

(* ApplyFilterGiftWrap: a row with a receiver is selected for that device. *)
ApplyFilterGiftWrap(ev) ==
    ev.kind # GiftWrap \/ Receivers(ev) \subseteq {DeviceKey}

BuildWhere(f, ev) == ApplyFilter(f, ev) /\ ~ev.hidden /\ ApplyFilterGiftWrap(ev)

(* applySubscriptionLimit gives a REQ without filters one that only has a  *)
(* limit; an invalid range fails the statement for all filters.            *)
NoFilter ==
    [kinds |-> <<>>, hasAuthors |-> FALSE, authors |-> {}, tags |-> <<>>, ids |-> Wild,
     addresses |-> Wild, since |-> Wild, until |-> Wild, search |-> <<>>, markers |-> {}]
SelectEvents(fs, ev) ==
    LET filters == IF fs = {} THEN {NoFilter} ELSE fs
    IN  /\ Storable(ev)
        /\ \A f \in filters : ~BadRange(f)
        /\ \E f \in filters : BuildWhere(f, ev)

-----------------------------------------------------------------------------
QueryInit == LiveInit /\ asked = FALSE /\ answered = {}

(* A REQ with the filters of the subscription, once the event is stored.   *)
Ask ==
    /\ seen # {} /\ ~asked
    /\ asked' = TRUE
    /\ answered' = {p \in seen : SelectEvents(p[1].filters, p[2])}
    /\ UNCHANGED liveVars

QueryNext == Ask \/ (LiveNext /\ UNCHANGED <<asked, answered>>)

-----------------------------------------------------------------------------
(* The filters both sides read alike: no exclusions, no generic repost     *)
(* beside a pseudo-kind, no search words, no topics or languages, authors  *)
(* the index knows, no empty list, no zero or reversed time, patterns that *)
(* end in a value and are not longer than the columns.                     *)
PlainFilter(f, ev) ==
    /\ \A k \in Listed(f) : k >= 0
    /\ AsIs(f) => Listed(f) \cap DOMAIN RepostKind = {}
    /\ f.search = <<>> /\ f.markers = {}
    /\ f.hasAuthors => f.authors # {} /\ DirectAuthor(f, ev)
    /\ f.ids # {} /\ f.addresses # {}
    /\ f.since # 0 /\ f.until # 0 /\ ~BadRange(f)
    /\ Uniform(f)
    /\ \A n \in DOMAIN f.tags :
          /\ n \notin {"t", "!t", "l"} \cup DOMAIN Excluded
          /\ f.tags[n] # {}
          /\ \A pat \in f.tags[n] :
                /\ Len(pat) \in 1..MaxTagValues
                /\ pat[Len(pat)] \notin (IF n = "d" THEN {Wild, Empty} ELSE {Wild})

(* The rows that are withheld neither from stored queries nor, as those of *)
(* a community that does not admit the user, from live ones; with at most  *)
(* one d tag, and gift wraps with one p tag: a key, or a master key and a  *)
(* device key, which is the user's only beside the user's master key.      *)
PlainRow(ev) ==
    /\ ~ev.hidden /\ ev.edit # "deleted"
    /\ ev.kind \in CommunityPosts => Firsts(ev.tags, "h") \subseteq {ev.id}
    /\ canForwardCommunityEvent(ev)
    /\ \A v, w \in ValuesOf(ev.tags, "d") : v = w
    /\ ev.kind = GiftWrap =>
          \E v \in ValuesOf(ev.tags, "p") :
             /\ ValuesOf(ev.tags, "p") = {v}
             /\ \/ Len(v) = 1 /\ v[1] # Empty
                \/ Len(v) = 3 /\ v[3] # Empty /\ (v[3] = DeviceKey => v[1] = MasterKey)

(* What a stored query selects is what the live match forwards, for the    *)
(* filters both read alike: ApplyFilter and its parts against              *)
(* canForwardLiveEvent behind the index, gift wraps included               *)
(* (canForwardEvent against ApplyFilterGiftWrap).                          *)
StoredMatchesLive ==
    asked =>
       \A p \in seen :
          (\A f \in p[1].filters : PlainFilter(f, p[2])) /\ PlainRow(p[2])
          => (p \in answered <=> p \in forwarded)

(* An answer never holds the row of a reposted event, nor a gift wrap that *)
(* names other devices only; it holds a soft-deleted row or a post of a    *)
(* community only for a filter that names such rows, or one that has no    *)
(* condition.                                                              *)
AnswerVisible ==
    asked =>
       \A p \in answered :
          /\ ~p[2].hidden
          /\ p[2].kind = GiftWrap =>
                \/ \A v \in ValuesOf(p[2].tags, "p") : {At(v, 1), At(v, 3)} = {Empty}
                \/ \E v \in ValuesOf(p[2].tags, "p") : DeviceKey \in {v[i] : i \in 1..Len(v)}
          /\ \/ p[1].filters = {}
             \/ \E f \in p[1].filters :
                   \/ IsFilterEmpty(f)
                   \/ /\ p[2].edit = "deleted" =>
                            Given(f.ids) \/ (f.kinds # <<>> /\ DirectAuthor(f, p[2])
                                             /\ HasValues(f, "d"))
                      /\ p[2].kind \in CommunityPosts =>
                            "h" \in DOMAIN f.tags \/ Firsts(p[2].tags, "h") \subseteq {p[2].id}
=============================================================================
