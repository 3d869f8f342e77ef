----------------------------- MODULE MCRequests -----------------------------
(* Bounded filters and events: kinds 1 and 2, the generic repost 16 and    *)
(* two pseudo-kinds, gift wraps; two keys of one user and a third one; p   *)
(* and Q patterns with and without a routing key.  Gift wraps for pages.   *)
(* Writers and lookups of the index.                                       *)
EXTENDS Requests, TLC

CONSTANTS v1, v2, v3, w1, d1, d2, l1, h1, h2, k1, k2, k3

MCRepostKind == (30 :> 3 @@ 31 :> 4)
None == <<>>

Base == NoFilter
KindLists == {<<>>, <<1>>, <<2, 1>>, <<-1>>, <<2, -1>>, <<-1, 1>>, <<30>>, <<1, 30, 31>>, <<16, 30>>}
AuthorSets == {{}, {"dev"}, {"mas", "oth"}}

TagSets ==
    {None,
     [p |-> {<<"x">>}], [p |-> {<<"x">>, <<"y", Wild>>}], [p |-> {<<Wild, "x">>}],
     [p |-> {<<Wild, "x">>}, Q |-> {<<Wild, Wild, "x">>}],
     [p |-> {<<"x">>}, e |-> {<<"x">>}],
     [k |-> {<<"x">>}, q |-> {<<"x">>}]}

WithAuthors(f, as) == [f EXCEPT !.hasAuthors = as # {}, !.authors = as]
MCFilters(kinds, tags) ==
    {WithAuthors([Base EXCEPT !.kinds = ks, !.tags = t], as)
        : ks \in kinds, as \in AuthorSets, t \in tags}
OneFilter == {{f} : f \in MCFilters(KindLists, TagSets)}

\* Conditions that only the stored query has, and the fields without routing keys.
MarkersOf(tag, marker) == {{[tag |-> tag, marker |-> marker, exclude |-> e]} : e \in BOOLEAN}
StoredFilters ==
    {[Base EXCEPT !.ids = v] : v \in {{}, {"i1"}}} \cup
    {[Base EXCEPT !.addresses = v] : v \in {{}, {"i1"}, {"a1"}}} \cup
    {[Base EXCEPT !.since = v, !.until = w] : v, w \in {Wild, 0, 1, 2}} \cup
    {[Base EXCEPT !.search = <<<<n, v>>>>, !.kinds = ks]
        : n \in Flags, v \in {"on", "no", "what"}, ks \in {<<>>, <<1>>}} \cup
    {[Base EXCEPT !.markers = m] : m \in MarkersOf("e", "reply") \cup MarkersOf("e", "root")} \cup
    {WithAuthors([Base EXCEPT !.kinds = ks, !.tags = t], as)
        : ks \in {<<>>, <<1>>, <<1059>>},  as \in {{}, {"dev"}},
          t \in {[d |-> {<<"x">>}], [d |-> {<<"">>}], [h |-> {<<"x">>}], [t |-> {<<"x">>}],
                 ("!t" :> {<<"x">>}), ("!p" :> {<<"x">>, <<"dev">>}), ("!e" :> {<<Wild>>}),
                 ("!k" :> {<<"x">>}),
                 [l |-> {<<"en", "iso">>}], [d |-> {<<"x">>}, p |-> {<<"dev">>}]}}

MCFilterSets ==
    OneFilter \cup {{}} \cup {{f} : f \in StoredFilters} \cup
    {{f, g} : f \in MCFilters({<<1>>}, TagSets), g \in MCFilters({<<2>>}, {None})}

MCExcluded == ("!p" :> "p" @@ "!e" :> "e" @@ "!k" :> "k" @@ "!t" :> "t")
MCUsers == {{"dev", "mas"}}

Plain ==
    [kind |-> 1, reposted |-> 0, pubkey |-> "dev", master |-> "dev", tags |-> None, id |-> "i1",
     address |-> "i1", at |-> 1, original |-> None, edit |-> "none", hidden |-> FALSE,
     lastP |-> None]
EventTagSets ==
    {None, [p |-> {<<"x">>}], [p |-> {<<"y", "x">>}], [p |-> {<<"x", "x">>}, e |-> {<<"x">>}],
     [p |-> {<<"y", "x">>}, Q |-> {<<"y", "y", "x">>}],
     [k |-> {<<"x">>}, q |-> {<<"x", "y", "y">>}]}
RoutedEvents ==
    {[Plain EXCEPT !.kind = kr[1], !.reposted = kr[2], !.pubkey = a[1], !.master = a[2], !.tags = t,
                   !.lastP = IF "p" \in DOMAIN t THEN CHOOSE v \in t.p : TRUE ELSE None]
        : kr \in {<<1, 0>>, <<2, 0>>, <<16, 3>>, <<16, 0>>},
          a \in {<<"dev", "dev">>, <<"dev", "mas">>, <<"oth", "oth">>}, t \in EventTagSets}
StoredEvents ==
    {[Plain EXCEPT !.at = 2, !.id = "i2", !.address = "a1"],
     [Plain EXCEPT !.hidden = TRUE],
     [Plain EXCEPT !.kind = 2, !.edit = "deleted", !.tags = [d |-> {<<"x">>}]],
     [Plain EXCEPT !.edit = "deleted", !.tags = [d |-> {<<"x">>}]],
     [Plain EXCEPT !.tags = [h |-> {<<"x">>}]],
     [Plain EXCEPT !.tags = [h |-> {<<"i1">>}, t |-> {<<"x">>}]],
     [Plain EXCEPT !.tags = [e |-> {<<"x", "", "reply">>}, imeta |-> {<<"images">>}]],
     [Plain EXCEPT !.tags = [e |-> {<<"x", "", "root">>}, expiration |-> {<<"9">>}]],
     [Plain EXCEPT !.tags = [l |-> {<<"en", "iso">>}, imeta |-> {<<"videos">>}]],
     [Plain EXCEPT !.kind = 16, !.reposted = 3, !.tags = [e |-> {<<"x">>}],
                   !.original = [t |-> {<<"x">>}, e |-> {<<"y", "", "reply">>}]]} \cup
    {[Plain EXCEPT !.kind = k, !.reposted = IF k = 16 THEN 3 ELSE 0, !.tags = [h |-> {<<c>>}]]
        : k \in {2, 16}, c \in {"x", "y"}} \cup
    {[Plain EXCEPT !.kind = 1059, !.pubkey = "oth", !.master = "oth", !.lastP = v,
                   !.tags = [p |-> {<<"mas", "", "dev">>, <<"other", "", "other">>}]]
        : v \in {<<"mas", "", "dev">>, <<"other", "", "other">>}} \cup
    {[Plain EXCEPT !.kind = 1059, !.pubkey = "oth", !.master = "oth", !.tags = [p |-> {v}], !.lastP = v]
        : v \in {<<"dev">>, <<"mas">>, <<"mas", "", "dev">>, <<"mas", "">>, <<"mas", "", "oth">>,
                 <<"other", "", "other">>, <<"other">>}}
MCEvents == RoutedEvents \cup StoredEvents

MCGifts == 1..4
MCTimings == {<<1, 2, 3, 3>>, <<1, 2, 2, 3>>, <<1, 1, 2, 3>>}

\* v1, v2 and v3 are subscriptions of one connection and ID, w1 another's.
MCHashOf == [c \in Writers |-> IF c = w1 THEN h2 ELSE h1]
MCKeysOf == [c \in Values \cup Lookups |->
               CASE c = v1 -> {k1, k2}
                 [] c = v2 -> {k2, k3}
                 [] c = v3 -> {k1}
                 [] c = w1 -> {k1, k3}
                 [] OTHER -> {k1, k3}]
=============================================================================
