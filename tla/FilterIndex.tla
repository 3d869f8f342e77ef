---------------------------- MODULE FilterIndex ----------------------------
(***************************************************************************)
(* The routing keys of the subscription index (event-matcher/filter.go,    *)
(* event-matcher/event.go) against the exact match they prefilter for      *)
(* (model/filter.go).  Lookup may yield too much, because FiltersMatch is  *)
(* applied to what it yields; it must not yield too little.                *)
(*                                                                         *)
(* A filter is a record with                                               *)
(*   kinds    a sequence of integers, negative to exclude;                 *)
(*   authors  a set of public keys, hasAuthors when the field is not nil;  *)
(*   tags     a function from tag names to sets of patterns, a pattern     *)
(*            being a sequence of strings and Wild (a nil pointer);         *)
(*   ids, addresses   sets, and since, until   timestamps, which have no   *)
(*            routing key; each may be Wild (nil).                         *)
(* An event is a record with kind, pubkey, master (GetMasterPublicKey),    *)
(* id, address, at (its created_at), reposted (its first k tag as a        *)
(* number) and tags, a function from tag names to sets of value sequences. *)
(***************************************************************************)
EXTENDS Integers, Sequences, FiniteSets

CONSTANTS
    Wild,            \* a nil pointer in a pattern: any value
    Empty,          \* the empty string
    GenericRepost,  \* nostr.KindGenericRepost
    RepostKind,     \* repostOfKinds: the kind each pseudo-kind is a repost of
    CartesianLimit  \* indexCartesianLimit

ASSUME FilterAssumption ==
    /\ Wild # Empty
    /\ GenericRepost \in Nat \ {0}
    /\ \A k \in DOMAIN RepostKind : k \in Nat /\ k # GenericRepost
    /\ CartesianLimit \in Nat

-----------------------------------------------------------------------------
(* The exact match: model/filter.go.                                       *)

(* filterMatchKind scans the kinds in order: an exclusion of the event's   *)
(* kind ends the scan without a match, the event's kind or a matching      *)
(* repost pseudo-kind ends it with one.                                    *)
KindHit(k, ev) ==
    \/ k = ev.kind
    \/ /\ ev.kind = GenericRepost
       /\ k \in DOMAIN RepostKind /\ ev.reposted = RepostKind[k]

filterMatchKind(f, ev) ==
    \/ Len(f.kinds) = 0
    \/ \E i \in 1..Len(f.kinds) :
          /\ KindHit(f.kinds[i], ev)
          /\ \A j \in 1..(i - 1) : f.kinds[j] # -ev.kind

(* filterMatchAuthors: the event's own keys match directly; the keys of    *)
(* the connection's user stand for each other.                             *)
DirectAuthor(f, ev) == ev.pubkey \in f.authors \/ ev.master \in f.authors
filterMatchAuthors(f, ev, user) ==
    \/ DirectAuthor(f, ev)
    \/ /\ f.authors \cap user # {}
       /\ ev.pubkey \in user \/ ev.master \in user

(* Filter.MatchesTags of the nostr library: every tag name of the filter   *)
(* has a pattern that some tag of the event fits, position by position.    *)
Fits(pat, vals) ==
    /\ Len(pat) <= Len(vals)
    /\ \A i \in 1..Len(pat) : pat[i] = Wild \/ pat[i] = vals[i]
MatchesTags(f, ev) ==
    \A n \in DOMAIN f.tags :
       /\ n \in DOMAIN ev.tags
       /\ \E pat \in f.tags[n], vals \in ev.tags[n] : Fits(pat, vals)

(* The fields without a routing key, in the order of FilterMatch.          *)
Rest(f, ev) ==
    /\ f.since # Wild => ev.at >= f.since
    /\ f.until # Wild => ev.at <= f.until
    /\ f.ids # Wild => ev.id \in f.ids
    /\ f.addresses # Wild => {ev.address, ev.id} \cap f.addresses # {}

FilterMatch(f, ev, user) ==
    /\ Rest(f, ev)
    /\ filterMatchKind(f, ev)
    /\ f.hasAuthors => filterMatchAuthors(f, ev, user)
    /\ MatchesTags(f, ev)

FiltersMatch(fs, ev, user) == fs = {} \/ \E f \in fs : FilterMatch(f, ev, user)

-----------------------------------------------------------------------------
(* The routing keys: an index key is a triple of a dimension, a value and  *)
(* a kind.                                                                 *)
anyKind == -1
Key(dim, val, kind) == <<dim, val, kind>>

(* The position of a tag's value that is indexed: the first one of p and   *)
(* k, the third one of q and Q, which must then have exactly three.        *)
Indexed == {"p", "k", "q", "Q"}
Position(n) == IF n \in {"p", "k"} THEN 1 ELSE 3
IsIndexable(n, pat) ==
    /\ n \in Indexed
    /\ IF n \in {"p", "k"} THEN Len(pat) >= 1 ELSE Len(pat) = 3
    /\ pat[Position(n)] \notin {Wild, Empty}

(* The targets of a filter: its authors and its indexable patterns, as     *)
(* pairs of a dimension and a value.  The code keeps lists; a repeated     *)
(* kind or target counts once here and twice towards its limit there.      *)
Targets(f) ==
    {<<"A", a>> : a \in f.authors} \cup
    UNION {{<<n, pat[Position(n)]>> : pat \in {q \in f.tags[n] : IsIndexable(n, q)}}
              : n \in DOMAIN f.tags}

(* hasSpecialKinds: a negative kind is dropped from the list, a repost     *)
(* pseudo-kind becomes the generic repost.                                 *)
RoutedKindPlain(k) == k  \* mutated: the pseudo-kind itself is indexed
RoutedKind(k) == IF k \in DOMAIN RepostKind THEN GenericRepost ELSE k
RoutedKinds(f) ==
    {RoutedKind(f.kinds[i]) : i \in {j \in 1..Len(f.kinds) : f.kinds[j] >= 0}}
HasNegative(f) == \E i \in 1..Len(f.kinds) : f.kinds[i] < 0

AtLeastOne(n) == IF n = 0 THEN 1 ELSE n
TooMany(f) ==
    AtLeastOne(Cardinality(RoutedKinds(f))) * AtLeastOne(Cardinality(Targets(f)))
      > CartesianLimit

(* parseFilters for one filter: the product of kinds and targets; above    *)
(* the limit the targets alone, for any kind.                              *)
FilterKeys(f) ==
    (IF HasNegative(f) THEN {Key("none", Empty, anyKind)} ELSE {}) \cup
    (CASE Targets(f) = {} /\ RoutedKinds(f) = {} -> {Key("none", Empty, anyKind)}
       [] Targets(f) = {} /\ RoutedKinds(f) # {} ->
             {Key("none", Empty, k) : k \in RoutedKinds(f)}
       [] Targets(f) # {} /\ (RoutedKinds(f) = {} \/ TooMany(f)) ->
             {Key(t[1], t[2], anyKind) : t \in Targets(f)}
       [] OTHER ->
             {Key(t[1], t[2], k) : t \in Targets(f), k \in RoutedKinds(f)})

parseFilters(fs) ==
    IF fs = {} THEN {Key("none", Empty, anyKind)} ELSE UNION {FilterKeys(f) : f \in fs}

(* parseEvent: the catch-all keys, the authors and the indexed tags, each  *)
(* for the event's kind and for any kind.                                  *)
EventTargets(ev) ==
    {<<"none", Empty>>, <<"A", ev.pubkey>>, <<"A", ev.master>>} \cup
    UNION {{<<n, vals[Position(n)]>> :
               vals \in {w \in ev.tags[n] : Len(w) >= Position(n)
                                            /\ w[Position(n)] # Empty}}
              : n \in DOMAIN ev.tags \cap Indexed}
parseEvent(ev) ==
    {Key(t[1], t[2], k) : t \in EventTargets(ev), k \in {anyKind, ev.kind}}

(* Lookup of a value indexed under the filters.                            *)
IsCandidate(fs, ev) == parseFilters(fs) \cap parseEvent(ev) # {}

-----------------------------------------------------------------------------
(* The filters for which the prefilter is exact enough: the authors match  *)
(* the event directly, and no tag name mixes patterns that have a routing  *)
(* key with patterns that have none.                                       *)
Uniform(f) ==
    \A n \in DOMAIN f.tags :
       \/ \A pat \in f.tags[n] : IsIndexable(n, pat)
       \/ \A pat \in f.tags[n] : ~IsIndexable(n, pat)
=============================================================================
