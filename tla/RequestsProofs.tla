--------------------------- MODULE RequestsProofs ---------------------------
(***************************************************************************)
(* What a REQ is answered with, for all filters, events and pages.  The    *)
(* prefilter is sound: a filter whose authors match the event directly and *)
(* whose tag patterns are uniform has a routing key in common with every   *)
(* event it matches, whatever its kinds and on either side of the          *)
(* Cartesian limit.  The pages of gift wraps miss no row that was stored   *)
(* all the time.  The index behind the prefilter keeps its promise under   *)
(* concurrent callers: when the writers of one hash take turns, the two    *)
(* structures of a shard agree and Lookup loses no settled value.          *)
(***************************************************************************)
EXTENDS Requests, EventMatcher, FiniteSetTheorems, TLAPS


(* parseFilters, kinds: the event's kind is among the kinds that are       *)
(* indexed, unless none is.                                                *)
LEMMA KindRouted ==
    ASSUME NEW f, NEW ev, f.kinds \in Seq(Int), ev.kind \in Nat \ DOMAIN RepostKind,
           filterMatchKind(f, ev)
    PROVE  RoutedKinds(f) = {} \/ ev.kind \in RoutedKinds(f)
<1> USE FilterAssumption
<1>1. CASE Len(f.kinds) = 0
  BY <1>1 DEF RoutedKinds
<1>2. ASSUME NEW i \in 1..Len(f.kinds), KindHit(f.kinds[i], ev)
      PROVE  ev.kind \in RoutedKinds(f)
  <2>1. f.kinds[i] >= 0 /\ RoutedKind(f.kinds[i]) = ev.kind
    BY <1>2 DEF KindHit, RoutedKind
  <2> QED BY <2>1 DEF RoutedKinds
<1> QED BY <1>1, <1>2 DEF filterMatchKind

(* parseFilters, targets: one of the filter's targets is one of the        *)
(* event's, unless the filter has none.                                    *)
LEMMA TargetShared ==
    ASSUME NEW f, NEW ev, MatchesTags(f, ev), Uniform(f),
           f.authors # {} => DirectAuthor(f, ev)
    PROVE  Targets(f) = {} \/ Targets(f) \cap EventTargets(ev) # {}
<1> USE FilterAssumption
<1>1. CASE f.authors # {}
  <2>1. PICK a \in f.authors : a = ev.pubkey \/ a = ev.master
    BY <1>1 DEF DirectAuthor
  <2>2. <<"A", a>> \in Targets(f)
    BY DEF Targets
  <2>3. <<"A", a>> \in EventTargets(ev)
    BY <2>1 DEF EventTargets
  <2> QED BY <2>2, <2>3
<1>2. CASE f.authors = {} /\ Targets(f) # {}
  <2>1. PICK n \in DOMAIN f.tags : \E pat \in f.tags[n] : IsIndexable(n, pat)
    BY <1>2 DEF Targets
  <2>2. PICK pat \in f.tags[n], vals \in ev.tags[n] : Fits(pat, vals)
    BY DEF MatchesTags
  <2>3. n \in DOMAIN ev.tags
    BY DEF MatchesTags
  <2>4. IsIndexable(n, pat)
    BY <2>1 DEF Uniform
  <2>5. Position(n) \in 1..Len(pat) /\ n \in Indexed
    BY <2>4 DEF IsIndexable, Position
  <2>6. pat[Position(n)] = vals[Position(n)] /\ vals[Position(n)] # Empty
        /\ Len(vals) >= Position(n)
    BY <2>2, <2>4, <2>5 DEF Fits, IsIndexable
  <2>7. <<n, pat[Position(n)]>> \in Targets(f)
    BY <2>4 DEF Targets
  <2>8. <<n, vals[Position(n)]>> \in EventTargets(ev)
    BY <2>3, <2>5, <2>6 DEF EventTargets
  <2> QED BY <2>6, <2>7, <2>8
<1> QED BY <1>1, <1>2

LEMMA KeyShared ==
    ASSUME NEW f, NEW ev, f.kinds \in Seq(Int), ev.kind \in Nat \ DOMAIN RepostKind,
           filterMatchKind(f, ev), MatchesTags(f, ev), Uniform(f),
           f.authors # {} => DirectAuthor(f, ev)
    PROVE  FilterKeys(f) \cap parseEvent(ev) # {}
<1> USE FilterAssumption
<1>1. RoutedKinds(f) = {} \/ ev.kind \in RoutedKinds(f)
  BY KindRouted
<1>2. \A t \in EventTargets(ev) : /\ Key(t[1], t[2], anyKind) \in parseEvent(ev)
                                  /\ Key(t[1], t[2], ev.kind) \in parseEvent(ev)
  BY DEF parseEvent
<1>3. CASE Targets(f) = {}
  <2>1. \A k \in {anyKind, ev.kind} : Key("none", Empty, k) \in parseEvent(ev)
    <3>1. <<"none", Empty>> \in EventTargets(ev)
      BY DEF EventTargets
    <3> QED BY <1>2, <3>1
  <2>2. CASE RoutedKinds(f) = {}
    BY <1>3, <2>1, <2>2 DEF FilterKeys
  <2>3. CASE ev.kind \in RoutedKinds(f)
    BY <1>3, <2>1, <2>3 DEF FilterKeys
  <2> QED BY <1>1, <2>2, <2>3
<1>4. CASE Targets(f) # {}
  <2>1. PICK t \in Targets(f) : t \in EventTargets(ev)
    BY <1>4, TargetShared
  <2>2. CASE RoutedKinds(f) = {} \/ TooMany(f)
    <3>1. Key(t[1], t[2], anyKind) \in FilterKeys(f)
      BY <1>4, <2>2 DEF FilterKeys
    <3> QED BY <1>2, <2>1, <3>1
  <2>3. CASE RoutedKinds(f) # {} /\ ~TooMany(f)
    <3>1. Key(t[1], t[2], ev.kind) \in FilterKeys(f)
      BY <1>1, <1>4, <2>3 DEF FilterKeys
    <3> QED BY <1>2, <2>1, <3>1
  <2> QED BY <2>2, <2>3
<1> QED BY <1>3, <1>4

-----------------------------------------------------------------------------
(* What the state knows: the subscriptions are of the filters clients use, *)
(* and what was forwarded is what Forwards says.                           *)
Broadcasts ==
    /\ \A s \in subs : s.filters \in FilterSets
    /\ \A p \in seen : p[1].filters \in FilterSets /\ p[2] \in EventSet
    /\ \A p \in seen : Forwards(p[1], p[2]) => p \in forwarded

(* Every event a uniform filter matches, with authors that match directly, *)
(* is forwarded live unless it is withheld: parseFilters and parseEvent    *)
(* share a key, and FiltersMatch accepts it (BroadcastNewEvents).          *)
THEOREM PrefilterSound == RequestSpec => []MatchingIsForwarded
<1> USE LiveAssumption
<1>1. RequestInit => Broadcasts
  BY DEF RequestInit, QueryInit, LiveInit, Broadcasts
<1>a. [RequestNext]_requestVars => [LiveNext]_liveVars
  BY DEF RequestNext, requestVars, QueryNext, queryVars, Ask
<1>2. Broadcasts /\ [LiveNext]_liveVars => Broadcasts'
  <2> SUFFICES ASSUME Broadcasts, [LiveNext]_liveVars PROVE Broadcasts'
    OBVIOUS
  <2>1. CASE Subscribe
    BY <2>1 DEF Subscribe, Broadcasts
  <2>2. CASE Broadcast
    BY <2>2 DEF Broadcast, Broadcasts
  <2>3. CASE UNCHANGED liveVars
    BY <2>3 DEF liveVars, Broadcasts
  <2> QED BY <2>1, <2>2, <2>3 DEF LiveNext
<1>3. Broadcasts => MatchingIsForwarded
  <2> SUFFICES ASSUME Broadcasts, NEW p \in seen, NEW f \in p[1].filters,
                      FilterMatch(f, p[2], p[1].user), Uniform(f),
                      f.hasAuthors => DirectAuthor(f, p[2]),
                      canForwardEvent(p[2]), canForwardCommunityEvent(p[2])
               PROVE  Forwards(p[1], p[2])
    BY DEF Broadcasts, MatchingIsForwarded
  <2>1. p[1].filters \in FilterSets /\ p[2] \in EventSet
    BY DEF Broadcasts
  <2>2. FilterKeys(f) \cap parseEvent(p[2]) # {}
    <3>1. /\ f.kinds \in Seq(Int) /\ p[2].kind \in Nat \ DOMAIN RepostKind
          /\ f.authors # {} => f.hasAuthors
      BY <2>1
    <3>2. filterMatchKind(f, p[2]) /\ MatchesTags(f, p[2])
      BY DEF FilterMatch
    <3> QED BY <3>1, <3>2, KeyShared
  <2>3. IsCandidate(p[1].filters, p[2])
    BY <2>2 DEF IsCandidate, parseFilters
  <2>4. FiltersMatch(p[1].filters, p[2], p[1].user)
    BY DEF FiltersMatch
  <2> QED BY <2>3, <2>4 DEF Forwards, canForwardLiveEvent
<1> QED BY <1>1, <1>a, <1>2, <1>3, PTL DEF RequestSpec

-----------------------------------------------------------------------------
(* The pages of gift wraps.                                                *)

LEMMA LeastExists ==
    ASSUME NEW T, T \subseteq Nat, T # {}
    PROVE  \E x \in T : \A y \in T : x <= y
<1>1. \E x \in T : \A y \in T : ~(<<y, x>> \in OpToRel(<, Nat))
  BY WFMin, NatLessThanWellFounded, Zenon
<1>2. PICK x \in T : \A y \in T : ~(y < x)
  <2>1. \A x, y \in Nat : y < x => <<y, x>> \in OpToRel(<, Nat)
    BY Zenon DEF OpToRel
  <2> QED BY <1>1, <2>1, Zenon
<1> QED BY <1>2

(* A set of gift wraps has a latest timestamp: a set without a bound that  *)
(* has the fewest elements would still have none with one element less.    *)
LEMMA Bounded ==
    ASSUME NEW t \in [Gifts -> Nat]
    PROVE  \E n \in Nat : \A g \in Gifts : t[g] <= n
<1> DEFINE Bound(A) == \E n \in Nat : \A g \in A : t[g] <= n
<1> DEFINE Sizes == {Cardinality(A) : A \in {B \in SUBSET Gifts : ~Bound(B)}}
<1> SUFFICES ASSUME ~Bound(Gifts) PROVE FALSE
  OBVIOUS
<1>1. \A A \in SUBSET Gifts : IsFiniteSet(A) /\ Cardinality(A) \in Nat
  BY GiftAssumption, FS_Subset, FS_CardinalityType
<1>2. Sizes \subseteq Nat /\ Sizes # {}
  BY <1>1
<1>3. PICK c \in Sizes : \A d \in Sizes : c <= d
  BY <1>2, LeastExists
<1>4. PICK A \in SUBSET Gifts : ~Bound(A) /\ Cardinality(A) = c
  OBVIOUS
<1>5. PICK g \in A : TRUE
  <2>1. A # {}
    BY <1>4
  <2> QED BY <2>1
<1>6. Cardinality(A \ {g}) = c - 1 /\ c \in Nat
  BY <1>1, <1>4, FS_RemoveElement
<1>7. Bound(A \ {g})
  <2>1. A \ {g} \in SUBSET Gifts
    BY <1>4
  <2>2. ~Bound(A \ {g}) => c - 1 \in Sizes
    BY <1>6, <2>1
  <2> HIDE DEF Sizes, Bound
  <2>3. c - 1 \notin Sizes
    BY <1>2, <1>3, <1>6
  <2> QED BY <2>2, <2>3
<1>8. PICK n \in Nat : \A h \in A \ {g} : t[h] <= n
  BY <1>7
<1>9. t[g] \in Nat /\ n + t[g] \in Nat
  <2>1. g \in Gifts
    BY <1>4, <1>5
  <2>2. t[g] \in Nat
    BY <2>1
  <2> QED BY <2>2
<1>10. \A h \in A : t[h] <= n + t[g]
  <2> SUFFICES ASSUME NEW h \in A PROVE t[h] <= n + t[g]
    OBVIOUS
  <2>1. t[h] \in Nat /\ (h = g \/ t[h] <= n)
    <3>1. h \in Gifts
      BY <1>4
    <3> QED BY <1>8, <3>1
  <2> QED BY <1>9, <2>1
<1> QED BY <1>4, <1>9, <1>10

(* streamGiftWrapEvents without an until: every timestamp is before it.    *)
LEMMA NoUntilIsLate ==
    ASSUME at \in [Gifts -> Nat]
    PROVE  NoUntil \in Nat /\ \A g \in Gifts : at[g] < NoUntil
<1> DEFINE Bounds == {n \in Nat : \A g \in Gifts : at[g] <= n}
<1>1. PICK m \in Bounds : \A n \in Bounds : m <= n
  <2>1. Bounds # {} /\ Bounds \subseteq Nat
    BY Bounded
  <2> QED BY <2>1, LeastExists
<1>2. m \in Nat /\ \A g \in Gifts : at[g] <= m
  OBVIOUS
<1>3. \E g \in Gifts : at[g] = m
  <2> SUFFICES ASSUME \A g \in Gifts : at[g] # m PROVE FALSE
    OBVIOUS
  <2>1. \A g \in Gifts : at[g] <= m - 1
    BY <1>2
  <2>2. m - 1 \in Nat
    <3>1. PICK g \in Gifts : TRUE
      BY GiftAssumption
    <3> QED BY <1>2, <2>1, <3>1
  <2>3. m - 1 \in Bounds
    BY <2>1, <2>2
  <2> QED BY <1>1, <1>2, <2>3
<1> HIDE DEF Bounds
<1>4. \E n \in {at[g] : g \in Gifts} : \A g \in Gifts : at[g] <= n
  BY <1>2, <1>3
<1> DEFINE latest == CHOOSE n \in {at[g] : g \in Gifts} : \A g \in Gifts : at[g] <= n
<1>5. latest \in {at[g] : g \in Gifts} /\ \A g \in Gifts : at[g] <= latest
  BY <1>4
<1>6. NoUntil = 1 + latest
  BY DEF NoUntil
<1> HIDE DEF latest
<1> QED BY <1>5, <1>6

(* The until of the next page: the timestamp of a row of this one.         *)
LEMMA OldestIsFirst ==
    ASSUME at \in [Gifts -> Nat], NEW S \in SUBSET Gifts, S # {}
    PROVE  \E g \in S : Oldest(S) = at[g]
<1>1. {at[g] : g \in S} \subseteq Nat /\ {at[g] : g \in S} # {}
  OBVIOUS
<1>2. PICK m \in {at[g] : g \in S} : \A n \in {at[g] : g \in S} : m <= n
  BY <1>1, LeastExists
<1>3. \A g \in S : m <= at[g]
  BY <1>2
<1> QED BY <1>3 DEF Oldest

(* A page of a version: a short one has all the rows in the range, and     *)
(* none that it leaves out is newer than one it has.                       *)
LEMMA PageIsNewest ==
    ASSUME at \in [Gifts -> Nat], NEW rows \in SUBSET Gifts, NEW page \in Pages(rows)
    PROVE  /\ page \subseteq InRange(rows)
           /\ IsLastPage(page) => page = InRange(rows)
           /\ ~IsLastPage(page) => page # {}
           /\ \A g \in page, h \in InRange(rows) \ page : at[h] <= at[g]
<1> DEFINE R == InRange(rows)
<1>1. R \subseteq Gifts
  BY DEF InRange
<1>2. IsFiniteSet(R) /\ Cardinality(R) \in Nat
  BY <1>1, GiftAssumption, FS_Subset, FS_CardinalityType
<1>3. /\ page \subseteq R
      /\ Cardinality(page) = IF Cardinality(R) < PageLimit THEN Cardinality(R) ELSE PageLimit
      /\ \A g \in page, h \in R \ page : Descending * at[g] <= Descending * at[h]
  BY DEF Pages, FirstOf
<1>4. IsLastPage(page) => page = R
  <2> SUFFICES ASSUME IsLastPage(page) PROVE page = R
    OBVIOUS
  <2>1. Cardinality(page) = Cardinality(R)
    BY <1>2, <1>3, GiftAssumption DEF IsLastPage
  <2> QED BY <1>2, <1>3, <2>1, FS_Subset
<1>5. ~IsLastPage(page) => page # {}
  <2>1. Cardinality({}) = 0
    BY FS_EmptySet
  <2>2. ~(0 < PageLimit) => FALSE
    BY GiftAssumption
  <2> QED BY <2>1, <2>2 DEF IsLastPage
<1>6. \A g \in page, h \in R \ page : at[h] <= at[g]
  <2> SUFFICES ASSUME NEW g \in page, NEW h \in R \ page PROVE at[h] <= at[g]
    OBVIOUS
  <2>1. at[g] \in Nat /\ at[h] \in Nat
    BY <1>1, <1>3
  <2>2. (-1) * at[g] <= (-1) * at[h]
    BY <1>3 DEF Descending
  <2> QED BY <2>1, <2>2
<1> QED BY <1>3, <1>4, <1>5, <1>6

(* What the pages keep true: a row stored all the time is in every version *)
(* a page may read, and was written if it is newer than the next page.     *)
Missing == {g \in steady : since <= at[g]} \ sent
PagesInv ==
    /\ at \in [Gifts -> Nat] /\ since \in Nat /\ until \in Nat
    /\ versions \in Seq(SUBSET Gifts) /\ versions # <<>>
    /\ steady \subseteq Gifts
    /\ stream # "idle" => \A i \in 1..Len(versions) : steady \subseteq versions[i]
    /\ stream = "idle" => \A g \in Gifts : at[g] <= until
    /\ stream = "paging" => \A g \in Missing : at[g] <= until
    /\ stream = "done" => Missing = {}

LEMMA PagesStart == ASSUME NEW timing \in Timings, NEW before, NEW rows \in SUBSET Gifts, NEW from \in Nat,
                           GiftStart(timing, before, rows, from)
                    PROVE  PagesInv
<1>1. at \in [Gifts -> Nat]
  BY GiftAssumption DEF GiftStart
<1>2. until \in Nat /\ \A g \in Gifts : at[g] <= until
  BY <1>1, NoUntilIsLate DEF GiftStart
<1> QED BY <1>1, <1>2 DEF GiftStart, PagesInv

(* A transaction: what stays stored is in the new version too.             *)
LEMMA CommitKeepsPages ==
    ASSUME PagesInv, NEW rows \in SUBSET Gifts, Commit(rows),
           UNCHANGED <<at, stream, since, until, sent>>
    PROVE  PagesInv'
<1>1. versions' \in Seq(SUBSET Gifts) /\ versions' # <<>> /\ steady' \subseteq Gifts
  BY DEF Commit, PagesInv
<1>2. stream # "idle" => \A i \in 1..Len(versions') : steady' \subseteq versions'[i]
  BY DEF Commit, PagesInv
<1>3. Missing' \subseteq Missing
  BY DEF Missing, Commit
<1> QED BY <1>1, <1>2, <1>3 DEF PagesInv

(* A page: what it leaves out is not newer than its oldest row.            *)
LEMMA PageKeepsPages == ASSUME PagesInv, streamGiftWrapEvents PROVE PagesInv'
<1>0. PICK i \in 1..Len(versions) : \E page \in Pages(versions[i]) :
         /\ sent' = sent \cup page
         /\ IF IsLastPage(page)
            THEN stream' = "done" /\ UNCHANGED until
            ELSE /\ until' = Oldest(page)
                 /\ stream' = IF since > until' THEN "done" ELSE "paging"
  BY DEF streamGiftWrapEvents
<1>1. PICK page \in Pages(versions[i]) :
         /\ sent' = sent \cup page
         /\ IF IsLastPage(page)
            THEN stream' = "done" /\ UNCHANGED until
            ELSE /\ until' = Oldest(page)
                 /\ stream' = IF since > until' THEN "done" ELSE "paging"
  BY <1>0
<1>2. /\ stream = "paging"
      /\ UNCHANGED <<at, versions, since, steady>>
  BY DEF streamGiftWrapEvents
<1>3. /\ at \in [Gifts -> Nat] /\ versions[i] \in SUBSET Gifts
      /\ steady \subseteq versions[i] /\ until \in Nat /\ since \in Nat
      /\ \A g \in Missing : at[g] <= until
  BY <1>2 DEF PagesInv
<1>4. /\ page \subseteq InRange(versions[i])
      /\ IsLastPage(page) => page = InRange(versions[i])
      /\ ~IsLastPage(page) => page # {}
      /\ \A g \in page, h \in InRange(versions[i]) \ page : at[h] <= at[g]
  BY <1>3, PageIsNewest
<1>5. Missing \subseteq InRange(versions[i])
  BY <1>3 DEF InRange, Missing
<1>6. Missing' = Missing \ page
  BY <1>1, <1>2 DEF Missing
<1>7. CASE IsLastPage(page)
  <2>1. Missing' = {}
    BY <1>4, <1>5, <1>6, <1>7
  <2> QED BY <1>1, <1>2, <1>7, <2>1 DEF PagesInv
<1>8. CASE ~IsLastPage(page)
  <2>1. page \subseteq Gifts
    BY <1>3, <1>4 DEF InRange
  <2>2. PICK g \in page : Oldest(page) = at[g]
    BY <1>3, <1>4, <1>8, <2>1, OldestIsFirst
  <2>3. until' = at[g] /\ until' \in Nat
    BY <1>1, <1>3, <1>8, <2>1, <2>2
  <2>4. \A h \in Missing' : at[h] <= until'
    BY <1>4, <1>5, <1>6, <2>3
  <2>5. since > until' => Missing' = {}
    <3>1. \A h \in Missing' : since <= at[h] /\ at[h] \in Nat
      BY <1>2, <1>3 DEF Missing
    <3> QED BY <1>3, <2>3, <2>4, <3>1
  <2>6. stream' = IF since > until' THEN "done" ELSE "paging"
    BY <1>1, <1>8
  <2> QED BY <1>2, <2>3, <2>4, <2>5, <2>6 DEF PagesInv
<1> QED BY <1>7, <1>8

(* When the pages end, every gift wrap that was stored all the time has    *)
(* been written, whatever the limit of a page, the versions the replicas   *)
(* answer from and the ties among timestamps (streamGiftWrapEvents).       *)
THEOREM PagesAreComplete == RequestSpec => []PagesComplete
<1>1. RequestInit => PagesInv
  <2> SUFFICES ASSUME RequestInit PROVE PagesInv
    OBVIOUS
  <2>1. CASE GiftStart(CHOOSE t \in Timings : TRUE, {}, {}, 0)
    <3>1. (CHOOSE t \in Timings : TRUE) \in Timings
      BY GiftAssumption
    <3> QED BY <2>1, <3>1, PagesStart
  <2>2. CASE GiftInit
    <3>1. PICK timing \in Timings, before \in SUBSET Gifts, rows \in SUBSET Gifts, from \in Sinces :
             GiftStart(timing, before, rows, from)
      BY <2>2 DEF GiftInit
    <3> QED BY <3>1, PagesStart, GiftAssumption
  <2> QED BY <2>1, <2>2 DEF RequestInit
<1>2. PagesInv /\ [RequestNext]_requestVars => PagesInv'
  <2> SUFFICES ASSUME PagesInv, [GiftNext]_giftVars PROVE PagesInv'
    BY DEF RequestNext, requestVars
  <2>0. Last \in SUBSET Gifts
    BY DEF Last, PagesInv
  <2>1. ASSUME NEW g \in Gifts, Store(g) PROVE PagesInv'
    BY <2>0, <2>1, CommitKeepsPages DEF Store
  <2>2. CASE StartExpiredEventsCleanup
    BY <2>2 DEF StartExpiredEventsCleanup, PagesInv, Missing
  <2>3. CASE deleteExpiredEvents
    <3>1. PICK batch : Commit(Last \ batch)
      BY <2>3 DEF deleteExpiredEvents
    <3>2. UNCHANGED <<at, stream, since, until, sent>>
      BY <2>3 DEF deleteExpiredEvents
    <3> QED BY <2>0, <3>1, <3>2, CommitKeepsPages
  <2>4. CASE streamEvents
    <3>1. /\ steady' \subseteq Gifts
          /\ \A i \in 1..Len(versions) : steady' \subseteq versions[i]
          /\ UNCHANGED <<at, versions, since, until, sent>> /\ stream' = "paging"
          /\ stream = "idle"
      BY <2>4 DEF streamEvents
    <3>2. \A g \in Missing' : at[g] <= until
      BY <3>1 DEF Missing, PagesInv
    <3> QED BY <3>1, <3>2 DEF PagesInv
  <2>5. CASE streamGiftWrapEvents
    BY <2>5, PageKeepsPages
  <2>6. CASE streamFails
    BY <2>6 DEF streamFails, PagesInv
  <2>7. CASE UNCHANGED giftVars
    BY <2>7 DEF giftVars, PagesInv, Missing
  <2> QED BY <2>1, <2>2, <2>3, <2>4, <2>5, <2>6, <2>7 DEF GiftNext
<1>3. PagesInv => PagesComplete
  BY DEF PagesInv, PagesComplete, Missing
<1> QED BY <1>1, <1>2, <1>3, PTL DEF RequestSpec

-----------------------------------------------------------------------------
(* The stored query against the live match.                                *)

(* ApplyFilterKinds and ApplySpecialKinds against filterMatchKind.         *)
LEMMA ListedHit ==
    ASSUME NEW f, NEW ev, f.kinds \in Seq(Int), ev.kind \in Nat \ DOMAIN RepostKind,
           \A k \in Listed(f) : k >= 0
    PROVE  filterMatchKind(f, ev)
              <=> (Listed(f) = {} \/ \E k \in Listed(f) : KindHit(k, ev))
<1>0. Len(f.kinds) \in Nat /\ (Listed(f) = {} <=> Len(f.kinds) = 0)
  <2>1. Len(f.kinds) \in Nat
    OBVIOUS
  <2>2. ASSUME Len(f.kinds) # 0 PROVE Listed(f) # {}
    <3>1. 1 \in 1..Len(f.kinds)
      BY <2>1, <2>2
    <3>2. f.kinds[1] \in Listed(f)
      BY <3>1 DEF Listed
    <3> QED BY <3>2
  <2>3. ASSUME Len(f.kinds) = 0 PROVE Listed(f) = {}
    BY <2>3 DEF Listed
  <2> QED BY <2>1, <2>2, <2>3
<1>1. ASSUME filterMatchKind(f, ev), Listed(f) # {}
      PROVE  \E k \in Listed(f) : KindHit(k, ev)
  <2>1. PICK i \in 1..Len(f.kinds) : KindHit(f.kinds[i], ev)
    BY <1>0, <1>1 DEF filterMatchKind
  <2> QED BY <2>1 DEF Listed
<1>2. ASSUME NEW k \in Listed(f), KindHit(k, ev)
      PROVE  filterMatchKind(f, ev)
  <2> DEFINE Hits == {i \in 1..Len(f.kinds) : KindHit(f.kinds[i], ev)}
  <2>1. Hits \subseteq Nat /\ Hits # {}
    BY <1>2 DEF Listed
  <2>2. PICK i \in Hits : \A j \in Hits : i <= j
    BY <2>1, LeastExists
  <2>3. i \in 1..Len(f.kinds) /\ KindHit(f.kinds[i], ev)
    OBVIOUS
  <2>4. ASSUME NEW j \in 1..(i - 1) PROVE f.kinds[j] # -ev.kind
    <3>1. j \in 1..Len(f.kinds) /\ j < i
      BY <1>0, <2>3
    <3>2. f.kinds[j] >= 0 /\ f.kinds[j] \in Int
      BY <3>1, SMTT(60) DEF Listed
    <3>3. ~KindHit(f.kinds[j], ev)
      BY <2>2, <2>3, <3>1
    <3>4. f.kinds[j] # ev.kind
      BY <3>3 DEF KindHit
    <3> QED BY <3>2, <3>4
  <2> QED BY <2>3, <2>4 DEF filterMatchKind
<1>3. Listed(f) = {} => filterMatchKind(f, ev)
  BY <1>0 DEF filterMatchKind
<1> QED BY <1>1, <1>2, <1>3

LEMMA KindsAgree ==
    ASSUME NEW f, NEW ev, f.kinds \in Seq(Int), ev.kind \in Nat \ DOMAIN RepostKind,
           \A k \in Listed(f) : k >= 0, AsIs(f) => Listed(f) \cap DOMAIN RepostKind = {}
    PROVE  ApplySpecialKinds(f, ev) /\ ApplyFilterKinds(f, ev) <=> filterMatchKind(f, ev)
<1>1. filterMatchKind(f, ev) <=> (Listed(f) = {} \/ \E k \in Listed(f) : KindHit(k, ev))
  BY ListedHit
<1>2. CASE AsIs(f)
  <2>1. ApplySpecialKinds(f, ev)
    BY <1>2 DEF ApplySpecialKinds
  <2>2. SpecialKinds(f) = Listed(f) /\ {k \in SpecialKinds(f) : k >= 0} = Listed(f)
    BY <1>2 DEF SpecialKinds
  <2>3. ApplyFilterKinds(f, ev) <=> (Listed(f) = {} \/ ev.kind \in Listed(f))
    BY <2>2 DEF ApplyFilterKinds
  <2>4. \A k \in Listed(f) : KindHit(k, ev) <=> k = ev.kind
    BY <1>2 DEF KindHit
  <2> QED BY <1>1, <2>1, <2>3, <2>4
<1>3. CASE ~AsIs(f)
  <2>1. GenericRepost \notin Listed(f) /\ Reposted(f) # {}
    BY <1>3 DEF AsIs
  <2>2. Listed(f) # {}
    BY <2>1 DEF Reposted
  <2>3. SpecialKinds(f) = (Listed(f) \ DOMAIN RepostKind) \cup {GenericRepost}
    BY <1>3 DEF SpecialKinds
  <2>4. {k \in SpecialKinds(f) : k >= 0} = SpecialKinds(f)
    BY <2>3, FilterAssumption
  <2>5. ApplyFilterKinds(f, ev) <=> ev.kind \in Listed(f) \/ ev.kind = GenericRepost
    BY <2>3, <2>4 DEF ApplyFilterKinds
  <2>6. ApplySpecialKinds(f, ev) <=> (ev.kind = GenericRepost => ev.reposted \in Reposted(f))
    BY <1>3 DEF ApplySpecialKinds
  <2>7. (\E k \in Listed(f) : KindHit(k, ev))
           <=> \/ ev.kind \in Listed(f)
               \/ ev.kind = GenericRepost /\ ev.reposted \in Reposted(f)
    BY DEF KindHit, Reposted
  <2> QED BY <1>1, <2>1, <2>2, <2>5, <2>6, <2>7
<1> QED BY <1>2, <1>3

(* ApplyFilterTags against MatchesTags.                                    *)
PlainTags(f) ==
    \A n \in DOMAIN f.tags :
       /\ n \notin {"t", "!t", "l"} \cup DOMAIN Excluded
       /\ f.tags[n] # {}
       /\ \A pat \in f.tags[n] :
             /\ Len(pat) \in 1..MaxTagValues
             /\ pat[Len(pat)] \notin (IF n = "d" THEN {Wild, Empty} ELSE {Wild})

LEMMA FittingIsFits ==
    ASSUME NEW pat, NEW vals, Len(pat) \in 1..MaxTagValues, Len(vals) \in Nat,
           pat[Len(pat)] # Wild
    PROVE  Fitting(pat, vals) <=> Fits(pat, vals)
<1>0. MaxTagValues \in Nat
  BY QueryAssumption
<1>1. Fitting(pat, vals) => Len(pat) <= Len(vals)
  BY <1>0 DEF Fitting
<1>2. Fitting(pat, vals) => Fits(pat, vals)
  BY <1>0, <1>1 DEF Fitting, Fits
<1>3. Fits(pat, vals) => Fitting(pat, vals)
  BY <1>0 DEF Fitting, Fits
<1> QED BY <1>2, <1>3

LEMMA TagsAgree ==
    ASSUME NEW f, NEW ev, PlainTags(f),
           \A n \in DOMAIN ev.tags : \A vals \in ev.tags[n] : Len(vals) \in Nat,
           \A v, w \in ValuesOf(ev.tags, "d") : v = w
    PROVE  ApplyFilterTags(f, ev) <=> MatchesTags(f, ev)
<1>1. CASE IsSingleD(f)
  <2>1. PICK v : f.tags["d"] = {<<v>>}
    BY <1>1 DEF IsSingleD
  <2>2. DOMAIN f.tags = {"d"}
    BY <1>1 DEF IsSingleD
  <2>3. v # Wild /\ v # Empty
    BY <2>1, <2>2 DEF PlainTags
  <2>4. {At(w, 1) : w \in f.tags["d"]} = {v}
    BY <2>1 DEF At
  <2>5. ApplyFilterTags(f, ev)
           <=> {v} = (IF "d" \in DOMAIN ev.tags THEN {At(w, 1) : w \in ev.tags["d"]} ELSE {Empty})
    BY <1>1, <2>4 DEF ApplyFilterTags
  <2>6. MatchesTags(f, ev)
           <=> "d" \in DOMAIN ev.tags /\ \E vals \in ev.tags["d"] : Fits(<<v>>, vals)
    BY <2>1, <2>2 DEF MatchesTags
  <2>7. CASE "d" \notin DOMAIN ev.tags
    BY <2>3, <2>5, <2>6, <2>7
  <2>8. CASE "d" \in DOMAIN ev.tags
    <3>1. \A vals \in ev.tags["d"] : Fits(<<v>>, vals) <=> At(vals, 1) = v
      BY <2>3, <2>8 DEF Fits, At
    <3>2. \A u, w \in ev.tags["d"] : u = w
      BY <2>8 DEF ValuesOf
    <3>3. {v} = {At(w, 1) : w \in ev.tags["d"]} <=> \E w \in ev.tags["d"] : At(w, 1) = v
      BY <3>2
    <3> QED BY <2>5, <2>6, <2>8, <3>1, <3>3
  <2> QED BY <2>7, <2>8
<1>2. CASE ~IsSingleD(f)
  <2>1. DOMAIN f.tags \ ({"t", "!t"} \cup DOMAIN Excluded) = DOMAIN f.tags
        /\ DOMAIN f.tags \cap DOMAIN Excluded = {}
    BY DEF PlainTags
  <2>2. ApplyFilterTags(f, ev)
           <=> \A n \in DOMAIN f.tags :
                  IF HasValues(f, n)
                  THEN Patterns(f, n) # {} => \E pat \in Patterns(f, n) : Exists(ev, n, pat)
                  ELSE n \in DOMAIN ev.tags
    BY <1>2, <2>1 DEF ApplyFilterTags
  <2>3. ASSUME NEW n \in DOMAIN f.tags
        PROVE  (IF HasValues(f, n)
                THEN Patterns(f, n) # {} => \E pat \in Patterns(f, n) : Exists(ev, n, pat)
                ELSE n \in DOMAIN ev.tags)
                <=> /\ n \in DOMAIN ev.tags
                    /\ \E pat \in f.tags[n], vals \in ev.tags[n] : Fits(pat, vals)
    <3>1. /\ n # "l" /\ f.tags[n] # {}
          /\ \A pat \in f.tags[n] : Len(pat) \in 1..MaxTagValues /\ pat[Len(pat)] # Wild
      BY DEF PlainTags
    <3>2. \A pat \in f.tags[n] : HasValue(pat)
      BY <3>1, QueryAssumption DEF HasValue
    <3>3. Patterns(f, n) = f.tags[n]
      BY <3>1, <3>2 DEF Patterns
    <3>4. HasValues(f, n)
      BY <3>1, <3>2 DEF HasValues, ValuesOf
    <3>5. \A pat \in f.tags[n] : Exists(ev, n, pat)
             <=> n \in DOMAIN ev.tags /\ \E vals \in ev.tags[n] : Fits(pat, vals)
      <4> SUFFICES ASSUME NEW pat \in f.tags[n]
                   PROVE  Exists(ev, n, pat)
                             <=> n \in DOMAIN ev.tags /\ \E vals \in ev.tags[n] : Fits(pat, vals)
        OBVIOUS
      <4>1. CASE n \notin DOMAIN ev.tags
        BY <4>1 DEF Exists, ValuesOf
      <4>2. CASE n \in DOMAIN ev.tags
        <5>1. \A vals \in ev.tags[n] : Fitting(pat, vals) <=> Fits(pat, vals)
          BY <3>1, <4>2, FittingIsFits
        <5> QED BY <4>2, <5>1 DEF Exists, ValuesOf
      <4> QED BY <4>1, <4>2
    <3> QED BY <3>1, <3>3, <3>4, <3>5
  <2> QED BY <2>2, <2>3 DEF MatchesTags
<1> QED BY <1>1, <1>2

(* Without search words no flag is set.                                    *)
LEMMA NoFlags == ASSUME NEW f, NEW n, f.search = <<>> PROVE Flag(f, n) = Wild
BY DEF Flag

(* One filter both sides read alike, and one row that is not withheld: the *)
(* WHERE clause of the filter holds when the live match accepts the event. *)
LEMMA FilterAgrees ==
    ASSUME NEW fs \in FilterSets, NEW f \in fs, NEW ev \in EventSet, NEW user,
           PlainFilter(f, ev), PlainRow(ev)
    PROVE  ApplyFilter(f, ev) <=> FilterMatch(f, ev, user)
<1>0. /\ f.kinds \in Seq(Int) /\ ev.kind \in Nat \ DOMAIN RepostKind
      /\ f.authors # {} => f.hasAuthors
  BY LiveAssumption
<1>1. /\ f.since = Wild \/ f.since \in Nat \ {0}
      /\ f.until = Wild \/ f.until \in Nat \ {0}
      /\ ev.at \in Nat
      /\ \A n \in DOMAIN ev.tags : \A vals \in ev.tags[n] : Len(vals) \in Nat
  BY QueryAssumption DEF PlainFilter
<1>2. ApplySpecialKinds(f, ev) /\ ApplyFilterKinds(f, ev) <=> filterMatchKind(f, ev)
  BY <1>0, KindsAgree DEF PlainFilter
<1>3. PlainTags(f) /\ (ApplyFilterTags(f, ev) <=> MatchesTags(f, ev))
  <2>1. PlainTags(f)
    BY DEF PlainTags, PlainFilter
  <2>2. \A v, w \in ValuesOf(ev.tags, "d") : v = w
    BY DEF PlainRow
  <2> QED BY <1>1, <2>1, <2>2, TagsAgree
<1>4. /\ OneOf(ev.id, f.ids) <=> (f.ids # Wild => ev.id \in f.ids)
      /\ ApplyFilterAddresses(f, ev)
            <=> (f.addresses # Wild => {ev.address, ev.id} \cap f.addresses # {})
  BY DEF OneOf, Given, ApplyFilterAddresses, PlainFilter
<1>5. ApplyTimeRange(f, ev)
         <=> /\ f.since # Wild => ev.at >= f.since
             /\ f.until # Wild => ev.at <= f.until
  BY <1>1 DEF ApplyTimeRange
<1>6. ApplyFilterForExtensions(f, ev)
  <2>1. \A n : Flag(f, n) = Wild
    BY NoFlags DEF PlainFilter
  <2>2. Wild # TRUE /\ Wild # FALSE
    BY QueryAssumption
  <2> QED BY <2>1, <2>2, Zenon DEF ApplyFilterForExtensions
<1>7. ApplyFilterTtags(f, ev) /\ ApplyFilterLang(f, ev)
  <2>1. "t" \notin DOMAIN f.tags /\ "!t" \notin DOMAIN f.tags /\ "l" \notin DOMAIN f.tags
    BY <1>3 DEF PlainTags
  <2>2. Firsts(f.tags, "t") = {} /\ Firsts(f.tags, "!t") = {} /\ ValuesOf(f.tags, "l") = {}
    BY <2>1 DEF Firsts, ValuesOf
  <2> QED BY <2>2 DEF ApplyFilterTtags, ApplyFilterLang
<1>8. ApplyAuthors(f, ev) /\ (f.hasAuthors => filterMatchAuthors(f, ev, user))
  BY <1>0 DEF ApplyAuthors, filterMatchAuthors, PlainFilter
<1>9. ApplyFilterTagMarkers(f, ev) /\ ApplyFilterSoftDeleted(f, ev) /\ ApplyCommunity(f, ev)
  BY DEF ApplyFilterTagMarkers, ApplyFilterSoftDeleted, ApplyCommunity, PlainFilter, PlainRow
<1>10. IsFilterEmpty(f) => FilterMatch(f, ev, user)
  <2> SUFFICES ASSUME IsFilterEmpty(f) PROVE FilterMatch(f, ev, user)
    OBVIOUS
  <2>1. /\ f.ids = Wild /\ f.addresses = Wild /\ f.since = Wild /\ f.until = Wild
        /\ f.kinds = <<>> /\ f.tags = <<>> /\ f.authors = {}
    BY DEF IsFilterEmpty, Given, PlainFilter
  <2>2. Rest(f, ev)
    BY <2>1 DEF Rest
  <2>3. filterMatchKind(f, ev)
    BY <2>1 DEF filterMatchKind
  <2>4. DOMAIN f.tags = {}
    BY <2>1
  <2>5. MatchesTags(f, ev)
    BY <2>4 DEF MatchesTags
  <2> QED BY <1>8, <2>2, <2>3, <2>5 DEF FilterMatch
<1>11. Rest(f, ev) <=> OneOf(ev.id, f.ids) /\ ApplyFilterAddresses(f, ev) /\ ApplyTimeRange(f, ev)
  BY <1>4, <1>5 DEF Rest
<1> QED
  BY <1>2, <1>3, <1>6, <1>7, <1>8, <1>9, <1>10, <1>11 DEF ApplyFilter, FilterMatch

(* ApplyFilterGiftWrap against canForwardEvent.                            *)
LEMMA GiftWrapAgrees ==
    ASSUME NEW ev \in EventSet, PlainRow(ev)
    PROVE  Storable(ev) /\ (ApplyFilterGiftWrap(ev) <=> canForwardEvent(ev))
<1>1. CASE ev.kind # GiftWrap
  BY <1>1 DEF Storable, ApplyFilterGiftWrap, canForwardEvent
<1>2. CASE ev.kind = GiftWrap
  <2>1. PICK v \in ValuesOf(ev.tags, "p") :
           /\ ValuesOf(ev.tags, "p") = {v}
           /\ \/ Len(v) = 1 /\ v[1] # Empty
              \/ Len(v) = 3 /\ v[3] # Empty /\ (v[3] = DeviceKey => v[1] = MasterKey)
    BY <1>2 DEF PlainRow
  <2>2. Storable(ev)
    BY <2>1 DEF Storable
  <2>3. Receivers(ev) = {Target(v)} \ {Empty}
    <3>1. ev.lastP \in {v, <<>>} /\ (Target(ev.lastP) = Empty => Target(v) = Empty)
      BY <2>1, QueryAssumption
    <3>2. Target(<<>>) = Empty
      BY DEF Target, At
    <3> QED BY <3>1, <3>2 DEF Receivers
  <2>4. canForwardEvent(ev) <=> \/ Len(v) = 1 /\ v[1] = DeviceKey
                                \/ Len(v) = 3 /\ v[1] = MasterKey /\ v[3] = DeviceKey
    BY <1>2, <2>1 DEF canForwardEvent
  <2>5. CASE Len(v) = 1
    <3>1. Receivers(ev) = {v[1]}
      BY <2>1, <2>3, <2>5 DEF At, Target
    <3> QED BY <1>2, <2>2, <2>4, <2>5, <3>1 DEF ApplyFilterGiftWrap
  <2>6. CASE Len(v) = 3
    <3>1. Receivers(ev) = {v[3]}
      BY <2>1, <2>3, <2>6 DEF At, Target
    <3> QED BY <1>2, <2>1, <2>2, <2>4, <2>6, <3>1 DEF ApplyFilterGiftWrap
  <2> QED BY <2>1, <2>5, <2>6
<1> QED BY <1>1, <1>2

(* A REQ without filters selects, and is forwarded, every row.             *)
LEMMA NoFilterIsEmpty == IsFilterEmpty(NoFilter) /\ ~BadRange(NoFilter)
<1>1. \A n : Flag(NoFilter, n) = Wild
  BY NoFlags DEF NoFilter
<1> QED BY <1>1 DEF IsFilterEmpty, BadRange, NoFilter, Given

LEMMA NoFilterIsCandidate == ASSUME NEW ev PROVE IsCandidate({}, ev)
<1>1. Key("none", Empty, anyKind) \in parseFilters({})
  BY DEF parseFilters
<1>2. <<"none", Empty>> \in EventTargets(ev)
  BY DEF EventTargets
<1>3. Key("none", Empty, anyKind) \in parseEvent(ev)
  BY <1>2 DEF parseEvent
<1> QED BY <1>1, <1>3 DEF IsCandidate

LEMMA SelectionAgrees ==
    ASSUME NEW fs \in FilterSets, NEW ev \in EventSet, NEW user,
           \A f \in fs : PlainFilter(f, ev), PlainRow(ev)
    PROVE  SelectEvents(fs, ev)
              <=> IsCandidate(fs, ev) /\ FiltersMatch(fs, ev, user) /\ canForwardEvent(ev)
<1>1. Storable(ev) /\ ~ev.hidden /\ (ApplyFilterGiftWrap(ev) <=> canForwardEvent(ev))
  BY GiftWrapAgrees DEF PlainRow
<1>2. CASE fs = {}
  <2>1. SelectEvents(fs, ev) <=> canForwardEvent(ev)
    BY <1>1, <1>2, NoFilterIsEmpty DEF SelectEvents, BuildWhere, ApplyFilter
  <2>2. IsCandidate(fs, ev) /\ FiltersMatch(fs, ev, user)
    BY <1>2, NoFilterIsCandidate DEF FiltersMatch
  <2> QED BY <2>1, <2>2
<1>3. CASE fs # {}
  <2>1. \A f \in fs : ~BadRange(f)
    BY DEF PlainFilter
  <2>2. \A f \in fs : ApplyFilter(f, ev) <=> FilterMatch(f, ev, user)
    BY FilterAgrees
  <2>3. SelectEvents(fs, ev) <=> canForwardEvent(ev) /\ \E f \in fs : ApplyFilter(f, ev)
    BY <1>1, <1>3, <2>1 DEF SelectEvents, BuildWhere
  <2>4. FiltersMatch(fs, ev, user) <=> \E f \in fs : FilterMatch(f, ev, user)
    BY <1>3 DEF FiltersMatch
  <2>5. ASSUME NEW f \in fs, FilterMatch(f, ev, user) PROVE IsCandidate(fs, ev)
    <3>1. /\ f.kinds \in Seq(Int) /\ ev.kind \in Nat \ DOMAIN RepostKind
          /\ f.authors # {} => f.hasAuthors
      BY LiveAssumption
    <3>2. filterMatchKind(f, ev) /\ MatchesTags(f, ev)
      BY <2>5 DEF FilterMatch
    <3>3. Uniform(f) /\ (f.authors # {} => DirectAuthor(f, ev))
      BY <3>1 DEF PlainFilter
    <3>4. FilterKeys(f) \cap parseEvent(ev) # {}
      BY <3>1, <3>2, <3>3, KeyShared
    <3> QED BY <1>3, <3>4 DEF IsCandidate, parseFilters
  <2> QED BY <2>2, <2>3, <2>4, <2>5
<1> QED BY <1>2, <1>3

-----------------------------------------------------------------------------
(* What the state knows once a REQ has asked again.                        *)
AskedInv ==
    /\ \A s \in subs : s.filters \in FilterSets
    /\ \A p \in seen : p[1].filters \in FilterSets /\ p[2] \in EventSet
    /\ \A p \in seen : p \in forwarded <=> Forwards(p[1], p[2])
    /\ asked => seen # {} /\ answered = {p \in seen : SelectEvents(p[1].filters, p[2])}

LEMMA AskedInvariant == RequestSpec => []AskedInv
<1>1. RequestInit => AskedInv
  BY DEF RequestInit, QueryInit, LiveInit, AskedInv
<1>2. AskedInv /\ [RequestNext]_requestVars => AskedInv'
  <2> SUFFICES ASSUME AskedInv, [QueryNext]_queryVars PROVE AskedInv'
    BY DEF RequestNext, requestVars
  <2>1. CASE Ask
    BY <2>1 DEF Ask, liveVars, AskedInv, Forwards
  <2>2. CASE Subscribe /\ UNCHANGED <<asked, answered>>
    BY <2>2 DEF Subscribe, AskedInv
  <2>3. CASE Broadcast /\ UNCHANGED <<asked, answered>>
    <3>1. PICK ev \in EventSet :
             /\ seen' = {<<s, ev>> : s \in subs}
             /\ forwarded' = {<<s, ev>> : s \in {x \in subs : Forwards(x, ev)}}
      BY <2>3 DEF Broadcast
    <3>2. ~asked /\ ~asked' /\ UNCHANGED subs
      BY <2>3 DEF Broadcast, AskedInv
    <3>3. \A p \in seen' : p[1] \in subs /\ p[2] = ev /\ p = <<p[1], ev>>
      BY <3>1
    <3>4. \A p \in seen' : p \in forwarded' <=> Forwards(p[1], p[2])
      BY <3>1, <3>3
    <3> QED BY <3>2, <3>3, <3>4 DEF AskedInv
  <2>4. CASE UNCHANGED queryVars
    BY <2>4 DEF queryVars, liveVars, AskedInv
  <2> QED BY <2>1, <2>2, <2>3, <2>4 DEF QueryNext, LiveNext
<1> QED BY <1>1, <1>2, PTL DEF RequestSpec

(* For all filters both sides read alike and all rows that are not         *)
(* withheld, a stored query selects an event exactly if it is forwarded    *)
(* live: the SQL that ApplyFilter and its parts write, against the routing *)
(* keys and canForwardLiveEvent.                                           *)
THEOREM StoredAgreesWithLive == RequestSpec => []StoredMatchesLive
<1>1. AskedInv => StoredMatchesLive
  <2> SUFFICES ASSUME AskedInv, asked, NEW p \in seen,
                      \A f \in p[1].filters : PlainFilter(f, p[2]), PlainRow(p[2])
               PROVE  p \in answered <=> p \in forwarded
    BY DEF StoredMatchesLive
  <2>1. /\ p[1].filters \in FilterSets /\ p[2] \in EventSet
        /\ p \in forwarded <=> Forwards(p[1], p[2])
        /\ p \in answered <=> SelectEvents(p[1].filters, p[2])
    BY DEF AskedInv
  <2>2. canForwardCommunityEvent(p[2])
    BY DEF PlainRow
  <2>3. SelectEvents(p[1].filters, p[2]) <=> Forwards(p[1], p[2])
    BY <2>1, <2>2, SelectionAgrees DEF Forwards, canForwardLiveEvent
  <2> QED BY <2>1, <2>3
<1> QED BY <1>1, AskedInvariant, PTL

(* For all filters and events, an answer holds no hidden row and no gift   *)
(* wrap for other devices only, and it holds soft-deleted rows and posts   *)
(* of communities only where a filter names them (BuildWhere).             *)
THEOREM AnswersAreVisible == RequestSpec => []AnswerVisible
<1>1. AskedInv => AnswerVisible
  <2> SUFFICES ASSUME AskedInv, asked, NEW p \in answered
               PROVE  /\ ~p[2].hidden
                      /\ p[2].kind = GiftWrap =>
                            \/ \A v \in ValuesOf(p[2].tags, "p") : {At(v, 1), At(v, 3)} = {Empty}
                            \/ \E v \in ValuesOf(p[2].tags, "p") : DeviceKey \in {v[i] : i \in 1..Len(v)}
                      /\ \/ p[1].filters = {}
                         \/ \E f \in p[1].filters :
                               \/ IsFilterEmpty(f)
                               \/ /\ p[2].edit = "deleted" =>
                                        \/ Given(f.ids)
                                        \/ /\ f.kinds # <<>> /\ DirectAuthor(f, p[2])
                                           /\ HasValues(f, "d")
                                  /\ p[2].kind \in CommunityPosts =>
                                        \/ "h" \in DOMAIN f.tags
                                        \/ Firsts(p[2].tags, "h") \subseteq {p[2].id}
    BY DEF AnswerVisible
  <2> DEFINE ev == p[2]
  <2>1. SelectEvents(p[1].filters, ev) /\ ev \in EventSet
    BY DEF AskedInv
  <2>2. \E f \in IF p[1].filters = {} THEN {NoFilter} ELSE p[1].filters : BuildWhere(f, ev)
    BY <2>1 DEF SelectEvents
  <2>3. ~ev.hidden /\ ApplyFilterGiftWrap(ev)
    BY <2>2 DEF BuildWhere
  <2>4. ASSUME ev.kind = GiftWrap, NEW u \in ValuesOf(ev.tags, "p"),
               {At(u, 1), At(u, 3)} # {Empty}
        PROVE  \E v \in ValuesOf(ev.tags, "p") : DeviceKey \in {v[i] : i \in 1..Len(v)}
    <3> DEFINE v == ev.lastP
    <3>1. Target(v) # Empty /\ v \in ValuesOf(ev.tags, "p")
      <4>1. Target(u) # Empty /\ Target(<<>>) = Empty
        BY <2>4 DEF Target, At
      <4> QED BY <2>1, <2>4, <4>1, QueryAssumption
    <3>2. Len(v) \in Nat
      BY <2>1, <3>1, QueryAssumption DEF ValuesOf
    <3>3. Target(v) = DeviceKey
      BY <2>3, <2>4, <3>1 DEF ApplyFilterGiftWrap, Receivers
    <3>4. Target(v) \in {v[i] : i \in 1..Len(v)}
      <4>1. CASE At(v, 3) # Empty
        BY <3>2, <4>1 DEF Target, At
      <4>2. CASE At(v, 3) = Empty
        BY <3>1, <3>2, <4>2 DEF Target, At
      <4> QED BY <4>1, <4>2
    <3> QED BY <3>1, <3>3, <3>4
  <2>5. ASSUME p[1].filters # {}
        PROVE  \E f \in p[1].filters :
                  \/ IsFilterEmpty(f)
                  \/ /\ ev.edit = "deleted" =>
                           \/ Given(f.ids)
                           \/ f.kinds # <<>> /\ DirectAuthor(f, ev) /\ HasValues(f, "d")
                     /\ ev.kind \in CommunityPosts =>
                           "h" \in DOMAIN f.tags \/ Firsts(ev.tags, "h") \subseteq {ev.id}
    <3>1. PICK f \in p[1].filters : ApplyFilter(f, ev)
      BY <2>2, <2>5 DEF BuildWhere
    <3>2. CASE IsFilterEmpty(f)
      BY <3>2
    <3>3. CASE ~IsFilterEmpty(f)
      <4>1. ApplyAuthors(f, ev) /\ ApplyFilterSoftDeleted(f, ev) /\ ApplyCommunity(f, ev)
        BY <3>1, <3>3 DEF ApplyFilter
      <4>2. ev.edit = "deleted" =>
               \/ Given(f.ids)
               \/ f.kinds # <<>> /\ DirectAuthor(f, ev) /\ HasValues(f, "d")
        BY <4>1 DEF ApplyAuthors, ApplyFilterSoftDeleted, NamesRow
      <4>3. ev.kind \in CommunityPosts =>
               "h" \in DOMAIN f.tags \/ Firsts(ev.tags, "h") \subseteq {ev.id}
        BY <4>1 DEF ApplyCommunity
      <4> QED BY <4>2, <4>3
    <3> QED BY <3>2, <3>3
  <2> QED BY <2>3, <2>4, <2>5
<1> QED BY <1>1, AskedInvariant, PTL

-----------------------------------------------------------------------------
(* The subscription index under concurrent callers.                        *)

(* A hash has at most one stored value, and every value that finished its  *)
(* Index or is in the middle of it can be told apart by its call's state.  *)
OnePerHash ==
    \A u, v \in values : HashOf[u] = HashOf[v] => u = v

(* At most one writer is changing a hash that never had two at once.       *)
Turns ==
    \A u, w \in Writers :
       Active(u) /\ Active(w) /\ HashOf[u] = HashOf[w] /\ HashOf[u] \notin crossed
       => u = w

(* What the bitmaps hold in the middle of each operation.                  *)
Middle ==
    \A w \in Writers : HashOf[w] \notin crossed =>
       /\ pc[w] = "drop" => KeysAt(HashOf[w]) = old[w]
       /\ pc[w] = "add" => KeysAt(HashOf[w]) = {}
       /\ w \in Values /\ Active(w) => w \in values
       /\ w \in Removals /\ Active(w) => ValuesAt(HashOf[w]) = {}

(* Calls are where their kind of operation allows.                         *)
Places ==
    /\ \A w \in Writers : pc[w] # "iterate"
    /\ \A d \in Removals : pc[d] # "add"
    /\ \A v \in values : pc[v] # "idle"
    /\ \A l \in Lookups : \A v \in settled[l] : pc[v] # "idle"

(* What the strengthened invariant says about a Lookup under way: a value  *)
(* that was settled and is still stored was yielded or is still ahead.     *)
Ahead ==
    \A l \in Lookups : pc[l] # "idle" =>
       \A v \in settled[l] \cap values :
          v \in yielded[l] \/ HashOf[v] \in found[l] \/ HashOf[v] \in doubtful[l]

Ended == \A l \in Lookups : pc[l] = "done" => found[l] = {}

IInv ==
    /\ TypeOK /\ OnePerHash /\ Turns /\ Middle /\ Places /\ IndexesAgree
    /\ Ahead /\ Ended

USE MatcherAssumption DEF Writers, Calls

(* What removeEntry and Index do to the routing keys of each hash.         *)
LEMMA DropKeys ==
    ASSUME NEW h \in Hashes, NEW K \in SUBSET Keys, removeEntry(h, K)
    PROVE  \A g \in Hashes : KeysAt(g)' = IF g = h THEN KeysAt(h) \ K ELSE KeysAt(g)
  BY DEF removeEntry, KeysAt

LEMMA AddKeys ==
    ASSUME NEW h \in Hashes, NEW K \in SUBSET Keys, bits' = bits \cup (K \X {h})
    PROVE  \A g \in Hashes : KeysAt(g)' = IF g = h THEN KeysAt(h) \cup K ELSE KeysAt(g)
  BY DEF KeysAt

(* A hash has the keys of its one stored value.                            *)
LEMMA Loaded ==
    ASSUME TypeOK, OnePerHash
    PROVE  /\ \A v \in values : LoadedKeys(HashOf[v]) = KeysOf[v]
           /\ \A h \in Hashes : /\ LoadedKeys(h) \in SUBSET Keys
                               /\ ValuesAt(h) = {} => LoadedKeys(h) = {}
  BY DEF TypeOK, OnePerHash, LoadedKeys, ValuesAt

(* A settled value's hash is quiet or being changed by another writer, who *)
(* would have taken it out of Values: so its keys are in the bitmaps.      *)
LEMMA SettledIsIndexed ==
    ASSUME IInv, NEW v \in values, pc[v] = "done", HashOf[v] \notin crossed
    PROVE  KeysAt(HashOf[v]) = KeysOf[v]
<1> USE DEF IInv
<1>1. Quiet(HashOf[v])
  <2> SUFFICES ASSUME NEW w \in Writers, HashOf[w] = HashOf[v], Active(w) PROVE FALSE
    BY DEF Quiet
  <2>1. CASE w \in Values
    BY <2>1 DEF Middle, OnePerHash, Active, TypeOK
  <2>2. CASE w \in Removals
    BY <2>2 DEF Middle, ValuesAt, TypeOK
  <2> QED BY <2>1, <2>2
<1> QED BY <1>1, Loaded DEF IndexesAgree, TypeOK

LEMMA InitInv == Init => IInv
  BY DEF Init, IInv, TypeOK, OnePerHash, Turns, Middle, Places, IndexesAgree,
         Ahead, Ended, Active, KeysAt, LoadedKeys, ValuesAt, Quiet

(* Every step of a shard preserves the invariant.                          *)
LEMMA StepInv ==
    ASSUME IInv, [Next]_vars
    PROVE  IInv'
<1> USE DEF IInv
<1>1. ASSUME NEW v \in Values, IndexStore(v) PROVE IInv'
  <2> DEFINE h == HashOf[v]
  <2> USE <1>1 DEF IndexStore
  <2>1. /\ h \in Hashes /\ pc[v] = "idle"
        /\ crossed' \in SUBSET Hashes /\ crossed \subseteq crossed'
        /\ h \notin crossed' => h \notin crossed /\ Quiet(h)
    BY DEF Cross, TypeOK
  <2>2. (h \notin crossed' => KeysAt(h) = LoadedKeys(h)) /\ LoadedKeys(h) \in SUBSET Keys
    <3>1. h \notin crossed' => KeysAt(h) = LoadedKeys(h)
      BY <2>1 DEF IndexesAgree
    <3>2. LoadedKeys(h) \in SUBSET Keys
      BY DEF LoadedKeys, ValuesAt, TypeOK
    <3> QED BY <3>1, <3>2
  <2>3. TypeOK'
    BY <2>1, <2>2 DEF TypeOK
  <2>4. OnePerHash' /\ Places'
    BY DEF OnePerHash, Places, ValuesAt, TypeOK
  <2>5. \A w \in Writers : w # v => Active(w)' = Active(w)
    BY DEF Active, TypeOK
  <2>6. \A g \in Hashes : KeysAt(g)' = KeysAt(g)
    BY DEF KeysAt
  <2>7. \A g \in Hashes : g # h => ValuesAt(g)' = ValuesAt(g)
    BY DEF ValuesAt, TypeOK
  <2>8. Turns'
    BY <2>1, <2>5 DEF Turns, Quiet
  <2>9. Middle'
    <3> SUFFICES ASSUME NEW w \in Writers, HashOf[w] \notin crossed' PROVE
          /\ pc'[w] = "drop" => KeysAt(HashOf[w])' = old'[w]
          /\ pc'[w] = "add" => KeysAt(HashOf[w])' = {}
          /\ w \in Values /\ Active(w)' => w \in values'
          /\ w \in Removals /\ Active(w)' => ValuesAt(HashOf[w])' = {}
      BY DEF Middle
    <3>1. CASE w = v
      BY <3>1, <2>1, <2>2, <2>6, Loaded DEF TypeOK
    <3>2. CASE w # v /\ HashOf[w] = h
      BY <3>2, <2>1, <2>5 DEF Quiet, Active, TypeOK
    <3>3. CASE w # v /\ HashOf[w] # h
      BY <3>3, <2>1, <2>5, <2>6, <2>7 DEF Middle, TypeOK, ValuesAt
    <3> QED BY <3>1, <3>2, <3>3
  <2>10. IndexesAgree'
    <3> SUFFICES ASSUME NEW g \in Hashes \ crossed', Quiet(g)' PROVE KeysAt(g)' = LoadedKeys(g)'
      BY DEF IndexesAgree
    <3>1. g # h
      BY <2>1 DEF Quiet, Active, TypeOK
    <3>2. Quiet(g)
      BY <3>1, <2>5 DEF Quiet
    <3> QED BY <3>1, <3>2, <2>1, <2>6, <2>7 DEF IndexesAgree, LoadedKeys
  <2>11. Ahead' /\ Ended'
    BY <2>1 DEF Ahead, Ended, Places, TypeOK
  <2> QED BY <2>3, <2>4, <2>8, <2>9, <2>10, <2>11
<1>2. ASSUME NEW v \in Values, IndexDrop(v) PROVE IInv'
  <2> DEFINE h == HashOf[v]
  <2> USE <1>2 DEF IndexDrop
  <2>1. h \in Hashes /\ Active(v) /\ old[v] \in SUBSET Keys
    BY DEF Active, TypeOK
  <2>2. \A g \in Hashes : KeysAt(g)' = IF g = h THEN KeysAt(h) \ old[v] ELSE KeysAt(g)
    BY <2>1, DropKeys
  <2>3. TypeOK'
    BY DEF TypeOK, removeEntry
  <2>4. OnePerHash' /\ Places' /\ Ahead' /\ Ended'
    BY DEF OnePerHash, Places, Ahead, Ended, TypeOK
  <2>5. \A w \in Writers : Active(w)' = Active(w)
    BY DEF Active, TypeOK
  <2>6. \A g \in Hashes : ValuesAt(g)' = ValuesAt(g)
    BY DEF ValuesAt
  <2>7. Turns'
    BY <2>5 DEF Turns
  <2>8. Middle'
    <3> SUFFICES ASSUME NEW w \in Writers, HashOf[w] \notin crossed' PROVE
          /\ pc'[w] = "drop" => KeysAt(HashOf[w])' = old'[w]
          /\ pc'[w] = "add" => KeysAt(HashOf[w])' = {}
          /\ w \in Values /\ Active(w)' => w \in values'
          /\ w \in Removals /\ Active(w)' => ValuesAt(HashOf[w])' = {}
      BY DEF Middle
    <3>1. CASE w = v
      BY <3>1, <2>1, <2>2, <2>5 DEF Middle, TypeOK
    <3>2. CASE w # v /\ HashOf[w] = h
      BY <3>2, <2>1, <2>5 DEF Turns, Active, TypeOK
    <3>3. CASE w # v /\ HashOf[w] # h
      BY <3>3, <2>2, <2>5, <2>6 DEF Middle, TypeOK, ValuesAt
    <3> QED BY <3>1, <3>2, <3>3
  <2>9. IndexesAgree'
    BY <2>1, <2>2, <2>5, <2>6 DEF IndexesAgree, Quiet, LoadedKeys
  <2> QED BY <2>3, <2>4, <2>7, <2>8, <2>9
<1>3. ASSUME NEW v \in Values, IndexAdd(v) PROVE IInv'
  <2> DEFINE h == HashOf[v]
  <2> USE <1>3 DEF IndexAdd
  <2>1. /\ h \in Hashes /\ Active(v) /\ KeysOf[v] \in SUBSET Keys
        /\ h \notin crossed => v \in values
    BY DEF Active, TypeOK, Middle
  <2>2. \A g \in Hashes : KeysAt(g)' = IF g = h THEN KeysAt(h) \cup KeysOf[v] ELSE KeysAt(g)
    BY <2>1, AddKeys
  <2>3. TypeOK'
    BY <2>1 DEF TypeOK
  <2>4. OnePerHash' /\ Places' /\ Ahead' /\ Ended'
    BY DEF OnePerHash, Places, Ahead, Ended, TypeOK
  <2>5. \A w \in Writers : w # v => Active(w)' = Active(w)
    BY DEF Active, TypeOK
  <2>6. \A g \in Hashes : ValuesAt(g)' = ValuesAt(g)
    BY DEF ValuesAt
  <2>7. ~Active(v)'
    BY DEF Active, TypeOK
  <2>8. Turns'
    BY <2>5, <2>7 DEF Turns
  <2>9. Middle'
    BY <2>1, <2>2, <2>5, <2>6, <2>7, ZenonT(60) DEF Middle, Turns, TypeOK, Active
  <2>10. IndexesAgree'
    <3> SUFFICES ASSUME NEW g \in Hashes \ crossed', Quiet(g)' PROVE KeysAt(g)' = LoadedKeys(g)'
      BY DEF IndexesAgree
    <3>1. CASE g = h
      BY <3>1, <2>1, <2>2, <2>6, Loaded DEF Middle, LoadedKeys
    <3>2. CASE g # h
      BY <3>2, <2>2, <2>5, <2>6 DEF IndexesAgree, Quiet, LoadedKeys
    <3> QED BY <3>1, <3>2
  <2> QED BY <2>3, <2>4, <2>8, <2>9, <2>10
<1>4. ASSUME NEW d \in Removals, RemoveLoad(d) PROVE IInv'
  <2> DEFINE h == HashOf[d]
  <2> USE <1>4 DEF RemoveLoad
  <2>1. /\ h \in Hashes /\ pc[d] = "idle"
        /\ crossed' \in SUBSET Hashes /\ crossed \subseteq crossed'
        /\ h \notin crossed' => h \notin crossed /\ Quiet(h)
    BY DEF Cross, TypeOK
  <2>2. (h \notin crossed' => KeysAt(h) = LoadedKeys(h)) /\ LoadedKeys(h) \in SUBSET Keys
    <3>1. h \notin crossed' => KeysAt(h) = LoadedKeys(h)
      BY <2>1 DEF IndexesAgree
    <3>2. LoadedKeys(h) \in SUBSET Keys
      BY DEF LoadedKeys, ValuesAt, TypeOK
    <3> QED BY <3>1, <3>2
  <2>3. TypeOK'
    BY <2>1, <2>2 DEF TypeOK
  <2>4. OnePerHash' /\ Places'
    BY DEF OnePerHash, Places, ValuesAt, TypeOK
  <2>5. \A w \in Writers : w # d => Active(w)' = Active(w)
    BY DEF Active, TypeOK
  <2>6. \A g \in Hashes : KeysAt(g)' = KeysAt(g)
    BY DEF KeysAt
  <2>7. /\ ValuesAt(h)' = {}
        /\ \A g \in Hashes : g # h => ValuesAt(g)' = ValuesAt(g)
    BY DEF ValuesAt, TypeOK
  <2>8. Turns'
    BY <2>1, <2>5 DEF Turns, Quiet
  <2>9. Middle'
    <3> SUFFICES ASSUME NEW w \in Writers, HashOf[w] \notin crossed' PROVE
          /\ pc'[w] = "drop" => KeysAt(HashOf[w])' = old'[w]
          /\ pc'[w] = "add" => KeysAt(HashOf[w])' = {}
          /\ w \in Values /\ Active(w)' => w \in values'
          /\ w \in Removals /\ Active(w)' => ValuesAt(HashOf[w])' = {}
      BY DEF Middle
    <3>1. CASE w = d
      BY <3>1, <2>1, <2>2, <2>6, <2>7 DEF TypeOK
    <3>2. CASE w # d /\ HashOf[w] = h
      BY <3>2, <2>1, <2>5 DEF Quiet, Active, TypeOK
    <3>3. CASE w # d /\ HashOf[w] # h
      BY <3>3, <2>1, <2>5, <2>6, <2>7 DEF Middle, TypeOK, ValuesAt
    <3> QED BY <3>1, <3>2, <3>3
  <2>10. IndexesAgree'
    <3> SUFFICES ASSUME NEW g \in Hashes \ crossed', Quiet(g)' PROVE KeysAt(g)' = LoadedKeys(g)'
      BY DEF IndexesAgree
    <3>1. CASE g = h
      <4>1. LoadedKeys(h)' = {}
        BY <2>7 DEF LoadedKeys
      <4>2. ValuesAt(h) = {}
        BY <3>1 DEF Quiet, Active, TypeOK
      <4> QED BY <3>1, <4>1, <4>2, <2>1, <2>2, <2>6, Loaded
    <3>2. CASE g # h
      BY <3>2, <2>1, <2>5, <2>6, <2>7 DEF IndexesAgree, Quiet, LoadedKeys
    <3> QED BY <3>1, <3>2
  <2>11. Ahead' /\ Ended'
    BY DEF Ahead, Ended, TypeOK
  <2> QED BY <2>3, <2>4, <2>8, <2>9, <2>10, <2>11
<1>5. ASSUME NEW d \in Removals, RemoveDrop(d) PROVE IInv'
  <2> DEFINE h == HashOf[d]
  <2> USE <1>5 DEF RemoveDrop
  <2>1. /\ h \in Hashes /\ Active(d) /\ old[d] \in SUBSET Keys
        /\ h \notin crossed => ValuesAt(h) = {}
    BY DEF Active, TypeOK, Middle
  <2>2. \A g \in Hashes : KeysAt(g)' = IF g = h THEN KeysAt(h) \ old[d] ELSE KeysAt(g)
    BY <2>1, DropKeys
  <2>3. TypeOK'
    BY DEF TypeOK, removeEntry
  <2>4. OnePerHash' /\ Places' /\ Ahead' /\ Ended'
    BY DEF OnePerHash, Places, Ahead, Ended, TypeOK
  <2>5. \A w \in Writers : w # d => Active(w)' = Active(w)
    BY DEF Active, TypeOK
  <2>6. \A g \in Hashes : ValuesAt(g)' = ValuesAt(g)
    BY DEF ValuesAt
  <2>7. ~Active(d)'
    BY DEF Active, TypeOK
  <2>8. Turns'
    BY <2>5, <2>7 DEF Turns
  <2>9. Middle'
    BY <2>1, <2>2, <2>5, <2>6, <2>7, ZenonT(60) DEF Middle, Turns, TypeOK, Active
  <2>10. IndexesAgree'
    <3> SUFFICES ASSUME NEW g \in Hashes \ crossed', Quiet(g)' PROVE KeysAt(g)' = LoadedKeys(g)'
      BY DEF IndexesAgree
    <3>1. CASE g = h
      BY <3>1, <2>1, <2>2, <2>6, Loaded DEF Middle, LoadedKeys
    <3>2. CASE g # h
      BY <3>2, <2>2, <2>5, <2>6 DEF IndexesAgree, Quiet, LoadedKeys
    <3> QED BY <3>1, <3>2
  <2> QED BY <2>3, <2>4, <2>8, <2>9, <2>10
<1>6. ASSUME NEW l \in Lookups, LookupCollect(l) \/ LookupYield(l) \/ LookupEnd(l)
      PROVE IInv'
  <2>1. UNCHANGED <<values, bits, old, crossed>>
    BY <1>6 DEF LookupCollect, LookupYield, LookupEnd
  <2>2. \A w \in Writers : pc'[w] = pc[w]
    BY <1>6 DEF LookupCollect, LookupYield, LookupEnd, TypeOK
  <2>3. OnePerHash' /\ Turns' /\ Middle' /\ IndexesAgree'
    BY <2>1, <2>2 DEF OnePerHash, Turns, Middle, IndexesAgree, Quiet, Active,
                      KeysAt, ValuesAt, LoadedKeys, TypeOK
  <2>4. Places'
    BY <1>6, <2>1, <2>2 DEF Places, TypeOK, LookupCollect, LookupYield, LookupEnd
  <2>5. CASE LookupCollect(l)
    <3>1. TypeOK'
      BY <2>5 DEF LookupCollect, TypeOK
    <3>2. \A v \in settled'[l] \cap values :
             HashOf[v] \in found'[l] \/ HashOf[v] \in doubtful'[l]
      BY <2>5, SettledIsIndexed DEF LookupCollect, TypeOK
    <3>3. Ahead' /\ Ended'
      BY <2>5, <3>2 DEF LookupCollect, TypeOK, Ahead, Ended
    <3> QED BY <2>3, <2>4, <3>1, <3>3
  <2>6. CASE LookupYield(l)
    <3>1. TypeOK' /\ Ahead' /\ Ended'
      BY <2>6 DEF LookupYield, TypeOK, Ahead, Ended, ValuesAt
    <3> QED BY <2>3, <2>4, <3>1
  <2>7. CASE LookupEnd(l)
    <3>1. TypeOK' /\ Ahead' /\ Ended'
      BY <2>7 DEF LookupEnd, TypeOK, Ahead, Ended
    <3> QED BY <2>3, <2>4, <3>1
  <2> QED BY <1>6, <2>5, <2>6, <2>7
<1>7. ASSUME UNCHANGED vars PROVE IInv'
  BY <1>7 DEF vars, TypeOK, OnePerHash, Turns, Middle, Places, IndexesAgree, Ahead,
              Ended, Active, KeysAt, LoadedKeys, ValuesAt, Quiet
<1> QED BY <1>1, <1>2, <1>3, <1>4, <1>5, <1>6, <1>7 DEF Next

(* The strengthened invariant holds throughout, however the calls overlap  *)
(* (Index, RemoveByHash, Lookup).                                          *)
THEOREM Invariance == Spec => []IInv
<1>1. IInv /\ [Next]_vars => IInv'
  BY StepInv
<1> QED BY <1>1, InitInv, PTL DEF Spec

(* The bitmaps and the value map of a shard agree about every hash that no *)
(* call is changing and that never had two writers at the same time        *)
(* (matcher.Index, matcher.RemoveByHash).                                  *)
THEOREM Agreement == Spec => []IndexesAgree
<1>1. IInv => IndexesAgree
  BY DEF IInv
<1> QED BY <1>1, Invariance, PTL

(* Lookup yields every settled matching value that is not removed before   *)
(* it returns, unless its hash had had two writers at the same time before *)
(* Lookup collected its bitmap (matcher.Lookup).                           *)
THEOREM LookupCompleteness == Spec => []LookupFindsAll
<1>1. IInv => LookupFindsAll
  BY DEF IInv, Ahead, Ended, LookupFindsAll
<1> QED BY <1>1, Invariance, PTL
=============================================================================
