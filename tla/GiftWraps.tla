----------------------------- MODULE GiftWraps -----------------------------
(***************************************************************************)
(* The stored gift wraps of a user are streamed in pages: each page is a   *)
(* query of its own, to any read replica, for the newest rows up to and    *)
(* including the oldest timestamp of the page before                       *)
(* (server/ws/subscriptions.go, streamGiftWrapEvents).  Rows come and go   *)
(* while the pages are read: events are stored with any timestamp, and the *)
(* clean-up deletes expired ones (database/query, deleteExpiredEvents).    *)
(***************************************************************************)
EXTENDS Integers, Sequences, FiniteSets

CONSTANTS
    Gifts,          \* the gift wraps of the user
    Timings,        \* the timestamps they may have, functions from Gifts
    Sinces,         \* the lower ends a filter may have
    PageLimit,      \* giftWrapFilter.Limit
    BatchSize,      \* the batch of deleteExpiredEvents
    MaxChanges      \* bounds the changes of the database in a behaviour

ASSUME GiftAssumption ==
    /\ IsFiniteSet(Gifts) /\ Gifts # {}
    /\ Timings # {} /\ Timings \subseteq [Gifts -> Nat] /\ Sinces \subseteq Nat
    /\ PageLimit \in Nat \ {0} /\ BatchSize \in Nat \ {0}

VARIABLES
    at,             \* the timestamp of every gift wrap
    expired,        \* the gift wraps that have expired
    versions,       \* the sets of stored rows, one after each transaction
    cleaning,       \* whether a clean-up is under way
    stream,         \* "idle", "paging", "done" or "failed"
    since, until,   \* the range of the filter, until moves with the pages
    sent,           \* the gift wraps written to the client
    steady          \* history: the rows stored in every version it may read

giftVars == <<at, expired, versions, cleaning, stream, since, until, sent, steady>>

Oldest(S) == CHOOSE t \in {at[g] : g \in S} : \A g \in S : t <= at[g]
NoUntil == 1 + CHOOSE t \in {at[g] : g \in Gifts} : \A g \in Gifts : at[g] <= t

GiftStart(timing, old, rows, from) ==
    /\ at = timing
    /\ expired = old
    /\ versions = <<rows>>
    /\ cleaning = FALSE
    /\ stream = "idle"
    /\ since = from
    /\ until = NoUntil
    /\ sent = {} /\ steady = {}
GiftInit ==
    \E timing \in Timings, old, rows \in SUBSET Gifts, from \in Sinces :
       GiftStart(timing, old, rows, from)

Last == versions[Len(versions)]
Commit(rows) ==
    /\ Len(versions) <= MaxChanges
    /\ versions' = Append(versions, rows)
    /\ steady' = steady \cap rows

(* A gift wrap is stored.                                                  *)
Store(g) ==
    /\ g \notin Last
    /\ Commit(Last \cup {g})
    /\ UNCHANGED <<at, expired, cleaning, stream, since, until, sent>>

(* StartExpiredEventsCleanup: the ticker starts deleteExpiredEvents.       *)
StartExpiredEventsCleanup ==
    /\ ~cleaning
    /\ cleaning' = TRUE
    /\ UNCHANGED <<at, expired, versions, stream, since, until, sent, steady>>

(* The first n of the rows in the order of their timestamps, or in the     *)
(* opposite one: a tie may be broken either way.                           *)
Ascending == 1
Descending == -1
FirstOf(rows, n, order) ==
    {S \in SUBSET rows :
       /\ Cardinality(S) = IF Cardinality(rows) < n THEN Cardinality(rows) ELSE n
       /\ \A g \in S, h \in rows \ S : order * at[g] <= order * at[h]}

(* deleteExpiredEvents: one batch, the oldest first; a full one is         *)
(* followed by another.                                                    *)
deleteExpiredEvents ==
    /\ cleaning
    /\ \E batch \in FirstOf(Last \cap expired, BatchSize, Ascending) :
          /\ Commit(Last \ batch)
          /\ cleaning' = (Cardinality(batch) = BatchSize)
    /\ UNCHANGED <<at, expired, stream, since, until, sent>>

(* streamEvents finds the filter of the user's gift wraps: from here on    *)
(* the pages may read every version a replica has not gone past, and the   *)
(* history keeps the rows that are in all of them.                         *)
streamEvents ==
    /\ stream = "idle"
    /\ stream' = "paging"
    /\ steady' = {g \in Gifts : \A i \in 1..Len(versions) : g \in versions[i]}
    /\ UNCHANGED <<at, expired, versions, cleaning, since, until, sent>>

(* A page as BuildCTE selects it: the newest rows in the range.            *)
InRangeStrict(rows) ==  \* mutated: the next page starts below the oldest row
    {g \in rows : since <= at[g] /\ at[g] < until}
InRange(rows) == {g \in rows : since <= at[g] /\ at[g] <= until}
Pages(rows) == FirstOf(InRange(rows), PageLimit, Descending)

IsLastPageEmpty(page) == page = {}  \* mutated: reads on until a page is empty
IsLastPage(page) == Cardinality(page) < PageLimit

(* streamGiftWrapEvents: a page of any replica is written; a short one is  *)
(* the last, else its oldest timestamp is the next until.                  *)
streamGiftWrapEvents ==
    /\ stream = "paging"
    /\ \E i \in 1..Len(versions) : \E page \in Pages(versions[i]) :
          /\ sent' = sent \cup page
          /\ IF IsLastPage(page)
             THEN stream' = "done" /\ UNCHANGED until
             ELSE /\ until' = Oldest(page)
                  /\ stream' = IF since > until' THEN "done" ELSE "paging"
    /\ UNCHANGED <<at, expired, versions, cleaning, since, steady>>

(* The query or a write fails, or the connection ends.                     *)
streamFails ==
    /\ stream = "paging"
    /\ stream' = "failed"
    /\ UNCHANGED <<at, expired, versions, cleaning, since, until, sent, steady>>

GiftNext ==
    \/ \E g \in Gifts : Store(g)
    \/ StartExpiredEventsCleanup
    \/ deleteExpiredEvents
    \/ streamEvents
    \/ streamGiftWrapEvents
    \/ streamFails

GiftFairness == WF_giftVars(streamGiftWrapEvents)

-----------------------------------------------------------------------------
(* When the pages end, every gift wrap in the range that was stored all    *)
(* the time, in whatever version a page read, has been written, although   *)
(* rows came and went between the pages and timestamps repeat              *)
(* (streamGiftWrapEvents with the inclusive until).                        *)
PagesComplete ==
    stream = "done" => {g \in steady : since <= at[g]} \subseteq sent

(* The pages end, unless one timestamp has a page full of rows: the until  *)
(* is inclusive, and such a page is read again and again.                  *)
Crowded ==
    \E h \in Gifts, i \in 1..Len(versions) :
       Cardinality({g \in versions[i] : at[g] = at[h]}) >= PageLimit
PagesEnd == (stream = "paging") ~> (stream # "paging" \/ Crowded)
=============================================================================
