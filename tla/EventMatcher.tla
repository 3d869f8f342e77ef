---------------------------- MODULE EventMatcher ----------------------------
(***************************************************************************)
(* One shard of the subscription index (event-matcher/matcher.go) under    *)
(* concurrent callers.  The shard keeps two structures with two locks: the *)
(* concurrent map Values (hash -> entry) and, under the mutex Mu, the map  *)
(* Indexes (routing key -> bitmap of hashes).  Index and RemoveByHash      *)
(* change the first and then the second, so that every operation is a few  *)
(* atomic steps and the operations of several goroutines interleave.       *)
(*                                                                         *)
(* An Index call stands for the value it stores.                           *)
(***************************************************************************)
EXTENDS Naturals, FiniteSets

CONSTANTS
    Values,     \* Index calls: the values that are indexed
    Removals,   \* Remove / RemoveByHash calls
    Lookups,    \* Lookup calls: the events that are looked up
    Hashes,     \* hashes of values
    Keys,       \* routing keys (indexKey)
    HashOf,     \* Value.Hash of an indexed value and of a removal
    KeysOf      \* parseFilters of a value, parseEvent of a lookup

Writers == Values \cup Removals
Calls == Writers \cup Lookups

ASSUME MatcherAssumption ==
    /\ Values \cap Removals = {} /\ Writers \cap Lookups = {}
    /\ HashOf \in [Writers -> Hashes]
    /\ KeysOf \in [Values \cup Lookups -> SUBSET Keys]

VARIABLES
    values,     \* matcher.Values: the stored values, one per hash
    bits,       \* matcher.Indexes: the pairs <<routing key, hash>> that are set
    pc,         \* where each call is
    old,        \* the routing keys of the entry a writer replaced or deleted
    found,      \* the bitmap Lookup collected and has still to iterate
    yielded,    \* the values Lookup passed to its callback
    settled,    \* history: the matching values fully indexed when Lookup
                \* collected its bitmap
    crossed,    \* history: the hashes that had two writers at the same time
    doubtful    \* history: those hashes when Lookup collected its bitmap

vars == <<values, bits, pc, old, found, yielded, settled, crossed, doubtful>>

-----------------------------------------------------------------------------
ValuesAt(h) == {v \in values : HashOf[v] = h}
KeysAt(h) == {k \in Keys : <<k, h>> \in bits}
Active(c) == pc[c] \notin {"idle", "done"}

(* Nothing keeps two callers from changing one hash at the same time: the  *)
(* hash is then marked as crossed.                                         *)
Quiet(h) == \A w \in Writers : HashOf[w] = h => ~Active(w)
Cross(h) == crossed' = IF Quiet(h) THEN crossed ELSE crossed \cup {h}

Init ==
    /\ values = {}
    /\ bits = {}
    /\ pc = [c \in Calls |-> "idle"]
    /\ old = [w \in Writers |-> {}]
    /\ found = [l \in Lookups |-> {}]
    /\ yielded = [l \in Lookups |-> {}]
    /\ settled = [l \in Lookups |-> {}]
    /\ crossed = {}
    /\ doubtful = [l \in Lookups |-> {}]

-----------------------------------------------------------------------------
(* Mutated forms: the bugs the properties below would catch.               *)

\* The hash is only added to bitmaps that did not exist.
IndexAddNew(v) ==
    /\ pc[v] = "add"
    /\ bits' = bits \cup ({k \in KeysOf[v] : \A h \in Hashes : <<k, h>> \notin bits}
                          \X {HashOf[v]})
    /\ pc' = [pc EXCEPT ![v] = "done"]
    /\ UNCHANGED <<values, old, found, yielded, settled, crossed, doubtful>>

\* The old bindings are not removed.
IndexDropNothing(v) ==
    /\ pc[v] = "drop"
    /\ pc' = [pc EXCEPT ![v] = "add"]
    /\ UNCHANGED <<values, bits, old, found, yielded, settled, crossed, doubtful>>

-----------------------------------------------------------------------------
(* removeEntry, under Mu: the bits of the hash under the given keys.       *)
removeEntry(h, keys) == bits' = bits \ (keys \X {h})

(* The routing keys of the entry stored under the hash, if any.            *)
LoadedKeys(h) == UNION {KeysOf[v] : v \in ValuesAt(h)}

(* Index: Values.LoadAndStore.                                             *)
IndexStore(v) ==
    /\ pc[v] = "idle"
    /\ Cross(HashOf[v])
    /\ values' = (values \ ValuesAt(HashOf[v])) \cup {v}
    /\ old' = [old EXCEPT ![v] = LoadedKeys(HashOf[v])]
    /\ pc' = [pc EXCEPT ![v] = IF ValuesAt(HashOf[v]) = {} THEN "add" ELSE "drop"]
    /\ UNCHANGED <<bits, found, yielded, settled, doubtful>>

(* Index: the old bindings are removed first.                              *)
IndexDrop(v) ==
    /\ pc[v] = "drop"
    /\ removeEntry(HashOf[v], old[v])
    /\ pc' = [pc EXCEPT ![v] = "add"]
    /\ UNCHANGED <<values, old, found, yielded, settled, crossed, doubtful>>

(* Index: the hash is added to the bitmap of every routing key.            *)
IndexAdd(v) ==
    /\ pc[v] = "add"
    /\ bits' = bits \cup (KeysOf[v] \X {HashOf[v]})
    /\ pc' = [pc EXCEPT ![v] = "done"]
    /\ UNCHANGED <<values, old, found, yielded, settled, crossed, doubtful>>

(* RemoveByHash: Values.LoadAndDelete; false is returned when nothing was  *)
(* stored under the hash.                                                  *)
RemoveLoad(d) ==
    /\ pc[d] = "idle"
    /\ Cross(HashOf[d])
    /\ values' = values \ ValuesAt(HashOf[d])
    /\ old' = [old EXCEPT ![d] = LoadedKeys(HashOf[d])]
    /\ pc' = [pc EXCEPT ![d] = IF ValuesAt(HashOf[d]) = {} THEN "done" ELSE "drop"]
    /\ UNCHANGED <<bits, found, yielded, settled, doubtful>>

RemoveDrop(d) ==
    /\ pc[d] = "drop"
    /\ removeEntry(HashOf[d], old[d])
    /\ pc' = [pc EXCEPT ![d] = "done"]
    /\ UNCHANGED <<values, old, found, yielded, settled, crossed, doubtful>>

(* Lookup: the bitmaps of the event's keys are or-ed under the read lock.  *)
LookupCollect(l) ==
    /\ pc[l] = "idle"
    /\ found' = [found EXCEPT ![l] = {h \in Hashes : KeysAt(h) \cap KeysOf[l] # {}}]
    /\ settled' = [settled EXCEPT ![l] =
                      {v \in values : /\ pc[v] = "done"
                                      /\ KeysOf[v] \cap KeysOf[l] # {}}]
    /\ pc' = [pc EXCEPT ![l] = "iterate"]
    /\ doubtful' = [doubtful EXCEPT ![l] = crossed]
    /\ UNCHANGED <<values, bits, old, yielded, crossed>>

(* Lookup: the next hash is loaded from Values, outside the lock; one that *)
(* was removed meanwhile is skipped.                                       *)
LookupYield(l) ==
    /\ pc[l] = "iterate"
    /\ \E h \in found[l] :
          /\ found' = [found EXCEPT ![l] = @ \ {h}]
          /\ yielded' = [yielded EXCEPT ![l] = @ \cup ValuesAt(h)]
    /\ UNCHANGED <<values, bits, pc, old, settled, crossed, doubtful>>

LookupEnd(l) ==
    /\ pc[l] = "iterate" /\ found[l] = {}
    /\ pc' = [pc EXCEPT ![l] = "done"]
    /\ UNCHANGED <<values, bits, old, found, yielded, settled, crossed, doubtful>>

-----------------------------------------------------------------------------
Next ==
    \/ \E v \in Values : IndexStore(v) \/ IndexDrop(v) \/ IndexAdd(v)
    \/ \E d \in Removals : RemoveLoad(d) \/ RemoveDrop(d)
    \/ \E l \in Lookups : LookupCollect(l) \/ LookupYield(l) \/ LookupEnd(l)

Spec == Init /\ [][Next]_vars

-----------------------------------------------------------------------------
TypeOK ==
    /\ values \subseteq Values
    /\ bits \subseteq Keys \X Hashes
    /\ pc \in [Calls -> {"idle", "drop", "add", "iterate", "done"}]
    /\ old \in [Writers -> SUBSET Keys]
    /\ found \in [Lookups -> SUBSET Hashes]
    /\ yielded \in [Lookups -> SUBSET Values]
    /\ settled \in [Lookups -> SUBSET Values]
    /\ crossed \subseteq Hashes
    /\ doubtful \in [Lookups -> SUBSET Hashes]

(* The two structures agree: while no call is changing a hash, the bitmaps *)
(* hold it under exactly the routing keys of its stored value, and nowhere *)
(* once it was removed - unless two calls once changed the hash at the     *)
(* same time (Index, RemoveByHash: LoadAndStore or LoadAndDelete is one    *)
(* step, removeEntry and the adding of the bits are others).               *)
IndexesAgree ==
    \A h \in Hashes \ crossed : Quiet(h) => KeysAt(h) = LoadedKeys(h)

(* A value that was completely indexed when Lookup collected its bitmap,   *)
(* under a key of the event, and that is still stored when Lookup returns, *)
(* was passed to the callback, whatever other calls run meanwhile - unless *)
(* two calls had changed its hash at the same time before (Lookup).        *)
LookupFindsAll ==
    \A l \in Lookups : pc[l] = "done" =>
       \A v \in settled[l] \cap values :
          v \in yielded[l] \/ HashOf[v] \in doubtful[l]

(* What the comment of Lookup promises: it "finds all potentially matching *)
(* values".  It does not: a RemoveByHash that took an older value out of   *)
(* Values drops the bits that a later Index of the hash has added.         *)
LookupFindsEvery ==
    \A l \in Lookups : pc[l] = "done" =>
       \A v \in settled[l] \cap values : v \in yielded[l]
=============================================================================
