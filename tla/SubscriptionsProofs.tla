------------------------ MODULE SubscriptionsProofs ------------------------
(***************************************************************************)
(* Proofs about Subscriptions, for any number of connections, messages,    *)
(* subscription IDs and events, whatever is handled at the same time: no   *)
(* event is lost between the stored query and the live feed, no live event *)
(* precedes EOSE, a failed REQ leaves nothing in the index, and the        *)
(* clean-up of a connection takes what is its own.                         *)
(***************************************************************************)
EXTENDS Subscriptions, TLAPS

(* The states of a REQ that is being served or is live.                    *)
Early == {"unbind", "bind", "meta", "stream"}
Afterwards == {"golive", "drain", "flush", "live"}
Serving == Early \cup {"page", "eose"} \cup Afterwards

(* The events that are not being broadcast and never were.                 *)
NotCast == {"new", "failed", "inserted", "undone"}

OnePerHash == \A q, r \in index : Hash(q) = Hash(r) => q = r

(* A subscription in the index was put there by its own handler, which has *)
(* not unlinked it since.                                                  *)
Placed ==
    \A r \in index :
       r \notin OneShot /\ pc[r] \in Serving \cup {"close"}

(* What a writer has still to take from the bitmaps belongs to its hash,   *)
(* or to its connection.                                                   *)
Owns ==
    /\ \A h \in Handlers : \A q \in old[h] : Hash(q) = Hash(h)
    /\ \A c \in Conns : \A q \in old[c] : ConnOf[q] = c

(* A stored subscription has its bits from Index's second half on, and     *)
(* nobody is about to wipe them, unless two calls have crossed.            *)
Bound ==
    \A r \in index :
       conn[ConnOf[r]] = "open" /\ Hash(r) \notin crossed =>
          /\ \A h \in Handlers : Hash(h) = Hash(r) /\ pc[h] \in Midway => h = r
          /\ pc[r] \notin {"unbind", "bind"} =>
                \A key \in FilterKeys[r] : <<Hash(r), key>> \in bits

(* Live events are written only to live subscriptions, live ones are past  *)
(* their EOSE.                                                             *)
Gated ==
    /\ \A r \in Reqs : live[r] \/ liveSent[r] # {} \/ pc[r] \in Afterwards => eosed[r]
    /\ \A e \in Events : bpc[e] = "write" => live[tgt[e]]

(* Between GetPending and the writes the buffer is in the handler's hands. *)
Buffers ==
    \A r \in Reqs :
       pc[r] \in {"idle", "recv"} \cup (Serving \ {"flush"}) => batch[r] = {}

(* An accepted event is in the database until another version replaces it  *)
(* or its own accept is undone.                                            *)
Kept == \A e \in Events : bpc[e] \notin {"new", "undone"} => e \in stored \/ Superseded(e)

(* Where a wanted event of a linked subscription is: delivered or          *)
(* buffered, still to be read by the stored query, or still in the         *)
(* broadcast's hands.                                                      *)
Delivered(r, e) == e \in sent[r] \cup liveSent[r] \cup pending[r] \cup batch[r]
Ahead(r, e) ==
    /\ e \in stored
    /\ pc[r] \in Early \/ (pc[r] = "page" /\ e \in asked[r])
OnItsWay(r, e) ==
    \/ Hash(r) \in left[e] \cup found[e]
    \/ tgt[e] = r /\ bpc[e] \in {"check", "write", "push"}

Feed ==
    \A r \in index : \A e \in Wants[r] :
       /\ pc[r] \in Serving /\ conn[ConnOf[r]] = "open" /\ Hash(r) \notin crossed
       /\ bpc[e] \notin NotCast
       => Delivered(r, e) \/ Superseded(e) \/ Ahead(r, e) \/ OnItsWay(r, e)

(* A broadcast that is over has no hash left to visit.                     *)
Over == \A e \in Events : bpc[e] = "done" => left[e] = {} /\ found[e] = {}

IInv ==
    /\ TypeOK /\ OnePerHash /\ Placed /\ Owns /\ Bound /\ Gated /\ Buffers /\ Kept
    /\ Feed /\ Over

USE ConstantsAssumption DEF Handlers

-----------------------------------------------------------------------------
LEMMA OverlapType ==
    ASSUME NEW r \in Reqs, crossed \subseteq Hashes, tangled \subseteq Hashes, MarkOverlap(Hash(r))
    PROVE  crossed' \subseteq Hashes /\ tangled' \subseteq Hashes
  BY DEF MarkOverlap, Hashes

(* The two halves of ReqIndex: a one-shot REQ and any other.               *)
LEMMA IndexOneShot ==
    ASSUME NEW r \in OneShot, ReqIndex(r)
    PROVE  /\ pc[r] = "recv" /\ pc' = [pc EXCEPT ![r] = "stream"]
           /\ UNCHANGED <<connVars, ret, err, indexVars, meta, subVars, castVars>>
  BY Zenon DEF ReqIndex

LEMMA IndexLinked ==
    ASSUME NEW r \in Reqs, r \notin OneShot, ReqIndex(r)
    PROVE  /\ pc[r] = "recv"
           /\ pc' = [pc EXCEPT ![r] = IF At(index, Hash(r)) # {} THEN "unbind" ELSE "bind"]
           /\ index' = Replace(index, r)
           /\ old' = [old EXCEPT ![r] = At(index, Hash(r))]
           /\ MarkOverlap(Hash(r)) /\ bits' = bits
           /\ UNCHANGED <<connVars, ret, err, meta, subVars, castVars>>
  BY Zenon DEF ReqIndex

LEMMA TypeStep == ASSUME TypeOK, [Next]_vars PROVE TypeOK'
<1> USE DEF TypeOK, ReqStates, UnlinkStates, connVars, ctlVars, indexVars, subVars, castVars, scanVars
<1>1. ASSUME NEW h \in Handlers, Receive(h) PROVE TypeOK'
  BY <1>1 DEF Receive
<1>2. ASSUME NEW h \in Handlers, UnlinkRemove(h) PROVE TypeOK'
  <2>1. index' \subseteq Reqs /\ old' \in [Handlers \cup Conns -> SUBSET Reqs]
    BY <1>2 DEF UnlinkRemove, Without, At
  <2>2. crossed' \subseteq Hashes /\ tangled' \subseteq Hashes
    <3>1. CASE At(index, Hash(h)) = {}
      BY <1>2, <3>1 DEF UnlinkRemove
    <3>2. CASE At(index, Hash(h)) # {}
      <4>1. PICK r \in index : Hash(r) = Hash(h)
        BY <3>2 DEF At
      <4> QED BY <1>2, <3>2, <4>1, OverlapType DEF UnlinkRemove
    <3> QED BY <3>1, <3>2
  <2>3. pc' \in [Handlers -> ReqStates] /\ \A k \in Closes : pc'[k] \in {"idle", "done"} \cup UnlinkStates
    <3>1. PICK x : pc' = [pc EXCEPT ![h] = x] /\ (x = "closeBits" \/ x = ret[h])
      BY <1>2 DEF UnlinkRemove
    <3>2. x \in ReqStates /\ (h \in Closes => x \in {"done", "closeBits"})
      BY <3>1
    <3> QED BY <3>1, <3>2
  <2>4. UNCHANGED <<connVars, ret, err, bits, meta, subVars, castVars>>
    BY <1>2 DEF UnlinkRemove
  <2> QED BY <2>1, <2>2, <2>3, <2>4, ZenonT(60)
<1>3. ASSUME NEW h \in Handlers, UnlinkUnbind(h) PROVE TypeOK'
  BY <1>3 DEF UnlinkUnbind
<1>4. ASSUME NEW h \in Handlers, UnlinkDelete(h) PROVE TypeOK'
  BY <1>4 DEF UnlinkDelete, Without
<1>5. ASSUME NEW r \in Reqs, ReqReject(r) PROVE TypeOK'
  BY <1>5 DEF ReqReject
<1>6. ASSUME NEW r \in Reqs, ReqAuthFail(r) PROVE TypeOK'
  BY <1>6 DEF ReqAuthFail
<1>7. ASSUME NEW r \in Reqs, ReqIndex(r) PROVE TypeOK'
  <2>1. CASE r \in OneShot
    <3>1. /\ pc' = [pc EXCEPT ![r] = "stream"]
          /\ UNCHANGED <<connVars, ret, err, indexVars, meta, subVars, castVars>>
      BY <1>7, <2>1, IndexOneShot
    <3> QED BY <3>1
  <2>2. CASE r \notin OneShot
    <3>1. index' \subseteq Reqs /\ old' \in [Handlers \cup Conns -> SUBSET Reqs]
      <4>1. index' = Replace(index, r) /\ old' = [old EXCEPT ![r] = At(index, Hash(r))]
        BY <1>7, <2>2, IndexLinked
      <4>2. Replace(index, r) \subseteq Reqs /\ At(index, Hash(r)) \subseteq Reqs
        BY DEF Replace, Without, At
      <4> QED BY <4>1, <4>2
    <3>2. crossed' \subseteq Hashes /\ tangled' \subseteq Hashes
      BY <1>7, <2>2, IndexLinked, OverlapType
    <3>3. pc' \in [Handlers -> ReqStates] /\ \A k \in Closes : pc'[k] \in {"idle", "done"} \cup UnlinkStates
      <4>1. PICK x \in {"unbind", "bind"} : pc' = [pc EXCEPT ![r] = x]
        BY <1>7, <2>2, IndexLinked
      <4> QED BY <4>1
    <3>4. UNCHANGED <<connVars, ret, err, bits, meta, subVars, castVars>>
      BY <1>7, <2>2, IndexLinked
    <3> QED BY <3>1, <3>2, <3>3, <3>4, ZenonT(60)
  <2> QED BY <2>1, <2>2
<1>8. ASSUME NEW r \in Reqs, ReqUnbind(r) PROVE TypeOK'
  BY <1>8 DEF ReqUnbind
<1>9. ASSUME NEW r \in Reqs, ReqBind(r) PROVE TypeOK'
  <2>1. bits' \subseteq Hashes \X Keys
    BY <1>9 DEF ReqBind, BitsOf, Hashes
  <2> QED BY <1>9, <2>1 DEF ReqBind
<1>10. ASSUME NEW r \in Reqs, ReqSetMeta(r) PROVE TypeOK'
  BY <1>10 DEF ReqSetMeta, Replace, Without
<1>11. ASSUME NEW r \in Reqs, ReqPage(r) PROVE TypeOK'
  BY <1>11 DEF ReqPage, StoredFor
<1>12. ASSUME NEW r \in Reqs, ReqStream(r) PROVE TypeOK'
  <2>1. /\ sent' \in [Reqs -> SUBSET Events] /\ asked' \in [Reqs -> SUBSET Events]
        /\ pc' = [pc EXCEPT ![r] = "eose"]
    <3>1. PICK part \in SUBSET Events : sent' = [sent EXCEPT ![r] = @ \cup part]
      <4>1. StoredFor(r) \subseteq Events /\ asked[r] \subseteq Events
        BY DEF StoredFor
      <4>2. CASE r \in Paging
        BY <1>12, <4>1, <4>2 DEF ReqStream
      <4>3. CASE r \notin Paging
        BY <1>12, <4>1, <4>3 DEF ReqStream
      <4> QED BY <4>2, <4>3
    <3> QED BY <1>12, <3>1 DEF ReqStream
  <2> QED BY <1>12, <2>1 DEF ReqStream
<1>13. ASSUME NEW r \in Reqs, ReqStreamFail(r) PROVE TypeOK'
  BY <1>13 DEF ReqStreamFail, StoredFor
<1>14. ASSUME NEW r \in Reqs, ReqEose(r) PROVE TypeOK'
  BY <1>14 DEF ReqEose
<1>15. ASSUME NEW r \in Reqs, ReqWriteFail(r) PROVE TypeOK'
  BY <1>15 DEF ReqWriteFail
<1>16. ASSUME NEW r \in Reqs, ReqSetLive(r) PROVE TypeOK'
  BY <1>16 DEF ReqSetLive
<1>17. ASSUME NEW r \in Reqs, ReqGetPending(r) PROVE TypeOK'
  BY <1>17 DEF ReqGetPending
<1>18. ASSUME NEW r \in Reqs, ReqFlush(r) PROVE TypeOK'
  BY <1>18 DEF ReqFlush
<1>19. ASSUME NEW r \in Reqs, ReqClosed(r) PROVE TypeOK'
  BY <1>19 DEF ReqClosed
<1>20. ASSUME NEW c \in Conns, Break(c) PROVE TypeOK'
  BY <1>20 DEF Break
<1>21. ASSUME NEW c \in Conns, ReadEnd(c) PROVE TypeOK'
  BY <1>21 DEF ReadEnd
<1>22. ASSUME NEW c \in Conns, RangeRemove(c) PROVE TypeOK'
  BY <1>22 DEF RangeRemove, Without, At
<1>23. ASSUME NEW c \in Conns, RangeUnbind(c) PROVE TypeOK'
  BY <1>23 DEF RangeUnbind
<1>24. ASSUME NEW c \in Conns, RangeClear(c) PROVE TypeOK'
  BY <1>24 DEF RangeClear
<1>25. ASSUME NEW e \in Events, Accept(e) PROVE TypeOK'
  BY <1>25 DEF Accept, Hashes
<1>26. ASSUME NEW e \in Events, AcceptFail(e) PROVE TypeOK'
  BY <1>26 DEF AcceptFail
<1>27. ASSUME NEW e \in Events, AcceptUndo(e) PROVE TypeOK'
  BY <1>27 DEF AcceptUndo
<1>28. ASSUME NEW e \in Events, CastCollect(e) PROVE TypeOK'
  <2>1. left' \in [Events -> SUBSET Hashes] /\ found' \in [Events -> SUBSET Hashes]
    <3>1. PICK k \in left[e] :
             /\ left' = [left EXCEPT ![e] = @ \ {k}]
             /\ \/ found' = [found EXCEPT ![e] = @ \cup {k}]
                \/ found' = [found EXCEPT ![e] = @]
      BY <1>28 DEF CastCollect
    <3>2. k \in Hashes /\ left[e] \subseteq Hashes /\ found[e] \subseteq Hashes
      OBVIOUS
    <3>3. left' \in [Events -> SUBSET Hashes]
      BY <3>1, <3>2
    <3>4. CASE found' = [found EXCEPT ![e] = @ \cup {k}]
      BY <3>2, <3>3, <3>4
    <3>5. CASE found' = [found EXCEPT ![e] = @]
      BY <3>2, <3>3, <3>5
    <3> QED BY <3>1, <3>4, <3>5
  <2> QED BY <1>28, <2>1 DEF CastCollect
<1>29. ASSUME NEW e \in Events, CastSkip(e) PROVE TypeOK'
  BY <1>29 DEF CastSkip
<1>30. ASSUME NEW e \in Events, CastVisit(e) PROVE TypeOK'
  BY <1>30 DEF CastVisit, Hashes
<1>31. ASSUME NEW e \in Events, CastIsLive(e) PROVE TypeOK'
  BY <1>31 DEF CastIsLive
<1>32. ASSUME NEW e \in Events, CastWrite(e) PROVE TypeOK'
  BY <1>32 DEF CastWrite
<1>33. ASSUME NEW e \in Events, CastWriteFail(e) PROVE TypeOK'
  BY <1>33 DEF CastWriteFail
<1>34. ASSUME NEW e \in Events, CastPush(e) PROVE TypeOK'
  BY <1>34 DEF CastPush
<1>35. ASSUME NEW e \in Events, CastEnd(e) PROVE TypeOK'
  BY <1>35 DEF CastEnd
<1>36. CASE Replicate
  BY <1>36 DEF Replicate
<1>37. CASE UNCHANGED vars
  BY <1>37 DEF vars
<1> QED
  BY <1>1, <1>2, <1>3, <1>4, <1>5, <1>6, <1>7, <1>8, <1>9, <1>10, <1>11, <1>12, <1>13, <1>14, <1>15, <1>16, <1>17, <1>18, <1>19, <1>20, <1>21, <1>22, <1>23, <1>24, <1>25, <1>26, <1>27, <1>28, <1>29, <1>30, <1>31, <1>32, <1>33, <1>34, <1>35, <1>36, <1>37
  DEF Next, ReqStep, CloseStep, ReadStep, CastStep

(* What each group of actors leaves alone.                                 *)
LEMMA HandlerFrame ==
    ASSUME TypeOK, NEW h \in Handlers,
           Receive(h) \/ CloseStep(h) \/ (h \in Reqs /\ ReqStep(h))
    PROVE  /\ UNCHANGED <<connVars, stored, bpc, left, found, tgt, liveSent>>
           /\ \A g \in Handlers : g # h => pc'[g] = pc[g]
           /\ \A r \in Reqs : r # h =>
                 /\ live'[r] = live[r] /\ eosed'[r] = eosed[r] /\ sent'[r] = sent[r]
                 /\ pending'[r] = pending[r] /\ batch'[r] = batch[r] /\ asked'[r] = asked[r]
<1> USE DEF TypeOK, ctlVars, castVars, scanVars, subVars
<1>1. CASE Receive(h)
  BY <1>1 DEF Receive
<1>2. CASE CloseStep(h)
  BY <1>2 DEF CloseStep, UnlinkRemove, UnlinkUnbind, UnlinkDelete
<1>3. CASE h \in Reqs /\ ReqStep(h)
  BY <1>3 DEF ReqStep, ReqReject, ReqAuthFail, ReqIndex, ReqUnbind, ReqBind, ReqSetMeta, ReqPage,
     ReqStream, ReqStreamFail, ReqEose, ReqWriteFail, ReqSetLive, ReqGetPending, ReqFlush, ReqClosed
<1> QED BY <1>1, <1>2, <1>3

LEMMA ReadFrame ==
    ASSUME TypeOK, NEW c \in Conns, Break(c) \/ ReadEnd(c) \/ ReadStep(c)
    PROVE  /\ UNCHANGED <<pc, crossed, tangled, subVars, stored, bpc, left, found, tgt, liveSent>>
           /\ index' \subseteq index
           /\ \A d \in Conns : conn'[d] = "open" => conn[d] = "open"
  BY DEF TypeOK, Break, ReadEnd, ReadStep, RangeRemove, RangeUnbind, RangeClear, Without, ctlVars,
         indexVars, castVars, scanVars

LEMMA CastFrame ==
    ASSUME TypeOK, NEW f \in Events, Accept(f) \/ AcceptFail(f) \/ AcceptUndo(f) \/ CastStep(f)
    PROVE  /\ UNCHANGED <<connVars, pc, indexVars, meta, live, batch, asked, eosed, sent>>
           /\ bpc'[f] # "new" /\ \A e \in Events : e # f => bpc'[e] = bpc[e]
  BY DEF TypeOK, Accept, AcceptFail, AcceptUndo, CastStep, CastCollect, CastSkip, CastVisit, CastIsLive,
         CastWrite, CastWriteFail, CastPush, CastEnd, ctlVars, subVars

(* Once another version of its address was accepted an event stays         *)
(* superseded.                                                             *)
LEMMA SupersededStays ==
    ASSUME TypeOK, [Next]_vars, NEW e \in Events, Superseded(e)
    PROVE  Superseded(e)'
<1>1. \A f \in Events : bpc[f] # "new" => bpc'[f] # "new"
  BY HandlerFrame, ReadFrame, CastFrame
     DEF Next, Replicate, vars, castVars
<1> QED BY <1>1 DEF Superseded

-----------------------------------------------------------------------------
(* The index: one subscription per hash, put there and taken out by its    *)
(* handler.                                                                *)
LEMMA LinkStep ==
    ASSUME TypeOK, OnePerHash, Placed, [Next]_vars
    PROVE  OnePerHash' /\ Placed'
<1> USE DEF OnePerHash, Placed, Serving, Early, Afterwards
<1>1. ASSUME NEW h \in Handlers, Receive(h) PROVE OnePerHash' /\ Placed'
  BY <1>1 DEF Receive, TypeOK, indexVars
<1>2. ASSUME NEW h \in Handlers, CloseStep(h) PROVE OnePerHash' /\ Placed'
  <2>1. CASE UnlinkRemove(h)
    <3>1. index' \subseteq index /\ h \notin index'
      BY <2>1 DEF UnlinkRemove, Without
    <3>2. \A g \in Handlers : g # h => pc'[g] = pc[g]
      BY <2>1 DEF UnlinkRemove, TypeOK
    <3> QED BY <3>1, <3>2 DEF TypeOK
  <2>2. CASE UnlinkUnbind(h) \/ UnlinkDelete(h)
    <3>1. index' = index /\ h \notin index /\ \A g \in Handlers : g # h => pc'[g] = pc[g]
      BY <2>2 DEF UnlinkUnbind, UnlinkDelete, indexVars, TypeOK
    <3> QED BY <3>1 DEF TypeOK
  <2> QED BY <1>2, <2>1, <2>2 DEF CloseStep
<1>3. ASSUME NEW r \in Reqs, ReqIndex(r) PROVE OnePerHash' /\ Placed'
  <2>1. CASE r \in OneShot
    BY <1>3, <2>1, IndexOneShot DEF TypeOK, indexVars
  <2>2. CASE r \notin OneShot
    <3>1. /\ \A q \in index' : q = r \/ (q \in index /\ Hash(q) # Hash(r))
          /\ pc'[r] \in {"unbind", "bind"} /\ \A g \in Handlers : g # r => pc'[g] = pc[g]
      BY <1>3, <2>2, IndexLinked DEF Replace, Without, TypeOK
    <3>2. OnePerHash'
      BY <3>1 DEF Hash
    <3>3. Placed'
      BY <2>2, <3>1 DEF TypeOK
    <3> QED BY <3>2, <3>3
  <2> QED BY <2>1, <2>2
<1>5. ASSUME NEW r \in Reqs, ReqStep(r), ~ReqIndex(r)
      PROVE OnePerHash' /\ Placed'
  <2>1. index' = index /\ \A g \in Handlers : g # r => pc'[g] = pc[g]
    BY <1>5 DEF TypeOK, indexVars, ReqStep, ReqReject, ReqAuthFail, ReqUnbind, ReqBind, ReqSetMeta, ReqPage,
     ReqStream, ReqStreamFail, ReqEose, ReqWriteFail, ReqSetLive, ReqGetPending, ReqFlush, ReqClosed
  <2>2. r \in index => pc'[r] \in Serving \cup {"close"}
    <3> SUFFICES ASSUME r \in index PROVE pc'[r] \in Serving \cup {"close"}
      OBVIOUS
    <3>1. r \notin OneShot /\ pc[r] \in Serving \cup {"close"}
      OBVIOUS
    <3>2. ~ReqClosed(r) /\ ~ReqReject(r) /\ ~ReqAuthFail(r)
      BY <3>1 DEF ReqClosed, ReqReject, ReqAuthFail
    <3> QED BY <1>5, <3>1, <3>2 DEF TypeOK, ReqStep, ReqUnbind, ReqBind, ReqSetMeta, ReqPage, ReqStream,
       ReqStreamFail, ReqEose, ReqWriteFail, ReqSetLive, ReqGetPending, ReqFlush
  <2> QED BY <2>1, <2>2, ZenonT(60) DEF TypeOK
<1>6. ASSUME NEW c \in Conns, Break(c) \/ ReadEnd(c) \/ ReadStep(c)
      PROVE OnePerHash' /\ Placed'
  BY <1>6, ReadFrame
<1>7. ASSUME NEW f \in Events, Accept(f) \/ AcceptFail(f) \/ AcceptUndo(f) \/ CastStep(f)
      PROVE OnePerHash' /\ Placed'
  BY <1>7, CastFrame DEF indexVars
<1>8. CASE Replicate \/ UNCHANGED vars
  BY <1>8 DEF Replicate, vars, ctlVars, indexVars
<1> QED BY <1>1, <1>2, <1>3, <1>5, <1>6, <1>7, <1>8 DEF Next

(* The histories only grow.                                                *)
LEMMA OverlapStays ==
    ASSUME TypeOK, [Next]_vars
    PROVE  crossed \subseteq crossed' /\ tangled \subseteq tangled'
<1>1. ASSUME NEW h \in Handlers, Receive(h) \/ CloseStep(h)
      PROVE  crossed \subseteq crossed' /\ tangled \subseteq tangled'
  BY <1>1 DEF Receive, CloseStep, UnlinkRemove, UnlinkUnbind, UnlinkDelete, MarkOverlap, indexVars
<1>2. ASSUME NEW r \in Reqs, ReqStep(r)
      PROVE  crossed \subseteq crossed' /\ tangled \subseteq tangled'
  BY <1>2 DEF ReqStep, MarkOverlap, indexVars, ReqReject, ReqAuthFail, ReqIndex, ReqUnbind, ReqBind, ReqSetMeta, ReqPage,
     ReqStream, ReqStreamFail, ReqEose, ReqWriteFail, ReqSetLive, ReqGetPending, ReqFlush, ReqClosed
<1> QED BY <1>1, <1>2, ReadFrame, CastFrame DEF Next, Replicate, vars, indexVars

(* The bitmaps.                                                            *)
LEMMA OwnsStep ==
    ASSUME TypeOK, Owns, [Next]_vars
    PROVE  Owns'
<1> USE DEF Owns, TypeOK
<1>0. Handlers \cap Conns = {}
  OBVIOUS
<1>1. ASSUME UNCHANGED old PROVE Owns'
  BY <1>1 DEF Hash
<1>2. ASSUME NEW h \in Handlers, UnlinkRemove(h) PROVE Owns'
  BY <1>0, <1>2 DEF UnlinkRemove, At, Hash
<1>3. ASSUME NEW h \in Handlers, UnlinkUnbind(h) PROVE Owns'
  BY <1>0, <1>3 DEF UnlinkUnbind, Hash
<1>4. ASSUME NEW r \in Reqs, ReqIndex(r), r \notin OneShot PROVE Owns'
  <2>1. old' = [old EXCEPT ![r] = At(index, Hash(r))]
    BY <1>4, IndexLinked
  <2>2. \A q \in At(index, Hash(r)) : Hash(q) = Hash(r)
    BY DEF At
  <2>3. \A h \in Handlers : \A q \in old'[h] : Hash(q) = Hash(h)
    BY <2>1, <2>2
  <2>4. \A c \in Conns : old'[c] = old[c]
    BY <1>0, <2>1
  <2> QED BY <2>3, <2>4 DEF Hash
<1>5. ASSUME NEW r \in Reqs, ReqUnbind(r) PROVE Owns'
  BY <1>0, <1>5 DEF ReqUnbind, Hash
<1>6. ASSUME NEW c \in Conns, RangeRemove(c) PROVE Owns'
  <2>1. PICK r \in meta : ConnOf[r] = c /\ old' = [old EXCEPT ![c] = At(index, Hash(r))]
    BY <1>6 DEF RangeRemove
  <2>2. \A q \in At(index, Hash(r)) : ConnOf[q] = c
    BY <2>1 DEF At, Hash
  <2>3. \A d \in Conns : \A q \in old'[d] : ConnOf[q] = d
    BY <2>1, <2>2
  <2>4. \A h \in Handlers : old'[h] = old[h]
    BY <1>0, <2>1
  <2> QED BY <2>3, <2>4 DEF Hash
<1>7. ASSUME NEW c \in Conns, RangeUnbind(c) PROVE Owns'
  BY <1>0, <1>7 DEF RangeUnbind, Hash
<1>8. ASSUME NEW h \in Handlers, Receive(h) \/ UnlinkDelete(h) PROVE Owns'
  BY <1>1, <1>8 DEF Receive, UnlinkDelete, indexVars
<1>9. ASSUME NEW r \in Reqs, ReqStep(r), ~ReqUnbind(r), ~(ReqIndex(r) /\ r \notin OneShot) PROVE Owns'
  BY <1>1, <1>9 DEF ReqStep, indexVars, ReqReject, ReqAuthFail, ReqIndex, ReqUnbind, ReqBind, ReqSetMeta, ReqPage,
     ReqStream, ReqStreamFail, ReqEose, ReqWriteFail, ReqSetLive, ReqGetPending, ReqFlush, ReqClosed
<1>10. ASSUME NEW c \in Conns, Break(c) \/ ReadEnd(c) \/ RangeClear(c) PROVE Owns'
  BY <1>1, <1>10 DEF Break, ReadEnd, RangeClear, indexVars
<1>11. ASSUME NEW f \in Events, Accept(f) \/ AcceptFail(f) \/ AcceptUndo(f) \/ CastStep(f) PROVE Owns'
  BY <1>1, <1>11, CastFrame DEF indexVars
<1>12. CASE Replicate \/ UNCHANGED vars
  BY <1>1, <1>12 DEF Replicate, vars, indexVars
<1> QED BY <1>2, <1>3, <1>4, <1>5, <1>6, <1>7, <1>8, <1>9, <1>10, <1>11, <1>12
     DEF Next, CloseStep, ReadStep

(* Bits go only under the hash of what is removed.                         *)
LEMMA WipeKeeps ==
    ASSUME NEW S \in SUBSET Reqs, NEW k, NEW key, <<k, key>> \in bits, \A q \in S : Hash(q) # k
    PROVE  <<k, key>> \in bits \ BitsOf(S)
<1> SUFFICES ASSUME NEW q \in S, <<k, key>> \in {Hash(q)} \X FilterKeys[q] PROVE FALSE
  BY DEF BitsOf
<1> QED OBVIOUS

LEMMA BoundStep ==
    ASSUME TypeOK, OnePerHash, Placed, Owns, Bound, [Next]_vars
    PROVE  Bound'
<1> SUFFICES ASSUME NEW r \in index', conn'[ConnOf[r]] = "open", Hash(r) \notin crossed'
             PROVE  /\ \A h \in Handlers : Hash(h) = Hash(r) /\ pc'[h] \in Midway => h = r
                    /\ pc'[r] \notin {"unbind", "bind"} =>
                          \A key \in FilterKeys[r] : <<Hash(r), key>> \in bits'
  BY DEF Bound, Hash
<1>0. /\ r \in Reqs /\ r \in Handlers /\ Hash(r) \notin crossed /\ ConnOf[r] \in Conns
  BY TypeStep, OverlapStays DEF TypeOK
<1>1. ASSUME r \in index, conn[ConnOf[r]] = "open", UNCHANGED <<pc, bits>>
      PROVE  /\ \A h \in Handlers : Hash(h) = Hash(r) /\ pc'[h] \in Midway => h = r
             /\ pc'[r] \notin {"unbind", "bind"} =>
                   \A key \in FilterKeys[r] : <<Hash(r), key>> \in bits'
  BY <1>0, <1>1 DEF Bound
<1>2. ASSUME NEW g \in Handlers, Receive(g) \/ CloseStep(g) \/ (g \in Reqs /\ ReqStep(g))
      PROVE  /\ \A h \in Handlers : Hash(h) = Hash(r) /\ pc'[h] \in Midway => h = r
             /\ pc'[r] \notin {"unbind", "bind"} =>
                   \A key \in FilterKeys[r] : <<Hash(r), key>> \in bits'
  <2>0. conn[ConnOf[r]] = "open" /\ \A h \in Handlers : h # g => pc'[h] = pc[h]
    BY <1>2, HandlerFrame DEF connVars
  <2>1. CASE ReqIndex(g) /\ g \in Reqs /\ g \notin OneShot
    <3>1. /\ MarkOverlap(Hash(g)) /\ bits' = bits /\ pc'[g] \in {"unbind", "bind"}
          /\ r = g \/ (r \in index /\ Hash(r) # Hash(g))
      BY <2>1, IndexLinked DEF Replace, Without, TypeOK
    <3>2. CASE r = g
      <4>1. ~Busy(Hash(r), Midway)
        BY <3>1, <3>2, <1>0 DEF MarkOverlap
      <4>2. \A h \in Handlers : Hash(h) = Hash(r) => pc[h] \notin Midway
        BY <4>1 DEF Busy
      <4> QED BY <2>0, <3>1, <3>2, <4>2
    <3>3. CASE r \in index /\ Hash(r) # Hash(g)
      BY <1>0, <2>0, <3>1, <3>3 DEF Bound
    <3> QED BY <3>1, <3>2, <3>3
  <2>2. CASE UnlinkRemove(g)
    <3>1. r \in index /\ Hash(r) # Hash(g) /\ bits' = bits
      BY <2>2 DEF UnlinkRemove, Without
    <3> QED BY <1>0, <2>0, <3>1 DEF Bound
  <2>3. CASE UnlinkUnbind(g) \/ (g \in Reqs /\ ReqUnbind(g))
    <3>1. /\ r \in index /\ bits' = bits \ BitsOf(old[g]) /\ pc[g] \in Midway
          /\ (pc'[g] = "bind" /\ pc[g] = "unbind") \/ (pc'[g] \notin Midway)
      BY <2>3 DEF UnlinkUnbind, ReqUnbind, Midway, TypeOK
    <3>2. \A h \in Handlers : Hash(h) = Hash(r) /\ pc'[h] \in Midway => h = r
      BY <1>0, <2>0, <3>1 DEF Bound
    <3>3. CASE g = r
      <4>1. pc[r] # "closeBits"
        BY <3>1, <3>3 DEF Placed, Serving, Early, Afterwards
      <4>2. pc'[r] = "bind"
        BY <2>3, <3>3, <4>1 DEF UnlinkUnbind, ReqUnbind, TypeOK
      <4> QED BY <3>2, <4>2
    <3>4. CASE g # r
      <4>1. Hash(g) # Hash(r)
        BY <1>0, <2>0, <3>1, <3>4 DEF Bound
      <4>2. old[g] \in SUBSET Reqs /\ \A q \in old[g] : Hash(q) # Hash(r)
        BY <4>1 DEF Owns, TypeOK
      <4>3. pc'[r] \notin {"unbind", "bind"} => \A key \in FilterKeys[r] : <<Hash(r), key>> \in bits
        BY <1>0, <2>0, <3>1, <3>4 DEF Bound
      <4>4. pc'[r] \notin {"unbind", "bind"} => \A key \in FilterKeys[r] : <<Hash(r), key>> \in bits'
        BY <3>1, <4>2, <4>3, WipeKeeps
      <4> QED BY <3>2, <4>4
    <3> QED BY <3>3, <3>4
  <2>4. CASE g \in Reqs /\ ReqBind(g)
    <3>1. r \in index /\ bits' = bits \cup BitsOf({g}) /\ pc[g] = "bind" /\ pc'[g] = "meta"
      BY <2>4 DEF ReqBind, TypeOK
    <3>2. \A h \in Handlers : Hash(h) = Hash(r) /\ pc'[h] \in Midway => h = r
      BY <1>0, <2>0, <3>1 DEF Bound, Midway
    <3>3. CASE g = r
      BY <3>1, <3>2, <3>3 DEF BitsOf
    <3>4. CASE g # r
      BY <1>0, <2>0, <3>1, <3>2, <3>4 DEF Bound
    <3> QED BY <3>3, <3>4
  <2>5. CASE /\ ~UnlinkRemove(g) /\ ~UnlinkUnbind(g)
             /\ g \in Reqs => ~ReqUnbind(g) /\ ~ReqBind(g) /\ (ReqIndex(g) => g \in OneShot)
    <3>1. /\ index' = index /\ bits' = bits /\ pc'[g] \notin Midway
          /\ pc[g] \notin {"unbind", "bind"}
      <4>1. CASE Receive(g) \/ UnlinkDelete(g)
        BY <4>1 DEF Receive, UnlinkDelete, indexVars, Midway, TypeOK
      <4>2. CASE g \in Reqs /\ ReqStep(g)
        <5>1. CASE ReqIndex(g)
          BY <2>5, <4>2, <5>1, IndexOneShot DEF indexVars, Midway, TypeOK
        <5>2. CASE ~ReqIndex(g)
          BY <2>5, <4>2, <5>2 DEF ReqStep, indexVars, Midway, TypeOK, ReqReject, ReqAuthFail, ReqSetMeta, ReqPage,
     ReqStream, ReqStreamFail, ReqEose, ReqWriteFail, ReqSetLive, ReqGetPending, ReqFlush, ReqClosed
        <5> QED BY <5>1, <5>2
      <4> QED BY <1>2, <2>5, <4>1, <4>2 DEF CloseStep
    <3> QED BY <1>0, <2>0, <3>1 DEF Bound
  <2> QED BY <2>1, <2>2, <2>3, <2>4, <2>5
<1>3. ASSUME NEW c \in Conns, Break(c) \/ ReadEnd(c) \/ ReadStep(c)
      PROVE  /\ \A h \in Handlers : Hash(h) = Hash(r) /\ pc'[h] \in Midway => h = r
             /\ pc'[r] \notin {"unbind", "bind"} =>
                   \A key \in FilterKeys[r] : <<Hash(r), key>> \in bits'
  <2>0. r \in index /\ conn[ConnOf[r]] = "open" /\ pc' = pc
    BY <1>0, <1>3, ReadFrame
  <2>1. CASE RangeUnbind(c)
    <3>1. bits' = bits \ BitsOf(old[c]) /\ conn[c] = "unbinding"
      BY <2>1 DEF RangeUnbind
    <3>2. old[c] \in SUBSET Reqs /\ \A q \in old[c] : Hash(q) # Hash(r)
      BY <2>0, <3>1 DEF Owns, TypeOK, Hash
    <3>3. pc[r] \notin {"unbind", "bind"} => \A key \in FilterKeys[r] : <<Hash(r), key>> \in bits
      BY <1>0, <2>0 DEF Bound
    <3>4. pc[r] \notin {"unbind", "bind"} => \A key \in FilterKeys[r] : <<Hash(r), key>> \in bits'
      BY <3>1, <3>2, <3>3, WipeKeeps
    <3> QED BY <1>0, <2>0, <3>4 DEF Bound
  <2>2. CASE ~RangeUnbind(c)
    BY <1>1, <1>3, <2>0, <2>2 DEF ReadStep, Break, ReadEnd, RangeRemove, RangeClear, indexVars
  <2> QED BY <2>1, <2>2
<1>4. ASSUME NEW f \in Events, Accept(f) \/ AcceptFail(f) \/ AcceptUndo(f) \/ CastStep(f)
      PROVE  /\ \A h \in Handlers : Hash(h) = Hash(r) /\ pc'[h] \in Midway => h = r
             /\ pc'[r] \notin {"unbind", "bind"} =>
                   \A key \in FilterKeys[r] : <<Hash(r), key>> \in bits'
  BY <1>1, <1>4, CastFrame DEF connVars, indexVars
<1>5. CASE Replicate \/ UNCHANGED vars
  BY <1>1, <1>5 DEF Replicate, vars, connVars, ctlVars, indexVars
<1> QED BY <1>2, <1>3, <1>4, <1>5 DEF Next

(* The gate: nothing is written live before EOSE.                          *)
LEMMA GateStep ==
    ASSUME TypeOK, Gated, [Next]_vars
    PROVE  Gated'
<1> USE DEF Gated, Afterwards
<1>1. ASSUME NEW h \in Handlers, Receive(h) \/ CloseStep(h) PROVE Gated'
  <2>1. UNCHANGED <<subVars, castVars>> /\ \A q \in Reqs : pc'[q] \in Afterwards => pc[q] \in Afterwards
    <3>1. UNCHANGED <<subVars, castVars>>
      BY <1>1 DEF Receive, CloseStep, UnlinkRemove, UnlinkUnbind, UnlinkDelete
    <3>2. pc'[h] \notin Afterwards /\ \A g \in Handlers : g # h => pc'[g] = pc[g]
      BY <1>1 DEF Receive, CloseStep, UnlinkRemove, UnlinkUnbind, UnlinkDelete, TypeOK
    <3> QED BY <3>1, <3>2
  <2> QED BY <2>1 DEF subVars, castVars, scanVars
<1>2. ASSUME NEW r \in Reqs, ReqStep(r) PROVE Gated'
  <2>1. UNCHANGED <<bpc, tgt, liveSent>>
        /\ \A q \in Reqs : q # r => pc'[q] = pc[q] /\ live'[q] = live[q] /\ eosed'[q] = eosed[q]
    BY <1>2, HandlerFrame
  <2>2. /\ live[r] => live'[r]
        /\ eosed[r] => eosed'[r]
        /\ (live'[r] \/ pc'[r] \in Afterwards) => eosed'[r]
    BY <1>2 DEF TypeOK, ReqStep, subVars, ReqReject, ReqAuthFail, ReqIndex, ReqUnbind, ReqBind, ReqSetMeta, ReqPage,
     ReqStream, ReqStreamFail, ReqEose, ReqWriteFail, ReqSetLive, ReqGetPending, ReqFlush, ReqClosed
  <2>3. \A q \in Reqs : (live'[q] \/ liveSent'[q] # {} \/ pc'[q] \in Afterwards) => eosed'[q]
    <3> SUFFICES ASSUME NEW q \in Reqs, live'[q] \/ liveSent'[q] # {} \/ pc'[q] \in Afterwards
                 PROVE  eosed'[q]
      OBVIOUS
    <3>1. CASE q = r
      BY <3>1, <2>1, <2>2
    <3>2. CASE q # r
      BY <3>2, <2>1
    <3> QED BY <3>1, <3>2
  <2>4. \A e \in Events : bpc'[e] = "write" => live'[tgt'[e]]
    <3> SUFFICES ASSUME NEW e \in Events, bpc'[e] = "write" PROVE live'[tgt'[e]]
      OBVIOUS
    <3>1. tgt[e] \in Reqs /\ live[tgt[e]]
      BY <2>1 DEF TypeOK
    <3>2. CASE tgt[e] = r
      BY <3>1, <3>2, <2>1, <2>2
    <3>3. CASE tgt[e] # r
      BY <3>1, <3>3, <2>1
    <3> QED BY <3>2, <3>3
  <2> QED BY <2>3, <2>4
<1>3. ASSUME NEW c \in Conns, Break(c) \/ ReadEnd(c) \/ ReadStep(c) PROVE Gated'
  BY <1>3, ReadFrame DEF subVars
<1>4. ASSUME NEW f \in Events, Accept(f) \/ AcceptFail(f) \/ AcceptUndo(f) \/ CastStep(f) PROVE Gated'
  <2>1. UNCHANGED <<pc, live, eosed>> /\ \A e \in Events : e # f => bpc'[e] = bpc[e]
    BY <1>4, CastFrame
  <2>2. \A e \in Events : e # f => tgt'[e] = tgt[e]
    BY <1>4 DEF TypeOK, Accept, AcceptFail, AcceptUndo, CastStep, CastCollect, CastSkip, CastVisit,
       CastIsLive, CastWrite, CastWriteFail, CastPush, CastEnd, scanVars
  <2>3. bpc'[f] = "write" => live[tgt'[f]]
    BY <1>4 DEF TypeOK, Accept, AcceptFail, AcceptUndo, CastStep, CastCollect, CastSkip, CastVisit,
       CastIsLive, CastWrite, CastWriteFail, CastPush, CastEnd, scanVars
  <2>4. \A r \in Reqs : liveSent'[r] # {} => liveSent[r] # {} \/ live[r]
    <3>1. CASE CastWrite(f)
      BY <3>1 DEF CastWrite, TypeOK
    <3>2. CASE ~CastWrite(f)
      BY <1>4, <3>2 DEF Accept, AcceptFail, AcceptUndo, CastStep, CastCollect, CastSkip, CastVisit,
         CastIsLive, CastWriteFail, CastPush, CastEnd
    <3> QED BY <3>1, <3>2
  <2> QED BY <2>1, <2>2, <2>3, <2>4
<1>5. CASE Replicate \/ UNCHANGED vars
  BY <1>5 DEF Replicate, vars, ctlVars, subVars, castVars, scanVars
<1> QED BY <1>1, <1>2, <1>3, <1>4, <1>5 DEF Next

(* The handler's buffer, and the database.                                 *)
LEMMA BufferStep ==
    ASSUME TypeOK, Buffers, [Next]_vars
    PROVE  Buffers'
<1> USE DEF Buffers, Serving, Early, Afterwards
<1>1. ASSUME NEW h \in Handlers, Receive(h) \/ CloseStep(h) PROVE Buffers'
  <2>1. batch' = batch /\ \A q \in Reqs : q # h => pc'[q] = pc[q]
    BY <1>1, HandlerFrame DEF Receive, CloseStep, UnlinkRemove, UnlinkUnbind, UnlinkDelete, subVars
  <2>2. ASSUME h \in Reqs
        PROVE  \/ pc[h] = "idle"
               \/ pc'[h] \in {"closeBits", "closeMeta", "reply", "done"}
    BY <1>1, <2>2 DEF Receive, CloseStep, UnlinkRemove, UnlinkUnbind, UnlinkDelete, TypeOK
  <2> QED BY <2>1, <2>2
<1>2. ASSUME NEW r \in Reqs, ReqStep(r) PROVE Buffers'
  <2>1. \A q \in Reqs : q # r => pc'[q] = pc[q] /\ batch'[q] = batch[q]
    BY <1>2, HandlerFrame
  <2>2. pc'[r] \in {"idle", "recv"} \cup (Serving \ {"flush"}) => batch'[r] = {}
    BY <1>2 DEF TypeOK, ReqStep, subVars, ReqReject, ReqAuthFail, ReqIndex, ReqUnbind, ReqBind, ReqSetMeta, ReqPage,
     ReqStream, ReqStreamFail, ReqEose, ReqWriteFail, ReqSetLive, ReqGetPending, ReqFlush, ReqClosed
  <2> QED BY <2>1, <2>2
<1>3. ASSUME NEW c \in Conns, Break(c) \/ ReadEnd(c) \/ ReadStep(c) PROVE Buffers'
  BY <1>3, ReadFrame DEF subVars
<1>4. ASSUME NEW f \in Events, Accept(f) \/ AcceptFail(f) \/ AcceptUndo(f) \/ CastStep(f) PROVE Buffers'
  BY <1>4, CastFrame
<1>5. CASE Replicate \/ UNCHANGED vars
  BY <1>5 DEF Replicate, vars, ctlVars, subVars
<1> QED BY <1>1, <1>2, <1>3, <1>4, <1>5 DEF Next

LEMMA KeptStep ==
    ASSUME TypeOK, Kept, [Next]_vars
    PROVE  Kept'
<1> SUFFICES ASSUME NEW e \in Events, bpc'[e] \notin {"new", "undone"}
             PROVE  e \in stored' \/ Superseded(e)'
  BY DEF Kept
<1>1. CASE UNCHANGED <<bpc, stored>>
  BY <1>1, SupersededStays DEF Kept
<1>2. ASSUME NEW h \in Handlers, Receive(h) \/ CloseStep(h) \/ (h \in Reqs /\ ReqStep(h))
      PROVE  UNCHANGED <<bpc, stored>>
  BY <1>2, HandlerFrame
<1>3. ASSUME NEW c \in Conns, Break(c) \/ ReadEnd(c) \/ ReadStep(c)
      PROVE  UNCHANGED <<bpc, stored>>
  BY <1>3, ReadFrame
<1>4. ASSUME NEW f \in Events, Accept(f) \/ AcceptFail(f) \/ AcceptUndo(f)
      PROVE  e \in stored' \/ Superseded(e)'
  <2>1. CASE e = f
    BY <1>4, <2>1 DEF Accept, AcceptFail, AcceptUndo, TypeOK
  <2>2. CASE e # f /\ Addr[e] = Addr[f]
    BY <1>4, <2>2, CastFrame DEF Superseded
  <2>3. CASE e # f /\ Addr[e] # Addr[f]
    <3>1. bpc[e] \notin {"new", "undone"}
      BY <1>4, <2>3, CastFrame
    <3>2. e \in stored => e \in stored'
      BY <1>4, <2>3 DEF Accept, AcceptFail, AcceptUndo
    <3> QED BY <3>1, <3>2, SupersededStays DEF Kept
  <2> QED BY <2>1, <2>2, <2>3
<1>5. ASSUME NEW f \in Events, CastStep(f) PROVE e \in stored' \/ Superseded(e)'
  <2>1. stored' = stored /\ bpc[f] # "new"
    BY <1>5 DEF CastStep, CastCollect, CastSkip, CastVisit, CastIsLive, CastWrite,
       CastWriteFail, CastPush, CastEnd
  <2>2. bpc[e] \notin {"new", "undone"}
    BY <1>5, <2>1, CastFrame DEF CastStep, CastCollect, CastSkip, CastVisit, CastIsLive,
       CastWrite, CastWriteFail, CastPush, CastEnd
  <2> QED BY <2>1, <2>2, SupersededStays DEF Kept
<1>6. CASE Replicate \/ UNCHANGED vars
  BY <1>6, <1>1 DEF Replicate, vars, castVars
<1> QED BY <1>1, <1>2, <1>3, <1>4, <1>5, <1>6 DEF Next

LEMMA OverStep ==
    ASSUME TypeOK, Over, [Next]_vars
    PROVE  Over'
<1>1. ASSUME NEW h \in Handlers, Receive(h) \/ CloseStep(h) \/ (h \in Reqs /\ ReqStep(h))
      PROVE  Over'
  BY <1>1, HandlerFrame DEF Over
<1>2. ASSUME NEW c \in Conns, Break(c) \/ ReadEnd(c) \/ ReadStep(c) PROVE Over'
  BY <1>2, ReadFrame DEF Over
<1>3. ASSUME NEW f \in Events, Accept(f) \/ AcceptFail(f) \/ AcceptUndo(f) PROVE Over'
  BY <1>3, ZenonT(60) DEF Accept, AcceptFail, AcceptUndo, scanVars, Over, TypeOK
<1>4. ASSUME NEW f \in Events, CastStep(f) PROVE Over'
  BY <1>4 DEF CastStep, CastCollect, CastSkip, CastVisit, CastIsLive, CastWrite,
     CastWriteFail, CastPush, CastEnd, scanVars, Over, TypeOK
<1>5. CASE Replicate \/ UNCHANGED vars
  BY <1>5 DEF Replicate, vars, castVars, scanVars, Over
<1> QED BY <1>1, <1>2, <1>3, <1>4, <1>5 DEF Next

-----------------------------------------------------------------------------
(* The hand-over: a wanted event is delivered, buffered, ahead of the      *)
(* stored query or in its broadcast's hands, at every step.                *)
LEMMA FeedStep ==
    ASSUME ~ReadReplica, IInv, [Next]_vars
    PROVE  Feed'
<1> USE DEF IInv, NotCast
<1> SUFFICES ASSUME NEW r \in index', NEW e \in Wants[r],
                    pc'[r] \in Serving, conn'[ConnOf[r]] = "open", Hash(r) \notin crossed',
                    bpc'[e] \notin NotCast
             PROVE  Delivered(r, e)' \/ Superseded(e)' \/ Ahead(r, e)' \/ OnItsWay(r, e)'
  BY DEF Feed, Hash
<1>0. /\ r \in Reqs /\ r \in Handlers /\ e \in Events /\ ConnOf[r] \in Conns /\ Hash(r) \notin crossed
      /\ pc[r] \in ReqStates
  BY TypeStep, OverlapStays DEF TypeOK
<1>1. CASE Superseded(e)
  BY <1>0, <1>1, SupersededStays
<1>a. CASE pc'[r] \in Early
  <2>1. e \in stored' \/ Superseded(e)'
    BY <1>0, KeptStep DEF Kept
  <2> QED BY <1>a, <2>1 DEF Ahead
<1>2. SUFFICES ASSUME ~Superseded(e), pc'[r] \notin Early
               PROVE  Delivered(r, e)' \/ Superseded(e)' \/ Ahead(r, e)' \/ OnItsWay(r, e)'
  BY <1>1, <1>a
<1>3. ASSUME NEW h \in Handlers, h # r,
             Receive(h) \/ CloseStep(h) \/ (h \in Reqs /\ ReqStep(h))
      PROVE  Delivered(r, e)' \/ Ahead(r, e)' \/ OnItsWay(r, e)'
  <2>1. r \in index
    <3>1. CASE h \in Reqs /\ ReqIndex(h)
      <4>1. CASE h \in OneShot
        BY <3>1, <4>1, IndexOneShot DEF indexVars
      <4>2. CASE h \notin OneShot
        BY <1>3, <3>1, <4>2, IndexLinked DEF Replace, Without
      <4> QED BY <4>1, <4>2
    <3>2. CASE ~(h \in Reqs /\ ReqIndex(h))
      BY <1>3, <3>2 DEF Receive, CloseStep, UnlinkRemove, UnlinkUnbind, UnlinkDelete, ReqStep, indexVars, Without, ReqReject, ReqAuthFail, ReqUnbind, ReqBind, ReqSetMeta, ReqPage,
     ReqStream, ReqStreamFail, ReqEose, ReqWriteFail, ReqSetLive, ReqGetPending, ReqFlush, ReqClosed
    <3> QED BY <3>1, <3>2
  <2>2. /\ UNCHANGED <<connVars, stored, bpc, left, found, tgt, liveSent>> /\ pc'[r] = pc[r]
        /\ sent'[r] = sent[r] /\ pending'[r] = pending[r] /\ batch'[r] = batch[r]
        /\ asked'[r] = asked[r]
    BY <1>0, <1>3, HandlerFrame
  <2> QED BY <1>0, <1>2, <2>1, <2>2 DEF Feed, Delivered, Ahead, OnItsWay, connVars
<1>4. ASSUME Receive(r) \/ CloseStep(r)
      PROVE  FALSE
  <2>1. pc'[r] \in {"recv", "close", "closeBits", "closeMeta", "reply", "done"}
    BY <1>0, <1>4 DEF Receive, CloseStep, UnlinkRemove, UnlinkUnbind, UnlinkDelete, TypeOK
  <2> QED BY <2>1 DEF Serving, Early, Afterwards
<1>5. ASSUME ReqIndex(r) \/ ReqUnbind(r) \/ ReqBind(r) \/ ReqSetMeta(r)
      PROVE  FALSE
  <2>1. ~(ReqUnbind(r) \/ ReqBind(r) \/ ReqSetMeta(r))
    BY <1>0, <1>2 DEF ReqUnbind, ReqBind, ReqSetMeta, Early, TypeOK
  <2>2. CASE r \in OneShot
    BY <1>0, <1>2, <1>5, <2>1, <2>2, IndexOneShot DEF Early, TypeOK
  <2>3. CASE r \notin OneShot
    <3>1. PICK x \in {"unbind", "bind"} : pc' = [pc EXCEPT ![r] = x]
      BY <1>0, <1>5, <2>1, <2>3, IndexLinked
    <3> QED BY <1>0, <1>2, <3>1 DEF Early, TypeOK
  <2> QED BY <2>2, <2>3
<1>b. ASSUME ReqPage(r) PROVE Delivered(r, e)' \/ Ahead(r, e)' \/ OnItsWay(r, e)'
  <2>1. /\ stored' = stored /\ bpc' = bpc /\ pc'[r] = "page" /\ pc[r] = "stream"
        /\ asked'[r] = stored \cap Wants[r]
    BY <1>0, <1>b DEF ReqPage, StoredFor, TypeOK, castVars
  <2>2. e \in stored
    BY <1>0, <1>2, <2>1 DEF Kept
  <2> QED BY <2>1, <2>2 DEF Ahead
<1>6. ASSUME ReqStream(r) PROVE Delivered(r, e)' \/ Ahead(r, e)' \/ OnItsWay(r, e)'
  <2>1. UNCHANGED <<index, conn, stored, bpc, left, found, tgt, liveSent, pending, batch>>
    BY <1>6 DEF ReqStream, connVars, indexVars, castVars, scanVars
  <2>2. CASE r \notin Paging
    <3>1. sent'[r] = sent[r] \cup (stored \cap Wants[r])
      BY <1>0, <1>6, <2>2 DEF ReqStream, StoredFor, TypeOK
    <3>2. e \in stored
      BY <1>0, <1>2, <2>1 DEF Kept
    <3> QED BY <3>1, <3>2 DEF Delivered
  <2>3. CASE r \in Paging
    <3>1. /\ pc[r] = "page" /\ sent[r] \subseteq sent'[r]
          /\ asked[r] \cap stored \cap Wants[r] \subseteq sent'[r]
      BY <1>0, <1>6, <2>3 DEF ReqStream, StoredFor, TypeOK
    <3>2. Delivered(r, e) \/ Ahead(r, e) \/ OnItsWay(r, e)
      BY <1>0, <1>2, <2>1, <3>1 DEF Feed, Serving
    <3> QED BY <2>1, <3>1, <3>2 DEF Delivered, Ahead, OnItsWay, Early
  <2> QED BY <2>2, <2>3
<1>7. ASSUME ReqReject(r) \/ ReqAuthFail(r) \/ ReqStreamFail(r) \/ ReqWriteFail(r) \/ ReqClosed(r)
      PROVE  FALSE
  BY <1>0, <1>7 DEF ReqReject, ReqAuthFail, ReqStreamFail, ReqWriteFail, ReqClosed,
     Serving, Early, Afterwards, TypeOK, connVars
<1>8. ASSUME ReqEose(r) \/ ReqSetLive(r)
      PROVE  Delivered(r, e)' \/ Ahead(r, e)' \/ OnItsWay(r, e)'
  <2>1. UNCHANGED <<index, conn, stored, bpc, left, found, tgt, liveSent, sent, pending, batch>>
    BY <1>8 DEF ReqEose, ReqSetLive, connVars, indexVars, castVars, scanVars
  <2>2. pc[r] \in Serving /\ pc[r] \notin Early \cup {"page"}
    BY <1>8 DEF ReqEose, ReqSetLive, Serving, Early, Afterwards
  <2> QED BY <1>0, <1>2, <2>1, <2>2 DEF Feed, Delivered, Ahead, OnItsWay
<1>9. ASSUME ReqGetPending(r) \/ ReqFlush(r)
      PROVE  Delivered(r, e)' \/ Ahead(r, e)' \/ OnItsWay(r, e)'
  <2>1. UNCHANGED <<index, conn, stored, bpc, left, found, tgt, liveSent>>
    BY <1>9 DEF ReqGetPending, ReqFlush, connVars, indexVars, castVars, scanVars
  <2>2. pc[r] \in Serving /\ pc[r] \notin Early \cup {"page"}
    BY <1>9 DEF ReqGetPending, ReqFlush, Serving, Early, Afterwards
  <2>3. sent'[r] \cup pending'[r] \cup batch'[r] = sent[r] \cup pending[r] \cup batch[r]
    <3>1. CASE ReqGetPending(r)
      <4>1. batch[r] = {}
        BY <1>0, <3>1 DEF ReqGetPending, Buffers, Serving, Afterwards
      <4> QED BY <1>0, <3>1, <4>1 DEF ReqGetPending, TypeOK
    <3>2. CASE ReqFlush(r)
      BY <1>0, <3>2 DEF ReqFlush, TypeOK
    <3> QED BY <1>9, <3>1, <3>2
  <2> QED BY <1>0, <1>2, <2>1, <2>2, <2>3 DEF Feed, Delivered, Ahead, OnItsWay
<1>10. ASSUME NEW c \in Conns, Break(c) \/ ReadEnd(c) \/ ReadStep(c)
       PROVE  Delivered(r, e)' \/ Ahead(r, e)' \/ OnItsWay(r, e)'
  BY <1>0, <1>2, <1>10, ReadFrame DEF Feed, Delivered, Ahead, OnItsWay, subVars
<1>11. CASE Replicate \/ UNCHANGED vars
  BY <1>0, <1>2, <1>11 DEF Replicate, vars, connVars, ctlVars, indexVars, subVars, castVars, scanVars,
     Feed, Delivered, Ahead, OnItsWay
<1>12. ASSUME NEW f \in Events, Accept(f) \/ AcceptFail(f) \/ AcceptUndo(f)
       PROVE  Delivered(r, e)' \/ Superseded(e)' \/ Ahead(r, e)' \/ OnItsWay(r, e)'
  <2>1. UNCHANGED <<conn, pc, index, sent, pending, batch, asked, found, tgt, liveSent>>
    BY <1>12 DEF Accept, AcceptFail, AcceptUndo, connVars, ctlVars, indexVars, subVars, scanVars
  <2>2. CASE e = f
    BY <1>0, <1>12, <2>2 DEF Accept, AcceptFail, AcceptUndo, TypeOK, OnItsWay, Hashes
  <2>3. CASE e # f /\ Addr[e] = Addr[f]
    BY <1>0, <1>12, <2>3, CastFrame DEF Superseded
  <2>4. CASE e # f /\ Addr[e] # Addr[f]
    <3>1. bpc'[e] = bpc[e] /\ left'[e] = left[e] /\ (e \in stored => e \in stored')
      BY <1>0, <1>12, <2>4 DEF Accept, AcceptFail, AcceptUndo, TypeOK, scanVars
    <3> QED BY <1>0, <1>2, <2>1, <3>1 DEF Feed, Delivered, Ahead, OnItsWay
  <2> QED BY <2>2, <2>3, <2>4
<1>13. ASSUME NEW f \in Events, CastStep(f), f # e
       PROVE  Delivered(r, e)' \/ Ahead(r, e)' \/ OnItsWay(r, e)'
  <2>1. UNCHANGED <<conn, pc, index, sent, batch, asked, stored>>
        /\ bpc'[e] = bpc[e] /\ left'[e] = left[e] /\ found'[e] = found[e] /\ tgt'[e] = tgt[e]
    BY <1>0, <1>13 DEF CastStep, CastCollect, CastSkip, CastVisit, CastIsLive, CastWrite,
       CastWriteFail, CastPush, CastEnd, TypeOK, connVars, ctlVars, indexVars, subVars, scanVars
  <2>2. liveSent[r] \subseteq liveSent'[r]
    <3>1. CASE CastWrite(f)
      BY <1>0, <3>1 DEF CastWrite, TypeOK
    <3>2. CASE ~CastWrite(f)
      BY <1>13, <3>2 DEF CastStep, CastCollect, CastSkip, CastVisit, CastIsLive,
         CastWriteFail, CastPush, CastEnd
    <3> QED BY <3>1, <3>2
  <2>3. e \in pending[r] => e \in pending'[r]
    <3>1. CASE CastPush(f)
      <4>1. Addr[f] # Addr[e]
        BY <1>0, <1>2, <1>13, <3>1 DEF CastPush, Superseded
      <4> QED BY <1>0, <3>1, <4>1 DEF CastPush, TypeOK
    <3>2. CASE ~CastPush(f)
      BY <1>13, <3>2 DEF CastStep, CastCollect, CastSkip, CastVisit, CastIsLive, CastWrite,
         CastWriteFail, CastEnd, subVars
    <3> QED BY <3>1, <3>2
  <2> QED BY <1>0, <1>2, <2>1, <2>2, <2>3 DEF Feed, Delivered, Ahead, OnItsWay
<1>14. ASSUME CastStep(e) PROVE Delivered(r, e)' \/ Ahead(r, e)' \/ OnItsWay(r, e)'
  <2>1. UNCHANGED <<conn, pc, index, bits, sent, batch, asked, stored>> /\ bpc[e] \notin NotCast
    BY <1>14 DEF CastStep, CastCollect, CastSkip, CastVisit, CastIsLive, CastWrite,
       CastWriteFail, CastPush, CastEnd, connVars, ctlVars, indexVars, subVars
  <2>2. Delivered(r, e) \/ Ahead(r, e) \/ OnItsWay(r, e)
    BY <1>0, <1>2, <2>1 DEF Feed
  <2>3. CASE Ahead(r, e)
    BY <2>1, <2>3 DEF Ahead
  <2>4. CASE Delivered(r, e)
    <3>1. e \in pending[r] => e \in pending'[r]
      <4>1. CASE CastPush(e)
        BY <1>0, <4>1 DEF CastPush, TypeOK
      <4>2. CASE ~CastPush(e)
        BY <1>14, <4>2 DEF CastStep, CastCollect, CastSkip, CastVisit, CastIsLive, CastWrite,
           CastWriteFail, CastEnd, subVars
      <4> QED BY <4>1, <4>2
    <3>2. liveSent[r] \subseteq liveSent'[r]
      <4>1. CASE CastWrite(e)
        BY <1>0, <4>1 DEF CastWrite, TypeOK
      <4>2. CASE ~CastWrite(e)
        BY <1>14, <4>2 DEF CastStep, CastCollect, CastSkip, CastVisit, CastIsLive,
           CastWriteFail, CastPush, CastEnd
      <4> QED BY <4>1, <4>2
    <3> QED BY <2>1, <2>4, <3>1, <3>2 DEF Delivered
  <2>5. CASE OnItsWay(r, e)
    <3>1. CASE CastCollect(e)
      <4>1. PICK k \in left[e] :
               /\ left' = [left EXCEPT ![e] = @ \ {k}]
               /\ found' = [found EXCEPT ![e] =
                              IF \E key \in EventKeys[e] : <<k, key>> \in bits
                              THEN @ \cup {k} ELSE @]
        BY <3>1 DEF CastCollect
      <4>2. tgt' = tgt /\ bpc' = bpc /\ bpc[e] = "scan"
        BY <3>1 DEF CastCollect
      <4>3. CASE k = Hash(r)
        <5>1. PICK key \in FilterKeys[r] : key \in EventKeys[e]
          BY <1>0, RoutingAssumption
        <5>2. <<Hash(r), key>> \in bits
          BY <1>0, <1>2, <2>1, <5>1 DEF Bound, Early
        <5>3. found' = [found EXCEPT ![e] = @ \cup {k}]
          BY <4>1, <4>3, <5>1, <5>2
        <5> QED BY <1>0, <4>3, <5>3 DEF OnItsWay, TypeOK
      <4>4. CASE k # Hash(r)
        BY <1>0, <2>5, <4>1, <4>2, <4>4 DEF OnItsWay, TypeOK
      <4> QED BY <4>3, <4>4
    <3>2. CASE CastSkip(e)
      BY <1>0, <2>1, <2>5, <3>2 DEF CastSkip, OnItsWay, TypeOK
    <3>3. CASE CastVisit(e)
      <4>1. PICK q \in index :
               /\ found' = [found EXCEPT ![e] = @ \ {Hash(q)}]
               /\ tgt' = [tgt EXCEPT ![e] = q]
        BY <3>3 DEF CastVisit
      <4>2. bpc[e] = "scan" /\ bpc'[e] = "check" /\ left' = left
        BY <1>0, <3>3 DEF CastVisit, TypeOK
      <4>3. CASE Hash(q) = Hash(r)
        BY <1>0, <2>1, <4>1, <4>2, <4>3 DEF OnePerHash, OnItsWay, TypeOK
      <4>4. CASE Hash(q) # Hash(r)
        BY <1>0, <2>5, <4>1, <4>2, <4>4 DEF OnItsWay, TypeOK
      <4> QED BY <4>3, <4>4
    <3>4. CASE CastIsLive(e)
      BY <1>0, <2>5, <3>4 DEF CastIsLive, OnItsWay, TypeOK, scanVars
    <3>5. CASE CastWrite(e)
      BY <1>0, <2>5, <3>5 DEF CastWrite, OnItsWay, Delivered, TypeOK, scanVars
    <3>6. CASE CastWriteFail(e)
      BY <1>0, <2>1, <2>5, <3>6 DEF CastWriteFail, OnItsWay, TypeOK, scanVars
    <3>7. CASE CastPush(e)
      BY <1>0, <2>5, <3>7 DEF CastPush, OnItsWay, Delivered, TypeOK, scanVars
    <3>8. CASE CastEnd(e)
      BY <2>5, <3>8 DEF CastEnd, OnItsWay
    <3> QED BY <1>14, <3>1, <3>2, <3>3, <3>4, <3>5, <3>6, <3>7, <3>8 DEF CastStep
  <2> QED BY <2>2, <2>3, <2>4, <2>5
<1>15. ASSUME NEW h \in Handlers, Receive(h) \/ CloseStep(h) \/ (h \in Reqs /\ ReqStep(h))
       PROVE  Delivered(r, e)' \/ Ahead(r, e)' \/ OnItsWay(r, e)'
  BY <1>3, <1>4, <1>5, <1>6, <1>7, <1>8, <1>9, <1>15, <1>b DEF ReqStep
<1> QED BY <1>0, <1>10, <1>11, <1>12, <1>13, <1>14, <1>15 DEF Next

-----------------------------------------------------------------------------
LEMMA InitInv == Init => IInv
<1> SUFFICES ASSUME Init PROVE IInv
  OBVIOUS
<1>1. (CHOOSE r \in Reqs : TRUE) \in Reqs
  OBVIOUS
<1>2. TypeOK
  BY <1>1 DEF Init, TypeOK, ReqStates, UnlinkStates
<1>3. Gated
  BY DEF Init, Gated, Afterwards
<1>4. OnePerHash /\ Placed /\ Owns /\ Bound /\ Buffers /\ Kept /\ Feed /\ Over
  BY DEF Init, OnePerHash, Placed, Owns, Bound, Buffers, Kept, Feed, Over
<1> QED BY <1>2, <1>3, <1>4 DEF IInv

(* Types, for every instance: also of what handlers, clean-ups and         *)
(* broadcasts leave in each other's way (server/ws).                       *)
THEOREM TypeCorrect == Spec => []TypeOK
<1>1. Init => TypeOK
  BY InitInv DEF IInv
<1>2. TypeOK /\ [Next]_vars => TypeOK'
  BY TypeStep
<1> QED BY <1>1, <1>2, PTL DEF Spec

(* No live event before EOSE: BroadcastNewEvents finds the subscription in *)
(* the index from the start and must hold back until SetLive.              *)
THEOREM EoseFirst == Spec => []LiveAfterEose
<1> DEFINE J == TypeOK /\ Gated
<1>1. Init => J
  BY InitInv DEF IInv
<1>2. J /\ [Next]_vars => J'
  BY TypeStep, GateStep
<1>3. J => LiveAfterEose
  BY DEF Gated, LiveAfterEose
<1> QED BY <1>1, <1>2, <1>3, PTL DEF Spec

(* A REQ that failed or was one-shot is not in the index when its handler  *)
(* has ended, whatever the other messages of its connection do (handleReq, *)
(* unlinkSubscription).                                                    *)
THEOREM NothingLeft == Spec => []FailedUnlinked
<1> DEFINE J == TypeOK /\ OnePerHash /\ Placed
<1>1. Init => J
  BY InitInv DEF IInv
<1>2. J /\ [Next]_vars => J'
  BY TypeStep, LinkStep
<1>3. J => FailedUnlinked
  BY DEF TypeOK, Placed, Serving, Early, Afterwards, FailedUnlinked
<1> QED BY <1>1, <1>2, <1>3, PTL DEF Spec

(* The hand-over loses nothing: when stored queries read the primary, each *)
(* event a live subscription wants and whose broadcast is over was written *)
(* or is buffered, whatever other messages name its ID, unless two calls   *)
(* of the matcher about it have crossed (handleReq, BroadcastNewEvents).   *)
THEOREM HandOver ==
    ASSUME ~ReadReplica PROVE Spec => []NoGap
<1>1. IInv /\ [Next]_vars => IInv'
  BY TypeStep, LinkStep, OwnsStep, BoundStep, GateStep, BufferStep, KeptStep, FeedStep, OverStep
     DEF IInv
<1>2. IInv => NoGap
  <2> SUFFICES ASSUME IInv, NEW r \in index, NEW e \in Events,
                      pc[r] = "live", conn[ConnOf[r]] = "open", bpc[e] = "done", e \in Wants[r],
                      Hash(r) \notin crossed
               PROVE  e \in sent[r] \cup liveSent[r] \cup pending[r] \/ Superseded(e)
    BY DEF NoGap
  <2>1. Delivered(r, e) \/ Superseded(e) \/ OnItsWay(r, e)
    BY DEF IInv, Feed, Serving, Early, Afterwards, Ahead, NotCast
  <2>2. batch[r] = {}
    BY DEF IInv, TypeOK, Buffers, Serving, Afterwards
  <2>3. left[e] = {} /\ found[e] = {}
    BY DEF IInv, Over
  <2> QED BY <2>1, <2>2, <2>3 DEF Delivered, OnItsWay
<1> QED BY <1>1, <1>2, InitInv, PTL DEF Spec

-----------------------------------------------------------------------------
(* The clean-up of a connection.                                           *)

(* While an ID is linked or unlinked nothing else is indexed under its     *)
(* hash, unless another handler was about it at the same time.             *)
HashHeld ==
    \A h \in Handlers, r \in index :
       Hash(r) = Hash(h) /\ Hash(r) \notin tangled /\ pc[h] \in Linking \cup Unlinking => r = h

(* A subscription that is indexed is in the metadata of its connection, or *)
(* about to be, while Read has not begun to clean up.                      *)
InMeta ==
    \A r \in index :
       conn[ConnOf[r]] \in {"open", "broken"} /\ Hash(r) \notin tangled =>
          r \in meta \/ pc[r] \in Linking

(* What the clean-up has still to remove is ahead of it.                   *)
AheadOfRange ==
    \A r \in index :
       conn[ConnOf[r]] \in {"ranging", "unbinding"} /\ Hash(r) \notin tangled =>
          \/ r \in inflight[ConnOf[r]]
          \/ r \in meta /\ IdOf[r] \in snap[ConnOf[r]] /\ IdOf[r] \notin visited[ConnOf[r]]

(* No handler starts once the clean-up has begun.                          *)
Begun ==
    \A c \in Conns :
       /\ conn[c] \in {"open", "broken"} => visited[c] = {}
       /\ conn[c] \in {"ranging", "unbinding", "gone"} =>
             \A h \in Handlers : ConnOf[h] = c /\ Active(h) => h \in inflight[c]

(* A subscription that is served is indexed, unless its connection ends or *)
(* another message names its ID.                                           *)
StaysLinked ==
    /\ \A r \in Reqs : pc[r] \in Afterwards \cup Linking => r \notin OneShot
    /\ \A r \in Reqs \ OneShot :
          /\ pc[r] \in Serving /\ conn[ConnOf[r]] \in {"open", "broken"}
          /\ \A h \in Handlers \ {r} : Hash(h) = Hash(r) => pc[h] = "idle"
          => r \in index

Tidy == HashHeld /\ InMeta /\ AheadOfRange /\ Begun /\ StaysLinked /\ CleanupRemovesSettled

CleanupInv == TypeOK /\ OnePerHash /\ Placed /\ Tidy

(* StaysLinked and Begun follow the program counters and the index.        *)
LEMMA StaysStep ==
    ASSUME CleanupInv, NEW h \in Handlers, UNCHANGED connVars,
           \A g \in Handlers : g # h => pc'[g] = pc[g],
           \A r \in index : Hash(r) # Hash(h) => r \in index',
           h \in index => h \in index' \/ pc'[h] \notin Serving,
           h \in Reqs \ OneShot /\ pc'[h] \in Serving => pc[h] \in Serving \/ h \in index',
           h \in Reqs /\ pc'[h] \in Afterwards \cup Linking => h \notin OneShot,
           pc'[h] # "idle"
    PROVE  StaysLinked'
<1> USE DEF CleanupInv, Tidy, connVars
<1>1. ASSUME NEW r \in Reqs, pc'[r] \in Afterwards \cup Linking
      PROVE  r \notin OneShot
  BY <1>1 DEF StaysLinked
<1>2. ASSUME NEW r \in Reqs \ OneShot, pc'[r] \in Serving, conn[ConnOf[r]] \in {"open", "broken"},
             \A g \in Handlers \ {r} : Hash(g) = Hash(r) => pc'[g] = "idle"
      PROVE  r \in index'
  <2>1. CASE r = h
    <3>1. \A g \in Handlers \ {r} : Hash(g) = Hash(r) => pc[g] = "idle"
      BY <1>2, <2>1
    <3> QED BY <1>2, <2>1, <3>1 DEF StaysLinked
  <2>2. CASE r # h
    <3>1. Hash(h) # Hash(r)
      BY <1>2, <2>2
    <3>2. pc[r] \in Serving /\ \A g \in Handlers \ {r} : Hash(g) = Hash(r) => pc[g] = "idle"
      BY <1>2, <2>2, <3>1
    <3>3. r \in index
      BY <1>2, <3>2 DEF StaysLinked
    <3> QED BY <3>1, <3>3
  <2> QED BY <2>1, <2>2
<1> QED BY <1>1, <1>2 DEF StaysLinked, Hash

LEMMA BegunStep ==
    ASSUME CleanupInv, NEW h \in Handlers, UNCHANGED connVars,
           \A g \in Handlers : g # h => pc'[g] = pc[g], Active(h) \/ conn[ConnOf[h]] = "open"
    PROVE  Begun'
<1> USE DEF CleanupInv, Tidy, connVars
<1>1. \A g \in Handlers : g # h => (Active(g)' <=> Active(g))
  BY DEF Active
<1> QED BY <1>1 DEF Begun

(* A step of a handler that neither links nor unlinks.                     *)
LEMMA QuietStep ==
    ASSUME CleanupInv, NEW h \in Handlers, UNCHANGED <<connVars, index, meta, tangled>>,
           \A g \in Handlers : g # h => pc'[g] = pc[g],
           Active(h) \/ conn[ConnOf[h]] = "open",
           pc[h] \in Linking => pc'[h] \in Linking,
           pc'[h] \in Linking \cup Unlinking => pc[h] \in Linking \cup Unlinking,
           h \in Reqs /\ pc'[h] \in Afterwards \cup Linking => h \notin OneShot,
           h \in Reqs \ OneShot /\ pc'[h] \in Serving => pc[h] \in Serving,
           pc'[h] # "idle"
    PROVE  Tidy'
<1> USE DEF CleanupInv, Tidy, connVars
<1>1. HashHeld'
  BY DEF HashHeld, Hash
<1>2. InMeta'
  <2> SUFFICES ASSUME NEW r \in index, conn[ConnOf[r]] \in {"open", "broken"}, Hash(r) \notin tangled
               PROVE  r \in meta \/ pc'[r] \in Linking
    BY DEF InMeta, Hash
  <2>1. r \in Handlers /\ (r \in meta \/ pc[r] \in Linking)
    BY DEF InMeta, TypeOK
  <2> QED BY <2>1
<1>3. AheadOfRange' /\ CleanupRemovesSettled'
  BY DEF AheadOfRange, CleanupRemovesSettled, Hash
<1>4. Begun'
  BY BegunStep
<1>5. StaysLinked'
  BY StaysStep
<1> QED BY <1>1, <1>2, <1>3, <1>4, <1>5

(* The Read loop starts a handler.                                         *)
LEMMA ReceiveTidy ==
    ASSUME CleanupInv, NEW h \in Handlers, Receive(h)
    PROVE  Tidy'
<1>1. /\ UNCHANGED <<connVars, index, meta, tangled>> /\ pc[h] = "idle" /\ pc'[h] \in {"recv", "close"}
      /\ conn[ConnOf[h]] = "open" /\ \A g \in Handlers : g # h => pc'[g] = pc[g]
  BY DEF CleanupInv, Receive, TypeOK, indexVars
<1>2. /\ pc[h] \notin Linking /\ pc'[h] \notin Linking \cup Unlinking
      /\ pc'[h] \notin Afterwards /\ pc'[h] \notin Serving /\ pc'[h] # "idle"
  BY <1>1 DEF Linking, Unlinking, Serving, Early, Afterwards
<1> QED BY <1>1, <1>2, QuietStep

(* linkSubscription, first half: the index has the new subscription under  *)
(* its hash.                                                               *)
LEMMA IndexTidy ==
    ASSUME CleanupInv, NEW q \in Reqs, ReqIndex(q), q \notin OneShot
    PROVE  Tidy'
<1> USE DEF CleanupInv, Tidy, connVars
<1>0. /\ UNCHANGED <<connVars, meta>> /\ pc[q] = "recv" /\ pc'[q] \in {"unbind", "bind"} /\ q \in Handlers
      /\ index' = Replace(index, q) /\ \A g \in Handlers : g # q => pc'[g] = pc[g]
      /\ MarkOverlap(Hash(q))
  BY IndexLinked DEF TypeOK
<1>a. /\ q \in index' /\ \A r \in index' : r = q \/ (r \in index /\ Hash(r) # Hash(q))
      /\ \A r \in index : Hash(r) # Hash(q) => r \in index'
  BY <1>0 DEF Replace, Without
<1>b. Active(q) /\ pc'[q] \in Linking
  BY <1>0 DEF Active, Finished, Linking
<1>c. tangled \subseteq tangled' /\ (Hash(q) \notin tangled' =>
         \A h \in Handlers : Hash(h) = Hash(q) => pc[h] \notin Linking \cup Unlinking)
  BY <1>0 DEF MarkOverlap, Busy
<1>2. HashHeld'
  <2> SUFFICES ASSUME NEW h \in Handlers, NEW r \in index', Hash(r) = Hash(h), Hash(r) \notin tangled',
                      pc'[h] \in Linking \cup Unlinking
               PROVE  r = h
    BY DEF HashHeld, Hash
  <2>1. CASE r = q
    BY <1>0, <1>c, <2>1
  <2>2. CASE r # q
    <3>1. r \in index /\ h # q /\ Hash(r) \notin tangled
      BY <1>a, <1>c, <2>2
    <3> QED BY <1>0, <3>1 DEF HashHeld
  <2> QED BY <2>1, <2>2
<1>3. InMeta'
  <2> SUFFICES ASSUME NEW r \in index', conn[ConnOf[r]] \in {"open", "broken"}, Hash(r) \notin tangled'
               PROVE  r \in meta \/ pc'[r] \in Linking
    BY <1>0 DEF InMeta, Hash
  <2>1. CASE r = q
    BY <1>b, <2>1
  <2>2. CASE r # q
    BY <1>0, <1>a, <1>c, <2>2 DEF InMeta, TypeOK
  <2> QED BY <2>1, <2>2
<1>4. AheadOfRange' /\ CleanupRemovesSettled'
  <2>1. conn[ConnOf[q]] \in {"ranging", "unbinding", "gone"} => q \in inflight[ConnOf[q]]
    BY <1>0, <1>b DEF Begun
  <2> QED BY <1>0, <1>a, <1>c, <2>1 DEF AheadOfRange, CleanupRemovesSettled, Hash
<1>5. Begun'
  BY <1>0, <1>b, BegunStep
<1>6. StaysLinked'
  BY <1>0, <1>a, StaysStep
<1> QED BY <1>2, <1>3, <1>4, <1>5, <1>6

(* linkSubscription, second half: the metadata too.                        *)
LEMMA MetaTidy ==
    ASSUME CleanupInv, NEW q \in Reqs, ReqSetMeta(q)
    PROVE  Tidy'
<1> USE DEF CleanupInv, Tidy, connVars
<1>0. /\ UNCHANGED <<connVars, index, tangled>> /\ pc[q] = "meta" /\ pc'[q] = "stream" /\ q \in Handlers
      /\ meta' = Replace(meta, q) /\ \A g \in Handlers : g # q => pc'[g] = pc[g]
  BY DEF ReqSetMeta, TypeOK, indexVars
<1>a. q \in meta' /\ \A r \in meta : Hash(r) # Hash(q) => r \in meta'
  BY <1>0 DEF Replace, Without
<1>b. Active(q) /\ pc[q] \in Linking /\ pc'[q] \notin Linking \cup Unlinking
  BY <1>0 DEF Active, Finished, Linking, Unlinking
<1>c. \A r \in index : r # q /\ Hash(r) \notin tangled => Hash(r) # Hash(q)
  BY <1>0, <1>b DEF HashHeld
<1>2. HashHeld'
  BY <1>0, <1>b DEF HashHeld, Hash
<1>3. InMeta'
  <2> SUFFICES ASSUME NEW r \in index, conn[ConnOf[r]] \in {"open", "broken"}, Hash(r) \notin tangled
               PROVE  r \in meta' \/ pc'[r] \in Linking
    BY <1>0 DEF InMeta, Hash
  <2>1. CASE r = q
    BY <1>a, <2>1
  <2>2. CASE r # q
    BY <1>0, <1>a, <1>c, <2>2 DEF InMeta, TypeOK
  <2> QED BY <2>1, <2>2
<1>4. AheadOfRange' /\ CleanupRemovesSettled'
  <2>1. conn[ConnOf[q]] \in {"ranging", "unbinding", "gone"} => q \in inflight[ConnOf[q]]
    BY <1>0, <1>b DEF Begun
  <2> QED BY <1>0, <1>a, <1>c, <2>1 DEF AheadOfRange, CleanupRemovesSettled, Hash
<1>5. Begun'
  BY <1>0, <1>b, BegunStep
<1>6. StaysLinked'
  <2>1. pc[q] \in Serving /\ pc'[q] \notin Afterwards
    BY <1>0 DEF Serving, Early, Afterwards
  <2> QED BY <1>0, <1>b, <2>1, StaysStep
<1> QED BY <1>2, <1>3, <1>4, <1>5, <1>6

(* unlinkSubscription, first half: nothing is left under the hash.         *)
LEMMA RemoveTidy ==
    ASSUME CleanupInv, NEW q \in Handlers, UnlinkRemove(q)
    PROVE  Tidy'
<1> USE DEF CleanupInv, Tidy, connVars
<1>0. /\ UNCHANGED <<connVars, meta>> /\ pc[q] = "close" /\ pc'[q] \in {"closeBits", "reply", "done"}
      /\ index' = Without(index, Hash(q)) /\ \A g \in Handlers : g # q => pc'[g] = pc[g]
      /\ tangled \subseteq tangled'
  BY DEF UnlinkRemove, TypeOK, MarkOverlap
<1>a. \A r \in index' : r \in index /\ Hash(r) # Hash(q)
  BY <1>0 DEF Without
<1>d. \A r \in index : Hash(r) # Hash(q) => r \in index'
  BY <1>0 DEF Without
<1>b. Active(q) /\ pc'[q] \notin Serving \cup Linking \cup Afterwards /\ pc'[q] # "idle"
  BY <1>0 DEF Active, Finished, Serving, Early, Afterwards, Linking
<1>2. HashHeld'
  <2> SUFFICES ASSUME NEW h \in Handlers, NEW r \in index', Hash(r) = Hash(h), Hash(r) \notin tangled',
                      pc'[h] \in Linking \cup Unlinking
               PROVE  r = h
    BY DEF HashHeld, Hash
  <2>1. h # q /\ r \in index /\ Hash(r) \notin tangled
    BY <1>0, <1>a
  <2> QED BY <1>0, <2>1 DEF HashHeld
<1>3. InMeta'
  <2> SUFFICES ASSUME NEW r \in index', conn[ConnOf[r]] \in {"open", "broken"}, Hash(r) \notin tangled'
               PROVE  r \in meta \/ pc'[r] \in Linking
    BY <1>0 DEF InMeta, Hash
  <2>1. r # q /\ r \in index /\ r \in Handlers /\ Hash(r) \notin tangled
    BY <1>0, <1>a DEF TypeOK
  <2> QED BY <1>0, <2>1 DEF InMeta
<1>4. AheadOfRange' /\ CleanupRemovesSettled'
  BY <1>0, <1>a DEF AheadOfRange, CleanupRemovesSettled, Hash
<1>5. Begun'
  BY <1>0, <1>b, BegunStep
<1>6. StaysLinked'
  BY <1>0, <1>b, <1>d, StaysStep
<1> QED BY <1>2, <1>3, <1>4, <1>5, <1>6

(* unlinkSubscription, second half: what it deletes from the metadata is   *)
(* not indexed.                                                            *)
LEMMA DeleteTidy ==
    ASSUME CleanupInv, NEW q \in Handlers, UnlinkDelete(q)
    PROVE  Tidy'
<1> USE DEF CleanupInv, Tidy, connVars
<1>0. /\ UNCHANGED <<connVars, index, tangled>> /\ pc[q] = "closeMeta" /\ pc'[q] \in {"reply", "done"}
      /\ meta' = Without(meta, Hash(q)) /\ \A g \in Handlers : g # q => pc'[g] = pc[g]
  BY DEF UnlinkDelete, TypeOK, indexVars
<1>b. /\ Active(q) /\ pc'[q] \notin Serving \cup Linking \cup Unlinking \cup Afterwards /\ pc'[q] # "idle"
      /\ pc[q] \in Unlinking /\ pc[q] \notin Serving \cup {"close"}
  BY <1>0 DEF Active, Finished, Serving, Early, Afterwards, Linking, Unlinking
<1>a. q \notin index /\ \A r \in index : Hash(r) \notin tangled => Hash(r) # Hash(q)
  BY <1>b DEF HashHeld, Placed
<1>d. \A r \in meta : Hash(r) # Hash(q) => r \in meta'
  BY <1>0 DEF Without
<1>2. HashHeld'
  BY <1>0, <1>b DEF HashHeld, Hash
<1>3. InMeta'
  <2> SUFFICES ASSUME NEW r \in index, conn[ConnOf[r]] \in {"open", "broken"}, Hash(r) \notin tangled
               PROVE  r \in meta' \/ pc'[r] \in Linking
    BY <1>0 DEF InMeta, Hash
  <2>1. r # q /\ r \in Handlers
    BY <1>a DEF TypeOK
  <2> QED BY <1>0, <1>a, <1>d, <2>1 DEF InMeta
<1>4. AheadOfRange' /\ CleanupRemovesSettled'
  BY <1>0, <1>a, <1>d DEF AheadOfRange, CleanupRemovesSettled, Hash
<1>5. Begun'
  BY <1>0, <1>b, BegunStep
<1>6. StaysLinked'
  BY <1>0, <1>b, StaysStep
<1> QED BY <1>2, <1>3, <1>4, <1>5, <1>6

(* The steps of a REQ.                                                     *)
LEMMA ReqTidy ==
    ASSUME CleanupInv, NEW r \in Reqs, ReqStep(r)
    PROVE  Tidy'
<1> USE DEF CleanupInv
<1>0. r \in Handlers /\ \A g \in Handlers : g # r => pc'[g] = pc[g]
  BY HandlerFrame
<1>1. ASSUME ReqReject(r) \/ ReqAuthFail(r) \/ ReqPage(r) \/ ReqStream(r) \/ ReqStreamFail(r) \/ ReqEose(r)
               \/ ReqWriteFail(r) \/ ReqSetLive(r) \/ ReqGetPending(r) \/ ReqFlush(r) \/ ReqClosed(r)
      PROVE  Tidy'
  <2> USE DEF ReqReject, ReqAuthFail, ReqPage, ReqStream, ReqStreamFail, ReqEose, ReqWriteFail,
         ReqSetLive, ReqGetPending, ReqFlush, ReqClosed
  <2>1. UNCHANGED <<connVars, index, meta, tangled>>
    BY <1>1 DEF indexVars
  <2>2. Active(r) /\ pc[r] \notin Linking
    BY <1>1 DEF Active, Finished, Linking
  <2>3. pc'[r] \notin Linking \cup Unlinking /\ pc'[r] # "idle"
    BY <1>1, <1>0 DEF TypeOK, Linking, Unlinking
  <2>4. pc'[r] \in Afterwards => r \notin OneShot
    BY <1>1, <1>0 DEF TypeOK, Tidy, StaysLinked, Afterwards
  <2>5. pc'[r] \in Serving => pc[r] \in Serving
    BY <1>1, <1>0 DEF TypeOK, Serving, Early, Afterwards
  <2> HIDE DEF ReqReject, ReqAuthFail, ReqPage, ReqStream, ReqStreamFail, ReqEose, ReqWriteFail,
         ReqSetLive, ReqGetPending, ReqFlush, ReqClosed
  <2> QED BY <1>0, <2>1, <2>2, <2>3, <2>4, <2>5, QuietStep
<1>2. ASSUME ReqIndex(r), r \in OneShot
      PROVE  Tidy'
  <2>1. UNCHANGED <<connVars, index, meta, tangled>> /\ pc[r] = "recv" /\ pc'[r] = "stream"
    BY <1>2, <1>0, IndexOneShot DEF TypeOK, indexVars
  <2>2. Active(r) /\ pc[r] \notin Linking /\ pc'[r] \notin Afterwards \cup Linking \cup Unlinking
        /\ pc'[r] # "idle"
    BY <2>1 DEF Active, Finished, Afterwards, Linking, Unlinking
  <2> QED BY <1>0, <1>2, <2>1, <2>2, QuietStep
<1>3. ASSUME ReqUnbind(r) \/ ReqBind(r)
      PROVE  Tidy'
  <2>1. /\ UNCHANGED <<connVars, index, meta, tangled>>
        /\ pc[r] \in {"unbind", "bind"} /\ pc'[r] \in {"bind", "meta"}
    BY <1>3, <1>0 DEF ReqUnbind, ReqBind, TypeOK
  <2>2. Active(r) /\ pc[r] \in Linking /\ pc'[r] \in Linking /\ pc'[r] # "idle" /\ pc[r] \in Serving
    BY <2>1 DEF Active, Finished, Linking, Serving, Early
  <2>3. r \notin OneShot
    BY <2>2 DEF Tidy, StaysLinked
  <2> QED BY <1>0, <2>1, <2>2, <2>3, QuietStep
<1> QED BY <1>1, <1>2, <1>3, IndexTidy, MetaTidy DEF ReqStep

(* A CLOSE, or the end of a REQ that was refused.                          *)
LEMMA CloseTidy ==
    ASSUME CleanupInv, NEW h \in Handlers, CloseStep(h)
    PROVE  Tidy'
<1> USE DEF CleanupInv
<1>0. \A g \in Handlers : g # h => pc'[g] = pc[g]
  BY HandlerFrame
<1>1. ASSUME UnlinkUnbind(h)
      PROVE  Tidy'
  <2>1. UNCHANGED <<connVars, index, meta, tangled>> /\ pc[h] = "closeBits" /\ pc'[h] = "closeMeta"
    BY <1>1, <1>0 DEF UnlinkUnbind, TypeOK
  <2>2. /\ Active(h) /\ pc[h] \notin Linking /\ pc[h] \in Unlinking /\ pc'[h] # "idle"
        /\ pc'[h] \notin Serving \cup Afterwards \cup Linking
    BY <2>1 DEF Active, Finished, Linking, Unlinking, Serving, Early, Afterwards
  <2> QED BY <1>0, <2>1, <2>2, QuietStep
<1> QED BY <1>1, RemoveTidy, DeleteTidy DEF CloseStep

(* The steps of the Read loop.                                             *)
LEMMA ReadTidy ==
    ASSUME CleanupInv, NEW c \in Conns, Break(c) \/ ReadEnd(c) \/ ReadStep(c)
    PROVE  Tidy'
<1> USE DEF CleanupInv, Tidy
<1>0. /\ UNCHANGED <<pc, tangled>> /\ index' \subseteq index /\ index \subseteq Reqs
      /\ \A r \in Reqs : ConnOf[r] \in Conns /\ IdOf[r] \in Ids /\ r \in Handlers
  BY ReadFrame, ConstantsAssumption DEF TypeOK, Handlers
<1>2. HashHeld'
  BY <1>0 DEF HashHeld, Hash
<1>3. ASSUME Break(c)
      PROVE  Tidy'
  <2>1. /\ UNCHANGED <<snap, visited, inflight, index, meta>> /\ conn[c] = "open" /\ conn'[c] = "broken"
        /\ \A d \in Conns : d # c => conn'[d] = conn[d]
    BY <1>3 DEF Break, TypeOK, indexVars
  <2>2. \A d \in Conns : /\ conn'[d] \in {"open", "broken"} <=> conn[d] \in {"open", "broken"}
                         /\ conn'[d] \in {"ranging", "unbinding", "gone"} => conn'[d] = conn[d]
    BY <2>1
  <2>3. InMeta' /\ AheadOfRange' /\ CleanupRemovesSettled'
    BY <1>0, <2>1, <2>2 DEF InMeta, AheadOfRange, CleanupRemovesSettled, Hash
  <2>4. Begun'
    BY <1>0, <2>1, <2>2 DEF Begun, Active
  <2>5. StaysLinked'
    BY <1>0, <2>1, <2>2 DEF StaysLinked, Hash
  <2> QED BY <1>2, <2>3, <2>4, <2>5
<1>4. ASSUME ReadEnd(c)
      PROVE  Tidy'
  <2>1. /\ UNCHANGED <<visited, index, meta>> /\ conn[c] \in {"open", "broken"} /\ conn'[c] = "ranging"
        /\ snap'[c] = {IdOf[r] : r \in {q \in meta : ConnOf[q] = c}}
        /\ inflight'[c] = {h \in Handlers : ConnOf[h] = c /\ Active(h)}
        /\ \A d \in Conns : d # c => conn'[d] = conn[d] /\ snap'[d] = snap[d] /\ inflight'[d] = inflight[d]
    BY <1>4 DEF ReadEnd, TypeOK, indexVars
  <2>2. InMeta'
    BY <1>0, <2>1 DEF InMeta, Hash
  <2>3. AheadOfRange'
    <3> SUFFICES ASSUME NEW r \in index, conn'[ConnOf[r]] \in {"ranging", "unbinding"}, Hash(r) \notin tangled
                 PROVE  \/ r \in inflight'[ConnOf[r]]
                        \/ r \in meta /\ IdOf[r] \in snap'[ConnOf[r]] /\ IdOf[r] \notin visited[ConnOf[r]]
      BY <1>0, <2>1 DEF AheadOfRange, Hash
    <3>1. CASE ConnOf[r] = c
      <4>1. r \in meta \/ pc[r] \in Linking
        BY <2>1, <3>1 DEF InMeta
      <4>2. visited[c] = {}
        BY <2>1 DEF Begun
      <4>3. CASE r \in meta
        BY <2>1, <3>1, <4>2, <4>3
      <4>4. CASE pc[r] \in Linking
        <5>1. Active(r) /\ r \in Handlers
          BY <1>0, <4>4 DEF Active, Finished, Linking
        <5> QED BY <2>1, <3>1, <5>1
      <4> QED BY <4>1, <4>3, <4>4
    <3>2. CASE ConnOf[r] # c
      BY <1>0, <2>1, <3>2 DEF AheadOfRange
    <3> QED BY <3>1, <3>2
  <2>4. CleanupRemovesSettled'
    BY <1>0, <2>1 DEF CleanupRemovesSettled, Hash
  <2>5. Begun'
    <3> SUFFICES ASSUME NEW d \in Conns
                 PROVE  /\ conn'[d] \in {"open", "broken"} => visited'[d] = {}
                        /\ conn'[d] \in {"ranging", "unbinding", "gone"} =>
                              \A h \in Handlers : ConnOf[h] = d /\ Active(h)' => h \in inflight'[d]
      BY DEF Begun
    <3>1. \A h \in Handlers : Active(h)' <=> Active(h)
      BY <1>0 DEF Active
    <3>2. CASE d = c
      BY <2>1, <3>1, <3>2
    <3>3. CASE d # c
      BY <2>1, <3>1, <3>3 DEF Begun
    <3> QED BY <3>2, <3>3
  <2>6. StaysLinked'
    <3>1. \A d \in Conns : conn'[d] \in {"open", "broken"} => conn[d] \in {"open", "broken"}
      BY <2>1
    <3> QED BY <1>0, <2>1, <3>1 DEF StaysLinked, Hash
  <2> QED BY <1>2, <2>2, <2>3, <2>4, <2>5, <2>6
<1>5. ASSUME RangeRemove(c)
      PROVE  Tidy'
  <2>1. PICK q \in meta : /\ ConnOf[q] = c /\ index' = Without(index, Hash(q))
                          /\ visited' = [visited EXCEPT ![c] = @ \cup {IdOf[q]}]
    BY <1>5 DEF RangeRemove
  <2>2. /\ UNCHANGED <<snap, inflight, meta>> /\ conn[c] = "ranging" /\ q \in Reqs
        /\ conn'[c] \in {"ranging", "unbinding"} /\ \A d \in Conns : d # c => conn'[d] = conn[d]
        /\ visited'[c] = visited[c] \cup {IdOf[q]} /\ \A d \in Conns : d # c => visited'[d] = visited[d]
    BY <1>5, <2>1 DEF RangeRemove, TypeOK
  <2>3. \A r \in index' : r \in index /\ (ConnOf[r] = c => IdOf[r] # IdOf[q])
    BY <2>1 DEF Without, Hash
  <2>4. \A r \in index : ConnOf[r] # c => r \in index'
    BY <2>1 DEF Without, Hash
  <2>5. InMeta'
    BY <1>0, <2>2 DEF InMeta, Hash
  <2>6. AheadOfRange'
    <3> SUFFICES ASSUME NEW r \in index', conn'[ConnOf[r]] \in {"ranging", "unbinding"}, Hash(r) \notin tangled
                 PROVE  \/ r \in inflight[ConnOf[r]]
                        \/ r \in meta /\ IdOf[r] \in snap[ConnOf[r]] /\ IdOf[r] \notin visited'[ConnOf[r]]
      BY <1>0, <2>2 DEF AheadOfRange, Hash
    <3>1. CASE ConnOf[r] = c
      BY <2>2, <2>3, <3>1 DEF AheadOfRange
    <3>2. CASE ConnOf[r] # c
      BY <1>0, <2>2, <2>3, <3>2 DEF AheadOfRange
    <3> QED BY <3>1, <3>2
  <2>7. CleanupRemovesSettled'
    BY <1>0, <2>2 DEF CleanupRemovesSettled, Hash
  <2>8. Begun'
    BY <1>0, <2>2 DEF Begun, Active
  <2>9. StaysLinked'
    <3>1. ASSUME NEW r \in Reqs \ OneShot, pc[r] \in Serving, conn'[ConnOf[r]] \in {"open", "broken"},
                 \A g \in Handlers \ {r} : Hash(g) = Hash(r) => pc[g] = "idle"
          PROVE  r \in index'
      <4>1. ConnOf[r] # c /\ conn'[ConnOf[r]] = conn[ConnOf[r]]
        BY <1>0, <2>2, <3>1
      <4>2. r \in index
        BY <3>1, <4>1 DEF StaysLinked
      <4> QED BY <2>4, <4>1, <4>2
    <3> QED BY <1>0, <3>1 DEF StaysLinked, Hash
  <2> QED BY <1>2, <2>5, <2>6, <2>7, <2>8, <2>9
<1>6. ASSUME RangeUnbind(c)
      PROVE  Tidy'
  <2>1. /\ UNCHANGED <<snap, visited, inflight, index, meta>>
        /\ conn[c] = "unbinding" /\ conn'[c] = "ranging" /\ \A d \in Conns : d # c => conn'[d] = conn[d]
    BY <1>6 DEF RangeUnbind, TypeOK
  <2>2. \A d \in Conns : /\ conn'[d] \in {"open", "broken"} <=> conn[d] \in {"open", "broken"}
                         /\ conn'[d] \in {"ranging", "unbinding"} <=> conn[d] \in {"ranging", "unbinding"}
                         /\ conn'[d] = "gone" <=> conn[d] = "gone"
    BY <2>1
  <2>3. InMeta' /\ AheadOfRange' /\ CleanupRemovesSettled'
    BY <1>0, <2>1, <2>2 DEF InMeta, AheadOfRange, CleanupRemovesSettled, Hash
  <2>4. Begun'
    BY <1>0, <2>1, <2>2 DEF Begun, Active
  <2>5. StaysLinked'
    BY <1>0, <2>1, <2>2 DEF StaysLinked, Hash
  <2> QED BY <1>2, <2>3, <2>4, <2>5
<1>7. ASSUME RangeClear(c)
      PROVE  Tidy'
  <2>1. /\ UNCHANGED <<snap, visited, inflight, index>> /\ conn[c] = "ranging" /\ conn'[c] = "gone"
        /\ \A r \in meta : ConnOf[r] = c /\ IdOf[r] \in snap[c] => IdOf[r] \in visited[c]
        /\ meta' = {r \in meta : ConnOf[r] # c}
        /\ \A d \in Conns : d # c => conn'[d] = conn[d]
    BY <1>7 DEF RangeClear, TypeOK, indexVars
  <2>2. InMeta' /\ AheadOfRange'
    BY <1>0, <2>1 DEF InMeta, AheadOfRange, Hash
  <2>3. CleanupRemovesSettled'
    <3> SUFFICES ASSUME NEW d \in Conns, conn'[d] = "gone", NEW r \in index, ConnOf[r] = d,
                        Hash(r) \notin tangled
                 PROVE  r \in inflight[d]
      BY <1>0, <2>1 DEF CleanupRemovesSettled, Hash
    <3>1. CASE d = c
      BY <2>1, <3>1 DEF AheadOfRange
    <3>2. CASE d # c
      BY <2>1, <3>2 DEF CleanupRemovesSettled
    <3> QED BY <3>1, <3>2
  <2>4. Begun'
    BY <1>0, <2>1 DEF Begun, Active
  <2>5. StaysLinked'
    <3>1. \A d \in Conns : conn'[d] \in {"open", "broken"} => conn[d] \in {"open", "broken"}
      BY <2>1
    <3> QED BY <1>0, <2>1, <3>1 DEF StaysLinked, Hash
  <2> QED BY <1>2, <2>2, <2>3, <2>4, <2>5
<1> QED BY <1>3, <1>4, <1>5, <1>6, <1>7 DEF ReadStep

(* unlinkSubscription takes from the index what belongs to the connection  *)
(* that ends, apart from what is still being linked and what two handlers  *)
(* linked or unlinked at the same time, and nothing a client still uses.   *)
THEOREM CleanupIsExact == Spec => []CleanupExact
<1>1. Init => CleanupInv
  <2>1. Init => Tidy
    BY DEF Init, Tidy, HashHeld, InMeta, AheadOfRange, Begun, StaysLinked, CleanupRemovesSettled,
           Active, Afterwards, Serving, Linking, Early
  <2> QED BY <2>1, InitInv DEF CleanupInv, IInv
<1>2. CleanupInv /\ [Next]_vars => CleanupInv'
  <2> SUFFICES ASSUME CleanupInv, [Next]_vars PROVE CleanupInv'
    OBVIOUS
  <2>1. TypeOK' /\ OnePerHash' /\ Placed'
    BY TypeStep, LinkStep DEF CleanupInv
  <2>2. ASSUME UNCHANGED <<connVars, pc, index, meta, tangled>>
        PROVE  Tidy'
    BY <2>2 DEF CleanupInv, connVars, Tidy, HashHeld, InMeta, AheadOfRange, Begun, StaysLinked,
       CleanupRemovesSettled, Active, Hash
  <2>3. ASSUME NEW f \in Events, Accept(f) \/ AcceptFail(f) \/ AcceptUndo(f) \/ CastStep(f)
        PROVE  Tidy'
    <3>1. UNCHANGED <<connVars, pc, index, meta, tangled>>
      BY <2>3 DEF Accept, AcceptFail, AcceptUndo, CastStep, CastCollect, CastSkip, CastVisit,
         CastIsLive, CastWrite, CastWriteFail, CastPush, CastEnd, ctlVars, indexVars
    <3> QED BY <2>2, <3>1
  <2>4. ASSUME Replicate \/ UNCHANGED vars
        PROVE  Tidy'
    <3>1. UNCHANGED <<connVars, pc, index, meta, tangled>>
      BY <2>4 DEF Replicate, vars, ctlVars, indexVars
    <3> QED BY <2>2, <3>1
  <2>5. ASSUME NEW h \in Handlers, Receive(h) \/ CloseStep(h)
        PROVE  Tidy'
    BY <2>5, ReceiveTidy, CloseTidy
  <2>6. ASSUME NEW r \in Reqs, ReqStep(r)
        PROVE  Tidy'
    BY <2>6, ReqTidy
  <2>7. ASSUME NEW c \in Conns, Break(c) \/ ReadEnd(c) \/ ReadStep(c)
        PROVE  Tidy'
    BY <2>7, ReadTidy
  <2>8. Tidy'
    BY <2>3, <2>4, <2>5, <2>6, <2>7 DEF Next
  <2> QED BY <2>1, <2>8 DEF CleanupInv
<1>3. CleanupInv => CleanupExact
  BY DEF CleanupInv, Tidy, CleanupExact, StaysLinked, LiveStaysLinked, Serving, Afterwards
<1> QED BY <1>1, <1>2, <1>3, PTL DEF Spec
=============================================================================
