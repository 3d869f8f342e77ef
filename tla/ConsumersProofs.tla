-------------------------- MODULE ConsumersProofs ---------------------------
(***************************************************************************)
(* Proofs about the file storage, for any files, number of requests at a   *)
(* time, announcements, slots, requests and restarts, and about the        *)
(* senders, for any messages, size of the queue and number of repetitions. *)
(***************************************************************************)
EXTENDS Consumers, FiniteSetTheorems, TLAPS

-----------------------------------------------------------------------------
(* The inductive invariant.                                                *)

PCs == {"idle", "saved", "build", "save", "put", "answer", "record", "download", "queue"}
Item == [bag : Bags \ {NoBag}, ver : Nat, user : BOOLEAN]
Request == [pc : PCs, file : Files \cup {"none"}, base : Bags, had : SUBSET Files, bag : Bags,
            ver : Nat, del : BOOLEAN, take : BOOLEAN, since : Nat, tus : BOOLEAN]

\* The types of all variables, and finite torrents and downloads.
Typed ==
    /\ newFiles \in SUBSET Files /\ disk \in SUBSET Files
    /\ ub \in [bag : Bags, ver : Nat]
    /\ torrents \in [DOMAIN torrents -> States]
    /\ DOMAIN torrents \subseteq Bags \ {NoBag} /\ IsFiniteSet(DOMAIN torrents)
    /\ queue \in Seq(Item) /\ loop \in Item \cup {NoItem}
    /\ active \in SUBSET (Bags \ {NoBag}) /\ IsFiniteSet(active)
    /\ op \in [Threads -> Request]
    /\ requests \in Nat

\* The loop that has taken an item has a slot for it.
SlotKept ==
    /\ Cardinality(active) <= Slots
    /\ loop # NoItem => Cardinality(active) < Slots

\* A bag that was made here is never downloaded, so that nothing but the
\* deletion of its user takes it away.
Kept ==
    /\ \A b \in DOMAIN torrents : Complete(b) => torrents[b].hdr
    /\ \A b \in DOMAIN torrents : b.by = Here => torrents[b].st \in {"done", "stopped"}
    /\ loop.bag.by # Here
    /\ \A t \in Threads :
          /\ op[t].pc \in {"record", "download", "queue"} => op[t].bag # NoBag /\ op[t].bag.by # Here
          /\ op[t].pc \in {"save", "put", "answer"} => op[t].bag.by = Here
          /\ op[t].pc \in {"put", "answer"} => Stored(op[t].bag) \/ op[t].bag \in dropped
    /\ \A u \in urls : u.bag.by = Here /\ (Stored(u.bag) \/ u.bag \in dropped)

InQueue(q, b) == \E i \in 1..Len(q) : q[i].bag = b

\* Someone will see to torrent b, or it stalled.
Awaited(b) ==
    \/ InQueue(queue, b) \/ b \in stalled \/ loop.bag = b
    \/ \E t \in Threads : op[t].pc = "queue" /\ op[t].bag = b

\* A torrent that has not begun is awaited.
Fetched == \A b \in DOMAIN torrents : torrents[b].st = "new" => Awaited(b)

\* A request knows no future ones.
Counted == \A t \in Threads : op[t].since <= requests /\ (op[t].pc # "idle" => requests >= 1)

\* The upload t began from a settled state and no request has come since.
Alone(t) == op[t].pc \in {"build", "save", "put"} /\ ~op[t].del /\ op[t].since = requests

\* Its bag has the files of the one it is based on, and of the new ones; when
\* it will not be taken, the user has another bag by now and the base does not
\* come back.
Adding(t) ==
    LET o == op[t] IN
    /\ \A u \in Threads \ {t} : op[u] = Idle
    /\ o.base = NoBag \/ Complete(o.base)
    /\ o.had = o.base.files
    /\ o.base.files \cup newFiles \cup {o.file} \subseteq disk
    /\ o.pc # "build" => o.base.files \cup newFiles \cup {o.file} \subseteq o.bag.files
    /\ o.base # NoBag /\ loop.bag = o.base =>
          ub.bag = o.base \/ (Stored(ub.bag) /\ torrents[ub.bag].hdr)
    /\ o.pc = "put" /\ ~o.take =>
          /\ ub.bag # o.base /\ Stored(ub.bag)
          /\ o.base # NoBag /\ loop.bag = o.base => Version(torrents) > Cardinality(o.base.files)

StorageInv == Typed /\ SlotKept /\ Kept /\ Fetched /\ Counted
AddInv == \A t \in Threads : Alone(t) => Adding(t)

-----------------------------------------------------------------------------
(* Operators.                                                              *)

\* The listing of a finite set has all its elements (SetToSeq).
LEMMA Listing ==
    ASSUME NEW S, IsFiniteSet(S)
    PROVE  /\ SetToSeq(S) \in [1..Cardinality(S) -> S] /\ Cardinality(S) \in Nat
           /\ \A x \in S : \E i \in 1..Cardinality(S) : SetToSeq(S)[i] = x
<1> DEFINE n == Cardinality(S)
           P(f) == f \in [1..n -> S] /\ IsInjective(f)
<1>1. n \in Nat /\ ExistsBijection(1..n, S)
  BY FS_CardinalityType
<1>2. \E f \in [1..n -> S] : IsInjective(f)
  BY <1>1 DEF ExistsBijection, Bijection, Injection
<1>3. SetToSeq(S) \in [1..n -> S] /\ IsInjective(SetToSeq(S))
  BY <1>2 DEF SetToSeq
<1>4. SetToSeq(S) \in Injection(1..n, S)
  BY <1>3 DEF Injection
<1>5. IsFiniteSet(1..n) /\ Cardinality(1..n) = n
  BY <1>1, FS_Interval
<1>6. SetToSeq(S) \in Surjection(1..n, S)
  BY <1>4, <1>5, FS_Injection
<1> QED BY <1>1, <1>3, <1>6 DEF Surjection

\* The bags there are.
LEMMA BagFacts ==
    /\ \A b \in Bags : b.files \subseteq Files
    /\ NoBag \in Bags /\ NoBag.by = "none" /\ NoBag.files = {} /\ Here = "here"
    /\ \A S \in SUBSET Files : [files |-> S, by |-> Here] \in Bags \ {NoBag}
    /\ \A a \in Announced : a.bag \in Bags \ {NoBag} /\ a.bag.by # Here /\ a.ver \in Nat
<1>1. NoBag \in Bags /\ NoBag.by = "none" /\ NoBag.files = {} /\ Here = "here"
  BY DEF Bags, NoBag, Here
<1>2. ASSUME NEW S \in SUBSET Files
      PROVE  /\ [files |-> S, by |-> Here] \in Bags /\ [files |-> S, by |-> Here].by = Here
             /\ [files |-> S, by |-> Here].files = S
  BY DEF Bags
<1>3. ASSUME NEW a \in Announced
      PROVE  a.bag \in Bags /\ a.bag.by \notin {Here, "none"} /\ a.ver \in Nat /\ a.bag.files \subseteq Files
  BY AnnouncedAssumption DEF Bags
<1>4. ASSUME NEW b \in Bags PROVE b.files \subseteq Files
  <2>1. CASE b = NoBag
    BY <1>1, <2>1
  <2>2. CASE \E S \in SUBSET Files : b = [files |-> S, by |-> Here]
    BY <1>2, <2>2
  <2>3. CASE \E a \in Announced : b = a.bag
    BY <1>3, <2>3
  <2> QED BY <1>4, <2>1, <2>2, <2>3 DEF Bags
<1>5. \A S \in SUBSET Files : [files |-> S, by |-> Here] # NoBag
  BY <1>1, <1>2
<1> QED BY <1>1, <1>2, <1>3, <1>4, <1>5

\* A torrent is taken from the store.
LEMMA WithoutFacts ==
    ASSUME NEW tr, tr \in [DOMAIN tr -> States], NEW b
    PROVE  /\ Without(tr, b) \in [DOMAIN tr \ {b} -> States]
           /\ DOMAIN Without(tr, b) = DOMAIN tr \ {b}
           /\ \A x \in DOMAIN tr : x # b => Without(tr, b)[x] = tr[x]
BY DEF Without

\* A torrent changes its state and keeps its header.
LEMMA StateFacts ==
    ASSUME NEW tr, tr \in [DOMAIN tr -> States], NEW b \in DOMAIN tr,
           NEW s \in {"new", "fetch", "resume", "done", "whole", "stopped"},
           NEW tr2, tr2 = [tr EXCEPT ![b].st = s]
    PROVE  /\ tr2 \in [DOMAIN tr -> States] /\ DOMAIN tr2 = DOMAIN tr
           /\ tr2[b].st = s /\ tr2[b].hdr = tr[b].hdr
           /\ \A x \in DOMAIN tr : x # b => tr2[x] = tr[x]
<1>1. tr[b] \in States /\ tr[b] = [st |-> tr[b].st, hdr |-> tr[b].hdr]
  BY DEF States
<1>2. PICK g : g = [tr[b] EXCEPT !.st = s]
  OBVIOUS
<1>3. g \in States /\ g.st = s /\ g.hdr = tr[b].hdr
  BY <1>1, <1>2 DEF States
<1>4. tr2 = [tr EXCEPT ![b] = g]
  BY <1>2
<1> QED BY <1>3, <1>4

\* The torrent of the user that newBagIDPromoted stops: removed, stopped, or
\* left as it is.
LEMMA SupersededFacts ==
    ASSUME Typed, NEW old \in DOMAIN torrents, NEW tr2, tr2 = Superseded(old)
    PROVE  /\ tr2 \in [DOMAIN tr2 -> States] /\ DOMAIN tr2 \subseteq DOMAIN torrents
           /\ \A x \in DOMAIN torrents : x # old => x \in DOMAIN tr2 /\ tr2[x] = torrents[x]
           /\ old \in DOMAIN tr2 => /\ tr2[old].hdr = torrents[old].hdr
                                    /\ \/ tr2[old].st = torrents[old].st
                                       \/ torrents[old].st = "done" /\ tr2[old].st = "stopped"
           /\ torrents[old].st \in {"done", "stopped"} => old \in DOMAIN tr2
<1>0. torrents \in [DOMAIN torrents -> States]
  BY DEF Typed
<1>1. CASE IsDownloadAll(old)
  <2>1. tr2 = Without(torrents, old)
    BY <1>1 DEF Superseded
  <2>2. torrents[old].st \notin {"done", "stopped"}
    BY <1>1 DEF IsDownloadAll, Downloading
  <2>3. tr2 \in [DOMAIN tr2 -> States] /\ DOMAIN tr2 = DOMAIN torrents \ {old}
        /\ \A x \in DOMAIN torrents : x # old => tr2[x] = torrents[x]
    BY <1>0, <2>1, WithoutFacts
  <2> QED BY <2>2, <2>3
<1>2. CASE ~IsDownloadAll(old)
  <2>1. PICK s : s = IF torrents[old].st = "done" THEN "stopped" ELSE torrents[old].st
    OBVIOUS
  <2>2. s \in {"new", "fetch", "resume", "done", "whole", "stopped"}
    BY <1>0, <2>1 DEF States
  <2>3. tr2 = [torrents EXCEPT ![old].st = s]
    BY <1>2, <2>1 DEF Superseded
  <2>4. /\ tr2 \in [DOMAIN torrents -> States] /\ DOMAIN tr2 = DOMAIN torrents
        /\ tr2[old].st = s /\ tr2[old].hdr = torrents[old].hdr
        /\ \A x \in DOMAIN torrents : x # old => tr2[x] = torrents[x]
    BY <1>0, <2>2, <2>3, StateFacts
  <2> QED BY <2>1, <2>4
<1> QED BY <1>1, <1>2

-----------------------------------------------------------------------------
(* The steps.  What a request does to the record of its thread.            *)

\* The thread t goes on with the request r, the others as they were.
Becomes(t, r) ==
    /\ op' \in [Threads -> Request] /\ op'[t] = r
    /\ \A u \in Threads : u # t => op'[u] = op[u]

LEMMA Goes ==
    ASSUME Typed, NEW t \in Threads, NEW r \in Request, op' = [op EXCEPT ![t] = r]
    PROVE  Becomes(t, r)
BY DEF Typed, Becomes

LEMMA Stays ==
    ASSUME Typed, NEW t \in Threads, op' = op
    PROVE  Becomes(t, op[t])
BY DEF Typed, Becomes

LEMMA IdleFacts == Idle \in Request /\ Idle.pc = "idle" /\ Idle.since = 0 /\ ~Idle.del
<1>1. NoBag \in Bags
  BY BagFacts
<1> QED BY <1>1 DEF Idle, Request, PCs

\* The bag of the user, and the files its header names.
LEMMA UserBag ==
    ASSUME Typed
    PROVE  /\ bagByUser \in Bags
           /\ bagByUser # NoBag => bagByUser = ub.bag /\ bagByUser \in DOMAIN torrents
           /\ bagByUser = NoBag <=> ub.bag \notin DOMAIN torrents
           /\ HeaderFiles(bagByUser) \in SUBSET Files
<1>1. ub.bag \in Bags /\ DOMAIN torrents \subseteq Bags \ {NoBag} /\ NoBag \notin DOMAIN torrents
  BY DEF Typed
<1>2. bagByUser \in Bags
  BY <1>1, BagFacts DEF bagByUser
<1>3. HeaderFiles(bagByUser) \in SUBSET Files
  BY <1>2, BagFacts DEF HeaderFiles
<1> QED BY <1>1, <1>2, <1>3 DEF bagByUser, Stored

\* The steps of a request on files: the torrents stay as they are.
FileStep(t) ==
    \/ \E f \in Files : \/ SaveFile(t, f) \/ PreFinishResponseCallback(t, f)
                        \/ processEventDeletion(t, f) \/ Delete(t, f)
    \/ Mismatch(t) \/ StartUpload(t) \/ upload(t)

LEMMA FileEffect ==
    ASSUME Typed, Counted, NEW t \in Threads, FileStep(t)
    PROVE  /\ UNCHANGED <<ub, torrents, queue, active, loop, urls, dropped, stalled>>
           /\ newFiles' \in SUBSET Files /\ disk' \in SUBSET Files
           /\ requests' \in {requests, requests + 1}
           /\ op[t].pc # "queue"
           /\ \E r \in Request :
                 /\ Becomes(t, r)
                 /\ r.pc \in {"idle", "saved", "build"} \/ (r.pc = "save" /\ r.bag.by = Here)
                 /\ r.since <= requests' /\ (r.pc # "idle" => requests' >= 1)
                 /\ requests' = requests + 1 => r.pc \in {"idle", "saved"}
<1>0. requests \in Nat /\ op[t] \in Request /\ newFiles \in SUBSET Files /\ disk \in SUBSET Files
  BY DEF Typed
<1>1. ASSUME NEW r \in Request, r.pc = "saved", r.since = 0, op' = [op EXCEPT ![t] = r],
             requests' = requests + 1
      PROVE  \E q \in Request :
                 /\ Becomes(t, q)
                 /\ q.pc \in {"idle", "saved", "build"} \/ (q.pc = "save" /\ q.bag.by = Here)
                 /\ q.since <= requests' /\ (q.pc # "idle" => requests' >= 1)
                 /\ requests' = requests + 1 => q.pc \in {"idle", "saved"}
  <2>1. Becomes(t, r)
    BY <1>1, Goes, ZenonT(60)
  <2> QED BY <1>0, <1>1, <2>1
<1>2. ASSUME op' = op, op[t].pc = "idle"
      PROVE  \E r \in Request :
                 /\ Becomes(t, r)
                 /\ r.pc \in {"idle", "saved", "build"} \/ (r.pc = "save" /\ r.bag.by = Here)
                 /\ r.since <= requests' /\ (r.pc # "idle" => requests' >= 1)
                 /\ requests' = requests + 1 => r.pc \in {"idle", "saved"}
  <2>1. Becomes(t, op[t])
    BY <1>2, Stays
  <2>2. op[t].since <= requests
    BY DEF Counted
  <2>3. requests' \in {requests, requests + 1}
    BY ZenonT(60) DEF FileStep, SaveFile, PreFinishResponseCallback, processEventDeletion, Delete, Begin,
           Mismatch, StartUpload, upload, rest
  <2>4. op[t].since \in Nat
    BY <1>0 DEF Request
  <2> QED BY <1>0, <1>2, <2>1, <2>2, <2>3, <2>4
<1>3. ASSUME op' = [op EXCEPT ![t] = Idle], requests' = requests
      PROVE  \E r \in Request :
                 /\ Becomes(t, r)
                 /\ r.pc \in {"idle", "saved", "build"} \/ (r.pc = "save" /\ r.bag.by = Here)
                 /\ r.since <= requests' /\ (r.pc # "idle" => requests' >= 1)
                 /\ requests' = requests + 1 => r.pc \in {"idle", "saved"}
  <2>1. Becomes(t, Idle)
    BY <1>3, Goes, IdleFacts
  <2> QED BY <1>0, <1>3, <2>1, IdleFacts
<1>4. CASE \E f \in Files : SaveFile(t, f)
  <2>1. PICK f \in Files : SaveFile(t, f)
    BY <1>4
  <2>2. PICK r : r = [Idle EXCEPT !.pc = "saved", !.file = f]
    OBVIOUS
  <2>3. r \in Request /\ r.pc = "saved" /\ r.since = 0
    BY <2>2, BagFacts DEF Idle, Request, PCs
  <2>4. /\ op' = [op EXCEPT ![t] = r]
        /\ requests' = requests + 1 /\ op[t].pc = "idle"
    BY <2>1, <2>2 DEF SaveFile, Begin
  <2>5. /\ UNCHANGED <<ub, torrents, queue, active, loop, urls, dropped, stalled>>
        /\ newFiles' \in SUBSET Files /\ disk' \in SUBSET Files
    BY <1>0, <2>1 DEF SaveFile, Begin
  <2> QED BY <1>1, <1>2, <2>3, <2>4, <2>5
<1>5. CASE \E f \in Files : PreFinishResponseCallback(t, f)
  <2>1. PICK f \in Files : PreFinishResponseCallback(t, f)
    BY <1>5
  <2>2. PICK r : r = [Idle EXCEPT !.pc = "saved", !.file = f, !.tus = TRUE]
    OBVIOUS
  <2>3. r \in Request /\ r.pc = "saved" /\ r.since = 0
    BY <2>2, BagFacts DEF Idle, Request, PCs
  <2>4. /\ op' = op \/ op' = [op EXCEPT ![t] = r]
        /\ requests' = requests + 1 /\ op[t].pc = "idle"
    BY <2>1, <2>2 DEF PreFinishResponseCallback, Begin
  <2>5. /\ UNCHANGED <<ub, torrents, queue, active, loop, urls, dropped, stalled>>
        /\ newFiles' \in SUBSET Files /\ disk' \in SUBSET Files
    BY <1>0, <2>1 DEF PreFinishResponseCallback, Begin
  <2> QED BY <1>1, <1>2, <2>3, <2>4, <2>5
<1>6. CASE \E f \in Files : processEventDeletion(t, f)
  <2>1. PICK f \in Files : processEventDeletion(t, f)
    BY <1>6
  <2>2. PICK r : r = [Idle EXCEPT !.pc = "saved", !.file = f, !.del = TRUE]
    OBVIOUS
  <2>3. r \in Request /\ r.pc = "saved" /\ r.since = 0
    BY <2>2, BagFacts DEF Idle, Request, PCs
  <2>4. /\ op' = op \/ op' = [op EXCEPT ![t] = r]
        /\ requests' = requests + 1 /\ op[t].pc = "idle"
    BY <2>1, <2>2 DEF processEventDeletion, Begin
  <2>5. /\ UNCHANGED <<ub, torrents, queue, active, loop, urls, dropped, stalled>>
        /\ newFiles' \in SUBSET Files /\ disk' \in SUBSET Files
    BY <1>0, <2>1 DEF processEventDeletion, Begin
  <2> QED BY <1>1, <1>2, <2>3, <2>4, <2>5
<1>7. CASE \E f \in Files : Delete(t, f)
  <2>1. PICK f \in Files : Delete(t, f)
    BY <1>7
  <2>2. requests' = requests + 1 /\ op[t].pc = "idle" /\ op' = op
    BY <2>1 DEF Delete, Begin
  <2>3. /\ UNCHANGED <<ub, torrents, queue, active, loop, urls, dropped, stalled>>
        /\ newFiles' \in SUBSET Files /\ disk' \in SUBSET Files
    BY <1>0, <2>1 DEF Delete, Begin
  <2> QED BY <1>2, <2>2, <2>3
<1>8. CASE Mismatch(t)
  <2>1. op' = [op EXCEPT ![t] = Idle] /\ requests' = requests /\ op[t].pc = "saved"
    BY <1>8 DEF Mismatch, rest
  <2>2. /\ UNCHANGED <<ub, torrents, queue, active, loop, urls, dropped, stalled>>
        /\ newFiles' \in SUBSET Files /\ disk' \in SUBSET Files
    BY <1>0, <1>8 DEF Mismatch, rest
  <2> QED BY <1>3, <2>1, <2>2
<1>9. CASE StartUpload(t)
  <2>1. PICK b \in Bags : b = bagByUser
    BY UserBag
  <2>2. PICK n : n = IF Settled(t) THEN requests ELSE 0
    OBVIOUS
  <2>3. PICK h \in SUBSET Files : h = HeaderFiles(b)
    BY <2>1, UserBag
  <2>4. PICK r : r = [op[t] EXCEPT !.pc = "build", !.base = b, !.had = h, !.since = n]
    OBVIOUS
  <2>5. n \in Nat /\ n <= requests
    BY <1>0, <2>2
  <2>6. r \in Request /\ r.pc = "build" /\ r.since = n
    BY <1>0, <2>4, <2>5 DEF Request, PCs
  <2>7. op' = [op EXCEPT ![t] = r] \/ op' = [op EXCEPT ![t] = Idle]
    <3>1. op' = [op EXCEPT ![t] = IF ~op[t].del /\ op[t].file \in HeaderFiles(b) THEN Idle ELSE r]
      BY <1>9, <2>1, <2>2, <2>3, <2>4 DEF StartUpload
    <3> QED BY <3>1
  <2>8. requests' = requests /\ op[t].pc = "saved" /\ requests >= 1
    BY <1>9 DEF StartUpload, rest, Counted
  <2>9. /\ UNCHANGED <<ub, torrents, queue, active, loop, urls, dropped, stalled>>
        /\ newFiles' \in SUBSET Files /\ disk' \in SUBSET Files
    BY <1>0, <1>9 DEF StartUpload, rest
  <2>10. CASE op' = [op EXCEPT ![t] = r]
    <3>1. Becomes(t, r)
      BY <2>6, <2>10, Goes
    <3> QED BY <1>0, <2>5, <2>6, <2>8, <2>9, <3>1
  <2>11. CASE op' = [op EXCEPT ![t] = Idle]
    BY <1>3, <2>8, <2>9, <2>11
  <2> QED BY <2>7, <2>10, <2>11
<1>10. CASE upload(t)
  <2>1. PICK B : B = [files |-> Merged(op[t]), by |-> Here]
    OBVIOUS
  <2>2. B \in Bags /\ B.by = Here
    <3>1. Merged(op[t]) \in SUBSET Files
      BY <1>0 DEF Merged
    <3> QED BY <2>1, <3>1, BagFacts
  <2>3. PICK r : r = [op[t] EXCEPT !.pc = "save", !.bag = B]
    OBVIOUS
  <2>4. r \in Request /\ r.pc = "save" /\ r.bag = B /\ r.since = op[t].since
    BY <1>0, <2>2, <2>3 DEF Request, PCs
  <2>5. op' = [op EXCEPT ![t] = r]
    BY <1>10, <2>1, <2>3 DEF upload
  <2>6. Becomes(t, r)
    BY <2>4, <2>5, Goes
  <2>7. requests' = requests /\ op[t].pc = "build" /\ op[t].since <= requests /\ requests >= 1
    BY <1>10 DEF upload, rest, Counted
  <2>8. /\ UNCHANGED <<ub, torrents, queue, active, loop, urls, dropped, stalled>>
        /\ newFiles' \in SUBSET Files /\ disk' \in SUBSET Files
    BY <1>0, <1>10 DEF upload, rest
  <2> QED BY <1>0, <2>2, <2>4, <2>6, <2>7, <2>8
<1> QED BY <1>4, <1>5, <1>6, <1>7, <1>8, <1>9, <1>10 DEF FileStep

\* A step on files keeps the invariant.
LEMMA FileKeeps ==
    ASSUME StorageInv, NEW t \in Threads, FileStep(t)
    PROVE  StorageInv'
<1>0. Typed /\ SlotKept /\ Kept /\ Fetched /\ Counted
  BY DEF StorageInv
<1>1. /\ UNCHANGED <<ub, torrents, queue, active, loop, urls, dropped, stalled>>
      /\ newFiles' \in SUBSET Files /\ disk' \in SUBSET Files
      /\ requests' \in {requests, requests + 1} /\ op[t].pc # "queue"
  BY <1>0, FileEffect
<1>2. PICK r \in Request :
         /\ Becomes(t, r)
         /\ r.pc \in {"idle", "saved", "build"} \/ (r.pc = "save" /\ r.bag.by = Here)
         /\ r.since <= requests' /\ (r.pc # "idle" => requests' >= 1)
         /\ requests' = requests + 1 => r.pc \in {"idle", "saved"}
  BY <1>0, FileEffect
<1>3. op' \in [Threads -> Request] /\ op'[t] = r /\ \A u \in Threads : u # t => op'[u] = op[u]
  BY <1>2 DEF Becomes
<1>4. Typed'
  BY <1>0, <1>1, <1>3 DEF Typed
<1>5. SlotKept'
  BY <1>0, <1>1 DEF SlotKept
<1>6. Kept'
  <2>1. ASSUME NEW u \in Threads
        PROVE  /\ op'[u].pc \in {"record", "download", "queue"} => op'[u].bag # NoBag /\ op'[u].bag.by # Here
               /\ op'[u].pc \in {"save", "put", "answer"} => op'[u].bag.by = Here
               /\ op'[u].pc \in {"put", "answer"} => Stored(op'[u].bag) \/ op'[u].bag \in dropped
    <3>1. CASE u = t
      BY <1>2, <1>3, <3>1
    <3>2. CASE u # t
      BY <1>0, <1>3, <3>2 DEF Kept
    <3> QED BY <3>1, <3>2
  <2> QED BY <1>0, <1>1, <2>1 DEF Kept, Complete, Stored
<1>7. Fetched'
  <2>1. \A u \in Threads : op[u].pc = "queue" => op'[u] = op[u]
    BY <1>1, <1>3
  <2> QED BY <1>0, <1>1, <2>1 DEF Fetched, Awaited, InQueue
<1>8. Counted'
  <2> SUFFICES ASSUME NEW u \in Threads
               PROVE  op'[u].since <= requests' /\ (op'[u].pc # "idle" => requests' >= 1)
    BY DEF Counted
  <2>1. CASE u = t
    BY <1>2, <1>3, <2>1
  <2>2. CASE u # t
    <3>1. op'[u] = op[u] /\ op[u].since \in Nat /\ requests \in Nat
      BY <1>0, <1>3, <2>2 DEF Typed, Request
    <3> QED BY <1>0, <1>1, <3>1 DEF Counted
  <2> QED BY <2>1, <2>2
<1> QED BY <1>4, <1>5, <1>6, <1>7, <1>8 DEF StorageInv

\* A thread that goes on with another request: the parts of the invariant that
\* speak of all threads.
LEMMA OthersKept ==
    ASSUME Kept, NEW t \in Threads, NEW r, Becomes(t, r),
           \A b \in DOMAIN torrents : b.by = Here => b \in DOMAIN torrents' \/ b \in dropped',
           dropped \subseteq dropped',
           r.pc \in {"record", "download", "queue"} => r.bag # NoBag /\ r.bag.by # Here,
           r.pc \in {"save", "put", "answer"} => r.bag.by = Here,
           r.pc \in {"put", "answer"} => r.bag \in DOMAIN torrents' \/ r.bag \in dropped'
    PROVE  \A u \in Threads :
              /\ op'[u].pc \in {"record", "download", "queue"} => op'[u].bag # NoBag /\ op'[u].bag.by # Here
              /\ op'[u].pc \in {"save", "put", "answer"} => op'[u].bag.by = Here
              /\ op'[u].pc \in {"put", "answer"} => op'[u].bag \in DOMAIN torrents' \/ op'[u].bag \in dropped'
<1> SUFFICES ASSUME NEW u \in Threads
             PROVE  /\ op'[u].pc \in {"record", "download", "queue"} => op'[u].bag # NoBag /\ op'[u].bag.by # Here
                    /\ op'[u].pc \in {"save", "put", "answer"} => op'[u].bag.by = Here
                    /\ op'[u].pc \in {"put", "answer"} => op'[u].bag \in DOMAIN torrents' \/ op'[u].bag \in dropped'
  OBVIOUS
<1>1. CASE u = t
  <2>1. op'[u] = r
    BY <1>1 DEF Becomes
  <2> QED BY <2>1
<1>2. CASE u # t
  <2>1. op'[u] = op[u]
    BY <1>2 DEF Becomes
  <2> QED BY <2>1 DEF Kept, Stored
<1> QED BY <1>1, <1>2

LEMMA OthersCounted ==
    ASSUME Typed, Counted, NEW t \in Threads, NEW r, Becomes(t, r),
           requests' \in {requests, requests + 1},
           r.since <= requests', r.pc # "idle" => requests' >= 1
    PROVE  Counted'
<1> SUFFICES ASSUME NEW u \in Threads
             PROVE  op'[u].since <= requests' /\ (op'[u].pc # "idle" => requests' >= 1)
  BY DEF Counted
<1>1. CASE u = t
  <2>1. op'[u] = r
    BY <1>1 DEF Becomes
  <2> QED BY <2>1
<1>2. CASE u # t
  <2>1. op'[u] = op[u] /\ op[u].since \in Nat /\ requests \in Nat
    BY <1>2 DEF Becomes, Typed, Request
  <2> QED BY <2>1 DEF Counted
<1> QED BY <1>1, <1>2

\* saveTorrent.
LEMMA SaveEffect ==
    ASSUME Typed, NEW t \in Threads, saveTorrent(t)
    PROVE  \E r \in Request :
              /\ Becomes(t, r) /\ op[t].pc = "save" /\ r.pc = "put"
              /\ r.bag = op[t].bag /\ r.base = op[t].base /\ r.file = op[t].file /\ r.had = op[t].had
              /\ r.del = op[t].del /\ r.since = op[t].since
              /\ r.take = Replaces(torrents', op[t].bag, 0, op[t].del)
<1>0. op[t] \in Request
  BY DEF Typed
<1>1. PICK k : k = Replaces(torrents', op[t].bag, 0, op[t].del)
  OBVIOUS
<1>2. k \in BOOLEAN
  BY <1>1 DEF Replaces
<1>3. PICK r : r = [op[t] EXCEPT !.pc = "put", !.take = k]
  OBVIOUS
<1>4. /\ r \in Request /\ r.pc = "put" /\ r.bag = op[t].bag /\ r.base = op[t].base /\ r.file = op[t].file
      /\ r.had = op[t].had /\ r.del = op[t].del /\ r.since = op[t].since /\ r.take = k
  BY <1>0, <1>2, <1>3 DEF Request, PCs
<1>5. op' = [op EXCEPT ![t] = r] /\ op[t].pc = "save"
  BY <1>1, <1>3 DEF saveTorrent
<1>6. Becomes(t, r)
  BY <1>4, <1>5, Goes
<1> QED BY <1>1, <1>4, <1>5, <1>6

LEMMA SaveKeeps ==
    ASSUME StorageInv, NEW t \in Threads, saveTorrent(t)
    PROVE  StorageInv'
<1>0. Typed /\ SlotKept /\ Kept /\ Fetched /\ Counted
  BY DEF StorageInv
<1>1. PICK r \in Request : /\ Becomes(t, r) /\ op[t].pc = "save" /\ r.pc = "put"
                           /\ r.bag = op[t].bag /\ r.since = op[t].since
  BY <1>0, SaveEffect
<1>2. PICK b : b = op[t].bag
  OBVIOUS
<1>3. b \in Bags \ {NoBag} /\ b.by = Here
  <2>1. b \in Bags /\ b.by = Here
    BY <1>0, <1>1, <1>2 DEF Typed, Request, Kept
  <2> QED BY <2>1, BagFacts
<1>4. /\ torrents' = With(torrents, b, "done", TRUE)
      /\ UNCHANGED <<newFiles, disk, ub, queue, active, loop, urls, dropped, stalled, requests>>
  BY <1>2 DEF saveTorrent, rest
<1>5. /\ torrents' \in [DOMAIN torrents \cup {b} -> States] /\ DOMAIN torrents' = DOMAIN torrents \cup {b}
      /\ torrents'[b] = [st |-> "done", hdr |-> TRUE]
      /\ \A x \in DOMAIN torrents : x # b => torrents'[x] = torrents[x]
  BY <1>0, <1>4 DEF Typed, With, States
<1>6. Typed'
  <2>1. IsFiniteSet(DOMAIN torrents')
    BY <1>0, <1>5, FS_AddElement, SMTT(60) DEF Typed
  <2>2. op' \in [Threads -> Request]
    BY <1>1 DEF Becomes
  <2> QED BY <1>0, <1>3, <1>4, <1>5, <2>1, <2>2 DEF Typed
<1>7. SlotKept'
  BY <1>0, <1>4 DEF SlotKept
<1>8. Kept'
  <2>1. \A u \in Threads :
              /\ op'[u].pc \in {"record", "download", "queue"} => op'[u].bag # NoBag /\ op'[u].bag.by # Here
              /\ op'[u].pc \in {"save", "put", "answer"} => op'[u].bag.by = Here
              /\ op'[u].pc \in {"put", "answer"} => op'[u].bag \in DOMAIN torrents' \/ op'[u].bag \in dropped'
    BY <1>0, <1>1, <1>2, <1>3, <1>4, <1>5, OthersKept
  <2>2. \A x \in DOMAIN torrents' :
           /\ torrents'[x].st \in {"done", "whole", "stopped"} => torrents'[x].hdr
           /\ x.by = Here => torrents'[x].st \in {"done", "stopped"}
    BY <1>0, <1>5 DEF Kept, Complete, Stored
  <2>3. loop'.bag.by # Here /\ \A u \in urls' : u.bag.by = Here /\ (u.bag \in DOMAIN torrents' \/ u.bag \in dropped')
    BY <1>0, <1>4, <1>5 DEF Kept, Stored
  <2> QED BY <2>1, <2>2, <2>3 DEF Kept, Complete, Stored
<1>9. Fetched'
  <2>1. \A x \in DOMAIN torrents' : torrents'[x].st = "new" => x \in DOMAIN torrents /\ torrents[x].st = "new"
    BY <1>5
  <2>2. \A u \in Threads : op[u].pc = "queue" => op'[u] = op[u]
    BY <1>1 DEF Becomes
  <2> SUFFICES ASSUME NEW x \in DOMAIN torrents', torrents'[x].st = "new" PROVE Awaited(x)'
    BY DEF Fetched
  <2>3. Awaited(x)
    BY <1>0, <2>1 DEF Fetched
  <2> QED BY <1>4, <2>2, <2>3 DEF Awaited, InQueue
<1>10. Counted'
  <2>1. op[t].since <= requests /\ requests >= 1
    BY <1>0, <1>1 DEF Counted
  <2> QED BY <1>0, <1>1, <1>4, <2>1, OthersCounted
<1> QED BY <1>6, <1>7, <1>8, <1>9, <1>10 DEF StorageInv

\* saveUploadTorrent.
LEMMA PutEffect ==
    ASSUME Typed, NEW t \in Threads, saveUploadTorrent(t)
    PROVE  \E r \in Request : /\ Becomes(t, r) /\ op[t].pc = "put" /\ r.pc = "answer"
                              /\ r.bag = op[t].bag /\ r.since = op[t].since
<1>0. op[t] \in Request
  BY DEF Typed
<1>1. PICK r : r = [op[t] EXCEPT !.pc = "answer"]
  OBVIOUS
<1>2. r \in Request /\ r.pc = "answer" /\ r.bag = op[t].bag /\ r.since = op[t].since
  BY <1>0, <1>1 DEF Request, PCs
<1>3. op' = [op EXCEPT ![t] = r] /\ op[t].pc = "put"
  BY <1>1 DEF saveUploadTorrent
<1>4. Becomes(t, r)
  BY <1>2, <1>3, Goes
<1> QED BY <1>2, <1>3, <1>4

LEMMA PutKeeps ==
    ASSUME StorageInv, NEW t \in Threads, saveUploadTorrent(t)
    PROVE  StorageInv'
<1>0. Typed /\ SlotKept /\ Kept /\ Fetched /\ Counted
  BY DEF StorageInv
<1>1. PICK r \in Request : /\ Becomes(t, r) /\ op[t].pc = "put" /\ r.pc = "answer"
                           /\ r.bag = op[t].bag /\ r.since = op[t].since
  BY <1>0, PutEffect
<1>2. PICK b : b = op[t].bag
  OBVIOUS
<1>3. b \in Bags /\ b.by = Here /\ (b \in DOMAIN torrents \/ b \in dropped)
  BY <1>0, <1>1, <1>2 DEF Typed, Request, Kept, Stored
<1>4. /\ UNCHANGED <<torrents, disk, queue, active, loop, urls, dropped, stalled, requests>>
      /\ newFiles' \subseteq newFiles
      /\ ub' = ub \/ ub' = [bag |-> b, ver |-> 0]
  BY <1>2 DEF saveUploadTorrent, rest
<1>5. Typed'
  <2>1. op' \in [Threads -> Request]
    BY <1>1 DEF Becomes
  <2>2. ub' \in [bag : Bags, ver : Nat]
    BY <1>0, <1>3, <1>4 DEF Typed
  <2> QED BY <1>0, <1>4, <2>1, <2>2 DEF Typed
<1>6. SlotKept'
  BY <1>0, <1>4 DEF SlotKept
<1>7. Kept'
  <2>1. \A u \in Threads :
              /\ op'[u].pc \in {"record", "download", "queue"} => op'[u].bag # NoBag /\ op'[u].bag.by # Here
              /\ op'[u].pc \in {"save", "put", "answer"} => op'[u].bag.by = Here
              /\ op'[u].pc \in {"put", "answer"} => op'[u].bag \in DOMAIN torrents' \/ op'[u].bag \in dropped'
    BY <1>0, <1>1, <1>2, <1>3, <1>4, OthersKept
  <2> QED BY <1>0, <1>4, <2>1 DEF Kept, Complete, Stored
<1>8. Fetched'
  <2>1. \A u \in Threads : op[u].pc = "queue" => op'[u] = op[u]
    BY <1>1 DEF Becomes
  <2> QED BY <1>0, <1>4, <2>1 DEF Fetched, Awaited, InQueue
<1>9. Counted'
  <2>1. op[t].since <= requests /\ requests >= 1
    BY <1>0, <1>1 DEF Counted
  <2> QED BY <1>0, <1>1, <1>4, <2>1, OthersCounted
<1> QED BY <1>5, <1>6, <1>7, <1>8, <1>9 DEF StorageInv

\* The URL is answered, or the file removed.
LEMMA AnswerKeeps ==
    ASSUME StorageInv, NEW t \in Threads, Answer(t)
    PROVE  StorageInv'
<1>0. Typed /\ SlotKept /\ Kept /\ Fetched /\ Counted
  BY DEF StorageInv
<1>1. Becomes(t, Idle) /\ op[t].pc = "answer"
  BY <1>0, Goes, IdleFacts DEF Answer
<1>2. PICK b : b = op[t].bag
  OBVIOUS
<1>3. b.by = Here /\ (b \in DOMAIN torrents \/ b \in dropped)
  BY <1>0, <1>1, <1>2 DEF Kept, Stored
<1>4. /\ UNCHANGED <<torrents, newFiles, queue, active, loop, ub, dropped, stalled, requests>>
      /\ disk' \subseteq disk
      /\ \A u \in urls' : u \in urls \/ u.bag = b
  <2>1. urls' = urls \/ urls' = urls \cup {[bag |-> op[t].bag, file |-> op[t].file]}
    BY DEF Answer
  <2>2. [bag |-> op[t].bag, file |-> op[t].file].bag = b
    BY <1>2
  <2>3. \A u \in urls' : u \in urls \/ u.bag = b
    BY <2>1, <2>2
  <2> QED BY <2>3 DEF Answer, rest
<1>5. Typed'
  BY <1>0, <1>1, <1>4 DEF Typed, Becomes
<1>6. SlotKept'
  BY <1>0, <1>4 DEF SlotKept
<1>7. Kept'
  <2>1. \A u \in Threads :
              /\ op'[u].pc \in {"record", "download", "queue"} => op'[u].bag # NoBag /\ op'[u].bag.by # Here
              /\ op'[u].pc \in {"save", "put", "answer"} => op'[u].bag.by = Here
              /\ op'[u].pc \in {"put", "answer"} => op'[u].bag \in DOMAIN torrents' \/ op'[u].bag \in dropped'
    BY <1>0, <1>1, <1>4, IdleFacts, OthersKept
  <2>2. \A u \in urls' : u.bag.by = Here /\ (u.bag \in DOMAIN torrents \/ u.bag \in dropped)
    BY <1>0, <1>3, <1>4 DEF Kept, Stored
  <2> QED BY <1>0, <1>4, <2>1, <2>2 DEF Kept, Complete, Stored
<1>8. Fetched'
  <2>1. \A u \in Threads : op[u].pc = "queue" => op'[u] = op[u]
    BY <1>1 DEF Becomes
  <2> QED BY <1>0, <1>4, <2>1 DEF Fetched, Awaited, InQueue
<1>9. Counted'
  <2>1. requests \in Nat /\ requests' = requests
    BY <1>0, <1>4 DEF Typed
  <2> QED BY <1>0, <1>1, <2>1, IdleFacts, OthersCounted
<1> QED BY <1>5, <1>6, <1>7, <1>8, <1>9 DEF StorageInv

\* The user is deleted: the only way a bag that was made here is given up.
LEMMA DeleteUserKeeps ==
    ASSUME StorageInv, NEW t \in Threads, DeleteUser(t)
    PROVE  StorageInv'
<1>0. Typed /\ SlotKept /\ Kept /\ Fetched /\ Counted
  BY DEF StorageInv
<1>1. PICK b : b = bagByUser
  OBVIOUS
<1>2. /\ UNCHANGED <<newFiles, ub, queue, active, loop, op, urls, stalled>> /\ disk' = {}
      /\ torrents' = Without(torrents, b) /\ dropped' = dropped \cup {b} /\ requests' = requests + 1
  BY <1>1 DEF DeleteUser
<1>3. /\ torrents' \in [DOMAIN torrents \ {b} -> States] /\ DOMAIN torrents' = DOMAIN torrents \ {b}
      /\ \A x \in DOMAIN torrents : x # b => torrents'[x] = torrents[x]
  BY <1>0, <1>2 DEF Typed, Without
<1>4. Typed'
  <2>1. IsFiniteSet(DOMAIN torrents')
    BY <1>0, <1>3, FS_RemoveElement DEF Typed
  <2> QED BY <1>0, <1>2, <1>3, <2>1 DEF Typed
<1>5. SlotKept'
  BY <1>0, <1>2 DEF SlotKept
<1>6. Kept'
  <2>1. \A x \in DOMAIN torrents' : torrents'[x] = torrents[x] /\ x \in DOMAIN torrents
    BY <1>3
  <2>2. \A x \in DOMAIN torrents : x \in DOMAIN torrents' \/ x \in dropped'
    BY <1>2, <1>3
  <2> QED BY <1>0, <1>2, <2>1, <2>2 DEF Kept, Complete, Stored
<1>7. Fetched'
  BY <1>0, <1>2, <1>3 DEF Fetched, Awaited, InQueue
<1>8. Counted'
  <2>1. \A u \in Threads : op[u].since \in Nat
    BY <1>0 DEF Typed, Request
  <2> QED BY <1>0, <1>2, <2>1 DEF Counted, Typed
<1> QED BY <1>4, <1>5, <1>6, <1>7, <1>8 DEF StorageInv

\* newBagIDPromoted.
LEMMA PromoteEffect ==
    ASSUME Typed, NEW t \in Threads, NEW a \in Announced, newBagIDPromoted(t, a)
    PROVE  \E r \in Request :
              /\ Becomes(t, r) /\ op[t].pc = "idle" /\ r.pc \in {"record", "download"} /\ r.bag = a.bag /\ r.since = 0
              /\ \/ torrents' = torrents /\ active' = active
                 \/ /\ bagByUser # NoBag
                    /\ torrents' = Superseded(bagByUser) /\ active' = active \ {bagByUser}
<1> DEFINE old == bagByUser
           k == old = NoBag \/ (old # a.bag /\ Version(torrents) < a.ver)
<1>1. k \in BOOLEAN
  OBVIOUS
<1>2. PICK r : r = [Idle EXCEPT !.pc = IF k THEN "record" ELSE "download", !.bag = a.bag, !.ver = a.ver]
  OBVIOUS
<1>3. /\ op' = [op EXCEPT ![t] = r] /\ op[t].pc = "idle"
      /\ active' = IF k /\ old # NoBag THEN active \ {old} ELSE active
      /\ torrents' = IF k /\ old # NoBag THEN Superseded(old) ELSE torrents
  BY <1>2 DEF newBagIDPromoted, Begin
<1> HIDE DEF k
<1>4. r \in Request /\ r.pc \in {"record", "download"} /\ r.bag = a.bag /\ r.since = 0
  BY <1>1, <1>2, BagFacts DEF Idle, Request, PCs
<1>5. Becomes(t, r)
  BY <1>3, <1>4, Goes
<1> QED BY <1>3, <1>4, <1>5

LEMMA PromoteKeeps ==
    ASSUME StorageInv, NEW t \in Threads, NEW a \in Announced, newBagIDPromoted(t, a)
    PROVE  StorageInv'
<1>0. Typed /\ SlotKept /\ Kept /\ Fetched /\ Counted
  BY DEF StorageInv
<1>1. PICK r \in Request :
              /\ Becomes(t, r) /\ op[t].pc = "idle" /\ r.pc \in {"record", "download"} /\ r.bag = a.bag /\ r.since = 0
              /\ \/ torrents' = torrents /\ active' = active
                 \/ /\ bagByUser # NoBag
                    /\ torrents' = Superseded(bagByUser) /\ active' = active \ {bagByUser}
  BY <1>0, PromoteEffect
<1>2. UNCHANGED <<newFiles, disk, ub, queue, loop, urls, dropped, stalled>> /\ requests' = requests + 1
  BY DEF newBagIDPromoted, Begin
<1>3. PICK old : old = bagByUser
  OBVIOUS
<1>4. /\ torrents' \in [DOMAIN torrents' -> States] /\ DOMAIN torrents' \subseteq DOMAIN torrents
      /\ \A x \in DOMAIN torrents' :
            /\ torrents'[x].hdr = torrents[x].hdr
            /\ \/ torrents'[x].st = torrents[x].st
               \/ torrents[x].st = "done" /\ torrents'[x].st = "stopped"
      /\ \A x \in DOMAIN torrents : torrents[x].st \in {"done", "stopped"} => x \in DOMAIN torrents'
  <2>1. CASE torrents' = torrents
    BY <1>0, <2>1 DEF Typed
  <2>2. CASE bagByUser # NoBag /\ torrents' = Superseded(bagByUser)
    <3>1. old \in DOMAIN torrents
      BY <1>0, <1>3, <2>2, UserBag
    <3>2. torrents' = Superseded(old)
      BY <1>3, <2>2
    <3>3. /\ torrents' \in [DOMAIN torrents' -> States] /\ DOMAIN torrents' \subseteq DOMAIN torrents
          /\ \A x \in DOMAIN torrents : x # old => x \in DOMAIN torrents' /\ torrents'[x] = torrents[x]
          /\ old \in DOMAIN torrents' =>
                /\ torrents'[old].hdr = torrents[old].hdr
                /\ \/ torrents'[old].st = torrents[old].st
                   \/ torrents[old].st = "done" /\ torrents'[old].st = "stopped"
          /\ torrents[old].st \in {"done", "stopped"} => old \in DOMAIN torrents'
      BY <1>0, <3>1, <3>2, SupersededFacts
    <3> QED BY <3>3
  <2> QED BY <1>1, <2>1, <2>2
<1>5. /\ active' \subseteq active
      /\ \A x \in active' : x \in DOMAIN torrents => x \in DOMAIN torrents'
  <2>1. CASE torrents' = torrents /\ active' = active
    BY <2>1
  <2>2. CASE bagByUser # NoBag /\ torrents' = Superseded(bagByUser) /\ active' = active \ {bagByUser}
    <3>1. old \in DOMAIN torrents
      BY <1>0, <1>3, <2>2, UserBag
    <3>2. torrents' = Superseded(old) /\ active' = active \ {old}
      BY <1>3, <2>2
    <3>3. \A x \in DOMAIN torrents : x # old => x \in DOMAIN torrents'
      BY <1>0, <3>1, <3>2, SupersededFacts
    <3> QED BY <3>2, <3>3
  <2> QED BY <1>1, <2>1, <2>2
<1>6. IsFiniteSet(active') /\ Cardinality(active') <= Cardinality(active)
  BY <1>0, <1>5, FS_Subset DEF Typed
<1>7. Typed'
  <2>1. IsFiniteSet(DOMAIN torrents')
    BY <1>0, <1>4, FS_Subset DEF Typed
  <2>2. op' \in [Threads -> Request]
    BY <1>1 DEF Becomes
  <2> QED BY <1>0, <1>2, <1>4, <1>5, <1>6, <2>1, <2>2 DEF Typed
<1>8. SlotKept'
  <2>1. Cardinality(active) \in Nat /\ Cardinality(active') \in Nat
    BY <1>0, <1>6, FS_CardinalityType DEF Typed
  <2> QED BY <1>0, <1>2, <1>6, <2>1, SlotsAssumption DEF SlotKept
<1>9. Kept'
  <2>1. \A x \in DOMAIN torrents : x.by = Here => x \in DOMAIN torrents'
    BY <1>0, <1>4 DEF Kept
  <2>2. r.bag # NoBag /\ r.bag.by # Here
    BY <1>1, BagFacts
  <2>3. \A u \in Threads :
              /\ op'[u].pc \in {"record", "download", "queue"} => op'[u].bag # NoBag /\ op'[u].bag.by # Here
              /\ op'[u].pc \in {"save", "put", "answer"} => op'[u].bag.by = Here
              /\ op'[u].pc \in {"put", "answer"} => op'[u].bag \in DOMAIN torrents' \/ op'[u].bag \in dropped'
    BY <1>0, <1>1, <1>2, <2>1, <2>2, OthersKept
  <2>4. \A x \in DOMAIN torrents' :
           /\ torrents'[x].st \in {"done", "whole", "stopped"} => torrents'[x].hdr
           /\ x.by = Here => torrents'[x].st \in {"done", "stopped"}
    BY <1>0, <1>4 DEF Kept, Complete, Stored
  <2>5. \A u \in urls : u.bag.by = Here /\ (u.bag \in DOMAIN torrents' \/ u.bag \in dropped)
    BY <1>0, <2>1 DEF Kept, Stored
  <2> QED BY <1>0, <1>2, <2>3, <2>4, <2>5 DEF Kept, Complete, Stored
<1>10. Fetched'
  <2>1. \A x \in DOMAIN torrents' : torrents'[x].st = "new" => x \in DOMAIN torrents /\ torrents[x].st = "new"
    BY <1>4
  <2>2. \A u \in Threads : op[u].pc = "queue" => op'[u] = op[u]
    BY <1>1 DEF Becomes
  <2> QED BY <1>0, <1>2, <2>1, <2>2 DEF Fetched, Awaited, InQueue
<1>11. Counted'
  <2>1. requests \in Nat
    BY <1>0 DEF Typed
  <2> QED BY <1>0, <1>1, <1>2, <2>1, OthersCounted
<1> QED BY <1>7, <1>8, <1>9, <1>10, <1>11 DEF StorageInv

\* The steps that follow: the user's key, the torrent and the queue.
PromotionStep(t) == saveBagPerUser(t) \/ download(t) \/ Enqueue(t)

\* The bag a request promotes.
LEMMA PromotedBag ==
    ASSUME Typed, Kept, NEW t \in Threads, op[t].pc \in {"record", "download", "queue"}
    PROVE  op[t] \in Request /\ op[t].bag \in Bags \ {NoBag} /\ op[t].bag.by # Here /\ op[t].ver \in Nat
BY DEF Typed, Kept, Request

\* It goes on to the next step, or ends.
LEMMA PromotionGoes ==
    ASSUME StorageInv, NEW t \in Threads, PromotionStep(t)
    PROVE  /\ op[t].pc \in {"record", "download", "queue"} /\ requests' = requests
           /\ \E r \in Request :
                 /\ Becomes(t, r) /\ r.pc \in {"idle", "download", "queue"}
                 /\ r.pc # "idle" => r.bag = op[t].bag
                 /\ r.since <= requests' /\ requests' >= 1
                 /\ download(t) /\ op' = [op EXCEPT ![t].pc = "queue"] => r.pc = "queue"
<1>0. Typed /\ Kept /\ Counted /\ requests \in Nat /\ op[t] \in Request
  BY DEF StorageInv, Typed
<1>1. op[t].pc \in {"record", "download", "queue"} /\ requests' = requests
  BY DEF PromotionStep, saveBagPerUser, download, Enqueue, rest
<1>2. op[t].since <= requests /\ requests >= 1
  BY <1>0, <1>1 DEF Counted
<1>3. CASE op' = [op EXCEPT ![t] = Idle] /\ op' # [op EXCEPT ![t].pc = "queue"]
  <2>1. Becomes(t, Idle)
    BY <1>0, <1>3, Goes, IdleFacts
  <2> QED BY <1>0, <1>1, <1>2, <1>3, <2>1, IdleFacts
<1>4. ASSUME NEW p \in {"download", "queue"}, op' = [op EXCEPT ![t].pc = p]
      PROVE  \E r \in Request :
                 /\ Becomes(t, r) /\ r.pc = p /\ r.bag = op[t].bag /\ r.since = op[t].since
  <2>1. PICK r : r = [op[t] EXCEPT !.pc = p]
    OBVIOUS
  <2>2. r \in Request /\ r.pc = p /\ r.bag = op[t].bag /\ r.since = op[t].since
    BY <1>0, <2>1 DEF Request, PCs
  <2>3. op' = [op EXCEPT ![t] = r]
    BY <1>4, <2>1
  <2>4. Becomes(t, r)
    BY <1>0, <2>2, <2>3, Goes
  <2> QED BY <2>2, <2>4
<1>5. CASE op' = [op EXCEPT ![t].pc = "queue"]
  <2>1. PICK r \in Request : Becomes(t, r) /\ r.pc = "queue" /\ r.bag = op[t].bag /\ r.since = op[t].since
    BY <1>4, <1>5
  <2> QED BY <1>1, <1>2, <2>1
<1>6. CASE saveBagPerUser(t)
  <2>1. op' = [op EXCEPT ![t].pc = "download"] /\ op[t].pc = "record"
    BY <1>6 DEF saveBagPerUser
  <2>2. PICK r \in Request : Becomes(t, r) /\ r.pc = "download" /\ r.bag = op[t].bag /\ r.since = op[t].since
    BY <1>4, <2>1
  <2>3. ~download(t)
    BY <2>1 DEF download
  <2> QED BY <1>1, <1>2, <2>2, <2>3
<1>7. CASE Enqueue(t)
  <2>1. op' = [op EXCEPT ![t] = Idle]
    BY <1>7 DEF Enqueue
  <2> QED BY <1>3, <1>5, <2>1
<1>8. CASE download(t)
  <2>1. op' = [op EXCEPT ![t] = Idle] \/ op' = [op EXCEPT ![t].pc = "queue"]
    BY <1>8 DEF download
  <2> QED BY <1>3, <1>5, <2>1
<1> QED BY <1>6, <1>7, <1>8 DEF PromotionStep

\* What such a step may change, besides the request.
Promotes(t, b) ==
    /\ UNCHANGED <<newFiles, disk, active, loop, urls, dropped>>
    /\ torrents' \in [DOMAIN torrents' -> States]
    /\ DOMAIN torrents' \in {DOMAIN torrents, DOMAIN torrents \cup {b}}
    /\ \A x \in DOMAIN torrents : x # b => torrents'[x] = torrents[x]
    /\ b \in DOMAIN torrents' => \/ b \in DOMAIN torrents /\ torrents'[b] = torrents[b]
                                 \/ torrents'[b].st \in {"resume", "new"}
    /\ ub' \in {ub, [bag |-> b, ver |-> op[t].ver]}
    /\ queue' \in Seq(Item)

\* It keeps the invariant but for what it says of waiting torrents.
LEMMA PromotesKeeps ==
    ASSUME StorageInv, NEW t \in Threads, PromotionStep(t), NEW b, b = op[t].bag, Promotes(t, b)
    PROVE  Typed' /\ SlotKept' /\ Kept' /\ Counted'
<1>0. Typed /\ SlotKept /\ Kept /\ Counted /\ requests \in Nat
  BY DEF StorageInv, Typed
<1>1. /\ op[t].pc \in {"record", "download", "queue"} /\ requests' = requests
      /\ \E r \in Request :
            /\ Becomes(t, r) /\ r.pc \in {"idle", "download", "queue"}
            /\ r.pc # "idle" => r.bag = op[t].bag
            /\ r.since <= requests' /\ requests' >= 1
  BY PromotionGoes
<1>2. PICK r \in Request :
            /\ Becomes(t, r) /\ r.pc \in {"idle", "download", "queue"}
            /\ r.pc # "idle" => r.bag = b
            /\ r.since <= requests' /\ requests' >= 1
  BY <1>1
<1>3. b \in Bags \ {NoBag} /\ b.by # Here /\ op[t].ver \in Nat
  BY <1>0, <1>1, PromotedBag
<1> USE DEF Promotes
<1>4. Typed'
  <2>1. IsFiniteSet(DOMAIN torrents')
    BY <1>0, FS_AddElement DEF Typed
  <2>2. op' \in [Threads -> Request]
    BY <1>2 DEF Becomes
  <2>3. ub' \in [bag : Bags, ver : Nat]
    BY <1>0, <1>3 DEF Typed
  <2>4. DOMAIN torrents' \subseteq Bags \ {NoBag}
    BY <1>0, <1>3 DEF Typed
  <2> QED BY <1>0, <1>1, <2>1, <2>2, <2>3, <2>4 DEF Typed
<1>5. SlotKept'
  BY <1>0 DEF SlotKept
<1>6. Kept'
  <2>1. DOMAIN torrents \subseteq DOMAIN torrents'
    OBVIOUS
  <2>2. \A u \in Threads :
              /\ op'[u].pc \in {"record", "download", "queue"} => op'[u].bag # NoBag /\ op'[u].bag.by # Here
              /\ op'[u].pc \in {"save", "put", "answer"} => op'[u].bag.by = Here
              /\ op'[u].pc \in {"put", "answer"} => op'[u].bag \in DOMAIN torrents' \/ op'[u].bag \in dropped'
    BY <1>0, <1>2, <1>3, <2>1, OthersKept
  <2>3. \A x \in DOMAIN torrents' :
           /\ torrents'[x].st \in {"done", "whole", "stopped"} => torrents'[x].hdr
           /\ x.by = Here => torrents'[x].st \in {"done", "stopped"}
    <3> SUFFICES ASSUME NEW x \in DOMAIN torrents'
                 PROVE  /\ torrents'[x].st \in {"done", "whole", "stopped"} => torrents'[x].hdr
                        /\ x.by = Here => torrents'[x].st \in {"done", "stopped"}
      OBVIOUS
    <3>1. CASE x \in DOMAIN torrents /\ torrents'[x] = torrents[x]
      BY <1>0, <3>1 DEF Kept, Complete, Stored
    <3>2. CASE x = b /\ torrents'[b].st \in {"resume", "new"}
      BY <1>3, <3>2
    <3> QED BY <3>1, <3>2
  <2>4. loop'.bag.by # Here /\ \A u \in urls' : u.bag.by = Here /\ (u.bag \in DOMAIN torrents' \/ u.bag \in dropped')
    BY <1>0, <2>1 DEF Kept, Stored
  <2> QED BY <2>2, <2>3, <2>4 DEF Kept, Complete, Stored
<1>7. Counted'
  BY <1>0, <1>1, <1>2, OthersCounted
<1> QED BY <1>4, <1>5, <1>6, <1>7

LEMMA RecordKeeps ==
    ASSUME StorageInv, NEW t \in Threads, saveBagPerUser(t)
    PROVE  StorageInv'
<1>0. Typed /\ Fetched
  BY DEF StorageInv
<1>1. PICK b : b = op[t].bag
  OBVIOUS
<1>2. UNCHANGED <<torrents, queue, loop, stalled>> /\ PromotionStep(t) /\ op[t].pc = "record"
  BY DEF saveBagPerUser, PromotionStep, rest
<1>3. Promotes(t, b)
  <2>1. UNCHANGED <<newFiles, disk, active, loop, urls, dropped>> /\ ub' = [bag |-> b, ver |-> op[t].ver]
    BY <1>1 DEF saveBagPerUser, rest
  <2> QED BY <1>0, <1>2, <2>1 DEF Promotes, Typed
<1>4. Typed' /\ SlotKept' /\ Kept' /\ Counted'
  BY <1>1, <1>2, <1>3, PromotesKeeps
<1>5. \A u \in Threads : op[u].pc = "queue" => op'[u] = op[u]
  BY <1>0, <1>2 DEF saveBagPerUser, Typed
<1>6. Fetched'
  BY <1>0, <1>2, <1>5 DEF Fetched, Awaited, InQueue
<1> QED BY <1>4, <1>6 DEF StorageInv

LEMMA DownloadKeeps ==
    ASSUME StorageInv, NEW t \in Threads, download(t)
    PROVE  StorageInv'
<1>0. Typed /\ Kept /\ Fetched /\ torrents \in [DOMAIN torrents -> States] /\ queue \in Seq(Item)
  BY DEF StorageInv, Typed
<1>1. PICK b : b = op[t].bag
  OBVIOUS
<1>2. /\ UNCHANGED <<newFiles, disk, queue, active, loop, urls, dropped>>
      /\ PromotionStep(t) /\ op[t].pc = "download"
  BY DEF download, PromotionStep
<1>3. PICK r \in Request :
            /\ Becomes(t, r) /\ (r.pc # "idle" => r.bag = b)
            /\ op' = [op EXCEPT ![t].pc = "queue"] => r.pc = "queue"
  BY <1>1, <1>2, PromotionGoes
<1>4. \A u \in Threads : op[u].pc = "queue" => op'[u] = op[u]
  BY <1>2, <1>3 DEF Becomes
<1>5. CASE UNCHANGED <<ub, torrents, stalled>>
  <2>1. Promotes(t, b)
    BY <1>0, <1>2, <1>5 DEF Promotes
  <2>2. Fetched'
    BY <1>0, <1>2, <1>4, <1>5 DEF Fetched, Awaited, InQueue
  <2> QED BY <1>1, <1>2, <2>1, <2>2, PromotesKeeps DEF StorageInv
<1>6. CASE /\ Stored(b) /\ UNCHANGED ub
           /\ torrents' = [torrents EXCEPT ![b].st = "resume"] /\ stalled' = stalled \ {b}
  <2>1. b \in DOMAIN torrents
    BY <1>6 DEF Stored
  <2>2. PICK tr2 : tr2 = [torrents EXCEPT ![b].st = "resume"]
    OBVIOUS
  <2>3. /\ tr2 \in [DOMAIN torrents -> States] /\ DOMAIN tr2 = DOMAIN torrents
        /\ tr2[b].st = "resume" /\ \A x \in DOMAIN torrents : x # b => tr2[x] = torrents[x]
    BY <1>0, <2>1, <2>2, StateFacts
  <2>4. torrents' = tr2
    BY <1>6, <2>2
  <2>5. Promotes(t, b)
    BY <1>0, <1>2, <1>6, <2>1, <2>3, <2>4 DEF Promotes
  <2>6. \A x \in DOMAIN torrents' : torrents'[x].st = "new" => x # b /\ x \in DOMAIN torrents /\ torrents[x].st = "new"
    BY <2>3, <2>4
  <2>7. Fetched'
    BY <1>0, <1>2, <1>4, <1>6, <2>6 DEF Fetched, Awaited, InQueue
  <2> QED BY <1>1, <1>2, <2>5, <2>7, PromotesKeeps DEF StorageInv
<1>7. CASE /\ ~Stored(b) /\ torrents' = With(torrents, b, "new", FALSE)
           /\ ub' \in {ub, [bag |-> b, ver |-> op[t].ver]}
           /\ op' = [op EXCEPT ![t].pc = "queue"] /\ UNCHANGED stalled
  <2>1. /\ torrents' \in [DOMAIN torrents \cup {b} -> States] /\ DOMAIN torrents' = DOMAIN torrents \cup {b}
        /\ torrents'[b].st = "new" /\ \A x \in DOMAIN torrents : x # b => torrents'[x] = torrents[x]
    BY <1>0, <1>7 DEF With, States
  <2>2. Promotes(t, b)
    BY <1>0, <1>2, <1>7, <2>1 DEF Promotes
  <2>3. op'[t].pc = "queue" /\ op'[t].bag = b
    BY <1>3, <1>7 DEF Becomes
  <2>4. Fetched'
    <3> SUFFICES ASSUME NEW x \in DOMAIN torrents', torrents'[x].st = "new" PROVE Awaited(x)'
      BY DEF Fetched
    <3>1. CASE x = b
      BY <2>3, <3>1 DEF Awaited
    <3>2. CASE x # b
      <4>1. Awaited(x)
        BY <1>0, <2>1, <3>2 DEF Fetched
      <4> QED BY <1>2, <1>4, <1>7, <4>1 DEF Awaited, InQueue
    <3> QED BY <3>1, <3>2
  <2> QED BY <1>1, <1>2, <2>2, <2>4, PromotesKeeps DEF StorageInv
<1> QED BY <1>1, <1>5, <1>6, <1>7 DEF download

LEMMA EnqueueKeeps ==
    ASSUME StorageInv, NEW t \in Threads, Enqueue(t)
    PROVE  StorageInv'
<1>0. Typed /\ Kept /\ Fetched /\ queue \in Seq(Item)
  BY DEF StorageInv, Typed
<1>1. PICK b : b = op[t].bag
  OBVIOUS
<1>2. /\ UNCHANGED <<newFiles, disk, ub, torrents, active, loop, urls, dropped>>
      /\ PromotionStep(t) /\ op[t].pc = "queue"
  BY DEF Enqueue, PromotionStep
<1>3. \A u \in Threads : op[u].pc = "queue" => u = t \/ op'[u] = op[u]
  BY <1>0 DEF Enqueue, Typed
<1>4. /\ queue' \in Seq(Item) /\ (\A x : InQueue(queue, x) => InQueue(queue', x))
      /\ InQueue(queue', b) \/ b \in stalled'
      /\ stalled \subseteq stalled'
  <2>1. CASE stalled' = stalled \cup {b} /\ queue' = queue
    BY <1>0, <2>1 DEF InQueue
  <2>2. CASE queue' = Append(queue, [bag |-> b, ver |-> op[t].ver, user |-> TRUE]) /\ stalled' = stalled
    <3>1. PICK m : m = [bag |-> b, ver |-> op[t].ver, user |-> TRUE]
      OBVIOUS
    <3>2. m \in Item /\ m.bag = b
      BY <1>0, <1>1, <1>2, <3>1, PromotedBag DEF Item
    <3>3. queue' = Append(queue, m)
      BY <2>2, <3>1
    <3>4. /\ queue' \in Seq(Item) /\ Len(queue') = Len(queue) + 1 /\ Len(queue) \in Nat
          /\ queue'[Len(queue) + 1] = m /\ \A i \in 1..Len(queue) : queue'[i] = queue[i]
      BY <1>0, <3>2, <3>3
    <3>5. \A x : InQueue(queue, x) => InQueue(queue', x)
      BY <3>4 DEF InQueue
    <3>6. Len(queue) + 1 \in 1..Len(queue')
      BY <3>4
    <3>7. InQueue(queue', b)
      BY <3>2, <3>4, <3>6 DEF InQueue
    <3> QED BY <2>2, <3>4, <3>5, <3>7
  <2> QED BY <1>1, <2>1, <2>2 DEF Enqueue
<1>5. Promotes(t, b)
  BY <1>0, <1>2, <1>4 DEF Promotes, Typed
<1>6. Fetched'
  <2> SUFFICES ASSUME NEW x \in DOMAIN torrents, torrents[x].st = "new" PROVE Awaited(x)'
    BY <1>2 DEF Fetched
  <2>1. Awaited(x)
    BY <1>0 DEF Fetched
  <2>2. CASE x = b
    BY <1>4, <2>2 DEF Awaited
  <2>3. CASE x # b
    BY <1>1, <1>2, <1>3, <1>4, <2>1, <2>3 DEF Awaited
  <2> QED BY <2>2, <2>3
<1> QED BY <1>1, <1>2, <1>5, <1>6, PromotesKeeps DEF StorageInv

-----------------------------------------------------------------------------
(* The queue and the torrent library.  The requests stay as they are.       *)

LEMMA RequestsKept ==
    ASSUME StorageInv, UNCHANGED <<op, requests>>,
           \A b \in DOMAIN torrents : b.by = Here => b \in DOMAIN torrents' \/ b \in dropped',
           dropped \subseteq dropped'
    PROVE  /\ Counted' /\ op' \in [Threads -> Request] /\ requests' \in Nat
           /\ \A u \in Threads :
              /\ op'[u].pc \in {"record", "download", "queue"} => op'[u].bag # NoBag /\ op'[u].bag.by # Here
              /\ op'[u].pc \in {"save", "put", "answer"} => op'[u].bag.by = Here
              /\ op'[u].pc \in {"put", "answer"} => op'[u].bag \in DOMAIN torrents' \/ op'[u].bag \in dropped'
<1>1. Counted' /\ op' \in [Threads -> Request] /\ requests' \in Nat
  BY DEF StorageInv, Typed, Counted
<1>2. ASSUME NEW u \in Threads
      PROVE  /\ op'[u].pc \in {"record", "download", "queue"} => op'[u].bag # NoBag /\ op'[u].bag.by # Here
             /\ op'[u].pc \in {"save", "put", "answer"} => op'[u].bag.by = Here
             /\ op'[u].pc \in {"put", "answer"} => op'[u].bag \in DOMAIN torrents' \/ op'[u].bag \in dropped'
  <2>1. op'[u] = op[u]
    OBVIOUS
  <2> QED BY <2>1 DEF StorageInv, Kept, Stored
<1> QED BY <1>1, <1>2

\* The loop takes the first item of the queue; only a torrent that has not
\* begun is downloaded, and no other torrent waits for that item.
LEMMA TakeItemKeeps ==
    ASSUME StorageInv, TakeItem
    PROVE  StorageInv'
<1>0. Typed /\ SlotKept /\ Kept /\ Fetched /\ Counted
  BY DEF StorageInv
<1>1. PICK h : h = Head(queue)
  OBVIOUS
<1>2. PICK b : b = h.bag
  OBVIOUS
<1>3. /\ queue' = Tail(queue) /\ queue # <<>> /\ FreeSlot /\ loop = NoItem
      /\ UNCHANGED <<newFiles, disk, ub, active, op, urls, dropped, requests>>
      /\ stalled' \in {stalled, stalled \ {b}}
      /\ \/ /\ Stored(b) /\ ~Downloading(b) /\ ~Complete(b)
            /\ loop' = h
            /\ torrents' = [torrents EXCEPT ![b].st = "fetch"] \/ torrents' = torrents
         \/ ~(Stored(b) /\ ~Downloading(b) /\ ~Complete(b)) /\ UNCHANGED <<loop, torrents>>
  BY <1>1, <1>2 DEF TakeItem
<1>4. queue \in Seq(Item)
  BY <1>0 DEF Typed
<1>5. /\ h \in Item /\ queue[1] = h /\ queue' \in Seq(Item) /\ Len(queue) \in Nat /\ Len(queue) > 0
      /\ Len(queue') = Len(queue) - 1 /\ \A i \in 1..Len(queue') : queue'[i] = queue[i + 1]
  BY <1>1, <1>3, <1>4
<1>6. b \in Bags \ {NoBag}
  BY <1>2, <1>5 DEF Item
<1>7. \A x : x # b /\ InQueue(queue, x) => InQueue(queue', x)
  <2> SUFFICES ASSUME NEW x, x # b, InQueue(queue, x)
               PROVE  InQueue(queue', x)
    OBVIOUS
  <2>1. PICK i \in 1..Len(queue) : queue[i].bag = x
    BY DEF InQueue
  <2>2. i # 1
    BY <1>2, <1>5, <2>1
  <2>3. i - 1 \in 1..Len(queue') /\ (i - 1) + 1 = i
    BY <1>5, <2>2
  <2>4. queue'[i - 1] = queue[i]
    BY <1>5, <2>3
  <2> QED BY <2>1, <2>3, <2>4 DEF InQueue
<1>8. /\ torrents' \in [DOMAIN torrents -> States] /\ DOMAIN torrents' = DOMAIN torrents
      /\ \A x \in DOMAIN torrents : x # b => torrents'[x] = torrents[x]
      /\ b \in DOMAIN torrents =>
            /\ torrents'[b].st = "new" => loop' = h
            /\ torrents'[b].hdr = torrents[b].hdr
            /\ torrents'[b].st = torrents[b].st \/ (torrents[b].st = "new" /\ torrents'[b].st = "fetch")
      /\ loop' = NoItem \/ (loop' = h /\ b \in DOMAIN torrents /\ torrents[b].st = "new")
  <2>0. torrents \in [DOMAIN torrents -> States]
    BY <1>0 DEF Typed
  <2>1. CASE /\ Stored(b) /\ ~Downloading(b) /\ ~Complete(b)
             /\ loop' = h /\ torrents' = [torrents EXCEPT ![b].st = "fetch"]
    <3>1. b \in DOMAIN torrents /\ torrents[b].st = "new"
      BY <2>0, <2>1 DEF Stored, Downloading, Complete, States
    <3>2. PICK tr2 : tr2 = [torrents EXCEPT ![b].st = "fetch"]
      OBVIOUS
    <3>3. /\ tr2 \in [DOMAIN torrents -> States] /\ DOMAIN tr2 = DOMAIN torrents
          /\ tr2[b].st = "fetch" /\ tr2[b].hdr = torrents[b].hdr
          /\ \A x \in DOMAIN torrents : x # b => tr2[x] = torrents[x]
      BY <2>0, <3>1, <3>2, StateFacts
    <3>4. torrents' = tr2
      BY <2>1, <3>2
    <3> QED BY <2>1, <3>1, <3>3, <3>4
  <2>3. CASE Stored(b) /\ ~Downloading(b) /\ ~Complete(b) /\ loop' = h /\ torrents' = torrents
    <3>1. b \in DOMAIN torrents /\ torrents[b].st = "new"
      BY <2>0, <2>3 DEF Stored, Downloading, Complete, States
    <3> QED BY <2>0, <2>3, <3>1
  <2>2. CASE ~(Stored(b) /\ ~Downloading(b) /\ ~Complete(b)) /\ UNCHANGED <<loop, torrents>>
    <3>1. b \in DOMAIN torrents => torrents[b].st # "new"
      BY <2>2 DEF Stored, Downloading, Complete
    <3>2. loop' = NoItem /\ torrents' = torrents
      BY <1>3, <2>2
    <3> QED BY <2>0, <3>1, <3>2
  <2> QED BY <1>3, <2>1, <2>2, <2>3
<1>9. /\ Counted' /\ op' \in [Threads -> Request] /\ requests' \in Nat
      /\ \A u \in Threads :
            /\ op'[u].pc \in {"record", "download", "queue"} => op'[u].bag # NoBag /\ op'[u].bag.by # Here
            /\ op'[u].pc \in {"save", "put", "answer"} => op'[u].bag.by = Here
            /\ op'[u].pc \in {"put", "answer"} => op'[u].bag \in DOMAIN torrents' \/ op'[u].bag \in dropped'
  BY <1>3, <1>8, RequestsKept
<1>10. Typed'
  <2>1. loop' \in Item \cup {NoItem}
    BY <1>5, <1>8
  <2> QED BY <1>0, <1>3, <1>5, <1>8, <1>9, <2>1 DEF Typed
<1>11. SlotKept'
  BY <1>0, <1>3 DEF SlotKept, FreeSlot
<1>12. Kept'
  <2>1. \A x \in DOMAIN torrents' :
           /\ torrents'[x].st \in {"done", "whole", "stopped"} => torrents'[x].hdr
           /\ x.by = Here => torrents'[x].st \in {"done", "stopped"}
    <3> SUFFICES ASSUME NEW x \in DOMAIN torrents
                 PROVE  /\ torrents'[x].st \in {"done", "whole", "stopped"} => torrents'[x].hdr
                        /\ x.by = Here => torrents'[x].st \in {"done", "stopped"}
      BY <1>8
    <3>1. /\ torrents[x].st \in {"done", "whole", "stopped"} => torrents[x].hdr
          /\ x.by = Here => torrents[x].st \in {"done", "stopped"}
      BY <1>0 DEF Kept, Complete, Stored
    <3> QED BY <1>8, <3>1
  <2>2. loop'.bag.by # Here
    BY <1>0, <1>2, <1>3, <1>8 DEF Kept
  <2>3. \A u \in urls' : u.bag.by = Here /\ (u.bag \in DOMAIN torrents' \/ u.bag \in dropped')
    BY <1>0, <1>3, <1>8 DEF Kept, Stored
  <2> QED BY <1>9, <2>1, <2>2, <2>3 DEF Kept, Complete, Stored
<1>13. Fetched'
  <2> SUFFICES ASSUME NEW x \in DOMAIN torrents', torrents'[x].st = "new" PROVE Awaited(x)'
    BY DEF Fetched
  <2>1. CASE x = b
    BY <1>2, <1>8, <2>1 DEF Awaited
  <2>2. CASE x # b
    <3>1. Awaited(x)
      BY <1>0, <1>8, <2>2 DEF Fetched
    <3>2. loop.bag # x
      BY <1>0, <1>3, <1>8 DEF NoItem, Typed
    <3> QED BY <1>3, <1>7, <2>2, <3>1, <3>2 DEF Awaited
  <2> QED BY <2>1, <2>2
<1> QED BY <1>9, <1>10, <1>11, <1>12, <1>13 DEF StorageInv

\* The loop records the download it has started, in the slot it had free.
LEMMA ItemStartedKeeps ==
    ASSUME StorageInv, ItemStarted
    PROVE  StorageInv'
<1>0. Typed /\ SlotKept /\ Kept /\ Fetched /\ Counted
  BY DEF StorageInv
<1>1. PICK b : b = loop.bag
  OBVIOUS
<1>2. /\ loop # NoItem /\ active' = active \cup {b} /\ loop' = NoItem
      /\ UNCHANGED <<newFiles, disk, queue, op, urls, dropped, requests>>
      /\ (Stored(b) /\ torrents' = torrents)
         \/ (~Stored(b) /\ \E hdr \in BOOLEAN : torrents' = With(torrents, b, "new", hdr))
      /\ ub' = ub \/ ub' = [bag |-> b, ver |-> loop.ver]
      /\ stalled \subseteq stalled' /\ (torrents'[b].st = "new" => b \in stalled')
  BY <1>1 DEF ItemStarted
<1>3. b \in Bags \ {NoBag} /\ loop.ver \in Nat /\ b.by # Here
  BY <1>0, <1>1, <1>2 DEF Typed, Item, Kept
<1>4. /\ torrents' \in [DOMAIN torrents \cup {b} -> States] /\ DOMAIN torrents' = DOMAIN torrents \cup {b}
      /\ \A x \in DOMAIN torrents : torrents'[x] = torrents[x]
      /\ b \notin DOMAIN torrents => torrents'[b].st = "new"
  <2>1. CASE Stored(b)
    BY <1>0, <1>2, <2>1 DEF Typed, Stored
  <2>2. CASE ~Stored(b)
    <3>1. PICK hdr \in BOOLEAN : torrents' = With(torrents, b, "new", hdr)
      BY <1>2, <2>2
    <3> QED BY <1>0, <2>2, <3>1 DEF Typed, Stored, With, States
  <2> QED BY <2>1, <2>2
<1>5. /\ Counted' /\ op' \in [Threads -> Request] /\ requests' \in Nat
      /\ \A u \in Threads :
            /\ op'[u].pc \in {"record", "download", "queue"} => op'[u].bag # NoBag /\ op'[u].bag.by # Here
            /\ op'[u].pc \in {"save", "put", "answer"} => op'[u].bag.by = Here
            /\ op'[u].pc \in {"put", "answer"} => op'[u].bag \in DOMAIN torrents' \/ op'[u].bag \in dropped'
  BY <1>2, <1>4, RequestsKept
<1>6. /\ IsFiniteSet(active') /\ Cardinality(active') <= Cardinality(active) + 1
      /\ Cardinality(active) \in Nat /\ Cardinality(active') \in Nat
  <2>1. IsFiniteSet(active) /\ active' = active \cup {b}
    BY <1>0, <1>2 DEF Typed
  <2>2. /\ IsFiniteSet(active') /\ Cardinality(active) \in Nat
        /\ Cardinality(active') = IF b \in active THEN Cardinality(active) ELSE Cardinality(active) + 1
    BY <2>1, FS_AddElement, FS_CardinalityType
  <2> QED BY <2>2
<1>7. Typed'
  <2>1. IsFiniteSet(DOMAIN torrents')
    BY <1>0, <1>4, FS_AddElement DEF Typed
  <2>2. ub' \in [bag : Bags, ver : Nat]
    BY <1>0, <1>2, <1>3 DEF Typed
  <2>3. DOMAIN torrents' \subseteq Bags \ {NoBag} /\ active' \in SUBSET (Bags \ {NoBag})
    BY <1>0, <1>2, <1>3, <1>4 DEF Typed
  <2>4. torrents' \in [DOMAIN torrents' -> States]
    BY <1>4
  <2> QED BY <1>0, <1>2, <1>5, <1>6, <2>1, <2>2, <2>3, <2>4 DEF Typed
<1>8. SlotKept'
  BY <1>0, <1>2, <1>6, SlotsAssumption DEF SlotKept
<1>9. Kept'
  <2>1. \A x \in DOMAIN torrents' :
           /\ torrents'[x].st \in {"done", "whole", "stopped"} => torrents'[x].hdr
           /\ x.by = Here => torrents'[x].st \in {"done", "stopped"}
    BY <1>0, <1>3, <1>4 DEF Kept, Complete, Stored
  <2>2. loop'.bag.by # Here
    BY <1>2 DEF NoItem, NoBag, Here
  <2>3. \A u \in urls' : u.bag.by = Here /\ (u.bag \in DOMAIN torrents' \/ u.bag \in dropped')
    BY <1>0, <1>2, <1>4 DEF Kept, Stored
  <2> QED BY <1>5, <2>1, <2>2, <2>3 DEF Kept, Complete, Stored
<1>10. Fetched'
  <2> SUFFICES ASSUME NEW x \in DOMAIN torrents', torrents'[x].st = "new" PROVE Awaited(x)'
    BY DEF Fetched
  <2>1. CASE x = b
    BY <1>2, <2>1 DEF Awaited
  <2>2. CASE x # b
    <3>1. Awaited(x)
      BY <1>0, <1>4, <2>2 DEF Fetched
    <3> QED BY <1>1, <1>2, <2>2, <3>1 DEF Awaited, InQueue
  <2> QED BY <2>1, <2>2
<1> QED BY <1>5, <1>7, <1>8, <1>9, <1>10 DEF StorageInv

\* What torrentStateCallback does when a download gets on: the bag has its
\* header, and may become the bag of the user.
GetsOn(b) ==
    /\ b \in DOMAIN torrents /\ torrents[b].st \in {"fetch", "resume"}
    /\ \E s \in {"fetch", "done", "whole"} : torrents' = With(torrents, b, s, TRUE)
    /\ \/ ub' = ub
       \/ ub' = [bag |-> b, ver |-> Cardinality(b.files)] /\ Replaces(torrents', b, 0, FALSE)
    /\ disk' \in {disk, disk \cup b.files} /\ active' \in {active, active \ {b}}
    /\ UNCHANGED <<newFiles, queue, loop, op, urls, dropped, stalled, requests>>

LEMMA BagGetsOn ==
    ASSUME NEW b, BagResolved(b) \/ BagDone(b) \/ ResumedDone(b)
    PROVE  GetsOn(b)
<1>1. CASE BagResolved(b)
  <2>1. ub' = Saved(b)
    BY <1>1 DEF BagResolved
  <2>2. \/ ub' = ub
        \/ ub' = [bag |-> b, ver |-> Cardinality(b.files)] /\ Replaces(torrents', b, 0, FALSE)
    BY <2>1 DEF Saved
  <2>3. /\ b \in DOMAIN torrents /\ torrents[b].st = "fetch" /\ torrents' = With(torrents, b, "fetch", TRUE)
        /\ disk' \in {disk, disk \cup b.files} /\ active' \in {active, active \ {b}}
        /\ UNCHANGED <<newFiles, queue, loop, op, urls, dropped, stalled, requests>>
    BY <1>1 DEF BagResolved, Stored, rest
  <2> QED BY <2>2, <2>3 DEF GetsOn
<1>2. CASE BagDone(b)
  <2>1. ub' = Saved(b)
    BY <1>2 DEF BagDone
  <2>2. \/ ub' = ub
        \/ ub' = [bag |-> b, ver |-> Cardinality(b.files)] /\ Replaces(torrents', b, 0, FALSE)
    BY <2>1 DEF Saved
  <2>3. /\ b \in DOMAIN torrents /\ torrents[b].st = "fetch" /\ torrents' = With(torrents, b, "done", TRUE)
        /\ disk' \in {disk, disk \cup b.files} /\ active' \in {active, active \ {b}}
        /\ UNCHANGED <<newFiles, queue, loop, op, urls, dropped, stalled, requests>>
    BY <1>2 DEF BagDone, Stored, rest
  <2> QED BY <2>2, <2>3 DEF GetsOn
<1>3. CASE ResumedDone(b)
  BY <1>3 DEF ResumedDone, GetsOn, Stored, rest
<1> QED BY <1>1, <1>2, <1>3

LEMMA GetsOnKeeps ==
    ASSUME StorageInv, NEW b, GetsOn(b)
    PROVE  StorageInv'
<1>0. Typed /\ SlotKept /\ Kept /\ Fetched /\ Counted
  BY DEF StorageInv
<1>1. b \in DOMAIN torrents /\ b \in Bags \ {NoBag} /\ b.by # Here
  BY <1>0 DEF GetsOn, Kept, Typed
<1>2. b.files \subseteq Files /\ Cardinality(b.files) \in Nat
  <2>1. b.files \subseteq Files
    BY <1>1, BagFacts
  <2>2. IsFiniteSet(b.files)
    BY <2>1, SlotsAssumption, FS_Subset
  <2> QED BY <2>1, <2>2, FS_CardinalityType
<1>u. ub' = ub \/ ub' = [bag |-> b, ver |-> Cardinality(b.files)]
  BY DEF GetsOn, Replaces, Version, Larger
<1>3. PICK s \in {"fetch", "done", "whole"} : torrents' = With(torrents, b, s, TRUE)
  BY DEF GetsOn
<1>4. /\ torrents' \in [DOMAIN torrents -> States] /\ DOMAIN torrents' = DOMAIN torrents
      /\ torrents'[b].st = s /\ torrents'[b].hdr
      /\ \A x \in DOMAIN torrents : x # b => torrents'[x] = torrents[x]
  BY <1>0, <1>1, <1>3 DEF Typed, With, States
<1>5. UNCHANGED <<newFiles, queue, loop, op, urls, dropped, stalled, requests>>
  BY DEF GetsOn
<1>6. /\ Counted' /\ op' \in [Threads -> Request] /\ requests' \in Nat
      /\ \A u \in Threads :
            /\ op'[u].pc \in {"record", "download", "queue"} => op'[u].bag # NoBag /\ op'[u].bag.by # Here
            /\ op'[u].pc \in {"save", "put", "answer"} => op'[u].bag.by = Here
            /\ op'[u].pc \in {"put", "answer"} => op'[u].bag \in DOMAIN torrents' \/ op'[u].bag \in dropped'
  BY <1>4, <1>5, RequestsKept
<1>7. /\ active' \subseteq active /\ IsFiniteSet(active')
      /\ Cardinality(active') <= Cardinality(active)
      /\ Cardinality(active) \in Nat /\ Cardinality(active') \in Nat
  <2>1. active' \subseteq active /\ IsFiniteSet(active)
    BY <1>0 DEF Typed, GetsOn
  <2>2. IsFiniteSet(active') /\ Cardinality(active') <= Cardinality(active)
    BY <2>1, FS_Subset
  <2> QED BY <2>1, <2>2, FS_CardinalityType
<1>8. Typed'
  <2>1. ub' \in [bag : Bags, ver : Nat]
    BY <1>0, <1>1, <1>2, <1>u DEF Typed
  <2>2. disk' \in SUBSET Files
    BY <1>0, <1>2 DEF Typed, GetsOn
  <2>3. DOMAIN torrents' \subseteq Bags \ {NoBag} /\ IsFiniteSet(DOMAIN torrents')
    BY <1>0, <1>4 DEF Typed
  <2> QED BY <1>0, <1>4, <1>5, <1>6, <1>7, <2>1, <2>2, <2>3 DEF Typed
<1>9. SlotKept'
  BY <1>0, <1>5, <1>7, SlotsAssumption DEF SlotKept
<1>10. Kept'
  <2>1. \A x \in DOMAIN torrents' :
           /\ torrents'[x].st \in {"done", "whole", "stopped"} => torrents'[x].hdr
           /\ x.by = Here => torrents'[x].st \in {"done", "stopped"}
    BY <1>0, <1>1, <1>4 DEF Kept, Complete, Stored
  <2>2. \A u \in urls' : u.bag.by = Here /\ (u.bag \in DOMAIN torrents' \/ u.bag \in dropped')
    BY <1>0, <1>4, <1>5 DEF Kept, Stored
  <2> QED BY <1>0, <1>5, <1>6, <2>1, <2>2 DEF Kept, Complete, Stored
<1>11. Fetched'
  <2>1. \A x \in DOMAIN torrents' : torrents'[x].st = "new" => x \in DOMAIN torrents /\ torrents[x].st = "new"
    BY <1>1, <1>4
  <2> QED BY <1>0, <1>5, <2>1 DEF Fetched, Awaited, InQueue
<1> QED BY <1>6, <1>8, <1>9, <1>10, <1>11 DEF StorageInv

\* The relay restarts: every torrent that has not begun is queued again.
LEMMA RestartKeeps ==
    ASSUME StorageInv, Restart
    PROVE  StorageInv'
<1>0. Typed /\ SlotKept /\ Kept /\ Fetched /\ Counted
  BY DEF StorageInv
<1>1. PICK w : w = SetToSeq(Waiting)
  OBVIOUS
<1>2. /\ newFiles' = {} /\ active' = {} /\ loop' = NoItem /\ op' = [t \in Threads |-> Idle]
      /\ UNCHANGED <<disk, ub, urls, dropped, requests>>
      /\ torrents' = [b \in DOMAIN torrents |->
                        IF torrents[b].st = "fetch" THEN [torrents[b] EXCEPT !.st = "resume"]
                        ELSE torrents[b]]
      /\ queue' = [i \in 1..Len(w) |-> [bag |-> w[i], ver |-> 0, user |-> torrents[w[i]].hdr]]
  BY <1>1 DEF Restart
<1>3. torrents \in [DOMAIN torrents -> States] /\ DOMAIN torrents \subseteq Bags \ {NoBag}
      /\ IsFiniteSet(DOMAIN torrents)
  BY <1>0 DEF Typed
<1>4. PICK n : n = Cardinality(Waiting)
  OBVIOUS
<1>5. /\ n \in Nat /\ w \in [1..n -> Waiting] /\ Waiting \subseteq DOMAIN torrents
      /\ \A x \in Waiting : \E i \in 1..n : w[i] = x
  <2>1. Waiting \subseteq DOMAIN torrents
    BY DEF Waiting
  <2>2. IsFiniteSet(Waiting)
    BY <1>3, <2>1, FS_Subset
  <2> QED BY <1>1, <1>4, <2>1, <2>2, Listing
<1>6. w \in Seq(Waiting) /\ Len(w) = n
  BY <1>5
<1>7. queue' \in Seq(Item) /\ \A x \in Waiting : InQueue(queue', x)
  <2>1. ASSUME NEW i \in 1..n
        PROVE  [bag |-> w[i], ver |-> 0, user |-> torrents[w[i]].hdr] \in Item
    <3>1. w[i] \in DOMAIN torrents /\ torrents[w[i]].hdr \in BOOLEAN
      BY <1>3, <1>5 DEF States
    <3> QED BY <1>3, <3>1 DEF Item
  <2>2. queue' = [i \in 1..n |-> [bag |-> w[i], ver |-> 0, user |-> torrents[w[i]].hdr]]
    BY <1>2, <1>6
  <2>3. queue' \in [1..n -> Item]
    BY <2>1, <2>2
  <2>4. queue' \in Seq(Item) /\ Len(queue') = n
    BY <1>5, <2>3
  <2>5. \A i \in 1..n : queue'[i].bag = w[i]
    BY <2>2
  <2> QED BY <1>5, <2>4, <2>5 DEF InQueue
<1>8. /\ torrents' \in [DOMAIN torrents -> States] /\ DOMAIN torrents' = DOMAIN torrents
      /\ \A x \in DOMAIN torrents :
            \/ torrents'[x] = torrents[x]
            \/ torrents[x].st = "fetch" /\ torrents'[x].st = "resume"
  <2>1. ASSUME NEW x \in DOMAIN torrents, NEW r, r = [torrents[x] EXCEPT !.st = "resume"]
        PROVE  r \in States /\ r.st = "resume"
    BY <1>3, <2>1 DEF States
  <2> QED BY <1>2, <1>3, <2>1
<1>9. op' \in [Threads -> Request] /\ \A u \in Threads : op'[u] = Idle
  BY <1>2, IdleFacts
<1>10. Typed'
  <2>1. IsFiniteSet(active') /\ active' \in SUBSET (Bags \ {NoBag})
    BY <1>2, FS_EmptySet
  <2>2. newFiles' \in SUBSET Files /\ loop' \in Item \cup {NoItem}
    BY <1>2
  <2>3. torrents' \in [DOMAIN torrents' -> States] /\ DOMAIN torrents' \subseteq Bags \ {NoBag}
        /\ IsFiniteSet(DOMAIN torrents')
    BY <1>3, <1>8
  <2> QED BY <1>0, <1>2, <1>7, <1>9, <2>1, <2>2, <2>3 DEF Typed
<1>11. SlotKept'
  BY <1>2, FS_EmptySet, SlotsAssumption DEF SlotKept
<1>12. Kept'
  <2>1. \A x \in DOMAIN torrents' :
           /\ torrents'[x].st \in {"done", "whole", "stopped"} => torrents'[x].hdr
           /\ x.by = Here => torrents'[x].st \in {"done", "stopped"}
    BY <1>0, <1>8 DEF Kept, Complete, Stored
  <2>2. loop'.bag.by # Here
    BY <1>2 DEF NoItem, NoBag, Here
  <2>3. \A u \in urls' : u.bag.by = Here /\ (u.bag \in DOMAIN torrents' \/ u.bag \in dropped')
    BY <1>0, <1>2, <1>8 DEF Kept, Stored
  <2>4. \A u \in Threads : op'[u].pc = "idle"
    BY <1>9, IdleFacts
  <2> QED BY <2>1, <2>2, <2>3, <2>4 DEF Kept, Complete, Stored
<1>13. Fetched'
  <2>1. \A x \in DOMAIN torrents' : torrents'[x].st = "new" => InQueue(queue', x)
    BY <1>7, <1>8 DEF Waiting
  <2> QED BY <2>1 DEF Fetched, Awaited
<1>14. Counted'
  <2>1. requests \in Nat /\ requests' = requests
    BY <1>0, <1>2 DEF Typed
  <2>2. \A u \in Threads : op'[u].pc = "idle" /\ op'[u].since = 0
    BY <1>9, IdleFacts
  <2> QED BY <2>1, <2>2 DEF Counted
<1> QED BY <1>10, <1>11, <1>12, <1>13, <1>14 DEF StorageInv

-----------------------------------------------------------------------------
\* The file storage starts with nothing stored.
LEMMA StorageInit == Init => StorageInv
<1> SUFFICES ASSUME Init PROVE StorageInv
  OBVIOUS
<1>1. DOMAIN torrents = {} /\ torrents \in [DOMAIN torrents -> States]
  BY DEF Init
<1>2. IsFiniteSet(DOMAIN torrents)
  BY <1>1, FS_EmptySet
<1>3. IsFiniteSet(active) /\ Cardinality(active) = 0 /\ active = {}
  BY FS_EmptySet DEF Init
<1>4. op \in [Threads -> Request] /\ \A t \in Threads : op[t].pc = "idle" /\ op[t].since = 0
  BY IdleFacts DEF Init
<1>5. ub = [bag |-> NoBag, ver |-> 0] /\ ub \in [bag : Bags, ver : Nat] /\ ub.bag = NoBag
  BY BagFacts DEF Init
<1>6. queue \in Seq(Item)
  BY DEF Init
<1>7. Typed
  BY <1>1, <1>2, <1>3, <1>4, <1>5, <1>6 DEF Init, Typed
<1>8. SlotKept
  BY <1>3, SlotsAssumption DEF SlotKept, Init
<1>9. loop.bag.by # Here
  BY DEF Init, NoItem, NoBag, Here
<1>10. Kept
  BY <1>1, <1>4, <1>9 DEF Kept, Init
<1>11. Fetched
  BY <1>1 DEF Fetched
<1>12. Counted
  BY <1>4 DEF Counted, Init
<1> QED BY <1>7, <1>8, <1>10, <1>11, <1>12 DEF StorageInv

\* Every step of the file storage keeps the invariant.
LEMMA StorageStep ==
    ASSUME StorageInv, Next
    PROVE  StorageInv'
<1>1. CASE \E t \in Threads :
             \/ \E f \in Files : \/ SaveFile(t, f) \/ PreFinishResponseCallback(t, f)
                                 \/ processEventDeletion(t, f) \/ Delete(t, f)
             \/ Mismatch(t) \/ StartUpload(t) \/ upload(t) \/ saveTorrent(t)
             \/ saveUploadTorrent(t) \/ Answer(t) \/ DeleteUser(t)
             \/ saveBagPerUser(t) \/ download(t) \/ Enqueue(t)
             \/ \E a \in Announced : newBagIDPromoted(t, a)
  <2>1. PICK t \in Threads :
             \/ FileStep(t) \/ saveTorrent(t) \/ saveUploadTorrent(t) \/ Answer(t)
             \/ DeleteUser(t) \/ PromotionStep(t) \/ \E a \in Announced : newBagIDPromoted(t, a)
    BY <1>1 DEF FileStep, PromotionStep
  <2> QED BY <2>1, FileKeeps, SaveKeeps, PutKeeps, AnswerKeeps, DeleteUserKeeps, PromoteKeeps,
             RecordKeeps, DownloadKeeps, EnqueueKeeps DEF PromotionStep
<1>2. CASE \E b \in DOMAIN torrents : BagResolved(b) \/ BagDone(b) \/ ResumedDone(b)
  <2>1. PICK b : GetsOn(b)
    BY <1>2, BagGetsOn
  <2> QED BY <2>1, GetsOnKeeps
<1> QED BY <1>1, <1>2, TakeItemKeeps, ItemStartedKeeps, RestartKeeps DEF Next

LEMMA StorageStutter ==
    ASSUME StorageInv, UNCHANGED vars
    PROVE  StorageInv'
<1>1. Typed' /\ SlotKept'
  BY DEF StorageInv, Typed, SlotKept, vars
<1>2. Kept'
  BY DEF StorageInv, Kept, Complete, Stored, vars
<1>3. Fetched' /\ Counted'
  BY DEF StorageInv, Fetched, Awaited, InQueue, Counted, vars
<1> QED BY <1>1, <1>2, <1>3 DEF StorageInv

LEMMA StorageInvariant == ConsumersSpec => []StorageInv
<1>1. ConsumersInit => StorageInv
  BY StorageInit DEF ConsumersInit
<1>2. ASSUME StorageInv, [ConsumersNext]_consumerVars
      PROVE  StorageInv'
  <2>1. Next \/ UNCHANGED vars
    BY <1>2 DEF ConsumersNext, consumerVars
  <2> QED BY <1>2, <2>1, StorageStep, StorageStutter
<1> QED BY <1>1, <1>2, PTL DEF ConsumersSpec

\* A bag whose URL an upload answered stays stored until the user is deleted:
\* what replaces the bag of the user (saveTorrent, newBagIDPromoted) removes only
\* torrents that are still downloaded, and a bag made here never is.  At most
\* Slots downloads are under way.
THEOREM UploadsAreStored == ConsumersSpec => []UploadsStored
<1>1. ASSUME StorageInv PROVE UploadsStored
  <2>0. Typed /\ SlotKept /\ Kept
    BY <1>1 DEF StorageInv
  <2>1. TypeOK
    BY <2>0 DEF Typed, SlotKept, Kept, TypeOK
  <2>2. \A u \in urls : Complete(u.bag) \/ u.bag \in dropped
    BY <2>0 DEF Kept, Complete, Stored
  <2> QED BY <2>1, <2>2 DEF UploadsStored
<1> QED BY <1>1, StorageInvariant, PTL

\* No stored torrent is forgotten, whatever order announcements, downloads and
\* restarts come in: one that has not begun is in the queue, with the loop or
\* with the request that stored it (newBagIDPromoted, download), or it stalled
\* since the last restart, which queues all that wait.
THEOREM TorrentsAreFetched == ConsumersSpec => []TorrentsFetched
<1>1. ASSUME StorageInv PROVE TorrentsFetched
  <2>0. Typed /\ Fetched
    BY <1>1 DEF StorageInv
  <2> SUFFICES ASSUME NEW b \in DOMAIN torrents
               PROVE  Complete(b) \/ Downloading(b) \/ Awaited(b)
    BY DEF TorrentsFetched, Awaited, InQueue
  <2>1. torrents[b].st \in {"new", "fetch", "resume", "done", "whole", "stopped"}
    BY <2>0 DEF Typed, States
  <2> QED BY <2>0, <2>1 DEF Fetched, Complete, Downloading, Stored
<1> QED BY <1>1, StorageInvariant, PTL

-----------------------------------------------------------------------------
(* An upload that runs alone.                                              *)

Uploading == {"build", "save", "put"}

\* A new request ends the privilege of the uploads under way.
LEMMA NewRequestAdds ==
    ASSUME StorageInv, NEW u \in Threads, NEW r, Becomes(u, r),
           requests' = requests + 1, r.pc \notin Uploading
    PROVE  AddInv'
<1> SUFFICES ASSUME NEW t \in Threads, Alone(t)' PROVE FALSE
  BY DEF AddInv
<1>1. t # u
  BY DEF Alone, Becomes, Uploading
<1>2. op'[t] = op[t] /\ op'[t].since = requests + 1
  BY <1>1 DEF Alone, Becomes
<1>3. op[t].since \in Nat /\ requests \in Nat /\ op[t].since <= requests
  BY DEF StorageInv, Typed, Request, Counted
<1> QED BY <1>2, <1>3

\* A request that goes on has no other upload beside it that is alone.
LEMMA OnlyOne ==
    ASSUME AddInv, NEW u \in Threads, NEW r, Becomes(u, r), requests' = requests, op[u].pc # "idle"
    PROVE  \A t \in Threads : Alone(t)' => t = u
<1> SUFFICES ASSUME NEW t \in Threads, Alone(t)', t # u PROVE FALSE
  OBVIOUS
<1>1. op'[t] = op[t]
  BY DEF Becomes
<1>2. Alone(t)
  BY <1>1 DEF Alone
<1>3. op[u] = Idle
  BY <1>2 DEF AddInv, Adding
<1> QED BY <1>3, IdleFacts

LEMMA LeavesAdds ==
    ASSUME AddInv, NEW u \in Threads, NEW r, Becomes(u, r), requests' = requests, op[u].pc # "idle",
           r.pc \notin Uploading
    PROVE  AddInv'
<1> SUFFICES ASSUME NEW t \in Threads, Alone(t)' PROVE FALSE
  BY DEF AddInv
<1>1. t = u
  BY OnlyOne
<1> QED BY <1>1 DEF Alone, Becomes, Uploading

\* Adding, for the state after a step of t.
LEMMA OthersIdle ==
    ASSUME NEW t \in Threads, NEW r, Becomes(t, r), \A u \in Threads \ {t} : op[u] = Idle
    PROVE  \A u \in Threads \ {t} : op'[u] = Idle
BY DEF Becomes

\* StartUpload from a settled state.
LEMMA StartAdds ==
    ASSUME StorageInv, AddInv, NEW t \in Threads, StartUpload(t)
    PROVE  AddInv'
<1>0. Typed /\ Kept /\ Counted /\ op[t] \in Request
  BY DEF StorageInv, Typed
<1>1. PICK b : b = bagByUser
  OBVIOUS
<1>2. PICK h : h = HeaderFiles(b)
  OBVIOUS
<1>3. PICK n : n = IF Settled(t) THEN requests ELSE 0
  OBVIOUS
<1>4. b \in Bags /\ h \in SUBSET Files /\ n \in Nat /\ requests \in Nat
  BY <1>0, <1>1, <1>2, <1>3, UserBag DEF Typed
<1>5. PICK r : r = [op[t] EXCEPT !.pc = "build", !.base = b, !.had = h, !.since = n]
  OBVIOUS
<1>6. r \in Request /\ r.pc = "build" /\ r.base = b /\ r.had = h /\ r.since = n /\ r.file = op[t].file
  BY <1>0, <1>4, <1>5 DEF Request, PCs
<1>7. op' = [op EXCEPT ![t] = r] \/ op' = [op EXCEPT ![t] = Idle]
  <2>1. op' = [op EXCEPT ![t] = IF ~op[t].del /\ op[t].file \in HeaderFiles(b) THEN Idle ELSE r]
    BY <1>1, <1>2, <1>3, <1>5 DEF StartUpload
  <2> QED BY <2>1
<1>8. /\ UNCHANGED <<newFiles, disk, ub, torrents, loop, requests>> /\ op[t].pc = "saved"
  BY DEF StartUpload, rest
<1>9. CASE op' = [op EXCEPT ![t] = Idle]
  <2>1. Becomes(t, Idle)
    BY <1>0, <1>9, Goes, IdleFacts
  <2> QED BY <1>8, <2>1, IdleFacts, LeavesAdds DEF Uploading
<1>10. CASE op' = [op EXCEPT ![t] = r]
  <2>1. Becomes(t, r)
    BY <1>0, <1>6, <1>10, Goes
  <2> SUFFICES ASSUME Alone(t)' PROVE Adding(t)'
    BY <1>8, <2>1, OnlyOne DEF AddInv
  <2>2. op'[t] = r
    BY <2>1 DEF Becomes
  <2>3. Settled(t)
    <3>1. requests >= 1
      BY <1>0, <1>8 DEF Counted
    <3>2. r.since = requests
      BY <1>8, <2>2 DEF Alone
    <3> QED BY <1>3, <1>4, <1>6, <3>1, <3>2
  <2>4. /\ \A u \in Threads \ {t} : op[u] = Idle
        /\ b = NoBag \/ Complete(b)
        /\ b.files \cup newFiles \cup {op[t].file} \subseteq disk
    BY <1>1, <2>3 DEF Settled
  <2>5. \A u \in Threads \ {t} : op'[u] = Idle
    BY <2>1, <2>4, OthersIdle
  <2>6. h = b.files
    <3>1. CASE b = NoBag
      <4>1. NoBag \notin DOMAIN torrents
        BY <1>0 DEF Typed
      <4> QED BY <1>2, <3>1, <4>1, BagFacts DEF HeaderFiles, Stored
    <3>2. CASE Complete(b)
      <4>1. b \in DOMAIN torrents /\ torrents[b].hdr
        BY <1>0, <3>2 DEF Kept, Complete, Stored
      <4> QED BY <1>2, <4>1 DEF HeaderFiles, Stored
    <3> QED BY <2>4, <3>1, <3>2
  <2>7. b # NoBag => ub.bag = b
    BY <1>0, <1>1, UserBag
  <2>8. b = NoBag \/ Complete(b)'
    BY <1>8, <2>4 DEF Complete, Stored
  <2>9. /\ op'[t].base = b /\ op'[t].had = b.files /\ op'[t].pc = "build" /\ op'[t].file = op[t].file
    BY <1>6, <2>2, <2>6
  <2> QED BY <1>8, <2>4, <2>5, <2>7, <2>8, <2>9 DEF Adding, Complete, Stored
<1> QED BY <1>7, <1>9, <1>10

\* upload: the files are all on the disk, so the bag has them.
LEMMA UploadAddsFiles ==
    ASSUME StorageInv, AddInv, NEW t \in Threads, upload(t)
    PROVE  AddInv'
<1>0. Typed /\ op[t] \in Request /\ newFiles \in SUBSET Files /\ disk \in SUBSET Files
  BY DEF StorageInv, Typed
<1>1. PICK M : M = Merged(op[t])
  OBVIOUS
<1>2. PICK B : B = [files |-> M, by |-> Here]
  OBVIOUS
<1>3. B \in Bags /\ B.files = M
  <2>1. M \in SUBSET Files
    BY <1>0, <1>1 DEF Merged
  <2> QED BY <1>2, <2>1, BagFacts
<1>4. PICK r : r = [op[t] EXCEPT !.pc = "save", !.bag = B]
  OBVIOUS
<1>5. /\ r \in Request /\ r.pc = "save" /\ r.bag = B /\ r.since = op[t].since /\ r.base = op[t].base
      /\ r.had = op[t].had /\ r.file = op[t].file /\ r.del = op[t].del
  BY <1>0, <1>3, <1>4 DEF Request, PCs
<1>6. op' = [op EXCEPT ![t] = r] /\ op[t].pc = "build"
      /\ UNCHANGED <<newFiles, disk, ub, torrents, loop, requests>>
  BY <1>1, <1>2, <1>4 DEF upload, rest
<1>7. Becomes(t, r)
  BY <1>0, <1>5, <1>6, Goes
<1> SUFFICES ASSUME Alone(t)' PROVE Adding(t)'
  BY <1>6, <1>7, OnlyOne DEF AddInv
<1>8. op'[t] = r
  BY <1>7 DEF Becomes
<1>9. Alone(t)
  BY <1>5, <1>6, <1>8 DEF Alone
<1>10. Adding(t) /\ ~op[t].del
  BY <1>9 DEF AddInv, Alone
<1>11. \A u \in Threads \ {t} : op'[u] = Idle
  BY <1>7, <1>10, OthersIdle DEF Adding
<1>12. /\ op[t].had = op[t].base.files
       /\ op[t].base.files \cup newFiles \cup {op[t].file} \subseteq disk
  BY <1>10 DEF Adding
<1>13. op[t].base.files \cup newFiles \cup {op[t].file} \subseteq M
  BY <1>1, <1>10, <1>12 DEF Merged
<1>14. op[t].base = NoBag \/ Complete(op[t].base)
  BY <1>10 DEF Adding
<1>15. op[t].base # NoBag /\ loop.bag = op[t].base =>
          ub.bag = op[t].base \/ (Stored(ub.bag) /\ torrents[ub.bag].hdr)
  BY <1>10 DEF Adding
<1> QED BY <1>3, <1>5, <1>6, <1>8, <1>11, <1>12, <1>13, <1>14, <1>15 DEF Adding, Complete, Stored

\* The files of a bag can be counted.
LEMMA FilesCounted ==
    ASSUME NEW S \in SUBSET Files
    PROVE  IsFiniteSet(S) /\ Cardinality(S) \in Nat
BY SlotsAssumption, FS_Subset, FS_CardinalityType

\* saveTorrent: a bag that is not taken is smaller than the bag of the user,
\* which is therefore not the one the upload is based on.
LEMMA SaveAdds ==
    ASSUME StorageInv, AddInv, NEW t \in Threads, saveTorrent(t)
    PROVE  AddInv'
<1>0. Typed /\ Kept /\ op[t] \in Request
  BY DEF StorageInv, Typed
<1>1. PICK r \in Request :
         /\ Becomes(t, r) /\ op[t].pc = "save" /\ r.pc = "put"
         /\ r.bag = op[t].bag /\ r.base = op[t].base /\ r.file = op[t].file /\ r.had = op[t].had
         /\ r.del = op[t].del /\ r.since = op[t].since
         /\ r.take = Replaces(torrents', op[t].bag, 0, op[t].del)
  BY <1>0, SaveEffect
<1>2. UNCHANGED <<newFiles, disk, ub, loop, requests>>
  BY DEF saveTorrent, rest
<1> SUFFICES ASSUME Alone(t)' PROVE Adding(t)'
  BY <1>1, <1>2, OnlyOne DEF AddInv
<1>3. op'[t] = r
  BY <1>1 DEF Becomes
<1>4. Alone(t)
  BY <1>1, <1>2, <1>3 DEF Alone
<1>5. Adding(t) /\ ~op[t].del
  BY <1>4 DEF AddInv, Alone
<1>6. \A u \in Threads \ {t} : op'[u] = Idle
  BY <1>1, <1>5, OthersIdle DEF Adding
<1>7. PICK B : B = op[t].bag
  OBVIOUS
<1>8. PICK o : o = op[t].base
  OBVIOUS
<1>9. /\ o = NoBag \/ Complete(o)
      /\ op[t].had = o.files
      /\ o.files \cup newFiles \cup {op[t].file} \subseteq disk
      /\ o.files \cup newFiles \cup {op[t].file} \subseteq B.files
      /\ o # NoBag /\ loop.bag = o => ub.bag = o \/ (Stored(ub.bag) /\ torrents[ub.bag].hdr)
  BY <1>1, <1>5, <1>7, <1>8 DEF Adding
<1>10. B \in Bags /\ B # NoBag /\ o \in Bags /\ ub.bag \in Bags
  BY <1>0, <1>1, <1>7, <1>8, BagFacts DEF Kept, Typed, Request
<1>11. torrents' = With(torrents, B, "done", TRUE)
  BY <1>7 DEF saveTorrent
<1>12. /\ DOMAIN torrents' = DOMAIN torrents \cup {B}
       /\ torrents'[B].st = "done" /\ torrents'[B].hdr
       /\ \A x \in DOMAIN torrents : x # B => torrents'[x] = torrents[x]
  BY <1>0, <1>11 DEF Typed, With
<1>13. o = NoBag \/ (o \in DOMAIN torrents' /\ torrents'[o].st \in {"done", "whole", "stopped"} /\ torrents'[o].hdr)
  BY <1>0, <1>9, <1>12 DEF Kept, Complete, Stored
<1>14. o # NoBag /\ loop.bag = o => ub.bag = o \/ (ub.bag \in DOMAIN torrents' /\ torrents'[ub.bag].hdr)
  BY <1>9, <1>12 DEF Stored
<1>15. ASSUME ~r.take
       PROVE  /\ ub.bag # o /\ ub.bag \in DOMAIN torrents'
              /\ (IF torrents'[ub.bag].hdr THEN Cardinality(ub.bag.files) ELSE ub.ver) > Cardinality(o.files)
  <2>1. PICK v : v = IF ub.bag \notin DOMAIN torrents' THEN 0
                     ELSE IF torrents'[ub.bag].hdr THEN Cardinality(ub.bag.files) ELSE ub.ver
    OBVIOUS
  <2>2. ~(Cardinality(B.files) >= Larger(Cardinality(newFiles), v))
    BY <1>1, <1>5, <1>7, <1>12, <1>15, <2>1 DEF Replaces, Version
  <2>3. /\ B.files \in SUBSET Files /\ ub.bag.files \in SUBSET Files /\ newFiles \in SUBSET Files
        /\ ub.ver \in Nat
    BY <1>0, <1>10, BagFacts DEF Typed
  <2>4. /\ Cardinality(B.files) \in Nat /\ Cardinality(ub.bag.files) \in Nat
        /\ Cardinality(newFiles) \in Nat /\ IsFiniteSet(B.files)
    BY <2>3, FilesCounted
  <2>5. Cardinality(newFiles) <= Cardinality(B.files) /\ Cardinality(o.files) <= Cardinality(B.files)
        /\ Cardinality(o.files) \in Nat
    <3>1. newFiles \subseteq B.files /\ o.files \subseteq B.files
      BY <1>9
    <3>2. IsFiniteSet(o.files)
      BY <2>4, <3>1, FS_Subset
    <3> QED BY <2>4, <3>1, <3>2, FS_Subset, FS_CardinalityType
  <2>6. v \in Nat
    BY <2>1, <2>3, <2>4
  <2>7. v > Cardinality(o.files)
    BY <2>2, <2>4, <2>5, <2>6 DEF Larger
  <2>8. ub.bag \in DOMAIN torrents'
    BY <2>1, <2>5, <2>7
  <2>9. ub.bag # o
    <3>1. NoBag \notin DOMAIN torrents'
      BY <1>0, <1>10, <1>12 DEF Typed
    <3>2. CASE o = NoBag
      BY <2>8, <3>1, <3>2
    <3>3. CASE torrents'[o].hdr
      BY <2>1, <2>5, <2>7, <2>8, <3>3
    <3> QED BY <1>13, <3>2, <3>3
  <2> QED BY <2>1, <2>7, <2>8, <2>9
<1>16. /\ op'[t].base = o /\ op'[t].had = o.files /\ op'[t].file = op[t].file /\ op'[t].bag = B
       /\ op'[t].pc = "put" /\ op'[t].take = r.take
  BY <1>1, <1>3, <1>7, <1>8, <1>9
<1>17. Complete(o)' \/ o = NoBag
  BY <1>13 DEF Complete, Stored
<1>18. ~r.take => ub'.bag # o /\ ub'.bag \in DOMAIN torrents' /\ Version(torrents)' > Cardinality(o.files)
  BY <1>2, <1>15 DEF Version
<1>19. o.files \cup newFiles' \cup {op'[t].file} \subseteq disk' /\ o.files \cup newFiles' \cup {op'[t].file} \subseteq B.files
  BY <1>2, <1>9, <1>16
<1> QED BY <1>2, <1>6, <1>14, <1>16, <1>17, <1>18, <1>19 DEF Adding, Stored

\* The parts of Adding that the queue and the torrent library could disturb.
Undisturbed(t) ==
    LET b == op[t].base IN
    /\ b = NoBag \/ (b \in DOMAIN torrents' /\ torrents'[b].st \in {"done", "whole", "stopped"})
    /\ b # NoBag /\ loop'.bag = b =>
          ub'.bag = b \/ (ub'.bag \in DOMAIN torrents' /\ torrents'[ub'.bag].hdr)
    /\ op[t].pc = "put" /\ ~op[t].take =>
          /\ ub'.bag # b /\ ub'.bag \in DOMAIN torrents'
          /\ b # NoBag /\ loop'.bag = b =>
                (IF torrents'[ub'.bag].hdr THEN Cardinality(ub'.bag.files) ELSE ub'.ver) > Cardinality(b.files)

LEMMA UndisturbedAdds ==
    ASSUME AddInv, UNCHANGED <<op, newFiles, requests>>, disk \subseteq disk',
           \A t \in Threads : Alone(t) => Undisturbed(t)
    PROVE  AddInv'
<1> SUFFICES ASSUME NEW t \in Threads, Alone(t)' PROVE Adding(t)'
  BY DEF AddInv
<1>1. Alone(t)
  BY DEF Alone
<1>2. Adding(t) /\ Undisturbed(t)
  BY <1>1 DEF AddInv
<1>3. PICK o : o = op[t]
  OBVIOUS
<1>4. op'[t] = o
  BY <1>3
<1>5. /\ \A u \in Threads \ {t} : op'[u] = Idle
      /\ o.had = o.base.files
      /\ o.base.files \cup newFiles' \cup {o.file} \subseteq disk'
      /\ o.pc # "build" => o.base.files \cup newFiles' \cup {o.file} \subseteq o.bag.files
  BY <1>2, <1>3 DEF Adding
<1>6. o.base = NoBag \/ Complete(o.base)'
  BY <1>2, <1>3 DEF Undisturbed, Complete, Stored
<1>7. o.base # NoBag /\ loop'.bag = o.base =>
          ub'.bag = o.base \/ (ub'.bag \in DOMAIN torrents' /\ torrents'[ub'.bag].hdr)
  BY <1>2, <1>3 DEF Undisturbed
<1>8. o.pc = "put" /\ ~o.take =>
          /\ ub'.bag # o.base /\ ub'.bag \in DOMAIN torrents'
          /\ o.base # NoBag /\ loop'.bag = o.base => Version(torrents)' > Cardinality(o.base.files)
  BY <1>2, <1>3 DEF Undisturbed, Version
<1> QED BY <1>4, <1>5, <1>6, <1>7, <1>8 DEF Adding, Stored

\* Of an upload that is alone: the bag it is based on is complete.
LEMMA BaseFacts ==
    ASSUME StorageInv, AddInv, NEW t \in Threads, Alone(t), NEW b, b = op[t].base
    PROVE  /\ b \in Bags
           /\ b = NoBag \/ (/\ b \in DOMAIN torrents /\ torrents[b].hdr
                            /\ torrents[b].st \in {"done", "whole", "stopped"})
           /\ b # NoBag /\ loop.bag = b =>
                 ub.bag = b \/ (ub.bag \in DOMAIN torrents /\ torrents[ub.bag].hdr)
           /\ op[t].pc = "put" /\ ~op[t].take =>
                 /\ ub.bag # b /\ ub.bag \in DOMAIN torrents
                 /\ b # NoBag /\ loop.bag = b =>
                       (IF torrents[ub.bag].hdr THEN Cardinality(ub.bag.files) ELSE ub.ver) > Cardinality(b.files)
<1>0. Typed /\ Kept /\ Adding(t)
  BY DEF StorageInv, AddInv
<1>1. b \in Bags
  BY <1>0 DEF Typed, Request
<1>2. b = NoBag \/ Complete(b)
  BY <1>0 DEF Adding
<1>3. b # NoBag /\ loop.bag = b => ub.bag = b \/ (ub.bag \in DOMAIN torrents /\ torrents[ub.bag].hdr)
  BY <1>0 DEF Adding, Stored
<1>4. op[t].pc = "put" /\ ~op[t].take =>
         /\ ub.bag # b /\ ub.bag \in DOMAIN torrents
         /\ b # NoBag /\ loop.bag = b => Version(torrents) > Cardinality(b.files)
  BY <1>0 DEF Adding, Stored
<1> QED BY <1>0, <1>1, <1>2, <1>3, <1>4 DEF Kept, Complete, Stored, Version

\* The loop takes an item: it has not begun, so it is not the base.
LEMMA TakeItemAdds ==
    ASSUME StorageInv, AddInv, TakeItem
    PROVE  AddInv'
<1>0. torrents \in [DOMAIN torrents -> States]
  BY DEF StorageInv, Typed
<1>1. PICK c : c = Head(queue).bag
  OBVIOUS
<1>2. UNCHANGED <<newFiles, disk, ub, op, requests>> /\ loop = NoItem
  BY DEF TakeItem
<1>3. \/ torrents' = torrents /\ loop' = loop
      \/ /\ c \in DOMAIN torrents /\ torrents[c].st = "new" /\ loop'.bag = c
         /\ DOMAIN torrents' = DOMAIN torrents /\ torrents'[c].hdr = torrents[c].hdr
         /\ \A x \in DOMAIN torrents : x # c => torrents'[x] = torrents[x]
  <2>1. CASE UNCHANGED <<loop, torrents>>
    BY <2>1
  <2>2. CASE /\ Stored(c) /\ ~Downloading(c) /\ ~Complete(c)
             /\ loop' = Head(queue) /\ torrents' = [torrents EXCEPT ![c].st = "fetch"]
    <3>1. c \in DOMAIN torrents /\ torrents[c].st = "new" /\ loop'.bag = c
      BY <1>0, <1>1, <2>2 DEF Stored, Downloading, Complete, States
    <3>2. PICK tr2 : tr2 = [torrents EXCEPT ![c].st = "fetch"]
      OBVIOUS
    <3>3. /\ DOMAIN tr2 = DOMAIN torrents /\ tr2[c].hdr = torrents[c].hdr
          /\ \A x \in DOMAIN torrents : x # c => tr2[x] = torrents[x]
      BY <1>0, <3>1, <3>2, StateFacts
    <3>4. torrents' = tr2
      BY <2>2, <3>2
    <3> QED BY <3>1, <3>3, <3>4
  <2>3. CASE Stored(c) /\ ~Downloading(c) /\ ~Complete(c) /\ loop' = Head(queue) /\ torrents' = torrents
    BY <1>0, <1>1, <2>3 DEF Stored, Downloading, Complete, States
  <2> QED BY <1>1, <2>1, <2>2, <2>3 DEF TakeItem
<1>4. ASSUME NEW t \in Threads, Alone(t) PROVE Undisturbed(t)
  <2>1. PICK b : b = op[t].base
    OBVIOUS
  <2>2. /\ b = NoBag \/ (/\ b \in DOMAIN torrents /\ torrents[b].st \in {"done", "whole", "stopped"})
        /\ op[t].pc = "put" /\ ~op[t].take => ub.bag # b /\ ub.bag \in DOMAIN torrents
    BY <1>4, <2>1, BaseFacts
  <2>3. b # NoBag => loop'.bag # b
    <3>1. NoItem.bag = NoBag
      BY DEF NoItem
    <3> QED BY <1>2, <1>3, <2>2, <3>1
  <2>4. b = NoBag \/ (b \in DOMAIN torrents' /\ torrents'[b].st \in {"done", "whole", "stopped"})
    BY <1>3, <2>2
  <2>5. op[t].pc = "put" /\ ~op[t].take => ub'.bag # b /\ ub'.bag \in DOMAIN torrents'
    BY <1>2, <1>3, <2>2
  <2> QED BY <2>1, <2>3, <2>4, <2>5 DEF Undisturbed
<1> QED BY <1>2, <1>4, UndisturbedAdds

\* The loop records the item: the base does not come back over a larger bag.
LEMMA ItemStartedAdds ==
    ASSUME StorageInv, AddInv, ItemStarted
    PROVE  AddInv'
<1>0. Typed /\ torrents \in [DOMAIN torrents -> States]
  BY DEF StorageInv, Typed
<1>1. PICK c : c = loop.bag
  OBVIOUS
<1>2. PICK tr : /\ (Stored(c) /\ tr = torrents) \/ (~Stored(c) /\ \E hdr \in BOOLEAN : tr = With(torrents, c, "new", hdr))
                /\ torrents' = tr
                /\ \/ ub' = ub
                   \/ ub' = [bag |-> c, ver |-> loop.ver] /\ Replaces(tr, c, loop.ver, FALSE)
  BY <1>1 DEF ItemStarted
<1>3. /\ UNCHANGED <<newFiles, disk, op, requests>> /\ loop' = NoItem /\ loop # NoItem /\ torrents' = tr
      /\ \/ ub' = ub
         \/ ub' = [bag |-> c, ver |-> loop.ver] /\ Replaces(tr, c, loop.ver, FALSE)
  BY <1>1, <1>2 DEF ItemStarted
<1>4. c # NoBag
  BY <1>0, <1>1, <1>3 DEF Typed, Item
<1>5. /\ DOMAIN tr = DOMAIN torrents \cup {c} /\ \A x \in DOMAIN torrents : tr[x] = torrents[x]
  <2>1. CASE Stored(c)
    BY <1>2, <2>1 DEF Stored
  <2>2. CASE ~Stored(c)
    BY <1>2, <2>2 DEF Stored, With
  <2> QED BY <2>1, <2>2
<1>6. ASSUME NEW t \in Threads, Alone(t) PROVE Undisturbed(t)
  <2>1. PICK b : b = op[t].base
    OBVIOUS
  <2>2. /\ b = NoBag \/ (/\ b \in DOMAIN torrents /\ torrents[b].hdr
                         /\ torrents[b].st \in {"done", "whole", "stopped"})
        /\ op[t].pc = "put" /\ ~op[t].take =>
              /\ ub.bag # b /\ ub.bag \in DOMAIN torrents
              /\ b # NoBag /\ loop.bag = b =>
                    (IF torrents[ub.bag].hdr THEN Cardinality(ub.bag.files) ELSE ub.ver) > Cardinality(b.files)
        /\ b \in Bags
    BY <1>6, <2>1, BaseFacts
  <2>3. b # NoBag => loop'.bag # b
    <3>1. NoItem.bag = NoBag
      BY DEF NoItem
    <3> QED BY <1>3, <3>1
  <2>4. b = NoBag \/ (b \in DOMAIN torrents' /\ torrents'[b].st \in {"done", "whole", "stopped"})
    BY <1>3, <1>5, <2>2
  <2>5. ASSUME op[t].pc = "put", ~op[t].take PROVE ub'.bag # b /\ ub'.bag \in DOMAIN torrents'
    <3>1. CASE ub' = ub
      BY <1>3, <1>5, <2>2, <2>5, <3>1
    <3>2. CASE ub' = [bag |-> c, ver |-> loop.ver] /\ Replaces(tr, c, loop.ver, FALSE)
      <4>1. ub'.bag = c /\ c \in DOMAIN torrents'
        BY <1>3, <1>5, <3>2
      <4>2. ASSUME c = b PROVE FALSE
        <5>1. b \in DOMAIN torrents /\ torrents[b].hdr
          BY <1>4, <2>2, <4>2
        <5>2. PICK v : v = IF torrents[ub.bag].hdr THEN Cardinality(ub.bag.files) ELSE ub.ver
          OBVIOUS
        <5>3. v > Cardinality(b.files) /\ ub.bag \in DOMAIN torrents
          BY <1>1, <1>4, <2>2, <2>5, <4>2, <5>2
        <5>4. Cardinality(b.files) >= Larger(Cardinality(newFiles), v)
          BY <1>5, <3>2, <4>2, <5>1, <5>2, <5>3 DEF Replaces, Version
        <5>5. /\ ub.bag.files \in SUBSET Files /\ b.files \in SUBSET Files /\ newFiles \in SUBSET Files
              /\ ub.ver \in Nat
          BY <1>0, <2>2, BagFacts DEF Typed
        <5>6. /\ Cardinality(ub.bag.files) \in Nat /\ Cardinality(b.files) \in Nat /\ Cardinality(newFiles) \in Nat
          BY <5>5, FilesCounted
        <5>7. v \in Nat
          BY <5>2, <5>5, <5>6
        <5> QED BY <5>3, <5>4, <5>6, <5>7 DEF Larger
      <4> QED BY <4>1, <4>2
    <3> QED BY <1>3, <3>1, <3>2
  <2> QED BY <2>1, <2>3, <2>4, <2>5 DEF Undisturbed
<1> QED BY <1>3, <1>6, UndisturbedAdds

\* A download gets on: its bag is not the base, and takes the place of the bag
\* of the user only when it has as many files.
LEMMA GetsOnAdds ==
    ASSUME StorageInv, AddInv, NEW c, GetsOn(c)
    PROVE  AddInv'
<1>0. Typed /\ torrents \in [DOMAIN torrents -> States]
  BY DEF StorageInv, Typed
<1>1. PICK s \in {"fetch", "done", "whole"} : torrents' = With(torrents, c, s, TRUE)
  BY DEF GetsOn
<1>2. PICK tr : tr = With(torrents, c, s, TRUE)
  OBVIOUS
<1>3. /\ torrents' = tr /\ DOMAIN tr = DOMAIN torrents /\ tr[c].hdr
      /\ \A x \in DOMAIN torrents : x # c => tr[x] = torrents[x]
  BY <1>1, <1>2 DEF GetsOn, With
<1>4. /\ UNCHANGED <<newFiles, op, requests, loop>> /\ disk \subseteq disk'
      /\ c \in DOMAIN torrents /\ torrents[c].st \in {"fetch", "resume"}
  BY DEF GetsOn
<1>5. \/ ub' = ub
      \/ /\ ub'.bag = c
         /\ Cardinality(c.files) >= Larger(Cardinality(newFiles),
               IF ub.bag \notin DOMAIN tr THEN 0
               ELSE IF tr[ub.bag].hdr THEN Cardinality(ub.bag.files) ELSE ub.ver)
  <2>1. \/ ub' = ub
        \/ ub' = [bag |-> c, ver |-> Cardinality(c.files)] /\ Replaces(torrents', c, 0, FALSE)
    BY DEF GetsOn
  <2>2. ASSUME Replaces(torrents', c, 0, FALSE)
        PROVE  Cardinality(c.files) >= Larger(Cardinality(newFiles),
                  IF ub.bag \notin DOMAIN tr THEN 0
                  ELSE IF tr[ub.bag].hdr THEN Cardinality(ub.bag.files) ELSE ub.ver)
    BY <1>3, <2>2 DEF Replaces, Version
  <2>3. [bag |-> c, ver |-> Cardinality(c.files)].bag = c
    OBVIOUS
  <2> QED BY <2>1, <2>2, <2>3
<1>6. ASSUME NEW t \in Threads, Alone(t) PROVE Undisturbed(t)
  <2>1. PICK b : b = op[t].base
    OBVIOUS
  <2>2. /\ b = NoBag \/ (/\ b \in DOMAIN torrents /\ torrents[b].hdr
                         /\ torrents[b].st \in {"done", "whole", "stopped"})
        /\ b # NoBag /\ loop.bag = b =>
              ub.bag = b \/ (ub.bag \in DOMAIN torrents /\ torrents[ub.bag].hdr)
        /\ op[t].pc = "put" /\ ~op[t].take =>
              /\ ub.bag # b /\ ub.bag \in DOMAIN torrents
              /\ b # NoBag /\ loop.bag = b =>
                    (IF torrents[ub.bag].hdr THEN Cardinality(ub.bag.files) ELSE ub.ver) > Cardinality(b.files)
        /\ b \in Bags
    BY <1>6, <2>1, BaseFacts
  <2>3. c # b
    BY <1>0, <1>4, <2>2 DEF Typed
  <2>4. b = NoBag \/ (b \in DOMAIN torrents' /\ torrents'[b].st \in {"done", "whole", "stopped"})
    BY <1>3, <2>2, <2>3
  <2>5. b # NoBag /\ loop'.bag = b =>
           ub'.bag = b \/ (ub'.bag \in DOMAIN torrents' /\ torrents'[ub'.bag].hdr)
    BY <1>3, <1>4, <1>5, <2>2
  <2>6. ASSUME op[t].pc = "put", ~op[t].take
        PROVE  /\ ub'.bag # b /\ ub'.bag \in DOMAIN torrents'
               /\ b # NoBag /\ loop'.bag = b =>
                    (IF torrents'[ub'.bag].hdr THEN Cardinality(ub'.bag.files) ELSE ub'.ver) > Cardinality(b.files)
    <3>1. ub'.bag # b /\ ub'.bag \in DOMAIN torrents'
      BY <1>3, <1>4, <1>5, <2>2, <2>3, <2>6
    <3>2. ASSUME b # NoBag, loop'.bag = b
          PROVE  (IF torrents'[ub'.bag].hdr THEN Cardinality(ub'.bag.files) ELSE ub'.ver) > Cardinality(b.files)
      <4>1. ub.bag \in DOMAIN torrents /\ torrents[ub.bag].hdr /\ Cardinality(ub.bag.files) > Cardinality(b.files)
        BY <1>4, <2>2, <2>6, <3>2
      <4>2. tr[ub.bag].hdr /\ ub.bag \in DOMAIN tr
        BY <1>3, <4>1
      <4>3. CASE ub' = ub
        BY <1>3, <4>1, <4>2, <4>3
      <4>4. CASE /\ ub'.bag = c
                 /\ Cardinality(c.files) >= Larger(Cardinality(newFiles),
                       IF ub.bag \notin DOMAIN tr THEN 0
                       ELSE IF tr[ub.bag].hdr THEN Cardinality(ub.bag.files) ELSE ub.ver)
        <5>1. Cardinality(c.files) >= Larger(Cardinality(newFiles), Cardinality(ub.bag.files))
          BY <4>2, <4>4
        <5>2. c.files \in SUBSET Files /\ ub.bag.files \in SUBSET Files /\ b.files \in SUBSET Files
              /\ newFiles \in SUBSET Files
          BY <1>0, <1>4, <2>2, BagFacts DEF Typed
        <5>3. /\ Cardinality(c.files) \in Nat /\ Cardinality(ub.bag.files) \in Nat
              /\ Cardinality(b.files) \in Nat /\ Cardinality(newFiles) \in Nat
          BY <5>2, FilesCounted
        <5>4. Cardinality(c.files) > Cardinality(b.files)
          BY <4>1, <5>1, <5>3 DEF Larger
        <5> QED BY <1>3, <4>4, <5>4
      <4> QED BY <1>5, <4>3, <4>4
    <3> QED BY <3>1, <3>2
  <2> QED BY <2>1, <2>4, <2>5, <2>6 DEF Undisturbed
<1> QED BY <1>4, <1>6, UndisturbedAdds

\* Every step keeps what is known of the uploads that are alone.
LEMMA AddStep ==
    ASSUME StorageInv, AddInv, Next
    PROVE  AddInv'
<1>0. Typed /\ Counted /\ requests \in Nat
  BY DEF StorageInv, Typed
<1>1. ASSUME NEW t \in Threads, FileStep(t), requests' = requests + 1 PROVE AddInv'
  <2>1. PICK r \in Request : Becomes(t, r) /\ r.pc \in {"idle", "saved"}
    BY <1>0, <1>1, FileEffect
  <2> QED BY <1>1, <2>1, NewRequestAdds DEF Uploading
<1>2. ASSUME NEW t \in Threads, FileStep(t) PROVE AddInv'
  <2>1. CASE requests' = requests + 1
    BY <1>1, <1>2, <2>1
  <2>2. CASE Mismatch(t)
    <3>1. op[t].pc = "saved" /\ Becomes(t, Idle) /\ requests' = requests
      BY <1>0, <2>2, Goes, IdleFacts, ZenonT(60) DEF Mismatch, rest
    <3> QED BY <3>1, IdleFacts, LeavesAdds DEF Uploading
  <2>3. requests' = requests + 1 \/ Mismatch(t) \/ StartUpload(t) \/ upload(t)
    BY <1>2, ZenonT(60) DEF FileStep, SaveFile, PreFinishResponseCallback, processEventDeletion, Delete, Begin
  <2> QED BY <2>1, <2>2, <2>3, StartAdds, UploadAddsFiles
<1>3. ASSUME NEW t \in Threads, saveUploadTorrent(t) PROVE AddInv'
  <2>1. PICK r \in Request : Becomes(t, r) /\ op[t].pc = "put" /\ r.pc = "answer"
    BY <1>0, <1>3, PutEffect
  <2>2. requests' = requests
    BY <1>3 DEF saveUploadTorrent, rest
  <2> QED BY <2>1, <2>2, LeavesAdds DEF Uploading
<1>a. ASSUME NEW t \in Threads, PromotionStep(t) PROVE AddInv'
  <2>1. /\ op[t].pc \in {"record", "download", "queue"} /\ requests' = requests
        /\ \E r \in Request : Becomes(t, r) /\ r.pc \in {"idle", "download", "queue"}
    BY <1>a, PromotionGoes
  <2> QED BY <2>1, LeavesAdds DEF Uploading
<1>4. ASSUME NEW t \in Threads, Answer(t) PROVE AddInv'
  <2>1. op[t].pc = "answer" /\ op' = [op EXCEPT ![t] = Idle] /\ requests' = requests
    BY <1>4 DEF Answer, rest
  <2>2. Becomes(t, Idle)
    BY <1>0, <2>1, Goes, IdleFacts
  <2> QED BY <2>1, <2>2, IdleFacts, LeavesAdds DEF Uploading
<1>5. ASSUME NEW t \in Threads, DeleteUser(t) PROVE AddInv'
  <2>1. op' = op /\ op[t].pc = "idle" /\ requests' = requests + 1
    BY <1>5 DEF DeleteUser
  <2>2. Becomes(t, op[t])
    BY <1>0, <2>1, Stays
  <2> QED BY <2>1, <2>2, NewRequestAdds DEF Uploading
<1>6. ASSUME NEW t \in Threads, NEW a \in Announced, newBagIDPromoted(t, a) PROVE AddInv'
  <2>1. PICK r \in Request : Becomes(t, r) /\ r.pc \in {"record", "download"}
    BY <1>0, <1>6, PromoteEffect
  <2>2. requests' = requests + 1
    BY <1>6 DEF newBagIDPromoted, Begin
  <2> QED BY <2>1, <2>2, NewRequestAdds DEF Uploading
<1>7. ASSUME Restart PROVE AddInv'
  <2>1. \A t \in Threads : op'[t] = Idle
    BY <1>7 DEF Restart
  <2>2. \A t \in Threads : ~Alone(t)'
    BY <2>1, IdleFacts DEF Alone
  <2> QED BY <2>2 DEF AddInv
<1>8. CASE \E t \in Threads :
             \/ \E f \in Files : \/ SaveFile(t, f) \/ PreFinishResponseCallback(t, f)
                                 \/ processEventDeletion(t, f) \/ Delete(t, f)
             \/ Mismatch(t) \/ StartUpload(t) \/ upload(t) \/ saveTorrent(t)
             \/ saveUploadTorrent(t) \/ Answer(t) \/ DeleteUser(t)
             \/ saveBagPerUser(t) \/ download(t) \/ Enqueue(t)
             \/ \E a \in Announced : newBagIDPromoted(t, a)
  <2>1. PICK t \in Threads :
             \/ FileStep(t) \/ saveTorrent(t) \/ saveUploadTorrent(t) \/ Answer(t)
             \/ DeleteUser(t) \/ PromotionStep(t) \/ \E a \in Announced : newBagIDPromoted(t, a)
    BY <1>8 DEF FileStep, PromotionStep
  <2> QED BY <1>a, <1>2, <1>3, <1>4, <1>5, <1>6, <2>1, SaveAdds
<1>9. CASE \E b \in DOMAIN torrents : BagResolved(b) \/ BagDone(b) \/ ResumedDone(b)
  <2>1. PICK b : GetsOn(b)
    BY <1>9, BagGetsOn
  <2> QED BY <2>1, GetsOnAdds
<1> QED BY <1>7, <1>8, <1>9, TakeItemAdds, ItemStartedAdds DEF Next

LEMMA AddStutter ==
    ASSUME AddInv, UNCHANGED vars
    PROVE  AddInv'
BY DEF AddInv, Alone, Adding, Complete, Stored, Version, vars

LEMMA AddInvariant == ConsumersSpec => [](StorageInv /\ AddInv)
<1>1. ConsumersInit => AddInv
  <2> SUFFICES ASSUME Init PROVE \A t \in Threads : ~Alone(t)
    BY DEF ConsumersInit, AddInv
  <2>1. \A t \in Threads : op[t] = Idle
    BY DEF Init
  <2> QED BY <2>1, IdleFacts DEF Alone
<1>2. ASSUME StorageInv, AddInv, [ConsumersNext]_consumerVars
      PROVE  AddInv'
  <2>1. Next \/ UNCHANGED vars
    BY <1>2 DEF ConsumersNext, consumerVars
  <2> QED BY <1>2, <2>1, AddStep, AddStutter
<1> QED BY <1>1, <1>2, StorageInvariant, PTL DEF ConsumersSpec

\* Only saveUploadTorrent ends the writing of the user's key.
LEMMA PutEnds ==
    ASSUME StorageInv, Next, NEW t \in Threads, op[t].pc = "put", op'[t].pc = "answer"
    PROVE  saveUploadTorrent(t)
<1>0. Typed /\ Counted
  BY DEF StorageInv
<1>1. ASSUME NEW u \in Threads, NEW r, Becomes(u, r), u # t \/ r.pc # "answer" PROVE FALSE
  BY <1>1 DEF Becomes
<1>2. ASSUME NEW u \in Threads, FileStep(u) PROVE FALSE
  <2>1. PICK r \in Request : Becomes(u, r) /\ r.pc # "answer"
    BY <1>0, <1>2, FileEffect
  <2> QED BY <1>1, <2>1
<1>3. ASSUME NEW u \in Threads, saveTorrent(u) PROVE FALSE
  <2>1. PICK r \in Request : Becomes(u, r) /\ r.pc = "put"
    BY <1>0, <1>3, SaveEffect
  <2> QED BY <1>1, <2>1
<1>4. ASSUME NEW u \in Threads, saveUploadTorrent(u) PROVE u = t
  <2>1. PICK r \in Request : Becomes(u, r)
    BY <1>0, <1>4, PutEffect
  <2> QED BY <1>1, <2>1
<1>a. ASSUME NEW u \in Threads, PromotionStep(u) PROVE FALSE
  <2>1. \E r \in Request : Becomes(u, r) /\ r.pc # "answer"
    BY <1>a, PromotionGoes
  <2> QED BY <1>1, <2>1
<1>5. ASSUME NEW u \in Threads, Answer(u) PROVE FALSE
  <2>1. Becomes(u, Idle)
    BY <1>0, <1>5, Goes, IdleFacts DEF Answer
  <2> QED BY <1>1, <2>1, IdleFacts
<1>6. ASSUME NEW u \in Threads, NEW a \in Announced, newBagIDPromoted(u, a) PROVE FALSE
  <2>1. PICK r \in Request : Becomes(u, r) /\ r.pc \in {"record", "download"}
    BY <1>0, <1>6, PromoteEffect
  <2> QED BY <1>1, <2>1
<1>7. ~(op' = op)
  OBVIOUS
<1>8. ~Restart
  BY IdleFacts DEF Restart
<1>9. ~TakeItem /\ ~ItemStarted /\ \A u \in Threads : ~DeleteUser(u)
  BY <1>7 DEF TakeItem, ItemStarted, DeleteUser
<1>10. ASSUME NEW b, BagResolved(b) \/ BagDone(b) \/ ResumedDone(b) PROVE FALSE
  BY <1>7, <1>10, BagGetsOn DEF GetsOn
<1>11. PICK u \in Threads :
             \/ FileStep(u) \/ saveTorrent(u) \/ saveUploadTorrent(u) \/ Answer(u)
             \/ PromotionStep(u) \/ \E a \in Announced : newBagIDPromoted(u, a)
  BY <1>8, <1>9, <1>10 DEF Next, FileStep, PromotionStep
<1> QED BY <1>a, <1>2, <1>3, <1>4, <1>5, <1>6, <1>11

\* An upload that starts from a settled state and runs alone adds its file to
\* the user's bag and removes none, unless a download replaced the bag: its bag
\* has the files of the one StartUpload looked at, so saveTorrent takes it.
THEOREM UploadsAdd == ConsumersSpec => UploadAdds
<1>1. ASSUME StorageInv, AddInv, [ConsumersNext]_consumerVars
      PROVE  [\A t \in Threads :
                LET o == op[t] IN
                (/\ o.pc = "put" /\ op'[t].pc = "answer" /\ ~o.del
                 /\ o.since = requests /\ bagByUser = o.base)
                => o.base.files \cup {o.file} \subseteq ub'.bag.files]_vars
  <2>1. CASE UNCHANGED vars
    BY <2>1
  <2>2. CASE Next
    <3> SUFFICES ASSUME NEW t \in Threads, op[t].pc = "put", op'[t].pc = "answer", ~op[t].del,
                        op[t].since = requests, bagByUser = op[t].base
                 PROVE  op[t].base.files \cup {op[t].file} \subseteq ub'.bag.files
      OBVIOUS
    <3>1. saveUploadTorrent(t)
      BY <1>1, <2>2, PutEnds
    <3>2. Adding(t)
      BY <1>1 DEF AddInv, Alone
    <3>3. op[t].take
      <4>1. ASSUME ~op[t].take PROVE ub.bag # op[t].base /\ Stored(ub.bag)
        BY <3>2, <4>1 DEF Adding
      <4> QED BY <4>1 DEF bagByUser
    <3>4. ub'.bag = op[t].bag
      BY <3>1, <3>3 DEF saveUploadTorrent
    <3> QED BY <3>2, <3>4 DEF Adding
  <2> QED BY <1>1, <2>1, <2>2 DEF ConsumersNext, consumerVars
<1> QED BY <1>1, AddInvariant, PTL DEF ConsumersSpec, UploadAdds

-----------------------------------------------------------------------------
(* The senders: what was stored, compared and reported.                    *)

Rows == {order[i] : i \in DOMAIN order}
Stages == {"new", "saving", "stored", "submitted", "refused"}

\* The row of an address is the last that was stored, and the version a message
\* is compared with was stored before it.
Chained(kind) ==
    /\ latest[kind] = NoMessage => RowsOf(kind) = {}
    /\ latest[kind] # NoMessage =>
          \E k \in DOMAIN order :
             /\ order[k] = latest[kind] /\ Has(latest[kind], kind)
             /\ \A i \in DOMAIN order : Has(order[i], kind) => i <= k
    /\ \A m \in traffic : before[m][kind] # NoMessage =>
          \E i \in DOMAIN order : /\ order[i] = before[m][kind] /\ Has(order[i], kind)
                                  /\ \A k \in DOMAIN order : order[k] = m => i < k

\* What a comparison that found nothing new has seen.
Compared(m) ==
    /\ notice["nft"][m] = "unchanged" /\ SubjectKind("nft", m) = "profile" =>
          LET old == before[m]["profile"] IN
          /\ old # NoMessage
          /\ \E w \in BSCWallets(EventOf(m, "profile")), u \in BSCWallets(EventOf(old, "profile")) :
                ~NFTNews(EventOf(m, "profile"), EventOf(old, "profile"), w, u)
    /\ notice["followers"][m] = "unchanged" =>
          NewlyFollowed(EventOf(m, "follows"), before[m]["follows"]) = {}

ReportInv ==
    /\ traffic \in Traffic
    /\ stage \in [traffic -> Stages]
    /\ latest \in [Addressed -> traffic \cup {NoMessage}]
    /\ before \in [traffic -> [Addressed -> traffic \cup {NoMessage}]]
    /\ order \in Seq(traffic)
    /\ \A i, k \in DOMAIN order : order[i] = order[k] => i = k
    /\ \A m \in traffic : m \in Rows <=> stage[m] \in {"stored", "submitted", "refused"}
    /\ \A m \in traffic : stage[m] = "new" => \A s \in Sends : notice[s][m] = "none"
    /\ DOMAIN notice = Sends /\ \A s \in Sends : DOMAIN notice[s] = traffic
    /\ \A kind \in Addressed : Chained(kind)
    /\ \A m \in traffic : Compared(m)

LEMMA LeastIndex ==
    ASSUME NEW T, T \subseteq Nat, T # {}
    PROVE  \E x \in T : \A y \in T : x <= y
<1>1. \E x \in T : \A y \in T : ~(<<y, x>> \in OpToRel(<, Nat))
  BY WFMin, NatLessThanWellFounded, Zenon
<1>2. PICK x \in T : \A y \in T : ~(y < x)
  <2>1. \A x, y \in Nat : y < x => <<y, x>> \in OpToRel(<, Nat)
    BY Zenon DEF OpToRel
  <2> QED BY <1>1, <2>1, Zenon
<1> QED BY <1>2

LEMMA GreatestIndex ==
    ASSUME NEW n \in Nat, NEW T, T \subseteq 1 .. n, T # {}
    PROVE  \E x \in T : \A y \in T : y <= x
<1> DEFINE R == {n - x : x \in T}
<1>1. R \subseteq Nat /\ R # {}
  OBVIOUS
<1>2. PICK r \in R : \A q \in R : r <= q
  BY <1>1, LeastIndex
<1>3. PICK x \in T : r = n - x
  BY <1>2
<1>4. \A y \in T : n - x <= n - y
  BY <1>2, <1>3
<1> QED BY <1>3, <1>4

\* Everyone in the stored list was reported: otherwise look at the first list
\* that names the user.
LEMMA FollowsFollow == ASSUME ReportInv PROVE FollowsKnown
<1> SUFFICES ASSUME latest["follows"] # NoMessage,
                    NEW user \in EventOf(latest["follows"], "follows").follows
             PROVE  \E m \in RowsOf("follows") :
                       /\ user \in EventOf(m, "follows").follows
                       /\ notice["followers"][m] = "told" \/ Unreported("followers", m, "follows")
  BY DEF FollowsKnown
<1> DEFINE Names(i) == Has(order[i], "follows") /\ user \in EventOf(order[i], "follows").follows
           T == {i \in DOMAIN order : Names(i)}
<1>0. Chained("follows") /\ order \in Seq(traffic) /\ DOMAIN order = 1 .. Len(order)
  BY DEF ReportInv, Addressed
<1>1. T # {} /\ T \subseteq Nat
  <2>1. PICK k \in DOMAIN order : order[k] = latest["follows"] /\ Has(order[k], "follows")
    BY <1>0 DEF Chained
  <2> QED BY <1>0, <2>1
<1>2. PICK i \in T : \A k \in T : i <= k
  BY <1>1, LeastIndex
<1> DEFINE m == order[i]
<1>3. i \in DOMAIN order /\ m \in traffic /\ Names(i)
  BY <1>0, <1>2
<1>4. m \in RowsOf("follows") /\ user \in EventOf(m, "follows").follows
  BY <1>3 DEF RowsOf
<1>5. ASSUME ~Unreported("followers", m, "follows"), notice["followers"][m] # "told" PROVE FALSE
  <2>1. notice["followers"][m] = "unchanged"
    BY <1>5 DEF Unreported
  <2>2. NewlyFollowed(EventOf(m, "follows"), before[m]["follows"]) = {}
    BY <1>3, <2>1 DEF ReportInv, Compared
  <2> DEFINE old == before[m]["follows"]
  <2>3. old # NoMessage /\ user \in EventOf(old, "follows").follows
    BY <1>4, <2>2 DEF NewlyFollowed
  <2>4. PICK k \in DOMAIN order : order[k] = old /\ Has(order[k], "follows") /\ k < i
    BY <1>0, <1>3, <2>3 DEF Chained
  <2>5. k \in T
    BY <2>3, <2>4
  <2> HIDE DEF T
  <2>6. i \in Nat /\ k \in Nat
    BY <1>0, <1>3, <2>4
  <2> QED BY <1>2, <2>4, <2>5, <2>6
<1> QED BY <1>4, <1>5

\* Two rows of a kind: which was stored first.
LEMMA EarlierByPlace ==
    ASSUME ReportInv, NEW kind, NEW i \in DOMAIN order, NEW k \in DOMAIN order,
           Has(order[i], kind)
    PROVE  order[i] \in Earlier(order[k], kind) <=> i < k
<1>1. order[i] \in RowsOf(kind)
  BY DEF RowsOf
<1>2. \A a, b \in DOMAIN order : order[a] = order[b] => a = b
  BY DEF ReportInv
<1> QED BY <1>1, <1>2, Zenon DEF Earlier

LEMMA WalletFacts ==
    ASSUME ReportInv, NEW m \in traffic, Has(m, "profile")
    PROVE  /\ IsFiniteSet(EventOf(m, "profile").wallets)
           /\ "none" \notin EventOf(m, "profile").wallets
<1>1. m \in Messages
  BY SendersAssumption DEF ReportInv
<1>2. \E e \in {Message[m][i] : i \in DOMAIN Message[m]} : e.kind = "profile"
  BY DEF Has
<1>3. /\ EventOf(m, "profile") \in {Message[m][i] : i \in DOMAIN Message[m]}
      /\ EventOf(m, "profile").kind = "profile"
  BY <1>2, Zenon DEF EventOf
<1> QED BY <1>1, <1>3, SendersAssumption

\* A comparison of profiles that found nothing new: with one wallet at most on
\* either side, the wallets are the same.
LEMMA SameWallets ==
    ASSUME NEW e, NEW p, IsFiniteSet(e.wallets), IsFiniteSet(p.wallets),
           "none" \notin e.wallets, "none" \notin p.wallets,
           ~(Cardinality(e.wallets) > 1), ~(Cardinality(p.wallets) > 1),
           NEW w \in BSCWallets(e), NEW u \in BSCWallets(p), ~NFTNews(e, p, w, u)
    PROVE  e.wallets = p.wallets /\ (e.nft => p.nft)
<1>1. w = u /\ (e.nft => p.nft)
  BY DEF NFTNews
<1>2. ASSUME NEW S, IsFiniteSet(S), ~(Cardinality(S) > 1) PROVE S = {} \/ \E x : S = {x}
  <2>1. Cardinality(S) \in Nat
    BY <1>2, FS_CardinalityType
  <2>2. Cardinality(S) = 0 \/ Cardinality(S) = 1
    BY <1>2, <2>1
  <2>3. CASE Cardinality(S) = 0
    BY <1>2, <2>3, FS_EmptySet
  <2>4. CASE Cardinality(S) = 1
    BY <1>2, <2>4, FS_Singleton
  <2> QED BY <2>2, <2>3, <2>4
<1>3. e.wallets = {} \/ \E x : e.wallets = {x}
  BY <1>2
<1>4. p.wallets = {} \/ \E x : p.wallets = {x}
  BY <1>2
<1> QED BY <1>1, <1>3, <1>4 DEF BSCWallets

\* One step along the versions: a profile that was compared and left unreported
\* has the wallet of the version it replaced.
LEMMA ReportedChange ==
    ASSUME ReportInv, NEW k \in DOMAIN order, Has(order[k], "profile"),
           ~Unreported("nft", order[k], "profile"), notice["nft"][order[k]] # "told"
    PROVE  \E i \in DOMAIN order :
              /\ i < k /\ Has(order[i], "profile") /\ order[i] = before[order[k]]["profile"]
              /\ Earlier(order[k], "profile") = Earlier(order[i], "profile") \cup {order[i]}
              /\ \E w \in BSCWallets(EventOf(order[k], "profile")),
                    u \in BSCWallets(EventOf(order[i], "profile")) :
                    ~NFTNews(EventOf(order[k], "profile"), EventOf(order[i], "profile"), w, u)
<1> DEFINE m == order[k]
           old == before[m]["profile"]
<1>1. notice["nft"][m] = "unchanged" /\ SubjectKind("nft", m) = "profile" /\ ~Raced(m, "profile")
  BY DEF Unreported
<1>2. m \in traffic /\ Chained("profile")
  BY DEF ReportInv, Addressed
<1>3. /\ old # NoMessage
      /\ \E w \in BSCWallets(EventOf(m, "profile")), u \in BSCWallets(EventOf(old, "profile")) :
            ~NFTNews(EventOf(m, "profile"), EventOf(old, "profile"), w, u)
  <2>1. Compared(m)
    BY <1>2 DEF ReportInv
  <2> QED BY <1>1, <2>1, Zenon DEF Compared
<1>4. PICK i \in DOMAIN order : order[i] = old /\ Has(order[i], "profile") /\ i < k
  BY <1>2, <1>3 DEF Chained
<1>5. Earlier(m, "profile") = Earlier(old, "profile") \cup {old}
  BY <1>1, <1>3 DEF Raced
<1> HIDE DEF m, old
<1> QED BY <1>3, <1>4, <1>5 DEF m, old

\* The service knows the wallet of the stored profile: by induction over the
\* versions since the last it was told, as the one that is stored first among
\* those with another wallet would have been reported.
LEMMA ServiceFollows == ASSUME ReportInv PROVE ServiceCurrent
<1> DEFINE told == {m \in RowsOf("profile") : notice["nft"][m] = "told" /\ SubjectKind("nft", m) = "profile"}
           newest == {m \in told : After(m, "profile") \cap told = {}}
           later == IF newest = {} THEN RowsOf("profile") ELSE UNION {After(m, "profile") : m \in newest}
           current == latest["profile"]
           P(i) == EventOf(order[i], "profile")
           IsRow(i) == Has(order[i], "profile")
<1> SUFFICES ASSUME current # NoMessage, \A m \in later : ~Unreported("nft", m, "profile"),
                    \A m \in later \cup newest : ~(Cardinality(EventOf(m, "profile").wallets) > 1)
             PROVE  \E m \in newest : /\ EventOf(m, "profile").wallets = EventOf(current, "profile").wallets
                                      /\ EventOf(current, "profile").nft => EventOf(m, "profile").nft
  BY Zenon DEF ServiceCurrent
<1>0. Chained("profile") /\ order \in Seq(traffic) /\ DOMAIN order = 1 .. Len(order) /\ Len(order) \in Nat
  BY DEF ReportInv, Addressed
<1>1. \A i \in DOMAIN order : i \in Nat /\ order[i] \in traffic /\ (IsRow(i) => order[i] \in RowsOf("profile"))
  BY <1>0 DEF RowsOf
<1>2. PICK c \in DOMAIN order : /\ order[c] = current /\ IsRow(c)
                                /\ \A i \in DOMAIN order : IsRow(i) => i <= c
  BY <1>0 DEF Chained
<1>3. \A m \in RowsOf("profile") : \E i \in DOMAIN order : order[i] = m /\ IsRow(i)
  BY DEF RowsOf
<1>4. \A i, k \in DOMAIN order : IsRow(i) /\ IsRow(k) => (order[k] \in After(order[i], "profile") <=> i < k)
  BY <1>1, EarlierByPlace DEF After
<1>5. newest # {}
  <2> SUFFICES ASSUME newest = {} PROVE FALSE
    OBVIOUS
  <2>1. told = {}
    <3> SUFFICES ASSUME told # {} PROVE FALSE
      OBVIOUS
    <3> DEFINE T == {i \in DOMAIN order : order[i] \in told /\ IsRow(i)}
    <3>1. T # {} /\ T \subseteq 1 .. Len(order)
      BY <1>0, <1>3
    <3>2. PICK i \in T : \A k \in T : k <= i
      BY <1>0, <3>1, GreatestIndex
    <3>3. i \in DOMAIN order /\ order[i] \in told /\ IsRow(i)
      BY <3>2
    <3>4. order[i] \in newest
      <4> SUFFICES ASSUME NEW m \in told, m \in After(order[i], "profile") PROVE FALSE
        BY <3>3
      <4>1. PICK k \in DOMAIN order : order[k] = m /\ IsRow(k)
        BY <1>3
      <4>2. i < k /\ k \in T
        BY <1>4, <3>3, <4>1
      <4> HIDE DEF T
      <4> QED BY <1>1, <3>2, <3>3, <4>1, <4>2
    <3> QED BY <3>4
  <2> DEFINE R == {i \in DOMAIN order : IsRow(i)}
  <2>2. R # {} /\ R \subseteq Nat
    BY <1>1, <1>2
  <2>3. PICK k \in R : \A i \in R : k <= i
    BY <2>2, LeastIndex
  <2>4. k \in DOMAIN order /\ IsRow(k) /\ order[k] \in RowsOf("profile")
    BY <1>1, <2>3
  <2>5. ~Unreported("nft", order[k], "profile")
    BY <2>4
  <2>6. notice["nft"][order[k]] # "told"
    BY <2>1, <2>4, <2>5 DEF Unreported
  <2>7. PICK i \in DOMAIN order : i < k /\ IsRow(i)
    BY <2>4, <2>5, <2>6, ReportedChange
  <2>8. i \in R
    BY <2>7
  <2> HIDE DEF R
  <2> QED BY <1>1, <2>3, <2>4, <2>7, <2>8
<1>6. PICK m0 \in newest : TRUE
  BY <1>5
<1>7. PICK a \in DOMAIN order : order[a] = m0 /\ IsRow(a)
  BY <1>3, <1>6
<1> DEFINE Agrees(i) == P(i).wallets = P(a).wallets /\ (P(i).nft => P(a).nft)
           B == {i \in DOMAIN order : IsRow(i) /\ a <= i /\ ~Agrees(i)}
<1>8. a <= c
  BY <1>2, <1>7
<1>9. B = {}
  <2> SUFFICES ASSUME B # {} PROVE FALSE
    OBVIOUS
  <2>1. B \subseteq Nat
    BY <1>1
  <2>2. PICK k \in B : \A i \in B : k <= i
    BY <2>1, LeastIndex
  <2>3. k \in DOMAIN order /\ IsRow(k) /\ a <= k /\ ~Agrees(k) /\ a \in Nat /\ k \in Nat
    BY <1>1, <1>7, <2>2
  <2>4. a # k
    BY <2>3
  <2>5. a < k
    BY <2>3, <2>4
  <2>6. order[k] \in After(m0, "profile")
    BY <1>4, <1>7, <2>3, <2>5
  <2>7. order[k] \in later
    BY <1>5, <1>6, <2>6
  <2>8. ~Unreported("nft", order[k], "profile")
    BY <2>7
  <2>9. notice["nft"][order[k]] # "told"
    <3> SUFFICES ASSUME notice["nft"][order[k]] = "told" PROVE FALSE
      OBVIOUS
    <3>1. order[k] \in told
      BY <1>1, <2>3, <2>8 DEF Unreported
    <3> QED BY <1>6, <2>6, <3>1
  <2>10. PICK i \in DOMAIN order :
              /\ i < k /\ IsRow(i)
              /\ Earlier(order[k], "profile") = Earlier(order[i], "profile") \cup {order[i]}
              /\ \E w \in BSCWallets(P(k)), u \in BSCWallets(P(i)) : ~NFTNews(P(k), P(i), w, u)
    BY <2>3, <2>8, <2>9, ReportedChange
  <2>11. a <= i
    <3>1. order[a] \in Earlier(order[i], "profile") \cup {order[i]}
      BY <1>7, <2>3, <2>5, <2>10, EarlierByPlace
    <3>2. a = i \/ a < i
      BY <1>7, <2>10, <3>1, EarlierByPlace DEF ReportInv
    <3> QED BY <1>1, <1>7, <2>10, <3>2
  <2>12. Agrees(i)
    <3> SUFFICES ASSUME ~Agrees(i) PROVE FALSE
      OBVIOUS
    <3>1. i \in B
      BY <2>10, <2>11
    <3> HIDE DEF B
    <3> QED BY <1>1, <2>2, <2>3, <2>10, <3>1
  <2>13. order[i] \in later \cup newest
    <3>1. CASE a = i
      BY <1>6, <1>7, <3>1
    <3>2. CASE a < i
      BY <1>4, <1>5, <1>6, <1>7, <2>10, <3>2
    <3> QED BY <1>1, <1>7, <2>10, <2>11, <3>1, <3>2
  <2>14. ~(Cardinality(P(i).wallets) > 1) /\ ~(Cardinality(P(k).wallets) > 1)
    BY <2>7, <2>13
  <2>15. /\ IsFiniteSet(P(i).wallets) /\ "none" \notin P(i).wallets
         /\ IsFiniteSet(P(k).wallets) /\ "none" \notin P(k).wallets
    BY <1>1, <2>3, <2>10, WalletFacts
  <2>16. P(k).wallets = P(i).wallets /\ (P(k).nft => P(i).nft)
    BY <2>10, <2>14, <2>15, SameWallets
  <2> QED BY <2>3, <2>12, <2>16
<1>10. Agrees(c)
  BY <1>2, <1>8, <1>9
<1> QED BY <1>2, <1>6, <1>7, <1>10

LEMMA ReportInit == ASSUME SendersInit PROVE ReportInv
<1>1. /\ traffic \in Traffic /\ stage \in [traffic -> Stages] /\ order = << >>
      /\ latest \in [Addressed -> traffic \cup {NoMessage}]
      /\ before \in [traffic -> [Addressed -> traffic \cup {NoMessage}]]
  BY DEF SendersInit, Stages
<1>2. /\ \A m \in traffic : stage[m] = "new" /\ \A s \in Sends : notice[s][m] = "none"
      /\ DOMAIN notice = Sends /\ \A s \in Sends : DOMAIN notice[s] = traffic
  BY DEF SendersInit
<1>3. order \in Seq(traffic) /\ DOMAIN order = {} /\ Rows = {}
  BY <1>1 DEF Rows
<1>4. ASSUME NEW kind \in Addressed PROVE Chained(kind)
  <2>1. latest[kind] = NoMessage /\ \A m \in traffic : before[m][kind] = NoMessage
    BY DEF SendersInit
  <2>2. RowsOf(kind) = {}
    BY <1>3 DEF RowsOf, Rows
  <2> QED BY <2>1, <2>2 DEF Chained
<1>5. ASSUME NEW m \in traffic PROVE Compared(m)
  BY <1>2 DEF Compared, Sends
<1> QED BY <1>1, <1>2, <1>3, <1>4, <1>5 DEF ReportInv

\* A step that only moves a report, from "compare" or later.
LEMMA NoteKeeps ==
    ASSUME ReportInv, NEW s \in Sends, NEW m \in traffic, NEW where,
           Notes(s, m, where), notice[s][m] # "none",
           UNCHANGED <<traffic, saveVars>>,
           where = "unchanged" => Compared(m)'
    PROVE  ReportInv'
<1>1. /\ DOMAIN notice' = Sends /\ \A z \in Sends : DOMAIN notice'[z] = traffic
      /\ \A z \in Sends, n \in traffic :
            notice'[z][n] = IF z = s /\ n = m THEN where ELSE notice[z][n]
  BY DEF Notes, ReportInv
<1>2. UNCHANGED <<traffic, stage, before, latest, order>>
  BY DEF saveVars
<1>3. \A n \in traffic : stage'[n] = "new" => \A z \in Sends : notice'[z][n] = "none"
  BY <1>1, <1>2 DEF ReportInv
<1>4. ASSUME NEW n \in traffic PROVE Compared(n)'
  <2>1. Compared(n)
    BY DEF ReportInv
  <2>2. CASE n = m /\ where = "unchanged"
    BY <2>2
  <2>3. CASE n # m \/ where # "unchanged"
    <3>1. \A z \in Sends : notice'[z][n] = "unchanged" => notice[z][n] = "unchanged"
      BY <1>1, <2>3
    <3>2. "nft" \in Sends /\ "followers" \in Sends /\ SubjectKind("nft", n)' = SubjectKind("nft", n)
      BY DEF Sends, SubjectKind, Subject, ContentEvent, FollowerListEvent, Relayed, FirstIn
    <3>3. before' = before
      BY <1>2
    <3> QED BY <2>1, <3>1, <3>2, <3>3 DEF Compared
  <2> QED BY <2>2, <2>3
<1>5. \A kind \in Addressed : Chained(kind)'
  BY <1>2 DEF ReportInv, Chained, RowsOf
<1>6. Rows' = Rows
  BY <1>2 DEF Rows
<1> QED BY <1>1, <1>2, <1>3, <1>4, <1>5, <1>6 DEF ReportInv

LEMMA CompareKeeps ==
    ASSUME ReportInv, NEW s \in Sends, NEW m \in traffic, Compare(s, m), UNCHANGED traffic
    PROVE  ReportInv'
<1>1. notice[s][m] = "compare" /\ UNCHANGED saveVars /\ before' = before
  BY DEF Compare, saveVars
<1>2. CASE s = "followers"
  <2> DEFINE new == NewlyFollowed(EventOf(m, "follows"), Previous(m, "follows"))
  <2>1. Notes(s, m, IF new = {} THEN "unchanged" ELSE "load")
    BY <1>2 DEF Compare, CompareFollows
  <2>2. new = NewlyFollowed(EventOf(m, "follows"), before[m]["follows"])
    BY DEF Previous, Addressed
  <2>3. notice'["nft"][m] = notice["nft"][m]
    BY <1>2, <2>1, SMTT(60) DEF Notes, ReportInv, Sends
  <2>4. new = {} => Compared(m)'
    BY <1>1, <2>2, <2>3 DEF Compared, ReportInv, SubjectKind, Subject, ContentEvent, Relayed, FirstIn
  <2> HIDE DEF new
  <2> QED BY <1>1, <2>1, <2>4, NoteKeeps
<1>3. CASE s = "nft"
  <2> DEFINE kin == SubjectKind("nft", m)
             old == Previous(m, kin)
  <2>1. \/ Notes("nft", m, "load")
        \/ /\ old # NoMessage /\ kin = "profile"
           /\ \E w \in BSCWallets(EventOf(m, kin)), u \in BSCWallets(EventOf(old, kin)) :
                 Notes("nft", m, IF NFTNews(EventOf(m, kin), EventOf(old, kin), w, u) THEN "load" ELSE "unchanged")
        \/ kin # "profile" /\ Notes("nft", m, "unchanged")
    BY <1>3, Zenon DEF Compare, CompareContent
  <2>2. CASE Notes("nft", m, "load")
    BY <1>1, <1>3, <2>2, NoteKeeps
  <2>3. ASSUME Notes("nft", m, "unchanged"),
               kin = "profile" =>
                  /\ old # NoMessage
                  /\ \E w \in BSCWallets(EventOf(m, "profile")), u \in BSCWallets(EventOf(old, "profile")) :
                        ~NFTNews(EventOf(m, "profile"), EventOf(old, "profile"), w, u)
        PROVE  ReportInv'
    <3>1. kin = "profile" => old = before[m]["profile"]
      BY DEF Previous, Addressed
    <3>2. notice'["followers"][m] = notice["followers"][m]
      BY <1>3, <2>3 DEF Notes, ReportInv, Sends
    <3>3. kin' = kin
      BY DEF SubjectKind, Subject, ContentEvent, Relayed, FirstIn
    <3>4. Compared(m)
      BY DEF ReportInv
    <3>5. Compared(m)'
      BY <1>1, <2>3, <3>1, <3>2, <3>3, <3>4, Zenon DEF Compared
    <3> QED BY <1>1, <1>3, <2>3, <3>5, NoteKeeps
  <2>4. CASE /\ old # NoMessage /\ kin = "profile"
             /\ \E w \in BSCWallets(EventOf(m, kin)), u \in BSCWallets(EventOf(old, kin)) :
                   Notes("nft", m, IF NFTNews(EventOf(m, kin), EventOf(old, kin), w, u) THEN "load" ELSE "unchanged")
    <3>1. PICK w \in BSCWallets(EventOf(m, "profile")), u \in BSCWallets(EventOf(old, "profile")) :
              Notes("nft", m, IF NFTNews(EventOf(m, "profile"), EventOf(old, "profile"), w, u) THEN "load" ELSE "unchanged")
      BY <2>4
    <3>2. CASE NFTNews(EventOf(m, "profile"), EventOf(old, "profile"), w, u)
      BY <2>2, <3>1, <3>2
    <3>3. CASE ~NFTNews(EventOf(m, "profile"), EventOf(old, "profile"), w, u)
      BY <2>3, <2>4, <3>1, <3>3
    <3> QED BY <3>2, <3>3
  <2>5. CASE kin # "profile" /\ Notes("nft", m, "unchanged")
    BY <2>3, <2>5
  <2> QED BY <2>1, <2>2, <2>4, <2>5
<1> QED BY <1>2, <1>3 DEF Sends

LEMMA SaveBeginsKeeps ==
    ASSUME ReportInv, NEW m \in traffic, SaveBegins(m), UNCHANGED traffic
    PROVE  ReportInv'
<1>1. /\ stage[m] = "new" /\ UNCHANGED <<latest, order, notice>>
      /\ stage' \in [traffic -> Stages]
      /\ \A n \in traffic : stage'[n] = IF n = m THEN "saving" ELSE stage[n]
      /\ before' \in [traffic -> [Addressed -> traffic \cup {NoMessage}]]
      /\ \A n \in traffic : before'[n] = IF n = m THEN latest ELSE before[n]
  BY DEF SaveBegins, reportVars, ReportInv, Stages
<1>2. \A i \in DOMAIN order : order[i] # m
  BY <1>1, SMTT(60) DEF ReportInv, Rows
<1>3. ASSUME NEW kind \in Addressed PROVE Chained(kind)'
  <2>1. Chained(kind) /\ RowsOf(kind)' = RowsOf(kind)
    BY <1>1 DEF ReportInv, RowsOf
  <2>2. ASSUME NEW n \in traffic, before'[n][kind] # NoMessage
        PROVE  \E i \in DOMAIN order : /\ order[i] = before'[n][kind] /\ Has(order[i], kind)
                                       /\ \A k \in DOMAIN order : order[k] = n => i < k
    <3>1. CASE n = m
      BY <1>1, <1>2, <2>1, <2>2, <3>1 DEF Chained
    <3>2. CASE n # m
      BY <1>1, <2>1, <2>2, <3>2 DEF Chained
    <3> QED BY <3>1, <3>2
  <2> QED BY <1>1, <2>1, <2>2 DEF Chained
<1>4. ASSUME NEW n \in traffic PROVE Compared(n)'
  <2>1. Compared(n) /\ \A s \in Sends : stage[n] = "new" => notice[s][n] = "none"
    BY DEF ReportInv
  <2>2. SubjectKind("nft", n)' = SubjectKind("nft", n)
    BY DEF SubjectKind, Subject, ContentEvent, Relayed, FirstIn
  <2>3. CASE n = m
    BY <1>1, <2>1, <2>3 DEF Compared, Sends
  <2>4. CASE n # m
    BY <1>1, <2>1, <2>2, <2>4 DEF Compared
  <2> QED BY <2>3, <2>4
<1>5. Rows' = Rows
  BY <1>1 DEF Rows
<1> QED BY <1>1, <1>3, <1>4, <1>5 DEF ReportInv

LEMMA SaveEndsKeeps ==
    ASSUME ReportInv, NEW m \in traffic, SaveEnds(m), UNCHANGED traffic
    PROVE  ReportInv'
<1> DEFINE n1 == Len(order) + 1
<1>0. order \in Seq(traffic) /\ Len(order) \in Nat /\ DOMAIN order = 1 .. Len(order)
  BY DEF ReportInv
<1>1. /\ stage[m] = "saving" /\ UNCHANGED <<before, notice>>
      /\ stage' \in [traffic -> Stages]
      /\ \A n \in traffic : stage'[n] = IF n = m THEN "stored" ELSE stage[n]
      /\ latest' \in [Addressed -> traffic \cup {NoMessage}]
      /\ \A kind \in Addressed : latest'[kind] = IF Has(m, kind) THEN m ELSE latest[kind]
  BY DEF SaveEnds, reportVars, ReportInv, Stages
<1>2. /\ order' \in Seq(traffic) /\ DOMAIN order' = DOMAIN order \cup {n1}
      /\ order'[n1] = m /\ \A i \in DOMAIN order : order'[i] = order[i] /\ i < n1 /\ i \in Nat
  BY <1>0 DEF SaveEnds
<1>3. \A i \in DOMAIN order : order[i] # m
  BY <1>1 DEF ReportInv, Rows
<1>4. NoMessage \notin traffic
  BY SendersAssumption DEF ReportInv
<1> HIDE DEF n1
<1>5. ASSUME NEW kind \in Addressed PROVE Chained(kind)'
  <2>1. Chained(kind)
    BY DEF ReportInv
  <2>2. RowsOf(kind)' = RowsOf(kind) \cup {x \in {m} : Has(x, kind)}
    BY <1>2 DEF RowsOf
  <2>3. latest'[kind] = NoMessage => RowsOf(kind)' = {}
    BY <1>1, <1>4, <2>1, <2>2 DEF Chained
  <2>4. ASSUME latest'[kind] # NoMessage
        PROVE  \E k \in DOMAIN order' :
                  /\ order'[k] = latest'[kind] /\ Has(latest'[kind], kind)
                  /\ \A i \in DOMAIN order' : Has(order'[i], kind) => i <= k
    <3>1. CASE Has(m, kind)
      <4>1. \A i \in DOMAIN order' : i <= n1
        BY <1>0, <1>2 DEF n1
      <4> QED BY <1>1, <1>2, <3>1, <4>1
    <3>2. CASE ~Has(m, kind)
      <4>1. PICK k \in DOMAIN order :
               /\ order[k] = latest[kind] /\ Has(latest[kind], kind)
               /\ \A i \in DOMAIN order : Has(order[i], kind) => i <= k
        BY <1>1, <2>1, <2>4, <3>2 DEF Chained
      <4> QED BY <1>1, <1>2, <3>2, <4>1
    <3> QED BY <3>1, <3>2
  <2>5. ASSUME NEW n \in traffic, before'[n][kind] # NoMessage
        PROVE  \E i \in DOMAIN order' : /\ order'[i] = before'[n][kind] /\ Has(order'[i], kind)
                                        /\ \A k \in DOMAIN order' : order'[k] = n => i < k
    <3>1. PICK i \in DOMAIN order : /\ order[i] = before[n][kind] /\ Has(order[i], kind)
                                    /\ \A k \in DOMAIN order : order[k] = n => i < k
      BY <1>1, <2>1, <2>5 DEF Chained
    <3> QED BY <1>1, <1>2, <3>1
  <2> QED BY <2>3, <2>4, <2>5 DEF Chained
<1>6. ASSUME NEW n \in traffic PROVE Compared(n)'
  <2>1. Compared(n)
    BY DEF ReportInv
  <2>2. SubjectKind("nft", n)' = SubjectKind("nft", n)
    BY DEF SubjectKind, Subject, ContentEvent, Relayed, FirstIn
  <2> QED BY <1>1, <2>1, <2>2 DEF Compared
<1>7. \A i, k \in DOMAIN order' : order'[i] = order'[k] => i = k
  BY <1>2, <1>3 DEF ReportInv
<1>8. Rows' = Rows \cup {m}
  BY <1>2 DEF Rows
<1>9. \A n \in traffic : n \in Rows' <=> stage'[n] \in {"stored", "submitted", "refused"}
  BY <1>1, <1>8 DEF ReportInv
<1> QED BY <1>1, <1>2, <1>5, <1>6, <1>7, <1>9 DEF ReportInv

\* The listener goes on, or ends with an error.
LEMMA ListenerKeeps ==
    ASSUME ReportInv, NEW m \in traffic, Submits(m) \/ Refused(m), UNCHANGED traffic
    PROVE  ReportInv'
<1>1. /\ stage[m] = "stored" /\ UNCHANGED <<before, latest, order>>
      /\ stage' \in [traffic -> Stages] /\ stage'[m] \in {"submitted", "refused"}
      /\ \A n \in traffic : n # m => stage'[n] = stage[n]
  BY DEF Submits, Refused, ReportInv, Stages
<1>2. /\ DOMAIN notice' = Sends /\ \A s \in Sends : DOMAIN notice'[s] = traffic
      /\ \A s \in Sends, n \in traffic :
            \/ notice'[s][n] = notice[s][n]
            \/ n = m /\ notice'[s][n] \in {"none", "compare"}
  BY DEF Submits, Refused, reportVars, ReportInv
<1>3. \A kind \in Addressed : Chained(kind)'
  BY <1>1 DEF ReportInv, Chained, RowsOf
<1>4. ASSUME NEW n \in traffic PROVE Compared(n)'
  <2>1. Compared(n)
    BY DEF ReportInv
  <2>2. SubjectKind("nft", n)' = SubjectKind("nft", n)
    BY DEF SubjectKind, Subject, ContentEvent, Relayed, FirstIn
  <2>3. \A s \in Sends : notice'[s][n] = "unchanged" => notice[s][n] = "unchanged"
    BY <1>2
  <2> QED BY <1>1, <2>1, <2>2, <2>3 DEF Compared, Sends
<1>5. Rows' = Rows
  BY <1>1 DEF Rows
<1>6. \A n \in traffic : stage'[n] = "new" => n # m /\ stage[n] = "new"
  BY <1>1
<1>7. \A n \in traffic : stage'[n] = "new" => \A s \in Sends : notice'[s][n] = "none"
  BY <1>2, <1>6 DEF ReportInv
<1>8. \A n \in traffic : n \in Rows' <=> stage'[n] \in {"stored", "submitted", "refused"}
  BY <1>1, <1>5 DEF ReportInv
<1> QED BY <1>1, <1>2, <1>3, <1>4, <1>7, <1>8 DEF ReportInv

LEMMA ReportFrame ==
    ASSUME ReportInv, UNCHANGED <<traffic, stage, before, latest, order, notice>>
    PROVE  ReportInv'
<1>1. \A kind \in Addressed : Chained(kind)'
  BY DEF ReportInv, Chained, RowsOf
<1>2. ASSUME NEW n \in traffic PROVE Compared(n)'
  <2>1. Compared(n)
    BY DEF ReportInv
  <2>2. SubjectKind("nft", n)' = SubjectKind("nft", n)
    BY DEF SubjectKind, Subject, ContentEvent, Relayed, FirstIn
  <2> QED BY <2>1, <2>2 DEF Compared
<1>3. Rows' = Rows
  BY DEF Rows
<1> QED BY <1>1, <1>2, <1>3 DEF ReportInv

LEMMA ReportStep == ASSUME ReportInv, SendersNext PROVE ReportInv'
<1>0. UNCHANGED traffic
  BY DEF SendersNext
<1>1. CASE UNCHANGED <<saveVars, reportVars>>
  BY <1>0, <1>1, ReportFrame DEF saveVars, reportVars
<1>2. CASE ReportsNext
  <2>1. ASSUME NEW m \in traffic, LoadContent(m) \/ SendContent(m) \/ LoadFollows(m) \/ SendFollows(m)
        PROVE  ReportInv'
    <3>1. PICK s \in Sends : /\ notice[s][m] \in {"load", "send"} /\ UNCHANGED saveVars
                             /\ \E where \in {"send", "missing", "failed", "told", "again"} : Notes(s, m, where)
      BY <2>1 DEF LoadContent, SendContent, LoadFollows, SendFollows, Loading, Sending, Verdict, Sends
    <3>2. PICK where \in {"send", "missing", "failed", "told", "again"} : Notes(s, m, where)
      BY <3>1
    <3> QED BY <1>0, <3>1, <3>2, NoteKeeps
  <2>2. ASSUME NEW kind, Replicate(kind) PROVE ReportInv'
    BY <1>0, <2>2, ReportFrame DEF Replicate, reportVars
  <2> QED BY <1>0, <1>2, <2>1, <2>2, CompareKeeps, SaveBeginsKeeps, SaveEndsKeeps, ListenerKeeps DEF ReportsNext
<1> QED BY <1>1, <1>2 DEF SendersNext

-----------------------------------------------------------------------------
(* The senders: the hashtags, counted.                                     *)

Spots(m, batch) == {i \in DOMAIN batch : batch[i] = m}
Pairs(t, S) == {<<t, i>> : i \in S}
Holdings(m, F, D) == UNION {Pairs(t, Spots(m, F[t])) : t \in D}
InTasks(m) == Holdings(m, held, traffic)
InChannel(m) == Holdings(m, toSend, DOMAIN toSend)
Copies(m) == At(m, pending) + At(m, hand) + settled[m] + Cardinality(InTasks(m)) + Cardinality(InChannel(m))

\* A task holds events only while it offers them, the sets that are counted are
\* finite, and the copies of a message are as many as its task has put there.
TagInv ==
    /\ duty \in [traffic -> {"collect", "offer", "stamp", "done"}]
    /\ held \in [traffic -> Seq(traffic)]
    /\ pending \in Seq(traffic) /\ hand \in Seq(traffic) /\ toSend \in Seq(Seq(traffic))
    /\ settled \in [traffic -> Nat]
    /\ \A t \in traffic : duty[t] # "offer" => held[t] = << >>
    /\ \A m \in traffic : /\ IsFiniteSet(InTasks(m)) /\ IsFiniteSet(InChannel(m))
                          /\ Copies(m) = IF duty[m] = "collect" THEN 0 ELSE 1

LEMMA SpotsCount ==
    ASSUME NEW S, NEW q \in Seq(S), NEW m
    PROVE  IsFiniteSet(Spots(m, q)) /\ At(m, q) \in Nat /\ At(m, q) = Cardinality(Spots(m, q))
<1>1. Spots(m, q) \subseteq 1 .. Len(q) /\ Len(q) \in Nat
  BY DEF Spots
<1>2. IsFiniteSet(1 .. Len(q))
  BY <1>1, FS_Interval
<1>3. IsFiniteSet(Spots(m, q))
  BY <1>1, <1>2, FS_Subset
<1>4. At(m, q) = Cardinality(Spots(m, q))
  BY DEF At, Spots
<1> QED BY <1>3, <1>4, FS_CardinalityType

LEMMA NoSpots == \A m : At(m, << >>) = 0 /\ Spots(m, << >>) = {}
<1>1. \A m : Spots(m, << >>) = {}
  BY DEF Spots
<1>2. \A m : At(m, << >>) = Cardinality(Spots(m, << >>))
  BY DEF At, Spots
<1> QED BY <1>1, <1>2, FS_EmptySet

LEMMA SpotsAppend ==
    ASSUME NEW S, NEW q \in Seq(S), NEW x \in S, NEW m
    PROVE  At(m, Append(q, x)) = At(m, q) + (IF x = m THEN 1 ELSE 0)
<1>1. Append(q, x) \in Seq(S) /\ Len(q) \in Nat
  OBVIOUS
<1>2. IsFiniteSet(Spots(m, q)) /\ At(m, q) = Cardinality(Spots(m, q)) /\ At(m, q) \in Nat
  BY SpotsCount
<1>3. At(m, Append(q, x)) = Cardinality(Spots(m, Append(q, x)))
  BY <1>1, SpotsCount
<1>4. CASE x = m
  <2>1. Spots(m, Append(q, x)) = Spots(m, q) \cup {Len(q) + 1} /\ Len(q) + 1 \notin Spots(m, q)
    BY <1>1, <1>4 DEF Spots
  <2>2. Cardinality(Spots(m, q) \cup {Len(q) + 1}) = Cardinality(Spots(m, q)) + 1
    BY <1>2, <2>1, FS_AddElement
  <2> QED BY <1>2, <1>3, <1>4, <2>1, <2>2
<1>5. CASE x # m
  <2>1. Spots(m, Append(q, x)) = Spots(m, q)
    BY <1>1, <1>5 DEF Spots
  <2> QED BY <1>2, <1>3, <1>5, <2>1
<1> QED BY <1>4, <1>5

LEMMA PairsCount ==
    ASSUME NEW t, NEW S, IsFiniteSet(S)
    PROVE  IsFiniteSet(Pairs(t, S)) /\ Cardinality(Pairs(t, S)) = Cardinality(S)
<1> DEFINE f == [i \in S |-> <<t, i>>]
<1>1. f \in Bijection(S, Pairs(t, S))
  BY DEF Bijection, Injection, Surjection, IsInjective, Pairs
<1>2. ExistsBijection(S, Pairs(t, S))
  BY <1>1 DEF ExistsBijection
<1> QED BY <1>2, FS_Bijection

\* Two sets without a common element.
LEMMA DisjointCount ==
    ASSUME NEW S, NEW T, IsFiniteSet(S), IsFiniteSet(T), S \cap T = {}
    PROVE  /\ IsFiniteSet(S \cup T) /\ Cardinality(S \cup T) = Cardinality(S) + Cardinality(T)
           /\ Cardinality(S) \in Nat /\ Cardinality(T) \in Nat
<1>1. Cardinality(S) \in Nat /\ Cardinality(T) \in Nat
  BY FS_CardinalityType
<1>2. Cardinality(S \cap T) = 0
  BY FS_EmptySet
<1>3. IsFiniteSet(S \cup T) /\ Cardinality(S \cup T) = Cardinality(S) + Cardinality(T) - Cardinality(S \cap T)
  BY FS_Union
<1> QED BY <1>1, <1>2, <1>3

LEMMA HoldingsAre ==
    ASSUME NEW m, NEW F, NEW D, NEW x
    PROVE  x \in Holdings(m, F, D) <=> \E t \in D : \E i \in Spots(m, F[t]) : x = <<t, i>>
BY DEF Holdings, Pairs

LEMMA HoldingsSplit ==
    ASSUME NEW m, NEW F, NEW D, NEW t \in D
    PROVE  /\ Holdings(m, F, D) = Holdings(m, F, D \ {t}) \cup Pairs(t, Spots(m, F[t]))
           /\ Holdings(m, F, D \ {t}) \cap Pairs(t, Spots(m, F[t])) = {}
<1>1. ASSUME NEW x \in Holdings(m, F, D)
      PROVE  x \in Holdings(m, F, D \ {t}) \cup Pairs(t, Spots(m, F[t]))
  <2>1. PICK u \in D : x \in Pairs(u, Spots(m, F[u]))
    BY <1>1 DEF Holdings
  <2> QED BY <2>1 DEF Holdings
<1>2. Holdings(m, F, D \ {t}) \cup Pairs(t, Spots(m, F[t])) \subseteq Holdings(m, F, D)
  BY DEF Holdings
<1>3. ASSUME NEW x, x \in Holdings(m, F, D \ {t}), x \in Pairs(t, Spots(m, F[t]))
      PROVE  FALSE
  <2>1. PICK u \in D \ {t} : x \in Pairs(u, Spots(m, F[u]))
    BY <1>3 DEF Holdings
  <2>2. x[1] = u /\ x[1] = t
    BY <1>3, <2>1 DEF Pairs
  <2> QED BY <2>2
<1> QED BY <1>1, <1>2, <1>3

LEMMA HoldingsSame ==
    ASSUME NEW m, NEW F, NEW G, NEW D, \A u \in D : F[u] = G[u]
    PROVE  Holdings(m, F, D) = Holdings(m, G, D)
BY DEF Holdings

LEMMA HoldingsCount ==
    ASSUME NEW S, NEW m, NEW F, NEW D, NEW t \in D, F[t] \in Seq(S), IsFiniteSet(Holdings(m, F, D \ {t}))
    PROVE  /\ IsFiniteSet(Holdings(m, F, D))
           /\ Cardinality(Holdings(m, F, D)) = Cardinality(Holdings(m, F, D \ {t})) + At(m, F[t])
           /\ Cardinality(Holdings(m, F, D \ {t})) \in Nat
<1>1. IsFiniteSet(Spots(m, F[t])) /\ At(m, F[t]) = Cardinality(Spots(m, F[t]))
  BY SpotsCount
<1>2. /\ IsFiniteSet(Pairs(t, Spots(m, F[t])))
      /\ Cardinality(Pairs(t, Spots(m, F[t]))) = At(m, F[t])
  BY <1>1, PairsCount
<1>3. /\ Holdings(m, F, D) = Holdings(m, F, D \ {t}) \cup Pairs(t, Spots(m, F[t]))
      /\ Holdings(m, F, D \ {t}) \cap Pairs(t, Spots(m, F[t])) = {}
  BY HoldingsSplit
<1> QED BY <1>2, <1>3, DisjointCount, ZenonT(60)

\* A task takes the queue over, or lets go of it.
LEMMA HoldingsChange ==
    ASSUME NEW S, NEW m, NEW F, NEW G, NEW D, NEW t \in D, F[t] \in Seq(S), G[t] \in Seq(S),
           \A u \in D \ {t} : F[u] = G[u], IsFiniteSet(Holdings(m, F, D))
    PROVE  /\ IsFiniteSet(Holdings(m, G, D))
           /\ Cardinality(Holdings(m, G, D)) + At(m, F[t]) = Cardinality(Holdings(m, F, D)) + At(m, G[t])
           /\ Cardinality(Holdings(m, G, D)) \in Nat /\ Cardinality(Holdings(m, F, D)) \in Nat
           /\ At(m, F[t]) \in Nat /\ At(m, G[t]) \in Nat
<1>1. Holdings(m, F, D \ {t}) = Holdings(m, G, D \ {t})
  BY HoldingsSame
<1>2. IsFiniteSet(Holdings(m, F, D \ {t}))
  <2>1. Holdings(m, F, D) = Holdings(m, F, D \ {t}) \cup Pairs(t, Spots(m, F[t]))
    BY HoldingsSplit
  <2>2. Holdings(m, F, D \ {t}) \subseteq Holdings(m, F, D)
    BY <2>1
  <2> QED BY <2>2, FS_Subset
<1>3. IsFiniteSet(Holdings(m, G, D \ {t}))
  BY <1>1, <1>2
<1>4. /\ IsFiniteSet(Holdings(m, F, D))
      /\ Cardinality(Holdings(m, F, D)) = Cardinality(Holdings(m, F, D \ {t})) + At(m, F[t])
      /\ Cardinality(Holdings(m, F, D \ {t})) \in Nat
  BY <1>2, HoldingsCount
<1>5. /\ IsFiniteSet(Holdings(m, G, D))
      /\ Cardinality(Holdings(m, G, D)) = Cardinality(Holdings(m, G, D \ {t})) + At(m, G[t])
  BY <1>3, HoldingsCount
<1>6. At(m, F[t]) \in Nat /\ At(m, G[t]) \in Nat
  BY SpotsCount
<1> QED BY <1>1, <1>4, <1>5, <1>6

\* A batch joins the channel.
LEMMA HoldingsAppend ==
    ASSUME NEW S, NEW m, NEW Q \in Seq(Seq(S)), NEW q \in Seq(S), IsFiniteSet(Holdings(m, Q, DOMAIN Q))
    PROVE  LET R == Append(Q, q)
           IN  /\ IsFiniteSet(Holdings(m, R, DOMAIN R))
               /\ Cardinality(Holdings(m, R, DOMAIN R)) = Cardinality(Holdings(m, Q, DOMAIN Q)) + At(m, q)
               /\ Cardinality(Holdings(m, Q, DOMAIN Q)) \in Nat /\ At(m, q) \in Nat
<1> DEFINE R == Append(Q, q)
           n == Len(Q) + 1
<1>1. /\ n \in DOMAIN R /\ DOMAIN R \ {n} = DOMAIN Q
      /\ R[n] = q /\ \A k \in DOMAIN Q : Q[k] = R[k]
  <2>1. Len(R) = n /\ DOMAIN R = 1 .. Len(R) /\ DOMAIN Q = 1 .. Len(Q) /\ Len(Q) \in Nat
    OBVIOUS
  <2>2. R[n] = q /\ \A k \in DOMAIN Q : Q[k] = R[k]
    OBVIOUS
  <2> QED BY <2>1, <2>2
<1> HIDE DEF R, n
<1>2. Holdings(m, Q, DOMAIN Q) = Holdings(m, R, DOMAIN R \ {n})
  BY <1>1, HoldingsSame
<1>3. /\ IsFiniteSet(Holdings(m, R, DOMAIN R))
      /\ Cardinality(Holdings(m, R, DOMAIN R)) = Cardinality(Holdings(m, R, DOMAIN R \ {n})) + At(m, R[n])
      /\ Cardinality(Holdings(m, R, DOMAIN R \ {n})) \in Nat
  BY <1>1, <1>2, HoldingsCount
<1>4. At(m, q) \in Nat
  BY SpotsCount
<1>5. /\ IsFiniteSet(Holdings(m, R, DOMAIN R))
      /\ Cardinality(Holdings(m, R, DOMAIN R)) = Cardinality(Holdings(m, Q, DOMAIN Q)) + At(m, q)
      /\ Cardinality(Holdings(m, Q, DOMAIN Q)) \in Nat
  BY <1>1, <1>2, <1>3
<1> QED BY <1>4, <1>5 DEF R

\* The first batch leaves the channel, the others move up.
LEMMA HoldingsTail ==
    ASSUME NEW S, NEW m, NEW Q \in Seq(Seq(S)), Q # << >>, IsFiniteSet(Holdings(m, Q, DOMAIN Q))
    PROVE  LET R == Tail(Q)
           IN  /\ IsFiniteSet(Holdings(m, R, DOMAIN R))
               /\ Cardinality(Holdings(m, Q, DOMAIN Q)) = Cardinality(Holdings(m, R, DOMAIN R)) + At(m, Head(Q))
               /\ Cardinality(Holdings(m, R, DOMAIN R)) \in Nat /\ At(m, Head(Q)) \in Nat
<1> DEFINE R == Tail(Q)
           D == Holdings(m, Q, DOMAIN Q \ {1})
           E == Holdings(m, R, DOMAIN R)
           f == [x \in D |-> <<x[1] - 1, x[2]>>]
<1>0. Q[1] \in Seq(S) /\ Head(Q) = Q[1] /\ 1 \in DOMAIN Q
  OBVIOUS
<1>1. /\ \A k \in DOMAIN R : k + 1 \in DOMAIN Q \ {1} /\ R[k] = Q[k + 1] /\ k \in Nat
      /\ \A k \in DOMAIN Q : k \in Nat /\ (k # 1 => k - 1 \in DOMAIN R /\ R[k - 1] = Q[k])
  OBVIOUS
<1> HIDE DEF R
<1>2. D \subseteq Holdings(m, Q, DOMAIN Q)
  BY <1>0, HoldingsSplit
<1>3. IsFiniteSet(D)
  BY <1>2, FS_Subset
<1>4. Cardinality(Holdings(m, Q, DOMAIN Q)) = Cardinality(D) + At(m, Q[1]) /\ Cardinality(D) \in Nat
  BY <1>0, <1>3, HoldingsCount
<1>5. ASSUME NEW x \in D
      PROVE  \E k \in DOMAIN Q \ {1} : \E i \in Spots(m, Q[k]) : x = <<k, i>>
  BY <1>5, HoldingsAre
<1>6. ASSUME NEW y \in E
      PROVE  \E k \in DOMAIN R : \E i \in Spots(m, R[k]) : y = <<k, i>>
  BY <1>6, HoldingsAre
<1>7. ASSUME NEW k \in DOMAIN Q \ {1}, NEW i \in Spots(m, Q[k])
      PROVE  <<k, i>> \in D
  BY HoldingsAre
<1>8. ASSUME NEW k \in DOMAIN R, NEW i \in Spots(m, R[k])
      PROVE  <<k, i>> \in E
  BY HoldingsAre
<1> HIDE DEF D, E
<1>9. f \in [D -> E]
  <2> SUFFICES ASSUME NEW x \in D PROVE <<x[1] - 1, x[2]>> \in E
    OBVIOUS
  <2>1. PICK k \in DOMAIN Q \ {1} : \E i \in Spots(m, Q[k]) : x = <<k, i>>
    BY <1>5
  <2>2. PICK i \in Spots(m, Q[k]) : x = <<k, i>>
    BY <2>1
  <2> QED BY <1>1, <1>8, <2>2
<1>10. ASSUME NEW x \in D, NEW y \in D, f[x] = f[y] PROVE x = y
  <2>1. PICK k \in DOMAIN Q \ {1} : \E i \in Spots(m, Q[k]) : x = <<k, i>>
    BY <1>5
  <2>2. PICK l \in DOMAIN Q \ {1} : \E i \in Spots(m, Q[l]) : y = <<l, i>>
    BY <1>5
  <2> QED BY <1>1, <1>10, <2>1, <2>2
<1>11. ASSUME NEW y \in E PROVE \E x \in D : f[x] = y
  <2>1. PICK k \in DOMAIN R : \E i \in Spots(m, R[k]) : y = <<k, i>>
    BY <1>6
  <2>2. PICK i \in Spots(m, R[k]) : y = <<k, i>>
    BY <2>1
  <2>3. <<k + 1, i>> \in D
    BY <1>1, <1>7, <2>2
  <2> QED BY <1>1, <2>2, <2>3
<1> HIDE DEF f
<1>12. f \in Bijection(D, E)
  BY <1>9, <1>10, <1>11 DEF Bijection, Injection, Surjection, IsInjective
<1>13. IsFiniteSet(E) /\ Cardinality(E) = Cardinality(D)
  BY <1>3, <1>12, FS_Bijection DEF ExistsBijection
<1>14. At(m, Head(Q)) \in Nat
  BY <1>0, SpotsCount
<1>15. Cardinality(Holdings(m, Q, DOMAIN Q)) = Cardinality(E) + At(m, Head(Q)) /\ Cardinality(E) \in Nat
  BY <1>0, <1>4, <1>13
<1> QED BY <1>13, <1>14, <1>15 DEF R, E

LEMMA TagCounts ==
    ASSUME TagInv, NEW m \in traffic
    PROVE  /\ At(m, pending) \in Nat /\ At(m, hand) \in Nat /\ settled[m] \in Nat
           /\ Cardinality(InTasks(m)) \in Nat /\ Cardinality(InChannel(m)) \in Nat
<1>1. At(m, pending) \in Nat /\ At(m, hand) \in Nat /\ settled[m] \in Nat
  BY SpotsCount DEF TagInv
<1>2. Cardinality(InTasks(m)) \in Nat /\ Cardinality(InChannel(m)) \in Nat
  BY FS_CardinalityType DEF TagInv
<1> QED BY <1>1, <1>2

LEMMA TagInit == SendersInit => TagInv
<1> SUFFICES ASSUME SendersInit PROVE TagInv
  OBVIOUS
<1>1. /\ duty = [m \in traffic |-> "collect"] /\ held = [m \in traffic |-> << >>]
      /\ pending = << >> /\ hand = << >> /\ toSend = << >> /\ settled = [m \in traffic |-> 0]
  BY DEF SendersInit
<1>2. ASSUME NEW m \in traffic
      PROVE  /\ IsFiniteSet(InTasks(m)) /\ IsFiniteSet(InChannel(m))
             /\ Copies(m) = IF duty[m] = "collect" THEN 0 ELSE 1
  <2>1. InTasks(m) = {} /\ InChannel(m) = {}
    <3>1. \A t \in traffic : Spots(m, held[t]) = {}
      BY <1>1, NoSpots
    <3>2. DOMAIN toSend = {}
      BY <1>1
    <3> QED BY <3>1, <3>2 DEF InTasks, InChannel, Holdings, Pairs
  <2>2. At(m, pending) = 0 /\ At(m, hand) = 0 /\ settled[m] = 0 /\ duty[m] = "collect"
    BY <1>1, NoSpots
  <2>3. /\ IsFiniteSet(InTasks(m)) /\ IsFiniteSet(InChannel(m))
        /\ Cardinality(InTasks(m)) = 0 /\ Cardinality(InChannel(m)) = 0
    BY <2>1, FS_EmptySet
  <2> QED BY <2>2, <2>3 DEF Copies
<1> QED BY <1>1, <1>2 DEF TagInv

LEMMA CollectKeeps ==
    ASSUME TagInv, NEW c \in traffic, Collect(c), UNCHANGED traffic
    PROVE  TagInv'
<1> DEFINE more == Append(pending, c)
<1>0. /\ pending \in Seq(traffic) /\ duty \in [traffic -> {"collect", "offer", "stamp", "done"}]
      /\ held \in [traffic -> Seq(traffic)] /\ settled \in [traffic -> Nat]
      /\ duty[c] = "collect" /\ held[c] = << >> /\ << >> \in Seq(traffic) /\ more \in Seq(traffic)
      /\ UNCHANGED <<toSend, hand, settled>> /\ toSend \in Seq(Seq(traffic)) /\ hand \in Seq(traffic)
  BY DEF TagInv, Collect
<1>1. \A m \in traffic : At(m, more) = At(m, pending) + IF c = m THEN 1 ELSE 0
  BY <1>0, SpotsAppend
<1>2. \A m \in traffic : /\ Copies(m) = IF duty[m] = "collect" THEN 0 ELSE 1
                         /\ IsFiniteSet(InTasks(m)) /\ IsFiniteSet(InChannel(m))
  BY DEF TagInv
<1>3. \A m \in traffic : InChannel(m)' = InChannel(m) /\ At(m, hand)' = At(m, hand) /\ settled'[m] = settled[m]
  BY <1>0 DEF InChannel
<1>4. \A t \in traffic : duty[t] # "offer" => held[t] = << >>
  BY DEF TagInv
<1> HIDE DEF more
<1>5. CASE /\ pending' = more /\ duty' = [duty EXCEPT ![c] = "done"] /\ UNCHANGED held
  <2>1. \A m \in traffic : InTasks(m)' = InTasks(m) /\ At(m, pending)' = At(m, more)
    BY <1>5 DEF InTasks
  <2>2. ASSUME NEW m \in traffic
        PROVE  Copies(m)' = IF duty'[m] = "collect" THEN 0 ELSE 1
    <3>1. /\ At(m, pending)' = At(m, pending) + (IF c = m THEN 1 ELSE 0) /\ At(m, hand)' = At(m, hand)
          /\ settled'[m] = settled[m] /\ Cardinality(InTasks(m))' = Cardinality(InTasks(m))
          /\ Cardinality(InChannel(m))' = Cardinality(InChannel(m))
      BY <1>1, <1>3, <2>1
    <3>2. (m = c => duty[m] = "collect" /\ duty'[m] = "done") /\ (m # c => duty'[m] = duty[m])
      BY <1>0, <1>5
    <3> QED BY <1>2, <3>1, <3>2, TagCounts DEF Copies
  <2>3. /\ duty' \in [traffic -> {"collect", "offer", "stamp", "done"}]
        /\ \A t \in traffic : duty'[t] # "offer" => held'[t] = << >>
    BY <1>0, <1>4, <1>5
  <2> QED BY <1>0, <1>2, <1>3, <1>5, <2>1, <2>2, <2>3 DEF TagInv
<1>6. CASE pending' = << >> /\ duty' = [duty EXCEPT ![c] = "offer"] /\ held' = [held EXCEPT ![c] = more]
  <2>1. held' \in [traffic -> Seq(traffic)] /\ held'[c] = more /\ \A u \in traffic \ {c} : held[u] = held'[u]
    BY <1>0, <1>6
  <2>2. ASSUME NEW m \in traffic
        PROVE  /\ IsFiniteSet(InTasks(m)') /\ At(m, pending)' = 0
               /\ Cardinality(InTasks(m)') = Cardinality(InTasks(m)) + At(m, more)
    <3>1. held[c] \in Seq(traffic) /\ held'[c] \in Seq(traffic) /\ IsFiniteSet(Holdings(m, held, traffic))
      BY <1>0, <1>2, <2>1 DEF InTasks
    <3>2. /\ IsFiniteSet(Holdings(m, held', traffic))
          /\ Cardinality(Holdings(m, held', traffic)) + At(m, held[c])
                = Cardinality(Holdings(m, held, traffic)) + At(m, held'[c])
          /\ Cardinality(Holdings(m, held', traffic)) \in Nat /\ Cardinality(Holdings(m, held, traffic)) \in Nat
          /\ At(m, held[c]) \in Nat /\ At(m, held'[c]) \in Nat
      BY <2>1, <3>1, HoldingsChange
    <3>3. At(m, held[c]) = 0 /\ At(m, pending)' = 0
      BY <1>0, <1>6, NoSpots
    <3> QED BY <2>1, <3>2, <3>3 DEF InTasks
  <2>3. ASSUME NEW m \in traffic
        PROVE  Copies(m)' = IF duty'[m] = "collect" THEN 0 ELSE 1
    <3>1. /\ At(m, pending)' = 0 /\ At(m, hand)' = At(m, hand) /\ settled'[m] = settled[m]
          /\ Cardinality(InTasks(m))' = Cardinality(InTasks(m)) + (At(m, pending) + IF c = m THEN 1 ELSE 0)
          /\ Cardinality(InChannel(m))' = Cardinality(InChannel(m))
      BY <1>1, <1>3, <2>2
    <3>2. (m = c => duty[m] = "collect" /\ duty'[m] = "offer") /\ (m # c => duty'[m] = duty[m])
      BY <1>0, <1>6
    <3> QED BY <1>2, <3>1, <3>2, TagCounts DEF Copies
  <2>4. /\ duty' \in [traffic -> {"collect", "offer", "stamp", "done"}]
        /\ \A t \in traffic : duty'[t] # "offer" => held'[t] = << >>
    BY <1>0, <1>4, <1>6
  <2> QED BY <1>0, <1>2, <1>3, <1>6, <2>1, <2>2, <2>3, <2>4 DEF TagInv
<1> QED BY <1>5, <1>6 DEF Collect, LeftAfterCopy, more

LEMMA OfferKeeps ==
    ASSUME TagInv, NEW c \in traffic, Offer(c), UNCHANGED traffic
    PROVE  TagInv'
<1>0. /\ duty \in [traffic -> {"collect", "offer", "stamp", "done"}] /\ held \in [traffic -> Seq(traffic)]
      /\ settled \in [traffic -> Nat] /\ toSend \in Seq(Seq(traffic)) /\ << >> \in Seq(traffic)
      /\ pending \in Seq(traffic) /\ hand \in Seq(traffic)
      /\ duty[c] = "offer" /\ UNCHANGED <<pending, hand>> /\ held' = [held EXCEPT ![c] = << >>]
      /\ \A t \in traffic : duty[t] # "offer" => held[t] = << >>
  BY DEF TagInv, Offer
<1>1. \A m \in traffic : /\ Copies(m) = IF duty[m] = "collect" THEN 0 ELSE 1
                         /\ IsFiniteSet(InTasks(m)) /\ IsFiniteSet(InChannel(m))
  BY DEF TagInv
<1>2. /\ held' \in [traffic -> Seq(traffic)] /\ held'[c] = << >> /\ \A u \in traffic \ {c} : held[u] = held'[u]
      /\ held[c] \in Seq(traffic)
  BY <1>0
<1>3. ASSUME NEW m \in traffic
      PROVE  /\ IsFiniteSet(InTasks(m)') /\ Cardinality(InTasks(m)') \in Nat
             /\ Cardinality(InTasks(m)') + At(m, held[c]) = Cardinality(InTasks(m))
             /\ At(m, held[c]) \in Nat /\ At(m, pending)' = At(m, pending) /\ At(m, hand)' = At(m, hand)
  <2>1. held'[c] \in Seq(traffic) /\ IsFiniteSet(Holdings(m, held, traffic))
    BY <1>1, <1>2 DEF InTasks
  <2>2. /\ IsFiniteSet(Holdings(m, held', traffic))
        /\ Cardinality(Holdings(m, held', traffic)) + At(m, held[c])
              = Cardinality(Holdings(m, held, traffic)) + At(m, held'[c])
        /\ Cardinality(Holdings(m, held', traffic)) \in Nat /\ Cardinality(Holdings(m, held, traffic)) \in Nat
        /\ At(m, held[c]) \in Nat /\ At(m, held'[c]) \in Nat
    BY <1>2, <2>1, HoldingsChange
  <2>3. At(m, held'[c]) = 0
    BY <1>2, NoSpots
  <2> QED BY <1>0, <2>2, <2>3 DEF InTasks
<1>4. CASE toSend' = Append(toSend, held[c]) /\ duty' = [duty EXCEPT ![c] = "stamp"] /\ UNCHANGED settled
  <2>1. ASSUME NEW m \in traffic
        PROVE  /\ IsFiniteSet(InChannel(m)')
               /\ Cardinality(InChannel(m)') = Cardinality(InChannel(m)) + At(m, held[c])
    <3>1. IsFiniteSet(Holdings(m, toSend, DOMAIN toSend))
      BY <1>1 DEF InChannel
    <3>2. LET R == Append(toSend, held[c])
          IN  /\ IsFiniteSet(Holdings(m, R, DOMAIN R))
              /\ Cardinality(Holdings(m, R, DOMAIN R)) = Cardinality(Holdings(m, toSend, DOMAIN toSend)) + At(m, held[c])
      BY <1>0, <1>2, <3>1, HoldingsAppend
    <3> QED BY <1>4, <3>2 DEF InChannel
  <2>2. ASSUME NEW m \in traffic
        PROVE  Copies(m)' = IF duty'[m] = "collect" THEN 0 ELSE 1
    <3>1. /\ (duty'[m] = "collect" <=> duty[m] = "collect") /\ settled'[m] = settled[m]
      BY <1>0, <1>4
    <3> QED BY <1>1, <1>3, <2>1, <3>1, TagCounts DEF Copies
  <2>3. /\ duty' \in [traffic -> {"collect", "offer", "stamp", "done"}] /\ toSend' \in Seq(Seq(traffic))
        /\ \A t \in traffic : duty'[t] # "offer" => held'[t] = << >>
    BY <1>0, <1>2, <1>4
  <2> QED BY <1>0, <1>2, <1>3, <1>4, <2>1, <2>2, <2>3 DEF TagInv
<1>5. CASE Settle(held[c]) /\ duty' = [duty EXCEPT ![c] = "done"] /\ UNCHANGED toSend
  <2>1. ASSUME NEW m \in traffic
        PROVE  settled'[m] = settled[m] + At(m, held[c]) /\ settled'[m] \in Nat /\ InChannel(m)' = InChannel(m)
    <3>1. settled'[m] = settled[m] + At(m, held[c])
      BY <1>5 DEF Settle
    <3> QED BY <1>0, <1>3, <1>5, <3>1 DEF InChannel
  <2>2. ASSUME NEW m \in traffic
        PROVE  Copies(m)' = IF duty'[m] = "collect" THEN 0 ELSE 1
    <3>1. duty'[m] = "collect" <=> duty[m] = "collect"
      BY <1>0, <1>5
    <3> QED BY <1>1, <1>3, <2>1, <3>1, TagCounts DEF Copies
  <2>3. /\ duty' \in [traffic -> {"collect", "offer", "stamp", "done"}] /\ settled' \in [traffic -> Nat]
        /\ \A t \in traffic : duty'[t] # "offer" => held'[t] = << >>
    <3>1. DOMAIN settled' = traffic /\ settled' = [m \in traffic |-> settled'[m]]
      BY <1>5 DEF Settle
    <3> QED BY <1>0, <1>2, <1>5, <2>1, <3>1
  <2> QED BY <1>0, <1>1, <1>2, <1>3, <1>5, <2>1, <2>2, <2>3 DEF TagInv
<1> QED BY <1>4, <1>5 DEF Offer

\* The steps that move nothing.
LEMMA TagFrame ==
    ASSUME TagInv, UNCHANGED <<traffic, held, pending, toSend, hand, settled>>,
           duty' \in [traffic -> {"collect", "offer", "stamp", "done"}],
           \A m \in traffic : duty'[m] = duty[m] \/ (duty[m] = "stamp" /\ duty'[m] = "done")
    PROVE  TagInv'
<1>1. ASSUME NEW m \in traffic
      PROVE  /\ InTasks(m)' = InTasks(m) /\ InChannel(m)' = InChannel(m)
             /\ Copies(m)' = Copies(m) /\ IsFiniteSet(InTasks(m)) /\ IsFiniteSet(InChannel(m))
             /\ Copies(m)' = IF duty'[m] = "collect" THEN 0 ELSE 1
  <2>1. InTasks(m)' = InTasks(m) /\ InChannel(m)' = InChannel(m)
    BY DEF InTasks, InChannel
  <2>2. Copies(m)' = Copies(m)
    BY <2>1 DEF Copies
  <2> QED BY <2>1, <2>2 DEF TagInv
<1> QED BY <1>1 DEF TagInv

LEMMA TakeBatchKeeps ==
    ASSUME TagInv, TakeBatch, UNCHANGED traffic
    PROVE  TagInv'
<1>0. /\ hand = << >> /\ toSend # << >> /\ hand' = Head(toSend) /\ toSend' = Tail(toSend)
      /\ UNCHANGED <<duty, held, pending, settled>>
      /\ toSend \in Seq(Seq(traffic)) /\ Head(toSend) \in Seq(traffic) /\ Tail(toSend) \in Seq(Seq(traffic))
  BY DEF TagInv, TakeBatch
<1>1. ASSUME NEW m \in traffic
      PROVE  /\ IsFiniteSet(InChannel(m)') /\ InTasks(m)' = InTasks(m) /\ IsFiniteSet(InTasks(m))
             /\ Copies(m)' = IF duty'[m] = "collect" THEN 0 ELSE 1
  <2>1. IsFiniteSet(Holdings(m, toSend, DOMAIN toSend)) /\ IsFiniteSet(InTasks(m))
    BY DEF TagInv, InChannel
  <2>2. LET R == Tail(toSend)
        IN  /\ IsFiniteSet(Holdings(m, R, DOMAIN R))
            /\ Cardinality(Holdings(m, toSend, DOMAIN toSend)) = Cardinality(Holdings(m, R, DOMAIN R)) + At(m, Head(toSend))
            /\ Cardinality(Holdings(m, R, DOMAIN R)) \in Nat /\ At(m, Head(toSend)) \in Nat
    BY <1>0, <2>1, HoldingsTail
  <2>3. /\ IsFiniteSet(InChannel(m)') /\ At(m, hand)' \in Nat /\ Cardinality(InChannel(m)') \in Nat
        /\ Cardinality(InChannel(m)) = Cardinality(InChannel(m)') + At(m, hand)'
    BY <1>0, <2>2 DEF InChannel
  <2>4. InTasks(m)' = InTasks(m) /\ At(m, pending)' = At(m, pending) /\ At(m, hand) = 0
    BY <1>0, NoSpots DEF InTasks
  <2>5. Copies(m) = (IF duty[m] = "collect" THEN 0 ELSE 1) /\ settled'[m] = settled[m] /\ duty'[m] = duty[m]
    BY <1>0 DEF TagInv
  <2>6. Copies(m)' = Copies(m)
    BY <2>3, <2>4, <2>5, TagCounts DEF Copies
  <2> QED BY <2>1, <2>3, <2>4, <2>5, <2>6
<1> QED BY <1>0, <1>1 DEF TagInv

LEMMA SendHashtagsKeeps ==
    ASSUME TagInv, SendHashtags, UNCHANGED traffic
    PROVE  TagInv'
<1>0. UNCHANGED <<duty, held, pending, toSend>> /\ duty' \in [traffic -> {"collect", "offer", "stamp", "done"}]
  BY DEF TagInv, SendHashtags
<1>1. CASE UNCHANGED <<hand, settled>>
  BY <1>0, <1>1, TagFrame
<1>2. CASE hand' = << >> /\ Settle(hand)
  <2>1. ASSUME NEW m \in traffic
        PROVE  /\ InTasks(m)' = InTasks(m) /\ InChannel(m)' = InChannel(m) /\ settled'[m] \in Nat
               /\ IsFiniteSet(InTasks(m)) /\ IsFiniteSet(InChannel(m))
               /\ Copies(m)' = IF duty'[m] = "collect" THEN 0 ELSE 1
    <3>1. InTasks(m)' = InTasks(m) /\ InChannel(m)' = InChannel(m) /\ At(m, pending)' = At(m, pending)
      BY <1>0 DEF InTasks, InChannel
    <3>2. At(m, hand)' = 0 /\ settled'[m] = settled[m] + At(m, hand)
      BY <1>2, NoSpots DEF Settle
    <3>3. Copies(m)' = Copies(m) /\ settled'[m] \in Nat
      BY <3>1, <3>2, TagCounts DEF Copies
    <3> QED BY <1>0, <3>1, <3>3 DEF TagInv
  <2>2. settled' = [m \in traffic |-> settled'[m]] /\ << >> \in Seq(traffic)
    BY <1>2 DEF Settle
  <2>3. settled' \in [traffic -> Nat]
    BY <2>1, <2>2
  <2> QED BY <1>0, <1>2, <2>1, <2>2, <2>3 DEF TagInv
<1> QED BY <1>1, <1>2 DEF SendHashtags

LEMMA TagStep == TagInv /\ SendersNext => TagInv'
<1> SUFFICES ASSUME TagInv, SendersNext PROVE TagInv'
  OBVIOUS
<1>0. UNCHANGED traffic /\ duty \in [traffic -> {"collect", "offer", "stamp", "done"}]
  BY DEF SendersNext, TagInv
<1>1. CASE UNCHANGED tagVars
  BY <1>0, <1>1, TagFrame DEF tagVars
<1>2. ASSUME NEW m \in traffic, StampSent(m) PROVE TagInv'
  BY <1>0, <1>2, TagFrame DEF StampSent
<1>3. CASE Elapse \/ StopSender \/ Shutdown
  BY <1>0, <1>3, TagFrame DEF Elapse, StopSender, Shutdown
<1> QED BY <1>0, <1>1, <1>2, <1>3, CollectKeeps, OfferKeeps, TakeBatchKeeps, SendHashtagsKeeps DEF SendersNext, HashtagsNext

LEMMA TagsFollow == TagInv => HashtagsAccounted
<1> SUFFICES ASSUME TagInv PROVE HashtagsAccounted
  OBVIOUS
<1>1. ASSUME NEW m \in traffic
      PROVE  /\ {x \in Carried : held[x[1]][x[2]] = m} = InTasks(m)
             /\ {x \in Offered : toSend[x[1]][x[2]] = m} = InChannel(m)
  <2>1. \A x : x \in InTasks(m) <=> \E t \in traffic : \E i \in Spots(m, held[t]) : x = <<t, i>>
    BY HoldingsAre DEF InTasks
  <2>2. \A x : x \in InChannel(m) <=> \E t \in DOMAIN toSend : \E i \in Spots(m, toSend[t]) : x = <<t, i>>
    BY HoldingsAre DEF InChannel
  <2>3. {x \in Carried : held[x[1]][x[2]] = m} = InTasks(m)
    BY <2>1 DEF Carried, Spots
  <2>4. {x \in Offered : toSend[x[1]][x[2]] = m} = InChannel(m)
    BY <2>2 DEF Offered, Spots
  <2> QED BY <2>3, <2>4
<1> QED BY <1>1, ZenonT(60) DEF HashtagsAccounted, TagInv, Copies

\* What the senders keep, whatever the file storage does.
LEMMA SendersInvariant == ConsumersSpec => [](ReportInv /\ TagInv)
<1>1. ConsumersInit => ReportInv /\ TagInv
  BY ReportInit, TagInit DEF ConsumersInit
<1>2. ReportInv /\ TagInv /\ [ConsumersNext]_consumerVars => (ReportInv /\ TagInv)'
  <2> SUFFICES ASSUME ReportInv, TagInv, [ConsumersNext]_consumerVars PROVE ReportInv' /\ TagInv'
    OBVIOUS
  <2>1. CASE SendersNext
    BY <2>1, ReportStep, TagStep
  <2>2. CASE UNCHANGED senderVars
    <3>1. UNCHANGED traffic /\ UNCHANGED saveVars /\ UNCHANGED reportVars /\ UNCHANGED tagVars
      BY <2>2 DEF senderVars
    <3>2. ReportInv'
      BY <3>1, ReportFrame DEF saveVars, reportVars
    <3>3. TagInv'
      <4>1. duty \in [traffic -> {"collect", "offer", "stamp", "done"}]
        BY DEF TagInv
      <4> QED BY <3>1, <4>1, TagFrame DEF tagVars
    <3> QED BY <3>2, <3>3
  <2> QED BY <2>1, <2>2 DEF ConsumersNext, consumerVars
<1> QED BY <1>1, <1>2, PTL DEF ConsumersSpec

\* The hashtags of a message whose task has run are in one place and in one only
\* (processEvents and startSender of hashtags-sender), the service of the NFT
\* content knows the stored profile by the newest it was told
\* (nft-content-sender), and the one of the followers everyone in the stored
\* list (followers-sender), for any messages, any traffic, any size of the queue
\* and any number of repetitions.
THEOREM SendersAreSound == ConsumersSpec => []SendersSound
<1>1. ReportInv /\ TagInv => SendersSound
  BY TagsFollow, ServiceFollows, FollowsFollow DEF SendersSound
<1> QED BY <1>1, SendersInvariant, PTL
=============================================================================
