------------------------------ MODULE Storage ------------------------------
(***************************************************************************)
(* The files of one user on one relay (storage/): uploads and deletions    *)
(* that rebuild the user's bag, bags that other relays announce, and the   *)
(* download queue.  The state of different users meets only in the queue   *)
(* and in the slots for downloads.                                         *)
(*                                                                         *)
(* A bag is identified by what it holds and by who made it: its ID is a    *)
(* hash of its files and of the metadata in its header.  The torrent       *)
(* library and leveldb are external.                                       *)
(***************************************************************************)
EXTENDS Integers, FiniteSets, Sequences, SequencesExt

CONSTANTS
  Files,       \* files, named by their hash as SaveFile names them
  Threads,     \* requests under way at the same time
  Announced,   \* bags announced by other relays: [bag, ver] (the "i" tag)
  Slots,       \* ConcurrentBagsDownloading
  MaxRequests, \* bound on the requests
  MaxRestarts  \* bound on the restarts

NoBag == [files |-> {}, by |-> "none"]
Here == "here"
Bags == {NoBag} \cup {[files |-> s, by |-> Here] : s \in SUBSET Files}
          \cup {a.bag : a \in Announced}

ASSUME SlotsAssumption == Slots \in Nat \ {0} /\ IsFiniteSet(Files)
ASSUME AnnouncedAssumption ==
  \A a \in Announced : /\ a.bag.files \subseteq Files /\ a.bag.by \notin {Here, "none"}
                       /\ a.ver \in Nat \ {0}

VARIABLES
  newFiles,  \* client.newFiles of the user: saved, not yet in a stored bag
  disk,      \* the user's directory
  ub,        \* the "ub:" key: the user's bag and the version stored with it
  torrents,  \* progressStorage: bag -> [st, hdr]
  queue,     \* downloadQueue
  active,    \* activeDownloads
  loop,      \* the item startDownloadsFromQueue is working on
  op,        \* Threads -> request under way
  urls,      \* what uploads that made a bag have answered: [bag, file]
  dropped,   \* bags of a user who was deleted
  stalled,   \* torrents left neither queued nor downloading: the request was
             \* cancelled, or the torrent was stopped or did not start
  requests, restarts

vars == <<newFiles, disk, ub, torrents, queue, active, loop, op, urls, dropped,
          stalled, requests, restarts>>
rest == <<dropped, stalled, requests, restarts>>

Idle == [pc |-> "idle", file |-> "none", base |-> NoBag, had |-> {}, bag |-> NoBag,
         ver |-> 0, del |-> FALSE, take |-> FALSE, since |-> 0, tus |-> FALSE]
NoItem == [bag |-> NoBag, ver |-> 0, user |-> FALSE]

Init ==
  /\ newFiles = {} /\ disk = {} /\ ub = [bag |-> NoBag, ver |-> 0]
  /\ torrents = <<>> /\ queue = <<>> /\ active = {} /\ loop = NoItem
  /\ op = [t \in Threads |-> Idle] /\ urls = {}
  /\ dropped = {} /\ stalled = {} /\ requests = 0 /\ restarts = 0

-----------------------------------------------------------------------------
(* A torrent waits ("new"), downloads with the callback of the queue loop   *)
(* ("fetch") or without it ("resume"), is complete and served ("done"),     *)
(* complete with the download flag still set ("whole"), or complete and     *)
(* stopped ("stopped").                                                     *)

Stored(b) == b \in DOMAIN torrents
Complete(b) == Stored(b) /\ torrents[b].st \in {"done", "whole", "stopped"}
Downloading(b) == Stored(b) /\ torrents[b].st \in {"fetch", "resume"}
IsDownloadAll(b) == Downloading(b) \/ (Stored(b) /\ torrents[b].st = "whole")

With(tr, b, st, hdr) == [x \in DOMAIN tr \cup {b} |->
                           IF x = b THEN [st |-> st, hdr |-> hdr] ELSE tr[x]]
Without(tr, b) == [x \in DOMAIN tr \ {b} |-> tr[x]]

\* The bag of the user, or none when its torrent is not there.
bagByUser == IF Stored(ub.bag) THEN ub.bag ELSE NoBag

\* The number of files the user's bag is known to have.
Version(tr) ==
  IF ub.bag \notin DOMAIN tr THEN 0
  ELSE IF tr[ub.bag].hdr THEN Cardinality(ub.bag.files) ELSE ub.ver

\* The files the header of bag b names, once it is known.
HeaderFiles(b) == IF Stored(b) /\ torrents[b].hdr THEN b.files ELSE {}

Larger(m, n) == IF m > n THEN m ELSE n

\* Mutant: a bag with as many files does not replace.
ReplacesIfLarger(tr, b, ver, deletion) ==
  \/ deletion
  \/ (IF tr[b].hdr THEN Cardinality(b.files) ELSE ver)
       > Larger(Cardinality(newFiles), Version(tr))

\* Whether saveTorrent makes bag b the bag of the user; tr has b stored.
Replaces(tr, b, ver, deletion) ==
  \/ deletion
  \/ (IF tr[b].hdr THEN Cardinality(b.files) ELSE ver)
       >= Larger(Cardinality(newFiles), Version(tr))

-----------------------------------------------------------------------------
(* Uploads and deletions.                                                   *)

Begin(t) == op[t].pc = "idle" /\ requests < MaxRequests
            /\ requests' = requests + 1 /\ UNCHANGED <<dropped, stalled, restarts>>

\* The file is renamed to its hash and remembered.
SaveFile(t, f) ==
  /\ Begin(t)
  /\ disk' = disk \cup {f} /\ newFiles' = newFiles \cup {f}
  /\ op' = [op EXCEPT ![t] = [Idle EXCEPT !.pc = "saved", !.file = f]]
  /\ UNCHANGED <<ub, torrents, queue, active, loop, urls>>

\* The hash is not the one of the token: the file is removed again.
Mismatch(t) ==
  /\ op[t].pc = "saved" /\ ~op[t].del /\ ~op[t].tus
  /\ disk' = disk \ {op[t].file} /\ op' = [op EXCEPT ![t] = Idle]
  /\ UNCHANGED <<newFiles, ub, torrents, queue, active, loop, urls, rest>>

\* The last part of a resumable upload has come: tus has put the file in its
\* place, where it stays when its hash is wrong and goes when it is too short.
PreFinishResponseCallback(t, f) ==
  /\ Begin(t)
  /\ \/ /\ disk' = disk \cup {f} /\ newFiles' = newFiles \cup {f}
        /\ op' = [op EXCEPT ![t] = [Idle EXCEPT !.pc = "saved", !.file = f, !.tus = TRUE]]
     \/ disk' \in {disk \cup {f}, disk \ {f}} /\ UNCHANGED <<newFiles, op>>
  /\ UNCHANGED <<ub, torrents, queue, active, loop, urls>>

\* The request t is alone, the user's bag is complete, and its files and the
\* new ones are on the disk.
Settled(t) ==
  LET b == bagByUser IN
  /\ \A u \in Threads \ {t} : op[u] = Idle
  /\ b = NoBag \/ Complete(b)
  /\ b.files \cup newFiles \cup {op[t].file} \subseteq disk

\* StartUpload looks at the user's bag; a file it has is not uploaded again.
StartUpload(t) ==
  /\ op[t].pc = "saved"
  /\ LET b == bagByUser IN
     op' = [op EXCEPT ![t] =
              IF ~op[t].del /\ op[t].file \in HeaderFiles(b) THEN Idle
              ELSE [@ EXCEPT !.pc = "build", !.base = b, !.had = HeaderFiles(b),
                             !.since = IF Settled(t) THEN requests ELSE 0]]
  /\ UNCHANGED <<newFiles, disk, ub, torrents, queue, active, loop, urls, rest>>

\* The files of the bag an upload makes.
Merged(o) ==
  LET kept == IF o.del THEN o.had \ {o.file} ELSE o.had \cup {o.file}
  IN  (kept \cup newFiles) \cap disk

upload(t) ==
  /\ op[t].pc = "build"
  /\ op' = [op EXCEPT ![t] = [@ EXCEPT !.pc = "save", !.bag = [files |-> Merged(op[t]), by |-> Here]]]
  /\ UNCHANGED <<newFiles, disk, ub, torrents, queue, active, loop, urls, rest>>

\* saveTorrent stores the torrent and compares it with the user's bag.
saveTorrent(t) ==
  /\ op[t].pc = "save"
  /\ torrents' = With(torrents, op[t].bag, "done", TRUE)
  /\ op' = [op EXCEPT ![t] = [@ EXCEPT !.pc = "put",
                                         !.take = Replaces(torrents', op[t].bag, 0, op[t].del)]]
  /\ UNCHANGED <<newFiles, disk, ub, queue, active, loop, urls, rest>>

\* ... writes the user's key, and saveUploadTorrent forgets what the bag holds.
saveUploadTorrent(t) ==
  /\ op[t].pc = "put"
  /\ ub' = IF op[t].take THEN [bag |-> op[t].bag, ver |-> 0] ELSE ub
  /\ newFiles' = newFiles \ op[t].bag.files
  /\ op' = [op EXCEPT ![t].pc = "answer"]
  /\ UNCHANGED <<disk, torrents, queue, active, loop, urls, rest>>

\* The copy to the CDN is made or queued and the URL answered; or it fails,
\* and the handler removes the file.
Answer(t) ==
  /\ op[t].pc = "answer"
  /\ op' = [op EXCEPT ![t] = Idle]
  /\ \/ /\ urls' = IF op[t].del THEN urls
                   ELSE urls \cup {[bag |-> op[t].bag, file |-> op[t].file]}
        /\ UNCHANGED disk
     \/ /\ ~op[t].del /\ UNCHANGED urls
        /\ disk' = IF op[t].tus THEN disk ELSE disk \ {op[t].file}
  /\ UNCHANGED <<newFiles, ub, torrents, queue, active, loop, rest>>

\* A deletion event or an expiry whose file no other event uses.
processEventDeletion(t, f) ==
  /\ Begin(t) /\ bagByUser # NoBag
  /\ disk' = disk \ {f}
  /\ op' = IF f \in HeaderFiles(bagByUser)
           THEN [op EXCEPT ![t] = [Idle EXCEPT !.pc = "saved", !.file = f, !.del = TRUE]]
           ELSE op
  /\ UNCHANGED <<newFiles, ub, torrents, queue, active, loop, urls>>

\* The HTTP deletion removes the file, and leaves the bag as it is.
Delete(t, f) ==
  /\ Begin(t) /\ f \in HeaderFiles(bagByUser)
  /\ disk' = disk \ {f}
  /\ UNCHANGED <<newFiles, ub, torrents, queue, active, loop, op, urls>>

\* The keys it deletes are named after the bag, so "ub:" stays.
DeleteUser(t) ==
  /\ op[t].pc = "idle" /\ requests < MaxRequests /\ requests' = requests + 1
  /\ torrents' = Without(torrents, bagByUser) /\ disk' = {}
  /\ dropped' = dropped \cup {bagByUser}
  /\ UNCHANGED <<newFiles, ub, queue, active, loop, op, urls, stalled, restarts>>

-----------------------------------------------------------------------------
(* Bags of other relays.                                                    *)

\* Mutant: the old bag is removed whatever its state.
RemovedAlways(old) == Without(torrents, old)

\* The torrents once the bag of the user has been stopped: one that still
\* downloads is removed, one that was uploaded here stays.
Superseded(old) ==
  IF IsDownloadAll(old) THEN Without(torrents, old)
  ELSE [torrents EXCEPT ![old].st = IF @ = "done" THEN "stopped" ELSE @]

\* newBagIDPromoted stops the user's bag when the new one has more files.
newBagIDPromoted(t, a) ==
  LET old     == bagByUser
      replace == old = NoBag \/ (old # a.bag /\ Version(torrents) < a.ver)
      stops   == replace /\ old # NoBag
  IN
  /\ Begin(t)
  /\ op' = [op EXCEPT ![t] = [Idle EXCEPT !.pc = IF replace THEN "record" ELSE "download",
                                          !.bag = a.bag, !.ver = a.ver]]
  /\ active' = IF stops THEN active \ {old} ELSE active
  /\ torrents' = IF stops THEN Superseded(old) ELSE torrents
  /\ UNCHANGED <<newFiles, disk, ub, queue, loop, urls>>

\* ... and names the new one (saveBagPerUser).
saveBagPerUser(t) ==
  /\ op[t].pc = "record"
  /\ ub' = [bag |-> op[t].bag, ver |-> op[t].ver]
  /\ op' = [op EXCEPT ![t].pc = "download"]
  /\ UNCHANGED <<newFiles, disk, torrents, queue, active, loop, urls, rest>>

\* download leaves a bag that is under way or complete, starts a torrent that is
\* there, which may fail, and stores a new one.
download(t) ==
  LET b     == op[t].bag
      fresh == With(torrents, b, "new", FALSE)
  IN
  /\ op[t].pc = "download"
  /\ \/ /\ b \in active \/ Complete(b)
        /\ op' = [op EXCEPT ![t] = Idle] /\ UNCHANGED <<ub, torrents, stalled>>
     \/ /\ b \notin active /\ Stored(b) /\ ~Complete(b)
        /\ op' = [op EXCEPT ![t] = Idle] /\ UNCHANGED ub
        /\ \/ torrents' = [torrents EXCEPT ![b].st = "resume"] /\ stalled' = stalled \ {b}
           \/ UNCHANGED <<torrents, stalled>>
     \/ /\ b \notin active /\ ~Stored(b)
        /\ torrents' = fresh
        /\ ub' = IF Replaces(fresh, b, op[t].ver, FALSE) THEN [bag |-> b, ver |-> op[t].ver] ELSE ub
        /\ op' = [op EXCEPT ![t].pc = "queue"] /\ UNCHANGED stalled
  /\ UNCHANGED <<newFiles, disk, queue, active, loop, urls, dropped, requests, restarts>>

\* ... which waits for a place in the queue until the request is cancelled.
Enqueue(t) ==
  /\ op[t].pc = "queue"
  /\ op' = [op EXCEPT ![t] = Idle]
  /\ \/ /\ queue' = Append(queue, [bag |-> op[t].bag, ver |-> op[t].ver, user |-> TRUE])
        /\ UNCHANGED stalled
     \/ stalled' = stalled \cup {op[t].bag} /\ UNCHANGED queue
  /\ UNCHANGED <<newFiles, disk, ub, torrents, active, loop, urls, dropped, requests, restarts>>

FreeSlot == Cardinality(active) < Slots

\* startDownloadsFromQueue takes an item while there is a free slot, and starts
\* the download unless that fails.
TakeItem ==
  LET b == Head(queue).bag IN
  /\ loop = NoItem /\ queue # <<>> /\ FreeSlot
  /\ queue' = Tail(queue)
  /\ IF Stored(b) /\ ~Downloading(b) /\ ~Complete(b)
     THEN /\ loop' = Head(queue)
          /\ \/ torrents' = [torrents EXCEPT ![b].st = "fetch"] /\ stalled' = stalled \ {b}
             \/ UNCHANGED <<torrents, stalled>>
     ELSE UNCHANGED <<loop, torrents, stalled>>
  /\ UNCHANGED <<newFiles, disk, ub, active, op, urls, dropped, requests, restarts>>

\* ... and records it and takes the slot.  A torrent that was stopped and removed
\* meanwhile is stored again as it is: stopped, perhaps with its header.
ItemStarted ==
  LET b == loop.bag IN
  /\ loop # NoItem
  /\ \E tr \in IF Stored(b) THEN {torrents}
              ELSE {With(torrents, b, "new", hdr) : hdr \in BOOLEAN} :
       /\ torrents' = tr
       /\ ub' = IF loop.user /\ Replaces(tr, b, loop.ver, FALSE)
                THEN [bag |-> b, ver |-> loop.ver] ELSE ub
       /\ stalled' = IF tr[b].st = "new" THEN stalled \cup {b} ELSE stalled
  /\ active' = active \cup {b} /\ loop' = NoItem
  /\ UNCHANGED <<newFiles, disk, queue, op, urls, dropped, requests, restarts>>

Saved(b) == IF Replaces(torrents', b, 0, FALSE)
            THEN [bag |-> b, ver |-> Cardinality(b.files)] ELSE ub

\* torrentStateCallback: the header has come, or the whole bag.
BagResolved(b) ==
  /\ Stored(b) /\ torrents[b] = [st |-> "fetch", hdr |-> FALSE]
  /\ torrents' = With(torrents, b, "fetch", TRUE) /\ ub' = Saved(b)
  /\ UNCHANGED <<newFiles, disk, queue, active, loop, op, urls, rest>>

BagDone(b) ==
  /\ Stored(b) /\ torrents[b] = [st |-> "fetch", hdr |-> TRUE]
  /\ torrents' = With(torrents, b, "done", TRUE) /\ ub' = Saved(b)
  /\ disk' = disk \cup b.files /\ active' = active \ {b}
  /\ UNCHANGED <<newFiles, queue, loop, op, urls, rest>>

\* A torrent that was restarted without the callback is complete.
ResumedDone(b) ==
  /\ Stored(b) /\ torrents[b].st = "resume"
  /\ torrents' = With(torrents, b, "whole", TRUE) /\ disk' = disk \cup b.files
  /\ UNCHANGED <<newFiles, ub, queue, active, loop, op, urls, rest>>

\* Mutant: only bags with a header are queued again.
WaitingResolved == {b \in DOMAIN torrents : torrents[b].st = "stopped"}

\* The torrents that neither upload nor download.
Waiting == {b \in DOMAIN torrents : torrents[b].st \in {"new", "stopped"}}

\* The relay restarts: the waiting torrents are queued.
Restart ==
  LET waiting == SetToSeq(Waiting) IN
  /\ restarts < MaxRestarts /\ restarts' = restarts + 1
  /\ newFiles' = {} /\ active' = {} /\ loop' = NoItem
  /\ op' = [t \in Threads |-> Idle]
  /\ torrents' = [b \in DOMAIN torrents |->
                    IF torrents[b].st = "fetch" THEN [torrents[b] EXCEPT !.st = "resume"]
                    ELSE torrents[b]]
  /\ queue' = [i \in 1..Len(waiting) |->
                 [bag |-> waiting[i], ver |-> 0, user |-> torrents[waiting[i]].hdr]]
  /\ stalled' = {}
  /\ UNCHANGED <<disk, ub, urls, dropped, requests>>

Next ==
  \/ \E t \in Threads :
       \/ \E f \in Files : \/ SaveFile(t, f) \/ PreFinishResponseCallback(t, f)
                          \/ processEventDeletion(t, f) \/ Delete(t, f)
       \/ Mismatch(t) \/ StartUpload(t) \/ upload(t) \/ saveTorrent(t)
       \/ saveUploadTorrent(t) \/ Answer(t) \/ DeleteUser(t)
       \/ saveBagPerUser(t) \/ download(t) \/ Enqueue(t)
       \/ \E a \in Announced : newBagIDPromoted(t, a)
  \/ TakeItem \/ ItemStarted
  \/ \E b \in DOMAIN torrents : BagResolved(b) \/ BagDone(b) \/ ResumedDone(b)
  \/ Restart

Spec == Init /\ [][Next]_vars

-----------------------------------------------------------------------------
States == [st : {"new", "fetch", "resume", "done", "whole", "stopped"}, hdr : BOOLEAN]

(* The state is well formed, at most Slots downloads are counted as under   *)
(* way, and a complete torrent has its header.                              *)
TypeOK ==
  /\ newFiles \subseteq Files /\ disk \subseteq Files
  /\ ub.bag \in Bags /\ DOMAIN torrents \subseteq Bags \ {NoBag}
  /\ \A b \in DOMAIN torrents : /\ torrents[b] \in States
                                /\ Complete(b) => torrents[b].hdr
  /\ active \subseteq Bags \ {NoBag} /\ Cardinality(active) <= Slots

(* A bag whose URL an upload answered stays stored until the user is        *)
(* deleted: later uploads, deletions and bags of other relays replace the   *)
(* bag of the user and leave the earlier ones where they are.               *)
UploadsStored ==
  /\ TypeOK
  /\ \A u \in urls : Complete(u.bag) \/ u.bag \in dropped

(* No stored torrent is forgotten, whatever crash or announcement comes      *)
(* between the writes: it is complete, downloads, waits in the queue, is      *)
(* with the loop or with a request that will queue it, or it stalled since    *)
(* the last restart.  A user's bag that is not stored holds up nothing, as    *)
(* the next announcement replaces it.                                         *)
TorrentsFetched ==
  \A b \in DOMAIN torrents :
     \/ Complete(b) \/ Downloading(b) \/ b \in stalled
     \/ loop.bag = b \/ \E i \in 1..Len(queue) : queue[i].bag = b
     \/ \E t \in Threads : op[t].pc = "queue" /\ op[t].bag = b

(* An upload that starts from a settled state and runs alone adds its file  *)
(* to the user's bag and removes none, unless a download replaced the bag   *)
(* meanwhile.                                                               *)
UploadAdds ==
  [][\A t \in Threads :
       LET o == op[t] IN
       (/\ o.pc = "put" /\ op'[t].pc = "answer" /\ ~o.del
        /\ o.since = requests /\ bagByUser = o.base)
       => o.base.files \cup {o.file} \subseteq ub'.bag.files]_vars
=============================================================================
