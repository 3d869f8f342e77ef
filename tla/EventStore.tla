----------------------------- MODULE EventStore -----------------------------
(***************************************************************************)
(* The events table and the undo records of a relay (database/query/       *)
(* query.go): a batch of events is accepted, which may store, replace and  *)
(* delete events, and later committed or rolled back by the consensus      *)
(* commands (database/command).  A batch stands for the hash of its        *)
(* events.  Every statement is atomic; a batch takes several, and the      *)
(* statements of other batches come in between.                            *)
(***************************************************************************)
EXTENDS Naturals, FiniteSets, Sequences

CONSTANTS
    Events,         \* events, one per ID
    Batches,        \* calls of AcceptEvents, told apart by their hash
    Addr,           \* address of an event; a regular event's is its ID
    SysId,          \* the content digest of an event (generateSystemID)
    Replaceable,    \* replaceable and addressable events
    Refs,           \* addresses an event refers to: e tags, and a and Q tags
    Class,          \* tokenized communities: action, definition, post, or plain
    Reposts,        \* reposts, whose content is another event
    Origin,         \* the event a repost has for its content
    Soft,           \* versions that mark their row as deleted
    Seen,           \* events the query for dependants can return to a batch: no posts of
                    \* a community, no gift wraps of somebody else
    Save,           \* the events a batch stores
    Kill,           \* the delete filters of a batch: sets of IDs and addresses of events
                    \* the author of the request owns
    Replayed,       \* batches accepted by a consensus replay
    Faulty,         \* batches whose statements may fail
    MaxTries        \* bound: how often each batch is accepted and rolled back again

AddrsOf(S) == {Addr[e] : e \in S}

ASSUME StoreAssumption ==
    /\ Replaceable \subseteq Events /\ Replayed \subseteq Batches /\ Faulty \subseteq Batches
    /\ \A e, f \in Events : Addr[e] = Addr[f] => e = f \/ {e, f} \subseteq Replaceable
    /\ \A e \in Events \ Replaceable : Addr[e] = e
    /\ \A e \in Replaceable : Addr[e] \notin Events     \* kind:pubkey:d is no ID
    /\ Save \in [Batches -> SUBSET Events] /\ \A b \in Batches : IsFiniteSet(Save[b])
    /\ \A b \in Batches : \A i \in DOMAIN Kill[b] : Kill[b][i] \subseteq Events \cup AddrsOf(Events)
    /\ Reposts \subseteq Events \ Replaceable /\ Origin \in [Reposts -> Events]
    /\ Soft \subseteq Replaceable
    /\ Seen \in [Batches -> SUBSET Events]
    /\ MaxTries \in [Batches -> Nat \ {0}]

VARIABLES
    table,      \* the events table, without its hidden rows
    hidden,     \* its hidden rows: events known from a repost only
    link,       \* the reposts that are linked to the row of their origin (reference_id)
    pc,         \* where each batch is
    err,        \* an error was joined to the result of the running call
    work,       \* eventsToRollback, being built by the running call
    front,      \* the deleted addresses whose dependants come next
    undo,       \* rollbackableEvents: the undo records
    tries,      \* how often a batch was accepted and rolled back
    before,     \* history: the table when a batch was last accepted
    touched,    \* history: the events the batch has stored or removed since
    foreign,    \* history: the events other batches, or the database of its own accord, have
                \* stored or removed since
    faulted     \* history: a statement of the batch has failed since

vars == <<table, hidden, link, pc, err, work, front, undo, tries, before, touched, foreign, faulted>>

Nothing == [del |-> {}, ins |-> {}, repl |-> {}]
SameRow(S, t) == {x \in t : Addr[x] \in AddrsOf(S)}

(* The events inside the reposts of S, inside those again, and so on.      *)
Ancestors(S) ==
    LET inside == {Origin[y] : y \in Reposts}
    IN  {x \in inside : \A T \in SUBSET inside :
           (\A y \in (S \cup T) \cap Reposts : Origin[y] \in T) => x \in T}

(* The linked reposts of the rows gone, the linked reposts of those, and   *)
(* so on: the foreign key reference_id deletes them in the same statement, *)
(* which does not return them.                                             *)
Fallen(gone) ==
    {y \in link : \A T \in SUBSET link :
       (\A z \in link : Addr[Origin[z]] \in AddrsOf(gone \cup T) => z \in T) => y \in T}

(* The statement of saveEvents can be executed: no address twice, no       *)
(* digest of a row it leaves, and no repost of an event marked deleted.    *)
Storable(S, t) ==
    /\ \A e, f \in S : Addr[e] = Addr[f] => e = f
    /\ \A e \in S, x \in (t \ SameRow(S, t)) \cup S : SysId[e] = SysId[x] => e = x
    /\ SameRow(Ancestors(S), t) \cap Soft = {}

(* A repost and the event in it: the statement fails if the repost is the  *)
(* first and its trigger makes a hidden row for the event.                 *)
Entangled(S) == AddrsOf(Ancestors(S)) \cap AddrsOf(S) # {}

(* The versions in S that mark as deleted a row that was not.              *)
Softened(S) ==
    {e \in S \cap Soft : \E x \in SameRow({e}, table \cup hidden) : x # e /\ (x \in hidden \/ x \notin Soft)}

(* An event a delete request leaves alone: a community action, and what a  *)
(* stored action or definition is about.                                   *)
Protected(x, t) ==
    \/ Class[x] = "action"
    \/ Class[x] = "definition" /\ \E y \in t : Class[y] = "action" /\ Addr[x] \in Refs[y]
    \/ Class[x] = "post" /\ \E y \in t : Class[y] = "definition" /\ Addr[x] \in Refs[y]

(* BuildForDelete joins the filters with OR and the protection with AND,   *)
(* without brackets: it applies to the last filter only.                   *)
Victims(filters, t) ==
    {x \in t : \E i \in 1..Len(filters) :
                  /\ {x, Addr[x]} \cap filters[i] # {}
                  /\ i = Len(filters) => ~Protected(x, t)}

Dependants(b, addrs, t) == {x \in (t \cap Seen[b]) \ Soft : Refs[x] \cap addrs # {}}

(* The rows replaceable_events_before_update has for the replaced events:  *)
(* the trigger that would fill the table is dropped.                       *)
Backup(S) == {}

Init ==
    /\ table = {} /\ hidden = {} /\ link = {}
    /\ pc = [b \in Batches |-> "idle"]
    /\ err = [b \in Batches |-> FALSE]
    /\ work = [b \in Batches |-> Nothing]
    /\ front = [b \in Batches |-> {}]
    /\ undo = [b \in Batches |-> Nothing]
    /\ tries = [b \in Batches |-> 0]
    /\ before = [b \in Batches |-> {}]
    /\ touched = [b \in Batches |-> {}]
    /\ foreign = [b \in Batches |-> {}]
    /\ faulted = [b \in Batches |-> FALSE]

Active(c) == pc[c] \in {"delete", "cascade", "accepted", "undoCascade", "rolledBack"}

(* Batch b makes t of the table, and the database removes the events fall  *)
(* of its own accord; the histories of the batches that can still be       *)
(* undone follow.                                                          *)
Change(b, t, fall) ==
    LET diff == (table \ t) \cup (t \ table)
    IN  /\ table' = t \ fall
        /\ touched' = [touched EXCEPT ![b] = @ \cup diff]
        /\ foreign' = [c \in Batches |->
                         IF c = b THEN foreign[c] \cup fall
                         ELSE IF Active(c) THEN foreign[c] \cup diff \cup fall ELSE foreign[c]]

(* A delete statement removes the rows gone and their linked reposts.      *)
Remove(b, gone) ==
    LET fall == Fallen(gone) \ gone
    IN  /\ Change(b, table \ gone, fall)
        /\ hidden' = hidden \ fall
        /\ link' = link \ (gone \cup fall)

(* What the save of S makes of the rows that are not hidden.               *)
Stored(S) == (table \ SameRow(S, table)) \cup S

(* The hidden rows and the links the save of S makes: each event inside a  *)
(* repost gets a hidden row if its address is free, and a repost that is   *)
(* new is linked if just that event has a row.  Reposts of a row that is   *)
(* marked as deleted go.                                                   *)
Unwind(S) ==
    LET rows == table \cup hidden
        left == hidden \ SameRow(S, hidden)
        fall == Fallen(Softened(S))
    IN  \E H \in SUBSET Ancestors(S) :
          /\ AddrsOf(H) = AddrsOf(Ancestors(S)) \ AddrsOf(rows \cup S)
          /\ \A x, y \in H : Addr[x] = Addr[y] => x = y
          /\ hidden' = (left \cup H) \ fall
          /\ link' = (link \cup {y \in ((S \cup H) \ rows) \cap Reposts :
                                  Origin[y] \in Stored(S) \cup left \cup H}) \ fall

Keep == UNCHANGED <<table, hidden, link, touched, foreign>>

(* The histories of a batch that is settled are of no more use.            *)
Forget(b) ==
    /\ before' = [before EXCEPT ![b] = {}]
    /\ touched' = [touched EXCEPT ![b] = {}]
    /\ foreign' = [foreign EXCEPT ![b] = {}]

-----------------------------------------------------------------------------
(* AcceptEvents.  First the events are stored, by one statement that       *)
(* replaces the row of the same address.  The undo record deletes the rows *)
(* the statement returned as inserted and, when there are such, the old    *)
(* rows too.                                                               *)
SaveRows(b) ==
    LET old == SameRow(Save[b], table \cup hidden)
        upd == {e \in Save[b] \cap Replaceable : Addr[e] \in AddrsOf(old)}
        rows == (Save[b] \ upd) \cup (old \ upd)
    IN  [del  |-> IF Cardinality(Save[b] \ upd) > Cardinality(old \cap upd)
                  THEN AddrsOf(rows) ELSE {},
         ins  |-> {},
         repl |-> IF b \in Replayed THEN {} ELSE upd]

AcceptSave(b) ==
    /\ pc[b] = "idle" /\ tries[b] < MaxTries[b]
    /\ tries' = [tries EXCEPT ![b] = @ + 1]
    /\ before' = [before EXCEPT ![b] = table]
    /\ pc' = [pc EXCEPT ![b] = "delete"]
    /\ \/ /\ Storable(Save[b], table)
          /\ table' = Stored(Save[b]) \ Fallen(Softened(Save[b]))
          /\ Unwind(Save[b])
          /\ work' = [work EXCEPT ![b] = SaveRows(b)]
          /\ err' = [err EXCEPT ![b] = FALSE]
          /\ touched' = [touched EXCEPT ![b] = (table \ Stored(Save[b])) \cup (Stored(Save[b]) \ table)]
          /\ foreign' = [c \in Batches |->
                           IF c = b THEN Fallen(Softened(Save[b]))
                           ELSE IF Active(c) THEN foreign[c] \cup (table \ table') \cup (table' \ table)
                           ELSE foreign[c]]
       \/ /\ Save[b] # {} /\ (b \in Faulty \/ ~Storable(Save[b], table) \/ Entangled(Save[b]))
          /\ UNCHANGED <<table, hidden, link>>
          /\ work' = [work EXCEPT ![b] = Nothing]
          /\ err' = [err EXCEPT ![b] = TRUE]
          /\ touched' = [touched EXCEPT ![b] = {}]
          /\ foreign' = [foreign EXCEPT ![b] = {}]
    /\ faulted' = [faulted EXCEPT ![b] = err'[b]]
    /\ UNCHANGED <<front, undo>>

(* Then the delete requests are carried out, whether the save failed or    *)
(* not.                                                                    *)
AcceptDelete(b) ==
    /\ pc[b] = "delete"
    /\ LET gone == Victims(Kill[b], table)
       IN  \/ /\ Remove(b, gone)
              /\ work' = [work EXCEPT ![b].ins = @ \cup gone]
              /\ front' = [front EXCEPT ![b] = AddrsOf(gone)]
              /\ UNCHANGED <<err, faulted>>
           \/ /\ b \in Faulty /\ Kill[b] # <<>>
              /\ err' = [err EXCEPT ![b] = TRUE]
              /\ faulted' = [faulted EXCEPT ![b] = TRUE]
              /\ Keep /\ UNCHANGED <<work, front>>
    /\ pc' = [pc EXCEPT ![b] = "cascade"]
    /\ UNCHANGED <<undo, tries, before>>

(* The dependants of what was deleted, level by level.  When a statement   *)
(* fails the rest of the level is skipped and the error is lost.           *)
(* mutated: the deleted events themselves are kept for the next level.     *)
NextLevelStuck(b, gone) == front[b] \cup AddrsOf(gone)

(* mutated: the dependants of dependants are forgotten.                    *)
NextLevelNone(b, gone) == {}

NextLevel(b, gone) == AddrsOf(gone)

Cascade(b, F) ==
    LET gone == Dependants(b, F, table)
    IN  /\ F = front[b] \/ b \in Faulty
        /\ Remove(b, gone)
        /\ front' = [front EXCEPT ![b] = NextLevel(b, gone)]
        /\ faulted' = [faulted EXCEPT ![b] = @ \/ F # front[b]]

(* mutated: the dependants are not put on the undo record.                 *)
AcceptCascadeUnrecorded(b) ==
    /\ pc[b] = "cascade" /\ front[b] # {}
    /\ \E F \in SUBSET front[b] : Cascade(b, F)
    /\ UNCHANGED <<pc, err, work, undo, tries, before>>

AcceptCascade(b) ==
    /\ pc[b] = "cascade" /\ front[b] # {}
    /\ \E F \in SUBSET front[b] :
          /\ Cascade(b, F)
          /\ work' = [work EXCEPT ![b].ins = @ \cup Dependants(b, F, table)]
    /\ UNCHANGED <<pc, err, undo, tries, before>>

(* The undo record is kept if nothing failed and there is something in it. *)
(* mutated: a record that only deletes counts as empty.                    *)
AcceptFinishNoDelete(b) ==
    /\ pc[b] = "cascade" /\ front[b] = {} /\ ~err[b]
    /\ undo' = IF work[b].ins # {} \/ work[b].repl # {} THEN [undo EXCEPT ![b] = work[b]] ELSE undo
    /\ pc' = [pc EXCEPT ![b] = "accepted"]
    /\ work' = [work EXCEPT ![b] = Nothing]
    /\ Keep /\ UNCHANGED <<err, front, tries, before, faulted>>

AcceptFinish(b) ==
    /\ pc[b] = "cascade" /\ front[b] = {}
    /\ undo' = IF ~err[b] /\ work[b] # Nothing THEN [undo EXCEPT ![b] = work[b]] ELSE undo
    /\ \/ err[b] /\ pc' = [pc EXCEPT ![b] = "failed"] /\ Forget(b)
       \/ ~err[b] /\ pc' = [pc EXCEPT ![b] = "accepted"] /\ UNCHANGED <<before, touched, foreign>>
    /\ work' = [work EXCEPT ![b] = Nothing]
    /\ UNCHANGED <<table, hidden, link, err, front, tries, faulted>>

-----------------------------------------------------------------------------
(* CommitEvents drops the undo record; with replaced events it expects     *)
(* their backups and fails without them.                                   *)
Commit(b) ==
    /\ pc[b] = "accepted"
    /\ undo' = [undo EXCEPT ![b] = Nothing]
    /\ pc' = [pc EXCEPT ![b] =
         IF b \notin Replayed /\ Cardinality(Backup(undo[b].repl)) # Cardinality(undo[b].repl)
         THEN "commitFailed" ELSE "committed"]
    /\ Forget(b)
    /\ UNCHANGED <<table, hidden, link, err, work, front, tries, faulted>>

(* RollbackEvents: the record is loaded and stays, so that the rollback by *)
(* rollbackIfErr and the one by RollbackTx both apply it.  A replay is     *)
(* accepted and committed, never rolled back.  The stored events are       *)
(* deleted first; the filters are in the order of the rows.                *)
RollbackDelete(b) ==
    /\ undo[b] # Nothing /\ b \notin Replayed
    /\ \/ pc[b] = "accepted" /\ tries' = tries
       \/ /\ pc[b] \in {"rolledBack", "undoFailed"} /\ tries[b] < MaxTries[b]
          /\ tries' = [tries EXCEPT ![b] = @ + 1]
    /\ \/ \E last \in undo[b].del :
             LET gone == Victims(<<undo[b].del \ {last}, {last}>>, table)
             IN  /\ Remove(b, gone)
                 /\ front' = [front EXCEPT ![b] = AddrsOf(gone)]
                 /\ err' = [err EXCEPT ![b] = FALSE]
                 /\ UNCHANGED faulted
       \/ /\ undo[b].del = {}
          /\ front' = [front EXCEPT ![b] = {}]
          /\ err' = [err EXCEPT ![b] = FALSE]
          /\ Keep /\ UNCHANGED faulted
       \/ /\ b \in Faulty /\ undo[b].del # {}
          /\ err' = [err EXCEPT ![b] = TRUE]
          /\ faulted' = [faulted EXCEPT ![b] = TRUE]
          /\ Keep /\ UNCHANGED front
    /\ pc' = [pc EXCEPT ![b] = "undoCascade"]
    /\ UNCHANGED <<work, undo, before>>

RollbackCascade(b) ==
    /\ pc[b] = "undoCascade" /\ front[b] # {}
    /\ \E F \in SUBSET front[b] : Cascade(b, F)
    /\ UNCHANGED <<pc, err, work, undo, tries, before>>

(* Then the deleted events are stored again, with the backups of the       *)
(* replaced ones; fewer rows than replaced events is an error.             *)
RollbackSave(b) ==
    /\ pc[b] = "undoCascade" /\ front[b] = {}
    /\ LET S == undo[b].ins \cup Backup(undo[b].repl)
           old == SameRow(S, table \cup hidden) \ (S \cap Replaceable)
           short == Cardinality(S) + Cardinality(old) < Cardinality(undo[b].repl)
       IN  \/ /\ Storable(S, table)
              /\ Change(b, Stored(S), Fallen(Softened(S)))
              /\ Unwind(S)
              /\ pc' = [pc EXCEPT ![b] = IF err[b] \/ short THEN "undoFailed" ELSE "rolledBack"]
              /\ UNCHANGED faulted
           \/ /\ undo[b].ins # {} \/ undo[b].repl # {}
              /\ b \in Faulty \/ ~Storable(S, table) \/ Entangled(S)
              /\ Keep
              /\ pc' = [pc EXCEPT ![b] = "undoFailed"]
              /\ faulted' = [faulted EXCEPT ![b] = TRUE]
    /\ UNCHANGED <<err, work, front, undo, tries, before>>

(* Nothing to undo: the call returns at once.                              *)
RollbackNothing(b) ==
    /\ pc[b] = "accepted" /\ undo[b] = Nothing /\ b \notin Replayed
    /\ pc' = [pc EXCEPT ![b] = "rolledBack"]
    /\ Keep /\ UNCHANGED <<err, work, front, undo, tries, before, faulted>>

(* The client, or consensus, sends the same events again.                  *)
Again(b) ==
    /\ pc[b] \in {"committed", "commitFailed", "rolledBack", "undoFailed", "failed"}
    /\ tries[b] < MaxTries[b]
    /\ pc' = [pc EXCEPT ![b] = "idle"]
    /\ Keep /\ UNCHANGED <<err, work, front, undo, tries, before, faulted>>

-----------------------------------------------------------------------------
Step(b) == AcceptDelete(b) \/ AcceptCascade(b) \/ AcceptFinish(b)
           \/ RollbackCascade(b) \/ RollbackSave(b)

Next ==
    \E b \in Batches :
       \/ AcceptSave(b) \/ Step(b)
       \/ Commit(b) \/ RollbackDelete(b) \/ RollbackNothing(b) \/ Again(b)

Spec == Init /\ [][Next]_vars

(* A call that has begun goes on: the statements return, by their          *)
(* time-outs if not otherwise.                                             *)
FairSpec == Spec /\ \A b \in Batches : WF_vars(Step(b))

-----------------------------------------------------------------------------
States == {"idle", "delete", "cascade", "accepted", "failed", "committed", "commitFailed",
           "undoCascade", "rolledBack", "undoFailed"}

Undo == [del : SUBSET AddrsOf(Events), ins : SUBSET Events, repl : SUBSET Replaceable]

(* Types; an undo record names events to delete by address and replaced    *)
(* ones only among the replaceable events.                                 *)
TypeOK ==
    /\ table \subseteq Events /\ hidden \subseteq Events /\ link \subseteq Reposts
    /\ pc \in [Batches -> States]
    /\ err \in [Batches -> BOOLEAN] /\ faulted \in [Batches -> BOOLEAN]
    /\ work \in [Batches -> Undo] /\ undo \in [Batches -> Undo]
    /\ front \in [Batches -> SUBSET AddrsOf(Events)]
    /\ DOMAIN tries = Batches /\ \A b \in Batches : tries[b] \in 0..MaxTries[b]
    /\ \A f \in {before, touched, foreign} : f \in [Batches -> SUBSET Events]

(* What batch b has removed, other than the versions it replaced.          *)
Removed(b) == {x \in touched[b] : Addr[x] \notin AddrsOf(Save[b])}

(* When AcceptEvents has returned without an error, whatever its delete    *)
(* statements returned, at any level and whatever failed in between, is on *)
(* the undo record of the batch (deleteEvents, executeBatch).  The reposts *)
(* that the database removes along with them are not: no statement returns *)
(* them.                                                                   *)
UndoComplete ==
    \A b \in Batches : pc[b] = "accepted" => Removed(b) \subseteq undo[b].ins

(* When AcceptEvents has returned and none of its statements failed, no    *)
(* event is left that refers to an event its statements deleted, except    *)
(* those other batches stored meanwhile and those the query for dependants *)
(* cannot see (the loop of deleteEvents).                                  *)
NoOrphans ==
    \A b \in Batches : pc[b] = "accepted" /\ ~faulted[b] =>
        Dependants(b, AddrsOf(Removed(b)), table \ foreign[b]) = {}

(* The circumstances in which a rollback can be exact: it is the first, no *)
(* statement failed, neither another batch nor the foreign key came near,  *)
(* what the batch stored was new and replaced no hidden row either, nobody *)
(* referred to it, it did not delete it itself, and it is not protected    *)
(* from deletion.                                                          *)
Undoable(b) ==
    /\ tries[b] = 1 /\ ~faulted[b] /\ b \notin Replayed /\ undo[b].repl = {}
    /\ \A x \in touched[b], y \in foreign[b] : Addr[x] # Addr[y] /\ SysId[x] # SysId[y]
    /\ AddrsOf(Save[b]) \cap AddrsOf(before[b]) = {}
    /\ Dependants(b, AddrsOf(Save[b]), before[b]) = {}
    /\ Save[b] \cap undo[b].ins = {}
    /\ \A e \in Save[b] : Class[e] = "plain"

(* RollbackEvents after AcceptEvents leaves of the events the statements   *)
(* of the batch stored or returned as deleted exactly those that were      *)
(* there before, in spite of the statements of other batches in between.   *)
(* The reposts that fell with a deleted event are not among them, and stay *)
(* away.                                                                   *)
RollbackRestores ==
    \A b \in Batches : pc[b] = "rolledBack" /\ Undoable(b) =>
        \A x \in touched[b] : x \in table <=> x \in before[b]

(* AcceptEvents and RollbackEvents return, even when events refer to each  *)
(* other in a circle: the loop of deleteEvents ends.                       *)
CallsEnd ==
    \A b \in Batches : pc[b] \in {"delete", "cascade", "undoCascade"}
                        ~> pc[b] \notin {"delete", "cascade", "undoCascade"}
=============================================================================
