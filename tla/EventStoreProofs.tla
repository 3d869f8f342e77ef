-------------------------- MODULE EventStoreProofs --------------------------
(* What AcceptEvents leaves behind and RollbackEvents restores, for every  *)
(* set of events and batches.                                              *)
EXTENDS EventStore, FiniteSetTheorems, TLAPS

USE StoreAssumption DEF Nothing

(* One batch of Next takes a step.                                         *)
Act(b) ==
    \/ AcceptSave(b) \/ Step(b)
    \/ Commit(b) \/ RollbackDelete(b) \/ RollbackNothing(b) \/ Again(b)

(* A set of addresses taken from events of the model.                      *)
LEMMA AddrsMono ==
    ASSUME NEW S, NEW T, S \subseteq T
    PROVE  AddrsOf(S) \subseteq AddrsOf(T)
BY DEF AddrsOf

(* saveEvents makes a well-formed undo record.                             *)
LEMMA SaveRowsType ==
    ASSUME TypeOK, NEW b \in Batches
    PROVE  SaveRows(b) \in Undo
<1> DEFINE old == SameRow(Save[b], table \cup hidden)
           upd == {e \in Save[b] \cap Replaceable : Addr[e] \in AddrsOf(old)}
           rows == (Save[b] \ upd) \cup (old \ upd)
<1>1. Save[b] \subseteq Events
  OBVIOUS
<1>2. old \subseteq Events
  BY DEF SameRow, TypeOK
<1>3. AddrsOf(rows) \subseteq AddrsOf(Events)
  <2>1. rows \subseteq Events
    BY <1>1, <1>2
  <2> QED
    BY <2>1, AddrsMono
<1>4. upd \subseteq Replaceable
  OBVIOUS
<1> HIDE DEF old, upd, rows
<1>5. SaveRows(b) = [del |-> IF Cardinality(Save[b] \ upd) > Cardinality(old \cap upd)
                             THEN AddrsOf(rows) ELSE {},
                     ins |-> {}, repl |-> IF b \in Replayed THEN {} ELSE upd]
  BY DEF SaveRows, old, upd, rows
<1> QED
  BY <1>3, <1>4, <1>5 DEF Undo

(* What falls with a row is a repost, what is in a repost an event.        *)
LEMMA FallenType ==
    ASSUME TypeOK, NEW gone
    PROVE  Fallen(gone) \subseteq link /\ Fallen(gone) \subseteq Events
BY DEF Fallen, TypeOK

LEMMA AncestorsType ==
    ASSUME NEW S
    PROVE  Ancestors(S) \subseteq Events
<1> DEFINE inside == {Origin[y] : y \in Reposts}
<1>1. inside \subseteq Events
  OBVIOUS
<1>2. Ancestors(S) \subseteq inside
  BY DEF Ancestors
<1> QED
  BY <1>1, <1>2

(* A change of the table keeps the types of the table and its histories.   *)
LEMMA ChangeType ==
    ASSUME TypeOK, NEW b \in Batches, NEW t \in SUBSET Events, NEW fall \in SUBSET Events, Change(b, t, fall)
    PROVE  /\ table' \subseteq Events
           /\ touched' \in [Batches -> SUBSET Events]
           /\ foreign' \in [Batches -> SUBSET Events]
BY DEF TypeOK, Change

LEMMA RemoveType ==
    ASSUME TypeOK, NEW b \in Batches, NEW gone \in SUBSET Events, Remove(b, gone)
    PROVE  /\ table' \subseteq Events /\ hidden' \subseteq Events /\ link' \subseteq Reposts
           /\ touched' \in [Batches -> SUBSET Events]
           /\ foreign' \in [Batches -> SUBSET Events]
<1> DEFINE fall == Fallen(gone) \ gone
<1>1. fall \in SUBSET Events
  BY FallenType
<1>2. Change(b, table \ gone, fall) /\ hidden' = hidden \ fall /\ link' = link \ (gone \cup fall)
  BY DEF Remove
<1> HIDE DEF fall
<1>3. table \ gone \in SUBSET Events
  BY DEF TypeOK
<1>4. /\ table' \subseteq Events
      /\ touched' \in [Batches -> SUBSET Events]
      /\ foreign' \in [Batches -> SUBSET Events]
  BY <1>1, <1>2, <1>3, ChangeType
<1> QED
  BY <1>2, <1>4 DEF TypeOK

LEMMA UnwindType ==
    ASSUME TypeOK, NEW S \in SUBSET Events, Unwind(S)
    PROVE  hidden' \subseteq Events /\ link' \subseteq Reposts
<1>1. PICK H \in SUBSET Ancestors(S) :
         /\ hidden' = ((hidden \ SameRow(S, hidden)) \cup H) \ Fallen(Softened(S))
         /\ link' = (link \cup {y \in ((S \cup H) \ (table \cup hidden)) \cap Reposts :
                                Origin[y] \in Stored(S) \cup (hidden \ SameRow(S, hidden)) \cup H})
                    \ Fallen(Softened(S))
  BY DEF Unwind
<1>2. H \subseteq Events
  BY AncestorsType
<1> QED
  BY <1>1, <1>2 DEF TypeOK

LEMMA CascadeType ==
    ASSUME TypeOK, NEW b \in Batches, NEW F, Cascade(b, F)
    PROVE  /\ table' \subseteq Events /\ hidden' \subseteq Events /\ link' \subseteq Reposts
           /\ touched' \in [Batches -> SUBSET Events]
           /\ foreign' \in [Batches -> SUBSET Events]
           /\ front' \in [Batches -> SUBSET AddrsOf(Events)]
           /\ faulted' \in [Batches -> BOOLEAN]
           /\ Dependants(b, F, table) \subseteq Events
<1> DEFINE gone == Dependants(b, F, table)
<1>1. gone \subseteq Events
  BY DEF Dependants, TypeOK
<1>2. AddrsOf(gone) \subseteq AddrsOf(Events)
  BY <1>1, AddrsMono
<1>3. Remove(b, gone)
  BY DEF Cascade
<1>4. front' = [front EXCEPT ![b] = AddrsOf(gone)] /\ faulted' = [faulted EXCEPT ![b] = @ \/ F # front[b]]
  BY DEF Cascade, NextLevel
<1> QED
  BY <1>1, <1>2, <1>3, <1>4, RemoveType DEF TypeOK

(* Every step keeps the types.                                             *)
LEMMA TypeStep ==
    ASSUME TypeOK, NEW b \in Batches, Act(b)
    PROVE  TypeOK'
<1>1. CASE AcceptSave(b)
  <2>1. SaveRows(b) \in Undo /\ [del |-> {}, ins |-> {}, repl |-> {}] \in Undo
    BY SaveRowsType DEF Undo
  <2>2. /\ table' \subseteq Events /\ hidden' \subseteq Events /\ link' \subseteq Reposts
        /\ Stored(Save[b]) \subseteq Events /\ Fallen(Softened(Save[b])) \subseteq Events
    <3>1. Stored(Save[b]) \subseteq Events /\ Fallen(Softened(Save[b])) \subseteq Events
      BY FallenType DEF Stored, TypeOK
    <3>2. \/ table' = Stored(Save[b]) \ Fallen(Softened(Save[b])) /\ Unwind(Save[b])
          \/ UNCHANGED <<table, hidden, link>>
      BY <1>1 DEF AcceptSave
    <3> QED
      BY <3>1, <3>2, UnwindType DEF TypeOK
  <2>3. work' \in [Batches -> Undo] /\ err' \in [Batches -> BOOLEAN]
    <3>1. \/ work' = [work EXCEPT ![b] = SaveRows(b)]
          \/ work' = [work EXCEPT ![b] = [del |-> {}, ins |-> {}, repl |-> {}]]
      BY <1>1 DEF AcceptSave
    <3>2. work' \in [Batches -> Undo]
      <4>1. PICK u \in Undo : work' = [work EXCEPT ![b] = u]
        BY <2>1, <3>1, Zenon
      <4> QED BY <4>1 DEF TypeOK
    <3>3. err' = [err EXCEPT ![b] = FALSE] \/ err' = [err EXCEPT ![b] = TRUE]
      BY <1>1 DEF AcceptSave
    <3>4. err' \in [Batches -> BOOLEAN]
      BY <3>3 DEF TypeOK
    <3> QED
      BY <3>2, <3>4
  <2>4. faulted' \in [Batches -> BOOLEAN]
    BY <1>1, <2>3 DEF AcceptSave, TypeOK
  <2>5. before' \in [Batches -> SUBSET Events] /\ pc' \in [Batches -> States]
    BY <1>1 DEF AcceptSave, TypeOK, States
  <2>6. touched' \in [Batches -> SUBSET Events] /\ foreign' \in [Batches -> SUBSET Events]
    BY <1>1, <2>2 DEF AcceptSave, TypeOK
  <2>7. DOMAIN tries' = Batches /\ \A c \in Batches : tries'[c] \in 0..MaxTries[c]
    BY <1>1 DEF AcceptSave, TypeOK
  <2> QED
    BY <1>1, <2>2, <2>3, <2>4, <2>5, <2>6, <2>7 DEF AcceptSave, TypeOK
<1>2. CASE AcceptDelete(b)
  <2> DEFINE gone == Victims(Kill[b], table)
  <2>1. gone \subseteq Events /\ AddrsOf(gone) \subseteq AddrsOf(Events)
    BY AddrsMono DEF Victims, TypeOK
  <2>2. /\ table' \subseteq Events /\ hidden' \subseteq Events /\ link' \subseteq Reposts
        /\ touched' \in [Batches -> SUBSET Events]
        /\ foreign' \in [Batches -> SUBSET Events]
    BY <1>2, <2>1, RemoveType DEF AcceptDelete, Keep, TypeOK
  <2> HIDE DEF gone
  <2>3. /\ work' \in [Batches -> Undo]
        /\ front' \in [Batches -> SUBSET AddrsOf(Events)]
    <3>1. \/ UNCHANGED <<work, front>>
          \/ /\ work' = [work EXCEPT ![b].ins = @ \cup gone]
             /\ front' = [front EXCEPT ![b] = AddrsOf(gone)]
      BY <1>2 DEF AcceptDelete, gone
    <3>2. work' \in [Batches -> Undo]
      <4>1. work[b] \in Undo /\ work \in [Batches -> Undo]
        BY DEF TypeOK
      <4>2. [work[b] EXCEPT !.ins = @ \cup gone] \in Undo
        BY <2>1, <4>1 DEF Undo
      <4> QED
        BY <3>1, <4>1, <4>2, ZenonT(60)
    <3> QED
      BY <2>1, <3>1, <3>2 DEF TypeOK
  <2>4. /\ pc' \in [Batches -> States] /\ err' \in [Batches -> BOOLEAN]
        /\ faulted' \in [Batches -> BOOLEAN]
    BY <1>2 DEF AcceptDelete, TypeOK, States
  <2> QED
    BY <1>2, <2>2, <2>3, <2>4 DEF AcceptDelete, TypeOK
<1>3. CASE AcceptCascade(b)
  <2>1. PICK F \in SUBSET front[b] :
           Cascade(b, F) /\ work' = [work EXCEPT ![b].ins = @ \cup Dependants(b, F, table)]
    BY <1>3 DEF AcceptCascade
  <2>2. Dependants(b, F, table) \subseteq Events
    BY <2>1, CascadeType
  <2>3. work' \in [Batches -> Undo]
    <3>1. work[b] \in Undo /\ work \in [Batches -> Undo]
      BY DEF TypeOK
    <3>2. [work[b] EXCEPT !.ins = @ \cup Dependants(b, F, table)] \in Undo
      BY <2>2, <3>1 DEF Undo
    <3> QED
      BY <2>1, <3>1, <3>2
  <2> QED
    BY <1>3, <2>1, <2>3, CascadeType DEF AcceptCascade, TypeOK
<1>4. CASE AcceptFinish(b)
  <2>1. work' \in [Batches -> Undo] /\ undo' \in [Batches -> Undo]
    BY <1>4 DEF AcceptFinish, TypeOK, Undo
  <2>2. pc' \in [Batches -> States]
    BY <1>4 DEF AcceptFinish, TypeOK, States
  <2>3. \A f \in {before', touched', foreign'} : f \in [Batches -> SUBSET Events]
    BY <1>4 DEF AcceptFinish, TypeOK, Forget
  <2> QED
    BY <1>4, <2>1, <2>2, <2>3 DEF AcceptFinish, TypeOK
<1>5. CASE Commit(b)
  <2>1. undo' \in [Batches -> Undo]
    BY <1>5 DEF Commit, TypeOK, Undo
  <2>2. pc' \in [Batches -> States]
    BY <1>5 DEF Commit, TypeOK, States
  <2>3. \A f \in {before', touched', foreign'} : f \in [Batches -> SUBSET Events]
    BY <1>5 DEF Commit, TypeOK, Forget
  <2> QED
    BY <1>5, <2>1, <2>2, <2>3 DEF Commit, TypeOK
<1>6. CASE RollbackDelete(b)
  <2>1. DOMAIN tries' = Batches /\ \A c \in Batches : tries'[c] \in 0..MaxTries[c]
    BY <1>6 DEF RollbackDelete, TypeOK
  <2>2. /\ pc' \in [Batches -> States] /\ err' \in [Batches -> BOOLEAN]
        /\ faulted' \in [Batches -> BOOLEAN]
    BY <1>6, ZenonT(60) DEF RollbackDelete, TypeOK, States
  <2>3. /\ table' \subseteq Events /\ hidden' \subseteq Events /\ link' \subseteq Reposts
        /\ touched' \in [Batches -> SUBSET Events]
        /\ foreign' \in [Batches -> SUBSET Events]
        /\ front' \in [Batches -> SUBSET AddrsOf(Events)]
    <3>1. CASE \E last \in undo[b].del :
                 LET gone == Victims(<<undo[b].del \ {last}, {last}>>, table)
                 IN  /\ Remove(b, gone)
                     /\ front' = [front EXCEPT ![b] = AddrsOf(gone)]
      <4>1. PICK last \in undo[b].del :
               /\ Remove(b, Victims(<<undo[b].del \ {last}, {last}>>, table))
               /\ front' = [front EXCEPT ![b] = AddrsOf(Victims(<<undo[b].del \ {last}, {last}>>, table))]
        BY <3>1
      <4> DEFINE gone == Victims(<<undo[b].del \ {last}, {last}>>, table)
      <4>2. gone \subseteq Events /\ AddrsOf(gone) \subseteq AddrsOf(Events)
        BY AddrsMono DEF Victims, TypeOK
      <4> HIDE DEF gone
      <4>3. Remove(b, gone) /\ front' = [front EXCEPT ![b] = AddrsOf(gone)]
        BY <4>1 DEF gone
      <4> QED
        BY <4>2, <4>3, RemoveType DEF TypeOK
    <3>2. CASE Keep /\ (front' = front \/ front' = [front EXCEPT ![b] = {}])
      BY <3>2 DEF Keep, TypeOK
    <3> QED
      BY <1>6, <3>1, <3>2 DEF RollbackDelete
  <2> QED
    BY <1>6, <2>1, <2>2, <2>3 DEF RollbackDelete, TypeOK
<1>7. CASE RollbackCascade(b)
  BY <1>7, CascadeType DEF RollbackCascade, TypeOK
<1>8. CASE RollbackSave(b)
  <2> DEFINE S == undo[b].ins \cup Backup(undo[b].repl)
  <2>1. S \in SUBSET Events
    BY DEF TypeOK, Undo, Backup
  <2>2. (Change(b, Stored(S), Fallen(Softened(S))) /\ Unwind(S)) \/ Keep
    BY <1>8 DEF RollbackSave
  <2> HIDE DEF S
  <2>3. /\ table' \subseteq Events /\ hidden' \subseteq Events /\ link' \subseteq Reposts
        /\ touched' \in [Batches -> SUBSET Events]
        /\ foreign' \in [Batches -> SUBSET Events]
    <3>1. Stored(S) \in SUBSET Events
      BY <2>1 DEF Stored, TypeOK
    <3>2. Fallen(Softened(S)) \in SUBSET Events
      BY FallenType
    <3> QED
      BY <2>1, <2>2, <3>1, <3>2, ChangeType, UnwindType DEF Keep, TypeOK
  <2>4. pc' \in [Batches -> States] /\ faulted' \in [Batches -> BOOLEAN]
    BY <1>8, ZenonT(60) DEF RollbackSave, TypeOK, States
  <2> QED
    BY <1>8, <2>3, <2>4 DEF RollbackSave, TypeOK
<1>9. CASE RollbackNothing(b) \/ Again(b)
  BY <1>9 DEF RollbackNothing, Again, Keep, TypeOK, States
<1> QED
  BY <1>1, <1>2, <1>3, <1>4, <1>5, <1>6, <1>7, <1>8, <1>9 DEF Act, Step

(* The types hold, for every instance.                                     *)
THEOREM TypeCorrect == Spec => []TypeOK
<1>1. Init => TypeOK
  BY DEF Init, TypeOK, Undo, States
<1>2. TypeOK /\ [Next]_vars => TypeOK'
  <2> SUFFICES ASSUME TypeOK, [Next]_vars PROVE TypeOK'
    OBVIOUS
  <2>1. CASE UNCHANGED vars
    BY <2>1 DEF vars, TypeOK
  <2>2. ASSUME NEW b \in Batches, Act(b) PROVE TypeOK'
    BY <2>2, TypeStep
  <2> QED
    BY <2>1, <2>2 DEF Next, Act
<1> QED
  BY <1>1, <1>2, PTL DEF Spec

-----------------------------------------------------------------------------
(* What was removed so far is on the record under construction, and on the *)
(* undo record once the call has returned.                                 *)
Recorded ==
    \A b \in Batches :
        /\ pc[b] = "delete" => Removed(b) = {}
        /\ pc[b] = "cascade" => Removed(b) \subseteq work[b].ins
        /\ pc[b] = "accepted" => Removed(b) \subseteq undo[b].ins

(* The rows of batch b that its query for dependants can return.           *)
Watched(b) == ((table \ foreign[b]) \cap Seen[b]) \ Soft

(* References to removed events are references to the level that comes     *)
(* next; a call that has returned has none left.                           *)
Covered ==
    \A b \in Batches :
        /\ pc[b] \notin {"cascade", "undoCascade"} => front[b] = {}
        /\ pc[b] \in {"cascade", "accepted"} /\ ~faulted[b] =>
              \A x \in Watched(b) : Refs[x] \cap AddrsOf(Removed(b)) \subseteq front[b]

IInv == TypeOK /\ Recorded /\ Covered

(* A delete statement removes gone, and the database what falls with it.   *)
LEMMA RemoveEffect ==
    ASSUME TypeOK, NEW b \in Batches, NEW gone \in SUBSET table, Remove(b, gone)
    PROVE  /\ table' = (table \ gone) \ (Fallen(gone) \ gone)
           /\ touched'[b] = touched[b] \cup gone
           /\ foreign'[b] = foreign[b] \cup (Fallen(gone) \ gone)
<1>1. PICK fall : fall = Fallen(gone) \ gone
  OBVIOUS
<1>2. Change(b, table \ gone, fall)
  BY <1>1 DEF Remove
<1>3. table' = (table \ gone) \ fall /\ touched'[b] = touched[b] \cup gone /\ foreign'[b] = foreign[b] \cup fall
  BY <1>2 DEF Change, TypeOK
<1> QED
  BY <1>1, <1>3

(* A step of one batch leaves the state of the others alone, and counts    *)
(* what it changes as foreign to them.                                     *)
LEMMA Frame ==
    ASSUME TypeOK, NEW b \in Batches, Act(b), NEW c \in Batches, c # b
    PROVE  /\ pc'[c] = pc[c] /\ work'[c] = work[c] /\ undo'[c] = undo[c]
           /\ front'[c] = front[c] /\ touched'[c] = touched[c] /\ faulted'[c] = faulted[c]
           /\ Active(c) => table' \ foreign'[c] \subseteq table \ foreign[c]
<1>1. CASE AcceptSave(b)
  BY <1>1 DEF AcceptSave, TypeOK
<1>2. CASE AcceptDelete(b)
  <2>1. Keep \/ \E t, fall : Change(b, t, fall)
    BY <1>2 DEF AcceptDelete, Remove
  <2>2. touched'[c] = touched[c] /\ (Active(c) => table' \ foreign'[c] \subseteq table \ foreign[c])
    BY <2>1 DEF Change, Keep, TypeOK
  <2>3. /\ pc'[c] = pc[c] /\ work'[c] = work[c] /\ undo'[c] = undo[c]
        /\ front'[c] = front[c] /\ faulted'[c] = faulted[c]
    BY <1>2 DEF AcceptDelete, TypeOK
  <2> QED
    BY <2>2, <2>3
<1>3. CASE AcceptCascade(b) \/ RollbackCascade(b)
  <2>1. PICK F : Cascade(b, F)
    BY <1>3 DEF AcceptCascade, RollbackCascade
  <2>2. /\ front'[c] = front[c] /\ touched'[c] = touched[c] /\ faulted'[c] = faulted[c]
        /\ Active(c) => table' \ foreign'[c] \subseteq table \ foreign[c]
    BY <2>1 DEF Cascade, Remove, Change, TypeOK
  <2> QED
    BY <1>3, <2>2 DEF AcceptCascade, RollbackCascade, TypeOK
<1>4. CASE AcceptFinish(b)
  BY <1>4 DEF AcceptFinish, Forget, TypeOK
<1>5. CASE Commit(b)
  BY <1>5 DEF Commit, Forget, TypeOK
<1>6. CASE RollbackDelete(b)
  <2>1. Keep \/ \E t, fall : Change(b, t, fall)
    BY <1>6 DEF RollbackDelete, Remove
  <2>2. touched'[c] = touched[c] /\ (Active(c) => table' \ foreign'[c] \subseteq table \ foreign[c])
    BY <2>1 DEF Change, Keep, TypeOK
  <2>3. pc'[c] = pc[c] /\ front'[c] = front[c] /\ faulted'[c] = faulted[c]
    BY <1>6 DEF RollbackDelete, TypeOK
  <2> QED
    BY <1>6, <2>2, <2>3 DEF RollbackDelete
<1>7. CASE RollbackSave(b)
  <2>1. Keep \/ \E t, fall : Change(b, t, fall)
    BY <1>7 DEF RollbackSave
  <2>2. touched'[c] = touched[c] /\ (Active(c) => table' \ foreign'[c] \subseteq table \ foreign[c])
    BY <2>1 DEF Change, Keep, TypeOK
  <2>3. pc'[c] = pc[c] /\ faulted'[c] = faulted[c]
    BY <1>7, ZenonT(60) DEF RollbackSave, TypeOK
  <2> QED
    BY <1>7, <2>2, <2>3 DEF RollbackSave
<1>8. CASE RollbackNothing(b) \/ Again(b)
  BY <1>8 DEF RollbackNothing, Again, Keep, TypeOK
<1> QED
  BY <1>1, <1>2, <1>3, <1>4, <1>5, <1>6, <1>7, <1>8 DEF Act, Step

(* Deleting the events gone adds just those to what a batch removed.       *)
LEMMA RemovedGrows ==
    ASSUME TypeOK, NEW b \in Batches, NEW gone \in SUBSET table, Remove(b, gone)
    PROVE  /\ Removed(b)' \subseteq Removed(b) \cup gone
           /\ Watched(b)' \subseteq Watched(b) \ gone
<1>1. PICK fall :
        /\ table' = (table \ gone) \ fall
        /\ touched'[b] = touched[b] \cup gone
        /\ foreign'[b] = foreign[b] \cup fall
  <2>1. PICK fall : fall = Fallen(gone) \ gone
    OBVIOUS
  <2>2. /\ table' = (table \ gone) \ (Fallen(gone) \ gone)
        /\ touched'[b] = touched[b] \cup gone
        /\ foreign'[b] = foreign[b] \cup (Fallen(gone) \ gone)
    BY RemoveEffect
  <2> QED BY <2>1, <2>2
<1> QED
  BY <1>1 DEF Removed, Watched

(* A batch that stores has removed nothing but the rows it replaced.       *)
LEMMA SaveRemovesNothing ==
    ASSUME TypeOK, NEW b \in Batches, AcceptSave(b)
    PROVE  Removed(b)' = {}
<1>1. touched'[b] \subseteq Save[b] \cup SameRow(Save[b], table)
  BY DEF AcceptSave, TypeOK, Stored, SameRow
<1> QED
  BY <1>1 DEF Removed, SameRow, AddrsOf

(* The strengthened invariant is kept by the batch that acts: its pc says  *)
(* which conjuncts are due.                                                *)
LEMMA OwnStep ==
    ASSUME IInv, NEW b \in Batches, Act(b)
    PROVE  /\ pc'[b] = "delete" => Removed(b)' = {}
           /\ pc'[b] = "cascade" => Removed(b)' \subseteq work'[b].ins
           /\ pc'[b] = "accepted" => Removed(b)' \subseteq undo'[b].ins
           /\ pc'[b] \notin {"cascade", "undoCascade"} => front'[b] = {}
           /\ pc'[b] \in {"cascade", "accepted"} /\ ~faulted'[b] =>
                 \A x \in Watched(b)' : Refs[x] \cap AddrsOf(Removed(b)') \subseteq front'[b]
<1> USE DEF IInv
<1>1. CASE AcceptSave(b)
  <2>1. pc'[b] = "delete" /\ front'[b] = front[b] /\ pc[b] = "idle"
    BY <1>1 DEF AcceptSave, TypeOK
  <2> QED
    BY <1>1, <2>1, SaveRemovesNothing DEF Covered
<1>2. CASE AcceptDelete(b)
  <2> DEFINE gone == Victims(Kill[b], table)
  <2>1. pc[b] = "delete" /\ pc'[b] = "cascade" /\ Removed(b) = {}
    BY <1>2 DEF AcceptDelete, TypeOK, Recorded
  <2>2. gone \in SUBSET table
    BY DEF Victims
  <2> HIDE DEF gone
  <2>3. CASE /\ Remove(b, gone)
             /\ work' = [work EXCEPT ![b].ins = @ \cup gone]
             /\ front' = [front EXCEPT ![b] = AddrsOf(gone)]
    <3>1. Removed(b)' \subseteq gone
      BY <2>1, <2>2, <2>3, RemovedGrows
    <3>2. work'[b].ins = work[b].ins \cup gone /\ front'[b] = AddrsOf(gone)
      BY <2>3 DEF TypeOK, Undo
    <3>3. AddrsOf(Removed(b)') \subseteq AddrsOf(gone)
      BY <3>1, AddrsMono
    <3> QED
      BY <2>1, <3>1, <3>2, <3>3
  <2>4. CASE Keep /\ faulted' = [faulted EXCEPT ![b] = TRUE]
    <3>1. Removed(b)' = Removed(b) /\ faulted'[b]
      BY <2>4 DEF Keep, Removed, TypeOK
    <3> QED
      BY <2>1, <3>1
  <2> QED
    BY <1>2, <2>3, <2>4 DEF AcceptDelete, gone
<1>3. CASE AcceptCascade(b)
  <2>1. PICK F \in SUBSET front[b] :
           Cascade(b, F) /\ work' = [work EXCEPT ![b].ins = @ \cup Dependants(b, F, table)]
    BY <1>3 DEF AcceptCascade
  <2> DEFINE gone == Dependants(b, F, table)
  <2>2. gone \in SUBSET table
    BY DEF Dependants
  <2>3. pc[b] = "cascade" /\ pc'[b] = "cascade"
    BY <1>3 DEF AcceptCascade
  <2>4. work'[b].ins = work[b].ins \cup gone
    BY <2>1 DEF TypeOK, Undo
  <2>5. /\ Remove(b, gone) /\ front'[b] = AddrsOf(gone)
        /\ ~faulted'[b] => ~faulted[b] /\ F = front[b]
    BY <2>1 DEF Cascade, NextLevel, TypeOK
  <2>6. \A x \in Watched(b) \ gone : Refs[x] \cap F = {}
    BY DEF Dependants, Watched
  <2> HIDE DEF gone
  <2>7. Removed(b)' \subseteq Removed(b) \cup gone
    BY <2>2, <2>5, RemovedGrows
  <2>8. Watched(b)' \subseteq Watched(b) \ gone
    BY <2>2, <2>5, RemovedGrows
  <2>9. AddrsOf(Removed(b)') \subseteq AddrsOf(Removed(b)) \cup AddrsOf(gone)
    BY <2>7 DEF AddrsOf
  <2>10. ASSUME ~faulted'[b], NEW x \in Watched(b)'
         PROVE  Refs[x] \cap AddrsOf(Removed(b)') \subseteq front'[b]
    <3>1. Refs[x] \cap AddrsOf(Removed(b)) \subseteq front[b]
      BY <2>3, <2>5, <2>8, <2>10 DEF Covered
    <3>2. Refs[x] \cap front[b] = {}
      BY <2>5, <2>6, <2>8, <2>10
    <3> QED
      BY <3>1, <3>2, <2>9, <2>5
  <2> QED
    BY <2>3, <2>4, <2>7, <2>10 DEF Recorded
<1>4. CASE AcceptFinish(b)
  <2>1. pc[b] = "cascade" /\ front[b] = {} /\ front'[b] = {} /\ pc'[b] \in {"failed", "accepted"}
    BY <1>4 DEF AcceptFinish, TypeOK
  <2>2. CASE ~err[b]
    <3>1. Removed(b)' = Removed(b) /\ table' = table /\ foreign' = foreign /\ faulted' = faulted
      BY <1>4, <2>2 DEF AcceptFinish, Removed
    <3>2. Removed(b) \subseteq undo'[b].ins
      BY <1>4, <2>1, <2>2 DEF AcceptFinish, Recorded, TypeOK, Undo
    <3> QED
      BY <2>1, <3>1, <3>2 DEF Covered, Watched
  <2>3. CASE err[b]
    BY <1>4, <2>1, <2>3 DEF AcceptFinish, TypeOK
  <2> QED
    BY <2>2, <2>3
<1>5. CASE Commit(b)
  BY <1>5 DEF Commit, Covered, TypeOK
<1>6. CASE RollbackDelete(b)
  BY <1>6 DEF RollbackDelete, TypeOK
<1>7. CASE RollbackCascade(b)
  BY <1>7 DEF RollbackCascade
<1>8. CASE RollbackSave(b)
  BY <1>8 DEF RollbackSave, TypeOK
<1>9. CASE RollbackNothing(b) \/ Again(b)
  BY <1>9 DEF RollbackNothing, Again, Covered, TypeOK
<1> QED
  BY <1>1, <1>2, <1>3, <1>4, <1>5, <1>6, <1>7, <1>8, <1>9 DEF Act, Step

(* IInv is inductive: the batch that acts by OwnStep, the others by Frame. *)
LEMMA IInvStep == IInv /\ [Next]_vars => IInv'
<1> SUFFICES ASSUME IInv, [Next]_vars PROVE IInv'
  OBVIOUS
<1>1. CASE UNCHANGED vars
  BY <1>1 DEF IInv, vars, TypeOK, Recorded, Covered, Removed, Watched
<1>2. ASSUME NEW b \in Batches, Act(b) PROVE IInv'
  <2>1. TypeOK'
    BY <1>2, TypeStep DEF IInv
  <2>2. ASSUME NEW c \in Batches, c # b
        PROVE  /\ pc'[c] = "delete" => Removed(c)' = {}
               /\ pc'[c] = "cascade" => Removed(c)' \subseteq work'[c].ins
               /\ pc'[c] = "accepted" => Removed(c)' \subseteq undo'[c].ins
               /\ pc'[c] \notin {"cascade", "undoCascade"} => front'[c] = {}
               /\ pc'[c] \in {"cascade", "accepted"} /\ ~faulted'[c] =>
                     \A x \in Watched(c)' : Refs[x] \cap AddrsOf(Removed(c)') \subseteq front'[c]
    <3>1. /\ pc'[c] = pc[c] /\ work'[c] = work[c] /\ undo'[c] = undo[c]
          /\ front'[c] = front[c] /\ touched'[c] = touched[c] /\ faulted'[c] = faulted[c]
          /\ Active(c) => table' \ foreign'[c] \subseteq table \ foreign[c]
      BY <1>2, <2>2, Frame DEF IInv
    <3>2. Removed(c)' = Removed(c)
      BY <3>1 DEF Removed
    <3>3. pc[c] \in {"cascade", "accepted"} => Watched(c)' \subseteq Watched(c)
      BY <3>1 DEF Active, Watched
    <3> QED
      BY <3>1, <3>2, <3>3 DEF IInv, Recorded, Covered
  <2>3. Recorded'
    BY <1>2, <2>2, OwnStep DEF Recorded
  <2>4. Covered'
    BY <1>2, <2>2, OwnStep DEF Covered
  <2> QED
    BY <2>1, <2>3, <2>4 DEF IInv
<1> QED
  BY <1>1, <1>2 DEF Next, Act

(* IInv holds throughout.                                                  *)
LEMMA StoreInvariant == Spec => []IInv
<1>1. Init => IInv
  BY DEF Init, IInv, TypeOK, Recorded, Covered, Undo, States
<1> QED
  BY <1>1, IInvStep, PTL DEF Spec

(* Whatever the delete statements of a call of AcceptEvents return, at any *)
(* level of dependants, between statements of any other batches and        *)
(* whatever fails, is on the undo record when the call returns without an  *)
(* error.  What the foreign key removes with it is not.                    *)
THEOREM UndoIsComplete == Spec => []UndoComplete
<1>1. IInv => UndoComplete
  BY DEF IInv, Recorded, UndoComplete
<1> QED
  BY <1>1, StoreInvariant, PTL

(* A call of AcceptEvents none of whose statements failed leaves no event  *)
(* that refers to one they deleted, unless another batch stored it or the  *)
(* query for dependants cannot see it.                                     *)
THEOREM NothingOrphaned == Spec => []NoOrphans
<1>1. IInv => NoOrphans
  BY DEF IInv, Covered, NoOrphans, Dependants, Watched
<1> QED
  BY <1>1, StoreInvariant, PTL

-----------------------------------------------------------------------------
(* Rollback.  The table has one event per address.                         *)
OneRow(t) == \A x, y \in t : Addr[x] = Addr[y] => x = y
Rows == OneRow(table) /\ \A b \in Batches : OneRow(before[b])

(* A batch that was accepted for the first time had no undo record.        *)
FirstTry ==
    \A b \in Batches :
        /\ pc[b] # "idle" => tries[b] >= 1
        /\ \/ pc[b] = "idle" /\ tries[b] = 0
           \/ pc[b] \in {"delete", "cascade"} /\ tries[b] = 1
           => undo[b] = Nothing

(* The record of a batch: under construction, or kept.                     *)
Record(b) == IF pc[b] \in {"delete", "cascade"} THEN work[b] ELSE undo[b]

(* Undoable, as far as it can be said at any point of the two calls.       *)
Undisturbed(b) ==
    /\ tries[b] = 1 /\ ~faulted[b] /\ b \notin Replayed /\ Record(b).repl = {}
    /\ \A x \in touched[b], y \in foreign[b] : Addr[x] # Addr[y]
    /\ AddrsOf(Save[b]) \cap AddrsOf(before[b]) = {}
    /\ Dependants(b, AddrsOf(Save[b]), before[b]) = {}
    /\ Save[b] \cap Record(b).ins = {}
    /\ \A e \in Save[b] : Class[e] = "plain"

(* Before a rollback the batch has added what it saved and removed what is *)
(* on its record; what it saved is gone again after the deletes of the     *)
(* rollback; all is as it was at its end.                                  *)
Restorable(b) ==
    LET ins == Record(b).ins IN
    Undisturbed(b) =>
        /\ pc[b] \in {"delete", "cascade", "accepted", "undoCascade"} =>
              touched[b] = Save[b] \cup ins /\ ins \subseteq before[b] /\ Record(b).repl = {}
        /\ pc[b] \in {"delete", "cascade", "accepted"} =>
              /\ table \ foreign[b] = ((before[b] \cup Save[b]) \ ins) \ foreign[b]
              /\ Record(b).del = AddrsOf(Save[b])
        /\ pc[b] = "undoCascade" =>
              table \ foreign[b] = (before[b] \ ins) \ foreign[b] /\ front[b] \subseteq AddrsOf(Save[b])
        /\ pc[b] = "rolledBack" => \A x \in touched[b] : x \in table <=> x \in before[b]

RollbackInv == IInv /\ Rows /\ FirstTry /\ \A b \in Batches : Restorable(b)

(* saveEvents keeps one row per address, and deletes do.                   *)
LEMMA RowsSaved ==
    ASSUME NEW t, OneRow(t), NEW S, Storable(S, t)
    PROVE  OneRow((t \ SameRow(S, t)) \cup S)
<1> SUFFICES ASSUME NEW x \in (t \ SameRow(S, t)) \cup S, NEW y \in (t \ SameRow(S, t)) \cup S, Addr[x] = Addr[y]
             PROVE  x = y
  BY DEF OneRow
<1>1. \A z \in t \ SameRow(S, t) : Addr[z] \notin AddrsOf(S)
  BY DEF SameRow
<1>2. \A z \in S : Addr[z] \in AddrsOf(S)
  BY DEF AddrsOf
<1>3. CASE x \in S /\ y \in S
  BY <1>3 DEF Storable
<1>4. CASE x \notin S /\ y \notin S
  BY <1>4 DEF OneRow
<1> QED BY <1>1, <1>2, <1>3, <1>4

LEMMA RowsStep ==
    ASSUME TypeOK, Rows, NEW b \in Batches, Act(b)
    PROVE  Rows'
<1>1. ASSUME NEW t, NEW u, OneRow(t), u \subseteq t
      PROVE  OneRow(u)
  BY <1>1 DEF OneRow
<1>2. OneRow(table')
  <2>1. CASE AcceptSave(b)
    <3>1. (Storable(Save[b], table) /\ table' \subseteq Stored(Save[b])) \/ table' = table
      BY <2>1 DEF AcceptSave
    <3>2. Storable(Save[b], table) => OneRow(Stored(Save[b]))
      BY RowsSaved DEF Rows, Stored
    <3> QED BY <1>1, <3>1, <3>2 DEF Rows
  <2>2. CASE AcceptDelete(b)
    <3>1. table' \subseteq table
      BY <2>2 DEF AcceptDelete, Remove, Change, Keep
    <3> QED BY <1>1, <3>1 DEF Rows
  <2>3. CASE AcceptCascade(b) \/ RollbackCascade(b)
    <3>1. table' \subseteq table
      BY <2>3 DEF AcceptCascade, RollbackCascade, Cascade, Remove, Change
    <3> QED BY <1>1, <3>1 DEF Rows
  <2>4. CASE AcceptFinish(b) \/ Commit(b) \/ RollbackNothing(b) \/ Again(b)
    BY <2>4 DEF AcceptFinish, Commit, RollbackNothing, Again, Keep, Rows
  <2>5. CASE RollbackDelete(b)
    <3>1. table' \subseteq table
      BY <2>5 DEF RollbackDelete, Remove, Change, Keep
    <3> QED BY <1>1, <3>1 DEF Rows
  <2>6. CASE RollbackSave(b)
    <3> DEFINE S == undo[b].ins \cup Backup(undo[b].repl)
    <3>1. (Storable(S, table) /\ table' \subseteq Stored(S)) \/ table' = table
      BY <2>6 DEF RollbackSave, Change, Keep
    <3> HIDE DEF S
    <3>2. Storable(S, table) => OneRow(Stored(S))
      BY RowsSaved DEF Rows, Stored
    <3> QED BY <1>1, <3>1, <3>2 DEF Rows
  <2> QED BY <2>1, <2>2, <2>3, <2>4, <2>5, <2>6 DEF Act, Step
<1>3. ASSUME NEW c \in Batches
      PROVE  OneRow(before'[c])
  <2>1. before'[c] \in {before[c], table, {}}
    <3>1. CASE AcceptSave(b)
      BY <3>1 DEF AcceptSave, TypeOK
    <3>2. CASE AcceptFinish(b) \/ Commit(b)
      BY <3>2 DEF AcceptFinish, Commit, Forget, TypeOK
    <3>3. CASE AcceptDelete(b) \/ AcceptCascade(b) \/ RollbackCascade(b) \/ RollbackSave(b)
               \/ RollbackDelete(b) \/ RollbackNothing(b) \/ Again(b)
      BY <3>3 DEF AcceptDelete, AcceptCascade, RollbackCascade, RollbackSave, RollbackDelete,
                  RollbackNothing, Again
    <3> QED BY <3>1, <3>2, <3>3 DEF Act, Step
  <2> QED BY <2>1 DEF Rows, OneRow
<1> QED BY <1>2, <1>3 DEF Rows, OneRow

LEMMA FirstTryStep ==
    ASSUME TypeOK, FirstTry, NEW b \in Batches, Act(b)
    PROVE  FirstTry'
<1>0. \A c \in Batches : tries[c] \in Nat
  BY DEF TypeOK
<1>1. ASSUME NEW c \in Batches, c # b
      PROVE  pc'[c] = pc[c] /\ undo'[c] = undo[c] /\ tries'[c] = tries[c]
  <2>1. pc'[c] = pc[c] /\ undo'[c] = undo[c]
    BY <1>1, Frame
  <2>2. tries'[c] = tries[c]
    BY <1>1 DEF Act, Step, AcceptSave, AcceptDelete, AcceptCascade, AcceptFinish, RollbackCascade,
       RollbackSave, Commit, RollbackDelete, RollbackNothing, Again, TypeOK
  <2> QED BY <2>1, <2>2
<1>2. /\ pc'[b] # "idle" => tries'[b] >= 1
      /\ \/ pc'[b] = "idle" /\ tries'[b] = 0
         \/ pc'[b] \in {"delete", "cascade"} /\ tries'[b] = 1
         => undo'[b] = Nothing
  <2>1. CASE AcceptSave(b)
    <3>1. /\ pc[b] = "idle" /\ pc'[b] = "delete" /\ tries'[b] = tries[b] + 1 /\ undo'[b] = undo[b]
      BY <2>1 DEF AcceptSave, TypeOK
    <3> QED BY <1>0, <3>1 DEF FirstTry
  <2>2. CASE AcceptDelete(b) \/ AcceptCascade(b)
    <3>1. pc[b] \in {"delete", "cascade"} /\ pc'[b] = "cascade" /\ tries' = tries /\ undo' = undo
      BY <2>2 DEF AcceptDelete, AcceptCascade, TypeOK
    <3> QED BY <3>1 DEF FirstTry
  <2>3. CASE AcceptFinish(b) \/ Commit(b) \/ RollbackNothing(b) \/ RollbackCascade(b) \/ RollbackSave(b)
    <3>1. /\ pc[b] # "idle" /\ tries' = tries
          /\ pc'[b] \in {"failed", "accepted", "commitFailed", "committed", "rolledBack", "undoFailed", "undoCascade"}
      BY <2>3 DEF AcceptFinish, Commit, RollbackNothing, RollbackCascade, RollbackSave, TypeOK
    <3> QED BY <3>1 DEF FirstTry
  <2>4. CASE RollbackDelete(b)
    <3>1. pc[b] # "idle" /\ tries'[b] \in {tries[b], tries[b] + 1} /\ pc'[b] = "undoCascade"
      BY <2>4 DEF RollbackDelete, TypeOK
    <3> QED BY <1>0, <3>1 DEF FirstTry
  <2>5. CASE Again(b)
    <3>1. pc[b] # "idle" /\ tries' = tries /\ pc'[b] = "idle"
      BY <2>5 DEF Again, TypeOK
    <3> QED BY <1>0, <3>1 DEF FirstTry
  <2> QED BY <2>1, <2>2, <2>3, <2>4, <2>5 DEF Act, Step
<1>3. ASSUME NEW c \in Batches
      PROVE  /\ pc'[c] # "idle" => tries'[c] >= 1
             /\ \/ pc'[c] = "idle" /\ tries'[c] = 0
                \/ pc'[c] \in {"delete", "cascade"} /\ tries'[c] = 1
                => undo'[c] = Nothing
  <2>1. CASE c = b
    BY <1>2, <2>1
  <2>2. CASE c # b
    BY <1>1, <2>2 DEF FirstTry
  <2> QED BY <2>1, <2>2
<1> QED BY <1>3 DEF FirstTry

(* What another batch changes is foreign to a batch that can be undone.    *)
LEMMA Elsewhere ==
    ASSUME TypeOK, NEW b \in Batches, Act(b), NEW c \in Batches, c # b
    PROVE  /\ before'[c] = before[c] /\ tries'[c] = tries[c]
           /\ Active(c) => /\ foreign[c] \subseteq foreign'[c]
                           /\ \A x : x \notin foreign'[c] => (x \in table' <=> x \in table)
<1>1. before'[c] = before[c] /\ tries'[c] = tries[c]
  BY DEF Act, Step, AcceptSave, AcceptDelete, AcceptCascade, AcceptFinish, Forget, RollbackCascade,
         RollbackSave, Commit, RollbackDelete, RollbackNothing, Again, TypeOK
<1>2. ASSUME NEW t, NEW fall, Change(b, t, fall)
      PROVE  Active(c) => /\ foreign[c] \subseteq foreign'[c]
                          /\ \A x : x \notin foreign'[c] => (x \in table' <=> x \in table)
  BY <1>2 DEF Change
<1>3. ASSUME Keep \/ (table' = table /\ foreign'[c] = foreign[c])
      PROVE  Active(c) => /\ foreign[c] \subseteq foreign'[c]
                          /\ \A x : x \notin foreign'[c] => (x \in table' <=> x \in table)
  BY <1>3 DEF Keep
<1>4. CASE AcceptSave(b)
  <2>1. \/ UNCHANGED table /\ foreign'[c] = foreign[c]
        \/ Active(c) => foreign'[c] = foreign[c] \cup (table \ table') \cup (table' \ table)
    BY <1>4 DEF AcceptSave, TypeOK
  <2> QED BY <1>1, <2>1
<1>5. CASE AcceptDelete(b) \/ AcceptCascade(b) \/ RollbackCascade(b) \/ RollbackDelete(b) \/ RollbackSave(b)
  <2>1. Keep \/ \E t, fall : Change(b, t, fall)
    BY <1>5 DEF AcceptDelete, AcceptCascade, RollbackCascade, RollbackDelete, RollbackSave, Cascade, Remove
  <2> QED BY <1>1, <1>2, <1>3, <2>1
<1>6. CASE AcceptFinish(b) \/ Commit(b) \/ RollbackNothing(b) \/ Again(b)
  <2>1. table' = table /\ foreign'[c] = foreign[c]
    BY <1>6 DEF AcceptFinish, Commit, RollbackNothing, Again, Forget, Keep, TypeOK
  <2> QED BY <1>1, <1>3, <2>1
<1> QED BY <1>4, <1>5, <1>6 DEF Act, Step

LEMMA OthersRestorable ==
    ASSUME TypeOK, NEW b \in Batches, Act(b), NEW c \in Batches, c # b, Restorable(c)
    PROVE  Restorable(c)'
<1>1. /\ pc'[c] = pc[c] /\ work'[c] = work[c] /\ undo'[c] = undo[c] /\ front'[c] = front[c]
      /\ touched'[c] = touched[c] /\ faulted'[c] = faulted[c]
      /\ before'[c] = before[c] /\ tries'[c] = tries[c]
  BY Frame, Elsewhere
<1>2. Record(c)' = Record(c)
  BY <1>1 DEF Record
<1>3. CASE ~Active(c)
  BY <1>1, <1>3 DEF Restorable, Active
<1>4. CASE Active(c)
  <2>1. /\ foreign[c] \subseteq foreign'[c]
        /\ \A x : x \notin foreign'[c] => (x \in table' <=> x \in table)
    BY <1>4, Elsewhere
  <2>2. Undisturbed(c)' => Undisturbed(c)
    BY <1>1, <1>2, <2>1 DEF Undisturbed
  <2>3. Undisturbed(c)' => \A x \in touched[c] : x \notin foreign'[c]
    BY <1>1 DEF Undisturbed
  <2>4. \A T : table \ foreign[c] = T \ foreign[c] => table' \ foreign'[c] = T \ foreign'[c]
    BY <2>1
  <2> QED BY <1>1, <1>2, <2>1, <2>2, <2>3, <2>4 DEF Restorable
<1> QED BY <1>3, <1>4

(* Two sets with no address in common have no event in common.             *)
LEMMA Apart ==
    ASSUME NEW S, NEW T, AddrsOf(S) \cap AddrsOf(T) = {}
    PROVE  S \cap T = {} /\ SameRow(S, T) = {} /\ SameRow(T, S) = {}
<1>1. \A x \in S : Addr[x] \in AddrsOf(S)
  BY DEF AddrsOf
<1>2. \A x \in T : Addr[x] \in AddrsOf(T)
  BY DEF AddrsOf
<1>3. ASSUME NEW x \in S PROVE Addr[x] \notin AddrsOf(T)
  BY <1>1
<1>4. ASSUME NEW x \in T PROVE Addr[x] \notin AddrsOf(S)
  BY <1>2
<1>5. S \cap T = {}
  BY <1>2, <1>3
<1>6. SameRow(S, T) = {}
  BY <1>4 DEF SameRow
<1>7. SameRow(T, S) = {}
  BY <1>3 DEF SameRow
<1> QED BY <1>5, <1>6, <1>7

(* A batch that can be undone saved new events.                            *)
LEMMA NewSaved ==
    ASSUME NEW b \in Batches, Undisturbed(b)
    PROVE  Save[b] \cap before[b] = {}
<1>1. AddrsOf(Save[b]) \cap AddrsOf(before[b]) = {}
  BY DEF Undisturbed
<1> QED BY <1>1, Apart

(* saveEvents, when every event is new and none replaces even a hidden     *)
(* row: the record deletes just those.                                     *)
LEMMA NewRows ==
    ASSUME TypeOK, NEW b \in Batches, AddrsOf(Save[b]) \cap AddrsOf(table) = {},
           b \notin Replayed, SaveRows(b).repl = {}
    PROVE  SaveRows(b) = [del |-> AddrsOf(Save[b]), ins |-> {}, repl |-> {}]
<1> DEFINE old == SameRow(Save[b], table \cup hidden)
           upd == {e \in Save[b] \cap Replaceable : Addr[e] \in AddrsOf(old)}
           rows == (Save[b] \ upd) \cup (old \ upd)
<1>2. AddrsOf(old) \subseteq AddrsOf(Save[b])
  BY DEF AddrsOf, SameRow
<1>3. upd = {}
  BY DEF SaveRows
<1> HIDE DEF old, upd
<1>4. AddrsOf(rows) = AddrsOf(Save[b]) /\ Save[b] \ upd = Save[b] /\ old \cap upd = {}
  <2>1. rows = Save[b] \cup old
    BY <1>3
  <2> QED BY <1>2, <1>3, <2>1 DEF AddrsOf
<1> HIDE DEF upd, rows
<1>5. SaveRows(b) = [del |-> IF Cardinality(Save[b] \ upd) > Cardinality(old \cap upd)
                             THEN AddrsOf(rows) ELSE {},
                     ins |-> {}, repl |-> IF b \in Replayed THEN {} ELSE upd]
  BY DEF SaveRows, old, upd, rows
<1>6. Cardinality(old \cap upd) = 0
  BY <1>4, FS_EmptySet
<1>7. Cardinality(Save[b]) \in Nat /\ (Cardinality(Save[b]) = 0 <=> Save[b] = {})
  <2>1. IsFiniteSet(Save[b])
    OBVIOUS
  <2> QED BY <2>1, FS_CardinalityType, FS_EmptySet
<1>8. (IF Cardinality(Save[b] \ upd) > Cardinality(old \cap upd) THEN AddrsOf(rows) ELSE {})
      = AddrsOf(Save[b])
  <2>1. CASE Save[b] = {}
    <3>1. AddrsOf(Save[b]) = {} /\ AddrsOf(rows) = {}
      BY <2>1, <1>4 DEF AddrsOf
    <3> QED BY <3>1
  <2>2. CASE Save[b] # {}
    <3>1. Cardinality(Save[b] \ upd) > Cardinality(old \cap upd)
      <4>1. Cardinality(Save[b] \ upd) = Cardinality(Save[b])
        BY <1>4
      <4>2. Cardinality(Save[b]) > 0
        BY <2>2, <1>7
      <4> QED BY <4>1, <4>2, <1>6
    <3> QED BY <3>1, <1>4
  <2> QED BY <2>1, <2>2
<1> QED BY <1>3, <1>5, <1>8

(* Restorable, from the steps of the batch itself.  After the save the     *)
(* batch has added its events and removed none.                            *)
LEMMA SaveRestorable ==
    ASSUME TypeOK, NEW b \in Batches, AcceptSave(b)
    PROVE  Restorable(b)'
<1> SUFFICES ASSUME Undisturbed(b)'
             PROVE  Restorable(b)'
  BY DEF Restorable
<1>1. pc'[b] = "delete" /\ before'[b] = table /\ faulted'[b] = err'[b]
  BY DEF AcceptSave, TypeOK
<1>2. ~err'[b] /\ AddrsOf(Save[b]) \cap AddrsOf(table) = {}
  BY <1>1 DEF Undisturbed
<1>3. Save[b] \cap table = {} /\ SameRow(Save[b], table) = {}
  BY <1>2, Apart
<1>4. /\ table' = Stored(Save[b]) \ Fallen(Softened(Save[b])) /\ work' = [work EXCEPT ![b] = SaveRows(b)]
      /\ touched'[b] = (table \ Stored(Save[b])) \cup (Stored(Save[b]) \ table)
      /\ foreign'[b] = Fallen(Softened(Save[b]))
  <2>1. err \in [Batches -> BOOLEAN]
    BY DEF TypeOK
  <2> QED BY <1>2, <2>1 DEF AcceptSave, TypeOK
<1>5. Stored(Save[b]) = table \cup Save[b]
  BY <1>3 DEF Stored
<1>6. touched'[b] = Save[b] /\ table' \ foreign'[b] = (table \cup Save[b]) \ foreign'[b]
  BY <1>3, <1>4, <1>5
<1>7. Record(b)' = [del |-> AddrsOf(Save[b]), ins |-> {}, repl |-> {}]
  <2>1. work'[b] = SaveRows(b) /\ Record(b)' = work'[b]
    BY <1>1, <1>4 DEF TypeOK, Record
  <2>2. b \notin Replayed /\ SaveRows(b).repl = {}
    BY <2>1 DEF Undisturbed
  <2> QED BY <1>2, <2>1, <2>2, NewRows
<1>8. Record(b)'.del = AddrsOf(Save[b]) /\ Record(b)'.ins = {} /\ Record(b)'.repl = {}
  BY <1>7
<1> QED BY <1>1, <1>6, <1>8 DEF Restorable

(* A delete moves the rows it removes from the table to the record.        *)
LEMMA DeleteRestorable ==
    ASSUME TypeOK, NEW b \in Batches, Restorable(b), NEW gone \in SUBSET table,
           Remove(b, gone),
           pc[b] \in {"delete", "cascade"}, pc'[b] = "cascade",
           work'[b].del = work[b].del, work'[b].repl = work[b].repl,
           work'[b].ins = work[b].ins \cup gone,
           before'[b] = before[b], tries'[b] = tries[b], ~faulted'[b] => ~faulted[b]
    PROVE  Restorable(b)'
<1> SUFFICES ASSUME Undisturbed(b)'
             PROVE  Restorable(b)'
  BY DEF Restorable
<1>1. PICK fall :
        /\ table' = (table \ gone) \ fall
        /\ touched'[b] = touched[b] \cup gone
        /\ foreign'[b] = foreign[b] \cup fall
  <2>1. PICK fall : fall = Fallen(gone) \ gone
    OBVIOUS
  <2>2. /\ table' = (table \ gone) \ (Fallen(gone) \ gone)
        /\ touched'[b] = touched[b] \cup gone
        /\ foreign'[b] = foreign[b] \cup (Fallen(gone) \ gone)
    BY RemoveEffect
  <2> QED BY <2>1, <2>2
<1>2. Record(b) = work[b] /\ Record(b)' = work'[b]
  BY DEF Record
<1>3. Undisturbed(b)
  BY <1>1, <1>2 DEF Undisturbed
<1>4. /\ touched[b] = Save[b] \cup work[b].ins /\ work[b].ins \subseteq before[b] /\ work[b].repl = {}
      /\ table \ foreign[b] = ((before[b] \cup Save[b]) \ work[b].ins) \ foreign[b]
      /\ work[b].del = AddrsOf(Save[b])
  BY <1>2, <1>3 DEF Restorable
<1>5. gone \cap foreign[b] = {} /\ gone \cap Save[b] = {}
  BY <1>1, <1>2 DEF Undisturbed
<1>6. gone \subseteq before[b]
  BY <1>4, <1>5
<1>7. /\ touched'[b] = Save[b] \cup work'[b].ins /\ work'[b].ins \subseteq before'[b]
      /\ work'[b].repl = {} /\ work'[b].del = AddrsOf(Save[b])
  BY <1>1, <1>4, <1>6
<1>8. table' \ foreign'[b] = ((before'[b] \cup Save[b]) \ work'[b].ins) \ foreign'[b]
  BY <1>1, <1>4
<1> QED BY <1>2, <1>7, <1>8 DEF Restorable

(* The deletes of a rollback remove what the batch saved: nothing else has *)
(* those addresses, and an address is no other event's ID.                 *)
LEMMA VictimsAreSaved ==
    ASSUME TypeOK, NEW b \in Batches, Restorable(b), Undisturbed(b), pc[b] = "accepted",
           NEW last \in undo[b].del,
           NEW gone, gone = Victims(<<undo[b].del \ {last}, {last}>>, table),
           gone \cap foreign[b] = {}
    PROVE  gone = Save[b]
<1> DEFINE filters == <<undo[b].del \ {last}, {last}>>
<1>1. Len(filters) = 2 /\ filters[1] = undo[b].del \ {last} /\ filters[2] = {last}
  OBVIOUS
<1> HIDE DEF filters
<1>2. /\ gone \subseteq table
      /\ \A x \in table : x \in gone <=> \/ {x, Addr[x]} \cap filters[1] # {}
                                         \/ {x, Addr[x]} \cap filters[2] # {} /\ ~Protected(x, table)
  <2>1. gone = {x \in table : \E i \in 1..Len(filters) :
                               /\ {x, Addr[x]} \cap filters[i] # {}
                               /\ i = Len(filters) => ~Protected(x, table)}
    BY DEF Victims, filters
  <2>2. ASSUME NEW x \in table
        PROVE  x \in gone <=> \/ {x, Addr[x]} \cap filters[1] # {}
                              \/ {x, Addr[x]} \cap filters[2] # {} /\ ~Protected(x, table)
    <3>1. ASSUME x \in gone
          PROVE  \/ {x, Addr[x]} \cap filters[1] # {}
                 \/ {x, Addr[x]} \cap filters[2] # {} /\ ~Protected(x, table)
      <4>1. PICK i \in 1..Len(filters) : /\ {x, Addr[x]} \cap filters[i] # {}
                                         /\ i = Len(filters) => ~Protected(x, table)
        BY <2>1, <3>1, Zenon
      <4>2. i = 1 \/ i = 2
        BY <1>1
      <4> QED BY <1>1, <4>1, <4>2
    <3>2. ASSUME {x, Addr[x]} \cap filters[1] # {}
          PROVE  x \in gone
      <4>1. 1 \in 1..Len(filters) /\ 1 # Len(filters)
        BY <1>1
      <4> QED BY <2>1, <3>2, <4>1, Zenon
    <3>3. ASSUME {x, Addr[x]} \cap filters[2] # {}, ~Protected(x, table)
          PROVE  x \in gone
      <4>1. 2 \in 1..Len(filters)
        BY <1>1
      <4> QED BY <2>1, <3>3, <4>1, Zenon
    <3> QED BY <3>1, <3>2, <3>3
  <2>3. gone \subseteq table
    BY <2>1
  <2> QED BY <2>2, <2>3, Zenon
<1>3. /\ touched[b] = Save[b] \cup undo[b].ins
      /\ table \ foreign[b] = ((before[b] \cup Save[b]) \ undo[b].ins) \ foreign[b]
      /\ undo[b].del = AddrsOf(Save[b])
  BY DEF Restorable, Record
<1>4. AddrsOf(Save[b]) \cap AddrsOf(before[b]) = {} /\ Save[b] \cap undo[b].ins = {}
  BY DEF Undisturbed, Record
<1>5. Save[b] \subseteq Events /\ table \subseteq Events
  BY DEF TypeOK
<1>6. ASSUME NEW x \in gone
      PROVE  x \in Save[b]
  <2>1. x \in table /\ (x \in AddrsOf(Save[b]) \/ Addr[x] \in AddrsOf(Save[b]))
    <3>1. x \in table /\ ({x, Addr[x]} \cap filters[1] # {} \/ {x, Addr[x]} \cap filters[2] # {})
      BY <1>2, <1>6
    <3>2. filters[1] \subseteq AddrsOf(Save[b]) /\ filters[2] \subseteq AddrsOf(Save[b])
      BY <1>1, <1>3
    <3> QED BY <3>1, <3>2
  <2>2. x \in before[b] \cup Save[b]
    BY <1>3, <1>6, <2>1
  <2>3. CASE Addr[x] \in AddrsOf(Save[b])
    <3>1. x \notin before[b]
      <4>1. \A z \in before[b] : Addr[z] \in AddrsOf(before[b])
        BY DEF AddrsOf
      <4> QED BY <1>4, <2>3, <4>1
    <3> QED BY <2>2, <3>1
  <2>4. CASE x \in AddrsOf(Save[b])
    <3>1. PICK e \in Save[b] : x = Addr[e]
      BY <2>4 DEF AddrsOf
    <3>2. e \notin Replaceable
      BY <1>5, <2>1, <3>1
    <3>3. Addr[e] = e
      BY <1>5, <3>2
    <3> QED BY <3>1, <3>3
  <2> QED BY <2>1, <2>3, <2>4
<1>7. ASSUME NEW e \in Save[b]
      PROVE  e \in gone
  <2>1. e \in table
    <3>1. e \notin foreign[b]
      BY <1>3, <1>7 DEF Undisturbed
    <3> QED BY <1>3, <1>4, <1>7, <3>1
  <2>2. Addr[e] \in filters[1] \/ Addr[e] \in filters[2]
    BY <1>1, <1>3 DEF AddrsOf
  <2>3. ~Protected(e, table)
    BY <1>7 DEF Undisturbed, Protected
  <2> QED BY <1>2, <2>1, <2>2, <2>3
<1> QED BY <1>6, <1>7

(* A rollback first removes what the batch saved, and nothing more.        *)
LEMMA RollbackDeleteRestorable ==
    ASSUME TypeOK, FirstTry, NEW b \in Batches, Restorable(b), RollbackDelete(b)
    PROVE  Restorable(b)'
<1> SUFFICES ASSUME Undisturbed(b)'
             PROVE  Restorable(b)'
  BY DEF Restorable
<1>1. /\ pc[b] \in {"accepted", "rolledBack", "undoFailed"} /\ pc'[b] = "undoCascade"
      /\ undo' = undo /\ before' = before
  BY DEF RollbackDelete, TypeOK
<1>2. tries'[b] = 1 /\ ~faulted'[b]
  BY DEF Undisturbed
<1>3. pc[b] = "accepted" /\ tries' = tries
  <2>1. tries[b] \in Nat /\ tries[b] >= 1
    BY <1>1 DEF FirstTry, TypeOK
  <2>2. CASE tries' = [tries EXCEPT ![b] = @ + 1]
    BY <1>2, <2>1, <2>2 DEF TypeOK
  <2> QED BY <2>2 DEF RollbackDelete
<1>4. Record(b) = undo[b] /\ Record(b)' = undo[b]
  BY <1>1, <1>3 DEF Record
<1>5. ASSUME touched[b] \subseteq touched'[b], foreign[b] \subseteq foreign'[b], faulted' = faulted
      PROVE  /\ Undisturbed(b)
             /\ touched[b] = Save[b] \cup undo[b].ins /\ undo[b].ins \subseteq before[b]
             /\ undo[b].repl = {} /\ undo[b].del = AddrsOf(Save[b])
             /\ table \ foreign[b] = ((before[b] \cup Save[b]) \ undo[b].ins) \ foreign[b]
             /\ Save[b] \cap before[b] = {}
  <2>1. Undisturbed(b)
    BY <1>1, <1>2, <1>3, <1>4, <1>5 DEF Undisturbed
  <2>2. Save[b] \cap before[b] = {}
    BY <2>1, NewSaved
  <2> QED BY <1>3, <1>4, <2>1, <2>2 DEF Restorable
<1>6. ASSUME NEW last \in undo[b].del,
             Remove(b, Victims(<<undo[b].del \ {last}, {last}>>, table)),
             front' = [front EXCEPT ![b] = AddrsOf(Victims(<<undo[b].del \ {last}, {last}>>, table))],
             faulted' = faulted
      PROVE  Restorable(b)'
  <2>1. PICK gone : gone = Victims(<<undo[b].del \ {last}, {last}>>, table)
    OBVIOUS
  <2>2. gone \subseteq table
    BY <2>1 DEF Victims
  <2>3. Remove(b, gone)
    BY <2>1, <1>6
  <2>4. front'[b] = AddrsOf(gone)
    BY <2>1, <1>6 DEF TypeOK
  <2>5. PICK fall :
          /\ table' = (table \ gone) \ fall
          /\ touched'[b] = touched[b] \cup gone
          /\ foreign'[b] = foreign[b] \cup fall
    <3>1. PICK fall : fall = Fallen(gone) \ gone
      OBVIOUS
    <3> QED BY <2>2, <2>3, <3>1, RemoveEffect
  <2>6. gone \cap foreign[b] = {}
    BY <2>5 DEF Undisturbed
  <2>7. /\ Undisturbed(b)
        /\ touched[b] = Save[b] \cup undo[b].ins /\ undo[b].ins \subseteq before[b]
        /\ undo[b].repl = {} /\ undo[b].del = AddrsOf(Save[b])
        /\ table \ foreign[b] = ((before[b] \cup Save[b]) \ undo[b].ins) \ foreign[b]
        /\ Save[b] \cap before[b] = {}
    BY <2>5, <1>5, <1>6
  <2>8. gone = Save[b]
    BY <1>3, <2>1, <2>6, <2>7, VictimsAreSaved
  <2>9. table' \ foreign'[b] = (before[b] \ undo[b].ins) \ foreign'[b] /\ touched'[b] = Save[b] \cup undo[b].ins
    BY <2>5, <2>7, <2>8
  <2>10. front'[b] \subseteq AddrsOf(Save[b])
    BY <2>4, <2>8
  <2> QED BY <1>1, <1>4, <2>7, <2>9, <2>10 DEF Restorable
<1>7. ASSUME undo[b].del = {}, front' = [front EXCEPT ![b] = {}], Keep, faulted' = faulted
      PROVE  Restorable(b)'
  <2>1. table' = table /\ touched' = touched /\ foreign' = foreign /\ front'[b] = {}
    BY <1>7 DEF Keep, TypeOK
  <2>2. /\ touched[b] = Save[b] \cup undo[b].ins /\ undo[b].ins \subseteq before[b]
        /\ undo[b].repl = {} /\ undo[b].del = AddrsOf(Save[b])
        /\ table \ foreign[b] = ((before[b] \cup Save[b]) \ undo[b].ins) \ foreign[b]
    BY <2>1, <1>5, <1>7
  <2>3. Save[b] = {}
    BY <2>2, <1>7, SMTT(60) DEF AddrsOf
  <2>4. table' \ foreign'[b] = (before[b] \ undo[b].ins) \ foreign'[b]
    BY <2>1, <2>2, <2>3
  <2> QED BY <1>1, <1>4, <2>1, <2>2, <2>4 DEF Restorable
<1>8. faulted' # [faulted EXCEPT ![b] = TRUE]
  BY <1>2 DEF TypeOK
<1> QED BY <1>6, <1>7, <1>8 DEF RollbackDelete

(* Nothing refers to what the batch saved, so nothing follows it.          *)
LEMMA RollbackCascadeRestorable ==
    ASSUME TypeOK, NEW b \in Batches, Restorable(b), RollbackCascade(b)
    PROVE  Restorable(b)'
<1> SUFFICES ASSUME Undisturbed(b)'
             PROVE  Restorable(b)'
  BY DEF Restorable
<1>1. PICK F \in SUBSET front[b] : Cascade(b, F)
  BY DEF RollbackCascade
<1>2. pc[b] = "undoCascade" /\ pc' = pc /\ undo' = undo /\ before' = before /\ tries' = tries
  BY DEF RollbackCascade
<1>3. PICK gone : gone = Dependants(b, F, table)
  OBVIOUS
<1>4. gone \subseteq table
  BY <1>3 DEF Dependants
<1>5. Remove(b, gone) /\ front'[b] = AddrsOf(gone) /\ (~faulted'[b] => ~faulted[b])
  BY <1>1, <1>3 DEF Cascade, NextLevel, TypeOK
<1>6. PICK fall :
        /\ table' = (table \ gone) \ fall
        /\ touched'[b] = touched[b] \cup gone
        /\ foreign'[b] = foreign[b] \cup fall
  <2>1. PICK fall : fall = Fallen(gone) \ gone
    OBVIOUS
  <2>2. /\ table' = (table \ gone) \ (Fallen(gone) \ gone)
        /\ touched'[b] = touched[b] \cup gone
        /\ foreign'[b] = foreign[b] \cup (Fallen(gone) \ gone)
    BY <1>4, <1>5, RemoveEffect
  <2> QED BY <2>1, <2>2
<1>7. Record(b) = undo[b] /\ Record(b)' = undo[b]
  BY <1>2 DEF Record
<1>8. Undisturbed(b)
  BY <1>2, <1>5, <1>6, <1>7 DEF Undisturbed
<1>9. /\ touched[b] = Save[b] \cup undo[b].ins /\ undo[b].ins \subseteq before[b] /\ undo[b].repl = {}
      /\ table \ foreign[b] = (before[b] \ undo[b].ins) \ foreign[b] /\ front[b] \subseteq AddrsOf(Save[b])
  BY <1>2, <1>7, <1>8 DEF Restorable
<1>10. gone = {}
  <2>1. gone \cap foreign[b] = {}
    BY <1>6 DEF Undisturbed
  <2>2. gone \subseteq before[b]
    BY <1>4, <1>9, <2>1
  <2>3. \A x \in gone : x \in Seen[b] \ Soft /\ Refs[x] \cap AddrsOf(Save[b]) # {}
    BY <1>1, <1>3, <1>9 DEF Dependants
  <2>4. \A x \in (before[b] \cap Seen[b]) \ Soft : Refs[x] \cap AddrsOf(Save[b]) = {}
    BY <1>8 DEF Undisturbed, Dependants
  <2> QED BY <2>2, <2>3, <2>4
<1>11. table' = table \ fall /\ touched'[b] = touched[b] /\ front'[b] = {}
  BY <1>5, <1>6, <1>10 DEF AddrsOf
<1>12. table' \ foreign'[b] = (before[b] \ undo[b].ins) \ foreign'[b]
  BY <1>6, <1>9, <1>11
<1> QED BY <1>2, <1>7, <1>9, <1>11, <1>12 DEF Restorable

(* The record is stored again: none of its addresses is taken, so that the *)
(* statement replaces nothing, and with it all is as before.               *)
LEMMA RollbackSaveRestorable ==
    ASSUME TypeOK, Rows, NEW b \in Batches, Restorable(b), RollbackSave(b)
    PROVE  Restorable(b)'
<1> DEFINE S == undo[b].ins \cup Backup(undo[b].repl)
<1> SUFFICES ASSUME Undisturbed(b)', pc'[b] = "rolledBack"
             PROVE  \A x \in touched'[b] : x \in table' <=> x \in before'[b]
  <2>1. pc'[b] \in {"undoFailed", "rolledBack"}
    BY DEF RollbackSave, TypeOK
  <2> QED BY <2>1 DEF Restorable
<1>1. /\ pc[b] = "undoCascade" /\ undo' = undo /\ before' = before /\ tries' = tries
  BY DEF RollbackSave
<1>2. S = undo[b].ins
  BY DEF Backup
<1>3. Change(b, Stored(S), Fallen(Softened(S))) /\ faulted' = faulted
  <2>1. CASE pc' = [pc EXCEPT ![b] = "undoFailed"]
    BY <2>1 DEF TypeOK
  <2> QED BY <2>1 DEF RollbackSave
<1> HIDE DEF S
<1>4. PICK ins : ins = undo[b].ins
  OBVIOUS
<1>5. PICK fall : Change(b, Stored(ins), fall)
  BY <1>2, <1>3, <1>4
<1>6. /\ table' = Stored(ins) \ fall /\ foreign'[b] = foreign[b] \cup fall
      /\ touched'[b] = touched[b] \cup ((table \ Stored(ins)) \cup (Stored(ins) \ table))
  BY <1>5 DEF Change, TypeOK
<1>7. Record(b) = undo[b] /\ Record(b)' = undo[b]
  BY <1>1 DEF Record
<1>8. Undisturbed(b)
  BY <1>1, <1>3, <1>6, <1>7 DEF Undisturbed
<1>9. /\ touched[b] = Save[b] \cup ins /\ ins \subseteq before[b]
      /\ table \ foreign[b] = (before[b] \ ins) \ foreign[b]
  BY <1>1, <1>4, <1>7, <1>8 DEF Restorable
<1>10. /\ \A x \in touched[b], y \in foreign[b] : Addr[x] # Addr[y]
       /\ Save[b] \cap before[b] = {} /\ OneRow(before[b])
  <2>1. Save[b] \cap before[b] = {}
    BY <1>8, NewSaved
  <2>2. OneRow(before[b])
    BY DEF Rows
  <2> QED BY <1>8, <2>1, <2>2 DEF Undisturbed
<1>11. SameRow(ins, table) = {}
  <2> SUFFICES ASSUME NEW x \in SameRow(ins, table)
               PROVE  FALSE
    OBVIOUS
  <2>1. PICK i \in ins : x \in table /\ Addr[x] = Addr[i]
    BY DEF SameRow, AddrsOf
  <2>2. x \notin foreign[b]
    BY <1>9, <1>10, <2>1
  <2>3. x \in before[b] /\ x \notin ins
    BY <1>9, <2>1, <2>2
  <2> QED BY <1>9, <1>10, <2>1, <2>3 DEF OneRow
<1>12. table' = (table \cup ins) \ fall /\ touched'[b] = touched[b]
  BY <1>6, <1>9, <1>11 DEF Stored
<1>13. \A x \in touched[b] : x \notin foreign[b] /\ x \notin fall
  BY <1>6, <1>10, <1>12 DEF Undisturbed
<1> QED BY <1>1, <1>9, <1>10, <1>12, <1>13

(* The batch that acts stays restorable.                                   *)
LEMMA OwnRestorable ==
    ASSUME RollbackInv, NEW b \in Batches, Act(b)
    PROVE  Restorable(b)'
<1>0. TypeOK /\ Rows /\ FirstTry /\ Restorable(b)
  BY DEF RollbackInv, IInv
<1>1. CASE AcceptSave(b)
  BY <1>0, <1>1, SaveRestorable
<1>2. CASE AcceptDelete(b)
  <2>1. PICK gone : gone = Victims(Kill[b], table)
    OBVIOUS
  <2>2. pc[b] \in {"delete", "cascade"} /\ pc'[b] = "cascade" /\ before' = before /\ tries' = tries
    BY <1>0, <1>2 DEF AcceptDelete, TypeOK
  <2>3. CASE faulted' = [faulted EXCEPT ![b] = TRUE]
    <3>1. ~Undisturbed(b)'
      BY <1>0, <2>3 DEF Undisturbed, TypeOK
    <3> QED BY <3>1 DEF Restorable
  <2>4. ASSUME Remove(b, gone), work' = [work EXCEPT ![b].ins = @ \cup gone], faulted' = faulted
        PROVE  Restorable(b)'
    <3>1. gone \in SUBSET table
      BY <2>1 DEF Victims
    <3>2. /\ work'[b].del = work[b].del /\ work'[b].repl = work[b].repl
          /\ work'[b].ins = work[b].ins \cup gone
      BY <1>0, <2>4 DEF TypeOK, Undo
    <3> QED BY <1>0, <2>2, <2>4, <3>1, <3>2, DeleteRestorable
  <2> QED BY <1>2, <2>1, <2>3, <2>4 DEF AcceptDelete
<1>3. CASE AcceptCascade(b)
  <2>1. PICK F \in SUBSET front[b] :
           Cascade(b, F) /\ work' = [work EXCEPT ![b].ins = @ \cup Dependants(b, F, table)]
    BY <1>3 DEF AcceptCascade
  <2>2. PICK gone : gone = Dependants(b, F, table)
    OBVIOUS
  <2>3. gone \in SUBSET table
    BY <2>2 DEF Dependants
  <2>4. Remove(b, gone) /\ (~faulted'[b] => ~faulted[b])
    BY <1>0, <2>1, <2>2 DEF Cascade, TypeOK
  <2>5. work' = [work EXCEPT ![b].ins = @ \cup gone]
    BY <2>1, <2>2
  <2>6. /\ work'[b].del = work[b].del /\ work'[b].repl = work[b].repl
        /\ work'[b].ins = work[b].ins \cup gone
    BY <1>0, <2>5 DEF TypeOK, Undo
  <2>7. pc[b] \in {"delete", "cascade"} /\ pc'[b] = "cascade" /\ before' = before /\ tries' = tries
    BY <1>3 DEF AcceptCascade
  <2> QED BY <1>0, <2>3, <2>4, <2>6, <2>7, DeleteRestorable
<1>4. CASE AcceptFinish(b)
  <2>1. CASE err[b]
    <3>1. pc'[b] = "failed"
      BY <1>0, <1>4, <2>1 DEF AcceptFinish, TypeOK
    <3> QED BY <3>1 DEF Restorable
  <2>2. CASE ~err[b]
    <3>1. /\ pc[b] = "cascade" /\ pc'[b] = "accepted" /\ before' = before /\ touched' = touched
          /\ foreign' = foreign /\ table' = table /\ tries' = tries /\ faulted' = faulted
      BY <1>0, <1>4, <2>2 DEF AcceptFinish, TypeOK
    <3>2. undo' = IF work[b] # Nothing THEN [undo EXCEPT ![b] = work[b]] ELSE undo
      BY <1>4, <2>2 DEF AcceptFinish
    <3>3. tries[b] = 1 => undo'[b] = work[b]
      <4>1. tries[b] = 1 => undo[b] = Nothing
        BY <1>0, <3>1 DEF FirstTry
      <4> QED BY <1>0, <3>2, <4>1 DEF TypeOK
    <3>4. Record(b) = work[b] /\ Record(b)' = undo'[b]
      BY <3>1 DEF Record
    <3>5. Undisturbed(b)' => Undisturbed(b) /\ Record(b)' = Record(b)
      BY <3>1, <3>3, <3>4 DEF Undisturbed
    <3> QED BY <1>0, <3>1, <3>5 DEF Restorable
  <2> QED BY <2>1, <2>2
<1>5. CASE Commit(b) \/ Again(b)
  <2>1. pc'[b] \in {"committed", "commitFailed", "idle"}
    BY <1>0, <1>5 DEF Commit, Again, TypeOK
  <2> QED BY <2>1 DEF Restorable
<1>6. CASE RollbackDelete(b)
  BY <1>0, <1>6, RollbackDeleteRestorable
<1>7. CASE RollbackCascade(b)
  BY <1>0, <1>7, RollbackCascadeRestorable
<1>8. CASE RollbackSave(b)
  BY <1>0, <1>8, RollbackSaveRestorable
<1>9. CASE RollbackNothing(b)
  <2>1. /\ pc[b] = "accepted" /\ pc'[b] = "rolledBack" /\ undo[b] = Nothing /\ undo' = undo
        /\ before' = before /\ touched' = touched /\ foreign' = foreign /\ table' = table
        /\ tries' = tries /\ faulted' = faulted
    BY <1>0, <1>9 DEF RollbackNothing, Keep, TypeOK
  <2>2. Record(b) = undo[b] /\ Record(b)' = undo[b]
    BY <2>1 DEF Record
  <2>3. Undisturbed(b)' => Undisturbed(b)
    BY <2>1, <2>2 DEF Undisturbed
  <2>4. undo[b].ins = {} /\ undo[b].del = {}
    BY <2>1
  <2>5. Undisturbed(b) => touched[b] = Save[b] \cup undo[b].ins /\ undo[b].del = AddrsOf(Save[b])
    BY <1>0, <2>1, <2>2 DEF Restorable
  <2>6. Undisturbed(b) => touched[b] = {}
    BY <2>4, <2>5 DEF AddrsOf
  <2> QED BY <2>1, <2>3, <2>6 DEF Restorable
<1> QED BY <1>1, <1>2, <1>3, <1>4, <1>5, <1>6, <1>7, <1>8, <1>9 DEF Act, Step

(* RollbackInv is inductive.                                               *)
LEMMA RollbackInvStep == RollbackInv /\ [Next]_vars => RollbackInv'
<1> SUFFICES ASSUME RollbackInv, [Next]_vars PROVE RollbackInv'
  OBVIOUS
<1>0. TypeOK /\ IInv /\ Rows /\ FirstTry
  BY DEF RollbackInv, IInv
<1>1. CASE UNCHANGED vars
  <2>1. IInv'
    BY <1>0, IInvStep
  <2>2. Rows' /\ FirstTry'
    BY <1>0, <1>1 DEF vars, Rows, FirstTry
  <2>3. ASSUME NEW b \in Batches PROVE Restorable(b)'
    <3>1. Undisturbed(b)' = Undisturbed(b) /\ Record(b)' = Record(b)
      BY <1>1 DEF vars, Undisturbed, Record
    <3>2. Restorable(b)
      BY DEF RollbackInv
    <3> QED BY <1>1, <3>1, <3>2 DEF vars, Restorable
  <2> QED BY <2>1, <2>2, <2>3 DEF RollbackInv
<1>2. ASSUME NEW b \in Batches, Act(b) PROVE RollbackInv'
  <2>1. IInv'
    BY <1>0, IInvStep
  <2>2. Rows' /\ FirstTry'
    BY <1>0, <1>2, RowsStep, FirstTryStep
  <2>3. ASSUME NEW c \in Batches PROVE Restorable(c)'
    <3>1. CASE c = b
      BY <1>2, <3>1, OwnRestorable
    <3>2. CASE c # b
      <4>1. Restorable(c)
        BY DEF RollbackInv
      <4> QED BY <1>0, <1>2, <3>2, <4>1, OthersRestorable
    <3> QED BY <3>1, <3>2
  <2> QED BY <2>1, <2>2, <2>3 DEF RollbackInv
<1> QED BY <1>1, <1>2 DEF Next, Act

(* A rollback is exact: RollbackEvents after the AcceptEvents of new       *)
(* events that nobody refers to leaves, of all the statements of the batch *)
(* stored or returned as deleted, just what was there before, whatever the *)
(* statements of other batches do in between to other rows.  Reposts that  *)
(* the foreign key removed are not among them.                             *)
THEOREM RollbackIsExact == Spec => []RollbackRestores
<1>1. Init => RollbackInv
  <2>1. Init => IInv
    BY DEF Init, IInv, TypeOK, Recorded, Covered, Undo, States
  <2>2. Init => Rows /\ FirstTry
    BY DEF Init, Rows, OneRow, FirstTry
  <2>3. Init => \A b \in Batches : Restorable(b)
    BY DEF Init, Restorable
  <2> QED BY <2>1, <2>2, <2>3 DEF RollbackInv
<1>2. RollbackInv => RollbackRestores
  <2> SUFFICES ASSUME RollbackInv, NEW b \in Batches, pc[b] = "rolledBack", Undoable(b)
               PROVE  \A x \in touched[b] : x \in table <=> x \in before[b]
    BY DEF RollbackRestores
  <2>1. Undisturbed(b)
    BY DEF Undoable, Undisturbed, Record
  <2> QED BY <2>1 DEF RollbackInv, Restorable
<1> QED BY <1>1, <1>2, RollbackInvStep, PTL DEF Spec

=============================================================================
