-------------------------- MODULE ConnectionsProofs --------------------------
(***************************************************************************)
(* What holds of a connection, for any number of them.  Close is safe      *)
(* however many goroutines call it, with any number of WriteMessage calls  *)
(* and any capacity.  The key of a session changes only by an AUTH that    *)
(* was overtaken; access follows the attestations of the master, and what  *)
(* is stored for it was allowed, for any devices, dates and kinds.         *)
(***************************************************************************)
EXTENDS Adapters, Access, WellFoundedInduction, TLAPS

PcStates == {"idle", "read", "check", "select", "wait", "close", "closeChan",
             "closeEnd", "returned", "panicked"}

(* What Close needs to know: the one goroutine that won the swap is the    *)
(* only one past it, and its progress is what the counters say.            *)
Winner ==
    /\ \A p \in Closers :
          /\ pc[p] = "closeChan" => closed /\ closes = 0 /\ ends = 0
          /\ pc[p] = "closeEnd" => closed /\ closes = 1 /\ ends = 0
    /\ \A p, q \in Closers :
          pc[p] \in {"closeChan", "closeEnd"} /\ pc[q] \in {"closeChan", "closeEnd"} => p = q
    /\ ~closed => closes = 0 /\ ends = 0
    /\ ends <= closes /\ closes <= 1

(* A call that waited goes on waiting or has returned.                     *)
Patient == \A m \in waited : pc[m] \in {"wait", "returned"}

CloseType ==
    /\ pc \in [Closers -> PcStates]
    /\ closed \in BOOLEAN /\ closes \in Nat /\ ends \in Nat
    /\ waited \subseteq Calls

IInv == CloseType /\ Winner /\ Patient

LEMMA InitIInv == Init => IInv
  <1> SUFFICES ASSUME Init PROVE IInv
    OBVIOUS
  <1>1. CloseType
    BY DEF Init, CloseType, PcStates, Closers
  <1>2. \A p \in Closers : pc[p] \in {"read", "idle"}
    BY DEF Init
  <1>4. closed = FALSE /\ closes = 0 /\ ends = 0
    BY DEF Init
  <1>5. Winner
    BY <1>2, <1>4 DEF Winner
  <1>3. Patient
    BY DEF Init, Patient
  <1> QED BY <1>1, <1>3, <1>5 DEF IInv

(* A step that moves one process between states outside Close, and leaves  *)
(* the counters and the history of waiting alone, keeps the invariant.     *)
LEMMA MoveKeeps ==
  ASSUME IInv, NEW p \in Closers, NEW s \in PcStates \ {"closeChan", "closeEnd"},
         pc' = [pc EXCEPT ![p] = s],
         pc[p] \notin {"closeChan", "closeEnd"},
         p \in waited => s \in {"wait", "returned"},
         UNCHANGED <<closed, closes, ends, waited>>
  PROVE  IInv'
  <1> USE DEF IInv
  <1>1. CloseType'
    BY DEF CloseType, PcStates
  <1>2. Winner'
    BY DEF Winner, CloseType, PcStates
  <1>3. Patient'
    BY DEF Patient, CloseType, Closers
  <1> QED BY <1>1, <1>2, <1>3

LEMMA IdleKeeps ==
  ASSUME IInv, UNCHANGED <<pc, closed, closes, ends, waited>>
  PROVE  IInv'
  BY DEF IInv, CloseType, Winner, Patient

LEMMA NextIInv == IInv /\ [Next]_vars => IInv'
  <1> SUFFICES ASSUME IInv, [Next]_vars PROVE IInv'
    OBVIOUS
  <1> USE DEF closeVars, queueVars, writerVars
  <1>t. CloseType /\ Winner /\ Patient
    BY DEF IInv
  <1>c. \A m \in Calls : m \in Closers
    BY DEF Closers
  <1>1. ASSUME NEW m \in Calls, WriteEnter(m) PROVE IInv'
    <2>1. pc[m] = "idle" /\ m \notin waited
      BY <1>1, <1>t DEF WriteEnter, Patient
    <2>2. PICK s \in {"returned", "check"} : pc' = [pc EXCEPT ![m] = s]
      BY <1>1 DEF WriteEnter
    <2> QED BY <1>1, <1>c, <2>1, <2>2, MoveKeeps DEF WriteEnter, PcStates
  <1>2. ASSUME NEW m \in Calls, WriteCheck(m) PROVE IInv'
    <2>1. pc[m] = "check" /\ m \notin waited
      BY <1>2, <1>t DEF WriteCheck, Patient
    <2>2. PICK s \in {"close", "select"} : pc' = [pc EXCEPT ![m] = s]
      BY <1>2 DEF WriteCheck
    <2> QED BY <1>2, <1>c, <2>1, <2>2, MoveKeeps DEF WriteCheck, PcStates
  <1>3. ASSUME NEW m \in Calls, WriteQueue(m) \/ WriteHand(m) \/ WriteCancel(m) PROVE IInv'
    BY <1>3, <1>c, MoveKeeps DEF WriteQueue, WriteHand, WriteCancel, PcStates
  <1>4. ASSUME NEW m \in Calls, WriteWait(m) PROVE IInv'
    <2>1. CloseType'
      BY <1>4, <1>t, <1>c DEF WriteWait, CloseType, PcStates
    <2>2. Winner'
      BY <1>4, <1>t, <1>c DEF WriteWait, Winner, CloseType
    <2>3. Patient'
      BY <1>4, <1>t, <1>c DEF WriteWait, Patient, CloseType
    <2> QED BY <2>1, <2>2, <2>3 DEF IInv
  <1>5. ASSUME NEW m \in Calls, WritePanic(m) PROVE IInv'
    <2>1. pc[m] = "select"
      BY <1>5, <1>t DEF WritePanic, Winner, CloseType
    <2>2. m \notin waited
      BY <2>1, <1>t DEF Patient
    <2> QED BY <1>5, <1>c, <2>1, <2>2, MoveKeeps DEF WritePanic, PcStates
  <1>6. ASSUME NEW p \in Closers, CloseSwap(p) PROVE IInv'
    <2>1. p \notin waited
      BY <1>6, <1>t DEF CloseSwap, Patient
    <2>2. CASE closed
      <3>1. closed' = closed /\ pc' = [pc EXCEPT ![p] = "returned"]
        BY <1>6, <1>t, <2>2 DEF CloseSwap, CloseType
      <3> QED BY <1>6, <3>1, MoveKeeps DEF CloseSwap, PcStates
    <2>3. CASE ~closed
      <3>1. CloseType'
        BY <1>6, <1>t DEF CloseSwap, CloseType, PcStates
      <3>2. Winner'
        BY <1>6, <1>t, <2>3 DEF CloseSwap, Winner, CloseType
      <3>3. Patient'
        BY <1>6, <1>t, <2>1 DEF CloseSwap, Patient, CloseType, Closers
      <3> QED BY <3>1, <3>2, <3>3 DEF IInv
    <2> QED BY <2>2, <2>3
  <1>7. ASSUME NEW p \in Closers, CloseChan(p) \/ CloseEnd(p) PROVE IInv'
    <2>1. p \notin waited
      BY <1>7, <1>t DEF CloseChan, CloseEnd, Patient
    <2>2. CloseType'
      BY <1>7, <1>t DEF CloseChan, CloseEnd, CloseType, PcStates
    <2>3. Winner'
      BY <1>7, <1>t DEF CloseChan, CloseEnd, Winner, CloseType
    <2>4. Patient'
      BY <1>7, <1>t, <2>1 DEF CloseChan, CloseEnd, Patient, CloseType, Closers
    <2> QED BY <2>2, <2>3, <2>4 DEF IInv
  <1>8. ASSUME WriterStop \/ WriterTake \/ WriterFrame \/ WriterWrite \/ WriterFail
                 \/ WriterPing \/ PeerGone
        PROVE IInv'
    BY <1>8, IdleKeeps
       DEF WriterStop, WriterTake, WriterFrame, WriterWrite, WriterFail, WriterPing, PeerGone
  <1>9. ASSUME ReadEnd PROVE IInv'
    <2>1. Reader \in Closers /\ Reader \notin waited
      BY <1>9, <1>t DEF ReadEnd, Patient, Closers
    <2> QED BY <1>9, <2>1, MoveKeeps DEF ReadEnd, PcStates
  <1>10. CASE UNCHANGED vars
    BY <1>10, IdleKeeps DEF vars
  <1> QED
    BY <1>1, <1>2, <1>3, <1>4, <1>5, <1>6, <1>7, <1>8, <1>9, <1>10
       DEF Next, WriteStep, CloseStep

(* Spec keeps the invariant of Close.                                      *)
THEOREM CloseInvariant == Spec => []IInv
  BY InitIInv, NextIInv, PTL DEF Spec

(* No channel is closed twice: CompareAndSwap lets one Close through.      *)
THEOREM CloseSafe == Spec => []ClosedOnce
  <1>1. IInv => ClosedOnce
    BY DEF IInv, CloseType, Winner, ClosedOnce
  <1> QED BY <1>1, CloseInvariant, PTL

(* A call that waits in the select of a stream's WriteMessage never        *)
(* panics, because closeChannel is closed before out.                      *)
THEOREM WaitSafe == Spec => []WaitersSurviveClose
  <1>1. IInv => WaitersSurviveClose
    BY DEF IInv, Patient, WaitersSurviveClose
  <1> QED BY <1>1, CloseInvariant, PTL

(* Closing is harmless: the two results together.                          *)
THEOREM CloseIsHarmless == Spec => []CloseHarmless
  <1>1. ClosedOnce /\ WaitersSurviveClose => CloseHarmless
    BY DEF CloseHarmless
  <1> QED BY <1>1, CloseSafe, WaitSafe, PTL

-----------------------------------------------------------------------------
(* Sessions: the attestations of a device.                                 *)

LEMMA LeastExists ==
    ASSUME NEW T, T \subseteq Nat, T # {}
    PROVE  \E x \in T : \A y \in T : x <= y
<1>1. \E x \in T : \A y \in T : ~(<<y, x>> \in OpToRel(<, Nat))
  BY WFMin, NatLessThanWellFounded, Zenon
<1>2. PICK x \in T : \A y \in T : ~(y < x)
  <2>1. \A x, y \in Nat : y < x => <<y, x>> \in OpToRel(<, Nat)
    BY Zenon DEF OpToRel
  <2> QED BY <1>1, <2>1, Zenon
<1> QED BY <1>2

LEMMA GreatestExists ==
    ASSUME NEW n \in Nat, NEW T, T \subseteq 1..n, T # {}
    PROVE  \E x \in T : \A y \in T : y <= x
<1> DEFINE D == {n - x : x \in T}
<1>1. D \subseteq Nat /\ D # {}
  <2>1. \A x \in T : n - x \in Nat
    <3> SUFFICES ASSUME NEW x \in T PROVE n - x \in Nat
      OBVIOUS
    <3>1. x \in 1..n
      OBVIOUS
    <3> QED BY <3>1
  <2> QED BY <2>1
<1>2. PICK d \in D : \A e \in D : d <= e
  BY <1>1, LeastExists
<1>3. PICK x \in T : d = n - x
  OBVIOUS
<1>4. \A y \in T : n - x <= n - y
  BY <1>2, <1>3
<1>5. \A y \in T : y \in Int
  OBVIOUS
<1> QED BY <1>4, <1>5

(* LastTag is the last of the tags it is asked for.                        *)
LEMMA LastTagIsLast ==
    ASSUME NEW tags \in Seq(Tags), NEW dev, NEW actions
    PROVE  /\ LastTag(tags, dev, actions) \in 0..Len(tags)
           /\ LastTag(tags, dev, actions) # 0 =>
                 /\ LastTag(tags, dev, actions) \in TagsOf(tags, dev)
                 /\ tags[LastTag(tags, dev, actions)].action \in actions
           /\ \A j \in TagsOf(tags, dev) :
                 tags[j].action \in actions => j <= LastTag(tags, dev, actions)
<1> DEFINE W == {i \in TagsOf(tags, dev) : tags[i].action \in actions}
<1>0. Len(tags) \in Nat /\ W \subseteq 1..Len(tags)
  BY DEF TagsOf
<1>1. CASE W = {}
  <2>1. LastTag(tags, dev, actions) = 0
    BY <1>1 DEF LastTag
  <2> QED BY <1>0, <1>1, <2>1
<1>2. CASE W # {}
  <2>1. \E x \in W : \A y \in W : y <= x
    BY <1>0, <1>2, GreatestExists
  <2>2. LastTag(tags, dev, actions) = CHOOSE i \in W : \A j \in W : j <= i
    BY <1>2 DEF LastTag
  <2>3. /\ LastTag(tags, dev, actions) \in W
        /\ \A j \in W : j <= LastTag(tags, dev, actions)
    BY <2>1, <2>2
  <2> QED BY <1>0, <2>3
<1> QED BY <1>1, <1>2

(* validateAttestationEvent: a tag that is not the last of its device is   *)
(* followed by one the table allows.                                       *)
LEMMA NextTagFollows ==
    ASSUME NEW tags \in Seq(Tags), validateAttestationEvent(tags), NEW dev \in Devices,
           NEW i \in TagsOf(tags, dev), NEW k \in TagsOf(tags, dev), i < k
    PROVE  \E j \in TagsOf(tags, dev) :
              i < j /\ j <= k /\ tags[j].action \in attestationStateMap[tags[i].action]
<1> DEFINE Later == {j \in TagsOf(tags, dev) : i < j}
<1>0. TagsOf(tags, dev) \subseteq Nat
  BY DEF TagsOf
<1>1. Later \subseteq Nat /\ Later # {}
  BY <1>0
<1>2. PICK j \in Later : \A m \in Later : j <= m
  BY <1>1, LeastExists
<1>3. \A m \in TagsOf(tags, dev) : m <= i \/ j <= m
  BY <1>0, <1>2
<1>4. tags[j].action \in attestationStateMap[tags[i].action]
  BY <1>2, <1>3 DEF validateAttestationEvent
<1> QED BY <1>2, <1>4

LEMMA RevokedIsLast ==
    ASSUME NEW tags \in Seq(Tags), validateAttestationEvent(tags), NEW dev \in Devices,
           NEW i \in TagsOf(tags, dev), tags[i].action = "revoked"
    PROVE  \A k \in TagsOf(tags, dev) : k <= i
<1> SUFFICES ASSUME NEW k \in TagsOf(tags, dev), ~(k <= i) PROVE FALSE
  OBVIOUS
<1>1. i \in Nat /\ k \in Nat
  BY DEF TagsOf
<1>2. i < k
  BY <1>1
<1>3. PICK j \in TagsOf(tags, dev) : tags[j].action \in attestationStateMap[tags[i].action]
  BY <1>2, NextTagFollows
<1> QED BY <1>3 DEF attestationStateMap

(* The newest row of a device is its latest attestation, unless that one   *)
(* repeats an earlier attestation and has no row.                          *)
LEMMA NewestIsLast ==
    ASSUME NEW tags \in Seq(Tags), NEW dev \in Devices,
           ~RepeatsItself(tags, dev), NewestRow(tags, dev) # 0
    PROVE  NewestRow(tags, dev) = LastTag(tags, dev, Actions)
<1> DEFINE rows == {i \in TagsOf(tags, dev) : \A j \in TagsOf(tags, dev) : j < i => tags[j] # tags[i]}
           last == LastTag(tags, dev, Actions)
<1>1. rows # {}
  BY DEF NewestRow
<1>2. \A j \in TagsOf(tags, dev) : tags[j].action \in Actions /\ j \in Nat /\ j # 0
  BY DEF TagsOf, Tags
<1>3. \A j \in TagsOf(tags, dev) : j <= last
  BY <1>2, LastTagIsLast
<1>4. last # 0
  BY <1>1, <1>2, <1>3
<1>5. last \in TagsOf(tags, dev)
  BY <1>4, LastTagIsLast
<1>6. \A j \in TagsOf(tags, dev) : j < last => tags[j] # tags[last]
  BY DEF RepeatsItself
<1>7. last \in rows
  BY <1>5, <1>6
<1>8. NewestRow(tags, dev) = CHOOSE i \in rows : \A j \in rows : j <= i
  BY <1>1 DEF NewestRow
<1> HIDE DEF last
<1>9. \A j \in rows : j <= last /\ j \in Nat
  BY <1>2, <1>3
<1> HIDE DEF rows
<1>10. /\ NewestRow(tags, dev) \in rows
       /\ \A j \in rows : j <= NewestRow(tags, dev)
  BY <1>7, <1>8, <1>9
<1>11. NewestRow(tags, dev) = last
  BY <1>7, <1>9, <1>10
<1> QED BY <1>11 DEF last

(* The trigger reads the newest row only: where it says yes the whole      *)
(* history does, unless the latest attestation repeats an earlier one.     *)
LEMMA InsertIsAllowed ==
    ASSUME NEW tags \in Seq(Tags), validateAttestationEvent(tags), NEW dev \in Devices,
           NEW asked, NEW moment \in Nat, AllowedOnInsert(tags, dev, asked, moment),
           ~RepeatsItself(tags, dev)
    PROVE  IsAccessAllowed(tags, dev, moment) /\ KindAllowed(AllowedKinds(tags, dev), asked)
<1> DEFINE last == LastTag(tags, dev, Actions)
           active == LastTag(tags, dev, {"active"})
           inactive == LastTag(tags, dev, {"inactive"})
           revoked == LastTag(tags, dev, {"revoked"})
<1>1. /\ last # 0 /\ tags[last].action = "active" /\ moment > tags[last].ts
      /\ KindAllowed(tags[last].kinds, asked)
  BY NewestIsLast DEF AllowedOnInsert
<1>2. last \in TagsOf(tags, dev) /\ \A j \in TagsOf(tags, dev) : j <= last
  <2>1. \A j \in TagsOf(tags, dev) : tags[j].action \in Actions
    BY DEF TagsOf, Tags
  <2> QED BY <1>1, <2>1, LastTagIsLast
<1>3. tags[last].ts \in Nat \ {0} /\ last \in Nat
  BY <1>2, SessionsAssumption DEF TagsOf, Tags, Instants
<1>4. active = last
  <2>1. last <= active
    BY <1>1, <1>2, LastTagIsLast
  <2>2. active \in 0..Len(tags) /\ (active # 0 => active \in TagsOf(tags, dev))
    BY LastTagIsLast
  <2>3. active \in Nat
    BY <2>2
  <2> HIDE DEF last, active
  <2>4. active <= last
    BY <1>2, <1>3, <2>1, <2>2, <2>3
  <2> QED BY <1>3, <2>1, <2>3, <2>4
<1>5. ~(inactive > active)
  <2>1. /\ inactive \in 0..Len(tags)
        /\ inactive # 0 => inactive \in TagsOf(tags, dev)
    BY LastTagIsLast
  <2> HIDE DEF last, active, inactive
  <2> QED BY <1>2, <1>3, <1>4, <2>1
<1>6. revoked = 0
  <2> SUFFICES ASSUME revoked # 0 PROVE FALSE
    OBVIOUS
  <2>1. revoked \in TagsOf(tags, dev) /\ tags[revoked].action = "revoked"
    BY LastTagIsLast
  <2> HIDE DEF last, revoked
  <2>2. last <= revoked
    BY <1>2, <2>1, RevokedIsLast
  <2>3. last = revoked
    BY <1>2, <1>3, <2>1, <2>2 DEF TagsOf
  <2> QED BY <1>1, <2>1, <2>3
<1>7. /\ Entry(tags, dev).start = tags[last].ts /\ Entry(tags, dev).end = Never
      /\ Entry(tags, dev).revoked = Never /\ Entry(tags, dev).kinds = tags[last].kinds
  BY <1>1, <1>4, <1>5, <1>6 DEF Entry, DateOf, KindsOf
<1> HIDE DEF last
<1> QED BY <1>1, <1>3, <1>7 DEF IsAccessAllowed, AllowedKinds, Never

(* ParseAttestationTags and IsAccessAllowed against the history.           *)
LEMMA AllowedByHistory ==
    ASSUME NEW tags \in Seq(Tags), validateAttestationEvent(tags), NEW dev \in Devices,
           NEW moment \in Instants, IsAccessAllowed(tags, dev, moment)
    PROVE  \E i \in {j \in TagsOf(tags, dev) : tags[j].ts <= moment} :
              /\ tags[i].action = "active"
              /\ AllowedKinds(tags, dev) = tags[i].kinds
              /\ \A j \in {h \in TagsOf(tags, dev) : tags[h].ts <= moment} :
                    j > i => tags[j].action = "inactive" /\ tags[j].ts = moment
<1> DEFINE active == LastTag(tags, dev, {"active"})
           inactive == LastTag(tags, dev, {"inactive"})
           revoked == LastTag(tags, dev, {"revoked"})
           e == Entry(tags, dev)
<1>0. moment \in Nat /\ \A j \in TagsOf(tags, dev) : /\ tags[j].ts \in Nat \ {0} /\ j \in Nat
                                                    /\ tags[j].action \in Actions
  BY SessionsAssumption DEF TagsOf, Tags, Instants
<1>1. /\ ~(e.revoked # Never /\ moment >= e.revoked)
      /\ ~(e.end # Never /\ moment > e.end)
      /\ e.start # Never /\ moment >= e.start
  BY DEF IsAccessAllowed
<1>2. /\ e.start = DateOf(tags, active)
      /\ e.end = IF inactive > active THEN tags[inactive].ts ELSE Never
      /\ e.revoked = DateOf(tags, revoked)
      /\ e.kinds = KindsOf(tags, active)
  BY DEF Entry
<1>3. active # 0
  BY <1>1, <1>2 DEF DateOf
<1>4. /\ active \in TagsOf(tags, dev) /\ tags[active].action = "active"
      /\ \A j \in TagsOf(tags, dev) : tags[j].action = "active" => j <= active
  BY <1>3, LastTagIsLast
<1>5. /\ \A j \in TagsOf(tags, dev) : tags[j].action = "inactive" => j <= inactive
      /\ inactive # 0 => inactive \in TagsOf(tags, dev) /\ tags[inactive].action = "inactive"
      /\ \A j \in TagsOf(tags, dev) : tags[j].action = "revoked" => j <= revoked
      /\ revoked # 0 => revoked \in TagsOf(tags, dev) /\ tags[revoked].action = "revoked"
      /\ inactive \in Nat /\ revoked \in Nat
  BY LastTagIsLast
<1>6. /\ AllowedKinds(tags, dev) = tags[active].kinds /\ tags[active].ts <= moment
  BY <1>0, <1>1, <1>2, <1>3, <1>4 DEF AllowedKinds, DateOf, KindsOf
<1> HIDE DEF active, inactive, revoked, e
<1>7. ASSUME NEW j \in TagsOf(tags, dev), tags[j].ts <= moment, j > active
      PROVE  tags[j].action = "inactive" /\ tags[j].ts = moment
  <2>0. j \in Nat /\ active \in Nat /\ tags[j].ts \in Nat \ {0}
    BY <1>0, <1>4
  <2>1. tags[j].action # "active"
    BY <1>4, <1>7, <2>0
  <2>2. tags[j].action # "revoked"
    <3> SUFFICES ASSUME tags[j].action = "revoked" PROVE FALSE
      OBVIOUS
    <3>1. revoked # 0 /\ j <= revoked
      BY <1>5, <1>7, <2>0
    <3>2. revoked <= j
      BY <1>5, <3>1, RevokedIsLast
    <3>3. revoked = j
      BY <1>5, <2>0, <3>1, <3>2
    <3>4. e.revoked = tags[j].ts
      BY <1>2, <3>1, <3>3 DEF DateOf
    <3> QED BY <1>0, <1>1, <1>7, <2>0, <3>4 DEF Never
  <2>3. tags[j].action = "inactive"
    BY <1>0, <2>1, <2>2 DEF Actions
  <2>4. j <= inactive /\ inactive # 0
    BY <1>5, <1>7, <2>0, <2>3
  <2>5. inactive = j
    <3> SUFFICES ASSUME j < inactive PROVE FALSE
      BY <1>5, <2>0, <2>4
    <3>1. PICK k \in TagsOf(tags, dev) :
             j < k /\ k <= inactive /\ tags[k].action \in attestationStateMap[tags[j].action]
      BY <1>5, <2>4, NextTagFollows
    <3>2. tags[k].action = "active" \/ tags[k].action = "revoked"
      BY <2>3, <3>1 DEF attestationStateMap
    <3>3. tags[k].action # "active"
      BY <1>0, <1>4, <1>7, <2>0, <3>1
    <3>4. inactive <= k
      BY <1>5, <2>4, <3>2, <3>3, RevokedIsLast
    <3>5. k = inactive
      BY <1>0, <1>5, <3>1, <3>4
    <3> QED BY <1>5, <2>4, <3>2, <3>3, <3>5
  <2>6. e.end = tags[j].ts
    BY <1>2, <1>7, <2>5
  <2> QED BY <1>0, <1>1, <1>7, <2>0, <2>3, <2>6 DEF Never
<1> QED BY <1>4, <1>6, <1>7

-----------------------------------------------------------------------------
(* Sessions: the state.  The stored list is a valid one; an AUTH under way *)
(* knows the key of its connection, or that it ended meanwhile.            *)
Session == [key : Keys \cup {NoKey}, kinds : SUBSET Kinds]
Auth == [conn : Conns, key : Keys, over : SUBSET Keys]
SessionInv ==
    /\ now \in Instants /\ relays \in BOOLEAN
    /\ list \in Seq(Tags) /\ validateAttestationEvent(list)
    /\ challenge \subseteq Conns
    /\ session \in [Conns -> Session]
    /\ \A c \in Conns : session[c].key # NoKey => c \in challenge
    /\ auths \subseteq Auth
    /\ \A a \in auths : /\ a.conn \in challenge
                        /\ session[a.conn].key \in {NoKey, a.key} \cup a.over
    /\ \A p \in posts : p.by \in Keys

(* The kinds AUTH finds are kinds, in the stored list or another one.      *)
LEMMA KindsAreKinds ==
    ASSUME NEW tags \in Seq(Tags), NEW dev PROVE AllowedKinds(tags, dev) \subseteq Kinds
<1> DEFINE active == LastTag(tags, dev, {"active"})
<1>1. AllowedKinds(tags, dev) = KindsOf(tags, active)
  BY DEF AllowedKinds, Entry
<1>2. active = 0 \/ active \in TagsOf(tags, dev)
  BY LastTagIsLast
<1> HIDE DEF active
<1>3. CASE active = 0
  BY <1>1, <1>3 DEF KindsOf
<1>4. CASE active # 0
  <2>1. active \in 1..Len(tags)
    BY <1>2, <1>4 DEF TagsOf
  <2>2. tags[active] \in Tags
    BY <2>1
  <2>3. tags[active].kinds \in KindLists
    BY <2>2 DEF Tags
  <2> QED BY <1>1, <1>4, <2>3, SessionsAssumption DEF KindsOf
<1> QED BY <1>3, <1>4

LEMMA ListsAreLists ==
    ASSUME SessionInv, NEW with \in Lists PROVE with \in Seq(Tags)
<1>1. PICK n \in 0..Len(list) : with = SubSeq(list, 1, n)
  BY DEF Lists
<1>2. list \in Seq(Tags)
  BY DEF SessionInv
<1> QED BY <1>1, <1>2

LEMMA EmptyListValid == validateAttestationEvent(<<>>)
<1>1. \A dev : TagsOf(<<>>, dev) = {}
  BY DEF TagsOf
<1> QED BY <1>1 DEF validateAttestationEvent

LEMMA AuthEndKeeps ==
    ASSUME SessionInv, NEW a \in auths, NEW with \in Lists, AuthEnd(a, with)
    PROVE  SessionInv'
<1> DEFINE granted == a.key = Master \/ ValidateUserAccess(a.key, with)
           After(b) == [b EXCEPT !.over = IF granted /\ b.conn = a.conn THEN @ \cup {a.key} ELSE @]
<1>1. /\ auths' = {After(b) : b \in auths \ {a}}
      /\ session' = IF granted THEN [session EXCEPT ![a.conn] = Granted(a.key, with)] ELSE session
      /\ UNCHANGED <<now, list, relays, challenge, posts>>
  BY DEF AuthEnd
<1>2. a \in Auth /\ a.conn \in challenge
  BY DEF SessionInv
<1>3. Granted(a.key, with) \in Session
  <2>1. with \in Seq(Tags) /\ list \in Seq(Tags)
    BY ListsAreLists DEF SessionInv
  <2>2. AllowedKinds(IF with # <<>> THEN with ELSE list, a.key) \subseteq Kinds
    BY <2>1, KindsAreKinds
  <2> QED BY <1>2, <2>2 DEF Granted, Session, Auth
<1>4. Granted(a.key, with).key = a.key
  BY DEF Granted
<1>5. session' \in [Conns -> Session]
      /\ \A c \in Conns : session'[c].key # NoKey => c \in challenge'
  BY <1>1, <1>2, <1>3 DEF SessionInv, Auth
<1>6. ASSUME NEW b \in auths
      PROVE  /\ After(b) \in Auth /\ After(b).conn = b.conn /\ After(b).key = b.key
             /\ After(b).over = IF granted /\ b.conn = a.conn THEN b.over \cup {a.key} ELSE b.over
  <2>1. b \in Auth
    BY DEF SessionInv
  <2> HIDE DEF granted
  <2> QED BY <1>2, <2>1 DEF Auth
<1> HIDE DEF After
<1>7. ASSUME NEW b \in auths
      PROVE  /\ After(b).conn \in challenge'
             /\ session'[After(b).conn].key \in {NoKey, After(b).key} \cup After(b).over
  <2>1. /\ b.conn \in challenge /\ b.conn \in Conns
        /\ session[b.conn].key \in {NoKey, b.key} \cup b.over
    BY DEF SessionInv, Auth
  <2>2. CASE granted /\ b.conn = a.conn
    <3>1. session'[b.conn] = Granted(a.key, with)
      BY <1>1, <2>1, <2>2 DEF SessionInv
    <3> HIDE DEF granted
    <3>2. After(b).over = b.over \cup {a.key} /\ After(b).conn = b.conn
      BY <1>6, <2>2, Zenon
    <3> QED BY <1>1, <1>4, <2>1, <3>1, <3>2
  <2>3. CASE ~(granted /\ b.conn = a.conn)
    <3>1. session'[b.conn] = session[b.conn]
      BY <1>1, <2>1, <2>3 DEF SessionInv
    <3> HIDE DEF granted
    <3>2. After(b).over = b.over
      BY <1>6, <2>3, Zenon
    <3>3. After(b).conn = b.conn /\ After(b).key = b.key
      BY <1>6, Zenon
    <3> QED BY <1>1, <2>1, <3>1, <3>2, <3>3
  <2> QED BY <2>2, <2>3
<1> HIDE DEF granted
<1>8. auths' \subseteq Auth
      /\ \A b \in auths' : /\ b.conn \in challenge'
                           /\ session'[b.conn].key \in {NoKey, b.key} \cup b.over
  BY <1>1, <1>6, <1>7, ZenonT(60)
<1> QED BY <1>1, <1>5, <1>8 DEF SessionInv

LEMMA SessionStepKeeps == ASSUME SessionInv, SessionNext PROVE SessionInv'
<1>1. CASE Tick
  <2>1. now' \in Instants
    BY <1>1, SessionsAssumption DEF Tick, SessionInv, Instants
  <2> QED BY <1>1, <2>1 DEF Tick, SessionInv
<1>2. CASE DeleteList
  BY <1>2, EmptyListValid DEF DeleteList, SessionInv
<1>3. CASE PublishRelays
  BY <1>3 DEF PublishRelays, SessionInv
<1>4. ASSUME NEW tag \in Tags, PublishList(Append(list, tag)) PROVE SessionInv'
  BY <1>4 DEF PublishList, SessionInv
<1>5. ASSUME NEW c \in Conns, Challenge(c) PROVE SessionInv'
  BY <1>5 DEF Challenge, SessionInv
<1>6. ASSUME NEW c \in Conns, PostSent(c) PROVE SessionInv'
  <2>1. PICK by, sort, embedded : by \in Keys /\ Post(c, by, sort, embedded)
    BY <1>6 DEF PostSent, Keys
  <2> QED BY <2>1 DEF Post, SessionInv
<1>7. ASSUME NEW c \in Conns, NEW key \in Keys, AuthStart(c, key) PROVE SessionInv'
  <2>1. /\ auths' = auths \cup {[conn |-> c, key |-> key, over |-> {}]}
        /\ c \in challenge /\ session[c].key \in {NoKey, key}
        /\ UNCHANGED <<now, list, relays, challenge, session, posts>>
    BY <1>7 DEF AuthStart
  <2>2. [conn |-> c, key |-> key, over |-> {}] \in Auth
    BY DEF Auth
  <2>3. \A b \in auths' : b.conn \in challenge /\ session[b.conn].key \in {NoKey, b.key} \cup b.over
    BY <2>1 DEF SessionInv
  <2>4. auths' \subseteq Auth
    BY <2>1, <2>2 DEF SessionInv
  <2> QED BY <2>1, <2>3, <2>4 DEF SessionInv
<1>8. ASSUME NEW a \in auths, NEW with \in Lists, AuthEnd(a, with) PROVE SessionInv'
  BY <1>8, AuthEndKeeps
<1>9. ASSUME NEW p \in posts, PostEnd(p) PROVE SessionInv'
  BY <1>9 DEF PostEnd, SessionInv
<1> QED BY <1>1, <1>2, <1>3, <1>4, <1>5, <1>6, <1>7, <1>8, <1>9 DEF SessionNext, Quiet

LEMMA SessionInvariant == AccessSpec => []SessionInv
<1>1. AccessInit => SessionInv
  <2> SUFFICES ASSUME SessionInit PROVE SessionInv
    BY DEF AccessInit
  <2>1. 1 \in Instants
    BY SessionsAssumption DEF Instants
  <2>2. Anonymous \in Session /\ Anonymous.key = NoKey
    BY DEF Anonymous, Session
  <2>3. session \in [Conns -> Session] /\ \A c \in Conns : session[c].key = NoKey
    BY <2>2 DEF SessionInit
  <2>4. list \in Seq(Tags) /\ validateAttestationEvent(list)
    BY EmptyListValid DEF SessionInit
  <2> QED BY <2>1, <2>3, <2>4 DEF SessionInit, SessionInv
<1>2. SessionInv /\ [AccessNext]_accessVars => SessionInv'
  <2> SUFFICES ASSUME SessionInv, SessionNext \/ UNCHANGED sessionVars PROVE SessionInv'
    BY DEF AccessNext, accessVars
  <2>1. CASE UNCHANGED sessionVars
    BY <2>1 DEF sessionVars, SessionInv
  <2> QED BY <2>1, SessionStepKeeps
<1> QED BY <1>1, <1>2, PTL DEF AccessSpec

(* Whatever valid list of attestations is stored: a device is given access *)
(* only if its last attestation that has begun is an active one, or ends   *)
(* at this very moment (ParseAttestationTags, IsAccessAllowed).            *)
THEOREM AccessIsHistory == AccessSpec => []AccessFollowsHistory
<1>1. SessionInv => AccessFollowsHistory
  <2> SUFFICES ASSUME SessionInv PROVE AccessFollowsHistory
    OBVIOUS
  <2>1. SessionsTyped
    BY DEF SessionInv, SessionsTyped, Session
  <2>2. list \in Seq(Tags) /\ validateAttestationEvent(list)
    BY DEF SessionInv
  <2> QED BY <2>1, <2>2, AllowedByHistory DEF AccessFollowsHistory
<1> QED BY <1>1, SessionInvariant, PTL

(* An event that is stored in the name of a device is allowed, its kind    *)
(* included, by the list stored at that moment or by the one it brought    *)
(* along, however old the session is (the trigger on events, AcceptEvents),*)
(* unless the latest attestation of the device repeats an earlier one.     *)
THEOREM StoredIsAllowed == AccessSpec => StoredAllowed
<1>1. SessionInv /\ [AccessNext]_accessVars =>
         [\A p \in stored' : p.by # Master =>
             \/ RepeatsItself(list, p.by)
             \/ \E l \in {list, p.embedded} :
                   IsAccessAllowed(l, p.by, now) /\ KindAllowed(AllowedKinds(l, p.by), p.kind)]_sessionVars
  <2> SUFFICES ASSUME SessionInv, SessionNext, NEW p \in stored', p.by # Master,
                      ~RepeatsItself(list, p.by)
               PROVE  \E l \in {list, p.embedded} :
                         /\ IsAccessAllowed(l, p.by, now)
                         /\ KindAllowed(AllowedKinds(l, p.by), p.kind)
    BY DEF AccessNext, accessVars
  <2>1. PICK q \in posts : PostEnd(q)
    BY DEF SessionNext
  <2>2. q = p /\ Accepted(p)
    BY <2>1 DEF PostEnd
  <2>3. p.by \in Devices /\ now \in Nat
    BY <2>1, <2>2 DEF SessionInv, Keys, Instants
  <2>4. CASE AllowedOnInsert(list, p.by, p.kind, now)
    <3>1. list \in Seq(Tags) /\ validateAttestationEvent(list)
      BY DEF SessionInv
    <3> QED BY <2>3, <2>4, <3>1, InsertIsAllowed
  <2>5. CASE IsAccessAllowed(p.embedded, p.by, now)
             /\ KindAllowed(AllowedKinds(p.embedded, p.by), p.kind)
    BY <2>5
  <2> QED BY <2>2, <2>4, <2>5 DEF Accepted
<1> QED BY <1>1, SessionInvariant, PTL DEF AccessSpec, StoredAllowed

(* A connection that has a key gets another one only by an AUTH that was   *)
(* under way when the one before it succeeded (handleAuth reads the key    *)
(* before it validates, authConnSet replaces it afterwards).               *)
THEOREM KeyIsKept == AccessSpec => KeyKept
<1>1. SessionInv /\ [AccessNext]_accessVars =>
         [\A c \in Conns : session[c].key \notin {NoKey, session'[c].key} =>
             \E a \in auths \ auths' : a.conn = c /\ session[c].key \in a.over]_sessionVars
  <2> SUFFICES ASSUME SessionInv, SessionNext, NEW c \in Conns,
                      session[c].key \notin {NoKey, session'[c].key}
               PROVE  \E a \in auths \ auths' : a.conn = c /\ session[c].key \in a.over
    BY DEF AccessNext, accessVars
  <2>1. PICK a \in auths, with \in Lists : AuthEnd(a, with)
    <3>1. session' # session
      OBVIOUS
    <3>2. \/ UNCHANGED session
          \/ \E a \in auths, with \in Lists : AuthEnd(a, with)
      BY DEF SessionNext, Quiet, Tick, DeleteList, PublishRelays, PublishList, Challenge, PostSent,
             Post, AuthStart, PostEnd
    <3> QED BY <3>1, <3>2
  <2> DEFINE granted == a.key = Master \/ ValidateUserAccess(a.key, with)
             After(b) == [b EXCEPT !.over = IF granted /\ b.conn = a.conn THEN @ \cup {a.key} ELSE @]
  <2>2. /\ auths' = {After(b) : b \in auths \ {a}}
        /\ session' = IF granted THEN [session EXCEPT ![a.conn] = Granted(a.key, with)] ELSE session
    BY <2>1 DEF AuthEnd
  <2>3. auths \subseteq Auth /\ session \in [Conns -> Session]
    BY DEF SessionInv
  <2>4. granted /\ a.conn = c
    BY <2>2, <2>3
  <2>5. session'[c].key = a.key
    BY <2>2, <2>3, <2>4 DEF Granted
  <2>6. \A b \in auths : b.conn = c /\ b.key = a.key => session[c].key \in b.over
    BY <2>5 DEF SessionInv
  <2>7. ASSUME NEW b \in auths
        PROVE  /\ After(b).conn = b.conn /\ After(b).key = b.key
               /\ b.conn = c => After(b).over = b.over \cup {a.key}
    BY <2>3, <2>4 DEF Auth
  <2> HIDE DEF After, granted
  <2>8. CASE a \notin auths'
    BY <2>4, <2>6, <2>8
  <2>9. CASE a \in auths'
    <3>1. PICK b \in auths \ {a} : After(b) = a
      BY <2>2, <2>9
    <3>2. b.conn = c /\ b.key = a.key /\ a.over = b.over \cup {a.key}
      BY <2>4, <2>7, <3>1
    <3>3. a.key \notin b.over
      <4> SUFFICES ASSUME a.key \in b.over PROVE FALSE
        OBVIOUS
      <4>1. a.over = b.over
        BY <3>2
      <4>2. a = b
        BY <2>3, <2>4, <3>2, <4>1 DEF Auth
      <4> QED BY <4>2
    <3>4. b \notin auths'
      <4> SUFFICES ASSUME NEW d \in auths, b = After(d) PROVE FALSE
        BY <2>2
      <4>1. d.conn = c
        BY <2>7, <3>2
      <4>2. a.key \in b.over
        BY <2>7, <4>1
      <4> QED BY <3>3, <4>2
    <3> QED BY <2>6, <3>2, <3>4
  <2> QED BY <2>8, <2>9
<1> QED BY <1>1, SessionInvariant, PTL DEF AccessSpec, KeyKept

=============================================================================
