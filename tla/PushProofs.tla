----------------------------- MODULE PushProofs -----------------------------
(***************************************************************************)
(* Proofs about Push, for all registrations, posts and deletions, any      *)
(* number of tasks, any order of their steps, and restarts.  The invariant *)
(* PushInv says of every key that was not raced for who may be at work on  *)
(* it (Company) and what is cached under it while a task has it in hand    *)
(* and while none does (Cached): what is cached is what the database says, *)
(* or some task that is not over is going to change it to that.            *)
(***************************************************************************)
EXTENDS Push, FiniteSetTheorems, TLAPS

-----------------------------------------------------------------------------
(* The inductive invariant.                                                *)

PCs == {"new", "queued", "send", "mark", "jobs", "next", "clear", "row", "add", "maps", "index", "done"}
Frame == [pc : PCs, todo : SUBSET Targets, out : SUBSET Targets, sent : Nat, total : Nat,
          bad : SUBSET Regs, rest : SUBSET Regs, arg : Regs \cup {None}, old : Regs \cup {None},
          err : BOOLEAN, tries : Nat]

\* What the frame f of the task t can hold, where it is.
Shape(t, f) ==
    /\ f.sent + Cardinality(f.todo) + Cardinality(f.out) = f.total /\ f.todo \cap f.out = {}
    /\ f.pc # "send" => f.todo = {} /\ f.out = {} /\ f.sent = 0 /\ f.total = 0
    /\ f.pc \notin {"send", "mark", "next", "clear", "row"} => f.bad = {}
    /\ f.pc \notin {"next", "clear", "row"} => f.rest = {}
    /\ f.pc \in {"send", "mark"} => t.ev \in Posts
    /\ f.pc \in {"add", "maps", "index"} => t.ev \in Regs
    /\ f.pc \in {"clear", "row"} => f.arg \in Regs
    /\ f.pc = "row" => f.old \in Regs /\ Reg[f.old].key = Reg[f.arg].key
    /\ t.ev \in Posts => f.rest \subseteq f.bad /\ (f.pc \in {"clear", "row"} => f.arg \in f.bad)
    /\ t.ev \in Regs => /\ f.bad = {} /\ f.rest \subseteq {t.ev}
                        /\ f.pc \in {"clear", "row"} => f.arg = t.ev /\ f.rest = {}
    /\ t.ev \in Dels => /\ f.bad = {} /\ f.rest \subseteq Named(t.ev)
                        /\ f.pc \in {"clear", "row"} => f.arg \in Named(t.ev)

Types ==
    /\ stored \in [Keys -> Regs \cup {None}] /\ invalid \subseteq Regs
    /\ rows \in [Keys -> Regs \cup {None}] /\ byId \subseteq Regs
    /\ byKey \in [Keys -> Regs \cup {None}] /\ index \in [Keys -> Regs \cup {None}]
    /\ task \in [Tasks -> Frame]
    /\ \A t \in Tasks : Shape(t, task[t])
    /\ remotes \subseteq Posts /\ raced \cup left \cup stale \subseteq Keys
    /\ jobs \subseteq [type : {"relays", "users", "cast"}, ev : Posts]

\* A registration is filed under its key, and was published before it is stored.
Filed ==
    /\ \A k \in Keys : /\ stored[k] # None => /\ Reg[stored[k]].key = k /\ task[Task(stored[k])].pc # "new"
                                              /\ Reg[stored[k]].here \/ Reg[stored[k]].remote
                       /\ byKey[k] # None => Reg[byKey[k]].key = k
                       /\ index[k] # None => Reg[index[k]].key = k
    /\ \A r \in invalid : task[Task(r)].pc # "new"

HeldIn(f) == (f.todo \cup f.out \cup f.bad) \ {Topic}
Current(k) == IF stored[k] \in invalid THEN None ELSE stored[k]
RowOf(r) == IF r # None /\ Reg[r].price /\ ~Reg[r].remote THEN r ELSE None

InRemoval(f, d) == f.pc \in {"clear", "row"} /\ f.arg = d

\* Whoever manages the key is alone with it; who holds a device holds the stored
\* one; and what is still to come for the key is what the database says.
Company(k) ==
    /\ \A t, u \in Tasks : ~Over(t) /\ ~Over(u) /\ k \in Manages(t) /\ k \in Manages(u) \cup Holds(u) => u = t
    /\ k \notin left => \A t \in Tasks : \A d \in HeldIn(task[t]) : Reg[d].key = k =>
          stored[k] = d /\ (d \in task[t].rest \/ InRemoval(task[t], d) => d \in invalid)
    /\ \A t \in Tasks : ~Over(t) /\ k \in Manages(t) =>
          /\ t.ev \in Regs => t.ev \notin invalid /\ (k \notin left => stored[k] = t.ev)
          /\ t.ev \in Dels => k \in left \/ stored[k] \notin Named(t.ev)

\* The task is between the removal of an entry of the key and its last step.
Hand(t, f, k) ==
    \/ f.pc \in {"clear", "row"} /\ Reg[f.arg].key = k
    \/ /\ t.ev \in Regs /\ Reg[t.ev].key = k
       /\ f.pc \in {"add", "maps", "index"} \/ (f.pc = "next" /\ f.rest = {})

Removes(t, f) == IF t.ev \in Dels /\ f.pc \in {"queued", "jobs"} THEN Named(t.ev) ELSE f.rest

\* Why the cache has c under the key.
Explained(k, c) ==
    \/ c = Current(k)
    \/ \E t \in Tasks : ~Over(t) /\ t.ev \in Regs /\ Reg[t.ev].key = k
    \/ \E t \in Tasks : t.ev \in Dels /\ c \in Removes(t, task[t]) /\ ~Over(t) /\ stored[k] = None
    \/ \E t \in Tasks : t.ev \in Posts /\ c \in task[t].rest /\ stored[k] = c /\ c \in invalid

Settled(k) ==
    /\ index[k] = byKey[k] /\ byId \cap RegsOf(k) = {byKey[k]} \ {None}
    /\ k \notin stale => rows[k] = RowOf(byKey[k])
    /\ k \notin left => Explained(k, byKey[k])

\* The cache of the key while f is the frame of the task that has it in hand.
Handled(t, f, k) ==
    IF f.pc = "index" THEN /\ byKey[k] = t.ev /\ byId \cap RegsOf(k) = {t.ev}
                           /\ k \notin stale => rows[k] = RowOf(t.ev)
    ELSE /\ byKey[k] = None /\ byId \cap RegsOf(k) = {}
         /\ f.pc # "clear" => index[k] = None
         /\ k \notin stale => CASE f.pc = "clear" -> rows[k] = RowOf(index[k])
                                [] f.pc = "row" -> rows[k] \in {None, f.old}
                                [] f.pc = "maps" -> rows[k] = RowOf(t.ev)
                                [] OTHER -> rows[k] = None
         /\ k \notin left /\ t.ev \notin Regs => Current(k) = None
         /\ k \notin left /\ t.ev \in Posts /\ f.pc = "clear" => index[k] = stored[k]

Cached(k) ==
    /\ \A t, u \in Tasks : Hand(t, task[t], k) /\ Hand(u, task[u], k) => u = t
    /\ \A t \in Tasks : Hand(t, task[t], k) => Handled(t, task[t], k)
    /\ (\A t \in Tasks : ~Hand(t, task[t], k)) => Settled(k)

PushInv == Types /\ Filed /\ \A k \in Keys \ raced : Company(k) /\ Cached(k)

Calm(f) == f.todo = {} /\ f.out = {} /\ f.sent = 0 /\ f.total = 0 /\ f.bad = {} /\ f.rest = {}

LEMMA PushFacts ==
    /\ \A e \in Events : Task(e) \in Tasks /\ Task(e).ev = e /\ Task(e).pub = None
    /\ \A t \in Tasks : /\ t.ev \in Events /\ (t.pub # None => t.ev \in Posts)
                        /\ t.ev \notin Posts => t = Task(t.ev)
    /\ \A r \in Regs : Reg[r].key \in Keys /\ r # None /\ r # Topic
    /\ \A r \in Regs : r \notin Posts /\ r \notin Dels
    /\ \A d \in Dels : d \notin Posts /\ Named(d) \subseteq Regs
    /\ None # Topic
<1>1. \A e \in Events : Task(e) \in Tasks /\ Task(e).ev = e /\ Task(e).pub = None
  BY DEF Task, Tasks
<1>2. \A t \in Tasks : /\ t.ev \in Events /\ (t.pub # None => t.ev \in Posts)
                       /\ t.ev \notin Posts => t = Task(t.ev)
  BY DEF Task, Tasks, Events
<1>3. \A r \in Regs : Reg[r].key \in Keys
  BY DEF Keys
<1>4. \A r \in Regs : r # None /\ r # Topic
  BY PushAssumption DEF Events
<1>5. \A r \in Regs : r \notin Posts /\ r \notin Dels
  BY PushAssumption
<1>6. \A d \in Dels : d \notin Posts /\ Named(d) \subseteq Regs
  BY PushAssumption DEF Named
<1> QED BY <1>1, <1>2, <1>3, <1>4, <1>5, <1>6 DEF None, Topic

LEMMA Targeted == IsFiniteSet(Targets) /\ \A S \in SUBSET Targets : IsFiniteSet(S) /\ Cardinality(S) \in Nat
<1>1. IsFiniteSet(Regs)
  BY PushAssumption
<1>2. IsFiniteSet(Regs \cup {Topic})
  BY <1>1, FS_AddElement
<1>3. \A S \in SUBSET Targets : IsFiniteSet(S)
  BY <1>2, FS_Subset DEF Targets
<1> QED BY <1>2, <1>3, FS_CardinalityType DEF Targets

LEMMA CalmShape ==
    ASSUME NEW t \in Tasks, NEW f \in Frame, Calm(f), f.pc \in {"new", "queued", "jobs", "done"}
    PROVE  Shape(t, f)
<1>1. Cardinality({}) = 0
  BY FS_EmptySet
<1>2. f.sent + Cardinality(f.todo) + Cardinality(f.out) = f.total
  BY <1>1, SMTT(60) DEF Calm
<1> QED BY <1>2, PushFacts DEF Shape, Calm

LEMMA IdleFrames ==
    /\ Idle \in Frame /\ Calm(Idle) /\ Done \in Frame /\ Calm(Done) /\ Done.pc = "done"
    /\ \A n \in Nat : /\ [Idle EXCEPT !.pc = "queued", !.tries = n] \in Frame
                      /\ Calm([Idle EXCEPT !.pc = "queued", !.tries = n])
                      /\ [Idle EXCEPT !.pc = "done", !.tries = n] \in Frame
                      /\ Calm([Idle EXCEPT !.pc = "done", !.tries = n])
    /\ [Idle EXCEPT !.pc = "queued"] \in Frame /\ Calm([Idle EXCEPT !.pc = "queued"])
<1>1. Idle \in Frame /\ Calm(Idle)
  BY DEF Idle, Frame, PCs, Calm
<1>2. Done \in Frame /\ Calm(Done) /\ Done.pc = "done"
  BY DEF Done, Idle, Frame, PCs, Calm
<1>3. [Idle EXCEPT !.pc = "queued"] \in Frame /\ Calm([Idle EXCEPT !.pc = "queued"])
  BY DEF Idle, Frame, PCs, Calm
<1>4. ASSUME NEW n \in Nat
      PROVE  /\ [Idle EXCEPT !.pc = "queued", !.tries = n] \in Frame
             /\ Calm([Idle EXCEPT !.pc = "queued", !.tries = n])
             /\ [Idle EXCEPT !.pc = "done", !.tries = n] \in Frame
             /\ Calm([Idle EXCEPT !.pc = "done", !.tries = n])
  BY DEF Idle, Frame, PCs, Calm
<1> QED BY <1>1, <1>2, <1>3, <1>4, Zenon

\* What comes after the notifications has nothing in hand.
LEMMA AfterSendCalm ==
    ASSUME NEW t \in Tasks, NEW f \in Frame, Calm(f)
    PROVE  /\ AfterSend(t, f) \in Frame /\ Calm(AfterSend(t, f)) /\ Shape(t, AfterSend(t, f))
           /\ AfterSend(t, f).pc \in {"jobs", "queued", "done"}
           /\ t.pub = None => AfterSend(t, f).pc = "jobs"
<1>1. CASE t.pub = None
  <2>1. [f EXCEPT !.pc = "jobs"] \in Frame /\ Calm([f EXCEPT !.pc = "jobs"])
    BY DEF Frame, PCs, Calm
  <2>2. AfterSend(t, f) = [f EXCEPT !.pc = "jobs"] /\ [f EXCEPT !.pc = "jobs"].pc = "jobs"
    BY <1>1 DEF AfterSend, Frame
  <2> QED BY <2>1, <2>2, CalmShape
<1>2. CASE t.pub # None
  <2>1. f.tries + 1 \in Nat
    BY DEF Frame
  <2>2. AfterSend(t, f) \in {[Idle EXCEPT !.pc = "queued", !.tries = f.tries + 1], Done}
    BY <1>2 DEF AfterSend
  <2>3. [Idle EXCEPT !.pc = "queued", !.tries = f.tries + 1].pc = "queued"
    BY SMTT(60) DEF Idle
  <2>4. /\ AfterSend(t, f) \in Frame /\ Calm(AfterSend(t, f))
        /\ AfterSend(t, f).pc \in {"queued", "done"}
    BY <2>1, <2>2, <2>3, IdleFrames
  <2> QED BY <1>2, <2>4, CalmShape
<1> QED BY <1>1, <1>2

-----------------------------------------------------------------------------
(* What a step leaves alone.                                               *)

Asleep(f) == f.pc \in {"new", "done"}

\* The frame g that follows f in the task t is no news for those who share k.
Keeps(t, f, g, k) ==
    /\ Asleep(f) => Asleep(g) \/ k \notin Manages(t)
    /\ \A d \in HeldIn(g) : Reg[d].key = k =>
          d \in HeldIn(f) /\ (d \in g.rest \/ InRemoval(g, d) => d \in f.rest \/ InRemoval(f, d))

\* Nor for the cache of k.
Quiet(t, f, g, k) ==
    /\ Hand(t, g, k) <=> Hand(t, f, k)
    /\ Hand(t, f, k) => g.pc = f.pc /\ g.old = f.old
    /\ ~Hand(t, f, k) /\ ~Asleep(f) /\ t.ev \in Regs /\ Reg[t.ev].key = k => ~Asleep(g)
    /\ t.ev \in Dels => \A c \in Removes(t, f) : c = byKey[k] /\ Reg[c].key = k /\ ~Asleep(f) =>
                            c \in Removes(t, g) /\ ~Asleep(g)
    /\ t.ev \in Posts => \A c \in f.rest : c = byKey[k] /\ Reg[c].key = k => c \in g.rest

SameRight(k) ==
    /\ k \in left' \/ stored'[k] = stored[k]
    /\ \A r \in RegsOf(k) : r \in invalid' <=> r \in invalid
    /\ k \in left => k \in left'

SameCache(k) ==
    /\ byKey'[k] = byKey[k] /\ index'[k] = index[k] /\ rows'[k] = rows[k]
    /\ byId' \cap RegsOf(k) = byId \cap RegsOf(k)
    /\ k \in stale => k \in stale'

LEMMA HoldersAwake ==
    ASSUME Types, NEW t \in Tasks, NEW k, k \in Holds(t)
    PROVE  ~Over(t) /\ \E d \in HeldIn(task[t]) : Reg[d].key = k
<1>1. \E d \in HeldIn(task[t]) : Reg[d].key = k
  BY DEF Holds, HeldIn
<1>2. Shape(t, task[t])
  BY DEF Types
<1> QED BY <1>1, <1>2 DEF Over, HeldIn, Shape

LEMMA CompanyFrame ==
    ASSUME Types, Filed, Types', NEW k \in Keys, Company(k), SameRight(k),
           \A t \in Tasks : Keeps(t, task[t], task'[t], k)
    PROVE  Company(k)'
<1>0. \A t \in Tasks : ~Over(t)' /\ k \in Manages(t) => ~Over(t)
  BY DEF Keeps, Over, Asleep
<1>1. ASSUME NEW t \in Tasks, NEW u \in Tasks, ~Over(t)', ~Over(u)', k \in Manages(t), k \in Manages(u) \/ k \in Holds(u)'
      PROVE  u = t
  <2>1. ~Over(t)
    BY <1>0, <1>1
  <2>2. CASE k \in Manages(u)
    BY <1>0, <1>1, <2>1, <2>2 DEF Company
  <2>3. CASE k \in Holds(u)'
    <3>1. PICK d \in HeldIn(task'[u]) : Reg[d].key = k
      BY <2>3 DEF Holds, HeldIn
    <3>2. d \in HeldIn(task[u])
      BY <3>1 DEF Keeps
    <3>3. k \in Holds(u)
      BY <3>1, <3>2 DEF Holds, HeldIn
    <3> QED BY <1>1, <2>1, <3>3, HoldersAwake DEF Company
  <2> QED BY <1>1, <2>2, <2>3
<1>2. ASSUME k \notin left', NEW t \in Tasks, NEW d \in HeldIn(task'[t]), Reg[d].key = k
      PROVE  stored'[k] = d /\ (d \in task'[t].rest \/ InRemoval(task'[t], d) => d \in invalid')
  <2>1. d \in HeldIn(task[t]) /\ k \notin left
    BY <1>2 DEF Keeps, SameRight
  <2>2. d \in Regs
    BY <1>2 DEF HeldIn, Types, Frame, Targets
  <2>3. stored[k] = d /\ (d \in task[t].rest \/ InRemoval(task[t], d) => d \in invalid)
    BY <1>2, <2>1 DEF Company
  <2> QED BY <1>2, <2>2, <2>3 DEF SameRight, RegsOf, Keeps
<1>3. ASSUME NEW t \in Tasks, ~Over(t)', k \in Manages(t)
      PROVE  /\ t.ev \in Regs => t.ev \notin invalid' /\ (k \notin left' => stored'[k] = t.ev)
             /\ t.ev \in Dels => k \in left' \/ stored'[k] \notin Named(t.ev)
  <2>1. ~Over(t)
    BY <1>0, <1>3
  <2>2. /\ t.ev \in Regs => t.ev \notin invalid /\ (k \notin left => stored[k] = t.ev)
        /\ t.ev \in Dels => k \in left \/ stored[k] \notin Named(t.ev)
    BY <1>3, <2>1 DEF Company
  <2>3. t.ev \in Regs => t.ev \in RegsOf(k)
    BY <1>3 DEF Manages, RegsOf
  <2> QED BY <2>2, <2>3 DEF SameRight
<1> QED BY <1>1, <1>2, <1>3 DEF Company, Manages

LEMMA StoredOf ==
    ASSUME Types, Filed, NEW k \in Keys
    PROVE  /\ stored[k] # None => stored[k] \in RegsOf(k)
           /\ byKey[k] # None => byKey[k] \in RegsOf(k)
           /\ index[k] # None => index[k] \in RegsOf(k)
BY DEF Types, Filed, RegsOf

LEMMA CurrentFrame ==
    ASSUME Types, Types', Filed, NEW k \in Keys, SameRight(k), k \notin left'
    PROVE  (stored[k] \in invalid <=> stored'[k] \in invalid') /\ Current(k)' = Current(k)
<1>1. stored[k] = None => stored[k] \notin invalid /\ stored[k] \notin invalid'
  BY PushFacts DEF Types
<1>2. stored[k] \in invalid <=> stored'[k] \in invalid'
  BY <1>1, StoredOf DEF SameRight
<1> QED BY <1>2 DEF Current, SameRight

LEMMA CachedFrame ==
    ASSUME Types, Types', Filed, NEW k \in Keys, Cached(k), SameRight(k), SameCache(k),
           \A t \in Tasks : Quiet(t, task[t], task'[t], k)
    PROVE  Cached(k)'
<1>0. \A t \in Tasks : Hand(t, task'[t], k) <=> Hand(t, task[t], k)
  BY DEF Quiet
<1>1. \A t, u \in Tasks : Hand(t, task'[t], k) /\ Hand(u, task'[u], k) => u = t
  BY <1>0 DEF Cached
<1>2. ASSUME NEW t \in Tasks, Hand(t, task'[t], k)
      PROVE  Handled(t, task[t], k)'
  <2>1. Handled(t, task[t], k) /\ task'[t].pc = task[t].pc /\ task'[t].old = task[t].old
    BY <1>0, <1>2 DEF Cached, Quiet
  <2>2. k \notin left' => Current(k)' = Current(k)
    BY CurrentFrame
  <2> QED BY <2>1, <2>2 DEF Handled, SameRight, SameCache
<1>3. ASSUME \A t \in Tasks : ~Hand(t, task'[t], k)
      PROVE  Settled(k)'
  <2>0. Settled(k) /\ \A t \in Tasks : ~Hand(t, task[t], k)
    BY <1>0, <1>3 DEF Cached
  <2>1. ASSUME k \notin left' PROVE Explained(k, byKey[k])'
    <3>0. Current(k)' = Current(k) /\ byKey'[k] = byKey[k]
      BY <2>1, CurrentFrame DEF SameCache
    <3>1. CASE byKey[k] = Current(k)
      BY <3>0, <3>1 DEF Explained
    <3>2. ASSUME NEW t \in Tasks, ~Over(t), t.ev \in Regs, Reg[t.ev].key = k PROVE Explained(k, byKey[k])'
      <4>1. ~Over(t)'
        BY <2>0, <3>2 DEF Over, Quiet, Asleep
      <4> QED BY <3>2, <4>1 DEF Explained
    <3>3. ASSUME NEW t \in Tasks, t.ev \in Dels, byKey[k] \in Removes(t, task[t]), ~Over(t), stored[k] = None,
                 byKey[k] # Current(k)
          PROVE  Explained(k, byKey[k])'
      <4>1. byKey[k] # None
        BY <3>3, PushFacts DEF Current, Types
      <4>2. Reg[byKey[k]].key = k
        BY <4>1 DEF Filed
      <4>3. byKey[k] \in Removes(t, task'[t]) /\ ~Over(t)'
        BY <3>3, <4>2 DEF Quiet, Over, Asleep
      <4> QED BY <2>1, <3>0, <3>3, <4>3 DEF Explained, SameRight
    <3>4. ASSUME NEW t \in Tasks, t.ev \in Posts, byKey[k] \in task[t].rest, stored[k] = byKey[k], byKey[k] \in invalid
          PROVE  Explained(k, byKey[k])'
      <4>1. byKey[k] # None
        BY <3>4, PushFacts DEF Types
      <4>2. Reg[byKey[k]].key = k /\ byKey[k] \in RegsOf(k)
        BY <4>1, StoredOf DEF Filed
      <4>3. byKey[k] \in task'[t].rest /\ byKey[k] \in invalid'
        BY <3>4, <4>2 DEF Quiet, SameRight
      <4> QED BY <2>1, <3>0, <3>4, <4>3 DEF Explained, SameRight
    <3>5. Explained(k, byKey[k])
      BY <2>0, <2>1 DEF Settled, SameRight
    <3> QED BY <3>1, <3>2, <3>3, <3>4, <3>5 DEF Explained
  <2> QED BY <2>0, <2>1 DEF Settled, SameRight, SameCache
<1> QED BY <1>1, <1>2, <1>3 DEF Cached

\* A step of one task, from task[t] to g.
Turn(t, g) == Set(t, g) /\ g \in Frame /\ Shape(t, g) /\ g.pc # "new"

LEMMA OneTask ==
    ASSUME Types, NEW t \in Tasks, NEW g, Turn(t, g)
    PROVE  /\ task'[t] = g /\ \A u \in Tasks : u # t => task'[u] = task[u]
           /\ task' \in [Tasks -> Frame] /\ \A u \in Tasks : Shape(u, task'[u])
           /\ \A u \in Tasks : task[u].pc # "new" => task'[u].pc # "new"
           /\ task[t] \in Frame /\ Shape(t, task[t])
<1>1. task \in [Tasks -> Frame] /\ \A u \in Tasks : Shape(u, task[u])
  BY DEF Types
<1>2. task'[t] = g /\ \A u \in Tasks : u # t => task'[u] = task[u]
  BY <1>1 DEF Turn, Set
<1>3. task' \in [Tasks -> Frame]
  BY <1>1 DEF Turn, Set
<1> QED BY <1>1, <1>2, <1>3 DEF Turn

LEMMA OneKeeps ==
    ASSUME Types, NEW t \in Tasks, NEW g, Turn(t, g), NEW k
    PROVE  /\ Keeps(t, task[t], g, k) => \A u \in Tasks : Keeps(u, task[u], task'[u], k)
           /\ Quiet(t, task[t], g, k) => \A u \in Tasks : Quiet(u, task[u], task'[u], k)
<1>1. \A u \in Tasks : u # t => Keeps(u, task[u], task'[u], k)
  BY OneTask DEF Keeps
<1>2. \A u \in Tasks : u # t => Quiet(u, task[u], task'[u], k)
  BY OneTask DEF Quiet
<1> QED BY <1>1, <1>2, OneTask

Typical == remotes' \subseteq Posts /\ jobs' \subseteq [type : {"relays", "users", "cast"}, ev : Posts]

\* A step that changes nothing that is stored or cached.
LEMMA QuietStep ==
    ASSUME PushInv, NEW t \in Tasks, NEW g, Turn(t, g), Typical,
           UNCHANGED <<stored, invalid, rows, byId, byKey, index, left, stale>>,
           raced \subseteq raced', raced' \subseteq Keys
    PROVE  /\ Types' /\ Filed'
           /\ \A k \in Keys \ raced' : /\ Keeps(t, task[t], g, k) => Company(k)'
                                       /\ Quiet(t, task[t], g, k) => Cached(k)'
<1>0. Types /\ Filed /\ \A k \in Keys \ raced : Company(k) /\ Cached(k)
  BY DEF PushInv
<1>1. Types'
  BY <1>0, OneTask DEF Types, Typical
<1>2. Filed'
  <2>1. \A e \in Events : Task(e) \in Tasks
    BY PushFacts
  <2>2. \A k \in Keys : stored[k] # None => stored[k] \in Events
    BY <1>0 DEF Types, Events
  <2>3. \A r \in invalid : r \in Events
    BY <1>0 DEF Types, Events
  <2>4. \A e \in Events : task[Task(e)].pc # "new" => task'[Task(e)].pc # "new"
    BY <1>0, <2>1, OneTask
  <2> QED BY <1>0, <2>2, <2>3, <2>4 DEF Filed, Task
<1>3. ASSUME NEW k \in Keys \ raced'
      PROVE  /\ Keeps(t, task[t], g, k) => Company(k)'
             /\ Quiet(t, task[t], g, k) => Cached(k)'
  <2>1. k \in Keys \ raced /\ SameRight(k) /\ SameCache(k)
    BY DEF SameRight, SameCache
  <2>2. Company(k) /\ Cached(k)
    BY <1>0, <2>1
  <2>3. Keeps(t, task[t], g, k) => Company(k)'
    BY <1>0, <1>1, <2>1, <2>2, OneKeeps, CompanyFrame
  <2>4. Quiet(t, task[t], g, k) => Cached(k)'
    BY <1>0, <1>1, <2>1, <2>2, OneKeeps, CachedFrame
  <2> QED BY <2>3, <2>4
<1> QED BY <1>1, <1>2, <1>3

\* A frame without anything in hand, of a task that goes on or had nothing to do
\* with the cache, is quiet.
LEMMA CalmQuiet ==
    ASSUME NEW t \in Tasks, NEW f, NEW g, Shape(t, f), Shape(t, g), NEW k, f.rest = {}, g.rest = {},
           f.pc \in {"new", "queued", "send", "mark", "jobs"}, g.pc \in {"queued", "send", "mark", "jobs", "done"},
           t.ev \in Posts \/ (f.pc \in {"queued", "jobs"} /\ g.pc \in {"queued", "jobs"})
    PROVE  Quiet(t, f, g, k)
<1>1. ~Hand(t, f, k) /\ ~Hand(t, g, k)
  BY DEF Hand
<1>2. CASE t.ev \in Posts
  BY <1>1, <1>2, PushFacts DEF Quiet
<1>3. CASE f.pc \in {"queued", "jobs"} /\ g.pc \in {"queued", "jobs"}
  BY <1>1, <1>3 DEF Quiet, Asleep, Removes
<1> QED BY <1>2, <1>3

\* Nothing more is held.
LEMMA FewerKept ==
    ASSUME NEW t, NEW f, NEW g, NEW k, ~Asleep(f), HeldIn(g) \subseteq HeldIn(f), g.rest = {},
           g.pc \notin {"clear", "row"}
    PROVE  Keeps(t, f, g, k)
BY DEF Keeps, InRemoval

-----------------------------------------------------------------------------
(* The steps of a task before it removes or adds anything.                 *)

\* Devices are notified out of the index.
LEMMA NotifiedAreIndexed ==
    ASSUME NEW p, NEW d \in collectNotifications(p), d # Topic
    PROVE  \E k \in Keys : index[k] = d /\ d # None
<1>1. d \in Lookup(p)
  <2>1. ASSUME NEW user, d \in collectLocalDevices(user, p) PROVE d \in Lookup(p)
    BY <2>1 DEF collectLocalDevices, collectUserDevices
  <2>2. CASE Post[p].kind = "system"
    BY <2>2 DEF collectNotifications, handleSystemEvent
  <2>3. CASE d \in Others(p)
    BY <2>1, <2>3 DEF Others
  <2>4. CASE \E user : d \in collectLocalDevices(user, p)
    BY <2>1, <2>4
  <2>5. d \in handleQuoteEvent(p) => \E user : d \in collectLocalDevices(user, p)
    BY DEF handleQuoteEvent
  <2>6. Post[p].kind # "system" => d \in processEvent(p)
    BY DEF collectNotifications
  <2>7. d \in processEvent(p) => \/ d \in handleNewPostEvent(p) \/ d \in handleEventWithPublicKey(p)
                                 \/ d \in handleCommunityMessageEvent(p) \/ d \in handleMentionReplyEvent(p)
                                 \/ d \in handleQuoteEvent(p) \/ d \in handleNewFollowerEvent(p)
                                 \/ d \in handleAnonymousFundSendEvent(p) \/ d \in handleGiftWrapEvent(p)
                                 \/ d \in handleTokenizedCommunityEvent(p) \/ d \in handleNewDVMEvent(p)
    BY DEF processEvent
  <2>8. \/ d \in handleNewPostEvent(p) \/ d \in handleTokenizedCommunityEvent(p) \/ d \in handleNewDVMEvent(p)
        => d \in collectLocalDevices(None, p)
    BY DEF handleNewPostEvent, handleTokenizedCommunityEvent, handleNewDVMEvent
  <2>9. \/ d \in handleEventWithPublicKey(p) \/ d \in handleCommunityMessageEvent(p)
        \/ d \in handleMentionReplyEvent(p) \/ d \in handleNewFollowerEvent(p)
        \/ d \in handleAnonymousFundSendEvent(p) \/ d \in handleGiftWrapEvent(p)
        => d \in Others(p)
    BY DEF handleEventWithPublicKey, handleCommunityMessageEvent, handleMentionReplyEvent, handleNewFollowerEvent,
           handleAnonymousFundSendEvent, handleGiftWrapEvent
  <2> QED BY <2>2, <2>3, <2>4, <2>5, <2>6, <2>7, <2>8, <2>9
<1> QED BY <1>1 DEF Lookup

LEMMA PushBroadcast ==
    ASSUME PushInv, NEW t \in Tasks, AcceptEventsFromBroadcast(t)
    PROVE  PushInv'
<1>0. Types /\ task[t].pc = "queued" /\ t.ev \in Posts /\ Shape(t, task[t])
  BY SMTT(60) DEF PushInv, AcceptEventsFromBroadcast, MayStart, FromBroadcast, Types
<1>1. Turn(t, Done)
  BY IdleFrames, CalmShape DEF Turn, AcceptEventsFromBroadcast
<1>2. Typical /\ UNCHANGED <<stored, invalid, rows, byId, byKey, index, left, stale>> /\ UNCHANGED raced /\ raced \subseteq Keys
  BY <1>0 DEF AcceptEventsFromBroadcast, cache, ghosts, Typical, Types, Job
<1>3. /\ Types' /\ Filed'
      /\ \A k \in Keys \ raced' : /\ Keeps(t, task[t], Done, k) => Company(k)'
                                  /\ Quiet(t, task[t], Done, k) => Cached(k)'
  BY <1>1, <1>2, QuietStep
<1>4. ASSUME NEW k PROVE Keeps(t, task[t], Done, k) /\ Quiet(t, task[t], Done, k)
  <2>1. HeldIn(Done) = {} /\ Done.rest = {} /\ Done.pc = "done" /\ Shape(t, Done) /\ task[t].rest = {}
    BY <1>0, <1>1, IdleFrames, ZenonT(60) DEF Calm, HeldIn, Shape, Turn
  <2>2. Keeps(t, task[t], Done, k)
    BY <1>0, <2>1, FewerKept DEF Asleep
  <2> QED BY <1>0, <2>1, <2>2, CalmQuiet, SMTT(60)
<1> QED BY <1>3, <1>4 DEF PushInv

\* An empty-handed start, or one that fails.
LEMMA PushAcceptNothing ==
    ASSUME PushInv, NEW t \in Tasks, NEW e \in BOOLEAN, task[t].pc = "queued",
           Set(t, AfterSend(t, [task[t] EXCEPT !.err = e])),
           UNCHANGED <<stored, invalid, rows, byId, byKey, index, remotes, jobs, raced, left, stale>>
    PROVE  PushInv'
<1> DEFINE g == AfterSend(t, [task[t] EXCEPT !.err = e])
<1>0. Types /\ Shape(t, task[t]) /\ task[t] \in Frame /\ raced \subseteq Keys /\ task[t].rest = {}
  BY DEF PushInv, Types, Shape
<1>1. [task[t] EXCEPT !.err = e] \in Frame /\ Calm([task[t] EXCEPT !.err = e])
  BY <1>0 DEF Frame, Calm, Shape
<1>2. /\ g \in Frame /\ Calm(g) /\ Shape(t, g) /\ g.pc \in {"jobs", "queued", "done"}
      /\ t.ev \notin Posts => g.pc = "jobs"
  BY <1>1, AfterSendCalm, PushFacts
<1>3. Set(t, g)
  OBVIOUS
<1> HIDE DEF g
<1>4. Turn(t, g)
  BY <1>2, <1>3 DEF Turn
<1>5. Typical
  BY <1>0 DEF Typical, Types
<1>6. /\ Types' /\ Filed'
      /\ \A k \in Keys \ raced' : /\ Keeps(t, task[t], g, k) => Company(k)'
                                  /\ Quiet(t, task[t], g, k) => Cached(k)'
  BY <1>0, <1>4, <1>5, QuietStep
<1>7. ASSUME NEW k PROVE Keeps(t, task[t], g, k) /\ Quiet(t, task[t], g, k)
  <2>1. Keeps(t, task[t], g, k)
    BY <1>2, FewerKept DEF Asleep, Calm, HeldIn
  <2>2. g.rest = {} /\ (t.ev \in Posts \/ g.pc \in {"queued", "jobs"})
    BY <1>2 DEF Calm
  <2> QED BY <1>0, <1>2, <2>1, <2>2, CalmQuiet
<1> QED BY <1>6, <1>7 DEF PushInv

\* The device in the index is the stored one while nobody manages its key.
LEMMA IndexIsStored ==
    ASSUME PushInv, NEW k \in Keys \ raced, k \notin Changing, k \notin left, index[k] # None
    PROVE  stored[k] = index[k]
<1>0. Types /\ Filed /\ Company(k) /\ Cached(k) /\ k \in Keys
  BY DEF PushInv
<1>1. \A t \in Tasks : ~Over(t) => k \notin Manages(t)
  BY DEF Changing
<1>2. CASE \A t \in Tasks : ~Hand(t, task[t], k)
  <2>1. index[k] = byKey[k] /\ Explained(k, byKey[k])
    BY <1>0, <1>2 DEF Cached, Settled
  <2>2. ASSUME NEW t \in Tasks, ~Over(t), t.ev \in Regs, Reg[t.ev].key = k PROVE FALSE
    BY <1>1, <2>2 DEF Manages
  <2>3. ASSUME NEW t \in Tasks, t.ev \in Dels, byKey[k] \in Removes(t, task[t]), ~Over(t) PROVE FALSE
    <3>1. byKey[k] \in Named(t.ev)
      BY <1>0, <2>3 DEF Removes, Types, Shape
    <3>2. Reg[byKey[k]].key = k
      BY <1>0, <2>1 DEF Filed
    <3>3. k \in Manages(t)
      BY <2>3, <3>1, <3>2, PushFacts DEF Manages
    <3> QED BY <1>1, <2>3, <3>3
  <2>4. byKey[k] = Current(k) => stored[k] = index[k]
    BY <2>1 DEF Current
  <2> QED BY <2>1, <2>2, <2>3, <2>4 DEF Explained
<1>3. ASSUME NEW t \in Tasks, Hand(t, task[t], k) PROVE stored[k] = index[k]
  <2>1. Handled(t, task[t], k) /\ Shape(t, task[t]) /\ task[t] \in Frame
    BY <1>0, <1>3 DEF Cached, Types
  <2>2. ~Over(t)
    BY <1>3 DEF Hand, Over
  <2>3. t.ev \notin Regs \/ Reg[t.ev].key # k
    BY <1>1, <2>2 DEF Manages
  <2>4. task[t].pc \in {"clear", "row"} /\ Reg[task[t].arg].key = k
    BY <1>3, <2>3 DEF Hand
  <2>5. t.ev \notin Dels
    <3> SUFFICES ASSUME t.ev \in Dels PROVE FALSE
      OBVIOUS
    <3>1. task[t].arg \in Named(t.ev)
      BY <2>1, <2>4 DEF Shape
    <3>2. k \in Manages(t)
      BY <2>4, <3>1, PushFacts DEF Manages
    <3> QED BY <1>1, <2>2, <3>2
  <2>6. t.ev \in Posts
    <3>1. t.ev \in Regs => task[t].arg = t.ev
      BY <2>1, <2>4 DEF Shape
    <3> QED BY <2>3, <2>4, <2>5, <3>1, PushFacts DEF Events
  <2> QED BY <2>1, <2>4, <2>6 DEF Handled
<1> QED BY <1>2, <1>3

LEMMA PushAcceptFound ==
    ASSUME PushInv, NEW t \in Tasks, task[t].pc = "queued", t.ev \in Posts,
           NEW found, found \subseteq collectNotifications(t.ev),
           Set(t, [task[t] EXCEPT !.pc = "send", !.todo = found, !.total = Cardinality(found)]),
           raced' = raced \cup ({Reg[d].key : d \in found \ {Topic}} \cap Changing),
           UNCHANGED <<stored, invalid, rows, byId, byKey, index, remotes, jobs, left, stale>>
    PROVE  PushInv'
<1> DEFINE g == [task[t] EXCEPT !.pc = "send", !.todo = found, !.total = Cardinality(found)]
<1>0. /\ Types /\ Filed /\ Shape(t, task[t]) /\ task[t] \in Frame /\ raced \subseteq Keys /\ task[t].rest = {}
      /\ Calm(task[t])
  BY DEF PushInv, Types, Shape, Calm
<1>1. \A d \in found \ {Topic} : d \in Regs /\ Reg[d].key \in Keys /\ index[Reg[d].key] = d
  BY <1>0, NotifiedAreIndexed, PushFacts DEF Types, Filed
<1>2. found \subseteq Targets /\ Cardinality(found) \in Nat
  BY <1>1, Targeted DEF Targets
<1>3. /\ g \in Frame /\ g.pc = "send" /\ g.todo = found /\ g.total = Cardinality(found)
      /\ g.out = {} /\ g.sent = 0 /\ g.bad = {} /\ g.rest = {}
  BY <1>0, <1>2 DEF Frame, PCs, Calm
<1>4. Shape(t, g)
  <2>1. g.sent + Cardinality(g.todo) + Cardinality(g.out) = g.total
    <3> HIDE DEF g
    <3>1. Cardinality({}) = 0
      BY FS_EmptySet
    <3> QED BY <1>2, <1>3, <3>1
  <2> QED BY <1>3, <2>1, PushFacts DEF Shape
<1>5. Set(t, g)
  OBVIOUS
<1> HIDE DEF g
<1>6. Turn(t, g)
  BY <1>3, <1>4, <1>5 DEF Turn
<1>7. Typical /\ raced \subseteq raced' /\ raced' \subseteq Keys
  BY <1>0, <1>1 DEF Typical, Types
<1>8. /\ Types' /\ Filed'
      /\ \A k \in Keys \ raced' : /\ Keeps(t, task[t], g, k) => Company(k)'
                                  /\ Quiet(t, task[t], g, k) => Cached(k)'
  BY <1>6, <1>7, QuietStep
<1>9. ASSUME NEW k PROVE Quiet(t, task[t], g, k)
  BY <1>0, <1>3, <1>4, CalmQuiet
<1>10. ASSUME NEW k \in Keys \ raced' PROVE Company(k)'
  <2>0. Company(k) /\ k \in Keys \ raced
    BY <1>7 DEF PushInv
  <2>1. CASE k \notin {Reg[d].key : d \in found \ {Topic}}
    <3>1. Keeps(t, task[t], g, k)
      BY <1>3, <2>1 DEF Keeps, Asleep, HeldIn
    <3> QED BY <1>8, <3>1
  <2>2. CASE k \in {Reg[d].key : d \in found \ {Topic}}
    <3>1. k \notin Changing
      BY <2>2
    <3>2. \A u \in Tasks : ~Over(u) => k \notin Manages(u)
      BY <3>1 DEF Changing
    <3>3. \A u \in Tasks : ~Over(u)' => k \notin Manages(u)
      <4>1. k \notin Manages(t)
        BY PushFacts DEF Manages
      <4> QED BY <1>0, <1>6, <3>2, <4>1, OneTask DEF Over
    <3>4. ASSUME k \notin left, NEW u \in Tasks, NEW d \in HeldIn(task'[u]), Reg[d].key = k
          PROVE  stored[k] = d /\ (d \in task'[u].rest \/ InRemoval(task'[u], d) => d \in invalid)
      <4>1. CASE u # t
        <5>1. task'[u] = task[u]
          BY <1>0, <1>6, <4>1, OneTask
        <5> QED BY <2>0, <3>4, <5>1 DEF Company
      <4>2. CASE u = t
        <5>1. task'[u] = g
          BY <1>0, <1>6, <4>2, OneTask
        <5>2. d \in found \ {Topic}
          BY <1>3, <3>4, <5>1 DEF HeldIn
        <5>3. index[k] = d /\ d # None
          BY <1>1, <3>4, <5>2, PushFacts
        <5>4. stored[k] = d
          BY <2>0, <3>1, <3>4, <5>3, IndexIsStored
        <5> QED BY <1>3, <5>1, <5>4 DEF InRemoval
      <4> QED BY <4>1, <4>2
    <3> QED BY <3>3, <3>4 DEF Company, Manages
  <2> QED BY <2>1, <2>2
<1> QED BY <1>8, <1>9, <1>10 DEF PushInv

LEMMA PushAccept ==
    ASSUME PushInv, NEW t \in Tasks, AcceptEvents(t)
    PROVE  PushInv'
<1> DEFINE found == IF t.ev \notin Posts THEN {}
                    ELSE IF t.pub = None THEN collectNotifications(t.ev)
                    ELSE {d \in collectNotifications(t.ev) : d # Topic /\ Reg[d].pub = t.pub}
<1>0. /\ task[t].pc = "queued" /\ task[t] \in Frame
      /\ UNCHANGED <<stored, invalid, rows, byId, byKey, index, remotes, jobs, left, stale>>
  BY DEF PushInv, Types, AcceptEvents, MayStart, cache
<1>1. CASE /\ found # {}
           /\ Set(t, [task[t] EXCEPT !.pc = "send", !.todo = found, !.total = Cardinality(found)])
           /\ raced' = raced \cup ({Reg[d].key : d \in found \ {Topic}} \cap Changing)
  <2>1. t.ev \in Posts /\ found \subseteq collectNotifications(t.ev)
    BY <1>1
  <2> HIDE DEF found
  <2> QED BY <1>0, <1>1, <2>1, PushAcceptFound
<1>2. CASE /\ found = {} /\ Set(t, AfterSend(t, task[t]))
           /\ raced' = raced \cup ({Reg[d].key : d \in found \ {Topic}} \cap Changing)
  <2> HIDE DEF found
  <2>1. raced' = raced /\ task[t].err \in BOOLEAN /\ task[t] = [task[t] EXCEPT !.err = task[t].err]
    BY <1>0, <1>2 DEF Frame
  <2> QED BY <1>0, <1>2, <2>1, PushAcceptNothing
<1>3. CASE Set(t, AfterSend(t, [task[t] EXCEPT !.err = TRUE])) /\ UNCHANGED raced
  BY <1>0, <1>3, PushAcceptNothing
<1> QED BY <1>1, <1>2, <1>3 DEF AcceptEvents

LEMMA PushSubmit ==
    ASSUME PushInv, NEW t \in Tasks, NEW d, SubmitSend(t, d)
    PROVE  PushInv'
<1> DEFINE f == task[t]
           g == [f EXCEPT !.todo = @ \ {d}, !.out = @ \cup {d}]
<1>0. /\ Types /\ Shape(t, f) /\ f \in Frame /\ raced \subseteq Keys /\ f.rest = {} /\ f.pc = "send" /\ t.ev \in Posts
      /\ d \in f.todo /\ f.todo \subseteq Targets /\ f.out \subseteq Targets /\ Typical
      /\ UNCHANGED <<stored, invalid, rows, byId, byKey, index, left, stale>> /\ UNCHANGED raced
  BY DEF PushInv, Types, Shape, SubmitSend, Frame, cache, ghosts, Typical
<1>1. Set(t, g)
  BY DEF SubmitSend
<1>2. /\ g \in Frame /\ g.pc = "send" /\ g.todo = f.todo \ {d} /\ g.out = f.out \cup {d}
      /\ g.sent = f.sent /\ g.total = f.total /\ g.bad = f.bad /\ g.rest = {}
  BY <1>0 DEF Frame
<1>3. Shape(t, g)
  <2>0. d \notin f.out
    BY <1>0 DEF Shape
  <2>1. Cardinality(f.todo \ {d}) = Cardinality(f.todo) - 1 /\ Cardinality(f.out \cup {d}) = Cardinality(f.out) + 1
    <3>1. IsFiniteSet(f.todo) /\ IsFiniteSet(f.out)
      BY <1>0, Targeted
    <3>2. Cardinality(f.todo \ {d}) = Cardinality(f.todo) - 1
      BY <1>0, <3>1, FS_RemoveElement
    <3> QED BY <2>0, <3>1, <3>2, FS_AddElement
  <2>2. Cardinality(f.todo) \in Nat /\ Cardinality(f.out) \in Nat /\ f.sent \in Nat
    BY <1>0, Targeted DEF Frame
  <2>3. f.sent + Cardinality(f.todo) + Cardinality(f.out) = f.total /\ f.todo \cap f.out = {}
    BY <1>0 DEF Shape
  <2> HIDE DEF f, g
  <2>4. g.sent + Cardinality(g.todo) + Cardinality(g.out) = g.total
    BY <1>2, <2>1, <2>2, <2>3
  <2>5. g.todo \cap g.out = {}
    BY <1>2, <2>3
  <2> QED BY <1>0, <1>2, <2>4, <2>5, PushFacts DEF Shape
<1>4. Turn(t, g)
  BY <1>1, <1>2, <1>3 DEF Turn
<1>5. ASSUME NEW k PROVE Keeps(t, f, g, k) /\ Quiet(t, f, g, k)
  <2> HIDE DEF f, g
  <2>1. Keeps(t, f, g, k)
    BY <1>0, <1>2, FewerKept DEF Asleep, HeldIn
  <2> QED BY <1>0, <1>2, <1>3, <2>1, CalmQuiet
<1> HIDE DEF g
<1>6. /\ Types' /\ Filed'
      /\ \A k \in Keys \ raced' : /\ Keeps(t, task[t], g, k) => Company(k)'
                                  /\ Quiet(t, task[t], g, k) => Cached(k)'
  BY <1>0, <1>4, QuietStep
<1> QED BY <1>5, <1>6 DEF PushInv

LEMMA PushSendEnd ==
    ASSUME PushInv, NEW t \in Tasks, NEW d, NEW result, SendEnd(t, d, result)
    PROVE  PushInv'
<1> DEFINE f == task[t]
           g == [f EXCEPT !.out = @ \ {d}, !.sent = @ + 1, !.bad = IF result = "invalid" THEN @ \cup {d} ELSE @,
                          !.err = @ \/ result = "error"]
<1>0. /\ Types /\ Shape(t, f) /\ f \in Frame /\ raced \subseteq Keys /\ f.rest = {} /\ f.pc = "send" /\ t.ev \in Posts
      /\ d \in f.out /\ f.todo \subseteq Targets /\ f.out \subseteq Targets /\ Typical
      /\ (result = "invalid" => d \in Regs)
      /\ UNCHANGED <<stored, invalid, rows, byId, byKey, index, left, stale>> /\ UNCHANGED raced
  BY DEF PushInv, Types, Shape, SendEnd, Frame, Targets, cache, ghosts, Typical
<1>1. Set(t, g)
  BY DEF SendEnd
<1>2. /\ g \in Frame /\ g.pc = "send" /\ g.todo = f.todo /\ g.out = f.out \ {d}
      /\ g.sent = f.sent + 1 /\ g.total = f.total /\ g.bad \subseteq f.bad \cup {d} /\ g.rest = {}
  <2> DEFINE e == f.err \/ result = "error"
  <2>1. e \in BOOLEAN
    BY Zenon
  <2>2. f.sent + 1 \in Nat
    BY <1>0 DEF Frame
  <2> HIDE DEF e
  <2>3. g = [f EXCEPT !.out = @ \ {d}, !.sent = @ + 1, !.bad = IF result = "invalid" THEN @ \cup {d} ELSE @, !.err = e]
    BY Zenon DEF e
  <2> HIDE DEF g
  <2> QED BY <1>0, <2>1, <2>2, <2>3 DEF Frame
<1>3. Shape(t, g)
  <2>1. Cardinality(f.out \ {d}) = Cardinality(f.out) - 1
    BY <1>0, Targeted, FS_RemoveElement
  <2>2. Cardinality(f.todo) \in Nat /\ Cardinality(f.out) \in Nat /\ f.sent \in Nat
    BY <1>0, Targeted DEF Frame
  <2>3. f.sent + Cardinality(f.todo) + Cardinality(f.out) = f.total /\ f.todo \cap f.out = {}
    BY <1>0 DEF Shape
  <2> HIDE DEF f, g
  <2>4. g.sent + Cardinality(g.todo) + Cardinality(g.out) = g.total
    BY <1>2, <2>1, <2>2, <2>3
  <2>5. g.todo \cap g.out = {}
    BY <1>2, <2>3
  <2> QED BY <1>0, <1>2, <2>4, <2>5, PushFacts DEF Shape
<1>4. Turn(t, g)
  BY <1>1, <1>2, <1>3 DEF Turn
<1>5. ASSUME NEW k PROVE Keeps(t, f, g, k) /\ Quiet(t, f, g, k)
  <2> HIDE DEF f, g
  <2>1. Keeps(t, f, g, k)
    BY <1>0, <1>2, FewerKept DEF Asleep, HeldIn
  <2> QED BY <1>0, <1>2, <1>3, <2>1, CalmQuiet
<1> HIDE DEF g
<1>6. /\ Types' /\ Filed'
      /\ \A k \in Keys \ raced' : /\ Keeps(t, task[t], g, k) => Company(k)'
                                  /\ Quiet(t, task[t], g, k) => Cached(k)'
  BY <1>0, <1>4, QuietStep
<1> QED BY <1>5, <1>6 DEF PushInv

LEMMA PushCollect ==
    ASSUME PushInv, NEW t \in Tasks, collectErrors(t)
    PROVE  PushInv'
<1> DEFINE f == task[t]
           h == [f EXCEPT !.sent = 0, !.total = 0]
           g == IF f.bad = {} THEN AfterSend(t, h) ELSE [f EXCEPT !.pc = "mark", !.sent = 0, !.total = 0]
<1>0. /\ Types /\ Shape(t, f) /\ f \in Frame /\ raced \subseteq Keys /\ f.rest = {} /\ f.pc = "send" /\ t.ev \in Posts
      /\ f.todo = {} /\ f.out = {} /\ Typical
      /\ UNCHANGED <<stored, invalid, rows, byId, byKey, index, left, stale>> /\ UNCHANGED raced
  BY DEF PushInv, Types, Shape, collectErrors, cache, ghosts, Typical
<1>1. Set(t, g)
  BY DEF collectErrors
<1>2. g \in Frame /\ Shape(t, g) /\ g.pc \in {"jobs", "queued", "done", "mark"} /\ g.rest = {} /\ HeldIn(g) \subseteq HeldIn(f)
  <2>1. CASE f.bad = {}
    <3>1. h \in Frame /\ Calm(h) /\ g = AfterSend(t, h)
      BY <1>0, <2>1 DEF Frame, Calm
    <3> HIDE DEF g, h
    <3>2. g \in Frame /\ Shape(t, g) /\ g.pc \in {"jobs", "queued", "done"} /\ Calm(g)
      BY <3>1, AfterSendCalm
    <3> QED BY <3>2 DEF Calm, HeldIn
  <2>2. CASE f.bad # {}
    <3>1. /\ g \in Frame /\ g.pc = "mark" /\ g.todo = {} /\ g.out = {} /\ g.sent = 0 /\ g.total = 0
          /\ g.bad = f.bad /\ g.rest = {}
      BY <1>0, <2>2 DEF Frame, PCs
    <3> HIDE DEF g, h
    <3>2. Cardinality({}) = 0
      BY FS_EmptySet
    <3>3. g.sent + Cardinality(g.todo) + Cardinality(g.out) = g.total
      BY <3>1, <3>2
    <3> QED BY <1>0, <3>1, <3>3, PushFacts DEF Shape, HeldIn
  <2> QED BY <2>1, <2>2
<1> HIDE DEF g, h
<1>3. Turn(t, g)
  BY <1>1, <1>2 DEF Turn
<1>4. ASSUME NEW k PROVE Keeps(t, f, g, k) /\ Quiet(t, f, g, k)
  <2> HIDE DEF f
  <2>1. Keeps(t, f, g, k)
    BY <1>0, <1>2, FewerKept DEF Asleep
  <2> QED BY <1>0, <1>2, <2>1, CalmQuiet
<1>5. /\ Types' /\ Filed'
      /\ \A k \in Keys \ raced' : /\ Keeps(t, task[t], g, k) => Company(k)'
                                  /\ Quiet(t, task[t], g, k) => Cached(k)'
  BY <1>0, <1>3, QuietStep
<1> QED BY <1>4, <1>5 DEF PushInv

LEMMA PushElsewhere ==
    ASSUME PushInv, NEW t \in Tasks, AcceptEventsElsewhere(t)
    PROVE  PushInv'
<1> DEFINE f == task[t]
           gone == IF t.ev \in Regs THEN {t.ev} ELSE Named(t.ev)
           g == IF Manages(t) = {} THEN Done ELSE [f EXCEPT !.pc = "next", !.rest = gone]
<1>0. /\ Types /\ Shape(t, f) /\ f \in Frame /\ raced \subseteq Keys /\ f.pc = "jobs" /\ Calm(f)
      /\ UNCHANGED <<stored, invalid, rows, byId, byKey, index, left, stale>> /\ UNCHANGED raced
  BY DEF PushInv, Types, Shape, AcceptEventsElsewhere, cache, ghosts, Calm
<1>1. Typical
  BY <1>0 DEF AcceptEventsElsewhere, Typical, Types, Job
<1>2. Set(t, g)
  BY DEF AcceptEventsElsewhere
<1>3. CASE Manages(t) = {}
  <2>1. g = Done
    BY <1>3, SMTT(60)
  <2> HIDE DEF g, f
  <2>2. g \in Frame /\ Calm(g) /\ g.pc = "done" /\ Shape(t, g)
    BY <2>1, IdleFrames, CalmShape
  <2>3. ASSUME NEW k PROVE Keeps(t, f, g, k) /\ Quiet(t, f, g, k)
    <3>1. Keeps(t, f, g, k)
      BY <1>0, <2>2, FewerKept DEF Calm, Asleep, HeldIn
    <3>2. ~Hand(t, f, k) /\ ~Hand(t, g, k) /\ f.rest = {}
      BY <1>0, <2>2 DEF Hand, Calm
    <3>3. t.ev \notin Regs /\ (t.ev \in Dels => Named(t.ev) = {})
      <4>1. t.ev \notin Regs
        BY <1>3 DEF Manages
      <4>2. t.ev \in Dels => {Reg[r].key : r \in Named(t.ev)} = {}
        BY <1>3, <4>1 DEF Manages
      <4> QED BY <4>1, <4>2
    <3>4. t.ev \in Dels => Removes(t, f) = {}
      BY <3>2, <3>3 DEF Removes
    <3>5. Quiet(t, f, g, k)
      BY <3>2, <3>3, <3>4 DEF Quiet
    <3> QED BY <3>1, <3>5
  <2>4. Turn(t, g)
    BY <1>2, <2>2 DEF Turn
  <2>5. /\ Types' /\ Filed'
        /\ \A k \in Keys \ raced' : /\ Keeps(t, task[t], g, k) => Company(k)'
                                    /\ Quiet(t, task[t], g, k) => Cached(k)'
    BY <1>0, <1>1, <2>4, QuietStep
  <2> QED BY <2>3, <2>5 DEF PushInv, f
<1>4. CASE Manages(t) # {}
  <2>0. t.ev \in Regs \/ t.ev \in Dels
    BY <1>4 DEF Manages
  <2>1. gone \subseteq Regs /\ (t.ev \in Regs => gone = {t.ev}) /\ (t.ev \in Dels => gone = Named(t.ev))
    BY <2>0, PushFacts
  <2>2. /\ g \in Frame /\ g.pc = "next" /\ g.rest = gone /\ g.todo = {} /\ g.out = {} /\ g.sent = 0 /\ g.total = 0 /\ g.bad = {}
    BY <1>0, <1>4, <2>1 DEF Frame, PCs, Calm
  <2> HIDE DEF g, f, gone
  <2>3. Shape(t, g)
    <3>1. Cardinality({}) = 0
      BY FS_EmptySet
    <3>2. g.sent + Cardinality(g.todo) + Cardinality(g.out) = g.total
      BY <2>2, <3>1
    <3> QED BY <2>0, <2>1, <2>2, <3>2, PushFacts DEF Shape
  <2>4. ASSUME NEW k PROVE Keeps(t, f, g, k) /\ Quiet(t, f, g, k)
    <3>1. Keeps(t, f, g, k)
      BY <1>0, <2>2 DEF Keeps, Asleep, HeldIn
    <3>2. ~Hand(t, f, k) /\ ~Hand(t, g, k) /\ f.rest = {}
      BY <1>0, <2>1, <2>2 DEF Hand, Calm
    <3>3. t.ev \in Dels => Removes(t, f) = Removes(t, g)
      BY <1>0, <2>1, <2>2 DEF Removes
    <3>4. Quiet(t, f, g, k)
      BY <1>0, <2>0, <2>2, <3>2, <3>3, PushFacts DEF Quiet, Asleep
    <3> QED BY <3>1, <3>4
  <2>5. Turn(t, g)
    BY <1>2, <2>2, <2>3 DEF Turn
  <2>6. /\ Types' /\ Filed'
        /\ \A k \in Keys \ raced' : /\ Keeps(t, task[t], g, k) => Company(k)'
                                    /\ Quiet(t, task[t], g, k) => Cached(k)'
    BY <1>0, <1>1, <2>5, QuietStep
  <2> QED BY <2>4, <2>6 DEF PushInv, f
<1> QED BY <1>3, <1>4

\* The workers: tasks that queued notifications start are all that changes.
LEMMA PushWorkStep ==
    ASSUME PushInv, Typical, task' \in [Tasks -> Frame],
           \A u \in Tasks : \/ task'[u] = task[u]
                            \/ /\ u.ev \in Posts /\ task[u].pc = "new" /\ task'[u].pc = "queued" /\ Calm(task'[u]),
           UNCHANGED <<stored, invalid, rows, byId, byKey, index, raced, left, stale>>
    PROVE  PushInv'
<1>0. Types /\ Filed
  BY DEF PushInv
<1>1. \A u \in Tasks : Shape(u, task'[u])
  BY <1>0, CalmShape DEF Types
<1>2. Types'
  BY <1>0, <1>1 DEF Types, Typical
<1>3. Filed'
  <2>1. \A e \in Events : Task(e) \in Tasks
    BY PushFacts
  <2>2. \A k \in Keys : stored[k] # None => stored[k] \in Events
    BY <1>0 DEF Types, Events
  <2>3. \A r \in invalid : r \in Events
    BY <1>0 DEF Types, Events
  <2>4. \A e \in Events : task[Task(e)].pc # "new" => task'[Task(e)].pc # "new"
    BY <1>0, <2>1
  <2> QED BY <1>0, <2>2, <2>3, <2>4 DEF Filed, Task
<1>4. ASSUME NEW k \in Keys \ raced' PROVE Company(k)' /\ Cached(k)'
  <2>1. Company(k) /\ Cached(k) /\ SameRight(k) /\ SameCache(k)
    BY DEF PushInv, SameRight, SameCache
  <2>2. ASSUME NEW u \in Tasks PROVE Keeps(u, task[u], task'[u], k) /\ Quiet(u, task[u], task'[u], k)
    <3>1. CASE task'[u] = task[u]
      BY <3>1 DEF Keeps, Quiet
    <3>2. CASE u.ev \in Posts /\ task[u].pc = "new" /\ task'[u].pc = "queued" /\ Calm(task'[u])
      <4>1. Shape(u, task[u]) /\ task[u].rest = {} /\ Shape(u, task'[u])
        BY <1>0, <1>1, <3>2 DEF Types, Shape
      <4>2. Keeps(u, task[u], task'[u], k)
        BY <3>2, PushFacts DEF Keeps, Calm, HeldIn, Manages
      <4>3. Quiet(u, task[u], task'[u], k)
        BY <3>2, <4>1, CalmQuiet DEF Calm
      <4> QED BY <4>2, <4>3
    <3> QED BY <3>1, <3>2
  <2> QED BY <1>0, <1>2, <2>1, <2>2, CompanyFrame, CachedFrame
<1> QED BY <1>2, <1>3, <1>4 DEF PushInv

LEMMA PushWork ==
    ASSUME PushInv, NEW p \in Posts, RemotePush(p) \/ Work(p)
    PROVE  PushInv'
<1>0. /\ UNCHANGED <<stored, invalid, rows, byId, byKey, index, raced, left, stale>>
      /\ task \in [Tasks -> Frame] /\ Types
  BY DEF RemotePush, Work, WorkRelays, WorkUsers, WorkCast, cache, ghosts, PushInv, Types
<1>1. Typical
  <2> DEFINE JobsOf == [type : {"relays", "users", "cast"}, ev : Posts]
  <2>1. Job("relays", p) \in JobsOf /\ Job("cast", p) \in JobsOf
    BY DEF Job
  <2>2. jobs \subseteq JobsOf /\ remotes \subseteq Posts
    BY <1>0 DEF Types
  <2> HIDE DEF JobsOf
  <2>3. jobs' \subseteq JobsOf
    BY <2>1, <2>2 DEF RemotePush, Work, WorkRelays, WorkUsers, WorkCast
  <2>4. remotes' \subseteq Posts
    BY <2>2 DEF RemotePush, Work, WorkRelays, WorkUsers, WorkCast
  <2> QED BY <2>3, <2>4 DEF Typical, JobsOf
<1>2. CASE WorkUsers(p)
  <2>1. \A u \in Tasks : \/ task'[u] = task[u]
                         \/ /\ u.ev = p /\ task[u].pc = "new" /\ task'[u] = [Idle EXCEPT !.pc = "queued"]
    BY <1>2 DEF WorkUsers
  <2>2. [Idle EXCEPT !.pc = "queued"] \in Frame /\ Calm([Idle EXCEPT !.pc = "queued"])
        /\ [Idle EXCEPT !.pc = "queued"].pc = "queued"
    BY IdleFrames DEF Idle
  <2>3. task' = [u \in Tasks |-> task'[u]]
    BY <1>2 DEF WorkUsers
  <2>4. \A u \in Tasks : task'[u] \in Frame
    BY <1>0, <2>1, <2>2
  <2>5. task' \in [Tasks -> Frame]
    BY <2>3, <2>4
  <2> QED BY <1>0, <1>1, <2>1, <2>2, <2>5, PushWorkStep
<1>3. CASE UNCHANGED task
  BY <1>0, <1>1, <1>3, PushWorkStep
<1> QED BY <1>2, <1>3 DEF RemotePush, Work, WorkRelays, WorkCast

LEMMA PushUnmarked ==
    ASSUME PushInv, NEW t \in Tasks, task[t].pc = "mark",
           Set(t, AfterSend(t, [task[t] EXCEPT !.err = TRUE, !.bad = {}])),
           UNCHANGED <<stored, invalid, rows, byId, byKey, index, remotes, jobs, raced, left, stale>>
    PROVE  PushInv'
<1> DEFINE f == task[t]
           h == [f EXCEPT !.err = TRUE, !.bad = {}]
           g == AfterSend(t, h)
<1>0. /\ Types /\ Shape(t, f) /\ f \in Frame /\ raced \subseteq Keys /\ f.rest = {} /\ t.ev \in Posts
      /\ f.todo = {} /\ f.out = {} /\ f.sent = 0 /\ f.total = 0 /\ Typical
  BY DEF PushInv, Types, Shape, Typical
<1>1. h \in Frame /\ Calm(h)
  BY <1>0 DEF Frame, Calm
<1>2. Set(t, g)
  OBVIOUS
<1> HIDE DEF h
<1>3. g \in Frame /\ Calm(g) /\ Shape(t, g) /\ g.pc \in {"jobs", "queued", "done"}
  BY <1>1, AfterSendCalm
<1> HIDE DEF g
<1>4. Turn(t, g)
  BY <1>2, <1>3 DEF Turn
<1>5. /\ Types' /\ Filed'
      /\ \A k \in Keys \ raced' : /\ Keeps(t, task[t], g, k) => Company(k)'
                                  /\ Quiet(t, task[t], g, k) => Cached(k)'
  BY <1>0, <1>4, QuietStep
<1>6. ASSUME NEW k PROVE Keeps(t, task[t], g, k) /\ Quiet(t, task[t], g, k)
  <2>1. Keeps(t, task[t], g, k)
    BY <1>3, FewerKept DEF Asleep, Calm, HeldIn
  <2>2. g.rest = {}
    BY <1>3 DEF Calm
  <2> QED BY <1>0, <1>3, <2>1, <2>2, CalmQuiet
<1> QED BY <1>5, <1>6 DEF PushInv

LEMMA PushMarked ==
    ASSUME PushInv, NEW t \in Tasks, task[t].pc = "mark",
           Set(t, [task[t] EXCEPT !.pc = "next", !.rest = task[t].bad]),
           invalid' = invalid \cup {r \in task[t].bad : stored[Reg[r].key] = r},
           UNCHANGED <<stored, rows, byId, byKey, index, remotes, jobs, raced, left, stale>>
    PROVE  PushInv'
<1> DEFINE f == task[t]
           g == [f EXCEPT !.pc = "next", !.rest = f.bad]
<1>0. /\ Types /\ Filed /\ Shape(t, f) /\ f \in Frame /\ f.rest = {} /\ t.ev \in Posts
      /\ f.todo = {} /\ f.out = {} /\ f.sent = 0 /\ f.total = 0 /\ f.bad \subseteq Regs
  BY DEF PushInv, Types, Shape, Frame
<1>1. /\ g \in Frame /\ g.pc = "next" /\ g.rest = f.bad /\ g.bad = f.bad /\ g.todo = {} /\ g.out = {}
      /\ g.sent = 0 /\ g.total = 0
  BY <1>0 DEF Frame, PCs
<1>2. Set(t, g)
  OBVIOUS
<1> HIDE DEF g
<1>3. Shape(t, g)
  <2>1. Cardinality({}) = 0
    BY FS_EmptySet
  <2>2. g.sent + Cardinality(g.todo) + Cardinality(g.out) = g.total
    BY <1>1, <2>1
  <2> QED BY <1>0, <1>1, <2>2, PushFacts DEF Shape
<1>4. Turn(t, g)
  BY <1>1, <1>2, <1>3 DEF Turn
<1>5. /\ task'[t] = g /\ \A u \in Tasks : u # t => task'[u] = task[u]
      /\ task' \in [Tasks -> Frame] /\ \A u \in Tasks : Shape(u, task'[u])
      /\ \A u \in Tasks : task[u].pc # "new" => task'[u].pc # "new"
  BY <1>0, <1>4, OneTask
<1>6. invalid \subseteq invalid' /\ invalid' \subseteq Regs
      /\ \A r \in invalid' : r \in invalid \/ (r \in f.bad /\ stored[Reg[r].key] = r)
  BY <1>0 DEF Types
<1>7. Types'
  BY <1>0, <1>5, <1>6 DEF Types
<1>8. Filed'
  <2>1. \A e \in Events : Task(e) \in Tasks
    BY PushFacts
  <2>2. \A k \in Keys : stored[k] # None => stored[k] \in Events
    BY <1>0 DEF Types, Events
  <2>3. \A r \in invalid' : r \in Events
    BY <1>6 DEF Events
  <2>4. \A r \in invalid' : task[Task(r)].pc # "new"
    BY <1>0, <1>6, PushFacts DEF Filed
  <2> QED BY <1>0, <1>5, <2>1, <2>2, <2>3, <2>4 DEF Filed, Task
<1>9. ASSUME NEW k \in Keys \ raced' PROVE Company(k)' /\ Cached(k)'
  <2>0. Company(k) /\ Cached(k) /\ k \in Keys
    BY DEF PushInv
  <2>1. \A d \in f.bad : d \in HeldIn(f)
    BY <1>0, PushFacts DEF HeldIn
  <2>2. HeldIn(g) = HeldIn(f)
    BY <1>0, <1>1 DEF HeldIn
  <2>3. \A u \in Tasks : /\ Over(u)' <=> Over(u)
                         /\ HeldIn(task'[u]) = HeldIn(task[u])
                         /\ Holds(u)' = Holds(u)
    BY <1>0, <1>1, <1>5, <2>2 DEF Over, Holds, HeldIn
  <2>4. Company(k)'
    <3>1. ASSUME k \notin left, NEW u \in Tasks, NEW d \in HeldIn(task'[u]), Reg[d].key = k
          PROVE  stored[k] = d /\ (d \in task'[u].rest \/ InRemoval(task'[u], d) => d \in invalid')
      <4>1. stored[k] = d /\ (d \in task[u].rest \/ InRemoval(task[u], d) => d \in invalid)
        BY <2>0, <2>3, <3>1 DEF Company
      <4>2. CASE u # t
        BY <1>5, <1>6, <4>1, <4>2
      <4>3. CASE u = t
        BY <1>1, <1>5, <3>1, <4>1, <4>3 DEF InRemoval
      <4> QED BY <4>2, <4>3
    <3>2. ASSUME NEW u \in Tasks, ~Over(u), k \in Manages(u), u.ev \in Regs PROVE u.ev \notin invalid'
      <4>1. u.ev \notin invalid /\ Reg[u.ev].key = k
        BY <2>0, <3>2 DEF Company, Manages
      <4>2. u.ev \in f.bad => k \in Holds(t)
        BY <2>1, <4>1 DEF Holds, HeldIn
      <4>3. k \in Holds(t) => u = t
        BY <2>0, <3>2, <1>0, HoldersAwake DEF Company
      <4> QED BY <1>0, <1>6, <3>2, <4>1, <4>2, <4>3, PushFacts
    <3> QED BY <2>0, <2>3, <3>1, <3>2 DEF Company, Manages
  <2>5. \A u \in Tasks : Hand(u, task'[u], k) <=> Hand(u, task[u], k)
    <3>1. ~Hand(t, f, k) /\ ~Hand(t, g, k)
      BY <1>0, <1>1, PushFacts DEF Hand
    <3> QED BY <1>5, <3>1
  <2>6. Current(k) = None => Current(k)' = None
    BY <1>6 DEF Current
  <2>7. ASSUME NEW u \in Tasks, Hand(u, task[u], k) PROVE Handled(u, task[u], k)'
    <3>1. Handled(u, task[u], k) /\ task'[u] = task[u]
      <4>1. u # t
        BY <1>0, <2>7, PushFacts DEF Hand
      <4> QED BY <1>5, <2>0, <2>7, <4>1 DEF Cached
    <3> QED BY <2>6, <3>1 DEF Handled
  <2>8. ASSUME \A u \in Tasks : ~Hand(u, task[u], k) PROVE Settled(k)'
    <3>1. Settled(k)
      BY <2>0, <2>8 DEF Cached
    <3>2. ASSUME k \notin left PROVE Explained(k, byKey[k])'
      <4>0. Explained(k, byKey[k])
        BY <3>1, <3>2 DEF Settled
      <4>1. CASE byKey[k] = Current(k)
        <5>1. CASE Current(k)' = Current(k)
          BY <4>1, <5>1 DEF Explained
        <5>2. CASE Current(k)' # Current(k)
          <6>1. stored[k] \in invalid' /\ stored[k] \notin invalid /\ Current(k) = stored[k]
            BY <1>6, <5>2 DEF Current
          <6>2. stored[k] \in f.bad
            BY <1>6, <6>1
          <6> QED BY <1>0, <1>1, <1>5, <4>1, <6>1, <6>2 DEF Explained
        <5> QED BY <5>1, <5>2
      <4>2. ASSUME NEW u \in Tasks, ~Over(u), u.ev \in Regs, Reg[u.ev].key = k PROVE Explained(k, byKey[k])'
        BY <2>3, <4>2 DEF Explained
      <4>3. ASSUME NEW u \in Tasks, u.ev \in Dels, byKey[k] \in Removes(u, task[u]), ~Over(u), stored[k] = None
            PROVE  Explained(k, byKey[k])'
        <5>1. task'[u] = task[u]
          BY <1>0, <1>5, <4>3, PushFacts
        <5> QED BY <2>3, <4>3, <5>1 DEF Explained
      <4>4. ASSUME NEW u \in Tasks, u.ev \in Posts, byKey[k] \in task[u].rest, stored[k] = byKey[k], byKey[k] \in invalid
            PROVE  Explained(k, byKey[k])'
        <5>1. task'[u] = task[u]
          BY <1>0, <1>5, <4>4
        <5> QED BY <1>6, <4>4, <5>1 DEF Explained
      <4> QED BY <4>0, <4>1, <4>2, <4>3, <4>4 DEF Explained
    <3> QED BY <3>1, <3>2 DEF Settled
  <2>9. Cached(k)'
    BY <2>0, <2>5, <2>7, <2>8 DEF Cached
  <2> QED BY <2>4, <2>9
<1> QED BY <1>7, <1>8, <1>9 DEF PushInv

LEMMA PushMark ==
    ASSUME PushInv, NEW t \in Tasks, MarkTokenAsInvalid(t)
    PROVE  PushInv'
BY PushUnmarked, PushMarked DEF MarkTokenAsInvalid, cache, ghosts

-----------------------------------------------------------------------------
(* The steps that change the cache of one key.                             *)

\* A step of t that changes what is cached under k0 only.
Confined(t, g, k0) ==
    /\ Turn(t, g) /\ UNCHANGED <<stored, invalid, remotes, jobs, raced>>
    /\ byKey' \in [Keys -> Regs \cup {None}] /\ index' \in [Keys -> Regs \cup {None}]
    /\ rows' \in [Keys -> Regs \cup {None}] /\ byId' \subseteq Regs
    /\ left \subseteq left' /\ left' \subseteq Keys /\ stale \subseteq stale' /\ stale' \subseteq Keys
    /\ byKey'[k0] # None => Reg[byKey'[k0]].key = k0
    /\ index'[k0] # None => Reg[index'[k0]].key = k0
    /\ \A k \in Keys \ {k0} : SameCache(k) /\ Quiet(t, task[t], g, k)
    /\ \A k \in Keys : Keeps(t, task[t], g, k)

LEMMA ConfinedStep ==
    ASSUME PushInv, NEW t \in Tasks, NEW g, NEW k0 \in Keys, Confined(t, g, k0)
    PROVE  Types' /\ Filed' /\ ((k0 \notin raced => Cached(k0)') => PushInv')
<1>0. Types /\ Filed /\ Turn(t, g)
  BY DEF PushInv, Confined
<1>1. Types'
  <2>1. task' \in [Tasks -> Frame] /\ \A u \in Tasks : Shape(u, task'[u])
    BY <1>0, OneTask
  <2> QED BY <1>0, <2>1 DEF Types, Confined
<1>2. Filed'
  <2>1. \A e \in Events : Task(e) \in Tasks
    BY PushFacts
  <2>2. \A k \in Keys : stored[k] # None => stored[k] \in Events
    BY <1>0 DEF Types, Events
  <2>3. \A r \in invalid : r \in Events
    BY <1>0 DEF Types, Events
  <2>4. \A e \in Events : task[Task(e)].pc # "new" => task'[Task(e)].pc # "new"
    BY <1>0, <2>1, OneTask
  <2>5. \A k \in Keys \ {k0} : byKey'[k] = byKey[k] /\ index'[k] = index[k]
    BY DEF Confined, SameCache
  <2>6. stored' = stored /\ invalid' = invalid
    BY DEF Confined
  <2> QED BY <1>0, <2>2, <2>3, <2>4, <2>5, <2>6 DEF Filed, Task, Confined
<1>3. ASSUME NEW k \in Keys \ raced', k0 \notin raced => Cached(k0)' PROVE Company(k)' /\ Cached(k)'
  <2>1. Company(k) /\ Cached(k) /\ SameRight(k) /\ k \notin raced /\ k \in Keys
    BY DEF PushInv, Confined, SameRight
  <2>2. Company(k)'
    <3>1. \A u \in Tasks : Keeps(u, task[u], task'[u], k)
      BY <1>0, <2>1, OneKeeps DEF Confined
    <3> QED BY <1>0, <1>1, <2>1, <3>1, CompanyFrame
  <2>3. CASE k # k0
    <3>1. SameCache(k) /\ \A u \in Tasks : Quiet(u, task[u], task'[u], k)
      BY <1>0, <2>1, <2>3, OneKeeps DEF Confined
    <3> QED BY <1>0, <1>1, <2>1, <2>2, <3>1, CachedFrame
  <2> QED BY <1>3, <2>1, <2>2, <2>3
<1> QED BY <1>1, <1>2, <1>3 DEF PushInv

LEMMA HandOn ==
    ASSUME Types, NEW t \in Tasks, NEW g, Turn(t, g), NEW k, Cached(k), Hand(t, g, k), Handled(t, g, k)',
           \A u \in Tasks : Hand(u, task[u], k) => u = t
    PROVE  Cached(k)'
<1>1. task'[t] = g /\ \A u \in Tasks : u # t => task'[u] = task[u]
  BY OneTask
<1>2. \A u \in Tasks : Hand(u, task'[u], k) => u = t
  BY <1>1
<1>3. Handled(t, task[t], k)'
  BY <1>1 DEF Handled
<1>4. Hand(t, task'[t], k)
  BY <1>1
<1>5. \A u \in Tasks : Hand(u, task'[u], k) => Handled(u, task[u], k)'
  BY <1>2, <1>3
<1> QED BY <1>2, <1>4, <1>5 DEF Cached

LEMMA HandOff ==
    ASSUME Types, NEW t \in Tasks, NEW g, Turn(t, g), NEW k, ~Hand(t, g, k), Settled(k)',
           \A u \in Tasks : Hand(u, task[u], k) => u = t
    PROVE  Cached(k)'
<1>1. task'[t] = g /\ \A u \in Tasks : u # t => task'[u] = task[u]
  BY OneTask
<1>2. \A u \in Tasks : ~Hand(u, task'[u], k)
  BY <1>1
<1> QED BY <1>2 DEF Cached

LEMMA HandTouches ==
    ASSUME Types, NEW t \in Tasks, NEW k, Hand(t, task[t], k)
    PROVE  /\ ~Over(t) /\ k \in Manages(t) \cup Holds(t) /\ (t.ev \in Posts => k \in Holds(t))
           /\ t.ev \notin Regs => task[t].pc \in {"clear", "row"}
           /\ t.ev \notin Posts => k \in Manages(t)
<1>0. Shape(t, task[t]) /\ task[t] \in Frame /\ t.ev \in Events
  BY PushFacts DEF Types
<1>1. ~Over(t) /\ (t.ev \notin Regs => task[t].pc \in {"clear", "row"})
  BY DEF Hand, Over
<1>2. CASE t.ev \in Regs
  BY <1>0, <1>1, <1>2, PushFacts DEF Hand, Manages, Shape
<1>3. CASE t.ev \in Dels
  <2>1. task[t].arg \in Named(t.ev) /\ Reg[task[t].arg].key = k
    BY <1>0, <1>1, <1>3, PushFacts DEF Hand, Shape
  <2> QED BY <1>1, <1>3, <2>1, PushFacts DEF Manages
<1>4. CASE t.ev \in Posts
  <2>1. task[t].arg \in HeldIn(task[t]) /\ Reg[task[t].arg].key = k
    BY <1>0, <1>1, <1>4, PushFacts DEF Hand, Shape, HeldIn, Frame
  <2>2. k \in Holds(t)
    BY <2>1 DEF Holds, HeldIn
  <2> QED BY <1>1, <1>4, <2>2, PushFacts
<1> QED BY <1>0, <1>2, <1>3, <1>4 DEF Events

\* Who has an entry in hand is the only one of his key, and so is who manages it.
LEMMA OneHand ==
    ASSUME PushInv, NEW t \in Tasks, NEW k \in Keys \ raced, NEW u \in Tasks,
           Hand(t, task[t], k) \/ (~Over(t) /\ k \in Manages(t)), Hand(u, task[u], k)
    PROVE  u = t
<1>1. CASE Hand(t, task[t], k)
  BY <1>1 DEF PushInv, Cached
<1>2. CASE ~Over(t) /\ k \in Manages(t)
  <2>1. ~Over(u) /\ k \in Manages(u) \cup Holds(u)
    BY HandTouches DEF PushInv
  <2> QED BY <1>2, <2>1 DEF PushInv, Company
<1> QED BY <1>1, <1>2

LEMMA NothingSent ==
    ASSUME NEW f, f.todo = {}, f.out = {}, f.sent = 0, f.total = 0
    PROVE  f.sent + Cardinality(f.todo) + Cardinality(f.out) = f.total /\ f.todo \cap f.out = {}
<1>1. Cardinality({}) = 0
  BY FS_EmptySet
<1> QED BY <1>1

\* The last steps of a registration.
LEMMA RegSteps ==
    ASSUME PushInv, NEW t \in Tasks, task[t].pc \in {"next", "add", "maps", "index"}, task[t].rest = {},
           t.ev \in Regs, NEW pc \in {"add", "maps", "index", "done"}
    PROVE  \E g : /\ g = IF pc = "done" THEN Done ELSE [task[t] EXCEPT !.pc = pc]
                  /\ g \in Frame /\ Shape(t, g) /\ g.pc = pc /\ g.rest = {} /\ HeldIn(g) = {}
                  /\ \A k : Keeps(t, task[t], g, k)
                  /\ \A k : k # Reg[t.ev].key => Quiet(t, task[t], g, k)
                  /\ Hand(t, task[t], Reg[t.ev].key) /\ (Hand(t, g, Reg[t.ev].key) <=> pc # "done")
<1> DEFINE f == task[t]
<1>0. /\ Shape(t, f) /\ f \in Frame /\ f.todo = {} /\ f.out = {} /\ f.sent = 0 /\ f.total = 0 /\ f.bad = {}
  BY DEF PushInv, Types, Shape
<1>1. PICK g : g = IF pc = "done" THEN Done ELSE [f EXCEPT !.pc = pc]
  OBVIOUS
<1>2. g \in Frame /\ g.pc = pc /\ Calm(g)
  <2>1. CASE pc = "done"
    BY <1>1, <2>1, IdleFrames
  <2>2. CASE pc # "done"
    BY <1>0, <1>1, <2>2 DEF Frame, PCs, Calm
  <2> QED BY <2>1, <2>2
<1>3. Shape(t, g) /\ HeldIn(g) = {}
  BY <1>2, NothingSent, PushFacts DEF Shape, Calm, HeldIn
<1> HIDE DEF f
<1>4. \A k : Keeps(t, f, g, k)
  BY <1>3 DEF Keeps, Asleep, f
<1>5. \A k : k # Reg[t.ev].key => ~Hand(t, f, k) /\ ~Hand(t, g, k)
  BY <1>2 DEF Hand, f
<1>6. \A k : k # Reg[t.ev].key => Quiet(t, f, g, k)
  BY <1>5, PushFacts DEF Quiet
<1>7. Hand(t, f, Reg[t.ev].key) /\ (Hand(t, g, Reg[t.ev].key) <=> pc # "done")
  BY <1>2 DEF Hand, Calm, f
<1> QED BY <1>1, <1>2, <1>3, <1>4, <1>6, <1>7 DEF Calm, f

LEMMA PushRegister ==
    ASSUME PushInv, NEW t \in Tasks, RegisterPrice(t)
    PROVE  PushInv'
<1>0. /\ Types /\ Filed /\ Shape(t, task[t]) /\ task[t].pc = "add" /\ t.ev \in Regs /\ task[t].rest = {}
      /\ UNCHANGED <<stored, invalid, byId, byKey, index, remotes, jobs, raced, stale>> /\ Reg[t.ev].key \in Keys
  BY PushFacts DEF PushInv, Types, Shape, RegisterPrice, cache
<1>1. PICK k0 \in Keys : k0 = Reg[t.ev].key
  BY <1>0
<1>2. ~Over(t) /\ k0 \in Manages(t)
  BY <1>0, <1>1 DEF Over, Manages
<1>3. ASSUME NEW pc \in {"maps", "done"}, Set(t, IF pc = "done" THEN Done ELSE [task[t] EXCEPT !.pc = pc]),
             rows' = IF pc = "maps" /\ Reg[t.ev].price /\ ~Reg[t.ev].remote THEN [rows EXCEPT ![k0] = t.ev] ELSE rows,
             left' = left \/ (left' = left \cup {k0} /\ pc = "done"),
             pc = "done" => k0 \in left' \/ (~Reg[t.ev].remote /\ ~Reg[t.ev].here)
      PROVE  PushInv'
  <2>1. PICK g : /\ g = IF pc = "done" THEN Done ELSE [task[t] EXCEPT !.pc = pc]
                 /\ g \in Frame /\ Shape(t, g) /\ g.pc = pc /\ g.rest = {} /\ HeldIn(g) = {}
                 /\ \A k : Keeps(t, task[t], g, k)
                 /\ \A k : k # Reg[t.ev].key => Quiet(t, task[t], g, k)
                 /\ Hand(t, task[t], Reg[t.ev].key) /\ (Hand(t, g, Reg[t.ev].key) <=> pc # "done")
    BY <1>0, RegSteps
  <2>2. Turn(t, g)
    BY <1>3, <2>1 DEF Turn
  <2>3. Confined(t, g, k0)
    <3>1. rows' \in [Keys -> Regs \cup {None}] /\ \A k \in Keys \ {k0} : rows'[k] = rows[k]
      BY <1>0, <1>3 DEF Types
    <3>2. \A k \in Keys \ {k0} : SameCache(k)
      BY <1>0, <3>1 DEF SameCache
    <3>3. byKey \in [Keys -> Regs \cup {None}] /\ index \in [Keys -> Regs \cup {None}] /\ byId \subseteq Regs
          /\ left \subseteq Keys /\ stale \subseteq Keys
      BY <1>0 DEF Types
    <3>4. left \subseteq left' /\ left' \subseteq Keys
      BY <1>3, <3>3
    <3>5. /\ byKey[k0] # None => Reg[byKey[k0]].key = k0
          /\ index[k0] # None => Reg[index[k0]].key = k0
      BY <1>0 DEF Filed
    <3> QED BY <1>0, <1>1, <2>1, <2>2, <3>1, <3>2, <3>3, <3>4, <3>5 DEF Confined
  <2>4. ASSUME k0 \notin raced PROVE Cached(k0)'
    <3>0. Handled(t, task[t], k0) /\ Cached(k0) /\ Company(k0)
      BY <1>1, <2>1, <2>4 DEF PushInv, Cached
    <3>1. byKey[k0] = None /\ index[k0] = None /\ byId \cap RegsOf(k0) = {} /\ (k0 \notin stale => rows[k0] = None)
      BY <1>0, <3>0 DEF Handled
    <3>2. \A u \in Tasks : Hand(u, task[u], k0) => u = t
      BY <1>2, <2>4, OneHand
    <3>3. CASE pc = "maps"
      <4>1. k0 \notin stale => rows'[k0] = RowOf(t.ev)
        BY <1>0, <1>3, <3>1, <3>3, PushFacts DEF RowOf, Types
      <4>2. Handled(t, g, k0)'
        BY <1>0, <2>1, <3>1, <3>3, <4>1, PushFacts DEF Handled
      <4> QED BY <1>0, <1>1, <2>1, <2>2, <3>0, <3>2, <3>3, <4>2, HandOn
    <3>4. CASE pc = "done"
      <4>1. k0 \in left'
        <5>1. k0 \notin left => stored[k0] = t.ev
          BY <1>0, <1>2, <3>0 DEF Company
        <5>2. stored[k0] = t.ev => Reg[t.ev].here \/ Reg[t.ev].remote
          BY <1>0, PushFacts DEF Filed
        <5> QED BY <1>3, <3>4, <5>1, <5>2
      <4>2. Settled(k0)'
        BY <1>0, <1>3, <3>1, <3>4, <4>1 DEF Settled, RowOf
      <4> QED BY <1>0, <1>1, <2>1, <2>2, <3>2, <3>4, <4>2, HandOff
    <3> QED BY <3>3, <3>4
  <2> QED BY <2>3, <2>4, ConfinedStep
<1>4. CASE ~Reg[t.ev].remote /\ ~Reg[t.ev].here /\ Set(t, Done) /\ UNCHANGED <<rows, left>>
  BY <1>3, <1>4
<1>5. CASE /\ rows' = IF Reg[t.ev].price /\ ~Reg[t.ev].remote THEN [rows EXCEPT ![k0] = t.ev] ELSE rows
           /\ Set(t, [task[t] EXCEPT !.pc = "maps"]) /\ UNCHANGED left
  BY <1>3, <1>5
<1>6. CASE left' = left \cup {k0} /\ UNCHANGED rows /\ Set(t, Done)
  BY <1>3, <1>6
<1> QED BY <1>1, <1>4, <1>5, <1>6 DEF RegisterPrice

LEMMA PushMaps ==
    ASSUME PushInv, NEW t \in Tasks, StoreMaps(t)
    PROVE  PushInv'
<1>0. /\ Types /\ Filed /\ Shape(t, task[t]) /\ task[t].pc = "maps" /\ t.ev \in Regs /\ task[t].rest = {}
      /\ UNCHANGED <<stored, invalid, rows, index, remotes, jobs, raced, left, stale>> /\ Reg[t.ev].key \in Keys
  BY PushFacts DEF PushInv, Types, Shape, StoreMaps, ghosts
<1>1. PICK k0 \in Keys : k0 = Reg[t.ev].key
  BY <1>0
<1>2. ~Over(t) /\ k0 \in Manages(t)
  BY <1>0, <1>1 DEF Over, Manages
<1>3. byId' = byId \cup {t.ev} /\ byKey' = [byKey EXCEPT ![k0] = t.ev] /\ Set(t, [task[t] EXCEPT !.pc = "index"])
  BY <1>1 DEF StoreMaps
<1>4. PICK g : /\ g = IF "index" = "done" THEN Done ELSE [task[t] EXCEPT !.pc = "index"]
               /\ g \in Frame /\ Shape(t, g) /\ g.pc = "index" /\ g.rest = {} /\ HeldIn(g) = {}
               /\ \A k : Keeps(t, task[t], g, k)
               /\ \A k : k # Reg[t.ev].key => Quiet(t, task[t], g, k)
               /\ Hand(t, task[t], Reg[t.ev].key) /\ (Hand(t, g, Reg[t.ev].key) <=> "index" # "done")
  BY <1>0, RegSteps
<1>5. Turn(t, g)
  BY <1>3, <1>4 DEF Turn
<1>6. byKey'[k0] = t.ev /\ byKey' \in [Keys -> Regs \cup {None}] /\ \A k \in Keys \ {k0} : byKey'[k] = byKey[k]
  BY <1>0, <1>3 DEF Types
<1>7. Confined(t, g, k0)
  <2>1. \A k \in Keys \ {k0} : byId' \cap RegsOf(k) = byId \cap RegsOf(k)
    BY <1>1, <1>3 DEF RegsOf
  <2>2. \A k \in Keys \ {k0} : SameCache(k)
    BY <1>0, <1>6, <2>1 DEF SameCache
  <2>3. index \in [Keys -> Regs \cup {None}] /\ rows \in [Keys -> Regs \cup {None}] /\ byId' \subseteq Regs
        /\ left \subseteq Keys /\ stale \subseteq Keys
    BY <1>0, <1>3 DEF Types
  <2>4. index[k0] # None => Reg[index[k0]].key = k0
    BY <1>0 DEF Filed
  <2> QED BY <1>0, <1>1, <1>4, <1>5, <1>6, <2>2, <2>3, <2>4 DEF Confined
<1>8. ASSUME k0 \notin raced PROVE Cached(k0)'
  <2>0. Handled(t, task[t], k0) /\ Cached(k0)
    BY <1>1, <1>4, <1>8 DEF PushInv, Cached
  <2>1. byId \cap RegsOf(k0) = {} /\ (k0 \notin stale => rows[k0] = RowOf(t.ev))
    BY <1>0, <2>0 DEF Handled
  <2>2. byId' \cap RegsOf(k0) = {t.ev}
    BY <1>0, <1>1, <1>3, <2>1 DEF RegsOf
  <2>3. Handled(t, g, k0)'
    BY <1>0, <1>4, <1>6, <2>1, <2>2 DEF Handled
  <2>4. \A u \in Tasks : Hand(u, task[u], k0) => u = t
    BY <1>2, <1>8, OneHand
  <2>5. Hand(t, g, k0)
    BY <1>1, <1>4
  <2> QED BY <1>0, <1>5, <2>0, <2>3, <2>4, <2>5, HandOn
<1> QED BY <1>7, <1>8, ConfinedStep

LEMMA PushIndex ==
    ASSUME PushInv, NEW t \in Tasks, Index(t)
    PROVE  PushInv'
<1>0. /\ Types /\ Filed /\ Shape(t, task[t]) /\ task[t].pc = "index" /\ t.ev \in Regs /\ task[t].rest = {}
      /\ UNCHANGED <<stored, invalid, rows, byId, byKey, remotes, jobs, raced, left, stale>> /\ Reg[t.ev].key \in Keys
  BY PushFacts DEF PushInv, Types, Shape, Index, ghosts
<1>1. PICK k0 \in Keys : k0 = Reg[t.ev].key
  BY <1>0
<1>2. ~Over(t) /\ k0 \in Manages(t)
  BY <1>0, <1>1 DEF Over, Manages
<1>3. index' = [index EXCEPT ![k0] = t.ev] /\ Set(t, Done)
  BY <1>1 DEF Index
<1>4. PICK g : /\ g = IF "done" = "done" THEN Done ELSE [task[t] EXCEPT !.pc = "done"]
               /\ g \in Frame /\ Shape(t, g) /\ g.pc = "done" /\ g.rest = {} /\ HeldIn(g) = {}
               /\ \A k : Keeps(t, task[t], g, k)
               /\ \A k : k # Reg[t.ev].key => Quiet(t, task[t], g, k)
               /\ Hand(t, task[t], Reg[t.ev].key) /\ (Hand(t, g, Reg[t.ev].key) <=> "done" # "done")
  BY <1>0, RegSteps
<1>5. Turn(t, g)
  BY <1>3, <1>4 DEF Turn
<1>6. index'[k0] = t.ev /\ index' \in [Keys -> Regs \cup {None}] /\ \A k \in Keys \ {k0} : index'[k] = index[k]
  BY <1>0, <1>3 DEF Types
<1>7. Confined(t, g, k0)
  <2>1. \A k \in Keys \ {k0} : SameCache(k)
    BY <1>0, <1>6 DEF SameCache
  <2>2. byKey \in [Keys -> Regs \cup {None}] /\ rows \in [Keys -> Regs \cup {None}] /\ byId \subseteq Regs
        /\ left \subseteq Keys /\ stale \subseteq Keys
    BY <1>0 DEF Types
  <2>3. byKey[k0] # None => Reg[byKey[k0]].key = k0
    BY <1>0 DEF Filed
  <2> QED BY <1>0, <1>1, <1>4, <1>5, <1>6, <2>1, <2>2, <2>3 DEF Confined
<1>8. ASSUME k0 \notin raced PROVE Cached(k0)'
  <2>0. Handled(t, task[t], k0) /\ Company(k0)
    BY <1>1, <1>4, <1>8 DEF PushInv, Cached
  <2>1. byKey[k0] = t.ev /\ byId \cap RegsOf(k0) = {t.ev} /\ (k0 \notin stale => rows[k0] = RowOf(t.ev))
    BY <1>0, <2>0 DEF Handled
  <2>2. k0 \notin left => t.ev = Current(k0)
    BY <1>0, <1>2, <2>0 DEF Company, Current
  <2>3. Current(k0)' = Current(k0)
    BY <1>0 DEF Current
  <2>4. Settled(k0)'
    BY <1>0, <1>6, <2>1, <2>2, <2>3, PushFacts DEF Settled, Explained
  <2>5. \A u \in Tasks : Hand(u, task[u], k0) => u = t
    BY <1>2, <1>8, OneHand
  <2>6. ~Hand(t, g, k0)
    BY <1>1, <1>4
  <2> QED BY <1>0, <1>5, <2>4, <2>5, <2>6, HandOff
<1> QED BY <1>7, <1>8, ConfinedStep

LEMMA PushRemovalsOver ==
    ASSUME PushInv, NEW t \in Tasks, RemovalsOver(t)
    PROVE  PushInv'
<1> DEFINE f == task[t]
<1>0. /\ Types /\ Filed /\ Shape(t, f) /\ f \in Frame /\ f.pc = "next" /\ f.rest = {} /\ t.ev \in Events
      /\ f.todo = {} /\ f.out = {} /\ f.sent = 0 /\ f.total = 0 /\ Typical /\ raced \subseteq Keys
      /\ UNCHANGED <<stored, invalid, rows, byId, byKey, index, remotes, jobs, raced, left, stale>>
  BY PushFacts DEF PushInv, Types, Shape, RemovalsOver, cache, ghosts, Typical
<1>1. ASSUME NEW g, Set(t, g), g \in Frame, Calm(g), g.pc \in {"jobs", "queued", "done"}, t.ev \notin Regs
      PROVE  PushInv'
  <2>1. Turn(t, g)
    BY <1>1, CalmShape DEF Turn
  <2>2. /\ Types' /\ Filed'
        /\ \A k \in Keys \ raced' : /\ Keeps(t, task[t], g, k) => Company(k)'
                                    /\ Quiet(t, task[t], g, k) => Cached(k)'
    BY <1>0, <2>1, QuietStep
  <2>3. \A k : Keeps(t, f, g, k)
    BY <1>0, <1>1, FewerKept DEF Asleep, Calm, HeldIn
  <2>4. \A k : ~Hand(t, f, k) /\ ~Hand(t, g, k)
    BY <1>0, <1>1 DEF Hand
  <2>5. Removes(t, f) = {}
    BY <1>0 DEF Removes
  <2>6. \A k : Quiet(t, f, g, k)
    BY <1>0, <1>1, <2>4, <2>5 DEF Quiet
  <2> QED BY <2>2, <2>3, <2>6 DEF PushInv
<1>2. CASE t.ev \in Posts
  <2>1. [f EXCEPT !.bad = {}] \in Frame /\ Calm([f EXCEPT !.bad = {}])
    BY <1>0 DEF Frame, Calm
  <2>2. PICK h : h = [f EXCEPT !.bad = {}]
    OBVIOUS
  <2>3. Set(t, AfterSend(t, h)) /\ h \in Frame /\ Calm(h) /\ t.ev \notin Regs
    BY <1>2, <2>1, <2>2, PushFacts DEF RemovalsOver
  <2>4. AfterSend(t, h) \in Frame /\ Calm(AfterSend(t, h)) /\ AfterSend(t, h).pc \in {"jobs", "queued", "done"}
    BY <2>3, AfterSendCalm
  <2> QED BY <1>1, <2>3, <2>4
<1>3. CASE t.ev \in Dels
  <2>1. Set(t, Done) /\ t.ev \notin Regs
    BY <1>3, PushFacts DEF RemovalsOver
  <2> QED BY <1>1, <2>1, IdleFrames
<1>4. CASE t.ev \in Regs
  <2>1. PICK k0 \in Keys : k0 = Reg[t.ev].key
    BY <1>4, PushFacts
  <2>2. PICK g : /\ g = IF "add" = "done" THEN Done ELSE [task[t] EXCEPT !.pc = "add"]
                 /\ g \in Frame /\ Shape(t, g) /\ g.pc = "add" /\ g.rest = {} /\ HeldIn(g) = {}
                 /\ \A k : Keeps(t, task[t], g, k)
                 /\ \A k : k # Reg[t.ev].key => Quiet(t, task[t], g, k)
                 /\ Hand(t, task[t], Reg[t.ev].key) /\ (Hand(t, g, Reg[t.ev].key) <=> "add" # "done")
    BY <1>0, <1>4, RegSteps
  <2>3. Turn(t, g)
    BY <1>4, <2>2, PushFacts DEF Turn, RemovalsOver
  <2>4. Confined(t, g, k0)
    BY <1>0, <2>1, <2>2, <2>3 DEF Confined, SameCache, Types, Filed
  <2>5. ASSUME k0 \notin raced PROVE Cached(k0)'
    <3>0. Handled(t, f, k0) /\ Cached(k0)
      BY <2>1, <2>2, <2>5 DEF PushInv, Cached
    <3>1. Handled(t, g, k0)'
      BY <1>0, <1>4, <2>2, <3>0, PushFacts DEF Handled
    <3>2. \A u \in Tasks : Hand(u, task[u], k0) => u = t
      BY <2>1, <2>2, <2>5, OneHand
    <3> QED BY <1>0, <2>1, <2>2, <2>3, <3>0, <3>1, <3>2, HandOn
  <2> QED BY <2>4, <2>5, ConfinedStep
<1> QED BY <1>0, <1>2, <1>3, <1>4 DEF Events

\* The frame after a removal, or after its first half.
Removed(t, f, g, k0, old, pc) ==
    /\ g = [f EXCEPT !.old = old, !.pc = pc]
    /\ g \in Frame /\ Shape(t, g) /\ g.pc = pc /\ g.rest = f.rest /\ g.old = old
    /\ \A k : Keeps(t, f, g, k)
    /\ \A k : k # k0 => Quiet(t, f, g, k)
    /\ Hand(t, f, k0) /\ (Hand(t, g, k0) <=> pc = "row" \/ t.ev \in Regs)

LEMMA RemovalFrame ==
    ASSUME PushInv, NEW t \in Tasks, task[t].pc \in {"clear", "row"}, NEW k0 \in Keys, k0 = Reg[task[t].arg].key,
           NEW old \in Regs \cup {None}, NEW pc \in {"row", "next"},
           pc = "row" => old \in Regs /\ Reg[old].key = k0
    PROVE  \E g : Removed(t, task[t], g, k0, old, pc)
<1> DEFINE f == task[t]
<1>0. /\ Shape(t, f) /\ f \in Frame /\ f.todo = {} /\ f.out = {} /\ f.sent = 0 /\ f.total = 0
      /\ f.arg \in Regs
  BY DEF PushInv, Types, Shape
<1>1. PICK g : g = [f EXCEPT !.old = old, !.pc = pc]
  OBVIOUS
<1>2. /\ g \in Frame /\ g.pc = pc /\ g.old = old /\ g.rest = f.rest /\ g.arg = f.arg /\ g.bad = f.bad
      /\ g.todo = {} /\ g.out = {} /\ g.sent = 0 /\ g.total = 0
  BY <1>0, <1>1 DEF Frame, PCs
<1> HIDE DEF f
<1>3. Shape(t, g)
  BY <1>0, <1>2, NothingSent DEF Shape, f
<1>4. \A k : Keeps(t, f, g, k)
  BY <1>0, <1>2 DEF Keeps, Asleep, HeldIn, InRemoval, f
<1>5. t.ev \in Regs => f.arg = t.ev /\ f.rest = {}
  BY <1>0 DEF Shape, f
<1>6. \A k : k # k0 => ~Hand(t, f, k) /\ ~Hand(t, g, k)
  BY <1>2, <1>5 DEF Hand, f
<1>7. \A k : k # k0 => Quiet(t, f, g, k)
  <2>1. Removes(t, g) = Removes(t, f) /\ ~Asleep(g)
    BY <1>2 DEF Removes, Asleep, f
  <2> QED BY <1>2, <1>6, <2>1 DEF Quiet
<1>8. Hand(t, f, k0) /\ (Hand(t, g, k0) <=> pc = "row" \/ t.ev \in Regs)
  BY <1>2, <1>5 DEF Hand, f
<1> QED BY <1>1, <1>2, <1>3, <1>4, <1>7, <1>8 DEF f, Removed

\* Once the maps and the index are empty.
LEMMA RemovalEnds ==
    ASSUME PushInv, NEW t \in Tasks, NEW g, NEW k0 \in Keys \ raced, Turn(t, g), g.pc = "next",
           UNCHANGED <<stored, invalid, left>>, Hand(t, task[t], k0), Hand(t, g, k0) <=> t.ev \in Regs,
           byKey'[k0] = None, index'[k0] = None, byId' \cap RegsOf(k0) = {}, k0 \notin stale' => rows'[k0] = None
    PROVE  Cached(k0)'
<1>0. Types /\ Cached(k0) /\ Handled(t, task[t], k0)
  BY DEF PushInv, Cached
<1>1. \A u \in Tasks : Hand(u, task[u], k0) => u = t
  BY OneHand
<1>2. Current(k0)' = Current(k0)
  BY DEF Current
<1>3. CASE t.ev \in Regs
  <2>1. Handled(t, g, k0)'
    BY <1>3, PushFacts DEF Handled
  <2> QED BY <1>0, <1>1, <1>3, <2>1, HandOn
<1>4. CASE t.ev \notin Regs
  <2>1. task[t].pc \in {"clear", "row"}
    BY <1>0, <1>4, HandTouches
  <2>2. k0 \notin left => Current(k0) = None
    BY <1>0, <1>4, <2>1 DEF Handled
  <2>3. Settled(k0)'
    BY <1>2, <2>2 DEF Settled, Explained, RowOf
  <2> QED BY <1>0, <1>1, <1>4, <2>3, HandOff
<1> QED BY <1>3, <1>4

LEMMA PushClear ==
    ASSUME PushInv, NEW t \in Tasks, Clear(t)
    PROVE  PushInv'
<1>0. /\ Types /\ Filed /\ task[t].pc = "clear" /\ task[t].arg \in Regs
      /\ UNCHANGED <<stored, invalid, rows, byId, byKey, remotes, jobs, raced, left, stale>>
  BY ZenonT(60) DEF PushInv, Types, Shape, Clear, ghosts
<1>1. PICK k0 \in Keys : k0 = Reg[task[t].arg].key
  BY <1>0, PushFacts
<1>2. PICK old \in Regs \cup {None} : old = index[k0]
  BY <1>0 DEF Types
<1>3. PICK pc \in {"row", "next"} : pc = IF old # None /\ Reg[old].price /\ ~Reg[old].remote THEN "row" ELSE "next"
  OBVIOUS
<1>4. index' = [index EXCEPT ![k0] = None] /\ Set(t, [task[t] EXCEPT !.old = old, !.pc = pc])
  BY <1>1, <1>2, <1>3, Zenon DEF Clear
<1>5. old # None => old \in Regs /\ Reg[old].key = k0
  BY <1>0, <1>2 DEF Filed
<1>6. PICK g : Removed(t, task[t], g, k0, old, pc)
  <2>1. task[t].pc \in {"clear", "row"} /\ (pc = "row" => old \in Regs /\ Reg[old].key = k0)
    BY <1>0, <1>3, <1>5
  <2> QED BY <1>1, <2>1, RemovalFrame
<1>6a. /\ g = [task[t] EXCEPT !.old = old, !.pc = pc]
       /\ g \in Frame /\ Shape(t, g) /\ g.pc = pc /\ g.rest = task[t].rest /\ g.old = old
       /\ \A k : Keeps(t, task[t], g, k)
       /\ \A k : k # k0 => Quiet(t, task[t], g, k)
       /\ Hand(t, task[t], k0) /\ (Hand(t, g, k0) <=> pc = "row" \/ t.ev \in Regs)
  BY <1>6 DEF Removed
<1>7. Turn(t, g)
  BY <1>3, <1>4, <1>6a DEF Turn
<1>8. index'[k0] = None /\ index' \in [Keys -> Regs \cup {None}] /\ \A k \in Keys \ {k0} : index'[k] = index[k]
  BY <1>0, <1>4 DEF Types
<1>9. Confined(t, g, k0)
  <2>1. \A k \in Keys \ {k0} : SameCache(k)
    BY <1>0, <1>8 DEF SameCache
  <2>2. byKey \in [Keys -> Regs \cup {None}] /\ rows \in [Keys -> Regs \cup {None}] /\ byId \subseteq Regs
        /\ left \subseteq Keys /\ stale \subseteq Keys
    BY <1>0 DEF Types
  <2>3. byKey[k0] # None => Reg[byKey[k0]].key = k0
    BY <1>0 DEF Filed
  <2> QED BY <1>0, <1>6a, <1>7, <1>8, <2>1, <2>2, <2>3 DEF Confined
<1>10. ASSUME k0 \notin raced PROVE Cached(k0)'
  <2>0. Handled(t, task[t], k0) /\ Cached(k0)
    BY <1>6a, <1>10 DEF PushInv, Cached
  <2>1. /\ byKey[k0] = None /\ byId \cap RegsOf(k0) = {} /\ (k0 \notin stale => rows[k0] = RowOf(old))
        /\ k0 \notin left /\ t.ev \notin Regs => Current(k0) = None
    BY <1>0, <1>2, <2>0 DEF Handled
  <2>2. CASE pc = "row"
    <3>1. RowOf(old) = old
      BY <1>3, <2>2 DEF RowOf
    <3>2. Current(k0)' = Current(k0)
      BY <1>0 DEF Current
    <3>3. Handled(t, g, k0)'
      BY <1>0, <1>6a, <1>8, <2>1, <2>2, <3>1, <3>2 DEF Handled
    <3>4. \A u \in Tasks : Hand(u, task[u], k0) => u = t
      BY <1>6a, <1>10, OneHand
    <3> QED BY <1>0, <1>6a, <1>7, <2>0, <2>2, <3>3, <3>4, HandOn
  <2>3. CASE pc = "next"
    <3>1. RowOf(old) = None
      BY <1>3, <2>3 DEF RowOf
    <3> QED BY <1>0, <1>6a, <1>7, <1>8, <1>10, <2>1, <2>3, <3>1, RemovalEnds
  <2> QED BY <2>2, <2>3
<1> QED BY <1>9, <1>10, ConfinedStep, SMTT(60)

LEMMA PushRow ==
    ASSUME PushInv, NEW t \in Tasks, DeleteRow(t)
    PROVE  PushInv'
<1>0. /\ Types /\ Filed /\ task[t].pc = "row" /\ task[t].arg \in Regs /\ task[t] \in Frame
      /\ task[t].old \in Regs /\ Reg[task[t].old].key = Reg[task[t].arg].key
      /\ UNCHANGED <<stored, invalid, index, byId, byKey, remotes, jobs, raced, left>>
  BY DEF PushInv, Types, Shape, DeleteRow, cache
<1>1. PICK k0 \in Keys : k0 = Reg[task[t].arg].key
  BY <1>0, PushFacts
<1>2. PICK old \in Regs : old = task[t].old
  BY <1>0
<1>3. [task[t] EXCEPT !.pc = "next"] = [task[t] EXCEPT !.old = old, !.pc = "next"]
  BY <1>0, <1>2 DEF Frame
<1>4. /\ Set(t, [task[t] EXCEPT !.old = old, !.pc = "next"])
      /\ \/ rows' = [rows EXCEPT ![k0] = IF @ = old THEN None ELSE @] /\ UNCHANGED stale
         \/ UNCHANGED rows /\ stale' = stale \cup {k0}
  BY <1>0, <1>1, <1>2, <1>3, Zenon DEF DeleteRow
<1>5. PICK g : Removed(t, task[t], g, k0, old, "next")
  <2>1. /\ task[t].pc \in {"clear", "row"} /\ old \in Regs \cup {None} /\ "next" \in {"row", "next"}
        /\ "next" = "row" => old \in Regs /\ Reg[old].key = k0
    BY <1>0
  <2> QED BY <1>1, <2>1, RemovalFrame
<1>5a. /\ g = [task[t] EXCEPT !.old = old, !.pc = "next"]
       /\ g \in Frame /\ Shape(t, g) /\ g.pc = "next" /\ g.rest = task[t].rest /\ g.old = old
       /\ \A k : Keeps(t, task[t], g, k)
       /\ \A k : k # k0 => Quiet(t, task[t], g, k)
       /\ Hand(t, task[t], k0) /\ (Hand(t, g, k0) <=> "next" = "row" \/ t.ev \in Regs)
  BY <1>5 DEF Removed
<1>6. Turn(t, g)
  BY <1>4, <1>5a DEF Turn
<1>7. /\ rows' \in [Keys -> Regs \cup {None}] /\ \A k \in Keys \ {k0} : rows'[k] = rows[k]
      /\ stale \subseteq stale' /\ stale' \subseteq Keys
      /\ k0 \notin stale' => rows'[k0] = IF rows[k0] = old THEN None ELSE rows[k0]
  BY <1>0, <1>4 DEF Types
<1>8. Confined(t, g, k0)
  <2>1. \A k \in Keys \ {k0} : SameCache(k)
    BY <1>0, <1>7 DEF SameCache
  <2>2. /\ byKey \in [Keys -> Regs \cup {None}] /\ index \in [Keys -> Regs \cup {None}] /\ byId \subseteq Regs
        /\ left \subseteq Keys
    BY <1>0 DEF Types
  <2>3. (byKey[k0] # None => Reg[byKey[k0]].key = k0) /\ (index[k0] # None => Reg[index[k0]].key = k0)
    BY <1>0 DEF Filed
  <2> QED BY <1>0, <1>5a, <1>6, <1>7, <2>1, <2>2, <2>3 DEF Confined
<1>9. ASSUME k0 \notin raced PROVE Cached(k0)'
  <2>0. Handled(t, task[t], k0)
    BY <1>5a, <1>9 DEF PushInv, Cached
  <2>1. /\ byKey[k0] = None /\ index[k0] = None /\ byId \cap RegsOf(k0) = {} /\ (k0 \notin stale => rows[k0] \in {None, old})
    BY <1>0, <1>2, <2>0 DEF Handled
  <2>2. k0 \notin stale' => rows'[k0] = None
    BY <1>7, <2>1
  <2> QED BY <1>0, <1>5a, <1>6, <1>9, <2>1, <2>2, RemovalEnds
<1> QED BY <1>8, <1>9, ConfinedStep

\* The two maps agree on every key that was not raced for.
LEMMA MapsAgree ==
    ASSUME PushInv, NEW k \in Keys \ raced
    PROVE  byId \cap RegsOf(k) = {byKey[k]} \ {None}
<1>0. Types /\ Cached(k)
  BY DEF PushInv
<1>1. ASSUME NEW u \in Tasks, Hand(u, task[u], k) PROVE byId \cap RegsOf(k) = {byKey[k]} \ {None}
  <2>1. Handled(u, task[u], k) /\ Shape(u, task[u])
    BY <1>0, <1>1 DEF Cached, Types
  <2>2. task[u].pc = "index" => u.ev \in Regs /\ u.ev # None
    BY <2>1, PushFacts DEF Shape
  <2> QED BY <2>1, <2>2 DEF Handled
<1>2. ASSUME \A u \in Tasks : ~Hand(u, task[u], k) PROVE byId \cap RegsOf(k) = {byKey[k]} \ {None}
  BY <1>0, <1>2 DEF Cached, Settled
<1> QED BY <1>1, <1>2

\* The frame after the maps were looked up for r, of key k0.
Unlinked(t, f, g, r, k0, pc) ==
    /\ g = [f EXCEPT !.rest = @ \ {r}, !.arg = r, !.pc = pc]
    /\ g \in Frame /\ Shape(t, g) /\ g.pc = pc
    /\ \A k : Keeps(t, f, g, k) /\ ~Hand(t, f, k)
    /\ \A k : k # k0 => Quiet(t, f, g, k)
    /\ pc = "next" /\ t.ev \notin Regs /\ byKey[k0] # r => Quiet(t, f, g, k0)
    /\ Hand(t, g, k0) <=> pc = "clear" \/ t.ev \in Regs

LEMMA UnlinkFrame ==
    ASSUME PushInv, NEW t \in Tasks, task[t].pc = "next", NEW r \in task[t].rest, NEW k0, k0 = Reg[r].key,
           NEW pc \in {"clear", "next"}
    PROVE  \E g : Unlinked(t, task[t], g, r, k0, pc)
<1> DEFINE f == task[t]
<1>0. /\ Shape(t, f) /\ f \in Frame /\ f.todo = {} /\ f.out = {} /\ f.sent = 0 /\ f.total = 0
      /\ f.pc = "next" /\ r \in f.rest /\ r \in Regs /\ t.ev \in Events
  BY PushFacts DEF PushInv, Types, Shape, Frame
<1>1. PICK g : g = [f EXCEPT !.rest = @ \ {r}, !.arg = r, !.pc = pc]
  OBVIOUS
<1>2. /\ g \in Frame /\ g.pc = pc /\ g.rest = f.rest \ {r} /\ g.arg = r /\ g.bad = f.bad
      /\ g.todo = {} /\ g.out = {} /\ g.sent = 0 /\ g.total = 0
  BY <1>0, <1>1 DEF Frame, PCs
<1> HIDE DEF f
<1>3. Shape(t, g)
  <2>1. t.ev \in Regs => r = t.ev /\ g.rest = {}
    BY <1>0, <1>2 DEF Shape
  <2> QED BY <1>0, <1>2, <2>1, NothingSent DEF Shape
<1>4. \A k : Keeps(t, f, g, k)
  BY <1>0, <1>2 DEF Keeps, Asleep, HeldIn, InRemoval
<1>5. \A k : ~Hand(t, f, k)
  BY <1>0 DEF Hand
<1>6. t.ev \in Regs => r = t.ev /\ g.rest = {}
  BY <1>0, <1>2 DEF Shape
<1>7. Hand(t, g, k0) <=> pc = "clear" \/ t.ev \in Regs
  BY <1>2, <1>6 DEF Hand
<1>8. Removes(t, g) = g.rest /\ Removes(t, f) = f.rest /\ ~Asleep(g)
  BY <1>0, <1>2 DEF Removes, Asleep
<1>9. \A k : k # k0 => Quiet(t, f, g, k)
  <2>1. \A k : k # k0 => ~Hand(t, g, k)
    BY <1>2, <1>6 DEF Hand
  <2> QED BY <1>2, <1>5, <1>8, <2>1 DEF Quiet
<1>10. pc = "next" /\ t.ev \notin Regs /\ byKey[k0] # r => Quiet(t, f, g, k0)
  BY <1>2, <1>5, <1>7, <1>8 DEF Quiet
<1> QED BY <1>1, <1>2, <1>3, <1>4, <1>5, <1>7, <1>9, <1>10 DEF f, Unlinked

\* Whose removal it is when r is found in the cache.
LEMMA UnlinkReason ==
    ASSUME PushInv, NEW t \in Tasks, task[t].pc = "next", NEW r \in task[t].rest, NEW k0 \in Keys \ (raced \cup left),
           k0 = Reg[r].key, t.ev \notin Regs, r \in byId \/ t.ev \notin Dels, byKey[k0] # None, Settled(k0)
    PROVE  Current(k0) = None /\ (t.ev \in Posts => index[k0] = stored[k0])
<1>0. /\ Types /\ Shape(t, task[t]) /\ task[t] \in Frame /\ t.ev \in Events /\ r \in Regs /\ r # None /\ r # Topic
      /\ Company(k0) /\ ~Over(t)
  BY PushFacts DEF PushInv, Types, Frame, Over
<1>1. Explained(k0, byKey[k0]) /\ index[k0] = byKey[k0]
  BY DEF Settled
<1>2. \A u \in Tasks : ~Over(u) /\ u.ev \in Regs /\ Reg[u.ev].key = k0 => k0 \in Manages(u)
  BY DEF Manages
<1>3. k0 \in Manages(t) \cup Holds(t) => \A u \in Tasks : ~(~Over(u) /\ u.ev \in Regs /\ Reg[u.ev].key = k0)
  BY <1>0, <1>2 DEF Company
<1>4. CASE t.ev \in Posts
  <2>1. r \in HeldIn(task[t])
    BY <1>0, <1>4 DEF Shape, HeldIn
  <2>2. stored[k0] = r /\ r \in invalid
    BY <1>0, <2>1 DEF Company
  <2>3. k0 \in Holds(t)
    BY <2>1 DEF Holds, HeldIn
  <2>4. Current(k0) = None
    BY <2>2 DEF Current
  <2>5. byKey[k0] = stored[k0]
    BY <1>0, <1>1, <1>3, <2>2, <2>3, <2>4 DEF Explained
  <2> QED BY <1>1, <2>4, <2>5
<1>5. CASE t.ev \in Dels
  <2>0. t.ev \notin Posts /\ r \in Named(t.ev)
    BY <1>0, <1>5, PushFacts DEF Shape
  <2>1. k0 \in Manages(t)
    BY <1>5, <2>0 DEF Manages
  <2>2. stored[k0] # r
    BY <1>0, <1>5, <2>0, <2>1 DEF Company
  <2>3. byKey[k0] = r
    BY <1>0, <1>5 DEF Settled, RegsOf
  <2>4. stored[k0] = None
    BY <1>0, <1>1, <1>3, <2>1, <2>2, <2>3 DEF Explained, Current
  <2> QED BY <2>0, <2>4 DEF Current
<1> QED BY <1>0, <1>4, <1>5 DEF Events

LEMMA PushUnlink ==
    ASSUME PushInv, NEW t \in Tasks, NEW r \in Regs, Unlink(t, r)
    PROVE  PushInv'
<1>0. /\ Types /\ Filed /\ task[t].pc = "next" /\ r \in task[t].rest /\ t.ev \in Events /\ ~Over(t)
      /\ UNCHANGED <<stored, invalid, rows, index, remotes, jobs, raced, left, stale>> /\ Reg[r].key \in Keys /\ r # None
  BY PushFacts DEF PushInv, Unlink, ghosts, Over
<1>1. PICK k0 \in Keys : k0 = Reg[r].key
  BY <1>0
<1> DEFINE found == r \in byId \/ t.ev \notin Dels
<1>2. PICK pc \in {"clear", "next"} : pc = IF found /\ byKey[k0] # None THEN "clear" ELSE "next"
  OBVIOUS
<1>3. /\ byId' = IF found THEN byId \ {r, byKey[k0]} ELSE byId
      /\ byKey' = IF found THEN [byKey EXCEPT ![k0] = None] ELSE byKey
      /\ Set(t, [task[t] EXCEPT !.rest = @ \ {r}, !.arg = r, !.pc = pc])
  BY <1>1, <1>2, Zenon DEF Unlink
<1>4. PICK g : Unlinked(t, task[t], g, r, k0, pc)
  BY <1>0, <1>1, UnlinkFrame
<1>5. /\ g = [task[t] EXCEPT !.rest = @ \ {r}, !.arg = r, !.pc = pc]
      /\ g \in Frame /\ Shape(t, g) /\ g.pc = pc
      /\ \A k : Keeps(t, task[t], g, k) /\ ~Hand(t, task[t], k)
      /\ \A k : k # k0 => Quiet(t, task[t], g, k)
      /\ pc = "next" /\ t.ev \notin Regs /\ byKey[k0] # r => Quiet(t, task[t], g, k0)
      /\ Hand(t, g, k0) <=> pc = "clear" \/ t.ev \in Regs
  BY <1>4 DEF Unlinked
<1>6. Turn(t, g)
  BY <1>3, <1>5 DEF Turn
<1>7. /\ byKey' \in [Keys -> Regs \cup {None}] /\ \A k \in Keys \ {k0} : byKey'[k] = byKey[k]
      /\ byKey'[k0] = IF found THEN None ELSE byKey[k0]
  BY <1>0, <1>3 DEF Types
<1>8. byKey[k0] # None => byKey[k0] \in RegsOf(k0)
  BY <1>0, StoredOf
<1>9. Confined(t, g, k0)
  <2>1. \A k \in Keys \ {k0} : byId' \cap RegsOf(k) = byId \cap RegsOf(k)
    <3>1. \A k \in Keys \ {k0} : r \notin RegsOf(k) /\ byKey[k0] \notin RegsOf(k)
      BY <1>0, <1>1, <1>8, PushFacts DEF RegsOf
    <3> QED BY <1>3, <3>1
  <2>2. \A k \in Keys \ {k0} : SameCache(k)
    BY <1>0, <1>7, <2>1 DEF SameCache
  <2>3. index \in [Keys -> Regs \cup {None}] /\ rows \in [Keys -> Regs \cup {None}] /\ byId' \subseteq Regs
        /\ left \subseteq Keys /\ stale \subseteq Keys
    BY <1>0, <1>3 DEF Types
  <2>4. (byKey'[k0] # None => Reg[byKey'[k0]].key = k0) /\ (index[k0] # None => Reg[index[k0]].key = k0)
    BY <1>0, <1>7 DEF Filed
  <2> QED BY <1>0, <1>5, <1>6, <1>7, <2>2, <2>3, <2>4 DEF Confined
<1>10. ASSUME k0 \notin raced PROVE Cached(k0)'
  <2>0. Company(k0) /\ Cached(k0) /\ byId \cap RegsOf(k0) = {byKey[k0]} \ {None} /\ r \in RegsOf(k0)
    BY <1>0, <1>1, <1>10, MapsAgree DEF PushInv, RegsOf
  <2>1. CASE pc = "next" /\ t.ev \notin Regs
    <3>1. byKey[k0] # r
      BY <1>0, <1>2, <2>0, <2>1
    <3>2. byKey'[k0] = byKey[k0] /\ byId' \cap RegsOf(k0) = byId \cap RegsOf(k0)
      BY <1>2, <1>3, <1>7, <2>0, <2>1
    <3>3. SameCache(k0) /\ SameRight(k0)
      BY <1>0, <3>2 DEF SameCache, SameRight
    <3>4. \A u \in Tasks : Quiet(u, task[u], task'[u], k0)
      BY <1>0, <1>5, <1>6, <2>1, <3>1, OneKeeps
    <3>5. Types'
      BY <1>9, ConfinedStep
    <3> QED BY <1>0, <2>0, <3>3, <3>4, <3>5, CachedFrame
  <2>2. CASE pc = "clear" \/ t.ev \in Regs
    <3>1. found
      BY <1>2, <2>2, PushFacts
    <3>2. \A u \in Tasks : ~Hand(u, task[u], k0)
      <4>1. SUFFICES ASSUME NEW u \in Tasks, Hand(u, task[u], k0) PROVE FALSE
        OBVIOUS
      <4>2. k0 \notin Manages(t)
        BY <1>0, <1>5, <1>10, <4>1, OneHand
      <4>3. t.ev \in Posts
        <5>1. Shape(t, task[t])
          BY <1>0 DEF Types
        <5>2. t.ev \in Regs => r = t.ev
          BY <1>0, <5>1 DEF Shape
        <5>3. t.ev \in Dels => r \in Named(t.ev)
          BY <1>0, <5>1 DEF Shape
        <5> QED BY <1>0, <1>1, <4>2, <5>2, <5>3, PushFacts DEF Manages, Events
      <4>4. byKey[k0] # None
        BY <1>2, <2>2, <4>3, PushFacts
      <4>5. Handled(u, task[u], k0) /\ Shape(u, task[u])
        BY <1>0, <2>0, <4>1 DEF Cached, Types
      <4>6. task[u].pc = "index" /\ u.ev \in Regs
        BY <4>4, <4>5 DEF Handled, Shape
      <4>7. ~Over(u) /\ k0 \in Manages(u)
        BY <1>0, <4>1, <4>6, HandTouches, PushFacts
      <4>8. k0 \in Holds(t)
        <5>1. Shape(t, task[t])
          BY <1>0 DEF Types
        <5>2. r \in task[t].bad /\ r # Topic
          BY <1>0, <4>3, <5>1, PushFacts DEF Shape
        <5> QED BY <1>1, <5>2 DEF Holds
      <4>9. u = t
        BY <1>0, <2>0, <4>7, <4>8 DEF Company
      <4> QED BY <1>5, <4>1, <4>9
    <3>3. Settled(k0)
      BY <2>0, <3>2 DEF Cached
    <3>4. byKey'[k0] = None /\ byId' \cap RegsOf(k0) = {}
      BY <1>3, <1>7, <2>0, <3>1
    <3>5. index[k0] = byKey[k0] /\ (k0 \notin stale => rows[k0] = RowOf(index[k0]))
      BY <3>3 DEF Settled
    <3>6. Current(k0)' = Current(k0)
      BY <1>0 DEF Current
    <3>7. CASE pc = "clear"
      <4>1. k0 \notin left /\ t.ev \notin Regs => Current(k0) = None /\ (t.ev \in Posts => index[k0] = stored[k0])
        BY <1>0, <1>1, <1>2, <1>10, <3>1, <3>3, <3>7, UnlinkReason
      <4>2. t.ev \in Regs => t.ev \notin Posts
        BY PushFacts
      <4>3. Handled(t, g, k0)'
        BY <1>0, <1>5, <3>4, <3>5, <3>6, <3>7, <4>1, <4>2 DEF Handled
      <4> QED BY <1>0, <1>5, <1>6, <2>0, <2>2, <3>2, <4>3, HandOn
    <3>8. CASE pc = "next"
      <4>1. byKey[k0] = None /\ t.ev \in Regs /\ t.ev \notin Posts
        BY <1>2, <2>2, <3>1, <3>8, PushFacts
      <4>2. Handled(t, g, k0)'
        BY <1>0, <1>5, <3>4, <3>5, <3>8, <4>1 DEF Handled, RowOf
      <4> QED BY <1>0, <1>5, <1>6, <2>0, <2>2, <3>2, <4>2, HandOn
    <3> QED BY <3>7, <3>8
  <2> QED BY <2>1, <2>2
<1> QED BY <1>9, <1>10, ConfinedStep

-----------------------------------------------------------------------------
(* A new event, and the restart.                                           *)

LEMMA ManagesKeys == \A t \in Tasks : Manages(t) \subseteq Keys /\ (t.ev \in Posts => Manages(t) = {})
BY PushFacts DEF Manages

\* A new event starts its task.
LEMMA PublishFrame ==
    ASSUME PushInv, NEW e \in Events, Publish(e), NEW t \in Tasks, t = Task(e)
    PROVE  \E g :
             /\ t.ev = e /\ g = [Idle EXCEPT !.pc = "queued"] /\ task[t].pc = "new"
             /\ Turn(t, g) /\ g.pc = "queued" /\ HeldIn(g) = {} /\ g.rest = {} /\ task[t].rest = {}
             /\ \A k : ~Hand(t, task[t], k) /\ ~Hand(t, g, k)
             /\ \A k : k \notin Manages(t) => Keeps(t, task[t], g, k)
             /\ \A k : Quiet(t, task[t], g, k)
<1>1. t.ev = e
  BY PushFacts
<1>2. PICK g : g = [Idle EXCEPT !.pc = "queued"]
  OBVIOUS
<1>3. g \in Frame /\ Calm(g) /\ g.pc = "queued"
  BY <1>2, IdleFrames DEF Idle
<1>4. Turn(t, g) /\ task[t].pc = "new"
  BY <1>1, <1>2, <1>3, CalmShape DEF Turn, Publish
<1>5. HeldIn(g) = {} /\ g.rest = {} /\ task[t].rest = {}
  BY <1>3, <1>4 DEF Calm, HeldIn, PushInv, Types, Shape
<1>6. \A k : ~Hand(t, task[t], k) /\ ~Hand(t, g, k)
  BY <1>3, <1>4 DEF Hand
<1>7. \A k : k \notin Manages(t) => Keeps(t, task[t], g, k)
  BY <1>5 DEF Keeps
<1>8. \A k : Quiet(t, task[t], g, k)
  BY <1>4, <1>5, <1>6 DEF Quiet, Asleep
<1> QED BY <1>1, <1>2, <1>3, <1>4, <1>5, <1>6, <1>7, <1>8

\* A key nobody works on has no hands on it and no holders.
LEMMA Untouched ==
    ASSUME Types, NEW k, k \notin Touched
    PROVE  \A u \in Tasks : /\ ~Hand(u, task[u], k) /\ k \notin Holds(u) /\ (k \in Manages(u) => Over(u))
                            /\ \A d \in HeldIn(task[u]) : Reg[d].key # k
<1>1. SUFFICES ASSUME NEW u \in Tasks
               PROVE  /\ ~Hand(u, task[u], k) /\ k \notin Holds(u) /\ (k \in Manages(u) => Over(u))
                      /\ \A d \in HeldIn(task[u]) : Reg[d].key # k
  OBVIOUS
<1>2. ~Over(u) => k \notin Manages(u) /\ k \notin Holds(u)
  BY DEF Touched
<1>3. k \notin Holds(u)
  BY <1>2, HoldersAwake
<1>4. ~Hand(u, task[u], k)
  BY <1>2, HandTouches
<1>5. \A d \in HeldIn(task[u]) : Reg[d].key # k
  BY <1>3 DEF Holds, HeldIn
<1> QED BY <1>2, <1>3, <1>4, <1>5

LEMMA PushPublish ==
    ASSUME PushInv, NEW e \in Events, Publish(e)
    PROVE  PushInv'
<1>0. Types /\ Filed /\ UNCHANGED <<invalid, rows, byId, byKey, index, remotes, jobs, stale>>
  BY DEF PushInv, Publish, cache
<1>a. PICK t \in Tasks : t = Task(e)
  BY PushFacts
<1>b. PICK g :
             /\ t.ev = e /\ g = [Idle EXCEPT !.pc = "queued"] /\ task[t].pc = "new"
             /\ Turn(t, g) /\ g.pc = "queued" /\ HeldIn(g) = {} /\ g.rest = {} /\ task[t].rest = {}
             /\ \A k : ~Hand(t, task[t], k) /\ ~Hand(t, g, k)
             /\ \A k : k \notin Manages(t) => Keeps(t, task[t], g, k)
             /\ \A k : Quiet(t, task[t], g, k)
  BY <1>a, PublishFrame
<1>1. /\ t = Task(e) /\ t.ev = e /\ g = [Idle EXCEPT !.pc = "queued"] /\ task[t].pc = "new"
      /\ Turn(t, g) /\ g.pc = "queued" /\ HeldIn(g) = {} /\ g.rest = {} /\ task[t].rest = {}
      /\ \A k : ~Hand(t, task[t], k) /\ ~Hand(t, g, k)
      /\ \A k : k \notin Manages(t) => Keeps(t, task[t], g, k)
      /\ \A k : Quiet(t, task[t], g, k)
  BY <1>a, <1>b
<1>2. /\ task'[t] = g /\ \A u \in Tasks : u # t => task'[u] = task[u]
      /\ task' \in [Tasks -> Frame] /\ \A u \in Tasks : Shape(u, task'[u])
      /\ \A u \in Tasks : task[u].pc # "new" => task'[u].pc # "new"
  BY <1>0, <1>1, OneTask
<1>3. /\ DOMAIN stored' = Keys
      /\ \A k \in Keys : stored'[k] = IF e \in Regs /\ Reg[e].key = k /\ (Reg[e].here \/ Reg[e].remote) THEN e
                                      ELSE IF e \in Dels /\ stored[k] \in Owned(e) THEN None ELSE stored[k]
      /\ stored' \in [Keys -> Regs \cup {None}]
  BY <1>0 DEF Types, Publish
<1>4. /\ left' = IF e \in Regs
                 THEN IF Reg[e].here \/ Reg[e].remote THEN left \ {Reg[e].key} ELSE left \cup {Reg[e].key}
                 ELSE IF e \in Dels THEN left \cup {k \in Keys : (stored[k] \in Owned(e)) # (stored[k] \in Named(e))}
                 ELSE left
      /\ raced' = raced \cup (Manages(t) \cap Touched)
  BY <1>1 DEF Publish
<1>5. Types'
  <2>1. left' \subseteq Keys /\ raced' \subseteq Keys
    BY <1>0, <1>4, ManagesKeys, PushFacts DEF Types
  <2> QED BY <1>0, <1>2, <1>3, <2>1 DEF Types
<1>6. Filed'
  <2>1. \A x \in Events : Task(x) \in Tasks
    BY PushFacts
  <2>2. \A x \in Events : task[Task(x)].pc # "new" => task'[Task(x)].pc # "new"
    BY <1>2, <2>1
  <2>3. task'[Task(e)].pc # "new"
    BY <1>1, <1>2
  <2>4. \A r \in invalid : r \in Events
    BY <1>0 DEF Types, Events
  <2>5. ASSUME NEW k \in Keys, stored'[k] # None
        PROVE  /\ Reg[stored'[k]].key = k /\ task'[Task(stored'[k])].pc # "new"
               /\ Reg[stored'[k]].here \/ Reg[stored'[k]].remote
    <3>1. CASE stored'[k] = e /\ Reg[e].key = k /\ (Reg[e].here \/ Reg[e].remote)
      BY <2>3, <3>1
    <3>2. CASE stored'[k] = stored[k]
      <4>1. stored[k] \in Events
        BY <1>0, <2>5, <3>2 DEF Types, Events
      <4> QED BY <1>0, <2>2, <2>5, <3>2, <4>1 DEF Filed
    <3> QED BY <1>3, <2>5, <3>1, <3>2
  <2>6. \A r \in invalid : task'[Task(r)].pc # "new"
    BY <1>0, <2>2, <2>4 DEF Filed
  <2> QED BY <1>0, <2>5, <2>6 DEF Filed, Task
<1>7. ASSUME NEW k \in Keys \ raced', k \notin Manages(t) PROVE Company(k)' /\ Cached(k)'
  <2>0. Company(k) /\ Cached(k) /\ k \in Keys
    BY <1>4 DEF PushInv
  <2>1. k \in left' \/ stored'[k] = stored[k]
    <3>1. e \in Regs => Reg[e].key # k
      BY <1>1, <1>7 DEF Manages
    <3>2. e \in Dels => stored[k] \notin Named(e)
      <4>1. SUFFICES ASSUME e \in Dels, stored[k] \in Named(e) PROVE FALSE
        OBVIOUS
      <4>2. Reg[stored[k]].key = k
        BY <1>0, <4>1, PushFacts DEF Filed
      <4> QED BY <1>1, <1>7, <4>1, <4>2, PushFacts DEF Manages
    <3> QED BY <1>3, <1>4, <3>1, <3>2, PushFacts
  <2>2. SameRight(k) /\ SameCache(k)
    <3>1. e \in Regs => Reg[e].key # k
      BY <1>1, <1>7 DEF Manages
    <3> QED BY <1>0, <1>4, <2>1, <3>1 DEF SameRight, SameCache
  <2>3. \A u \in Tasks : Keeps(u, task[u], task'[u], k) /\ Quiet(u, task[u], task'[u], k)
    BY <1>0, <1>1, <1>7, OneKeeps
  <2>4. Company(k)'
    BY <1>0, <1>5, <2>0, <2>2, <2>3, CompanyFrame
  <2>5. Cached(k)'
    BY <1>0, <1>5, <2>0, <2>2, <2>3, CachedFrame
  <2> QED BY <2>4, <2>5
<1>8. ASSUME NEW k \in Keys \ raced', k \in Manages(t) PROVE Company(k)' /\ Cached(k)'
  <2>0. Company(k) /\ Cached(k) /\ k \in Keys /\ k \notin Touched
    BY <1>4, <1>8 DEF PushInv
  <2>1. \A u \in Tasks : /\ ~Hand(u, task[u], k) /\ k \notin Holds(u) /\ (k \in Manages(u) => Over(u))
                         /\ \A d \in HeldIn(task[u]) : Reg[d].key # k
    BY <1>0, <2>0, Untouched
  <2>2. \A u \in Tasks : /\ ~Over(u)' /\ k \in Manages(u) => u = t
                         /\ \A d \in HeldIn(task'[u]) : Reg[d].key # k
                         /\ ~Hand(u, task'[u], k)
    <3>1. ASSUME NEW u \in Tasks PROVE /\ ~Over(u)' /\ k \in Manages(u) => u = t
                                       /\ \A d \in HeldIn(task'[u]) : Reg[d].key # k
                                       /\ ~Hand(u, task'[u], k)
      BY <1>1, <1>2, <2>1 DEF Over
    <3> QED BY <3>1
  <2>3. \A u \in Tasks : k \notin Holds(u)'
    BY <2>2 DEF Holds, HeldIn
  <2>4. e \in Regs \cup Dels /\ (e \in Regs => Reg[e].key = k /\ e \notin Dels)
    BY <1>1, <1>8, PushFacts DEF Manages
  <2>5. Company(k)'
    <3>1. e \in Regs => e \notin invalid /\ (k \notin left' => stored'[k] = e)
      BY <1>0, <1>1, <1>3, <1>4, <2>4 DEF Filed
    <3>2. e \in Dels => k \in left' \/ stored'[k] \notin Named(e)
      <4>1. e \in Dels => e \notin Regs /\ None \notin Named(e)
        BY PushFacts
      <4> QED BY <1>3, <1>4, <2>0, <4>1
    <3>3. ASSUME NEW u \in Tasks, ~Over(u)', k \in Manages(u)
          PROVE  /\ u.ev \in Regs => u.ev \notin invalid' /\ (k \notin left' => stored'[k] = u.ev)
                 /\ u.ev \in Dels => k \in left' \/ stored'[k] \notin Named(u.ev)
      <4>1. u.ev = e
        BY <1>1, <2>2, <3>3
      <4> QED BY <1>0, <3>1, <3>2, <4>1
    <3>4. \A x, u \in Tasks : ~Over(x)' /\ ~Over(u)' /\ k \in Manages(x) /\ k \in Manages(u) \cup Holds(u)' => u = x
      BY <2>2, <2>3
    <3> QED BY <2>2, <3>3, <3>4 DEF Company, Manages
  <2>6. Settled(k)'
    <3>0. Settled(k)
      BY <2>0, <2>1 DEF Cached
    <3>1. ASSUME k \notin left' PROVE Explained(k, byKey[k])'
      <4>0. ~Over(t)' /\ t.ev = e
        BY <1>1, <1>2 DEF Over
      <4>1. CASE e \in Regs
        BY <2>4, <4>0, <4>1 DEF Explained
      <4>2. CASE e \in Dels
        <5>0. /\ e \notin Regs /\ e \notin Posts /\ None \notin Named(e) /\ Explained(k, byKey[k])
              /\ stored'[k] = IF stored[k] \in Named(e) THEN None ELSE stored[k]
          <6>1. e \notin Regs /\ e \notin Posts /\ None \notin Named(e)
            BY <4>2, PushFacts
          <6> QED BY <1>3, <1>4, <2>0, <3>0, <3>1, <4>2, <6>1 DEF Settled
        <5>1. CASE byKey[k] = Current(k)
          <6>1. CASE stored[k] \in Named(e)
            <7>1. stored'[k] = None /\ Current(k)' = None
              BY <5>0, <6>1 DEF Current
            <7>2. Removes(t, task'[t]) = Named(e)
              BY <1>1, <1>2, <4>2 DEF Removes
            <7>3. byKey'[k] = byKey[k] /\ (byKey[k] = None \/ byKey[k] \in Named(e))
              BY <1>0, <5>1, <6>1 DEF Current
            <7> QED BY <4>0, <4>2, <7>1, <7>2, <7>3 DEF Explained
          <6>2. CASE stored[k] \notin Named(e)
            BY <1>0, <5>0, <5>1, <6>2 DEF Explained, Current
          <6> QED BY <6>1, <6>2
        <5>2. ASSUME NEW u \in Tasks, ~Over(u), u.ev \in Regs, Reg[u.ev].key = k PROVE FALSE
          BY <2>1, <5>2 DEF Manages
        <5>3. ASSUME NEW u \in Tasks, u.ev \in Dels, byKey[k] \in Removes(u, task[u]), ~Over(u), stored[k] = None
              PROVE  Explained(k, byKey[k])'
          <6>1. task'[u] = task[u] /\ stored'[k] = None
            BY <1>1, <1>2, <5>0, <5>3 DEF Over
          <6>2. ~Over(u)' /\ byKey'[k] \in Removes(u, task'[u])
            BY <1>0, <5>3, <6>1 DEF Over
          <6> QED BY <5>3, <6>1, <6>2 DEF Explained
        <5>4. ASSUME NEW u \in Tasks, u.ev \in Posts, byKey[k] \in task[u].rest, stored[k] = byKey[k], byKey[k] \in invalid
              PROVE  FALSE
          <6>1. byKey[k] \in Regs /\ byKey[k] # None /\ byKey[k] # Topic
            BY <1>0, <5>4, PushFacts DEF Types
          <6>2. byKey[k] \in HeldIn(task[u])
            BY <1>0, <5>4, <6>1 DEF Types, Shape, HeldIn
          <6> QED BY <1>0, <2>0, <2>1, <6>1, <6>2 DEF Filed
        <5> QED BY <5>0, <5>1, <5>2, <5>3, <5>4 DEF Explained
      <4> QED BY <2>4, <4>1, <4>2
    <3> QED BY <1>0, <3>0, <3>1 DEF Settled
  <2>7. Cached(k)'
    BY <2>2, <2>6 DEF Cached
  <2> QED BY <2>5, <2>7
<1> QED BY <1>5, <1>6, <1>7, <1>8 DEF PushInv

\* What is cached under a key nobody works on.
LEMMA UntouchedSettled ==
    ASSUME PushInv, NEW k \in Keys \ (Touched \cup raced \cup left)
    PROVE  Settled(k) /\ byKey[k] = Current(k)
<1>0. Types /\ Filed /\ Cached(k) /\ k \notin Touched
  BY DEF PushInv
<1>1. \A u \in Tasks : /\ ~Hand(u, task[u], k) /\ k \notin Holds(u) /\ (k \in Manages(u) => Over(u))
                       /\ \A d \in HeldIn(task[u]) : Reg[d].key # k
  BY <1>0, Untouched
<1>2. Settled(k) /\ Explained(k, byKey[k])
  BY <1>0, <1>1 DEF Cached, Settled
<1>3. ASSUME NEW u \in Tasks, ~Over(u), u.ev \in Regs, Reg[u.ev].key = k PROVE FALSE
  BY <1>1, <1>3 DEF Manages
<1>4. ASSUME NEW u \in Tasks, u.ev \in Dels, byKey[k] \in Removes(u, task[u]), ~Over(u) PROVE FALSE
  <2>1. byKey[k] \in Named(u.ev) /\ u.ev \notin Regs
    BY <1>0, <1>4, PushFacts DEF Types, Shape, Removes
  <2>2. Reg[byKey[k]].key = k
    BY <1>0, <1>4, <2>1, PushFacts DEF Filed
  <2> QED BY <1>1, <1>4, <2>1, <2>2 DEF Manages
<1>5. ASSUME NEW u \in Tasks, u.ev \in Posts, byKey[k] \in task[u].rest, byKey[k] \in invalid PROVE FALSE
  <2>1. byKey[k] \in Regs /\ byKey[k] # None /\ byKey[k] # Topic
    BY <1>0, <1>5, PushFacts DEF Types
  <2>2. byKey[k] \in HeldIn(task[u])
    BY <1>0, <1>5, <2>1, SMTT(60) DEF Types, Shape, HeldIn
  <2> QED BY <1>0, <1>1, <2>1, <2>2 DEF Filed
<1> QED BY <1>2, <1>3, <1>4, <1>5 DEF Explained

\* Every task is calm after a restart, and none of them manages a key.
LEMMA RestartTasks ==
    ASSUME Types,
           task' = [t \in Tasks |-> IF Over(t) THEN task[t]
                                    ELSE [Idle EXCEPT !.pc = IF t.pub = None THEN "done" ELSE "queued", !.tries = task[t].tries]]
    PROVE  /\ task' \in [Tasks -> Frame]
           /\ \A t \in Tasks : /\ Shape(t, task'[t]) /\ Calm(task'[t]) /\ task'[t].pc \in {"new", "done", "queued"}
                               /\ task[t].pc # "new" => task'[t].pc # "new"
                               /\ task'[t].pc = "queued" => Manages(t) = {}
<1>1. ASSUME NEW t \in Tasks
      PROVE  /\ task'[t] \in Frame /\ Shape(t, task'[t]) /\ Calm(task'[t]) /\ task'[t].pc \in {"new", "done", "queued"}
             /\ task[t].pc # "new" => task'[t].pc # "new"
             /\ task'[t].pc = "queued" => Manages(t) = {}
  <2>0. task[t] \in Frame /\ Shape(t, task[t]) /\ task[t].tries \in Nat
    BY ZenonT(60) DEF Types, Frame
  <2>1. CASE Over(t)
    BY <2>0, <2>1 DEF Over, Shape, Calm
  <2>2. CASE ~Over(t) /\ t.pub = None
    <3>1. task'[t] = [Idle EXCEPT !.pc = "done", !.tries = task[t].tries]
      BY <2>2
    <3>2. task'[t].pc = "done"
      BY <3>1 DEF Idle
    <3> QED BY <2>0, <3>1, <3>2, IdleFrames, CalmShape, ZenonT(60)
  <2>3. CASE ~Over(t) /\ t.pub # None
    <3>1. task'[t] = [Idle EXCEPT !.pc = "queued", !.tries = task[t].tries]
      BY <2>3
    <3>2. task'[t].pc = "queued" /\ Manages(t) = {}
      BY <2>3, <3>1, PushFacts, ManagesKeys DEF Idle
    <3> QED BY <2>0, <3>1, <3>2, IdleFrames, CalmShape
  <2> QED BY <2>1, <2>2, <2>3
<1> QED BY <1>1

LEMMA PushRestart ==
    ASSUME PushInv, Restart
    PROVE  PushInv'
<1>0. Types /\ Filed /\ UNCHANGED <<stored, invalid, jobs>> /\ remotes' = {} /\ raced' = {}
  BY DEF PushInv, Restart
<1>1. /\ task' \in [Tasks -> Frame]
      /\ \A t \in Tasks : /\ Shape(t, task'[t]) /\ Calm(task'[t]) /\ task'[t].pc \in {"new", "done", "queued"}
                          /\ task[t].pc # "new" => task'[t].pc # "new"
                          /\ task'[t].pc = "queued" => Manages(t) = {}
  BY <1>0, RestartTasks DEF Restart
<1>2. PICK failed \in SUBSET {k \in Keys : Loaded(k) /\ Reg[stored[k]].price} :
       LET now == [k \in Keys |-> IF Loaded(k) /\ k \notin failed THEN stored[k] ELSE None] IN
       /\ byId' = {now[k] : k \in Keys} \ {None} /\ byKey' = now /\ index' = now
       /\ rows' = [k \in Keys |-> IF now[k] # None /\ Reg[now[k]].price THEN now[k] ELSE rows[k]]
       /\ stale' = stale \cup raced \cup left \cup Touched \cup failed
       /\ left' = failed \cup {k \in Keys : stored[k] # None /\ Reg[stored[k]].remote}
  BY DEF Restart
<1>3. PICK now \in [Keys -> Regs \cup {None}] : now = [k \in Keys |-> IF Loaded(k) /\ k \notin failed THEN stored[k] ELSE None]
  BY <1>0 DEF Types
<1>4. /\ byId' = {now[k] : k \in Keys} \ {None} /\ byKey' = now /\ index' = now
      /\ rows' = [k \in Keys |-> IF now[k] # None /\ Reg[now[k]].price THEN now[k] ELSE rows[k]]
      /\ stale' = stale \cup raced \cup left \cup Touched \cup failed
      /\ left' = failed \cup {k \in Keys : stored[k] # None /\ Reg[stored[k]].remote}
  BY <1>2, <1>3, Zenon
<1>5. \A k \in Keys : /\ now[k] = IF Loaded(k) /\ k \notin failed THEN stored[k] ELSE None
                      /\ now[k] # None => Reg[now[k]].key = k /\ now[k] \in Regs
  BY <1>0, <1>3 DEF Filed, Types
<1>6. Types'
  <2>1. Touched \subseteq Keys
    <3>1. \A t \in Tasks : Holds(t) \subseteq Keys
      BY <1>0, PushFacts DEF Holds, Types, Frame, Targets
    <3> QED BY <3>1, ManagesKeys DEF Touched
  <2>2. byId' \subseteq Regs /\ rows' \in [Keys -> Regs \cup {None}]
    BY <1>0, <1>4, <1>5 DEF Types
  <2>3. stale' \subseteq Keys /\ left' \subseteq Keys
    BY <1>0, <1>4, <2>1 DEF Types
  <2> QED BY <1>0, <1>1, <1>4, <2>2, <2>3 DEF Types
<1>7. Filed'
  <2>1. \A x \in Events : Task(x) \in Tasks
    BY PushFacts
  <2>2. \A x \in Events : task[Task(x)].pc # "new" => task'[Task(x)].pc # "new"
    BY <1>1, <2>1
  <2>3. (\A r \in invalid : r \in Events) /\ \A k \in Keys : stored[k] # None => stored[k] \in Events
    BY <1>0 DEF Types, Events
  <2>4. \A k \in Keys : (byKey'[k] # None => Reg[byKey'[k]].key = k) /\ (index'[k] # None => Reg[index'[k]].key = k)
    BY <1>4, <1>5
  <2> QED BY <1>0, <2>2, <2>3, <2>4 DEF Filed, Task
<1>8. ASSUME NEW k \in Keys PROVE Company(k)' /\ Cached(k)'
  <2>1. \A t \in Tasks : HeldIn(task'[t]) = {} /\ Holds(t)' = {} /\ ~Hand(t, task'[t], k)
                         /\ (~Over(t)' => Manages(t) = {})
    <3>1. ASSUME NEW t \in Tasks PROVE HeldIn(task'[t]) = {} /\ Holds(t)' = {}
      BY <1>1 DEF Calm, HeldIn, Holds
    <3>2. ASSUME NEW t \in Tasks PROVE ~Hand(t, task'[t], k)
      BY <1>1 DEF Hand
    <3>3. ASSUME NEW t \in Tasks, ~Over(t)' PROVE Manages(t) = {}
      BY <1>1, <3>3 DEF Over
    <3> QED BY <3>1, <3>2, <3>3
  <2>2. Company(k)'
    BY <2>1 DEF Company, Manages
  <2>3. byId' \cap RegsOf(k) = {now[k]} \ {None}
    <3>1. \A j \in Keys : now[j] # None => (now[j] \in RegsOf(k) <=> j = k)
      BY <1>5 DEF RegsOf
    <3> QED BY <1>4, <3>1
  <2>4. stored[k] # None => /\ Reg[stored[k]].here \/ Reg[stored[k]].remote
                            /\ (Loaded(k) <=> ~Reg[stored[k]].remote /\ stored[k] \notin invalid)
    BY <1>0 DEF Filed, Loaded
  <2>5. stored[k] = None => ~Loaded(k) /\ Current(k) = None
    BY DEF Loaded, Current
  <2>6. ASSUME k \notin left' PROVE now[k] = Current(k)
    <3>1. k \notin failed /\ (stored[k] # None => ~Reg[stored[k]].remote)
      BY <1>4, <2>6
    <3> QED BY <1>5, <2>4, <2>5, <3>1 DEF Current
  <2>7. ASSUME k \notin stale' PROVE rows'[k] = RowOf(now[k])
    <3>1. k \in Keys \ (Touched \cup raced \cup left) /\ k \notin stale /\ k \notin failed
      BY <1>4, <2>7
    <3>2. rows[k] = RowOf(Current(k))
      BY <3>1, UntouchedSettled DEF Settled
    <3>3. rows'[k] = IF now[k] # None /\ Reg[now[k]].price THEN now[k] ELSE rows[k]
      BY <1>4
    <3>4. CASE now[k] # None
      <4>1. now[k] = stored[k] /\ ~Reg[stored[k]].remote /\ Current(k) = stored[k] /\ stored[k] # None
        BY <1>5, <3>4 DEF Loaded, Current
      <4> QED BY <3>2, <3>3, <4>1 DEF RowOf
    <3>5. CASE now[k] = None
      <4>1. RowOf(Current(k)) = None
        BY <1>5, <2>4, <2>5, <3>1, <3>5 DEF Current, RowOf
      <4> QED BY <3>2, <3>3, <3>5, <4>1 DEF RowOf
    <3> QED BY <3>4, <3>5
  <2>8. Current(k)' = Current(k) /\ byKey'[k] = now[k] /\ index'[k] = now[k]
    BY <1>0, <1>4 DEF Current
  <2>9. Settled(k)'
    BY <2>3, <2>6, <2>7, <2>8 DEF Settled, Explained
  <2>10. Cached(k)'
    BY <2>1, <2>9 DEF Cached
  <2> QED BY <2>2, <2>10
<1> QED BY <1>6, <1>7, <1>8 DEF PushInv

LEMMA PushInit ==
    ASSUME Init
    PROVE  PushInv
<1>0. task = [t \in Tasks |-> Idle] /\ \A t \in Tasks : task[t] = Idle
  BY DEF Init
<1>1. Idle.pc = "new" /\ Idle \in Frame /\ Calm(Idle)
  BY IdleFrames DEF Idle
<1>2. \A t \in Tasks : Shape(t, Idle)
  BY <1>1, CalmShape
<1>3. Types
  BY <1>0, <1>1, <1>2 DEF Init, Types
<1>4. Filed
  BY DEF Init, Filed
<1>5. ASSUME NEW k \in Keys PROVE Company(k) /\ Cached(k)
  <2>1. HeldIn(Idle) = {}
    BY <1>1 DEF Calm, HeldIn
  <2>2. \A t \in Tasks : Over(t) /\ ~Hand(t, task[t], k)
    BY <1>0, <1>1 DEF Over, Hand
  <2>3. Company(k)
    BY <1>0, <2>1, <2>2 DEF Company
  <2>4. Settled(k)
    BY DEF Init, Settled, Explained, Current, RowOf
  <2> QED BY <2>2, <2>3, <2>4 DEF Cached
<1> QED BY <1>3, <1>4, <1>5 DEF PushInv

LEMMA PushCurrent ==
    ASSUME PushInv
    PROVE  CacheCurrent
<1>0. Types /\ Filed
  BY DEF PushInv
<1>1. TypeOK
  BY <1>0 DEF Types, TypeOK, Frame, Shape
<1>2. ASSUME NEW k \in Keys \ (Touched \cup raced \cup left)
      PROVE  LET r == IF stored[k] \in invalid THEN None ELSE stored[k] IN
             /\ byKey[k] = r /\ index[k] = r
             /\ byId \cap RegsOf(k) = {r} \ {None}
             /\ k \notin stale => rows[k] = IF r # None /\ Reg[r].price /\ ~Reg[r].remote THEN r ELSE None
  <2>1. Settled(k) /\ byKey[k] = Current(k)
    BY UntouchedSettled
  <2> QED BY <2>1 DEF Settled, Current, RowOf
<1> QED BY <1>1, <1>2 DEF CacheCurrent

LEMMA PushStutter ==
    ASSUME PushInv, UNCHANGED vars
    PROVE  PushInv'
<1>1. /\ stored' = stored /\ invalid' = invalid /\ rows' = rows /\ byId' = byId /\ byKey' = byKey /\ index' = index
      /\ task' = task /\ remotes' = remotes /\ jobs' = jobs /\ raced' = raced /\ left' = left /\ stale' = stale
  BY DEF vars
<1>2. Types' /\ Filed'
  BY <1>1 DEF PushInv, Types, Filed, Task
<1>3. ASSUME NEW k \in Keys \ raced' PROVE Company(k)' /\ Cached(k)'
  <2>1. Types /\ Filed /\ Company(k) /\ Cached(k) /\ k \in Keys /\ SameRight(k) /\ SameCache(k)
    BY <1>1 DEF PushInv, SameRight, SameCache
  <2>2. \A t \in Tasks : Keeps(t, task[t], task'[t], k) /\ Quiet(t, task[t], task'[t], k)
    BY <1>1 DEF Keeps, Quiet
  <2> QED BY <1>2, <2>1, <2>2, CompanyFrame, CachedFrame
<1> QED BY <1>2, <1>3 DEF PushInv

\* The invariant is inductive.
LEMMA PushNext ==
    ASSUME PushInv, [Next]_vars
    PROVE  PushInv'
<1>1. ASSUME NEW t \in Tasks, Step(t) PROVE PushInv'
  <2>1. CASE AcceptEventsFromBroadcast(t) BY <2>1, PushBroadcast
  <2>2. CASE AcceptEvents(t) BY <2>2, PushAccept
  <2>3. ASSUME NEW d \in Targets, SubmitSend(t, d) PROVE PushInv' BY <2>3, PushSubmit
  <2>4. CASE collectErrors(t) BY <2>4, PushCollect
  <2>5. CASE MarkTokenAsInvalid(t) BY <2>5, PushMark
  <2>6. CASE AcceptEventsElsewhere(t) BY <2>6, PushElsewhere
  <2>7. ASSUME NEW r \in Regs, Unlink(t, r) PROVE PushInv' BY <2>7, PushUnlink
  <2>8. CASE RemovalsOver(t) BY <2>8, PushRemovalsOver
  <2>9. CASE Clear(t) BY <2>9, PushClear
  <2>10. CASE DeleteRow(t) BY <2>10, PushRow
  <2>11. CASE RegisterPrice(t) BY <2>11, PushRegister
  <2>12. CASE StoreMaps(t) BY <2>12, PushMaps
  <2>13. CASE Index(t) BY <2>13, PushIndex
  <2> QED BY <1>1, <2>1, <2>2, <2>3, <2>4, <2>5, <2>6, <2>7, <2>8, <2>9, <2>10, <2>11, <2>12, <2>13 DEF Step
<1>2. ASSUME NEW t \in Tasks, Deliver(t) PROVE PushInv'
  BY <1>2, PushSendEnd DEF Deliver
<1>3. ASSUME NEW p \in Posts, RemotePush(p) \/ Work(p) PROVE PushInv'
  BY <1>3, PushWork
<1>4. ASSUME NEW e \in Events, Publish(e) PROVE PushInv'
  BY <1>4, PushPublish
<1> QED BY <1>1, <1>2, <1>3, <1>4, PushRestart, PushStutter DEF Next

\* What the cache of the devices rests on, in every reachable state.
LEMMA PushInvariant == Spec => []PushInv
<1>1. Init => PushInv
  BY PushInit
<1>2. PushInv /\ [Next]_vars => PushInv'
  BY PushNext
<1> QED BY <1>1, <1>2, PTL DEF Spec

(* The cache of a device is what the database says of it: whenever no      *)
(* task of AcceptEvents works on a device key, if its tasks never          *)
(* overlapped and processDeviceRegistrationEvent or syncDevices did not    *)
(* give the key up, devicesEventMap under both of its keys and             *)
(* devicesFilterIndex have the stored registration, or nothing once its    *)
(* token was marked invalid or it was deleted, and so does the price table *)
(* unless a DeletePriceChangeSubscriber failed.  For any registrations,    *)
(* posts and deletions, any number of tasks in any order, and restarts     *)
(* between any two of their steps.                                         *)
THEOREM CacheIsCurrent == Spec => []CacheCurrent
<1>1. PushInv => CacheCurrent
  BY PushCurrent
<1> QED BY <1>1, PushInvariant, PTL
=============================================================================
