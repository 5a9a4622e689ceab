-------------------------- MODULE P2bDataflowProofs --------------------------
(***************************************************************************)
(* Proofs about P2bDataflow for every grid size, warp count, number of     *)
(* units, of 128-blocks and of down groups.                                *)
(***************************************************************************)
EXTENDS P2bInvariant, TLAPS, FiniteSetTheorems

------------------------------------------------------------------------------
(* The index arithmetic of P2bLayout. *)


\* Division with remainder, in the form the provers use below.
LEMMA DivLemma ==
    ASSUME NEW a \in Nat, NEW d \in Nat \ {0}
    PROVE  /\ a \div d \in Nat
           /\ (a \div d) * d <= a
           /\ a < (a \div d) * d + d
  BY Z3

LEMMA DivUnique ==
    ASSUME NEW a \in Nat, NEW d \in Nat \ {0}, NEW q \in Int,
           q * d <= a, a < q * d + d
    PROVE  a \div d = q
  BY Z3

LEMMA DivBound ==
    ASSUME NEW a \in Nat, NEW d \in Nat \ {0}, NEW n \in Nat, a < n * d
    PROVE  a \div d \in 0 .. (n - 1)
  <1> DEFINE q == a \div d
  <1>1. q \in Nat /\ q * d <= a
    BY DivLemma
  <1> HIDE DEF q
  <1>2. q * d < n * d
    BY <1>1
  <1>3. q < n
    BY <1>1, <1>2
  <1> QED BY <1>1, <1>3 DEF q

------------------------------------------------------------------------------
\* The task counts are natural numbers.
LEMMA CountsLemma ==
    /\ Units * Hb \in Nat
    /\ GuCount \in Nat /\ GuCount = 4 * (Units * Hb)
    /\ Units * Groups \in Nat
    /\ Total \in Nat /\ GuCount < Total
    /\ Tasks = 0 .. (Total - 1)
  <1>1. Units * Hb \in Nat /\ Units * Groups \in Nat /\ Units * Groups > 0
    BY LayoutAssumption
  <1>2. Units * (Hb * 4) = 4 * (Units * Hb)
    BY LayoutAssumption
  <1> DEFINE a == Units * Hb
             d == Units * Groups
  <1>3. GuCount = 4 * a /\ Total = 4 * a + d
    BY <1>2 DEF GuCount, Total
  <1> QED
    <2> a \in Nat /\ d \in Nat /\ d > 0
      BY <1>1
    <2> HIDE DEF a, d
    <2>1. GuCount \in Nat /\ Total \in Nat /\ GuCount < Total
      BY <1>3
    <2>2. Tasks = 0 .. (Total - 1)
      BY <2>1 DEF Tasks, GuTasks, DownTasks
    <2> QED BY <1>1, <1>3, <2>1, <2>2 DEF a, d

\* A 128-block's four gate/up tiles are four consecutive tasks: the kernel's
\* (u, hb) decomposition of a task is the division of its index by four.
LEMMA KeyOfLemma ==
    ASSUME NEW t \in GuTasks
    PROVE  /\ KeyOf(t) = t \div 4
           /\ KeyOf(t) \in Keys
           /\ UnitOf(t) \in UnitIds
           /\ UnitOfKey(KeyOf(t)) = UnitOf(t)
  <1> DEFINE u == t \div (Hb * 4)
             p == u * Hb
             r == t - 4 * p
             h == r \div 4
  <1>1. t \in Nat /\ t < Units * (Hb * 4) /\ Hb * 4 \in Nat \ {0}
    BY CountsLemma, LayoutAssumption DEF GuTasks, GuCount
  <1>2. u \in Nat /\ u * (Hb * 4) <= t /\ t < u * (Hb * 4) + Hb * 4
    BY <1>1, DivLemma
  <1>3. u \in UnitIds
    BY <1>1, DivBound, LayoutAssumption DEF UnitIds
  <1>4. p \in Nat /\ u * (Hb * 4) = 4 * p
    BY <1>2, LayoutAssumption
  <1>5. r \in Nat /\ r < Hb * 4
    BY <1>1, <1>2, <1>4, LayoutAssumption
  <1>6. h \in Nat /\ h * 4 <= r /\ r < h * 4 + 4
    BY <1>5, DivLemma
  <1>7. h < Hb
    BY <1>5, <1>6, LayoutAssumption
  <1>8. UnitOf(t) = u /\ KeyOf(t) = p + h
    BY <1>2, <1>4 DEF UnitOf, HbOf, KeyOf
  <1>9. t \div 4 = p + h
    <2>1. t = 4 * p + r
      BY <1>1, <1>4
    <2> HIDE DEF h, r, p
    <2>2. p + h \in Int /\ (p + h) * 4 <= t /\ t < (p + h) * 4 + 4
      BY <1>4, <1>5, <1>6, <2>1
    <2> QED BY <1>1, <2>2, DivUnique
  <1>10. (p + h) \div Hb = u
    BY <1>2, <1>4, <1>6, <1>7, DivUnique, LayoutAssumption
  <1>11. p + h \in Keys
    <2>1. t < 4 * (Units * Hb) /\ Units * Hb \in Nat
      BY <1>1, CountsLemma DEF GuTasks
    <2>2. 4 * (p + h) <= t
      BY <1>1, <1>4, <1>6
    <2>3. p + h \in Nat
      BY <1>4, <1>6
    <2>4. p + h < Units * Hb
      BY <2>1, <2>2, <2>3, <1>1
    <2> QED BY <2>3, <2>4, CountsLemma DEF Keys
  <1> QED BY <1>3, <1>8, <1>9, <1>10, <1>11 DEF UnitOfKey

\* Every 128-block has exactly the tiles 4k, 4k + 1, 4k + 2 and 4k + 3.
LEMMA TilesOfKeyLemma ==
    ASSUME NEW k \in Keys
    PROVE  /\ \A i \in 0 .. 3 : 4 * k + i \in GuTasks
           /\ TilesOfKey(k) = {TileCell(4 * k + i) : i \in 0 .. 3}
           /\ UnitOfKey(k) \in UnitIds
  <1>1. k \in Nat /\ k < Units * Hb /\ Units * Hb \in Nat /\ GuCount = 4 * (Units * Hb)
    BY CountsLemma DEF Keys
  <1>2. \A i \in 0 .. 3 : 4 * k + i \in GuTasks
    BY <1>1 DEF GuTasks
  <1>3. ASSUME NEW t \in GuTasks
        PROVE  KeyOf(t) = k <=> \E i \in 0 .. 3 : t = 4 * k + i
    <2>1. KeyOf(t) = t \div 4 /\ t \in Nat
      BY KeyOfLemma, CountsLemma DEF GuTasks
    <2> QED BY <1>1, <2>1
  <1>4. TilesOfKey(k) = {TileCell(4 * k + i) : i \in 0 .. 3}
    BY <1>2, <1>3 DEF TilesOfKey
  <1>5. UnitOfKey(k) \in UnitIds
    BY <1>1, DivBound, LayoutAssumption DEF UnitOfKey, UnitIds
  <1> QED BY <1>2, <1>4, <1>5

LEMMA DownUnitLemma ==
    ASSUME NEW t \in DownTasks
    PROVE  DownUnit(t) \in UnitIds
  <1>1. t - GuCount \in Nat /\ t - GuCount < Units * Groups
    BY CountsLemma DEF DownTasks, Total
  <1> QED BY <1>1, DivBound, LayoutAssumption DEF DownUnit, UnitIds

LEMMA CellsLemma ==
    /\ \A t \in GuTasks : TileCell(t) \in Cells
    /\ \A k \in Keys : ActCell(k) \in Cells
    /\ \A t \in DownTasks : DownCell(t) \in Cells
    /\ HadCells \subseteq Cells /\ OutCells \subseteq Cells
  BY DEF Cells, TileCells, ActCells, DownCells

\* Cells of different arrays, and of different indices, are different.
LEMMA CellsDistinct ==
    ASSUME NEW i, NEW j
    PROVE  /\ TileCell(i) = TileCell(j) => i = j
           /\ ActCell(i) = ActCell(j) => i = j
           /\ DownCell(i) = DownCell(j) => i = j
           /\ HadCell(i) = HadCell(j) => i = j
           /\ OutCell(i) = OutCell(j) => i = j
           /\ TileCell(i) # ActCell(j) /\ TileCell(i) # DownCell(j)
           /\ TileCell(i) # HadCell(j) /\ TileCell(i) # OutCell(j)
           /\ ActCell(i) # DownCell(j) /\ ActCell(i) # HadCell(j)
           /\ ActCell(i) # OutCell(j) /\ DownCell(i) # HadCell(j)
           /\ DownCell(i) # OutCell(j) /\ HadCell(i) # OutCell(j)
  BY DEF TileCell, ActCell, DownCell, HadCell, OutCell

------------------------------------------------------------------------------

USE DEF Blocks, EarlyLocs, BusyLocs, LoopLocs, LateLocs

LEMMA GridLemma == G \in Nat \ {0} /\ Warps \in Nat \ {0} /\ Garbage \subseteq Nat /\ 0 \in Blocks
  BY GridAssumption

LEMMA SharesLemma ==
    ASSUME NEW b \in Blocks
    PROVE  HadShare(b) \subseteq HadCells /\ OutShare(b) \subseteq OutCells
  BY DEF HadShare, OutShare, HadCells, OutCells, Share

------------------------------------------------------------------------------
\* Layer 1: types, phases and places.

LEMMA TypeInit == Init => TypeInv
  <1> SUFFICES ASSUME Init PROVE TypeInv
    OBVIOUS
  <1> USE GridLemma
  <1>1. PICK g \in Garbage :
           /\ counter = g
           /\ act = [k \in Keys |-> g]
           /\ ready = [u \in UnitIds |-> g]
    BY DEF Init
  <1>2. TypeOK
    BY <1>1 DEF Init, TypeOK, Locations
  <1>3. PhaseInv /\ PlaceInv
    BY DEF Init, PhaseInv, PlaceInv, Early
  <1> QED BY <1>2, <1>3 DEF TypeInv

\* What Store does to the types.
LEMMA StoreType ==
    ASSUME TypeOK, NEW b \in Blocks, NEW S \in SUBSET Cells, Store(b, S)
    PROVE  written' \subseteq Cells /\ view' \in [Blocks -> SUBSET Cells]
  BY DEF TypeOK, Store

\* A block that stays in its third of the launch keeps the phases together.
LEMMA PhaseKept ==
    ASSUME TypeOK, PhaseInv, NEW b \in Blocks, NEW l, Goto(b, l),
           \/ pc[b] \in EarlyLocs /\ l \in EarlyLocs
           \/ pc[b] \in LoopLocs /\ l \in LoopLocs
           \/ pc[b] \in LateLocs /\ l \in LateLocs
    PROVE  PhaseInv'
  <1> USE DEF TypeOK, PhaseInv, Early, Loop, Late, Goto
  <1>1. CASE pc[b] \in EarlyLocs
    <2>1. Early /\ l \in EarlyLocs
      BY <1>1
    <2> QED BY <2>1
  <1>2. CASE pc[b] \in LoopLocs
    <2>1. Loop /\ l \in LoopLocs
      BY <1>2
    <2> QED BY <2>1
  <1>3. CASE pc[b] \in LateLocs
    <2>1. Late /\ l \in LateLocs
      BY <1>3
    <2> QED BY <2>1
  <1> QED BY <1>1, <1>2, <1>3

LEMMA TypeStep == TypeInv /\ [Next]_vars => TypeInv'
  <1> SUFFICES ASSUME TypeInv, [Next]_vars PROVE TypeInv'
    OBVIOUS
  <1> USE GridLemma, CountsLemma
  <1> USE DEF TypeInv, TypeOK, PhaseInv, PlaceInv, Early, Loop, Late, Locations, Goto
  <1>1. ASSUME NEW b \in Blocks, ZeroCtl(b) PROVE TypeInv'
    BY <1>1 DEF ZeroCtl, mem
  <1>2. ASSUME NEW b \in Blocks, InputHadamard(b) PROVE TypeInv'
    <2>1. written' \subseteq Cells /\ view' \in [Blocks -> SUBSET Cells]
      BY <1>2, SharesLemma, CellsLemma, StoreType DEF InputHadamard
    <2>3. TypeOK'
      BY <1>2, <2>1 DEF InputHadamard, ctl
    <2>4. PhaseInv'
      <3> HIDE DEF TypeInv, TypeOK, PhaseInv, Goto
      <3> QED BY <1>2, PhaseKept DEF InputHadamard, TypeInv
    <2>5. PlaceInv'
      BY <1>2, <2>1 DEF InputHadamard, ctl
    <2> QED BY <2>3, <2>4, <2>5
  <1>3. ASSUME FirstSync PROVE TypeInv'
    BY <1>3 DEF FirstSync, GridSync, ctl
  <1>4. ASSUME SecondSync PROVE TypeInv'
    BY <1>4 DEF SecondSync, GridSync, ctl
  <1>5. ASSUME NEW b \in Blocks, Claim(b) PROVE TypeInv'
    <2>1. task[b] < GuCount => task[b] \in GuTasks
      BY DEF GuTasks
    <2>2. task[b] < Total /\ ~(task[b] < GuCount) => task[b] \in DownTasks
      BY DEF DownTasks
    <2>3. TypeOK'
      BY <1>5, <2>1, <2>2 DEF Claim, mem
    <2>4. PhaseInv'
      BY <1>5, <2>1, <2>2 DEF Claim, mem
    <2>5. PlaceInv'
      BY <1>5, <2>1, <2>2 DEF Claim, mem
    <2> QED BY <2>3, <2>4, <2>5
  <1>6. ASSUME NEW b \in Blocks, OutOfTasks(b) PROVE TypeInv'
    BY <1>6 DEF OutOfTasks, ctl, mem
  <1>7. ASSUME NEW b \in Blocks, GateUpTile(b) PROVE TypeInv'
    <2>1. written' \subseteq Cells /\ view' \in [Blocks -> SUBSET Cells]
      <3>1. Store(b, {TileCell(task[b])}) /\ {TileCell(task[b])} \in SUBSET Cells
        BY <1>7, CellsLemma DEF GateUpTile
      <3> QED BY <3>1, StoreType
    <2> QED BY <1>7, <2>1 DEF GateUpTile, ctl
  <1>8. ASSUME NEW b \in Blocks, CountTile(b) PROVE TypeInv'
    <2>1. KeyOf(task[b]) \in Keys
      BY <1>8, KeyOfLemma DEF CountTile
    <2>2. act' \in [Keys -> Nat] /\ actView' \in [Keys -> SUBSET Cells]
          /\ view' \in [Blocks -> SUBSET Cells]
      BY <1>8, <2>1, SMTT(30) DEF CountTile
    <2>6. pc' \in [Blocks -> Locations] /\ task' \in [Blocks -> Nat] /\ nxt' = nxt
      BY <1>8 DEF CountTile, Advance
    <2>3. TypeOK'
      BY <1>8, <2>2, <2>6 DEF CountTile
    <2>4. PhaseInv'
      BY <1>8, <2>1 DEF CountTile, Advance
    <2>5. PlaceInv'
      BY <1>8, <2>1 DEF CountTile, Advance
    <2> QED BY <2>3, <2>4, <2>5
  <1>9. ASSUME NEW b \in Blocks, Epilogue(b) PROVE TypeInv'
    <2>1. KeyOf(task[b]) \in Keys
      BY <1>9, KeyOfLemma DEF Epilogue
    <2>2. written' \subseteq Cells /\ view' \in [Blocks -> SUBSET Cells]
      BY <1>9, <2>1, CellsLemma, StoreType DEF Epilogue
    <2> QED BY <1>9, <2>2 DEF Epilogue, ctl
  <1>10. ASSUME NEW b \in Blocks, ReleaseUnit(b) PROVE TypeInv'
    <2>1. UnitOf(task[b]) \in UnitIds
      BY <1>10, KeyOfLemma DEF ReleaseUnit
    <2>2. ready' \in [UnitIds -> Nat] /\ readyView' \in [UnitIds -> SUBSET Cells]
      BY <1>10, <2>1 DEF ReleaseUnit
    <2>6. pc' \in [Blocks -> Locations] /\ task' \in [Blocks -> Nat] /\ nxt' = nxt
      BY <1>10 DEF ReleaseUnit, Advance
    <2>3. TypeOK'
      BY <1>10, <2>2, <2>6 DEF ReleaseUnit
    <2>4. PhaseInv'
      BY <1>10, <2>1 DEF ReleaseUnit, Advance
    <2>5. PlaceInv'
      BY <1>10, <2>1 DEF ReleaseUnit, Advance
    <2> QED BY <2>3, <2>4, <2>5
  <1>11. ASSUME NEW b \in Blocks, Acquire(b) PROVE TypeInv'
    <2>1. DownUnit(task[b]) \in UnitIds
      BY <1>11, DownUnitLemma DEF Acquire
    <2> QED BY <1>11, <2>1 DEF Acquire, ctl
  <1>12. ASSUME NEW b \in Blocks, DownTile(b) PROVE TypeInv'
    <2>1. written' \subseteq Cells /\ view' \in [Blocks -> SUBSET Cells]
      BY <1>12, CellsLemma, StoreType DEF DownTile
    <2> QED BY <1>12, <2>1 DEF DownTile, Advance, ctl
  <1>13. ASSUME NEW b \in Blocks, Output(b) PROVE TypeInv'
    <2>1. written' \subseteq Cells /\ view' \in [Blocks -> SUBSET Cells]
      BY <1>13, SharesLemma, CellsLemma, StoreType DEF Output
    <2> QED BY <1>13, <2>1 DEF Output, ctl
  <1>14. ASSUME Relaunch PROVE TypeInv'
    BY <1>14 DEF Relaunch, ctl
  <1>15. ASSUME UNCHANGED vars PROVE TypeInv'
    BY <1>15 DEF vars
  <1>16. ASSUME NEW b \in Blocks, Poll(b) PROVE TypeInv'
    BY <1>15, <1>16 DEF Poll
  <1> QED
    BY <1>1, <1>2, <1>3, <1>4, <1>5, <1>6, <1>7, <1>8, <1>9, <1>10, <1>11,
       <1>12, <1>13, <1>14, <1>15, <1>16 DEF Next, Work

\* Every reachable state is well typed, the blocks are in the same phase of
\* the launch, and a block's place fits its task.
THEOREM TypeSafe == Spec => []TypeInv
  BY TypeInit, TypeStep, PTL DEF Spec

THEOREM TypeCorrect == Spec => []TypeOK
  <1>1. TypeInv => TypeOK
    BY DEF TypeInv
  <1> QED BY <1>1, TypeSafe, PTL

------------------------------------------------------------------------------
\* Layer 2: the task list is dealt once.

\* The phases exclude each other.
LEMMA PhasesDisjoint ==
    /\ Loop => ~Early /\ ~Late
    /\ Late => ~Early /\ ~Loop
    /\ Early => ~Loop /\ ~Late
    /\ Loop' => ~Early' /\ ~Late'
    /\ Late' => ~Early' /\ ~Loop'
    /\ Early' => ~Loop' /\ ~Late'
  BY GridLemma DEF Early, Loop, Late

\* The place of one block gives the phase of all.
LEMMA PhaseOf ==
    ASSUME TypeInv, NEW b \in Blocks
    PROVE  /\ pc[b] \in EarlyLocs => Early
           /\ pc[b] \in LoopLocs => Loop
           /\ pc[b] \in LateLocs => Late
  BY DEF TypeInv, PhaseInv, Early, Loop, Late

LEMMA DealInit == Init => DealInv
  <1> SUFFICES ASSUME Init PROVE DealInv
    OBVIOUS
  <1> USE GridLemma
  <1>1. Early /\ pc[0] = "zero" /\ written = {}
    BY DEF Init, Early
  <1>2. \A b \in Blocks : Held(b) = {b}
    BY DEF Init, Held
  <1>3. ZeroedInv /\ EarlyInv /\ DealtInv
    BY <1>1, PhasesDisjoint DEF ZeroedInv, EarlyInv, DealtInv, Init
  <1>4. DistinctInv
    BY <1>1, <1>2 DEF DistinctInv, StoredTask
  <1> QED BY <1>3, <1>4 DEF DealInv

\* A step into the early phase: a block holds its static task, and no task is
\* stored.
LEMMA EarlyDistinct ==
    ASSUME TypeInv', Early', written' \subseteq HadCells
    PROVE  DistinctInv'
  <1>1. \A b \in Blocks : Held(b)' = {b}
    BY DEF TypeInv, PlaceInv, Early, Held
  <1>2. \A t : ~StoredTask(t)'
    BY CellsDistinct DEF StoredTask, HadCells
  <1> QED BY <1>1, <1>2 DEF DistinctInv

\* A loop step of b that keeps what b holds and what is stored.
LEMMA SameHeld ==
    ASSUME TypeInv, TypeInv', DealInv, Loop, Loop', NEW b \in Blocks,
           \A c \in Blocks \ {b} :
               pc'[c] = pc[c] /\ task'[c] = task[c] /\ nxt'[c] = nxt[c],
           counter' = counter,
           Held(b)' = Held(b),
           task'[b] \in {task[b], nxt[b]},
           task'[b] = nxt[b] => pc[b] \in BusyLocs,
           pc'[b] \in BusyLocs => pc[b] \in BusyLocs /\ task'[b] = task[b] /\ nxt'[b] = nxt[b],
           \A t \in Tasks : StoredTask(t)' <=> StoredTask(t)
    PROVE  DealInv'
  <1>1. \A c \in Blocks : Held(c)' = Held(c)
    BY DEF Held
  <1>2. \A c \in Blocks : task'[c] < counter' + G
    BY DEF DealInv, DealtInv
  <1>3. \A c \in Blocks :
           pc'[c] \in BusyLocs => task'[c] < nxt'[c] /\ nxt'[c] < counter' + G
    BY DEF DealInv, DealtInv
  <1>4. DealtInv'
    BY <1>1, <1>2, <1>3 DEF DealInv, DealtInv
  <1>5. DistinctInv'
    BY <1>1 DEF DealInv, DistinctInv
  <1>6. ZeroedInv' /\ EarlyInv'
    BY PhasesDisjoint, GridLemma DEF ZeroedInv, EarlyInv, Early, Loop
  <1> QED BY <1>4, <1>5, <1>6 DEF DealInv

\* A loop step of b that stores its current task and lets go of it.
LEMMA StoreHeld ==
    ASSUME TypeInv, TypeInv', DealInv, Loop, Loop', NEW b \in Blocks,
           \A c \in Blocks \ {b} :
               pc'[c] = pc[c] /\ task'[c] = task[c] /\ nxt'[c] = nxt[c],
           counter' = counter,
           pc[b] \in BusyLocs,
           task[b] \in Tasks,
           Held(b) = {task[b], nxt[b]}, Held(b)' = {nxt[b]},
           task'[b] \in {task[b], nxt[b]},
           pc'[b] \in BusyLocs => task'[b] = task[b] /\ nxt'[b] = nxt[b],
           \A t \in Tasks : StoredTask(t)' <=> (StoredTask(t) \/ t = task[b])
    PROVE  DealInv'
  <1>0. task[b] # nxt[b] /\ task[b] < counter + G
    <2>1. task[b] < nxt[b] /\ task[b] \in Nat /\ nxt[b] \in Nat
      BY DEF DealInv, DealtInv, TypeInv, TypeOK
    <2> QED BY <2>1 DEF DealInv, DealtInv
  <1>1. \A c \in Blocks \ {b} : Held(c)' = Held(c) /\ task[b] \notin Held(c)
    BY DEF Held, DealInv, DistinctInv
  <1>2. \A c \in Blocks : task'[c] < counter' + G
    BY DEF DealInv, DealtInv
  <1>3. \A c \in Blocks :
           pc'[c] \in BusyLocs => task'[c] < nxt'[c] /\ nxt'[c] < counter' + G
    BY DEF DealInv, DealtInv
  <1>4. \A t \in Tasks : t >= counter' + G => ~StoredTask(t)'
    <2> SUFFICES ASSUME NEW t \in Tasks, t >= counter' + G PROVE ~StoredTask(t)'
      OBVIOUS
    <2>1. t \in Nat /\ counter \in Nat /\ task[b] \in Nat
      BY CountsLemma DEF TypeInv, TypeOK
    <2>2. t # task[b]
      BY <1>0, <2>1, GridLemma
    <2> QED BY <2>2 DEF DealInv, DealtInv
  <1>5. \A t \in Tasks :
           t < counter' + G => StoredTask(t)' \/ \E c \in Blocks : t \in Held(c)'
    <2> SUFFICES ASSUME NEW t \in Tasks, t < counter' + G, t # task[b], ~StoredTask(t)
                 PROVE  \E c \in Blocks : t \in Held(c)'
      OBVIOUS
    <2>1. PICK c \in Blocks : t \in Held(c)
      BY DEF DealInv, DealtInv
    <2> QED BY <2>1, <1>1
  <1>6. DealtInv'
    BY <1>2, <1>3, <1>4, <1>5 DEF DealtInv
  <1>7. DistinctInv'
    <2>1. \A c, d \in Blocks : c # d => Held(c)' \cap Held(d)' = {}
      BY <1>1 DEF DealInv, DistinctInv
    <2>2. \A c \in Blocks : \A t \in Held(c)' \cap Tasks : ~StoredTask(t)'
      BY <1>0, <1>1 DEF DealInv, DistinctInv
    <2> QED BY <2>1, <2>2 DEF DistinctInv
  <1>8. ZeroedInv' /\ EarlyInv'
    BY PhasesDisjoint, GridLemma DEF ZeroedInv, EarlyInv, Early, Loop
  <1> QED BY <1>6, <1>7, <1>8 DEF DealInv

\* Storing anything but tiles and down cells leaves the stored tasks alone.
LEMMA StoredKept ==
    ASSUME NEW S, S \subseteq HadCells \cup ActCells \cup OutCells,
           written' = written \cup S, NEW t
    PROVE  StoredTask(t)' <=> StoredTask(t)
  <1>1. TileCell(t) \notin S /\ DownCell(t) \notin S
    BY CellsDistinct DEF HadCells, ActCells, OutCells
  <1> QED BY <1>1 DEF StoredTask

\* Storing the cell of task s adds s to the stored tasks.
LEMMA StoredAdded ==
    ASSUME NEW s, written' \in {written \cup {TileCell(s)}, written \cup {DownCell(s)}}, NEW t
    PROVE  StoredTask(t)' <=> (StoredTask(t) \/ t = s)
  BY CellsDistinct DEF StoredTask

LEMMA DealStep == TypeInv /\ TypeInv' /\ DealInv /\ [Next]_vars => DealInv'
  <1> SUFFICES ASSUME TypeInv, TypeInv', DealInv, [Next]_vars PROVE DealInv'
    OBVIOUS
  <1> USE GridLemma, PhasesDisjoint
  <1>1. ASSUME NEW b \in Blocks, ZeroCtl(b) PROVE DealInv'
    <2>1. Early /\ Early' /\ written' \subseteq HadCells
      BY <1>1, PhaseOf DEF ZeroCtl, Goto, Early, DealInv, EarlyInv, mem, TypeInv, TypeOK
    <2>2. DistinctInv'
      BY <2>1, EarlyDistinct
    <2>3. ZeroedInv' /\ EarlyInv' /\ DealtInv'
      BY <1>1, <2>1 DEF ZeroCtl, mem, DealInv, ZeroedInv, EarlyInv, DealtInv
    <2> QED BY <2>2, <2>3 DEF DealInv
  <1>2. ASSUME NEW b \in Blocks, InputHadamard(b) PROVE DealInv'
    <2>1. Early /\ Early' /\ written' \subseteq HadCells
      BY <1>2, PhaseOf, SharesLemma
         DEF InputHadamard, Goto, Early, DealInv, EarlyInv, Store, TypeInv, TypeOK
    <2>2. DistinctInv'
      BY <2>1, EarlyDistinct
    <2>3. pc'[0] # "zero" => pc[0] # "zero"
      BY <1>2 DEF InputHadamard, Goto, TypeInv, TypeOK
    <2>4. ZeroedInv' /\ EarlyInv' /\ DealtInv'
      BY <1>2, <2>1, <2>3 DEF InputHadamard, ctl, DealInv, ZeroedInv, EarlyInv, DealtInv
    <2> QED BY <2>2, <2>4 DEF DealInv
  <1>3. ASSUME FirstSync PROVE DealInv'
    <2>1. Early /\ Loop' /\ pc[0] = "sync1" /\ counter' = 0 /\ task' = task /\ written' = written
      BY <1>3 DEF FirstSync, GridSync, Early, Loop, DealInv, ZeroedInv, ctl
    <2>2. \A b \in Blocks : Held(b)' = {b} /\ task'[b] = b
      BY <1>3, <2>1 DEF FirstSync, GridSync, TypeInv, PlaceInv, Early, Held
    <2>3. \A t : ~StoredTask(t)'
      BY <2>1, CellsDistinct DEF DealInv, EarlyInv, StoredTask, HadCells
    <2>4. \A b \in Blocks : pc'[b] = "top"
      BY <1>3 DEF FirstSync, GridSync
    <2>5. DealtInv'
      BY <2>1, <2>2, <2>3, <2>4, CountsLemma DEF DealtInv
    <2>6. DistinctInv'
      BY <2>2, <2>3 DEF DistinctInv
    <2> QED BY <2>1, <2>5, <2>6 DEF DealInv, ZeroedInv, EarlyInv
  <1>4. ASSUME SecondSync PROVE DealInv'
    <2>1. Late' /\ \A b \in Blocks : Held(b)' = {}
      BY <1>4 DEF SecondSync, GridSync, Late, Held
    <2> QED BY <2>1 DEF DealInv, ZeroedInv, EarlyInv, DealtInv, DistinctInv
  <1>5. ASSUME NEW b \in Blocks, Output(b) PROVE DealInv'
    <2>1. Late /\ Late'
      BY <1>5, PhaseOf DEF Output, Late, Goto, TypeInv, TypeOK
    <2>2. \A c \in Blocks : Held(c)' = {}
      BY <2>1 DEF Late, Held
    <2> QED BY <2>1, <2>2 DEF DealInv, ZeroedInv, EarlyInv, DealtInv, DistinctInv
  <1>6. ASSUME Relaunch PROVE DealInv'
    <2>1. Early' /\ written' = {} /\ pc'[0] = "zero"
      BY <1>6 DEF Relaunch, Early
    <2>2. DistinctInv'
      BY <2>1, EarlyDistinct
    <2> QED BY <1>6, <2>1, <2>2 DEF Relaunch, DealInv, ZeroedInv, EarlyInv, DealtInv
  <1>7. ASSUME NEW b \in Blocks, Claim(b) PROVE DealInv'
    <2>1. Loop /\ Loop'
      BY <1>7, PhaseOf DEF Claim, Loop, Goto, TypeInv, TypeOK
    <2>2. /\ \A c \in Blocks \ {b} :
               pc'[c] = pc[c] /\ task'[c] = task[c] /\ nxt'[c] = nxt[c]
          /\ pc'[b] \in {"tile", "wait"} /\ task'[b] = task[b] /\ nxt'[b] = counter + G
          /\ counter' = counter + 1 /\ written' = written
      BY <1>7 DEF Claim, Goto, mem, TypeInv, TypeOK
    <2>3. /\ \A c \in Blocks \ {b} : Held(c)' = Held(c)
          /\ Held(b) = {task[b]} /\ Held(b)' = {task[b], counter + G}
      BY <1>7, <2>2 DEF Claim, Held
    <2>4. \A t : StoredTask(t)' <=> StoredTask(t)
      BY <2>2 DEF StoredTask
    <2>5. counter \in Nat /\ \A c \in Blocks : task[c] \in Nat /\ nxt[c] \in Nat
      BY DEF TypeInv, TypeOK
    <2>6. \A c \in Blocks : \A t \in Held(c) : t \in Nat /\ t < counter + G
      BY <2>1, <2>5 DEF DealInv, DealtInv, Held, Loop
    <2>7. DealtInv'
      <3>1. \A c \in Blocks : task'[c] < counter' + G
        BY <2>1, <2>2, <2>5 DEF DealInv, DealtInv
      <3>2. \A c \in Blocks :
               pc'[c] \in BusyLocs => task'[c] < nxt'[c] /\ nxt'[c] < counter' + G
        BY <2>1, <2>2, <2>5 DEF DealInv, DealtInv
      <3>3. \A t \in Tasks : t >= counter' + G => ~StoredTask(t)'
        BY <2>1, <2>2, <2>4, <2>5, CountsLemma DEF DealInv, DealtInv
      <3>4. \A t \in Tasks :
               t < counter' + G => StoredTask(t)' \/ \E c \in Blocks : t \in Held(c)'
        <4> SUFFICES ASSUME NEW t \in Tasks, t < counter' + G, ~StoredTask(t)
                     PROVE  \E c \in Blocks : t \in Held(c)'
          BY <2>4
        <4>1. t \in Nat /\ (t < counter + G \/ t = counter + G)
          BY <2>2, <2>5, CountsLemma
        <4>2. CASE t = counter + G
          BY <4>2, <2>3
        <4>3. CASE t < counter + G
          <5>1. PICK c \in Blocks : t \in Held(c)
            BY <4>3, <2>1 DEF DealInv, DealtInv
          <5> QED BY <5>1, <2>3
        <4> QED BY <4>1, <4>2, <4>3
      <3> QED BY <3>1, <3>2, <3>3, <3>4 DEF DealtInv
    <2>8. DistinctInv'
      <3>1. \A c \in Blocks : counter + G \notin Held(c)
        BY <2>5, <2>6
      <3>2. \A c, d \in Blocks : c # d => Held(c)' \cap Held(d)' = {}
        BY <2>3, <3>1 DEF DealInv, DistinctInv
      <3>3. counter + G \in Tasks => ~StoredTask(counter + G)
        BY <2>1, <2>5 DEF DealInv, DealtInv
      <3>4. \A c \in Blocks : \A t \in Held(c)' \cap Tasks : ~StoredTask(t)'
        BY <2>3, <2>4, <3>3 DEF DealInv, DistinctInv
      <3> QED BY <3>2, <3>4 DEF DistinctInv
    <2> QED BY <2>1, <2>7, <2>8 DEF DealInv, ZeroedInv, EarlyInv
  <1>8. ASSUME NEW b \in Blocks, OutOfTasks(b) PROVE DealInv'
    <2>1. Loop /\ Loop'
      BY <1>8, PhaseOf DEF OutOfTasks, Loop, Goto, TypeInv, TypeOK
    <2>2. /\ \A c \in Blocks \ {b} : Held(c)' = Held(c)
          /\ Held(b) = {task[b]} /\ Held(b)' = {}
          /\ task' = task /\ nxt' = nxt /\ counter' = counter /\ written' = written
          /\ \A c \in Blocks : pc'[c] \in BusyLocs => pc[c] \in BusyLocs
      BY <1>8 DEF OutOfTasks, Goto, Held, ctl, mem, TypeInv, TypeOK
    <2>3. task[b] \notin Tasks
      BY <1>8, CountsLemma DEF OutOfTasks, TypeInv, TypeOK
    <2>4. \A t : StoredTask(t)' <=> StoredTask(t)
      BY <2>2 DEF StoredTask
    <2>5. DealtInv'
      BY <2>1, <2>2, <2>3, <2>4 DEF DealInv, DealtInv
    <2>6. DistinctInv'
      BY <2>2, <2>4 DEF DealInv, DistinctInv
    <2> QED BY <2>1, <2>5, <2>6 DEF DealInv, ZeroedInv, EarlyInv
  <1>9. ASSUME NEW b \in Blocks, GateUpTile(b) PROVE DealInv'
    <2>1. Loop /\ Loop'
      BY <1>9, PhaseOf DEF GateUpTile, Loop, Goto, TypeInv, TypeOK
    <2>2. task[b] \in Tasks
      BY <1>9 DEF GateUpTile, TypeInv, PlaceInv, Tasks
    <2>3. /\ Held(b) = {task[b], nxt[b]} /\ Held(b)' = {nxt[b]}
          /\ pc'[b] = "count" /\ pc[b] = "tile" /\ task' = task /\ nxt' = nxt /\ counter' = counter
          /\ \A c \in Blocks \ {b} : pc'[c] = pc[c]
      BY <1>9 DEF GateUpTile, Goto, Held, ctl, TypeInv, TypeOK
    <2>4. \A t \in Tasks : StoredTask(t)' <=> (StoredTask(t) \/ t = task[b])
      BY <1>9, StoredAdded DEF GateUpTile, Store
    <2> QED BY <2>1, <2>2, <2>3, <2>4, StoreHeld
  <1>10. ASSUME NEW b \in Blocks, DownTile(b) PROVE DealInv'
    <2>1. Loop /\ Loop'
      BY <1>10, PhaseOf DEF DownTile, Advance, Loop, Goto, TypeInv, TypeOK
    <2>2. task[b] \in Tasks
      BY <1>10 DEF DownTile, TypeInv, PlaceInv, Tasks
    <2>3. /\ Held(b) = {task[b], nxt[b]} /\ Held(b)' = {nxt[b]}
          /\ pc'[b] = "top" /\ pc[b] = "down" /\ task'[b] = nxt[b] /\ nxt' = nxt /\ counter' = counter
          /\ \A c \in Blocks \ {b} : pc'[c] = pc[c] /\ task'[c] = task[c]
      BY <1>10 DEF DownTile, Advance, Goto, Held, ctl, TypeInv, TypeOK
    <2>4. \A t \in Tasks : StoredTask(t)' <=> (StoredTask(t) \/ t = task[b])
      BY <1>10, StoredAdded DEF DownTile, Store
    <2> QED BY <2>1, <2>2, <2>3, <2>4, StoreHeld
  <1>11. ASSUME NEW b \in Blocks, CountTile(b) PROVE DealInv'
    <2>1. Loop /\ Loop'
      BY <1>11, PhaseOf DEF CountTile, Advance, Loop, Goto, TypeInv, TypeOK
    <2>2. /\ Held(b) = {nxt[b]} /\ Held(b)' = {nxt[b]} /\ pc[b] = "count"
          /\ \/ pc'[b] = "epilogue" /\ task'[b] = task[b]
             \/ pc'[b] = "top" /\ task'[b] = nxt[b]
          /\ nxt' = nxt /\ counter' = counter /\ written' = written
          /\ \A c \in Blocks \ {b} : pc'[c] = pc[c] /\ task'[c] = task[c]
      BY <1>11 DEF CountTile, Advance, Goto, Held, TypeInv, TypeOK
    <2>3. \A t \in Tasks : StoredTask(t)' <=> StoredTask(t)
      BY <2>2 DEF StoredTask
    <2> QED BY <2>1, <2>2, <2>3, SameHeld
  <1>12. ASSUME NEW b \in Blocks, Epilogue(b) PROVE DealInv'
    <2>1. Loop /\ Loop'
      BY <1>12, PhaseOf DEF Epilogue, Loop, Goto, TypeInv, TypeOK
    <2>2. /\ Held(b) = {nxt[b]} /\ Held(b)' = {nxt[b]}
          /\ pc[b] = "epilogue" /\ pc'[b] = "release"
          /\ task' = task /\ nxt' = nxt /\ counter' = counter
          /\ \A c \in Blocks \ {b} : pc'[c] = pc[c]
      BY <1>12 DEF Epilogue, Goto, Held, ctl, TypeInv, TypeOK
    <2>3. {ActCell(KeyOf(task[b]))} \subseteq ActCells
      BY <1>12, KeyOfLemma DEF Epilogue, TypeInv, PlaceInv, ActCells
    <2>4. \A t \in Tasks : StoredTask(t)' <=> StoredTask(t)
      BY <1>12, <2>3, StoredKept DEF Epilogue, Store
    <2> QED BY <2>1, <2>2, <2>4, SameHeld
  <1>13. ASSUME NEW b \in Blocks, ReleaseUnit(b) PROVE DealInv'
    <2>1. Loop /\ Loop'
      BY <1>13, PhaseOf DEF ReleaseUnit, Advance, Loop, Goto, TypeInv, TypeOK
    <2>2. /\ Held(b) = {nxt[b]} /\ Held(b)' = {nxt[b]}
          /\ pc[b] = "release" /\ pc'[b] = "top" /\ task'[b] = nxt[b]
          /\ nxt' = nxt /\ counter' = counter /\ written' = written
          /\ \A c \in Blocks \ {b} : pc'[c] = pc[c] /\ task'[c] = task[c]
      BY <1>13 DEF ReleaseUnit, Advance, Goto, Held, TypeInv, TypeOK
    <2>3. \A t \in Tasks : StoredTask(t)' <=> StoredTask(t)
      BY <2>2 DEF StoredTask
    <2> QED BY <2>1, <2>2, <2>3, SameHeld
  <1>14. ASSUME NEW b \in Blocks, Acquire(b) PROVE DealInv'
    <2>1. Loop /\ Loop'
      BY <1>14, PhaseOf DEF Acquire, Loop, Goto, TypeInv, TypeOK
    <2>2. /\ Held(b) = {task[b], nxt[b]} /\ Held(b)' = {task[b], nxt[b]}
          /\ pc[b] = "wait" /\ pc'[b] = "down"
          /\ task' = task /\ nxt' = nxt /\ counter' = counter /\ written' = written
          /\ \A c \in Blocks \ {b} : pc'[c] = pc[c]
      BY <1>14 DEF Acquire, Goto, Held, ctl, TypeInv, TypeOK
    <2>3. \A t \in Tasks : StoredTask(t)' <=> StoredTask(t)
      BY <2>2 DEF StoredTask
    <2> QED BY <2>1, <2>2, <2>3, SameHeld
  <1>15. ASSUME UNCHANGED vars PROVE DealInv'
    <2>1. \A c \in Blocks : Held(c)' = Held(c)
      BY <1>15 DEF vars, Held
    <2>2. \A t : StoredTask(t)' <=> StoredTask(t)
      BY <1>15 DEF vars, StoredTask
    <2>3. ZeroedInv' /\ EarlyInv' /\ DistinctInv'
      BY <1>15, <2>1, <2>2 DEF vars, DealInv, ZeroedInv, EarlyInv, DistinctInv, Early
    <2>4. DealtInv'
      BY <1>15, <2>1, <2>2 DEF vars, DealInv, DealtInv, Loop
    <2> QED BY <2>3, <2>4 DEF DealInv
  <1>16. ASSUME NEW b \in Blocks, Poll(b) PROVE DealInv'
    BY <1>15, <1>16 DEF Poll
  <1> QED
    BY <1>1, <1>2, <1>3, <1>4, <1>5, <1>6, <1>7, <1>8, <1>9, <1>10, <1>11,
       <1>12, <1>13, <1>14, <1>15, <1>16 DEF Next, Work

\* The list is dealt once, in order.
THEOREM DealSafe == Spec => [](TypeInv /\ DealInv)
  <1>1. Init => TypeInv /\ DealInv
    BY TypeInit, DealInit
  <1>2. TypeInv /\ DealInv /\ [Next]_vars => (TypeInv /\ DealInv)'
    BY TypeStep, DealStep
  <1> QED BY <1>1, <1>2, PTL DEF Spec

\* For every grid and every list, no task is in two hands or handed out again
\* after it ran.
THEOREM TasksOnce == Spec => []NoTaskTwice
  <1>1. DealInv => NoTaskTwice
    BY DEF DealInv, DistinctInv, NoTaskTwice
  <1> QED BY <1>1, DealSafe, PTL

\* For every grid and every list, a waiting block is served: the tiles it
\* needs are stored or held by blocks that do not wait.
THEOREM WaitsServed == Spec => []WaitsAreServed
  <1>1. TypeInv /\ DealInv => WaitsAreServed
    <2> SUFFICES ASSUME TypeInv, DealInv,
                        NEW b \in Blocks, pc[b] = "wait", NEW t \in GuTasks,
                        TileCell(t) \notin written
                 PROVE  \E c \in Blocks :
                            /\ t \in Held(c)
                            /\ pc[c] \in {"top", "tile", "count", "epilogue", "release"}
      BY DEF WaitsAreServed
    <2>1. Loop
      BY PhaseOf
    <2>2. t \in Tasks /\ t \in Nat /\ t < GuCount /\ GuCount \in Nat
      BY CountsLemma DEF Tasks, GuTasks
    <2>3. task[b] \in Nat /\ GuCount <= task[b] /\ task[b] < counter + G /\ counter \in Nat
      BY <2>1, <2>2, CountsLemma DEF TypeInv, TypeOK, PlaceInv, DownTasks, DealInv, DealtInv
    <2>4. DownCell(t) \notin written
      <3>1. t \notin DownTasks
        BY <2>2 DEF DownTasks
      <3>2. DownCell(t) \notin Cells
        BY <3>1, CellsDistinct DEF Cells, HadCells, TileCells, ActCells, DownCells, OutCells
      <3> QED BY <3>2 DEF TypeInv, TypeOK
    <2>5. PICK c \in Blocks : t \in Held(c)
      BY <2>1, <2>2, <2>3, <2>4, GridLemma DEF DealInv, DealtInv, StoredTask
    <2>6. ~(pc[c] \in {"wait", "down"})
      <3> SUFFICES ASSUME pc[c] \in {"wait", "down"} PROVE FALSE
        OBVIOUS
      <3>1. task[c] \in Nat /\ GuCount <= task[c] /\ nxt[c] \in Nat
        BY <2>2, CountsLemma DEF TypeInv, TypeOK, PlaceInv, DownTasks
      <3>3. task[c] < nxt[c]
        BY <2>1 DEF DealInv, DealtInv
      <3>2. t = task[c] \/ t = nxt[c]
        BY <2>5 DEF Held
      <3> QED BY <2>2, <3>1, <3>2, <3>3
    <2>7. pc[c] \in LoopLocs /\ pc[c] # "sync2"
      BY <2>1, <2>5 DEF Loop, Held
    <2> QED BY <2>5, <2>6, <2>7
  <1> QED BY <1>1, DealSafe, PTL
------------------------------------------------------------------------------
(***************************************************************************)
(* The data flow: what the counters stand for, what a block sees when it   *)
(* reads, and that the kernel implements MoeDag.                           *)
(***************************************************************************)

USE DEF Blocks, EarlyLocs, BusyLocs, LoopLocs, LateLocs

\* What each step stores, and into which view.
LEMMA StoreFacts ==
    ASSUME TypeOK, NEW b \in Blocks, NEW S, Store(b, S)
    PROVE  /\ written' = written \cup S
           /\ view'[b] = view[b] \cup S
           /\ \A c \in Blocks \ {b} : view'[c] = view[c]
  BY DEF Store, TypeOK

LEMMA SeenStep ==
    ASSUME TypeInv, SeenInv, [Next]_vars
    PROVE  SeenInv'
  <1> USE DEF TypeInv
  <1>1. ASSUME NEW b \in Blocks, NEW S, Store(b, S), UNCHANGED <<actView, readyView>>
        PROVE  SeenInv'
    BY <1>1, StoreFacts DEF SeenInv
  <1>2. ASSUME UNCHANGED mem PROVE SeenInv'
    BY <1>2 DEF mem, SeenInv
  <1>3. ASSUME NEW from, NEW to, GridSync(from, to) PROVE SeenInv'
    BY <1>3, GridLemma DEF GridSync, SeenInv
  <1>4. ASSUME NEW b \in Blocks, CountTile(b) PROVE SeenInv'
    <2>1. KeyOf(task[b]) \in Keys
      BY <1>4, KeyOfLemma DEF CountTile, PlaceInv
    <2> QED BY <1>4, <2>1 DEF CountTile, SeenInv, TypeOK
  <1>5. ASSUME NEW b \in Blocks, ReleaseUnit(b) PROVE SeenInv'
    <2>1. UnitOf(task[b]) \in UnitIds
      BY <1>5, KeyOfLemma DEF ReleaseUnit, PlaceInv
    <2> QED BY <1>5, <2>1 DEF ReleaseUnit, SeenInv, TypeOK
  <1>6. ASSUME NEW b \in Blocks, Acquire(b) PROVE SeenInv'
    <2>1. DownUnit(task[b]) \in UnitIds
      BY <1>6, DownUnitLemma DEF Acquire, PlaceInv
    <2> QED BY <1>6, <2>1 DEF Acquire, SeenInv, TypeOK
  <1>7. ASSUME Relaunch PROVE SeenInv'
    BY <1>7 DEF Relaunch, SeenInv
  <1>8. ASSUME NEW b \in Blocks, Work(b) PROVE SeenInv'
    BY <1>1, <1>2, <1>4, <1>5, <1>6, <1>8
       DEF Work, ZeroCtl, InputHadamard, Claim, OutOfTasks, GateUpTile, Epilogue,
           DownTile, Output
  <1>9. ASSUME UNCHANGED vars PROVE SeenInv'
    BY <1>2, <1>9 DEF vars, mem
  <1> QED BY <1>3, <1>7, <1>8, <1>9 DEF Next, FirstSync, SecondSync, Poll

------------------------------------------------------------------------------
\* Grid-stride shares.
LEMMA OwnerLemma ==
    ASSUME NEW i \in Nat
    PROVE  Owner(i) \in Blocks
  <1>1. i \div Warps \in Nat
    BY GridLemma, DivLemma
  <1> DEFINE q == i \div Warps
  <1>3. q \in Nat /\ Owner(i) = q % G
    BY <1>1 DEF Owner
  <1> HIDE DEF q
  <1>2. q % G \in 0 .. (G - 1)
    BY <1>3, GridLemma
  <1> QED BY <1>2, <1>3

LEMMA ShareOwner ==
    ASSUME NEW b \in Blocks
    PROVE  /\ \A i \in 0 .. (HadN - 1) : HadCell(i) \in HadShare(b) <=> Owner(i) = b
           /\ \A i \in 0 .. (OutN - 1) : OutCell(i) \in OutShare(b) <=> Owner(i) = b
  BY CellsDistinct DEF HadShare, OutShare, Share, Owner

LEMMA ShareStep ==
    ASSUME TypeInv, ShareInv, [Next]_vars
    PROVE  ShareInv'
  <1> USE DEF TypeInv
  <1>0. \A i \in 0 .. (HadN - 1) : Owner(i) \in Blocks
    BY OwnerLemma, LayoutAssumption
  <1>00. \A i \in 0 .. (OutN - 1) : Owner(i) \in Blocks
    BY OwnerLemma, LayoutAssumption
  \* A step that stores neither Hadamard nor output cells and moves no block
  \* out of its part of the launch.
  <1>1. ASSUME NEW S, S \cap (HadCells \cup OutCells) = {}, written' = written \cup S,
               \A c \in Blocks : /\ pc'[c] \in {"zero", "had"} <=> pc[c] \in {"zero", "had"}
                                 /\ pc'[c] = "done" <=> pc[c] = "done"
        PROVE  ShareInv'
    BY <1>0, <1>00, <1>1 DEF ShareInv, HadCells, OutCells
  <1>14. ASSUME written' = written,
                \A c \in Blocks : /\ pc'[c] \in {"zero", "had"} <=> pc[c] \in {"zero", "had"}
                                  /\ pc'[c] = "done" <=> pc[c] = "done"
         PROVE  ShareInv'
    BY <1>0, <1>00, <1>14 DEF ShareInv
  <1>2. ASSUME NEW b \in Blocks, InputHadamard(b) PROVE ShareInv'
    <2>1. written' = written \cup HadShare(b)
      BY <1>2 DEF InputHadamard, Store
    <2>2. \A i \in 0 .. (OutN - 1) : OutCell(i) \notin HadShare(b)
      BY CellsDistinct DEF HadShare
    <2>3. pc'[b] = "sync1" /\ pc[b] = "had" /\ \A c \in Blocks \ {b} : pc'[c] = pc[c]
      BY <1>2 DEF InputHadamard, Goto, TypeOK
    <2> QED BY <1>0, <1>00, <2>1, <2>2, <2>3, ShareOwner DEF ShareInv
  <1>3. ASSUME NEW b \in Blocks, Output(b) PROVE ShareInv'
    <2>1. written' = written \cup OutShare(b)
      BY <1>3 DEF Output, Store
    <2>2. \A i \in 0 .. (HadN - 1) : HadCell(i) \notin OutShare(b)
      BY CellsDistinct DEF OutShare
    <2>3. pc'[b] = "done" /\ pc[b] = "out" /\ \A c \in Blocks \ {b} : pc'[c] = pc[c]
      BY <1>3 DEF Output, Goto, TypeOK
    <2> QED BY <1>0, <1>00, <2>1, <2>2, <2>3, ShareOwner DEF ShareInv
  <1>4. ASSUME FirstSync \/ SecondSync PROVE ShareInv'
    BY <1>14, <1>4 DEF FirstSync, SecondSync, GridSync
  <1>5. ASSUME Relaunch PROVE ShareInv'
    BY <1>0, <1>00, <1>5 DEF Relaunch, ShareInv
  <1>6. ASSUME NEW b \in Blocks, GateUpTile(b) PROVE ShareInv'
    <2>1. {TileCell(task[b])} \cap (HadCells \cup OutCells) = {}
      BY CellsDistinct DEF HadCells, OutCells
    <2> QED BY <1>1, <1>6, <2>1 DEF GateUpTile, Store, Goto, TypeOK
  <1>7. ASSUME NEW b \in Blocks, Epilogue(b) PROVE ShareInv'
    <2>1. {ActCell(KeyOf(task[b]))} \cap (HadCells \cup OutCells) = {}
      BY CellsDistinct DEF HadCells, OutCells
    <2> QED BY <1>1, <1>7, <2>1 DEF Epilogue, Store, Goto, TypeOK
  <1>8. ASSUME NEW b \in Blocks, DownTile(b) PROVE ShareInv'
    <2>1. {DownCell(task[b])} \cap (HadCells \cup OutCells) = {}
      BY CellsDistinct DEF HadCells, OutCells
    <2> QED BY <1>1, <1>8, <2>1 DEF DownTile, Advance, Store, Goto, TypeOK
  <1>9. ASSUME written' = written, NEW b \in Blocks, pc[b] \in LoopLocs, pc'[b] \in LoopLocs,
               \A c \in Blocks \ {b} : pc'[c] = pc[c]
        PROVE  ShareInv'
    <2>1. \A c \in Blocks : /\ pc'[c] \in {"zero", "had"} <=> pc[c] \in {"zero", "had"}
                            /\ pc'[c] = "done" <=> pc[c] = "done"
      BY <1>9
    <2> QED BY <1>14, <1>9, <2>1
  <1>10. ASSUME NEW b \in Blocks, ZeroCtl(b) PROVE ShareInv'
    BY <1>14, <1>10 DEF ZeroCtl, Goto, mem, TypeOK
  <1>11. ASSUME NEW b \in Blocks, Claim(b) \/ OutOfTasks(b) \/ Acquire(b) \/ ReleaseUnit(b)
         PROVE  ShareInv'
    <2>1. /\ pc[b] \in LoopLocs /\ pc'[b] \in LoopLocs /\ written' = written
          /\ \A c \in Blocks \ {b} : pc'[c] = pc[c]
      BY <1>11 DEF Claim, OutOfTasks, Acquire, ReleaseUnit, Advance, mem, Goto, TypeOK
    <2> QED BY <1>9, <2>1
  <1>12. ASSUME NEW b \in Blocks, CountTile(b) PROVE ShareInv'
    <2>1. /\ pc[b] \in LoopLocs /\ pc'[b] \in LoopLocs /\ written' = written
          /\ \A c \in Blocks \ {b} : pc'[c] = pc[c]
      BY <1>12 DEF CountTile, Advance, Goto, TypeOK
    <2> QED BY <1>9, <2>1
  <1>13. ASSUME UNCHANGED vars PROVE ShareInv'
    BY <1>13 DEF vars, ShareInv
  <1> QED
    BY <1>2, <1>3, <1>4, <1>5, <1>6, <1>7, <1>8, <1>10, <1>11, <1>12, <1>13
       DEF Next, Work, Poll

------------------------------------------------------------------------------
\* Arrivals: the counter of a 128-block is the number of its tiles stored and
\* counted.

\* A step that neither stores nor counts a tile.
LEMMA CountKept ==
    ASSUME ~Early, ArrivalInv, act' = act, actView' = actView,
           \A t : TileCell(t) \in written' <=> TileCell(t) \in written,
           \A c \in Blocks : /\ pc'[c] = "count" <=> pc[c] = "count"
                             /\ pc[c] = "count" => task'[c] = task[c]
                             /\ view[c] \subseteq view'[c]
    PROVE  ArrivalInv'
  <1>1. \A t : Counted(t)' <=> Counted(t)
    BY DEF Counted
  <1>2. \A k \in Keys :
              act'[k] = One(Counted(4 * k)') + One(Counted(4 * k + 1)')
                        + One(Counted(4 * k + 2)') + One(Counted(4 * k + 3)')
    BY <1>1 DEF ArrivalInv, One
  <1>3. \A t \in GuTasks : Counted(t)' => TileCell(t) \in actView'[KeyOf(t)]
    BY <1>1 DEF ArrivalInv
  <1>4. \A b \in Blocks :
              pc'[b] = "count" =>
                  /\ TileCell(task'[b]) \in view'[b]
                  /\ \A c \in Blocks : pc'[c] = "count" /\ task'[c] = task'[b] => c = b
    BY DEF ArrivalInv
  <1> QED BY <1>2, <1>3, <1>4 DEF ArrivalInv, One

\* The four tiles of a 128-block; a task counts in the sum of its own only.
LEMMA TileOfKey ==
    ASSUME NEW k \in Keys, NEW t \in GuTasks
    PROVE  /\ 4 * k \in GuTasks /\ 4 * k + 1 \in GuTasks
           /\ 4 * k + 2 \in GuTasks /\ 4 * k + 3 \in GuTasks
           /\ KeyOf(t) = k <=> t \in {4 * k, 4 * k + 1, 4 * k + 2, 4 * k + 3}
           /\ KeyOf(t) = k => k \in Nat
  <1>1. \A i \in 0 .. 3 : 4 * k + i \in GuTasks
    BY TilesOfKeyLemma
  <1>2. k \in Nat /\ t \in Nat /\ KeyOf(t) = t \div 4
    BY KeyOfLemma, CountsLemma DEF Keys, GuTasks
  <1>3. 4 * k + 0 \in GuTasks /\ 4 * k + 1 \in GuTasks /\ 4 * k + 2 \in GuTasks /\ 4 * k + 3 \in GuTasks
    BY <1>1
  <1>4. t \div 4 = k <=> t \in {4 * k, 4 * k + 1, 4 * k + 2, 4 * k + 3}
    BY <1>2
  <1> QED BY <1>2, <1>3, <1>4

\* Before a block counts its tile, at least one of the four is uncounted.
LEMMA NotYetFour ==
    ASSUME TypeInv, ArrivalInv, NEW b \in Blocks, pc[b] = "count"
    PROVE  LET k == KeyOf(task[b]) IN
           /\ k \in Keys /\ task[b] \in GuTasks
           /\ act[k] \in 0 .. 3
           /\ act[k] = 3 => \A t \in GuTasks : KeyOf(t) = k /\ t # task[b] => Counted(t)
  <1> DEFINE k == KeyOf(task[b])
  <1>1. task[b] \in GuTasks /\ k \in Keys
    BY KeyOfLemma DEF TypeInv, PlaceInv
  <1>2. ~Counted(task[b])
    BY DEF Counted
  <1>3. ~Early
    BY DEF Early
  <1>4. act[k] = One(Counted(4 * k)) + One(Counted(4 * k + 1))
                 + One(Counted(4 * k + 2)) + One(Counted(4 * k + 3))
    BY <1>1, <1>3 DEF ArrivalInv
  <1>5. task[b] \in {4 * k, 4 * k + 1, 4 * k + 2, 4 * k + 3}
    BY <1>1, TileOfKey
  <1>6. \A t \in GuTasks : KeyOf(t) = k => t \in {4 * k, 4 * k + 1, 4 * k + 2, 4 * k + 3}
    BY <1>1, TileOfKey
  <1> HIDE DEF k
  <1>7. act[k] \in 0 .. 3
    BY <1>2, <1>4, <1>5 DEF One
  <1>8. ASSUME act[k] = 3, NEW t \in GuTasks, KeyOf(t) = k, t # task[b]
        PROVE  Counted(t)
    BY <1>2, <1>4, <1>5, <1>6, <1>8 DEF One
  <1> QED BY <1>1, <1>7, <1>8 DEF k

LEMMA ArrivalStep ==
    ASSUME TypeInv, TypeInv', DealInv, SeenInv, ArrivalInv, [Next]_vars
    PROVE  ArrivalInv'
  <1> USE PhasesDisjoint, GridLemma
  <1>1. ASSUME Early' PROVE ArrivalInv'
    BY <1>1 DEF ArrivalInv
  <1>2. ASSUME NEW b \in Blocks, ZeroCtl(b) \/ InputHadamard(b) PROVE ArrivalInv'
    <2>1. Early'
      BY <1>2, PhaseOf DEF ZeroCtl, InputHadamard, Goto, Early, TypeInv, TypeOK
    <2> QED BY <1>1, <2>1
  <1>3. ASSUME Relaunch PROVE ArrivalInv'
    <2>1. Early'
      BY <1>3 DEF Relaunch, Early
    <2> QED BY <1>1, <2>1
  <1>4. ASSUME FirstSync PROVE ArrivalInv'
    <2>1. Early /\ pc[0] # "zero"
      BY <1>4 DEF FirstSync, GridSync, Early
    <2>2. act' = [k \in Keys |-> 0] /\ written' = written /\ written \subseteq HadCells
      BY <1>4, <2>1 DEF FirstSync, GridSync, ctl, DealInv, ZeroedInv, EarlyInv
    <2>3. \A t : ~Counted(t)'
      BY <2>2, CellsDistinct DEF Counted, HadCells
    <2>4. \A b \in Blocks : pc'[b] # "count"
      BY <1>4 DEF FirstSync, GridSync
    <2>5. \A k \in Keys :
              act'[k] = One(Counted(4 * k)') + One(Counted(4 * k + 1)')
                        + One(Counted(4 * k + 2)') + One(Counted(4 * k + 3)')
      BY <2>2, <2>3 DEF One
    <2> QED BY <2>3, <2>4, <2>5 DEF ArrivalInv, One
  <1>5. ASSUME SecondSync PROVE ArrivalInv'
    <2>1. ~Early
      BY <1>5 DEF SecondSync, GridSync, Early
    <2> QED BY <1>5, <2>1, CountKept DEF SecondSync, GridSync, ctl
  <1>6. ASSUME NEW b \in Blocks, Claim(b) \/ OutOfTasks(b) PROVE ArrivalInv'
    <2>1. ~Early
      BY <1>6 DEF Claim, OutOfTasks, Early
    <2> QED BY <1>6, <2>1, CountKept DEF Claim, OutOfTasks, Goto, ctl, mem, TypeInv, TypeOK
  <1>7. ASSUME NEW b \in Blocks, Acquire(b) PROVE ArrivalInv'
    <2>1. ~Early
      BY <1>7 DEF Acquire, Early
    <2> QED BY <1>7, <2>1, CountKept DEF Acquire, Goto, ctl, TypeInv, TypeOK
  <1>8. ASSUME NEW b \in Blocks, ReleaseUnit(b) PROVE ArrivalInv'
    <2>1. ~Early
      BY <1>8 DEF ReleaseUnit, Early
    <2> QED BY <1>8, <2>1, CountKept DEF ReleaseUnit, Advance, Goto, TypeInv, TypeOK
  <1>9. ASSUME NEW b \in Blocks, Epilogue(b) \/ DownTile(b) \/ Output(b) PROVE ArrivalInv'
    <2>1. ~Early
      BY <1>9 DEF Epilogue, DownTile, Output, Early
    <2>2. \E S : Store(b, S) /\ \A t : TileCell(t) \notin S
      <3>1. CASE Epilogue(b)
        <4>1. \A t : TileCell(t) \notin {ActCell(KeyOf(task[b]))}
          BY CellsDistinct
        <4> QED BY <3>1, <4>1 DEF Epilogue
      <3>2. CASE DownTile(b)
        <4>1. \A t : TileCell(t) \notin {DownCell(task[b])}
          BY CellsDistinct
        <4> QED BY <3>2, <4>1 DEF DownTile
      <3>3. CASE Output(b)
        <4>1. \A t : TileCell(t) \notin OutShare(b)
          BY CellsDistinct DEF OutShare
        <4> QED BY <3>3, <4>1 DEF Output
      <3> QED BY <1>9, <3>1, <3>2, <3>3
    <2>3. \A t : TileCell(t) \in written' <=> TileCell(t) \in written
      BY <2>2 DEF Store
    <2>4. \A c \in Blocks : view[c] \subseteq view'[c]
      BY <2>2, StoreFacts DEF TypeInv
    <2> QED BY <1>9, <2>1, <2>3, <2>4, CountKept
            DEF Epilogue, DownTile, Output, Advance, Goto, ctl, TypeInv, TypeOK
  <1>10. ASSUME NEW b \in Blocks, GateUpTile(b) PROVE ArrivalInv'
    <2> DEFINE t0 == task[b]
    <2>1. ~Early /\ Loop /\ pc[b] = "tile" /\ t0 \in GuTasks
      BY <1>10, PhaseOf DEF GateUpTile, TypeInv, PlaceInv
    <2>2. TileCell(t0) \notin written
      BY <2>1 DEF DealInv, DistinctInv, Held, StoredTask, Tasks
    <2>3. /\ \A t : TileCell(t) \in written' <=> TileCell(t) \in written \/ t = t0
          /\ TileCell(t0) \in view'[b]
          /\ \A c \in Blocks : view[c] \subseteq view'[c]
      BY <1>10, StoreFacts, CellsDistinct DEF GateUpTile, TypeInv
    <2>4. /\ pc'[b] = "count" /\ task' = task /\ act' = act /\ actView' = actView
          /\ \A c \in Blocks \ {b} : pc'[c] = pc[c]
      BY <1>10 DEF GateUpTile, Goto, ctl, TypeInv, TypeOK
    <2>5. \A t : Counted(t)' <=> Counted(t)
      BY <2>1, <2>2, <2>3, <2>4 DEF Counted
    <2>6. \A c \in Blocks : pc[c] = "count" => task[c] # t0
      BY <2>1, <2>2 DEF ArrivalInv, SeenInv
    <2>7. \A k \in Keys :
              act'[k] = One(Counted(4 * k)') + One(Counted(4 * k + 1)')
                        + One(Counted(4 * k + 2)') + One(Counted(4 * k + 3)')
      BY <2>1, <2>4, <2>5 DEF ArrivalInv, One
    <2>8. \A t \in GuTasks : Counted(t)' => TileCell(t) \in actView'[KeyOf(t)]
      BY <2>1, <2>4, <2>5 DEF ArrivalInv
    <2>9. \A d \in Blocks :
              pc'[d] = "count" =>
                  /\ TileCell(task'[d]) \in view'[d]
                  /\ \A c \in Blocks : pc'[c] = "count" /\ task'[c] = task'[d] => c = d
      BY <2>1, <2>3, <2>4, <2>6 DEF ArrivalInv
    <2> QED BY <2>7, <2>8, <2>9 DEF ArrivalInv, One
  <1>11. ASSUME NEW b \in Blocks, CountTile(b) PROVE ArrivalInv'
    <2>0. PICK t0 \in GuTasks : t0 = task[b]
      BY <1>11 DEF CountTile, TypeInv, PlaceInv
    <2>00. PICK k0 \in Keys : k0 = KeyOf(t0)
      BY KeyOfLemma
    <2> USE <2>0, <2>00
    <2>1. ~Early /\ pc[b] = "count"
      BY <1>11 DEF CountTile, Early
    <2>2. /\ pc'[b] # "count" /\ written' = written
          /\ \A c \in Blocks \ {b} : pc'[c] = pc[c] /\ task'[c] = task[c]
          /\ \A c \in Blocks : view[c] \subseteq view'[c]
      BY <1>11, <2>1 DEF CountTile, Advance, Goto, TypeInv, TypeOK
    <2>3. /\ act' = [act EXCEPT ![k0] = @ + 1]
          /\ actView' = [actView EXCEPT ![k0] = @ \cup view[b]]
      BY <1>11 DEF CountTile
    <2>4. TileCell(t0) \in view[b] /\ TileCell(t0) \in written
      BY <2>1 DEF ArrivalInv, SeenInv
    <2>5. \A c \in Blocks : pc[c] = "count" /\ task[c] = t0 => c = b
      BY <2>1 DEF ArrivalInv
    <2>6. /\ ~Counted(t0) /\ Counted(t0)'
          /\ \A t : t # t0 => (Counted(t)' <=> Counted(t))
      BY <2>1, <2>2, <2>4, <2>5 DEF Counted
    <2>7. ASSUME NEW k \in Keys
          PROVE  act'[k] = One(Counted(4 * k)') + One(Counted(4 * k + 1)')
                           + One(Counted(4 * k + 2)') + One(Counted(4 * k + 3)')
      <3>1. act[k] = One(Counted(4 * k)) + One(Counted(4 * k + 1))
                     + One(Counted(4 * k + 2)) + One(Counted(4 * k + 3))
        BY <2>1 DEF ArrivalInv
      <3>2. k \in Nat /\ act[k] \in Nat
        <4>1. Keys \subseteq Nat
          BY CountsLemma DEF Keys
        <4> QED BY <4>1 DEF TypeInv, TypeOK
      <3>3. k0 = k <=> t0 \in {4 * k, 4 * k + 1, 4 * k + 2, 4 * k + 3}
        BY <2>1, TileOfKey
      <3>4. CASE k = k0
        <4>1. act'[k] = act[k] + 1
          BY <2>3, <3>4 DEF TypeInv, TypeOK
        <4> QED BY <2>6, <3>1, <3>2, <3>3, <3>4, <4>1 DEF One
      <3>5. CASE k # k0
        <4>1. act'[k] = act[k]
          BY <2>3, <3>5 DEF TypeInv, TypeOK
        <4> QED BY <2>6, <3>1, <3>3, <3>5, <4>1 DEF One
      <3> QED BY <3>4, <3>5
    <2>8. ASSUME NEW t \in GuTasks, Counted(t)' PROVE TileCell(t) \in actView'[KeyOf(t)]
      <3>1. KeyOf(t) \in Keys
        BY KeyOfLemma
      <3>2. CASE t = t0
        BY <2>1, <2>3, <2>4, <3>2 DEF TypeInv, TypeOK
      <3>3. CASE t # t0
        <4>1. TileCell(t) \in actView[KeyOf(t)]
          BY <2>1, <2>6, <2>8, <3>3 DEF ArrivalInv
        <4> QED BY <2>3, <3>1, <4>1 DEF TypeInv, TypeOK
      <3> QED BY <3>2, <3>3
    <2>9. \A d \in Blocks :
              pc'[d] = "count" =>
                  /\ TileCell(task'[d]) \in view'[d]
                  /\ \A c \in Blocks : pc'[c] = "count" /\ task'[c] = task'[d] => c = d
      BY <2>1, <2>2 DEF ArrivalInv
    <2> QED BY <2>7, <2>8, <2>9 DEF ArrivalInv, One
  <1>12. ASSUME UNCHANGED vars PROVE ArrivalInv'
    BY <1>1, <1>12, CountKept DEF vars, Early
  <1> QED
    BY <1>2, <1>3, <1>4, <1>5, <1>6, <1>7, <1>8, <1>9, <1>10, <1>11, <1>12
       DEF Next, Work, Poll

------------------------------------------------------------------------------
\* Election: one block runs the epilogue of a 128-block.

\* A step that touches no arrival counter and moves no block into, out of or
\* through an epilogue.
LEMMA ElectedKept ==
    ASSUME ElectedInv, act' = act,
           \A k : ActCell(k) \in written' <=> ActCell(k) \in written,
           \A c \in Blocks : /\ pc'[c] = "epilogue" <=> pc[c] = "epilogue"
                             /\ pc'[c] = "release" <=> pc[c] = "release"
                             /\ pc[c] \in {"epilogue", "release"} => task'[c] = task[c]
                             /\ view[c] \subseteq view'[c],
           Early' <=> Early
    PROVE  ElectedInv'
  <1>1. \A b \in Blocks :
          pc'[b] \in {"epilogue", "release"} =>
              /\ act'[KeyOf(task'[b])] = 4
              /\ \A c \in Blocks :
                    pc'[c] \in {"epilogue", "release"} /\ KeyOf(task'[c]) = KeyOf(task'[b])
                        => c = b
    BY DEF ElectedInv
  <1>2. \A b \in Blocks :
          /\ pc'[b] = "epilogue" => ActCell(KeyOf(task'[b])) \notin written'
          /\ pc'[b] = "release"  => ActCell(KeyOf(task'[b])) \in view'[b]
    BY DEF ElectedInv
  <1>3. \A k \in Keys : ActCell(k) \in written' => act'[k] = 4
    BY DEF ElectedInv
  <1>4. ASSUME ~Early', NEW k \in Keys, act'[k] = 4, ActCell(k) \notin written'
        PROVE  \E b \in Blocks : pc'[b] = "epilogue" /\ KeyOf(task'[b]) = k
    <2>1. PICK b \in Blocks : pc[b] = "epilogue" /\ KeyOf(task[b]) = k
      BY <1>4 DEF ElectedInv
    <2> QED BY <2>1
  <1> QED BY <1>1, <1>2, <1>3, <1>4 DEF ElectedInv

\* Steps of the early phase.
LEMMA ElectedEarly ==
    ASSUME Early', written' \subseteq HadCells
    PROVE  ElectedInv'
  <1>1. \A k : ActCell(k) \notin written'
    BY CellsDistinct DEF HadCells
  <1> QED BY <1>1 DEF ElectedInv, Early

LEMMA ElectedStep ==
    ASSUME TypeInv, TypeInv', DealInv, DealInv', SeenInv, ArrivalInv, ElectedInv, [Next]_vars
    PROVE  ElectedInv'
  <1> USE PhasesDisjoint, GridLemma
  <1>1. ASSUME Early' PROVE ElectedInv'
    BY <1>1, ElectedEarly DEF DealInv, EarlyInv
  <1>2. ASSUME NEW b \in Blocks, ZeroCtl(b) \/ InputHadamard(b) PROVE ElectedInv'
    <2>1. Early'
      BY <1>2, PhaseOf DEF ZeroCtl, InputHadamard, Goto, Early, TypeInv, TypeOK
    <2> QED BY <1>1, <2>1
  <1>3. ASSUME Relaunch PROVE ElectedInv'
    <2>1. Early'
      BY <1>3 DEF Relaunch, Early
    <2> QED BY <1>1, <2>1
  <1>4. ASSUME FirstSync PROVE ElectedInv'
    <2>1. Early /\ pc[0] # "zero"
      BY <1>4 DEF FirstSync, GridSync, Early
    <2>2. act' = [k \in Keys |-> 0] /\ written' = written /\ written \subseteq HadCells
      BY <1>4, <2>1 DEF FirstSync, GridSync, ctl, DealInv, ZeroedInv, EarlyInv
    <2>3. \A k : ActCell(k) \notin written'
      BY <2>2, CellsDistinct DEF HadCells
    <2>4. \A b \in Blocks : pc'[b] = "top"
      BY <1>4 DEF FirstSync, GridSync
    <2> QED BY <2>2, <2>3, <2>4 DEF ElectedInv
  <1>5. ASSUME SecondSync PROVE ElectedInv'
    <2>1. ~Early /\ Late'
      BY <1>5 DEF SecondSync, GridSync, Early, Late
    <2> QED BY <1>5, <2>1, ElectedKept DEF SecondSync, GridSync, ctl
  <1>6. ASSUME NEW b \in Blocks, Claim(b) \/ OutOfTasks(b) PROVE ElectedInv'
    <2>1. ~Early /\ Loop'
      BY <1>6, PhaseOf DEF Claim, OutOfTasks, Goto, Loop, TypeInv, TypeOK
    <2> QED BY <1>6, <2>1, ElectedKept DEF Claim, OutOfTasks, Goto, ctl, mem, TypeInv, TypeOK
  <1>7. ASSUME NEW b \in Blocks, Acquire(b) PROVE ElectedInv'
    <2>1. ~Early /\ Loop'
      BY <1>7, PhaseOf DEF Acquire, Goto, Loop, TypeInv, TypeOK
    <2> QED BY <1>7, <2>1, ElectedKept DEF Acquire, Goto, ctl, TypeInv, TypeOK
  <1>8. ASSUME NEW b \in Blocks, GateUpTile(b) \/ DownTile(b) PROVE ElectedInv'
    <2>1. ~Early /\ Loop'
      BY <1>8, PhaseOf DEF GateUpTile, DownTile, Advance, Goto, Loop, TypeInv, TypeOK
    <2>2. /\ \A k : ActCell(k) \in written' <=> ActCell(k) \in written
          /\ \A c \in Blocks : view[c] \subseteq view'[c]
      BY <1>8, StoreFacts, CellsDistinct DEF GateUpTile, DownTile, TypeInv
    <2> QED BY <1>8, <2>1, <2>2, ElectedKept
            DEF GateUpTile, DownTile, Advance, Goto, ctl, TypeInv, TypeOK
  <1>9. ASSUME NEW b \in Blocks, Output(b) PROVE ElectedInv'
    <2>1. ~Early /\ Late'
      BY <1>9, PhaseOf DEF Output, Goto, Late, TypeInv, TypeOK
    <2>2. \A k : ActCell(k) \notin OutShare(b)
      BY CellsDistinct DEF OutShare
    <2>3. /\ \A k : ActCell(k) \in written' <=> ActCell(k) \in written
          /\ \A c \in Blocks : view[c] \subseteq view'[c]
      BY <1>9, <2>2, StoreFacts DEF Output, TypeInv
    <2> QED BY <1>9, <2>1, <2>3, ElectedKept DEF Output, Goto, ctl, TypeInv, TypeOK
  <1>10. ASSUME NEW b \in Blocks, CountTile(b) PROVE ElectedInv'
    <2>0. PICK k0 \in Keys : k0 = KeyOf(task[b])
      BY <1>10, NotYetFour DEF CountTile
    <2>1. ~Early /\ ~Early' /\ pc[b] = "count" /\ act[k0] \in 0 .. 3
      BY <1>10, <2>0, NotYetFour, PhaseOf
         DEF CountTile, Advance, Goto, Loop, TypeInv, TypeOK
    <2>2. /\ \A c \in Blocks \ {b} : pc'[c] = pc[c] /\ task'[c] = task[c]
          /\ \A c \in Blocks : view[c] \subseteq view'[c]
          /\ written' = written
          /\ act'[k0] = act[k0] + 1
          /\ \A k \in Keys \ {k0} : act'[k] = act[k]
      BY <1>10, <2>0, <2>1 DEF CountTile, Advance, Goto, TypeInv, TypeOK
    <2>3. /\ ActCell(k0) \notin written
          /\ \A c \in Blocks : pc[c] \in {"epilogue", "release"} => KeyOf(task[c]) # k0
      BY <2>0, <2>1 DEF ElectedInv
    <2>4. \A c \in Blocks :
             pc[c] \in {"epilogue", "release"} => KeyOf(task[c]) \in Keys
      BY KeyOfLemma DEF TypeInv, PlaceInv
    <2>5. \/ act[k0] = 3 /\ pc'[b] = "epilogue" /\ task'[b] = task[b]
          \/ act[k0] # 3 /\ pc'[b] = "top"
      BY <1>10, <2>0 DEF CountTile, Advance, Goto, TypeInv, TypeOK
    <2>6. \A d \in Blocks :
            pc'[d] \in {"epilogue", "release"} =>
              /\ act'[KeyOf(task'[d])] = 4
              /\ \A c \in Blocks :
                    pc'[c] \in {"epilogue", "release"} /\ KeyOf(task'[c]) = KeyOf(task'[d])
                        => c = d
      <3> SUFFICES ASSUME NEW d \in Blocks, pc'[d] \in {"epilogue", "release"}
                   PROVE  /\ act'[KeyOf(task'[d])] = 4
                          /\ \A c \in Blocks :
                                pc'[c] \in {"epilogue", "release"} /\ KeyOf(task'[c]) = KeyOf(task'[d])
                                  => c = d
        OBVIOUS
      <3>1. CASE d = b
        BY <2>0, <2>2, <2>3, <2>5, <3>1
      <3>2. CASE d # b
        <4>1. act'[KeyOf(task'[d])] = 4
          BY <2>2, <2>3, <2>4, <3>2 DEF ElectedInv
        <4>2. ASSUME NEW c \in Blocks, pc'[c] \in {"epilogue", "release"}, KeyOf(task'[c]) = KeyOf(task'[d])
              PROVE  c = d
          BY <2>0, <2>2, <2>3, <2>5, <3>2, <4>2 DEF ElectedInv
        <4> QED BY <4>1, <4>2
      <3> QED BY <3>1, <3>2
    <2>7. \A d \in Blocks :
            /\ pc'[d] = "epilogue" => ActCell(KeyOf(task'[d])) \notin written'
            /\ pc'[d] = "release"  => ActCell(KeyOf(task'[d])) \in view'[d]
      BY <2>0, <2>2, <2>3, <2>5 DEF ElectedInv
    <2>8. \A k \in Keys : ActCell(k) \in written' => act'[k] = 4
      BY <2>2, <2>3 DEF ElectedInv
    <2>9. ASSUME NEW k \in Keys, act'[k] = 4, ActCell(k) \notin written'
          PROVE  \E d \in Blocks : pc'[d] = "epilogue" /\ KeyOf(task'[d]) = k
      <3>1. CASE k = k0
        BY <2>0, <2>1, <2>2, <2>5, <2>9, <3>1
      <3>2. CASE k # k0
        <4>1. PICK d \in Blocks : pc[d] = "epilogue" /\ KeyOf(task[d]) = k
          BY <2>1, <2>2, <2>9, <3>2 DEF ElectedInv
        <4> QED BY <2>1, <2>2, <4>1
      <3> QED BY <3>1, <3>2
    <2> QED BY <2>6, <2>7, <2>8, <2>9 DEF ElectedInv
  <1>11. ASSUME NEW b \in Blocks, Epilogue(b) PROVE ElectedInv'
    <2>0. PICK k0 \in Keys : k0 = KeyOf(task[b])
      BY <1>11, KeyOfLemma DEF Epilogue, TypeInv, PlaceInv
    <2>1. ~Early /\ ~Early' /\ pc[b] = "epilogue" /\ act[k0] = 4
      BY <1>11, <2>0, PhaseOf DEF Epilogue, Goto, Loop, TypeInv, TypeOK, ElectedInv
    <2>2. /\ \A c \in Blocks \ {b} : pc'[c] = pc[c]
          /\ pc'[b] = "release" /\ task' = task /\ act' = act
      BY <1>11 DEF Epilogue, Goto, ctl, TypeInv, TypeOK
    <2>3. /\ \A c \in Blocks : view[c] \subseteq view'[c]
          /\ ActCell(k0) \in view'[b]
          /\ \A k : ActCell(k) \in written' <=> ActCell(k) \in written \/ k = k0
      BY <1>11, <2>0, StoreFacts, CellsDistinct DEF Epilogue, TypeInv
    <2>4. \A c \in Blocks \ {b} :
             pc[c] \in {"epilogue", "release"} => KeyOf(task[c]) # k0
      BY <2>0, <2>1 DEF ElectedInv
    <2>5. \A d \in Blocks :
            pc'[d] \in {"epilogue", "release"} =>
              /\ act'[KeyOf(task'[d])] = 4
              /\ \A c \in Blocks :
                    pc'[c] \in {"epilogue", "release"} /\ KeyOf(task'[c]) = KeyOf(task'[d])
                        => c = d
      BY <2>0, <2>1, <2>2 DEF ElectedInv
    <2>6. \A d \in Blocks :
            /\ pc'[d] = "epilogue" => ActCell(KeyOf(task'[d])) \notin written'
            /\ pc'[d] = "release"  => ActCell(KeyOf(task'[d])) \in view'[d]
      BY <2>0, <2>2, <2>3, <2>4 DEF ElectedInv
    <2>7. \A k \in Keys : ActCell(k) \in written' => act'[k] = 4
      BY <2>1, <2>2, <2>3 DEF ElectedInv
    <2>8. ASSUME NEW k \in Keys, act'[k] = 4, ActCell(k) \notin written'
          PROVE  \E d \in Blocks : pc'[d] = "epilogue" /\ KeyOf(task'[d]) = k
      <3>1. k # k0 /\ ActCell(k) \notin written
        BY <2>3, <2>8
      <3>2. PICK d \in Blocks : pc[d] = "epilogue" /\ KeyOf(task[d]) = k
        BY <2>1, <2>2, <2>8, <3>1 DEF ElectedInv
      <3> QED BY <2>0, <2>2, <3>1, <3>2
    <2> QED BY <2>5, <2>6, <2>7, <2>8 DEF ElectedInv
  <1>12. ASSUME NEW b \in Blocks, ReleaseUnit(b) PROVE ElectedInv'
    <2>1. ~Early /\ ~Early' /\ pc[b] = "release"
      BY <1>12, PhaseOf DEF ReleaseUnit, Advance, Goto, Loop, TypeInv, TypeOK
    <2>2. /\ \A c \in Blocks \ {b} : pc'[c] = pc[c] /\ task'[c] = task[c]
          /\ pc'[b] = "top" /\ act' = act /\ written' = written /\ view' = view
      BY <1>12 DEF ReleaseUnit, Advance, Goto, TypeInv, TypeOK
    <2>3. ASSUME NEW k \in Keys, act'[k] = 4, ActCell(k) \notin written'
          PROVE  \E d \in Blocks : pc'[d] = "epilogue" /\ KeyOf(task'[d]) = k
      <3>1. PICK d \in Blocks : pc[d] = "epilogue" /\ KeyOf(task[d]) = k
        BY <2>1, <2>2, <2>3 DEF ElectedInv
      <3> QED BY <2>1, <2>2, <3>1
    <2>4. \A d \in Blocks :
            pc'[d] \in {"epilogue", "release"} =>
              /\ act'[KeyOf(task'[d])] = 4
              /\ \A c \in Blocks :
                    pc'[c] \in {"epilogue", "release"} /\ KeyOf(task'[c]) = KeyOf(task'[d])
                        => c = d
      BY <2>2 DEF ElectedInv
    <2>5. \A d \in Blocks :
            /\ pc'[d] = "epilogue" => ActCell(KeyOf(task'[d])) \notin written'
            /\ pc'[d] = "release"  => ActCell(KeyOf(task'[d])) \in view'[d]
      BY <2>2 DEF ElectedInv
    <2>6. \A k \in Keys : ActCell(k) \in written' => act'[k] = 4
      BY <2>2 DEF ElectedInv
    <2> QED BY <2>3, <2>4, <2>5, <2>6 DEF ElectedInv
  <1>13. ASSUME UNCHANGED vars PROVE ElectedInv'
    <2>1. Early' <=> Early
      BY <1>13 DEF vars, Early
    <2> QED BY <1>13, <2>1, ElectedKept DEF vars
  <1> QED
    BY <1>2, <1>3, <1>4, <1>5, <1>6, <1>7, <1>8, <1>9, <1>10, <1>11, <1>12, <1>13
       DEF Next, Work, Poll

------------------------------------------------------------------------------
\* Releases: the readiness word of a unit is the number of its finished
\* 128-blocks.

KeysOfUnit(u) == {k \in Keys : UnitOfKey(k) = u}

LEMMA KeysOfUnitLemma ==
    ASSUME NEW u \in UnitIds
    PROVE  IsFiniteSet(KeysOfUnit(u)) /\ Cardinality(KeysOfUnit(u)) = Hb
  <1> DEFINE lo == u * Hb
  <1>1. u \in Nat /\ u < Units /\ Hb \in Nat \ {0} /\ Units \in Nat
    BY LayoutAssumption DEF UnitIds
  <1>2. lo \in Nat /\ lo + Hb <= Units * Hb /\ Units * Hb \in Nat
    BY <1>1
  <1>3. \A k \in Nat : UnitOfKey(k) = u <=> lo <= k /\ k < lo + Hb
    BY <1>1, DivLemma, DivUnique DEF UnitOfKey
  <1> HIDE DEF lo
  <1>4. KeysOfUnit(u) = lo .. (lo + Hb - 1)
    BY <1>1, <1>2, <1>3 DEF KeysOfUnit, Keys
  <1>5. IsFiniteSet(lo .. (lo + Hb - 1)) /\ Cardinality(lo .. (lo + Hb - 1)) = Hb
    BY <1>1, <1>2, FS_Interval
  <1> QED BY <1>4, <1>5

LEMMA ReleaseKept ==
    ASSUME ~Early, ReleaseInv, ready' = ready, readyView' = readyView,
           \A k \in Keys : Released(k)' <=> Released(k)
    PROVE  ReleaseInv'
  <1>1. \A u \in UnitIds : ReleasedKeys(u)' = ReleasedKeys(u)
    BY DEF ReleasedKeys
  <1> QED BY <1>1 DEF ReleaseInv

LEMMA ReleaseStep ==
    ASSUME TypeInv, TypeInv', DealInv, DealInv', SeenInv, ElectedInv, ReleaseInv, [Next]_vars
    PROVE  ReleaseInv'
  <1> USE PhasesDisjoint, GridLemma
  <1>1. ASSUME Early' PROVE ReleaseInv'
    BY <1>1 DEF ReleaseInv
  <1>2. ASSUME NEW b \in Blocks, ZeroCtl(b) \/ InputHadamard(b) PROVE ReleaseInv'
    <2>1. Early'
      BY <1>2, PhaseOf DEF ZeroCtl, InputHadamard, Goto, Early, TypeInv, TypeOK
    <2> QED BY <1>1, <2>1
  <1>3. ASSUME Relaunch PROVE ReleaseInv'
    <2>1. Early'
      BY <1>3 DEF Relaunch, Early
    <2> QED BY <1>1, <2>1
  <1>4. ASSUME FirstSync PROVE ReleaseInv'
    <2>1. Early /\ pc[0] # "zero"
      BY <1>4 DEF FirstSync, GridSync, Early
    <2>2. ready' = [u \in UnitIds |-> 0] /\ written' = written /\ written \subseteq HadCells
      BY <1>4, <2>1 DEF FirstSync, GridSync, ctl, DealInv, ZeroedInv, EarlyInv
    <2>3. \A k : ~Released(k)'
      BY <2>2, CellsDistinct DEF Released, HadCells
    <2>4. \A u \in UnitIds : ReleasedKeys(u)' = {}
      BY <2>3 DEF ReleasedKeys
    <2> QED BY <2>2, <2>3, <2>4, FS_EmptySet DEF ReleaseInv
  <1>5. ASSUME SecondSync PROVE ReleaseInv'
    <2>1. ~Early
      BY <1>5 DEF SecondSync, GridSync, Early
    <2>2. \A k \in Keys : Released(k)' <=> Released(k)
      BY <1>5 DEF SecondSync, GridSync, Released
    <2> QED BY <1>5, <2>1, <2>2, ReleaseKept DEF SecondSync, GridSync, ctl
  <1>6. ASSUME NEW b \in Blocks, Claim(b) \/ OutOfTasks(b) \/ Acquire(b) PROVE ReleaseInv'
    <2>1. ~Early
      BY <1>6 DEF Claim, OutOfTasks, Acquire, Early
    <2>2. \A k \in Keys : Released(k)' <=> Released(k)
      BY <1>6 DEF Claim, OutOfTasks, Acquire, Goto, mem, Released, TypeInv, TypeOK
    <2> QED BY <1>6, <2>1, <2>2, ReleaseKept DEF Claim, OutOfTasks, Acquire, ctl, mem
  <1>7. ASSUME NEW b \in Blocks, CountTile(b) PROVE ReleaseInv'
    <2>1. ~Early
      BY <1>7 DEF CountTile, Early
    <2>2. \A k \in Keys : Released(k)' <=> Released(k)
      BY <1>7 DEF CountTile, Advance, Goto, Released, TypeInv, TypeOK
    <2> QED BY <1>7, <2>1, <2>2, ReleaseKept DEF CountTile
  <1>8. ASSUME NEW b \in Blocks, GateUpTile(b) \/ DownTile(b) PROVE ReleaseInv'
    <2>1. ~Early
      BY <1>8 DEF GateUpTile, DownTile, Early
    <2>2. \A k : ActCell(k) \in written' <=> ActCell(k) \in written
      BY <1>8, CellsDistinct DEF GateUpTile, DownTile, Store
    <2>3. \A k \in Keys : Released(k)' <=> Released(k)
      BY <1>8, <2>2 DEF GateUpTile, DownTile, Advance, Goto, Released, TypeInv, TypeOK
    <2> QED BY <1>8, <2>1, <2>3, ReleaseKept DEF GateUpTile, DownTile, ctl
  <1>9. ASSUME NEW b \in Blocks, Output(b) PROVE ReleaseInv'
    <2>1. ~Early
      BY <1>9 DEF Output, Early
    <2>2. \A k : ActCell(k) \notin OutShare(b)
      BY CellsDistinct DEF OutShare
    <2>3. \A k \in Keys : Released(k)' <=> Released(k)
      BY <1>9, <2>2 DEF Output, Store, Goto, Released, TypeInv, TypeOK
    <2> QED BY <1>9, <2>1, <2>3, ReleaseKept DEF Output, ctl
  <1>10. ASSUME NEW b \in Blocks, Epilogue(b) PROVE ReleaseInv'
    <2>0. PICK k0 \in Keys : k0 = KeyOf(task[b])
      BY <1>10, KeyOfLemma DEF Epilogue, TypeInv, PlaceInv
    <2>1. ~Early /\ ActCell(k0) \notin written
      BY <1>10, <2>0 DEF Epilogue, Early, ElectedInv
    <2>2. /\ \A c \in Blocks \ {b} : pc'[c] = pc[c]
          /\ pc'[b] = "release" /\ pc[b] = "epilogue" /\ task' = task
      BY <1>10 DEF Epilogue, Goto, TypeInv, TypeOK
    <2>3. \A k : ActCell(k) \in written' <=> ActCell(k) \in written \/ k = k0
      BY <1>10, <2>0, CellsDistinct DEF Epilogue, Store
    <2>4. \A k \in Keys : Released(k)' <=> Released(k)
      BY <2>0, <2>1, <2>2, <2>3 DEF Released
    <2> QED BY <1>10, <2>1, <2>4, ReleaseKept DEF Epilogue, ctl
  <1>11. ASSUME NEW b \in Blocks, ReleaseUnit(b) PROVE ReleaseInv'
    <2>0. PICK k0 \in Keys : k0 = KeyOf(task[b])
      BY <1>11, KeyOfLemma DEF ReleaseUnit, TypeInv, PlaceInv
    <2>00. PICK u0 \in UnitIds : u0 = UnitOf(task[b]) /\ UnitOfKey(k0) = u0
      BY <1>11, <2>0, KeyOfLemma DEF ReleaseUnit, TypeInv, PlaceInv
    <2>1. ~Early /\ pc[b] = "release"
      BY <1>11 DEF ReleaseUnit, Early
    <2>2. /\ \A c \in Blocks \ {b} : pc'[c] = pc[c] /\ task'[c] = task[c]
          /\ pc'[b] = "top" /\ written' = written
      BY <1>11 DEF ReleaseUnit, Advance, Goto, TypeInv, TypeOK
    <2>3. /\ ready'[u0] = ready[u0] + 1
          /\ \A u \in UnitIds \ {u0} : ready'[u] = ready[u] /\ readyView'[u] = readyView[u]
          /\ readyView'[u0] = readyView[u0] \cup view[b]
      BY <1>11, <2>00 DEF ReleaseUnit, TypeInv, TypeOK
    <2>4. /\ ActCell(k0) \in view[b] /\ ActCell(k0) \in written
          /\ \A c \in Blocks : pc[c] = "release" /\ KeyOf(task[c]) = k0 => c = b
      BY <2>0, <2>1 DEF ElectedInv, SeenInv
    <2>5. /\ ~Released(k0) /\ Released(k0)'
          /\ \A k \in Keys \ {k0} : Released(k)' <=> Released(k)
      BY <2>0, <2>1, <2>2, <2>4 DEF Released
    <2>6. \A u \in UnitIds \ {u0} : ReleasedKeys(u)' = ReleasedKeys(u)
      BY <2>00, <2>5 DEF ReleasedKeys
    <2>7. /\ ReleasedKeys(u0)' = ReleasedKeys(u0) \cup {k0}
          /\ k0 \notin ReleasedKeys(u0)
      BY <2>0, <2>00, <2>5 DEF ReleasedKeys
    <2>8. IsFiniteSet(ReleasedKeys(u0))
      BY KeysOfUnitLemma, FS_Subset DEF ReleasedKeys, KeysOfUnit
    <2>9. Cardinality(ReleasedKeys(u0)') = Cardinality(ReleasedKeys(u0)) + 1
      BY <2>7, <2>8, FS_AddElement
    <2>10. \A u \in UnitIds : ready'[u] = Cardinality(ReleasedKeys(u)')
      BY <2>1, <2>3, <2>6, <2>9 DEF ReleaseInv
    <2>11. ASSUME NEW k \in Keys, Released(k)' PROVE ActCell(k) \in readyView'[UnitOfKey(k)]
      <3>1. UnitOfKey(k) \in UnitIds
        BY TilesOfKeyLemma
      <3>2. CASE k = k0
        BY <2>00, <2>3, <2>4, <3>2
      <3>3. CASE k # k0
        BY <2>1, <2>3, <2>5, <2>11, <3>1, <3>3 DEF ReleaseInv
      <3> QED BY <3>2, <3>3
    <2> QED BY <2>10, <2>11 DEF ReleaseInv
  <1>12. ASSUME UNCHANGED vars PROVE ReleaseInv'
    <2>1. \A k \in Keys : Released(k)' <=> Released(k)
      BY <1>12 DEF vars, Released
    <2>2. Early' <=> Early
      BY <1>12 DEF vars, Early
    <2> QED BY <1>1, <1>12, <2>1, <2>2, ReleaseKept DEF vars
  <1> QED
    BY <1>2, <1>3, <1>4, <1>5, <1>6, <1>7, <1>8, <1>9, <1>10, <1>11, <1>12
       DEF Next, Work, Poll

------------------------------------------------------------------------------
\* Sight: what a block is about to read is in its view.

\* A step that shrinks no view and enters none of the reading places.
LEMMA SightKept ==
    ASSUME SightInv,
           Early' <=> Early,
           \A c \in Blocks : /\ view[c] \subseteq view'[c]
                             /\ pc'[c] = "epilogue" => pc[c] = "epilogue" /\ task'[c] = task[c]
                             /\ pc'[c] = "down" => pc[c] = "down" /\ task'[c] = task[c]
                             /\ pc'[c] \in LateLocs => pc[c] \in LateLocs
    PROVE  SightInv'
  <1>1. ~Early' => \A b \in Blocks : HadCells \subseteq view'[b]
    BY DEF SightInv
  <1>2. ASSUME NEW b \in Blocks
        PROVE  /\ pc'[b] = "epilogue" => ActInputs(KeyOf(task'[b])) \subseteq view'[b]
               /\ pc'[b] = "down" => DownInputs(task'[b]) \subseteq view'[b]
               /\ pc'[b] \in LateLocs => Cells \ OutCells \subseteq view'[b]
    BY DEF SightInv
  <1> QED BY <1>1, <1>2 DEF SightInv

\* When every block is out of tasks, everything but the output is stored.
LEMMA AllStored ==
    ASSUME TypeInv, DealInv, SeenInv, SightInv, ArrivalInv, ElectedInv,
           \A b \in Blocks : pc[b] = "sync2"
    PROVE  Cells \ OutCells \subseteq written
  <1>1. Loop /\ ~Early
    BY GridLemma, PhasesDisjoint DEF Loop
  <1>2. HadCells \subseteq written
    BY <1>1, GridLemma DEF SightInv, SeenInv
  <1>3. \A t \in Tasks : StoredTask(t)
    <2>1. task[0] >= Total /\ task[0] < counter + G /\ task[0] \in Nat /\ counter \in Nat
      BY <1>1, GridLemma DEF TypeInv, TypeOK, PlaceInv, DealInv, DealtInv
    <2>2. \A t \in Tasks : t \in Nat /\ t < counter + G
      BY <2>1, CountsLemma, GridLemma
    <2>3. \A b \in Blocks : Held(b) = {}
      BY DEF Held
    <2> QED BY <1>1, <2>2, <2>3 DEF DealInv, DealtInv
  <1>4. ASSUME NEW t \in GuTasks PROVE TileCell(t) \in written
    <2>1. t \notin DownTasks
      BY CountsLemma DEF GuTasks, DownTasks
    <2>2. DownCell(t) \notin Cells
      BY <2>1, CellsDistinct DEF Cells, HadCells, TileCells, ActCells, DownCells, OutCells
    <2> QED BY <1>3, <2>2 DEF TypeInv, TypeOK, StoredTask, Tasks
  <1>5. ASSUME NEW t \in DownTasks PROVE DownCell(t) \in written
    <2>1. t \notin GuTasks
      BY CountsLemma DEF GuTasks, DownTasks
    <2>2. TileCell(t) \notin Cells
      BY <2>1, CellsDistinct DEF Cells, HadCells, TileCells, ActCells, DownCells, OutCells
    <2> QED BY <1>3, <2>2 DEF TypeInv, TypeOK, StoredTask, Tasks
  <1>6. ASSUME NEW k \in Keys PROVE ActCell(k) \in written
    <2>1. /\ 4 * k + 0 \in GuTasks /\ 4 * k + 1 \in GuTasks
          /\ 4 * k + 2 \in GuTasks /\ 4 * k + 3 \in GuTasks /\ k \in Nat
      BY TilesOfKeyLemma, CountsLemma DEF Keys
    <2>2. Counted(4 * k) /\ Counted(4 * k + 1) /\ Counted(4 * k + 2) /\ Counted(4 * k + 3)
      BY <1>4, <2>1 DEF Counted
    <2>3. act[k] = 4
      BY <1>1, <2>2 DEF ArrivalInv, One
    <2> QED BY <1>1, <2>3 DEF ElectedInv
  <1> QED BY <1>2, <1>4, <1>5, <1>6 DEF Cells, TileCells, ActCells, DownCells

LEMMA SightStep ==
    ASSUME TypeInv, TypeInv', DealInv, SeenInv, ShareInv, ArrivalInv, ElectedInv, ReleaseInv,
           SightInv, [Next]_vars
    PROVE  SightInv'
  <1> USE PhasesDisjoint, GridLemma
  <1>1. ASSUME Early' PROVE SightInv'
    BY <1>1 DEF SightInv, Early
  <1>2. ASSUME NEW b \in Blocks, ZeroCtl(b) \/ InputHadamard(b) PROVE SightInv'
    <2>1. Early'
      BY <1>2, PhaseOf DEF ZeroCtl, InputHadamard, Goto, Early, TypeInv, TypeOK
    <2> QED BY <1>1, <2>1
  <1>3. ASSUME Relaunch PROVE SightInv'
    <2>1. Early'
      BY <1>3 DEF Relaunch, Early
    <2> QED BY <1>1, <2>1
  <1>4. ASSUME FirstSync PROVE SightInv'
    <2>1. \A i \in 0 .. (HadN - 1) : HadCell(i) \in written
      <3>1. \A i \in 0 .. (HadN - 1) : Owner(i) \in Blocks
        BY OwnerLemma, LayoutAssumption
      <3> QED BY <1>4, <3>1 DEF FirstSync, GridSync, ShareInv
    <2>2. HadCells \subseteq written
      BY <2>1 DEF HadCells
    <2>3. \A b \in Blocks : HadCells \subseteq view'[b] /\ pc'[b] = "top"
      BY <1>4, <2>2 DEF FirstSync, GridSync, SeenInv
    <2> QED BY <2>3 DEF SightInv
  <1>5. ASSUME SecondSync PROVE SightInv'
    <2>1. Cells \ OutCells \subseteq written
      BY <1>5, AllStored DEF SecondSync, GridSync
    <2>2. \A b \in Blocks : Cells \ OutCells \subseteq view'[b] /\ pc'[b] = "out"
      BY <1>5, <2>1 DEF SecondSync, GridSync, SeenInv
    <2>3. HadCells \subseteq Cells \ OutCells
      BY CellsDistinct, CellsLemma DEF HadCells, OutCells
    <2> QED BY <2>2, <2>3 DEF SightInv
  <1>6. ASSUME NEW b \in Blocks, Claim(b) \/ OutOfTasks(b) \/ ReleaseUnit(b) PROVE SightInv'
    <2>1. /\ pc[b] \in LoopLocs /\ pc'[b] \in LoopLocs \ {"epilogue", "down"}
          /\ \A c \in Blocks \ {b} : pc'[c] = pc[c] /\ task'[c] = task[c]
          /\ view' = view
      BY <1>6 DEF Claim, OutOfTasks, ReleaseUnit, Advance, Goto, mem, TypeInv, TypeOK
    <2>2. ~Early /\ ~Early'
      BY <2>1 DEF Early
    <2> QED BY <2>1, <2>2, SightKept
  <1>7. ASSUME NEW b \in Blocks, GateUpTile(b) \/ Epilogue(b) \/ DownTile(b) PROVE SightInv'
    <2>1. /\ pc[b] \in LoopLocs /\ pc'[b] \in LoopLocs \ {"epilogue", "down"}
          /\ \A c \in Blocks \ {b} : pc'[c] = pc[c] /\ task'[c] = task[c]
      BY <1>7 DEF GateUpTile, Epilogue, DownTile, Advance, Goto, TypeInv, TypeOK
    <2>2. \A c \in Blocks : view[c] \subseteq view'[c]
      BY <1>7, StoreFacts DEF GateUpTile, Epilogue, DownTile, TypeInv
    <2>3. ~Early /\ ~Early'
      BY <2>1 DEF Early
    <2> QED BY <2>1, <2>2, <2>3, SightKept
  <1>8. ASSUME NEW b \in Blocks, Output(b) PROVE SightInv'
    <2>1. /\ pc[b] = "out" /\ pc'[b] = "done"
          /\ \A c \in Blocks \ {b} : pc'[c] = pc[c] /\ task'[c] = task[c]
      BY <1>8 DEF Output, Goto, TypeInv, TypeOK
    <2>2. \A c \in Blocks : view[c] \subseteq view'[c]
      BY <1>8, StoreFacts DEF Output, TypeInv
    <2>3. ~Early /\ ~Early'
      BY <2>1 DEF Early
    <2> QED BY <2>1, <2>2, <2>3, SightKept
  <1>9. ASSUME NEW b \in Blocks, CountTile(b) PROVE SightInv'
    <2>0. PICK k0 \in Keys : k0 = KeyOf(task[b])
      BY <1>9, NotYetFour DEF CountTile
    <2>1. /\ pc[b] = "count" /\ pc'[b] \in {"top", "epilogue"} /\ task[b] \in GuTasks
          /\ \A c \in Blocks \ {b} : pc'[c] = pc[c] /\ task'[c] = task[c]
          /\ pc'[b] = "epilogue" => task'[b] = task[b] /\ act[k0] = 3
          /\ \A c \in Blocks \ {b} : view'[c] = view[c]
          /\ view'[b] = view[b] \cup actView[k0]
      BY <1>9, <2>0 DEF CountTile, Advance, Goto, TypeInv, TypeOK, PlaceInv
    <2>2. ~Early /\ ~Early'
      BY <2>1 DEF Early
    <2>3. pc'[b] = "epilogue" => TilesOfKey(k0) \subseteq view'[b]
      <3> SUFFICES ASSUME pc'[b] = "epilogue", NEW t \in GuTasks, KeyOf(t) = k0
                   PROVE  TileCell(t) \in view'[b]
        BY DEF TilesOfKey
      <3>1. CASE t = task[b]
        BY <2>1, <2>2, <3>1 DEF ArrivalInv
      <3>2. CASE t # task[b]
        <4>1. Counted(t)
          BY <2>0, <2>1, <3>2, NotYetFour
        <4> QED BY <2>1, <2>2, <4>1 DEF ArrivalInv
      <3> QED BY <3>1, <3>2
    <2>4. \A c \in Blocks : HadCells \subseteq view'[c]
      BY <2>1, <2>2 DEF SightInv
    <2>5. ASSUME NEW c \in Blocks
          PROVE  /\ pc'[c] = "epilogue" => ActInputs(KeyOf(task'[c])) \subseteq view'[c]
                 /\ pc'[c] = "down" => DownInputs(task'[c]) \subseteq view'[c]
                 /\ pc'[c] \in LateLocs => Cells \ OutCells \subseteq view'[c]
      <3>1. CASE c = b
        BY <2>0, <2>1, <2>3, <3>1 DEF ActInputs
      <3>2. CASE c # b
        BY <2>1, <3>2 DEF SightInv
      <3> QED BY <3>1, <3>2
    <2> QED BY <2>4, <2>5 DEF SightInv
  <1>10. ASSUME NEW b \in Blocks, Acquire(b) PROVE SightInv'
    <2>0. PICK u0 \in UnitIds : u0 = DownUnit(task[b])
      BY <1>10, DownUnitLemma DEF Acquire, TypeInv, PlaceInv
    <2>1. /\ pc[b] = "wait" /\ pc'[b] = "down" /\ task' = task
          /\ \A c \in Blocks \ {b} : pc'[c] = pc[c] /\ view'[c] = view[c]
          /\ view'[b] = view[b] \cup readyView[u0]
          /\ ready[u0] >= Hb
      BY <1>10, <2>0 DEF Acquire, Goto, TypeInv, TypeOK
    <2>2. ~Early /\ ~Early'
      BY <2>1 DEF Early
    <2>3. ReleasedKeys(u0) = KeysOfUnit(u0)
      <3>1. ReleasedKeys(u0) \in SUBSET KeysOfUnit(u0)
        BY DEF ReleasedKeys, KeysOfUnit
      <3>2. IsFiniteSet(KeysOfUnit(u0)) /\ Cardinality(KeysOfUnit(u0)) = Hb
        BY KeysOfUnitLemma
      <3>3. /\ Cardinality(ReleasedKeys(u0)) <= Cardinality(KeysOfUnit(u0))
            /\ Cardinality(KeysOfUnit(u0)) = Cardinality(ReleasedKeys(u0))
                 => KeysOfUnit(u0) = ReleasedKeys(u0)
        BY <3>1, <3>2, FS_Subset
      <3>4. ready[u0] = Cardinality(ReleasedKeys(u0)) /\ ready[u0] \in Nat
        BY <2>2 DEF ReleaseInv, TypeInv, TypeOK
      <3> QED BY <2>1, <3>2, <3>3, <3>4, LayoutAssumption
    <2>4. ActsOfUnit(u0) \subseteq readyView[u0]
      BY <2>2, <2>3 DEF ActsOfUnit, ReleasedKeys, KeysOfUnit, ReleaseInv
    <2>5. \A c \in Blocks : HadCells \subseteq view'[c]
      BY <2>1, <2>2 DEF SightInv
    <2>6. ASSUME NEW c \in Blocks
          PROVE  /\ pc'[c] = "epilogue" => ActInputs(KeyOf(task'[c])) \subseteq view'[c]
                 /\ pc'[c] = "down" => DownInputs(task'[c]) \subseteq view'[c]
                 /\ pc'[c] \in LateLocs => Cells \ OutCells \subseteq view'[c]
      <3>1. CASE c = b
        BY <2>0, <2>1, <2>4, <3>1 DEF DownInputs
      <3>2. CASE c # b
        BY <2>1, <3>2 DEF SightInv
      <3> QED BY <3>1, <3>2
    <2> QED BY <2>5, <2>6 DEF SightInv
  <1>11. ASSUME UNCHANGED vars PROVE SightInv'
    <2>1. Early' <=> Early
      BY <1>11 DEF vars, Early
    <2> QED BY <1>11, <2>1, SightKept DEF vars
  <1> QED
    BY <1>2, <1>3, <1>4, <1>5, <1>6, <1>7, <1>8, <1>9, <1>10, <1>11
       DEF Next, Work, Poll

------------------------------------------------------------------------------
LEMMA FlowInit == Init => FlowInv
  <1> SUFFICES ASSUME Init PROVE FlowInv
    OBVIOUS
  <1>1. Early /\ written = {}
    BY DEF Init, Early
  <1>2. /\ \A b \in Blocks : pc[b] \in {"zero", "had"} /\ view[b] = {}
        /\ \A k \in Keys : actView[k] = {}
        /\ \A u \in UnitIds : readyView[u] = {}
    BY DEF Init
  <1>3. /\ \A i \in 0 .. (HadN - 1) : Owner(i) \in Blocks
        /\ \A i \in 0 .. (OutN - 1) : Owner(i) \in Blocks
    BY OwnerLemma, LayoutAssumption
  <1> QED BY <1>1, <1>2, <1>3
          DEF FlowInv, SeenInv, ShareInv, ArrivalInv, ElectedInv, ReleaseInv, SightInv

LEMMA FlowStep ==
    TypeInv /\ TypeInv' /\ DealInv /\ DealInv' /\ FlowInv /\ [Next]_vars => FlowInv'
  BY SeenStep, ShareStep, ArrivalStep, ElectedStep, ReleaseStep, SightStep DEF FlowInv

\* The complete inductive invariant of the kernel.
THEOREM FlowSafe == Spec => [](TypeInv /\ DealInv /\ FlowInv)
  <1>1. Init => TypeInv /\ DealInv /\ FlowInv
    BY TypeInit, DealInit, FlowInit
  <1>2. TypeInv /\ DealInv /\ FlowInv /\ [Next]_vars => (TypeInv /\ DealInv /\ FlowInv)'
    BY TypeStep, DealStep, FlowStep
  <1> QED BY <1>1, <1>2, PTL DEF Spec

\* For every grid and every list, what a block reads was stored in this launch
\* and is ordered before the read.
THEOREM ReadsVisible == Spec => []InputsVisible
  <1>1. TypeInv /\ DealInv /\ FlowInv => InputsVisible
    <2> SUFFICES ASSUME TypeInv, FlowInv, NEW b \in Blocks
                 PROVE  /\ pc[b] = "tile"     => TileInputs \subseteq view[b]
                        /\ pc[b] = "epilogue" => ActInputs(KeyOf(task[b])) \subseteq view[b]
                        /\ pc[b] = "down"     => DownInputs(task[b]) \subseteq view[b]
                        /\ pc[b] = "out"      => OutInputs \subseteq view[b]
      BY DEF InputsVisible
    <2>1. pc[b] = "tile" => TileInputs \subseteq view[b]
      BY PhaseOf, PhasesDisjoint DEF FlowInv, SightInv, TileInputs
    <2>2. pc[b] = "out" => OutInputs \subseteq view[b]
      <3>1. DownCells \subseteq Cells \ OutCells
        BY CellsDistinct, CellsLemma DEF DownCells, OutCells
      <3> QED BY <3>1 DEF FlowInv, SightInv, OutInputs
    <2> QED BY <2>1, <2>2 DEF FlowInv, SightInv
  <1> QED BY <1>1, FlowSafe, PTL

------------------------------------------------------------------------------
\* The kernel implements the dependency graph.

LEMMA DagCells ==
    /\ Dag!HadCells = HadCells /\ Dag!TileCells = TileCells /\ Dag!OutCells = OutCells
    /\ Dag!Cells = Cells /\ Dag!Keys = Keys /\ Dag!DownTasks = DownTasks
    /\ Dag!TileInputs = TileInputs /\ Dag!OutInputs = OutInputs
    /\ \A k : Dag!ActCell(k) = ActCell(k) /\ Dag!ActInputs(k) = ActInputs(k)
    /\ \A t : Dag!DownCell(t) = DownCell(t) /\ Dag!DownInputs(t) = DownInputs(t)
  BY DEF Dag!HadCells, Dag!TileCells, Dag!ActCells, Dag!DownCells, Dag!OutCells, Dag!Cells,
         Dag!HadCell, Dag!TileCell, Dag!ActCell, Dag!DownCell, Dag!OutCell,
         Dag!Keys, Dag!GuTasks, Dag!DownTasks, Dag!GuCount, Dag!Total,
         Dag!TileInputs, Dag!OutInputs, Dag!ActInputs, Dag!DownInputs,
         Dag!TilesOfKey, Dag!ActsOfUnit, Dag!KeyOf, Dag!UnitOf, Dag!HbOf, Dag!DownUnit,
         Dag!UnitOfKey,
         HadCells, TileCells, ActCells, DownCells, OutCells, Cells,
         HadCell, TileCell, ActCell, DownCell, OutCell,
         Keys, GuTasks, DownTasks, GuCount, Total,
         TileInputs, OutInputs, ActInputs, DownInputs,
         TilesOfKey, ActsOfUnit, KeyOf, UnitOf, HbOf, DownUnit, UnitOfKey

LEMMA DagStep ==
    ASSUME TypeInv, DealInv, FlowInv, [Next]_vars
    PROVE  [Dag!DagNext]_written
  <1> USE GridLemma, DagCells
  <1>1. ASSUME NEW b \in Blocks, InputHadamard(b) PROVE Dag!ComputeHad
    <2>1. HadShare(b) \cap written = {}
      BY <1>1 DEF InputHadamard, FlowInv, ShareInv, HadShare, Share, Owner
    <2>2. HadShare(b) \in SUBSET HadCells
      BY SharesLemma
    <2> QED BY <1>1, <2>1, <2>2 DEF InputHadamard, Store, Dag!ComputeHad
  <1>2. ASSUME NEW b \in Blocks, GateUpTile(b) PROVE Dag!ComputeTile
    <2>1. task[b] \in GuTasks /\ TileCell(task[b]) \notin written
      BY <1>2 DEF GateUpTile, TypeInv, PlaceInv, DealInv, DistinctInv, Held, StoredTask, Tasks
    <2>2. TileInputs \subseteq written
      BY <1>2, PhaseOf, PhasesDisjoint
         DEF GateUpTile, FlowInv, SightInv, SeenInv, TileInputs
    <2> QED BY <1>2, <2>1, <2>2 DEF GateUpTile, Store, TileCells, Dag!ComputeTile
  <1>3. ASSUME NEW b \in Blocks, Epilogue(b) PROVE Dag!ComputeAct
    <2>0. PICK k0 \in Keys : k0 = KeyOf(task[b])
      BY <1>3, KeyOfLemma DEF Epilogue, TypeInv, PlaceInv
    <2>1. ActCell(k0) \notin written /\ ActInputs(k0) \subseteq written
      BY <1>3, <2>0 DEF Epilogue, FlowInv, ElectedInv, SightInv, SeenInv
    <2>2. written' = written \cup {ActCell(k0)}
      BY <1>3, <2>0 DEF Epilogue, Store
    <2> QED BY <2>1, <2>2 DEF Dag!ComputeAct
  <1>4. ASSUME NEW b \in Blocks, DownTile(b) PROVE Dag!ComputeDown
    <2>1. task[b] \in DownTasks /\ DownCell(task[b]) \notin written
      BY <1>4 DEF DownTile, TypeInv, PlaceInv, DealInv, DistinctInv, Held, StoredTask, Tasks
    <2>2. DownInputs(task[b]) \subseteq written
      BY <1>4 DEF DownTile, FlowInv, SightInv, SeenInv
    <2>3. written' = written \cup {DownCell(task[b])}
      BY <1>4 DEF DownTile, Store
    <2> QED BY <2>1, <2>2, <2>3 DEF Dag!ComputeDown
  <1>5. ASSUME NEW b \in Blocks, Output(b) PROVE Dag!ComputeOut
    <2>1. OutShare(b) \cap written = {}
      BY <1>5 DEF Output, FlowInv, ShareInv, OutShare, Share, Owner
    <2>2. OutShare(b) \in SUBSET OutCells
      BY SharesLemma
    <2>3. OutInputs \subseteq written
      <3>1. DownCells \subseteq Cells \ OutCells
        BY CellsDistinct, CellsLemma DEF DownCells, OutCells
      <3> QED BY <1>5, <3>1 DEF Output, FlowInv, SightInv, SeenInv, OutInputs
    <2> QED BY <1>5, <2>1, <2>2, <2>3 DEF Output, Store, Dag!ComputeOut
  <1>6. ASSUME Relaunch PROVE Dag!NextLaunch
    <2>1. Cells \ OutCells \subseteq written
      BY <1>6 DEF Relaunch, FlowInv, SightInv, SeenInv
    <2>2. OutCells \subseteq written
      <3>1. \A i \in 0 .. (OutN - 1) : Owner(i) \in Blocks
        BY OwnerLemma, LayoutAssumption
      <3> QED BY <1>6, <3>1 DEF Relaunch, FlowInv, ShareInv, OutCells
    <2>3. written = Cells
      BY <2>1, <2>2 DEF TypeInv, TypeOK
    <2> QED BY <1>6, <2>3 DEF Relaunch, Dag!NextLaunch
  <1>7. ASSUME FirstSync \/ SecondSync PROVE written' = written
    BY <1>7 DEF FirstSync, SecondSync, GridSync
  <1>8. ASSUME NEW b \in Blocks,
               \/ ZeroCtl(b) \/ Claim(b) \/ OutOfTasks(b) \/ CountTile(b)
               \/ ReleaseUnit(b) \/ Acquire(b)
        PROVE  written' = written
    BY <1>8 DEF ZeroCtl, Claim, OutOfTasks, CountTile, ReleaseUnit, Acquire, mem
  <1>9. ASSUME UNCHANGED vars PROVE written' = written
    BY <1>9 DEF vars
  <1> QED
    BY <1>1, <1>2, <1>3, <1>4, <1>5, <1>6, <1>7, <1>8, <1>9
       DEF Next, Work, Poll, Dag!DagNext

\* For every grid and every list, the kernel computes each cell exactly once,
\* after its inputs, in each launch.
THEOREM KernelImplementsDag == Spec => DagSpec
  <1>1. Init => Dag!DagInit
    BY DEF Init, Dag!DagInit
  <1>2. TypeInv /\ DealInv /\ FlowInv /\ [Next]_vars => [Dag!DagNext]_written
    BY DagStep
  <1> QED BY <1>1, <1>2, FlowSafe, PTL DEF Spec, DagSpec, Dag!DagSpec
==============================================================================
