----------------------------- MODULE P2bDataflow -----------------------------
(***************************************************************************)
(* p2b_coop_df_kernel<2, 1> (docker/patch/widen_p2b_dataflow.py), the      *)
(* decode MoE kernel that DSV41_P2B_COOP=2 launches: G thread blocks that  *)
(* share one task counter, one arrival counter per 128-column block and    *)
(* one readiness counter per unit, between two grid barriers.              *)
(*                                                                         *)
(* GPU memory is weak: a block sees another block's stores only along an   *)
(* acquire/release chain or a grid barrier.  view[b] is the set of cells   *)
(* whose current-launch value block b is guaranteed to see; actView and    *)
(* readyView hold what the releases into each counter have published.  A   *)
(* read-modify-write continues the release sequence of its counter, so the *)
(* published sets only grow.                                               *)
(***************************************************************************)
EXTENDS P2bLayout, FiniteSets

CONSTANTS
    G,        \* gridDim.x: co-resident blocks of the cooperative launch
    Warps,    \* blockDim.x / 32
    Garbage   \* what the control words may hold before block 0 zeroes them

ASSUME GridAssumption ==
    /\ G \in Nat \ {0}
    /\ Warps \in Nat \ {0}
    /\ Garbage \subseteq Nat /\ Garbage # {}

Blocks == 0 .. (G - 1)

VARIABLES
    pc,         \* where each block is
    task,       \* s_df[0]: the block's current task
    nxt,        \* thread 0's register: the task claimed for the next round
    counter,    \* ctl[0]: tasks handed out after the static first round
    act,        \* ctl[P2B_DF_ACT + k]: tiles counted for 128-block k
    ready,      \* ctl[P2B_DF_READY + u]: finished 128-blocks of unit u
    written,    \* cells stored in this launch
    view, actView, readyView

ctl  == <<counter, act, ready>>
mem  == <<written, view, actView, readyView>>
vars == <<pc, task, nxt, counter, act, ready, written, view, actView, readyView>>

\* The grid-stride loop "for (t = warp + Warps * blockIdx; t < n; t += grid_warps)".
Share(n, b) == {i \in 0 .. (n - 1) : (i \div Warps) % G = b}
HadShare(b) == {HadCell(i) : i \in Share(HadN, b)}
OutShare(b) == {OutCell(i) : i \in Share(OutN, b)}

Goto(b, l) == pc' = [pc EXCEPT ![b] = l]

Store(b, S) ==
    /\ written' = written \cup S
    /\ view' = [view EXCEPT ![b] = @ \cup S]

------------------------------------------------------------------------------
\* The scratch is at::empty: every control word holds whatever was there.
Init ==
    /\ pc = [b \in Blocks |-> IF b = 0 THEN "zero" ELSE "had"]
    /\ task = [b \in Blocks |-> b]
    /\ nxt = [b \in Blocks |-> 0]
    /\ \E g \in Garbage :
          /\ counter = g
          /\ act = [k \in Keys |-> g]
          /\ ready = [u \in UnitIds |-> g]
    /\ written = {}
    /\ view = [b \in Blocks |-> {}]
    /\ actView = [k \in Keys |-> {}]
    /\ readyView = [u \in UnitIds |-> {}]

\* Mutant: only the task counter is reset.
ZeroCounterOnly(b) ==
    /\ pc[b] = "zero"
    /\ counter' = 0
    /\ Goto(b, "had")
    /\ UNCHANGED <<task, nxt, act, ready, mem>>

\* Block 0 zeroes the control words before the first barrier.
ZeroCtl(b) ==
    /\ pc[b] = "zero"
    /\ counter' = 0
    /\ act' = [k \in Keys |-> 0]
    /\ ready' = [u \in UnitIds |-> 0]
    /\ Goto(b, "had")
    /\ UNCHANGED <<task, nxt, mem>>

\* The block's share of the input Hadamard, then arrival at grid.sync.
InputHadamard(b) ==
    /\ pc[b] = "had"
    /\ Store(b, HadShare(b))
    /\ Goto(b, "sync1")
    /\ UNCHANGED <<task, nxt, ctl, actView, readyView>>

\* Mutant: a barrier that orders arrival but publishes nothing.
GridSyncNoFence(from, to) ==
    /\ \A b \in Blocks : pc[b] = from
    /\ pc' = [b \in Blocks |-> to]
    /\ UNCHANGED <<task, nxt, ctl, mem>>

\* grid.sync(): all blocks arrive, and everything stored before is visible.
GridSync(from, to) ==
    /\ \A b \in Blocks : pc[b] = from
    /\ pc' = [b \in Blocks |-> to]
    /\ view' = [b \in Blocks |-> UNION {view[c] : c \in Blocks}]
    /\ UNCHANGED <<task, nxt, ctl, written, actView, readyView>>

FirstSync  == GridSync("sync1", "top")
SecondSync == GridSync("sync2", "out")

\* Mutant: the counter starts where the static round ends, minus one.
ClaimOverlapping(b) ==
    /\ pc[b] = "top"
    /\ task[b] < Total
    /\ nxt' = [nxt EXCEPT ![b] = counter + G - 1]
    /\ counter' = counter + 1
    /\ Goto(b, IF task[b] < GuCount THEN "tile" ELSE "wait")
    /\ UNCHANGED <<task, act, ready, mem>>

\* Mutant: the list runs down tiles first.
ClaimDownFirst(b) ==
    /\ pc[b] = "top"
    /\ task[b] < Total
    /\ nxt' = [nxt EXCEPT ![b] = IF counter + G < Total THEN Total - 1 - counter ELSE counter + G]
    /\ counter' = counter + 1
    /\ Goto(b, IF task[b] < GuCount THEN "tile" ELSE "wait")
    /\ UNCHANGED <<task, act, ready, mem>>

\* Loop head: the next task is claimed (relaxed atomicAdd) before the current
\* one runs.
Claim(b) ==
    /\ pc[b] = "top"
    /\ task[b] < Total
    /\ nxt' = [nxt EXCEPT ![b] = counter + G]
    /\ counter' = counter + 1
    /\ Goto(b, IF task[b] < GuCount THEN "tile" ELSE "wait")
    /\ UNCHANGED <<task, act, ready, mem>>

OutOfTasks(b) ==
    /\ pc[b] = "top"
    /\ task[b] >= Total
    /\ Goto(b, "sync2")
    /\ UNCHANGED <<task, nxt, ctl, mem>>

GateUpTile(b) ==
    /\ pc[b] = "tile"
    /\ Store(b, {TileCell(task[b])})
    /\ Goto(b, "count")
    /\ UNCHANGED <<task, nxt, ctl, actView, readyView>>

\* End of an iteration: s_df[0] = nxt; __syncthreads().
Advance(b) ==
    /\ task' = [task EXCEPT ![b] = nxt[b]]
    /\ Goto(b, "top")
    /\ UNCHANGED nxt

\* Mutant: a relaxed arrival, which acquires nothing.
CountTileRelaxed(b) ==
    LET k == KeyOf(task[b]) IN
    /\ pc[b] = "count"
    /\ act' = [act EXCEPT ![k] = @ + 1]
    /\ actView' = [actView EXCEPT ![k] = @ \cup view[b]]
    /\ \/ act[k] = 3 /\ Goto(b, "epilogue") /\ UNCHANGED <<task, nxt>>
       \/ act[k] # 3 /\ Advance(b)
    /\ UNCHANGED <<counter, ready, written, view, readyView>>

\* Mutant: the third arrival is taken for the last one.
CountTileEarly(b) ==
    LET k == KeyOf(task[b]) IN
    /\ pc[b] = "count"
    /\ act' = [act EXCEPT ![k] = @ + 1]
    /\ actView' = [actView EXCEPT ![k] = @ \cup view[b]]
    /\ view' = [view EXCEPT ![b] = @ \cup actView[k]]
    /\ \/ act[k] = 2 /\ Goto(b, "epilogue") /\ UNCHANGED <<task, nxt>>
       \/ act[k] # 2 /\ Advance(b)
    /\ UNCHANGED <<counter, ready, written, readyView>>

\* p2b_df_atom_add_acq_rel on the 128-block's word; old = 3 elects the block
\* that runs the epilogue.
CountTile(b) ==
    LET k == KeyOf(task[b]) IN
    /\ pc[b] = "count"
    /\ act' = [act EXCEPT ![k] = @ + 1]
    /\ actView' = [actView EXCEPT ![k] = @ \cup view[b]]
    /\ view' = [view EXCEPT ![b] = @ \cup actView[k]]
    /\ \/ act[k] = 3 /\ Goto(b, "epilogue") /\ UNCHANGED <<task, nxt>>
       \/ act[k] # 3 /\ Advance(b)
    /\ UNCHANGED <<counter, ready, written, readyView>>

Epilogue(b) ==
    /\ pc[b] = "epilogue"
    /\ Store(b, {ActCell(KeyOf(task[b]))})
    /\ Goto(b, "release")
    /\ UNCHANGED <<task, nxt, ctl, actView, readyView>>

\* Mutant: the readiness word is decremented.
ReleaseUnitDown(b) ==
    LET u == UnitOf(task[b]) IN
    /\ pc[b] = "release"
    /\ ready' = [ready EXCEPT ![u] = @ - 1]
    /\ readyView' = [readyView EXCEPT ![u] = @ \cup view[b]]
    /\ Advance(b)
    /\ UNCHANGED <<counter, act, written, view, actView>>

\* p2b_df_red_release on the unit's word.
ReleaseUnit(b) ==
    LET u == UnitOf(task[b]) IN
    /\ pc[b] = "release"
    /\ ready' = [ready EXCEPT ![u] = @ + 1]
    /\ readyView' = [readyView EXCEPT ![u] = @ \cup view[b]]
    /\ Advance(b)
    /\ UNCHANGED <<counter, act, written, view, actView>>

\* A down task polls its unit's word (ld.acquire, __nanosleep).
Poll(b) ==
    /\ pc[b] = "wait"
    /\ ready[DownUnit(task[b])] < Hb
    /\ UNCHANGED vars

Acquire(b) ==
    LET u == DownUnit(task[b]) IN
    /\ pc[b] = "wait"
    /\ ready[u] >= Hb
    /\ view' = [view EXCEPT ![b] = @ \cup readyView[u]]
    /\ Goto(b, "down")
    /\ UNCHANGED <<task, nxt, ctl, written, actView, readyView>>

DownTile(b) ==
    /\ pc[b] = "down"
    /\ Store(b, {DownCell(task[b])})
    /\ Advance(b)
    /\ UNCHANGED <<ctl, actView, readyView>>

Output(b) ==
    /\ pc[b] = "out"
    /\ Store(b, OutShare(b))
    /\ Goto(b, "done")
    /\ UNCHANGED <<task, nxt, ctl, actView, readyView>>

\* The next launch of the captured graph: the same scratch, nothing reset.
Relaunch ==
    /\ \A b \in Blocks : pc[b] = "done"
    /\ pc' = [b \in Blocks |-> IF b = 0 THEN "zero" ELSE "had"]
    /\ task' = [b \in Blocks |-> b]
    /\ nxt' = [b \in Blocks |-> 0]
    /\ written' = {}
    /\ view' = [b \in Blocks |-> {}]
    /\ actView' = [k \in Keys |-> {}]
    /\ readyView' = [u \in UnitIds |-> {}]
    /\ UNCHANGED ctl

------------------------------------------------------------------------------
Work(b) ==
    \/ ZeroCtl(b) \/ InputHadamard(b) \/ Claim(b) \/ OutOfTasks(b)
    \/ GateUpTile(b) \/ CountTile(b) \/ Epilogue(b) \/ ReleaseUnit(b)
    \/ Acquire(b) \/ DownTile(b) \/ Output(b)

Next ==
    \/ \E b \in Blocks : Work(b) \/ Poll(b)
    \/ FirstSync
    \/ SecondSync
    \/ Relaunch

Spec == Init /\ [][Next]_vars

\* The launch is cooperative: all G blocks are resident, so the scheduler
\* never stops running a block that can take a step.  The host owes nothing.
Fairness ==
    /\ \A b \in Blocks : WF_vars(Work(b))
    /\ WF_vars(FirstSync)
    /\ WF_vars(SecondSync)

FairSpec == Spec /\ Fairness

------------------------------------------------------------------------------
Locations == {"zero", "had", "sync1", "top", "tile", "count", "epilogue",
              "release", "wait", "down", "sync2", "out", "done"}

TypeOK ==
    /\ pc \in [Blocks -> Locations]
    /\ task \in [Blocks -> Nat]
    /\ nxt \in [Blocks -> Nat]
    /\ counter \in Nat
    /\ act \in [Keys -> Nat]
    /\ ready \in [UnitIds -> Nat]
    /\ written \subseteq Cells
    /\ view \in [Blocks -> SUBSET Cells]
    /\ actView \in [Keys -> SUBSET Cells]
    /\ readyView \in [UnitIds -> SUBSET Cells]

\* Whatever a block is about to read was stored in this launch and has been
\* made visible to that block by a barrier or a release/acquire chain: the
\* tile by the first grid.sync, the epilogue by the four acq_rel arrivals, the
\* down tile by the unit's release, the output by the second grid.sync.
InputsVisible ==
    \A b \in Blocks :
        /\ pc[b] = "tile"     => TileInputs \subseteq view[b]
        /\ pc[b] = "epilogue" => ActInputs(KeyOf(task[b])) \subseteq view[b]
        /\ pc[b] = "down"     => DownInputs(task[b]) \subseteq view[b]
        /\ pc[b] = "out"      => OutInputs \subseteq view[b]

\* A block holds a task from the moment it is its current one, or was claimed
\* ahead of it, until its cell is stored.
Held(b) ==
    (IF pc[b] \in {"zero", "had", "sync1", "top", "tile", "wait", "down"}
     THEN {task[b]} ELSE {})
    \cup (IF pc[b] \in {"tile", "count", "epilogue", "release", "wait", "down"}
          THEN {nxt[b]} ELSE {})

StoredTask(t) == TileCell(t) \in written \/ DownCell(t) \in written

\* No task is ever in two hands, nor handed out again after it ran: the static
\* first round and the shared counter never overlap.
NoTaskTwice ==
    /\ \A b, c \in Blocks : b # c => Held(b) \cap Held(c) \cap Tasks = {}
    /\ \A b \in Blocks : \A t \in Held(b) \cap Tasks : ~StoredTask(t)

\* A block may wait on a unit only when every gate/up tile is stored or in the
\* hands of a block that does not itself wait: the kernel's argument that
\* "every wait ends".
WaitsAreServed ==
    \A b \in Blocks :
        pc[b] = "wait" =>
            \A t \in GuTasks :
                \/ TileCell(t) \in written
                \/ \E c \in Blocks : /\ t \in Held(c)
                                     /\ pc[c] \in {"top", "tile", "count", "epilogue", "release"}

AllDone == \A b \in Blocks : pc[b] = "done"

\* Every launch ends, with every cell of the output computed.
LaunchFinishes == pc[0] = "zero" ~> (AllDone /\ written = Cells)

\* The kernel implements the dependency graph.
Dag == INSTANCE MoeDag WITH computed <- written
DagSpec == Dag!DagSpec
==============================================================================
