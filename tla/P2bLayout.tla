------------------------------ MODULE P2bLayout ------------------------------
(***************************************************************************)
(* The index arithmetic of the dataflow MoE kernel (p2b_coop_df_kernel in  *)
(* docker/patch/widen_p2b_dataflow.py): the task list, the control words   *)
(* and the pieces of scratch ("cells") the tasks write and read.           *)
(*                                                                         *)
(* A unit is one chunk of (row, expert) pairs that share an expert.  Every *)
(* unit has Hb 128-column blocks; each block is computed by four gate/up   *)
(* tiles (gate or up, two 64-column halves).  Every unit then has Groups   *)
(* down tiles.  A cell stands for the piece of one scratch array that one  *)
(* step writes; its numbers are abstracted away.                           *)
(***************************************************************************)
EXTENDS Integers

CONSTANTS
    Units,   \* chunks of pairs with equal expert (coop[2 * P2B_SORT_CAP])
    Hb,      \* hb_n = inter / 128
    Groups,  \* num_groups_down = hidden / 64
    HadN,    \* warp-tasks of the input Hadamard: m * experts * hidden / 128
    OutN     \* warp-tasks of the output: m * hb_out

ASSUME LayoutAssumption ==
    /\ Units \in Nat \ {0}
    /\ Hb \in Nat \ {0}
    /\ Groups \in Nat \ {0}
    /\ HadN \in Nat \ {0}
    /\ OutN \in Nat \ {0}

GuCount == Units * (Hb * 4)
Total   == GuCount + Units * Groups

UnitIds   == 0 .. (Units - 1)
Keys      == 0 .. (Units * Hb - 1)
GuTasks   == 0 .. (GuCount - 1)
DownTasks == GuCount .. (Total - 1)
Tasks     == GuTasks \cup DownTasks

\* Unit and 128-block of a gate/up task, and the index of its control word
\* relative to P2B_DF_ACT.
UnitOf(t) == t \div (Hb * 4)
HbOf(t)   == (t - UnitOf(t) * (Hb * 4)) \div 4
KeyOf(t)  == UnitOf(t) * Hb + HbOf(t)

\* Unit of a down task.
DownUnit(t) == (t - GuCount) \div Groups

\* The unit a 128-block control word belongs to.
UnitOfKey(k) == k \div Hb

------------------------------------------------------------------------------
HadCell(i)  == <<"had", i>>
TileCell(t) == <<"tile", t>>
ActCell(k)  == <<"act", k>>
DownCell(t) == <<"down", t>>
OutCell(i)  == <<"out", i>>

HadCells  == {HadCell(i) : i \in 0 .. (HadN - 1)}
TileCells == {TileCell(t) : t \in GuTasks}
ActCells  == {ActCell(k) : k \in Keys}
DownCells == {DownCell(t) : t \in DownTasks}
OutCells  == {OutCell(i) : i \in 0 .. (OutN - 1)}

Cells == HadCells \cup TileCells \cup ActCells \cup DownCells \cup OutCells

TilesOfKey(k) == {TileCell(t) : t \in {s \in GuTasks : KeyOf(s) = k}}
ActsOfUnit(u) == {ActCell(k) : k \in {j \in Keys : UnitOfKey(j) = u}}

\* What the step that writes a cell reads.  A gate/up tile reads the Hadamard
\* of its own rows and an output row the down tiles of its own experts; both
\* are widened to the whole array, which is what the two grid barriers order.
TileInputs    == HadCells
ActInputs(k)  == TilesOfKey(k)
DownInputs(t) == ActsOfUnit(DownUnit(t))
OutInputs     == DownCells
==============================================================================
