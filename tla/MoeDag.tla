-------------------------------- MODULE MoeDag -------------------------------
(***************************************************************************)
(* What one launch of the fused MoE promises, without blocks, counters or  *)
(* barriers: every cell is computed exactly once, and only after all the   *)
(* cells it is computed from.  When every cell is computed the launch is   *)
(* over, and the next one (a CUDA-graph replay) starts from nothing.       *)
(***************************************************************************)
EXTENDS P2bLayout

VARIABLE computed    \* the cells this launch has computed

DagInit == computed = {}

\* One step may compute several cells of the same stage (a block's share of
\* the input Hadamard or of the output).
ComputeHad ==
    \E S \in SUBSET HadCells :
        /\ S \cap computed = {}
        /\ computed' = computed \cup S

ComputeTile ==
    \E c \in TileCells \ computed :
        /\ TileInputs \subseteq computed
        /\ computed' = computed \cup {c}

ComputeAct ==
    \E k \in Keys :
        /\ ActCell(k) \notin computed
        /\ ActInputs(k) \subseteq computed
        /\ computed' = computed \cup {ActCell(k)}

ComputeDown ==
    \E t \in DownTasks :
        /\ DownCell(t) \notin computed
        /\ DownInputs(t) \subseteq computed
        /\ computed' = computed \cup {DownCell(t)}

ComputeOut ==
    \E S \in SUBSET OutCells :
        /\ S \cap computed = {}
        /\ OutInputs \subseteq computed
        /\ computed' = computed \cup S

NextLaunch ==
    /\ computed = Cells
    /\ computed' = {}

DagNext ==
    \/ ComputeHad \/ ComputeTile \/ ComputeAct
    \/ ComputeDown \/ ComputeOut \/ NextLaunch

DagSpec == DagInit /\ [][DagNext]_computed
==============================================================================
