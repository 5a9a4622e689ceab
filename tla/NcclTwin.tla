------------------------------- MODULE NcclTwin -------------------------------
(* The eager twin communicator (docker/patch/nccl_eager_twin.py) of one rank.

   NCCL reads NCCL_GRAPH_MIXING_SUPPORT when a communicator is made.  With it
   off, a communicator that a captured graph uses may not be used by an eager
   call while a replay of that graph is outstanding.  The patch turns mixing
   off for the process, gives the tensor-parallel group a second communicator
   for the eager calls, and routes every call by whether its stream captures.
   The other ranks run the same program in the same order and route alike.   *)
EXTENDS Naturals

Groups == {"tp", "ep"}

VARIABLES
    lever,   \* DSV41_NCCL_EAGER_TWIN=1
    mixing,  \* NCCL_GRAPH_MIXING_SUPPORT in the process is not 0
    hooked,  \* CudaCommunicator.__init__ is wrapped
    comm,    \* per group: "unbuilt", "stock", "guard" or "twin"
    mixed    \* per group: its communicator was made with mixing on

twinVars == <<lever, mixing, hooked, comm, mixed>>

(* The container sets no NCCL_GRAPH_MIXING_SUPPORT (run.sh forwards none); an
   operator's own 0 is handled where the lever is off.                        *)
TwinInit ==
    /\ lever \in BOOLEAN
    /\ mixing \in BOOLEAN
    /\ lever => mixing
    /\ hooked = FALSE
    /\ comm = [g \in Groups |-> "unbuilt"]
    /\ mixed = [g \in Groups |-> FALSE]

----------------------------------------------------------------------------
\* Mutant: a 0 left by the operator is not reset.
InstallTwinKeepsZero ==
    /\ UNCHANGED <<lever, comm, mixed>>
    /\ \/ /\ ~lever
          /\ UNCHANGED <<mixing, hooked>>
       \/ /\ lever
          /\ UNCHANGED <<mixing, hooked>>
       \/ /\ lever
          /\ hooked' = TRUE
          /\ mixing' = FALSE

\* install(): off, disarmed (version or anchors) or armed.
InstallTwin ==
    /\ UNCHANGED <<lever, comm, mixed>>
    /\ \/ /\ ~lever
          /\ mixing' = TRUE
          /\ hooked' = FALSE
       \/ /\ lever
          /\ UNCHANGED <<mixing, hooked>>
       \/ /\ lever
          /\ hooked' = TRUE
          /\ mixing' = FALSE

(* CudaCommunicator.__init__ of one group, wrapped or not.                    *)
BuildGroup(g) ==
    /\ comm[g] = "unbuilt"
    /\ mixed' = [mixed EXCEPT ![g] = mixing]
    /\ comm' = [comm EXCEPT ![g] = IF ~hooked THEN "stock"
                                   ELSE IF g = "tp" THEN "twin" ELSE "guard"]
    /\ UNCHANGED <<lever, mixing, hooked>>

(* The wrapped constructor raises: no working PyNccl, an NCCL whose source
   was not read, or a twin that came up disabled.                             *)
BuildRefused(g) ==
    /\ comm[g] = "unbuilt"
    /\ hooked
    /\ UNCHANGED twinVars

\* GraphEagerRouter._pick: the communicator object a call is issued on.
Pick(g, capturing) ==
    <<g, IF comm[g] = "twin" /\ ~capturing THEN "eager" ELSE "graph">>

\* _pick raises: a captured call in a group without a twin.
PickRaises(g, capturing) == comm[g] = "guard" /\ capturing
==============================================================================
