----------------------------- MODULE P2bInvariant ----------------------------
(***************************************************************************)
(* The inductive invariant of P2bDataflow, in three layers that the proofs *)
(* of P2bDataflowProofs establish one after the other: where a block may   *)
(* be with which task, how the task list is dealt, and what the counters   *)
(* of the 128-blocks and of the units stand for.                           *)
(***************************************************************************)
EXTENDS P2bDataflow

EarlyLocs == {"zero", "had", "sync1"}
BusyLocs  == {"tile", "count", "epilogue", "release", "wait", "down"}
LoopLocs  == BusyLocs \cup {"top", "sync2"}
LateLocs  == {"out", "done"}

Early == \A b \in Blocks : pc[b] \in EarlyLocs
Loop  == \A b \in Blocks : pc[b] \in LoopLocs
Late  == \A b \in Blocks : pc[b] \in LateLocs

\* The two grid barriers keep the blocks in the same third of the launch.
PhaseInv == Early \/ Loop \/ Late

PlaceInv ==
    \A b \in Blocks :
        /\ pc[b] = "zero" => b = 0
        /\ pc[b] \in EarlyLocs => task[b] = b
        /\ pc[b] \in {"tile", "count", "epilogue", "release"} => task[b] \in GuTasks
        /\ pc[b] \in {"wait", "down"} => task[b] \in DownTasks
        /\ pc[b] = "sync2" => task[b] >= Total

\* Layer 1.
TypeInv == TypeOK /\ PhaseInv /\ PlaceInv

------------------------------------------------------------------------------
\* The control words are zero from block 0's write to the first barrier.
ZeroedInv ==
    (Early /\ pc[0] # "zero") =>
        /\ counter = 0
        /\ act = [k \in Keys |-> 0]
        /\ ready = [u \in UnitIds |-> 0]

\* Before the first barrier only the input Hadamard has been stored.
EarlyInv ==
    Early =>
        /\ written \subseteq HadCells
        /\ \A k \in Keys : actView[k] = {}
        /\ \A u \in UnitIds : readyView[u] = {}

\* Tasks below counter + G have been dealt: each is held or stored.  Tasks
\* from there on are neither.
DealtInv ==
    Loop =>
        /\ \A b \in Blocks : task[b] < counter + G
        /\ \A b \in Blocks :
              pc[b] \in BusyLocs => task[b] < nxt[b] /\ nxt[b] < counter + G
        /\ \A t \in Tasks : t >= counter + G => ~StoredTask(t)
        /\ \A t \in Tasks :
              t < counter + G => StoredTask(t) \/ \E b \in Blocks : t \in Held(b)

DistinctInv ==
    /\ \A b, c \in Blocks : b # c => Held(b) \cap Held(c) = {}
    /\ \A b \in Blocks : \A t \in Held(b) \cap Tasks : ~StoredTask(t)

\* Layer 2.
DealInv == ZeroedInv /\ EarlyInv /\ DealtInv /\ DistinctInv

------------------------------------------------------------------------------
\* Every stored value is seen by some block, and only stored values are seen.
SeenInv ==
    /\ \A b \in Blocks : view[b] \subseteq written
    /\ \A k \in Keys : actView[k] \subseteq written
    /\ \A u \in UnitIds : readyView[u] \subseteq written
    /\ \A c \in written : \E b \in Blocks : c \in view[b]

\* Who stores a Hadamard or output cell, and when.
Owner(i) == (i \div Warps) % G

ShareInv ==
    /\ \A i \in 0 .. (HadN - 1) :
          HadCell(i) \in written <=> pc[Owner(i)] \notin {"zero", "had"}
    /\ \A i \in 0 .. (OutN - 1) :
          OutCell(i) \in written <=> pc[Owner(i)] = "done"

\* Tile t is stored and its arrival is in the counter of its 128-block.
Counted(t) ==
    /\ TileCell(t) \in written
    /\ \A b \in Blocks : ~(pc[b] = "count" /\ task[b] = t)

One(p) == IF p THEN 1 ELSE 0

ArrivalInv ==
    ~Early =>
        /\ \A k \in Keys :
              act[k] = One(Counted(4 * k)) + One(Counted(4 * k + 1))
                       + One(Counted(4 * k + 2)) + One(Counted(4 * k + 3))
        /\ \A t \in GuTasks : Counted(t) => TileCell(t) \in actView[KeyOf(t)]
        /\ \A b \in Blocks :
              pc[b] = "count" =>
                  /\ TileCell(task[b]) \in view[b]
                  /\ \A c \in Blocks : pc[c] = "count" /\ task[c] = task[b] => c = b

\* Exactly one block is elected for a 128-block, once all its tiles are in.
ElectedInv ==
    /\ \A b \in Blocks :
          pc[b] \in {"epilogue", "release"} =>
              /\ act[KeyOf(task[b])] = 4
              /\ \A c \in Blocks :
                    pc[c] \in {"epilogue", "release"} /\ KeyOf(task[c]) = KeyOf(task[b])
                        => c = b
    /\ \A b \in Blocks :
          /\ pc[b] = "epilogue" => ActCell(KeyOf(task[b])) \notin written
          /\ pc[b] = "release"  => ActCell(KeyOf(task[b])) \in view[b]
    /\ \A k \in Keys : ActCell(k) \in written => act[k] = 4
    /\ ~Early =>
          \A k \in Keys :
              act[k] = 4 =>
                  \/ ActCell(k) \in written
                  \/ \E b \in Blocks : pc[b] = "epilogue" /\ KeyOf(task[b]) = k

\* 128-block k is finished and counted in the readiness word of its unit.
Released(k) ==
    /\ ActCell(k) \in written
    /\ \A b \in Blocks : ~(pc[b] = "release" /\ KeyOf(task[b]) = k)

ReleasedKeys(u) == {k \in Keys : UnitOfKey(k) = u /\ Released(k)}

ReleaseInv ==
    ~Early =>
        /\ \A u \in UnitIds : ready[u] = Cardinality(ReleasedKeys(u))
        /\ \A k \in Keys : Released(k) => ActCell(k) \in readyView[UnitOfKey(k)]

SightInv ==
    /\ ~Early => \A b \in Blocks : HadCells \subseteq view[b]
    /\ \A b \in Blocks :
          /\ pc[b] = "epilogue" => ActInputs(KeyOf(task[b])) \subseteq view[b]
          /\ pc[b] = "down" => DownInputs(task[b]) \subseteq view[b]
          /\ pc[b] \in LateLocs => Cells \ OutCells \subseteq view[b]

\* Layer 3.
FlowInv ==
    SeenInv /\ ShareInv /\ ArrivalInv /\ ElectedInv /\ ReleaseInv /\ SightInv
==============================================================================
