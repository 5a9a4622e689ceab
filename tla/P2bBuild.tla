------------------------------- MODULE P2bBuild ------------------------------
(***************************************************************************)
(* p2b_df_build (docker/patch/widen_p2b_dataflow.py): every block sorts    *)
(* the (row, expert) pairs of the call by expert in its shared memory and  *)
(* cuts the runs of equal experts into chunks of at most Rows pairs, the   *)
(* units of P2bDataflow.  Two loops run on all threads of the block, the   *)
(* third on thread 0; __syncthreads separates them.  In a loop over the    *)
(* threads the slots are taken in any order.                               *)
(***************************************************************************)
EXTENDS Integers, FiniteSets, Sequences

CONSTANTS
    Pairs,      \* m * experts of the call
    Experts,    \* expert numbers that occur in ids
    Rows,       \* P2B_COOP_ROWS
    SortCap,    \* P2B_SORT_CAP
    ReadyBase,  \* P2B_DF_READY
    HbN         \* inter / 128

ASSUME BuildAssumption ==
    /\ Pairs \in Nat \ {0}
    /\ Experts \subseteq Int
    /\ Rows \in Nat \ {0}
    /\ SortCap \in Nat
    /\ Pairs <= SortCap    \* the host launches this kernel only then
    /\ ReadyBase \in Nat \ {0}
    /\ HbN \in Nat \ {0}

Slots == 0 .. (Pairs - 1)

VARIABLES
    ids,       \* expert of each pair
    phase,     \* the loop the block is in
    todo,      \* slots no thread has done in this loop
    perm,      \* sorted slot -> pair
    runStart,  \* sorted slot -> first slot of its run
    runLen,    \* sorted slot -> length of its run
    s,         \* thread 0's loop variable
    chunk      \* the chunks cut so far: <<start slot, length>>

vars == <<ids, phase, todo, perm, runStart, runLen, s, chunk>>

\* Shared memory nothing has written yet.
Unset == -1

Init ==
    /\ ids \in [Slots -> Experts]
    /\ phase = "rank"
    /\ todo = Slots
    /\ perm = [p \in Slots |-> Unset]
    /\ runStart = [p \in Slots |-> Unset]
    /\ runLen = [p \in Slots |-> Unset]
    /\ s = 0
    /\ chunk = << >>

\* Pair q sorts before pair p: by expert, ties by index.
Before(q, p) == ids[q] < ids[p] \/ (ids[q] = ids[p] /\ q < p)

Rank(p) == Cardinality({q \in Slots : Before(q, p)})

RankPair(p) ==
    /\ phase = "rank"
    /\ p \in todo
    /\ perm' = [perm EXCEPT ![Rank(p)] = p]
    /\ todo' = todo \ {p}
    /\ UNCHANGED <<ids, phase, runStart, runLen, s, chunk>>

\* Mutant: the barrier is missing.
BarrierMissing(from, to) ==
    /\ phase = from
    /\ phase' = to
    /\ todo' = IF to = "run" THEN Slots ELSE {}
    /\ UNCHANGED <<ids, perm, runStart, runLen, s, chunk>>

\* __syncthreads: nobody goes on before everybody has arrived.
Barrier(from, to) ==
    /\ phase = from
    /\ todo = {}
    /\ phase' = to
    /\ todo' = IF to = "run" THEN Slots ELSE {}
    /\ UNCHANGED <<ids, perm, runStart, runLen, s, chunk>>

SrcOf(i) == ids[perm[i]]

\* Slots a .. i, or i .. b, hold one expert: where the two scans stop.
SameSrc(a, b) == \A i \in a .. b : SrcOf(i) = SrcOf(a)
RunFirst(i) == CHOOSE a \in 0 .. i : SameSrc(a, i) /\ (a > 0 => ~SameSrc(a - 1, i))
RunLast(i) == CHOOSE b \in i .. (Pairs - 1) :
                  SameSrc(i, b) /\ (b < Pairs - 1 => ~SameSrc(i, b + 1))

\* Mutant: the length is the distance of the ends.
FindRunShort(i) ==
    /\ phase = "run"
    /\ i \in todo
    /\ runStart' = [runStart EXCEPT ![i] = RunFirst(i)]
    /\ runLen' = [runLen EXCEPT ![i] = RunLast(i) - RunFirst(i)]
    /\ todo' = todo \ {i}
    /\ UNCHANGED <<ids, phase, perm, s, chunk>>

FindRun(i) ==
    /\ phase = "run"
    /\ i \in todo
    /\ runStart' = [runStart EXCEPT ![i] = RunFirst(i)]
    /\ runLen' = [runLen EXCEPT ![i] = RunLast(i) - RunFirst(i) + 1]
    /\ todo' = todo \ {i}
    /\ UNCHANGED <<ids, phase, perm, s, chunk>>

\* Mutant: a chunk takes the whole rest of its run.
CutChunkWhole ==
    LET off == s - runStart[s] IN
    /\ phase = "chunk"
    /\ s < Pairs
    /\ chunk' = IF off % Rows = 0 THEN Append(chunk, <<s, runLen[s] - off>>) ELSE chunk
    /\ s' = s + 1
    /\ UNCHANGED <<ids, phase, todo, perm, runStart, runLen>>

\* Thread 0's loop: a chunk starts at every multiple of Rows within a run.
CutChunk ==
    LET off == s - runStart[s]
        len == IF Rows < runLen[s] - off THEN Rows ELSE runLen[s] - off IN
    /\ phase = "chunk"
    /\ s < Pairs
    /\ chunk' = IF off % Rows = 0 THEN Append(chunk, <<s, len>>) ELSE chunk
    /\ s' = s + 1
    /\ UNCHANGED <<ids, phase, todo, perm, runStart, runLen>>

\* chunk[2 * P2B_SORT_CAP] = u; __syncthreads().
Finish ==
    /\ phase = "chunk"
    /\ s = Pairs
    /\ phase' = "done"
    /\ UNCHANGED <<ids, todo, perm, runStart, runLen, s, chunk>>

RankBarrier == Barrier("rank", "run")
RunBarrier  == Barrier("run", "chunk")

Next ==
    \/ \E p \in Slots : RankPair(p) \/ FindRun(p)
    \/ RankBarrier \/ RunBarrier
    \/ CutChunk \/ Finish

Spec == Init /\ [][Next]_vars

------------------------------------------------------------------------------
\* The control words of P2bDataflow: one readiness word per unit, one arrival
\* word per unit and 128-block, the words block 0 zeroes.
ReadyWord(u) == ReadyBase + u

\* Mutant: the arrival words start at the last readiness word in use.
ActWordTight(u, h) == ReadyBase + Len(chunk) - 1 + u * HbN + h

ActWord(u, h) == ReadyBase + SortCap + u * HbN + h
CtlWords == ReadyBase + SortCap + SortCap * HbN

UnitIds == 0 .. (Len(chunk) - 1)
------------------------------------------------------------------------------
TypeOK ==
    /\ ids \in [Slots -> Experts]
    /\ phase \in {"rank", "run", "chunk", "done"}
    /\ todo \subseteq Slots
    /\ perm \in [Slots -> Slots \cup {Unset}]
    /\ runStart \in [Slots -> Slots \cup {Unset}]
    /\ runLen \in [Slots -> 0 .. Pairs \cup {Unset}]
    /\ s \in 0 .. Pairs
    /\ chunk \in Seq(Slots \X (1 .. Pairs))

\* No two threads write the same slot of perm: the ranks are all different.
NoSlotTwice == phase = "rank" => \A p \in todo : perm[Rank(p)] = Unset

\* After the first barrier perm holds every pair, by expert and then by index.
Sorted ==
    phase # "rank" =>
        \A i, j \in Slots :
            /\ perm[i] \in Slots
            /\ i < j => \/ SrcOf(i) < SrcOf(j)
                        \/ SrcOf(i) = SrcOf(j) /\ perm[i] < perm[j]

\* The chunks partition the sorted slots in order; a chunk has one expert and
\* at most Rows pairs (one warp per pair runs the epilogue), and only the last
\* chunk of an expert may be short, so every expert's weights stream as few
\* times as possible.
ChunksCut ==
    phase = "done" =>
        LET n == Len(chunk)
            first(u) == chunk[u][1]
            len(u) == chunk[u][2]
            last(u) == first(u) + len(u) - 1 IN
        /\ first(1) = 0 /\ last(n) = Pairs - 1
        /\ \A u \in 1 .. n :
              /\ len(u) \in 1 .. Rows
              /\ SameSrc(first(u), last(u))
              /\ u < n => first(u + 1) = last(u) + 1
              /\ u < n /\ SrcOf(first(u)) = SrcOf(first(u + 1)) => len(u) = Rows

\* The control words of a call are different words, and block 0 zeroes them
\* all: no unit count the build can produce makes them overlap or overrun.
WordsFit ==
    phase = "done" =>
        /\ \A u \in UnitIds : ReadyWord(u) \in 1 .. (CtlWords - 1)
        /\ \A u \in UnitIds, h \in 0 .. (HbN - 1) : ActWord(u, h) \in 1 .. (CtlWords - 1)
        /\ \A u, v \in UnitIds, h \in 0 .. (HbN - 1) : ReadyWord(u) # ActWord(v, h)
        /\ \A u, v \in UnitIds, g, h \in 0 .. (HbN - 1) :
              ActWord(u, g) = ActWord(v, h) => u = v /\ g = h
==============================================================================
