---------------------------- MODULE P2bBuildProofs ---------------------------
(***************************************************************************)
(* Proofs about P2bBuild for every number of pairs, every routing and      *)
(* every order of the threads: the ranks are a permutation, so no slot is  *)
(* written twice and the pairs come out sorted; and the control words of   *)
(* the units do not overlap.                                               *)
(***************************************************************************)
EXTENDS P2bBuild, FiniteSetTheorems, SequenceTheorems, TLAPS

IdsOK == ids \in [Slots -> Experts]

LEMMA SlotsFinite == IsFiniteSet(Slots) /\ Cardinality(Slots) = Pairs
  BY FS_Interval, BuildAssumption DEF Slots

\* Before is a strict total order on the pairs.
LEMMA BeforeOrder ==
    ASSUME IdsOK, NEW p \in Slots, NEW q \in Slots
    PROVE  /\ ~Before(p, p)
           /\ p # q => Before(p, q) \/ Before(q, p)
           /\ \A r \in Slots : Before(p, q) /\ Before(q, r) => Before(p, r)
  <1>1. \A r \in Slots : r \in Int /\ ids[r] \in Int
    <2>1. Slots \subseteq Int
      BY BuildAssumption DEF Slots
    <2>2. \A r \in Slots : ids[r] \in Experts
      BY DEF IdsOK
    <2> QED BY <2>1, <2>2, BuildAssumption
  <1> QED BY <1>1 DEF Before

LEMMA RankInSlots ==
    ASSUME IdsOK, NEW p \in Slots
    PROVE  Rank(p) \in Slots
  <1> DEFINE S == {q \in Slots : Before(q, p)}
  <1>1. S \subseteq Slots \ {p}
    BY BeforeOrder
  <1>2. IsFiniteSet(Slots \ {p}) /\ Cardinality(Slots \ {p}) = Pairs - 1
    BY SlotsFinite, FS_RemoveElement
  <1>3. IsFiniteSet(S) /\ Cardinality(S) <= Pairs - 1
    BY <1>1, <1>2, FS_Subset
  <1>4. Cardinality(S) \in Nat
    BY <1>3, FS_CardinalityType
  <1> QED BY <1>3, <1>4, BuildAssumption DEF Rank, Slots

\* The rank respects the order, so it tells the pairs apart.
LEMMA RankMonotone ==
    ASSUME IdsOK, NEW p \in Slots, NEW q \in Slots, Before(p, q)
    PROVE  Rank(p) < Rank(q)
  <1> DEFINE S == {r \in Slots : Before(r, p)}
             T == {r \in Slots : Before(r, q)}
  <1>1. p \notin S /\ S \cup {p} \subseteq T
    BY BeforeOrder
  <1>2. IsFiniteSet(S) /\ IsFiniteSet(T)
    BY SlotsFinite, FS_Subset
  <1>3. Cardinality(S \cup {p}) = Cardinality(S) + 1
    BY <1>1, <1>2, FS_AddElement
  <1>4. Cardinality(S \cup {p}) <= Cardinality(T)
    BY <1>1, <1>2, FS_Subset
  <1>5. Cardinality(S) \in Nat /\ Cardinality(T) \in Nat
    BY <1>2, FS_CardinalityType
  <1>6. Rank(p) = Cardinality(S) /\ Rank(q) = Cardinality(T)
    BY DEF Rank
  <1> HIDE DEF S, T
  <1> QED BY <1>3, <1>4, <1>5, <1>6

LEMMA RankInjective ==
    ASSUME IdsOK, NEW p \in Slots, NEW q \in Slots, Rank(p) = Rank(q)
    PROVE  p = q
  <1>1. Rank(p) \in Slots /\ Rank(q) \in Slots
    BY RankInSlots
  <1>2. ~(Rank(p) < Rank(q)) /\ ~(Rank(q) < Rank(p))
    BY <1>1 DEF Slots
  <1> QED BY <1>2, BeforeOrder, RankMonotone

\* An injection of the finite set of slots into itself reaches every slot.
LEMMA RankSurjective ==
    ASSUME IdsOK, NEW i \in Slots
    PROVE  \E p \in Slots : Rank(p) = i
  <1> DEFINE f == [p \in Slots |-> Rank(p)]
  <1>1. f \in [Slots -> Slots]
    BY RankInSlots
  <1>2. f \in Injection(Slots, Slots)
    BY <1>1, RankInjective DEF Injection, IsInjective
  <1>3. f \in Surjection(Slots, Slots)
    BY <1>2, SlotsFinite, FS_Injection
  <1> QED BY <1>3 DEF Surjection

------------------------------------------------------------------------------
\* While the threads rank, perm holds exactly the pairs already ranked; from
\* the barrier on it is the inverse of the rank.
PermInv ==
    /\ IdsOK
    /\ todo \subseteq Slots
    /\ perm \in [Slots -> Slots \cup {Unset}]
    /\ \A p \in Slots : (phase # "rank" \/ p \notin todo) => perm[Rank(p)] = p
    /\ phase = "rank" => \A p \in todo : perm[Rank(p)] = Unset

LEMMA PermStep == PermInv /\ [Next]_vars => PermInv'
  <1> SUFFICES ASSUME PermInv, [Next]_vars PROVE PermInv'
    OBVIOUS
  <1>1. ASSUME NEW p \in Slots, RankPair(p) PROVE PermInv'
    <2>1. ids' = ids /\ IdsOK' /\ IdsOK /\ phase' = "rank" /\ phase = "rank" /\ p \in todo
      BY <1>1 DEF RankPair, PermInv, IdsOK
    <2>2. \A q \in Slots : Rank(q)' = Rank(q)
      BY <2>1 DEF Rank, Before
    <2>3. \A q \in Slots : Rank(q) \in Slots /\ (Rank(q) = Rank(p) => q = p)
      BY <2>1, RankInSlots, RankInjective
    <2>4. perm' = [perm EXCEPT ![Rank(p)] = p] /\ todo' = todo \ {p}
      BY <1>1 DEF RankPair
    <2>5. \A q \in Slots : q \notin todo' => perm'[Rank(q)] = q
      BY <2>1, <2>3, <2>4 DEF PermInv
    <2>6. \A q \in todo' : perm'[Rank(q)] = Unset
      BY <2>1, <2>3, <2>4 DEF PermInv
    <2>7. perm' \in [Slots -> Slots \cup {Unset}] /\ todo' \subseteq Slots
      BY <2>3, <2>4 DEF PermInv
    <2> QED BY <2>1, <2>2, <2>5, <2>6, <2>7 DEF PermInv
  <1>2. ASSUME UNCHANGED <<ids, perm>>, todo' \subseteq Slots, phase' # "rank",
               phase # "rank" \/ todo = {}
        PROVE  PermInv'
    <2>1. \A q \in Slots : Rank(q)' = Rank(q)
      BY <1>2 DEF Rank, Before
    <2> QED BY <1>2, <2>1 DEF PermInv, IdsOK
  <1>3. ASSUME NEW i \in Slots, FindRun(i) PROVE PermInv'
    BY <1>2, <1>3 DEF FindRun, PermInv
  <1>4. ASSUME RankBarrier \/ RunBarrier PROVE PermInv'
    BY <1>2, <1>4 DEF RankBarrier, RunBarrier, Barrier
  <1>5. ASSUME CutChunk \/ Finish PROVE PermInv'
    BY <1>2, <1>5 DEF CutChunk, Finish, PermInv
  <1>6. ASSUME UNCHANGED vars PROVE PermInv'
    <2>1. \A q \in Slots : Rank(q)' = Rank(q)
      BY <1>6 DEF vars, Rank, Before
    <2> QED BY <1>6, <2>1 DEF vars, PermInv, IdsOK
  <1> QED BY <1>1, <1>3, <1>4, <1>5, <1>6 DEF Next

LEMMA PermSafe == Spec => []PermInv
  <1>1. Init => PermInv
    <2> SUFFICES ASSUME Init PROVE PermInv
      OBVIOUS
    <2>1. \A p \in Slots : Rank(p) \in Slots
      BY RankInSlots DEF Init, IdsOK
    <2> QED BY <2>1 DEF Init, PermInv, IdsOK
  <1> QED BY <1>1, PermStep, PTL DEF Spec

\* For every routing and thread order, no two threads write the same slot.
THEOREM SlotsOnce == Spec => []NoSlotTwice
  <1>1. PermInv => NoSlotTwice
    BY DEF PermInv, NoSlotTwice
  <1> QED BY <1>1, PermSafe, PTL

\* For every routing and thread order, the sort sorts.
THEOREM SortCorrect == Spec => []Sorted
  <1>1. PermInv => Sorted
    <2> SUFFICES ASSUME PermInv, phase # "rank", NEW i \in Slots, NEW j \in Slots
                 PROVE  /\ perm[i] \in Slots
                        /\ i < j => \/ SrcOf(i) < SrcOf(j)
                                    \/ SrcOf(i) = SrcOf(j) /\ perm[i] < perm[j]
      BY DEF Sorted
    <2>1. IdsOK
      BY DEF PermInv
    <2>2. \A k \in Slots : perm[k] \in Slots /\ Rank(perm[k]) = k
      BY <2>1, RankSurjective DEF PermInv
    <2>3. ASSUME i < j PROVE Before(perm[i], perm[j])
      <3>1. perm[i] # perm[j] /\ ~(j < i)
        BY <2>2, <2>3 DEF Slots
      <3>2. ~Before(perm[j], perm[i])
        BY <2>1, <2>2, <3>1, RankMonotone
      <3> QED BY <2>1, <2>2, <3>1, <3>2, BeforeOrder
    <2> QED BY <2>2, <2>3 DEF Before, SrcOf
  <1> QED BY <1>1, PermSafe, PTL

------------------------------------------------------------------------------
\* A chunk is cut at a slot, so there are at most as many chunks as pairs.
CountInv ==
    /\ s \in 0 .. Pairs
    /\ \E T : chunk \in Seq(T)
    /\ Len(chunk) <= s

LEMMA WordsLemma ==
    ASSUME NEW n \in Nat, n <= SortCap
    PROVE  /\ \A u \in 0 .. (n - 1) : ReadyWord(u) \in 1 .. (CtlWords - 1)
           /\ \A u \in 0 .. (n - 1), h \in 0 .. (HbN - 1) :
                 ActWord(u, h) \in 1 .. (CtlWords - 1)
           /\ \A u, v \in 0 .. (n - 1), h \in 0 .. (HbN - 1) : ReadyWord(u) # ActWord(v, h)
           /\ \A u, v \in 0 .. (n - 1), g, h \in 0 .. (HbN - 1) :
                 ActWord(u, g) = ActWord(v, h) => u = v /\ g = h
  <1> USE BuildAssumption DEF ReadyWord, ActWord, CtlWords
  <1>1. ASSUME NEW u \in 0 .. (n - 1) PROVE u * HbN \in Nat /\ u * HbN + HbN <= SortCap * HbN
    <2>1. (u + 1) * HbN <= SortCap * HbN
      OBVIOUS
    <2> QED BY <2>1
  <1>2. SortCap * HbN \in Nat /\ SortCap * HbN >= 0
    OBVIOUS
  <1>3. ASSUME NEW u \in 0 .. (n - 1), NEW v \in 0 .. (n - 1),
               NEW g \in 0 .. (HbN - 1), NEW h \in 0 .. (HbN - 1),
               u * HbN + g = v * HbN + h
        PROVE  u = v
    <2>1. CASE u < v
      <3>1. (u + 1) * HbN <= v * HbN
        BY <2>1
      <3> QED BY <1>3, <3>1
    <2>2. CASE v < u
      <3>1. (v + 1) * HbN <= u * HbN
        BY <2>2
      <3> QED BY <1>3, <3>1
    <2> QED BY <2>1, <2>2
  <1>4. \A u \in 0 .. (n - 1) : ReadyWord(u) \in 1 .. (CtlWords - 1)
    BY <1>1
  <1>5. \A u \in 0 .. (n - 1), h \in 0 .. (HbN - 1) : ActWord(u, h) \in 1 .. (CtlWords - 1)
    BY <1>1, <1>2
  <1>6. \A u, v \in 0 .. (n - 1), h \in 0 .. (HbN - 1) : ReadyWord(u) # ActWord(v, h)
    BY <1>1
  <1>7. ASSUME NEW u \in 0 .. (n - 1), NEW v \in 0 .. (n - 1),
               NEW g \in 0 .. (HbN - 1), NEW h \in 0 .. (HbN - 1),
               ActWord(u, g) = ActWord(v, h)
        PROVE  u = v /\ g = h
    <2>1. u * HbN + g = v * HbN + h
      BY <1>1, <1>7
    <2>2. u = v
      BY <1>3, <2>1
    <2> QED BY <1>1, <2>1, <2>2
  <1> QED BY <1>4, <1>5, <1>6, <1>7

\* For every routing, the control words of the units that the build cuts are
\* distinct and inside the words block 0 zeroes.
THEOREM WordsCorrect == Spec => []WordsFit
  <1>1. Init => CountInv
    <2> SUFFICES ASSUME Init PROVE CountInv
      OBVIOUS
    <2>1. chunk = << >> /\ chunk \in Seq({}) /\ Len(chunk) = 0
      BY DEF Init
    <2> QED BY <2>1, BuildAssumption DEF Init, CountInv
  <1>2. CountInv /\ [Next]_vars => CountInv'
    <2> SUFFICES ASSUME CountInv, [Next]_vars PROVE CountInv'
      OBVIOUS
    <2>1. ASSUME CutChunk PROVE CountInv'
      <3>1. PICK T : chunk \in Seq(T)
        BY DEF CountInv
      <3>2. PICK x : \/ chunk' = Append(chunk, x)
                     \/ chunk' = chunk
        BY <2>1 DEF CutChunk
      <3>3. chunk' \in Seq(T \cup {x}) /\ Len(chunk') \in {Len(chunk), Len(chunk) + 1}
        BY <3>1, <3>2
      <3>4. s' = s + 1 /\ s < Pairs
        BY <2>1 DEF CutChunk
      <3> QED BY <3>1, <3>3, <3>4, BuildAssumption DEF CountInv
    <2>2. ASSUME UNCHANGED <<s, chunk>> PROVE CountInv'
      BY <2>2 DEF CountInv
    <2> QED BY <2>1, <2>2
            DEF Next, RankPair, FindRun, RankBarrier, RunBarrier, Barrier, Finish, vars
  <1>3. CountInv => WordsFit
    <2> SUFFICES ASSUME CountInv PROVE WordsFit
      OBVIOUS
    <2>1. Len(chunk) \in Nat /\ Len(chunk) <= SortCap
      BY BuildAssumption DEF CountInv
    <2> QED BY <2>1, WordsLemma DEF WordsFit, UnitIds
  <1> QED BY <1>1, <1>2, <1>3, PTL DEF Spec

------------------------------------------------------------------------------
(* The runs of equal experts.                                               *)

LEMMA LeastNat ==
    ASSUME NEW T, T \subseteq Nat, T # {}
    PROVE  \E m \in T : \A k \in T : m <= k
  <1> DEFINE R == OpToRel(<, Nat)
  <1>1. IsWellFoundedOn(R, Nat)
    BY NatLessThanWellFounded
  <1>2. \A x, y \in Nat : x < y => <<x, y>> \in R
    BY DEF OpToRel
  <1> HIDE DEF R
  <1>3. PICK m \in T : \A y \in T : ~(<<y, m>> \in R)
    BY <1>1, WFMin
  <1>4. \A y \in T : ~(y < m)
    BY <1>2, <1>3
  <1> QED BY <1>3, <1>4

\* Slots f .. l are a whole run, and i is one of them.
IsRun(f, l, i) ==
    /\ f \in 0 .. i /\ l \in i .. (Pairs - 1)
    /\ \A k \in f .. l : SrcOf(k) = SrcOf(i)
    /\ f > 0 => SrcOf(f - 1) # SrcOf(i)
    /\ l < Pairs - 1 => SrcOf(l + 1) # SrcOf(i)

\* The two scans of p2b_df_build find the run of a slot.
LEMMA RunEnds ==
    ASSUME NEW i \in Slots
    PROVE  IsRun(RunFirst(i), RunLast(i), i)
  <1> USE BuildAssumption DEF Slots
  <1>1. \E a \in 0 .. i : SameSrc(a, i) /\ (a > 0 => ~SameSrc(a - 1, i))
    <2> DEFINE T == {a \in 0 .. i : SameSrc(a, i)}
    <2>1. T \subseteq Nat /\ i \in T
      BY DEF SameSrc
    <2>2. PICK m \in T : \A k \in T : m <= k
      BY <2>1, LeastNat
    <2>3. m > 0 => ~SameSrc(m - 1, i)
      BY <2>1, <2>2
    <2> QED BY <2>2, <2>3
  <1>2. \E b \in i .. (Pairs - 1) : SameSrc(i, b) /\ (b < Pairs - 1 => ~SameSrc(i, b + 1))
    <2> DEFINE T == {k \in 0 .. (Pairs - 1 - i) : SameSrc(i, Pairs - 1 - k)}
    <2>1. T \subseteq Nat /\ Pairs - 1 - i \in T
      <3>1. Pairs - 1 - (Pairs - 1 - i) = i
        OBVIOUS
      <3> QED BY <3>1 DEF SameSrc
    <2>2. PICK m \in T : \A k \in T : m <= k
      BY <2>1, LeastNat
    <2>3. Pairs - 1 - m \in i .. (Pairs - 1) /\ SameSrc(i, Pairs - 1 - m)
      BY <2>1, <2>2
    <2>4. Pairs - 1 - m < Pairs - 1 => ~SameSrc(i, (Pairs - 1 - m) + 1)
      <3> SUFFICES ASSUME m > 0, SameSrc(i, (Pairs - 1 - m) + 1) PROVE FALSE
        BY <2>1, <2>2
      <3>1. (Pairs - 1 - m) + 1 = Pairs - 1 - (m - 1) /\ m - 1 \in 0 .. (Pairs - 1 - i)
        BY <2>1, <2>2
      <3> QED BY <2>1, <2>2, <3>1
    <2> QED BY <2>3, <2>4
  <1>3. /\ RunFirst(i) \in 0 .. i /\ SameSrc(RunFirst(i), i)
        /\ RunFirst(i) > 0 => ~SameSrc(RunFirst(i) - 1, i)
    BY <1>1 DEF RunFirst
  <1>4. /\ RunLast(i) \in i .. (Pairs - 1) /\ SameSrc(i, RunLast(i))
        /\ RunLast(i) < Pairs - 1 => ~SameSrc(i, RunLast(i) + 1)
    BY <1>2 DEF RunLast
  <1>5. \A k \in RunFirst(i) .. RunLast(i) : SrcOf(k) = SrcOf(i)
    BY <1>3, <1>4 DEF SameSrc
  <1>6. RunFirst(i) > 0 => SrcOf(RunFirst(i) - 1) # SrcOf(i)
    BY <1>3, <1>5 DEF SameSrc
  <1>7. RunLast(i) < Pairs - 1 => SrcOf(RunLast(i) + 1) # SrcOf(i)
    BY <1>4, <1>5 DEF SameSrc
  <1> QED BY <1>3, <1>4, <1>5, <1>6, <1>7 DEF IsRun

\* A slot has one run, and its neighbours in the run have the same.
LEMMA RunUnique ==
    ASSUME NEW i \in Slots, NEW j \in i .. RunLast(i)
    PROVE  j \in Slots /\ RunFirst(j) = RunFirst(i) /\ RunLast(j) = RunLast(i)
  <1> DEFINE f == RunFirst(i) l == RunLast(i) g == RunFirst(j) e == RunLast(j)
  <1> USE BuildAssumption DEF Slots
  <1>1. IsRun(f, l, i)
    BY RunEnds
  <1>2. j \in Slots
    BY <1>1 DEF IsRun
  <1>3. IsRun(g, e, j)
    BY <1>2, RunEnds
  <1> HIDE DEF f, l, g, e
  <1>4. SrcOf(j) = SrcOf(i) /\ j \in i .. l
    BY <1>1 DEF IsRun, l
  <1>5. /\ f \in Nat /\ l \in Nat /\ g \in Nat /\ e \in Nat
        /\ f <= i /\ i <= j /\ j <= l /\ g <= j /\ j <= e
        /\ l <= Pairs - 1 /\ e <= Pairs - 1
    BY <1>1, <1>3, <1>4 DEF IsRun
  <1>6. ~(g < f)
    <2> SUFFICES ASSUME g < f PROVE FALSE
      OBVIOUS
    <2>1. f - 1 \in g .. e /\ f > 0
      BY <1>5
    <2> QED BY <1>1, <1>3, <1>4, <2>1 DEF IsRun
  <1>7. ~(f < g)
    <2> SUFFICES ASSUME f < g PROVE FALSE
      OBVIOUS
    <2>1. g - 1 \in f .. l /\ g > 0
      BY <1>5
    <2> QED BY <1>1, <1>3, <1>4, <2>1 DEF IsRun
  <1>8. ~(e < l)
    <2> SUFFICES ASSUME e < l PROVE FALSE
      OBVIOUS
    <2>1. e + 1 \in f .. l /\ e < Pairs - 1
      BY <1>5
    <2> QED BY <1>1, <1>3, <1>4, <2>1 DEF IsRun
  <1>9. ~(l < e)
    <2> SUFFICES ASSUME l < e PROVE FALSE
      OBVIOUS
    <2>1. l + 1 \in g .. e /\ l < Pairs - 1
      BY <1>5
    <2> QED BY <1>1, <1>3, <1>4, <2>1 DEF IsRun
  <1>10. g = f /\ e = l
    BY <1>5, <1>6, <1>7, <1>8, <1>9
  <1> QED BY <1>2, <1>10 DEF f, l, g, e

\* The slot after a run starts one.
LEMMA RunAfter ==
    ASSUME NEW i \in Slots, RunLast(i) + 1 \in Slots
    PROVE  /\ RunFirst(RunLast(i) + 1) = RunLast(i) + 1
           /\ SrcOf(RunLast(i) + 1) # SrcOf(i)
  <1> DEFINE l == RunLast(i) j == l + 1 g == RunFirst(j)
  <1> USE BuildAssumption DEF Slots
  <1>1. IsRun(RunFirst(i), l, i) /\ IsRun(g, RunLast(j), j)
    BY RunEnds
  <1> HIDE DEF l, g
  <1>2. l \in Nat /\ l < Pairs - 1 /\ l >= i /\ SrcOf(l) = SrcOf(i) /\ SrcOf(j) # SrcOf(i)
    BY <1>1 DEF IsRun, l
  <1>3. g \in 0 .. j /\ \A k \in g .. j : SrcOf(k) = SrcOf(j)
    BY <1>1 DEF IsRun
  <1>4. ~(g <= l)
    BY <1>2, <1>3
  <1>5. g = j
    BY <1>2, <1>3, <1>4
  <1> QED BY <1>2, <1>5 DEF l, g

------------------------------------------------------------------------------
(* Multiples of Rows.                                                       *)

LEMMA ModAdd ==
    ASSUME NEW a \in Nat, NEW d \in Nat \ {0}, a % d = 0, NEW j \in 0 .. d
    PROVE  (a + j) % d = 0 <=> j \in {0, d}
  <1>1. a = d * (a \div d) /\ a \div d \in Nat
    BY Z3
  <1> DEFINE q == a \div d
  <1> HIDE DEF q
  <1>2. a = d * q /\ q \in Nat
    BY <1>1 DEF q
  <1>3. CASE j = d
    <2>1. a + j = d * (q + 1)
      BY <1>2, <1>3
    <2>2. (d * (q + 1)) % d = 0
      BY <1>2, Z3
    <2> QED BY <1>3, <2>1, <2>2
  <1>4. CASE j < d
    <2>1. (d * q + j) % d = j
      BY <1>2, <1>4, Z3
    <2> QED BY <1>2, <1>4, <2>1
  <1> QED BY <1>3, <1>4

------------------------------------------------------------------------------
(* The second loop, and thread 0's.                                         *)

\* The slots whose run the threads have found.
Found(i) == phase \in {"chunk", "done"} \/ (phase = "run" /\ i \notin todo)

RunInv ==
    /\ phase \in {"rank", "run", "chunk", "done"}
    /\ runStart \in [Slots -> Slots \cup {Unset}]
    /\ runLen \in [Slots -> 0 .. Pairs \cup {Unset}]
    /\ \A i \in Slots : Found(i) => /\ runStart[i] = RunFirst(i)
                                    /\ runLen[i] = RunLast(i) - RunFirst(i) + 1

ChunkSet == Slots \X (1 .. Pairs)
First(u) == chunk[u][1]
Size(u) == chunk[u][2]

\* A chunk starts at a multiple of Rows within its run, and ends with the run
\* or is full.
Cut(u) ==
    /\ (First(u) - RunFirst(First(u))) % Rows = 0
    /\ First(u) + Size(u) - 1 <= RunLast(First(u))
    /\ Size(u) = Rows \/ (Size(u) < Rows /\ First(u) + Size(u) - 1 = RunLast(First(u)))

\* The next chunk starts where this one ends; when this one is short, with
\* another expert.
Follows(u) ==
    /\ First(u + 1) = First(u) + Size(u)
    /\ SrcOf(First(u)) = SrcOf(First(u + 1)) => Size(u) = Rows

\* The chunks cover the slots below s, and the last one may reach further.
ChunkInv ==
    /\ s \in 0 .. Pairs
    /\ chunk \in Seq(ChunkSet)
    /\ phase \in {"rank", "run"} => s = 0
    /\ phase = "done" => s = Pairs
    /\ s = 0 => Len(chunk) = 0
    /\ s > 0 => /\ Len(chunk) > 0 /\ First(1) = 0
                /\ First(Len(chunk)) < s /\ s <= First(Len(chunk)) + Size(Len(chunk))
    /\ \A u \in 1 .. Len(chunk) : Cut(u)
    /\ \A u \in 1 .. (Len(chunk) - 1) : Follows(u)

BuildInv == PermInv /\ RunInv /\ ChunkInv

LEMMA RunStep == PermInv /\ RunInv /\ [Next]_vars => RunInv'
  <1> SUFFICES ASSUME PermInv, RunInv, [Next]_vars PROVE RunInv'
    OBVIOUS
  <1>1. ASSUME NEW p \in Slots, RankPair(p) PROVE RunInv'
    BY <1>1 DEF RankPair, RunInv, Found
  <1>2. ASSUME UNCHANGED <<ids, perm>>
        PROVE  \A i \in Slots : RunFirst(i)' = RunFirst(i) /\ RunLast(i)' = RunLast(i)
    BY <1>2 DEF RunFirst, RunLast, SameSrc, SrcOf
  <1>3. ASSUME NEW p \in Slots, FindRun(p) PROVE RunInv'
    <2>1. IsRun(RunFirst(p), RunLast(p), p)
      BY RunEnds
    <2>2. /\ RunFirst(p) \in Slots /\ RunLast(p) - RunFirst(p) + 1 \in 0 .. Pairs
      BY <2>1, BuildAssumption DEF IsRun, Slots
    <2>3. runStart' = [runStart EXCEPT ![p] = RunFirst(p)]
          /\ runLen' = [runLen EXCEPT ![p] = RunLast(p) - RunFirst(p) + 1]
          /\ todo' = todo \ {p} /\ phase = "run" /\ UNCHANGED <<ids, perm, phase>>
      BY <1>3 DEF FindRun
    <2>4. \A i \in Slots : RunFirst(i)' = RunFirst(i) /\ RunLast(i)' = RunLast(i)
      BY <1>2, <2>3
    <2>5. runStart' \in [Slots -> Slots \cup {Unset}] /\ runLen' \in [Slots -> 0 .. Pairs \cup {Unset}]
      BY <2>2, <2>3 DEF RunInv
    <2>6. \A i \in Slots : Found(i)' => /\ runStart'[i] = RunFirst(i)
                                        /\ runLen'[i] = RunLast(i) - RunFirst(i) + 1
      BY <2>3 DEF RunInv, Found
    <2> QED BY <2>3, <2>4, <2>5, <2>6 DEF RunInv
  <1>4. ASSUME UNCHANGED <<ids, perm, runStart, runLen>>, phase' \in {"rank", "run", "chunk", "done"},
               \A i \in Slots : Found(i)' => Found(i)
        PROVE  RunInv'
    BY <1>2, <1>4 DEF RunInv
  <1>5. CASE RankBarrier
    <2>1. phase' = "run" /\ todo' = Slots /\ UNCHANGED <<ids, perm, runStart, runLen>>
      BY <1>5 DEF RankBarrier, Barrier
    <2> QED BY <1>4, <2>1 DEF Found
  <1>6. CASE RunBarrier
    <2>1. phase = "run" /\ todo = {} /\ phase' = "chunk" /\ UNCHANGED <<ids, perm, runStart, runLen>>
      BY <1>6 DEF RunBarrier, Barrier
    <2> QED BY <1>4, <2>1 DEF Found
  <1>7. CASE CutChunk
    <2>1. phase = "chunk" /\ UNCHANGED <<ids, perm, phase, todo, runStart, runLen>>
      BY <1>7 DEF CutChunk
    <2> QED BY <1>4, <2>1 DEF Found
  <1>8. CASE Finish
    <2>1. phase = "chunk" /\ phase' = "done" /\ UNCHANGED <<ids, perm, todo, runStart, runLen>>
      BY <1>8 DEF Finish
    <2> QED BY <1>4, <2>1 DEF Found
  <1>9. CASE UNCHANGED vars
    <2>1. UNCHANGED <<ids, perm, phase, todo, runStart, runLen>>
      BY <1>9 DEF vars
    <2> QED BY <1>4, <2>1 DEF Found, RunInv
  <1> QED BY <1>1, <1>3, <1>5, <1>6, <1>7, <1>8, <1>9 DEF Next

\* What the chunks look like to the next slot.
LEMMA ChunkFacts ==
    ASSUME ChunkInv, NEW u \in 1 .. Len(chunk)
    PROVE  /\ Len(chunk) \in Nat
           /\ First(u) \in Slots /\ Size(u) \in 1 .. Pairs
           /\ Cut(u)
           /\ Size(u) \in 1 .. Rows
           /\ First(u) + Size(u) - 1 \in First(u) .. RunLast(First(u))
           /\ IsRun(RunFirst(First(u)), RunLast(First(u)), First(u))
  <1>1. chunk \in Seq(ChunkSet) /\ Len(chunk) \in Nat
    BY LenProperties DEF ChunkInv
  <1>2. chunk[u] \in ChunkSet
    BY <1>1, ElementOfSeq
  <1>3. First(u) \in Slots /\ Size(u) \in 1 .. Pairs
    BY <1>2 DEF ChunkSet, First, Size
  <1>4. Cut(u)
    BY DEF ChunkInv
  <1>5. IsRun(RunFirst(First(u)), RunLast(First(u)), First(u))
    BY <1>3, RunEnds
  <1>6. Size(u) \in 1 .. Rows
    BY <1>3, <1>4, BuildAssumption DEF Cut
  <1>7. First(u) + Size(u) - 1 \in First(u) .. RunLast(First(u))
    BY <1>3, <1>4, <1>5, BuildAssumption DEF Cut, IsRun, Slots
  <1> QED BY <1>1, <1>3, <1>4, <1>5, <1>6, <1>7

\* A slot that the last chunk does not reach starts a run, or is at a multiple
\* of Rows in it; one that the chunk reaches is at none.
LEMMA NextSlot ==
    ASSUME ChunkInv, s \in Slots, s > 0
    PROVE  LET n == Len(chunk) IN
           /\ (s - RunFirst(s)) % Rows = 0 <=> s = First(n) + Size(n)
           /\ s = First(n) + Size(n) /\ SrcOf(First(n)) = SrcOf(s) => Size(n) = Rows
  <1> DEFINE n == Len(chunk) c == First(n) l == Size(n) f == RunFirst(c)
  <1> USE BuildAssumption
  <1>1. n \in 1 .. Len(chunk) /\ First(n) < s /\ s <= First(n) + Size(n)
    BY LenProperties DEF ChunkInv
  <1>2. /\ c \in Slots /\ l \in 1 .. Rows
        /\ (c - f) % Rows = 0
        /\ l = Rows \/ c + l - 1 = RunLast(c)
        /\ c + l - 1 <= RunLast(c)
        /\ IsRun(f, RunLast(c), c)
    BY <1>1, ChunkFacts DEF Cut
  <1> HIDE DEF n, c, l, f
  <1>3. c \in Nat /\ f \in Nat /\ f <= c /\ RunLast(c) \in Nat /\ c < s /\ s <= c + l /\ l \in Nat /\ s \in Nat
    BY <1>1, <1>2 DEF IsRun, Slots, c, l
  <1>4. CASE s <= RunLast(c)
    <2>1. RunFirst(s) = f
      BY <1>2, <1>3, <1>4, RunUnique DEF f
    <2>2. s - f = (c - f) + (s - c) /\ c - f \in Nat /\ s - c \in 0 .. Rows /\ s - c > 0
      BY <1>2, <1>3
    <2>3. (s - f) % Rows = 0 <=> s - c = Rows
      <3>1. ((c - f) + (s - c)) % Rows = 0 <=> s - c \in {0, Rows}
        <4>1. (c - f) % Rows = 0 /\ Rows \in Nat \ {0}
          BY <1>2
        <4> QED BY <2>2, <4>1, ModAdd
      <3> QED BY <2>2, <3>1
    <2>4. s - c = Rows <=> s = c + l
      BY <1>2, <1>3, <1>4
    <2>5. s = c + l => l = Rows
      BY <1>2, <1>3, <1>4
    <2> QED BY <2>1, <2>3, <2>4, <2>5 DEF n, c, l
  <1>5. CASE ~(s <= RunLast(c))
    <2>1. s = RunLast(c) + 1 /\ s = c + l
      BY <1>2, <1>3, <1>5
    <2>2. RunFirst(s) = s /\ SrcOf(s) # SrcOf(c)
      BY <1>2, <2>1, RunAfter
    <2>3. (s - RunFirst(s)) % Rows = 0
      BY <1>3, <2>2
    <2> QED BY <2>1, <2>2, <2>3 DEF n, c, l
  <1> QED BY <1>4, <1>5

LEMMA ChunkStep == PermInv /\ RunInv /\ ChunkInv /\ [Next]_vars => ChunkInv'
  <1> SUFFICES ASSUME PermInv, RunInv, ChunkInv, [Next]_vars PROVE ChunkInv'
    OBVIOUS
  <1> USE BuildAssumption
  <1>0. Len(chunk) \in Nat /\ s \in 0 .. Pairs
    BY LenProperties DEF ChunkInv
  <1>1. ASSUME UNCHANGED <<s, chunk>>, phase' \in {"rank", "run"} => s = 0, phase' = "done" => s = Pairs,
               s = 0 \/ UNCHANGED <<ids, perm>>
        PROVE  ChunkInv'
    <2>1. CASE s = 0
      <3>1. Len(chunk) = 0
        BY <2>1 DEF ChunkInv
      <3> QED BY <1>1, <2>1, <3>1 DEF ChunkInv
    <2>2. CASE UNCHANGED <<ids, perm>>
      <3>1. \A i : RunFirst(i)' = RunFirst(i) /\ RunLast(i)' = RunLast(i) /\ SrcOf(i)' = SrcOf(i)
        BY <2>2 DEF RunFirst, RunLast, SameSrc, SrcOf
      <3>2. \A u : First(u)' = First(u) /\ Size(u)' = Size(u)
        BY <1>1 DEF First, Size
      <3>3. \A u \in 1 .. Len(chunk') : Cut(u)'
        BY <1>1, <3>1, <3>2 DEF ChunkInv, Cut
      <3>4. \A u \in 1 .. (Len(chunk') - 1) : Follows(u)'
        BY <1>1, <3>1, <3>2 DEF ChunkInv, Follows
      <3>5. s > 0 => /\ Len(chunk) > 0 /\ First(1)' = 0
                     /\ First(Len(chunk))' < s /\ s <= First(Len(chunk))' + Size(Len(chunk))'
        BY <1>1, <3>2 DEF ChunkInv, First, Size
      <3> QED BY <1>1, <3>3, <3>4, <3>5 DEF ChunkInv, First, Size
    <2> QED BY <1>1, <2>1, <2>2
  <1>2. CASE CutChunk
    <2>0. PICK n \in Nat : n = Len(chunk)
      BY <1>0
    <2> DEFINE off == s - runStart[s]
               len == IF Rows < runLen[s] - off THEN Rows ELSE runLen[s] - off
    <2>1. /\ phase = "chunk" /\ s \in Slots /\ s' = s + 1 /\ s \in Nat
          /\ UNCHANGED <<ids, phase, todo, perm, runStart, runLen>>
      BY <1>0, <1>2 DEF CutChunk, Slots
    <2>2. runStart[s] = RunFirst(s) /\ runLen[s] = RunLast(s) - RunFirst(s) + 1
      BY <2>1 DEF RunInv, Found
    <2>3. /\ RunFirst(s) \in 0 .. s /\ RunLast(s) \in s .. (Pairs - 1)
          /\ IsRun(RunFirst(s), RunLast(s), s)
      BY <2>1, RunEnds DEF IsRun
    <2>4. /\ off = s - RunFirst(s)
          /\ len = IF Rows < RunLast(s) - s + 1 THEN Rows ELSE RunLast(s) - s + 1
          /\ len \in 1 .. Pairs
          /\ s + len - 1 <= RunLast(s)
          /\ len = Rows \/ (len < Rows /\ s + len - 1 = RunLast(s))
      BY <2>1, <2>2, <2>3
    <2>5. chunk' = IF off % Rows = 0 THEN Append(chunk, <<s, len>>) ELSE chunk
      BY <1>2 DEF CutChunk
    <2> HIDE DEF off, len
    <2>6. \A i \in Slots : RunFirst(i)' = RunFirst(i) /\ RunLast(i)' = RunLast(i) /\ SrcOf(i)' = SrcOf(i)
      BY <2>1 DEF RunFirst, RunLast, SameSrc, SrcOf
    <2>7. \A u \in 1 .. n : First(u) \in Slots
      BY <2>0, ChunkFacts
    <2>8. CASE off % Rows = 0
      <3>1. <<s, len>> \in ChunkSet
        BY <2>1, <2>4 DEF ChunkSet
      <3>2. chunk' \in Seq(ChunkSet) /\ Len(chunk') = n + 1
            /\ (\A u \in 1 .. n : chunk'[u] = chunk[u])
            /\ chunk'[n + 1] = <<s, len>>
        BY <2>0, <2>5, <2>8, <3>1, AppendProperties DEF ChunkInv
      <3>3. /\ \A u \in 1 .. n : First(u)' = First(u) /\ Size(u)' = Size(u)
            /\ First(n + 1)' = s /\ Size(n + 1)' = len
        BY <3>2 DEF First, Size
      <3>4. \A u \in 1 .. n : Cut(u)'
        BY <2>0, <2>6, <2>7, <2>1, <3>3 DEF ChunkInv, Cut
      <3>5. Cut(n + 1)'
        BY <2>1, <2>4, <2>6, <2>8, <3>3 DEF Cut
      <3>6. \A u \in 1 .. (n - 1) : Follows(u)'
        <4> SUFFICES ASSUME NEW u \in 1 .. (n - 1) PROVE Follows(u)'
          OBVIOUS
        <4>1. u \in 1 .. n /\ u + 1 \in 1 .. n
          BY <1>0, <2>0
        <4>2. Follows(u)
          BY <2>0 DEF ChunkInv
        <4> QED BY <2>6, <2>7, <3>3, <4>1, <4>2 DEF Follows
      <3>7. n > 0 => Follows(n)'
        <4> SUFFICES ASSUME n > 0 PROVE Follows(n)'
          OBVIOUS
        <4>1. s > 0 /\ n \in 1 .. n
          BY <1>0, <2>0 DEF ChunkInv
        <4>2. s = First(n) + Size(n) /\ (SrcOf(First(n)) = SrcOf(s) => Size(n) = Rows)
          BY <2>1, <2>4, <2>0, <2>8, <4>1, NextSlot
        <4> QED BY <2>1, <2>6, <2>7, <3>3, <4>1, <4>2 DEF Follows
      <3>8. First(1)' = 0
        <4>1. CASE n = 0
          <5>1. s = 0
            BY <1>0, <2>0, <4>1 DEF ChunkInv
          <5> QED BY <3>3, <4>1, <5>1
        <4>2. CASE n > 0
          <5>1. s > 0 /\ 1 \in 1 .. n
            BY <1>0, <2>0, <4>2 DEF ChunkInv
          <5> QED BY <3>3, <5>1 DEF ChunkInv
        <4> QED BY <1>0, <2>0, <4>1, <4>2
      <3>9. First(n + 1)' < s' /\ s' <= First(n + 1)' + Size(n + 1)'
        BY <2>1, <2>4, <3>3
      <3>10. \A u \in 1 .. Len(chunk') : Cut(u)'
        BY <1>0, <2>0, <3>2, <3>4, <3>5
      <3>11. \A u \in 1 .. (Len(chunk') - 1) : Follows(u)'
        BY <1>0, <2>0, <3>2, <3>6, <3>7
      <3> QED BY <1>0, <2>0, <2>1, <3>2, <3>8, <3>9, <3>10, <3>11 DEF ChunkInv, Slots
    <2>9. CASE off % Rows # 0
      <3>1. s > 0
        <4> SUFFICES ASSUME s = 0 PROVE FALSE
          BY <2>1
        <4>1. off = 0
          BY <2>3, <2>4
        <4> QED BY <2>9, <4>1
      <3>2. n \in 1 .. n /\ s # First(n) + Size(n) /\ First(n) < s /\ s <= First(n) + Size(n)
            /\ First(1) = 0
        BY <1>0, <2>0, <2>1, <2>4, <2>9, <3>1, NextSlot DEF ChunkInv
      <3>3. First(n) \in Nat /\ Size(n) \in Nat
        BY <2>0, <3>2, ChunkFacts DEF Slots
      <3>4. chunk' = chunk
        BY <2>5, <2>9
      <3>5. \A u \in 1 .. n : Cut(u)'
        BY <2>0, <2>1, <2>6, <2>7, <3>4 DEF ChunkInv, Cut, First, Size
      <3>6. \A u \in 1 .. (n - 1) : Follows(u)'
        <4> SUFFICES ASSUME NEW u \in 1 .. (n - 1) PROVE Follows(u)'
          OBVIOUS
        <4>1. u \in 1 .. n /\ u + 1 \in 1 .. n
          BY <1>0, <2>0
        <4>2. Follows(u)
          BY <2>0 DEF ChunkInv
        <4>3. /\ First(u)' = First(u) /\ Size(u)' = Size(u) /\ First(u + 1)' = First(u + 1)
          BY <3>4 DEF First, Size
        <4> QED BY <2>6, <2>7, <4>1, <4>2, <4>3 DEF Follows
      <3>7. First(n)' < s' /\ s' <= First(n)' + Size(n)' /\ First(1)' = 0
        BY <2>1, <3>2, <3>3, <3>4 DEF First, Size
      <3> QED BY <1>0, <2>0, <2>1, <3>2, <3>4, <3>5, <3>6, <3>7 DEF ChunkInv, Slots
    <2> QED BY <2>8, <2>9
  <1>3. CASE Finish
    BY <1>1, <1>3 DEF Finish
  <1>4. CASE \E p \in Slots : RankPair(p) \/ FindRun(p)
    <2>1. UNCHANGED <<s, chunk, phase>> /\ phase \in {"rank", "run"}
      BY <1>4 DEF RankPair, FindRun
    <2> QED BY <1>1, <2>1 DEF ChunkInv
  <1>5. CASE RankBarrier \/ RunBarrier
    <2>1. UNCHANGED <<s, chunk, ids, perm>> /\ phase \in {"rank", "run"} /\ phase' \in {"run", "chunk"}
      BY <1>5 DEF RankBarrier, RunBarrier, Barrier
    <2> QED BY <1>1, <2>1 DEF ChunkInv
  <1>6. CASE UNCHANGED vars
    <2>1. UNCHANGED <<s, chunk, phase, ids, perm>>
      BY <1>6 DEF vars
    <2> QED BY <1>1, <2>1 DEF ChunkInv
  <1> QED BY <1>2, <1>3, <1>4, <1>5, <1>6 DEF Next

LEMMA BuildSafe == Spec => []BuildInv
  <1>1. Init => RunInv /\ ChunkInv
    <2> SUFFICES ASSUME Init PROVE RunInv /\ ChunkInv
      OBVIOUS
    <2>1. chunk = << >> /\ chunk \in Seq(ChunkSet) /\ Len(chunk) = 0
      BY EmptySeq DEF Init
    <2>2. ChunkInv
      BY <2>1, BuildAssumption DEF Init, ChunkInv
    <2>3. RunInv
      BY DEF Init, RunInv, Found
    <2> QED BY <2>2, <2>3
  <1>2. RunInv /\ ChunkInv /\ PermInv /\ [Next]_vars => (RunInv /\ ChunkInv)'
    BY RunStep, ChunkStep
  <1> QED BY <1>1, <1>2, PermSafe, PTL DEF Spec, BuildInv

\* For every routing and thread order, the build's state is well typed: no scan
\* leaves the slots, no chunk is empty.
THEOREM TypeCorrect == Spec => []TypeOK
  <1>1. BuildInv => TypeOK
    BY DEF BuildInv, PermInv, IdsOK, RunInv, ChunkInv, ChunkSet, TypeOK
  <1> QED BY <1>1, BuildSafe, PTL

\* For every routing and thread order, the chunks partition the sorted slots in
\* order, have one expert and at most Rows pairs, and only the last chunk of an
\* expert may be short.
THEOREM ChunksCorrect == Spec => []ChunksCut
  <1>1. BuildInv => ChunksCut
    <2> SUFFICES ASSUME BuildInv, phase = "done" PROVE ChunksCut
      BY DEF ChunksCut
    <2> USE BuildAssumption
    <2> DEFINE n == Len(chunk)
    <2>1. ChunkInv /\ s = Pairs /\ n \in Nat
      BY LenProperties DEF BuildInv, ChunkInv
    <2>2. n > 0 /\ First(1) = 0 /\ First(n) < Pairs /\ Pairs <= First(n) + Size(n) /\ n \in 1 .. n
      BY <2>1 DEF ChunkInv
    <2>3. First(n) + Size(n) - 1 = Pairs - 1
      <3>1. /\ First(n) \in Nat /\ Size(n) \in Nat /\ RunLast(First(n)) \in Int
            /\ First(n) + Size(n) - 1 <= RunLast(First(n)) /\ RunLast(First(n)) <= Pairs - 1
        BY <2>1, <2>2, ChunkFacts DEF IsRun, Slots
      <3> HIDE DEF n
      <3> QED BY <2>2, <3>1
    <2>4. ASSUME NEW u \in 1 .. n
          PROVE  Size(u) \in 1 .. Rows /\ SameSrc(First(u), First(u) + Size(u) - 1)
      <3>1. /\ Size(u) \in 1 .. Rows /\ First(u) \in Slots
            /\ First(u) + Size(u) - 1 \in First(u) .. RunLast(First(u))
            /\ IsRun(RunFirst(First(u)), RunLast(First(u)), First(u))
        BY <2>1, ChunkFacts
      <3>2. \A k \in First(u) .. (First(u) + Size(u) - 1) : k \in RunFirst(First(u)) .. RunLast(First(u))
        BY <3>1 DEF IsRun, Slots
      <3> QED BY <3>1, <3>2 DEF IsRun, SameSrc
    <2>5. ASSUME NEW u \in 1 .. n, u < n
          PROVE  /\ First(u + 1) = (First(u) + Size(u) - 1) + 1
                 /\ SrcOf(First(u)) = SrcOf(First(u + 1)) => Size(u) = Rows
      <3>1. u \in 1 .. (n - 1)
        BY <2>1, <2>5
      <3>2. Follows(u) /\ First(u) \in Nat /\ Size(u) \in Nat
        BY <2>1, <3>1, ChunkFacts DEF ChunkInv, Slots
      <3> QED BY <3>2 DEF Follows
    <2> QED BY <2>2, <2>3, <2>4, <2>5 DEF ChunksCut, First, Size
  <1> QED BY <1>1, BuildSafe, PTL
==============================================================================
