--------------------------- MODULE MhcOverlapProofs ---------------------------
(***************************************************************************)
(* Proofs about MhcOverlap and NcclTwin, for any number of forwards,       *)
(* sublayers and buffers: with graph mixing off, no eager collective is    *)
(* launched behind a replay that uses its communicator (NeverMixed); every *)
(* post and layer_input reads the coefficients it should, eagerly and in   *)
(* every replay (CoefficientsCorrect); captured graphs are whole           *)
(* (WholeGraphsCorrect).                                                   *)
(***************************************************************************)
EXTENDS MhcOverlap, SequenceTheorems, WellFoundedInduction, TLAPS

\* A sequence, whatever its elements are.
IsSeq(q) == q \in Seq({q[i] : i \in DOMAIN q})

\* Every collective of q is on the communicator cm.
CollsOn(q, cm) ==
    /\ IsSeq(q)
    /\ \A i \in 1 .. Len(q) : q[i].op = "coll" => q[i].comm = cm

\* Once installed, an unhooked process has mixing on; a tensor-parallel group
\* that was made with mixing off has its twin.
TwinInv ==
    /\ comm \in [Groups -> {"unbuilt", "stock", "guard", "twin"}]
    /\ mixed \in [Groups -> BOOLEAN] /\ mixing \in BOOLEAN
    /\ pc = "install" => lever \in BOOLEAN /\ (lever => mixing) /\ hooked = FALSE
    /\ pc # "install" => hooked \/ mixing
    /\ comm["tp"] = "unbuilt" \/ comm["tp"] = "twin" \/ mixed["tp"]
    /\ comm["tp"] = "unbuilt" => pc \in {"install", "groups", "dead"}

\* Nothing is launched before the groups are built.
ColdInv ==
    /\ pc \in {"install", "groups"} => str = Empty /\ cap = Empty /\ graph = Nothing
    /\ comm["tp"] = "unbuilt" => graph = Nothing

TwoStreams(q) == q = [main |-> q.main, side |-> q.side]

\* Eager calls and captured calls each have their communicator.
RouteInv ==
    /\ TwoStreams(str) /\ TwoStreams(cap)
    /\ CollsOn(str.main, Pick("tp", FALSE))
    /\ CollsOn(cap.main, Pick("tp", TRUE))
    /\ graph # Nothing => CollsOn(graph.main, Pick("tp", TRUE))

\* A replay leaves the main stream only when the device is through with it.
RunInv == run # Nothing => str.main # << >> /\ str.main[1].op = "replay"

RInv == TwinInv /\ ColdInv /\ RouteInv /\ RunInv

------------------------------------------------------------------------------
(* Sequences.                                                               *)

LEMMA SeqIsSeq ==
  ASSUME NEW S, NEW q \in Seq(S)
  PROVE  IsSeq(q) /\ Len(q) \in Nat /\ DOMAIN q = 1 .. Len(q)
  <1>1. Len(q) \in Nat /\ q \in [1 .. Len(q) -> S] /\ DOMAIN q = 1 .. Len(q)
      BY LenProperties
  <1>2. q \in [1 .. Len(q) -> {q[i] : i \in DOMAIN q}]
      BY <1>1
  <1> QED
      BY <1>1, <1>2 DEF IsSeq

LEMMA CatColls ==
  ASSUME NEW p, NEW q, NEW cm, CollsOn(p, cm), CollsOn(q, cm)
  PROVE  /\ CollsOn(p \o q, cm)
         /\ p # << >> => p \o q # << >> /\ (p \o q)[1] = p[1]
  <1> DEFINE S == {p[i] : i \in DOMAIN p} \cup {q[i] : i \in DOMAIN q}
  <1>1. p \in Seq(S) /\ q \in Seq(S)
      BY SeqMonotonic DEF CollsOn, IsSeq
  <1> HIDE DEF S
  <1>2. /\ p \o q \in Seq(S)
        /\ Len(p \o q) = Len(p) + Len(q)
        /\ \A i \in 1 .. Len(p) + Len(q) :
              (p \o q)[i] = IF i <= Len(p) THEN p[i] ELSE q[i - Len(p)]
      BY <1>1, ConcatProperties
  <1>3. Len(p) \in Nat /\ Len(q) \in Nat
      BY <1>1, LenProperties
  <1>4. IsSeq(p \o q)
      BY <1>2, SeqIsSeq
  <1>5. ASSUME NEW i \in 1 .. Len(p \o q), (p \o q)[i].op = "coll"
        PROVE  (p \o q)[i].comm = cm
      <2>1. CASE i <= Len(p)
          BY <1>2, <1>3, <1>5, <2>1 DEF CollsOn
      <2>2. CASE ~(i <= Len(p))
          <3>1. i - Len(p) \in 1 .. Len(q)
              BY <1>2, <1>3, <2>2
          <3> QED
              BY <1>2, <1>3, <1>5, <2>2, <3>1 DEF CollsOn
      <2> QED
          BY <2>1, <2>2
  <1>6. p # << >> => p \o q # << >> /\ (p \o q)[1] = p[1]
      <2>1. p # << >> => Len(p) >= 1
          BY <1>1, <1>3, EmptySeq
      <2>2. p \o q = << >> => Len(p) + Len(q) = 0
          BY <1>2, EmptySeq
      <2> QED
          BY <1>2, <1>3, <2>1, <2>2
  <1> QED
      BY <1>4, <1>5, <1>6 DEF CollsOn

LEMMA TailColls ==
  ASSUME NEW q, NEW cm, CollsOn(q, cm), q # << >>
  PROVE  CollsOn(Tail(q), cm)
  <1> DEFINE S == {q[i] : i \in DOMAIN q}
  <1>1. q \in Seq(S)
      BY DEF CollsOn, IsSeq
  <1> HIDE DEF S
  <1>2. /\ Tail(q) \in Seq(S)
        /\ Len(Tail(q)) = Len(q) - 1
        /\ \A i \in 1 .. Len(Tail(q)) : Tail(q)[i] = q[i + 1]
      BY <1>1, HeadTailProperties
  <1>3. Len(q) \in Nat
      BY <1>1, LenProperties
  <1>4. IsSeq(Tail(q))
      BY <1>2, SeqIsSeq
  <1> QED
      BY <1>2, <1>3, <1>4 DEF CollsOn

\* The sequences the actions launch, one or two operations at a time.
LEMMA ShortColls ==
  ASSUME NEW a, NEW b, NEW cm,
         a.op = "coll" => a.comm = cm,
         b.op = "coll" => b.comm = cm
  PROVE  CollsOn(<<a>>, cm) /\ CollsOn(<<a, b>>, cm)
  <1>1. <<a>> \in Seq({a}) /\ <<a, b>> \in Seq({a, b})
      OBVIOUS
  <1>2. IsSeq(<<a>>) /\ IsSeq(<<a, b>>)
      BY <1>1, SeqIsSeq
  <1> QED
      BY <1>2 DEF CollsOn

LEMMA NoColls ==
  ASSUME NEW cm
  PROVE  CollsOn(<< >>, cm)
  <1>1. << >> \in Seq({}) /\ Len(<< >>) = 0
      BY EmptySeq
  <1>2. IsSeq(<< >>)
      BY <1>1, SeqIsSeq
  <1> QED
      BY <1>1, <1>2 DEF CollsOn

\* What settle launches on the main stream holds no collective.
LEMMA SettleColls ==
  ASSUME NEW cm
  PROVE  CollsOn(SettleMain, cm)
  <1>1. CASE pending = Nothing
      BY <1>1, NoColls DEF SettleMain
  <1>2. CASE pending # Nothing /\ pending.forked
      <2> DEFINE a == Await(<<"join", pending.at>>)
      <2>1. a.op # "coll"
          BY DEF Await
      <2> HIDE DEF a
      <2>2. CollsOn(<<a>>, cm)
          BY <2>1, ShortColls
      <2> QED
          BY <1>2, <2>2 DEF SettleMain, a
  <1>3. CASE pending # Nothing /\ ~pending.forked
      <2>1. CollsOn(Deferred(pending), cm)
          <3> DEFINE a == Gemm(pending.at, pending.scratch)
                     b == Coef(pending.at, pending.scratch, pending.coef)
          <3>1. a.op # "coll" /\ b.op # "coll"
              BY DEF Gemm, Coef
          <3> HIDE DEF a, b
          <3>2. CollsOn(<<a, b>>, cm)
              BY <3>1, ShortColls
          <3> QED
              BY <3>2 DEF a, b, Deferred
      <2> QED
          BY <1>3, <2>1 DEF SettleMain
  <1> QED
      BY <1>1, <1>2, <1>3

LEMMA AppendColls ==
  ASSUME NEW q, NEW a, NEW cm, CollsOn(q, cm), a.op = "coll" => a.comm = cm
  PROVE  /\ CollsOn(Append(q, a), cm)
         /\ q # << >> => Append(q, a) # << >> /\ Append(q, a)[1] = q[1]
  <1> DEFINE S == {q[i] : i \in DOMAIN q} \cup {a}
  <1>1. q \in Seq(S) /\ a \in S
      BY SeqMonotonic DEF CollsOn, IsSeq
  <1> HIDE DEF S
  <1>2. /\ Append(q, a) \in Seq(S)
        /\ Len(q) \in Nat /\ Len(Append(q, a)) = Len(q) + 1
        /\ Append(q, a)[Len(q) + 1] = a
        /\ \A i \in 1 .. Len(q) : Append(q, a)[i] = q[i]
      BY <1>1
  <1>3. IsSeq(Append(q, a))
      BY <1>2, SeqIsSeq
  <1>4. q # << >> => Append(q, a) # << >> /\ Append(q, a)[1] = q[1]
      <2>1. q # << >> => Len(q) >= 1
          BY <1>1, <1>2, EmptySeq
      <2>2. Append(q, a) = << >> => Len(q) + 1 = 0
          BY <1>2, EmptySeq
      <2> QED
          BY <1>2, <2>1, <2>2
  <1> QED
      BY <1>2, <1>3, <1>4 DEF CollsOn

------------------------------------------------------------------------------
(* The steps.                                                               *)

LEMMA InitRoute == Init => RInv
  <1> SUFFICES ASSUME Init PROVE RInv
      OBVIOUS
  <1>1. TwinInv
      <2>1. mixed \in [Groups -> BOOLEAN] /\ mixing \in BOOLEAN
          BY DEF Init, TwinInit
      <2>2. comm \in [Groups -> {"unbuilt", "stock", "guard", "twin"}] /\ comm["tp"] = "unbuilt"
          BY DEF Init, TwinInit, Groups
      <2>3. lever \in BOOLEAN /\ (lever => mixing) /\ hooked = FALSE /\ pc = "install"
          BY Zenon DEF Init, TwinInit
      <2> QED
          BY <2>1, <2>2, <2>3 DEF TwinInv
  <1>2. str = Empty /\ cap = Empty /\ graph = Nothing
      BY DEF Init
  <1>3. RouteInv
      BY <1>2, NoColls DEF RouteInv, TwoStreams, Empty
  <1>4. RunInv
      BY DEF Init, RunInv
  <1> QED
      BY <1>1, <1>2, <1>3, <1>4 DEF RInv, ColdInv

\* A launch keeps to the communicators if its sequence does.
LEMMA LaunchRoute ==
  ASSUME RouteInv, RunInv, NEW m, NEW s, Launch(m, s),
         capturing => CollsOn(m, Pick("tp", TRUE)),
         ~capturing => CollsOn(m, Pick("tp", FALSE)),
         UNCHANGED <<comm, graph, run>>
  PROVE  RouteInv' /\ RunInv'
  <1>0. Pick("tp", FALSE)' = Pick("tp", FALSE) /\ Pick("tp", TRUE)' = Pick("tp", TRUE)
      BY DEF Pick
  <1>1. CASE capturing
      <2>1. /\ UNCHANGED str
            /\ cap' = [main |-> cap.main \o m, side |-> cap.side \o s]
          BY <1>1 DEF Launch
      <2>2. CollsOn(cap.main \o m, Pick("tp", TRUE))
          BY <1>1, CatColls DEF RouteInv
      <2> QED
          BY <1>0, <2>1, <2>2 DEF RouteInv, TwoStreams, RunInv
  <1>2. CASE ~capturing
      <2>1. /\ UNCHANGED cap
            /\ str' = [main |-> str.main \o m, side |-> str.side \o s]
          BY <1>2 DEF Launch
      <2>2. CollsOn(str.main \o m, Pick("tp", FALSE))
          BY <1>2, CatColls DEF RouteInv
      <2>3. run # Nothing => str.main \o m # << >> /\ (str.main \o m)[1] = str.main[1]
          BY <1>2, CatColls DEF RouteInv, RunInv
      <2> QED
          BY <1>0, <2>1, <2>2, <2>3 DEF RouteInv, TwoStreams, RunInv
  <1> QED
      BY <1>1, <1>2

LEMMA BootStep ==
  ASSUME RInv, Install \/ (\E g \in Groups : Build(g))
  PROVE  RInv'
  <1>0. TwinInv /\ ColdInv /\ RouteInv
      BY DEF RInv
  <1>1. UNCHANGED <<str, cap, graph>>
      BY DEF Install, Build, devVars
  <1>2. str = Empty /\ cap = Empty /\ graph = Nothing
      BY <1>0 DEF ColdInv, Install, Build
  <1>3. RouteInv'
      BY <1>1, <1>2, NoColls DEF RouteInv, TwoStreams, Empty
  <1>4. ColdInv' /\ RunInv'
      <2>1. UNCHANGED run
          BY DEF Install, Build, devVars
      <2> QED
          BY <1>1, <1>2, <2>1 DEF ColdInv, RunInv, RInv
  <1>5. CASE Install
      <2>1. UNCHANGED <<comm, mixed>> /\ pc' = "groups"
          BY <1>5 DEF Install, InstallTwin
      <2>2. mixing' \in BOOLEAN /\ (hooked' \/ mixing')
          BY <1>0, <1>5, Zenon DEF Install, InstallTwin, TwinInv
      <2>3. TwinInv'
          BY <1>0, <2>1, <2>2 DEF TwinInv
      <2> QED
          BY <1>3, <1>4, <2>3 DEF RInv
  <1>6. CASE \E g \in Groups : Build(g)
      <2>1. PICK g \in Groups : Build(g)
          BY <1>6
      <2>2. pc # "install" /\ pc' # "install" /\ UNCHANGED <<hooked, mixing>>
          BY <2>1 DEF Build, BuildGroup
      <2>3. mixed' = [mixed EXCEPT ![g] = mixing]
          BY <2>1 DEF Build, BuildGroup
      <2>4. comm' = [comm EXCEPT ![g] = IF ~hooked THEN "stock"
                                        ELSE IF g = "tp" THEN "twin" ELSE "guard"]
          BY <2>1 DEF Build, BuildGroup
      <2>5. comm' \in [Groups -> {"unbuilt", "stock", "guard", "twin"}]
          BY <1>0, <2>4 DEF TwinInv
      <2>6. mixed' \in [Groups -> BOOLEAN] /\ (hooked \/ mixing)
          BY <1>0, <2>2, <2>3 DEF TwinInv
      <2>7. comm'["tp"] = "unbuilt" \/ comm'["tp"] = "twin" \/ mixed'["tp"]
          <3>1. CASE g # "tp"
              BY <1>0, <2>3, <2>4, <3>1 DEF TwinInv, Groups
          <3>2. CASE g = "tp" /\ hooked
              BY <1>0, <2>4, <3>2 DEF TwinInv
          <3>3. CASE g = "tp" /\ ~hooked
              <4>1. mixed'["tp"] = mixing
                  BY <1>0, <2>3, <3>3 DEF TwinInv, Groups
              <4> QED
                  BY <2>6, <3>3, <4>1
          <3> QED
              BY <3>1, <3>2, <3>3
      <2>8. comm'["tp"] = "unbuilt" => pc' = "groups"
          <3>1. comm'["tp"] = "unbuilt" => g # "tp" /\ comm["tp"] = "unbuilt"
              BY <1>0, <2>4 DEF TwinInv, Groups
          <3>2. pc = "groups"
                /\ pc' = IF \A h \in Groups \ {g} : comm[h] # "unbuilt" THEN "load" ELSE pc
              BY <2>1 DEF Build
          <3> QED
              BY <3>1, <3>2 DEF Groups
      <2> QED
          BY <1>0, <1>3, <1>4, <2>2, <2>5, <2>6, <2>7, <2>8 DEF RInv, TwinInv
  <1> QED
      BY <1>5, <1>6

\* The actions after the boot that launch nothing.
Idle ==
    \/ \E g \in Groups : RefuseGroup(g) \/ AllReduceRaises(g)
    \/ \E b \in BOOLEAN : Prepare(b)
    \/ Crossed /\ pc \in {"pre", "post"}
    \/ ReplayStarts
    \/ \E s \in {"main", "side"} : RunNode(s)

LEMMA IdleStep ==
  ASSUME RInv, Idle
  PROVE  RInv'
  <1>1. UNCHANGED <<twinVars, str, cap, graph>>
      BY DEF Idle, RefuseGroup, BuildRefused, AllReduceRaises, Prepare, Crossed, ReplayStarts,
         RunNode, devVars
  <1>2. \/ pc' = pc
        \/ pc # "install" /\ pc' = "dead"
        \/ pc = "load" /\ pc' = "idle"
      BY DEF Idle, RefuseGroup, AllReduceRaises, Prepare, Crossed, ReplayStarts, RunNode,
         hostVars
  <1>3. TwinInv'
      BY <1>1, <1>2 DEF RInv, TwinInv, twinVars
  <1>4. ColdInv'
      BY <1>1, <1>2 DEF RInv, ColdInv, twinVars
  <1>5. RouteInv'
      BY <1>1 DEF RInv, RouteInv, TwoStreams, Pick, twinVars
  <1>6. RunInv'
      <2>1. CASE ReplayStarts
          <3>1. IsSeq(str.main) /\ str.main # << >> /\ Head(str.main).op = "replay"
              BY <2>1 DEF ReplayStarts, RInv, RouteInv, CollsOn
          <3>2. Head(str.main) = str.main[1]
              BY <3>1 DEF IsSeq
          <3> QED
              BY <1>1, <3>1, <3>2 DEF RunInv
      <2>2. CASE ~ReplayStarts
          <3>1. UNCHANGED run \/ run # Nothing
              BY <2>2 DEF Idle, RefuseGroup, AllReduceRaises, Prepare, Crossed, RunNode, devVars
          <3> QED
              BY <1>1, <3>1 DEF RInv, RunInv
      <2> QED
          BY <2>1, <2>2
  <1> QED
      BY <1>3, <1>4, <1>5, <1>6 DEF RInv

\* The host's steps of a forward that launch something, and the eager streams'.
Working ==
    \/ \E m \in {"eager", "large", "capture", "replay"} : Begin(m)
    \/ pc = "pre" /\ PreRuns
    \/ \E b \in BOOLEAN : AllReduce(b)
    \/ pc = "post" /\ PostRuns
    \/ End
    \/ \E s \in {"main", "side"} : RunEager(s)
    \/ ReplayEnds

LEMMA WorkingRoute ==
  ASSUME RInv, Working
  PROVE  RouteInv' /\ RunInv'
  <1>0. RouteInv /\ RunInv /\ UNCHANGED comm
      BY DEF RInv, Working, Begin, PreRuns, AllReduce, PostRuns, End, RunEager, ReplayEnds,
         twinVars
  <1>p. Pick("tp", FALSE)' = Pick("tp", FALSE) /\ Pick("tp", TRUE)' = Pick("tp", TRUE)
      BY <1>0 DEF Pick
  <1>m. ASSUME UNCHANGED <<cap, graph>>, NEW q, CollsOn(q, Pick("tp", FALSE)),
               str' = [str EXCEPT !.main = q],
               run' # Nothing => run' = run /\ q # << >> /\ q[1] = str.main[1]
        PROVE  RouteInv' /\ RunInv'
      <2>1. str' = [main |-> q, side |-> str.side]
          BY <1>0, <1>m DEF RouteInv, TwoStreams
      <2> QED
          BY <1>0, <1>p, <1>m, <2>1 DEF RouteInv, TwoStreams, RunInv
  <1>1. ASSUME NEW m \in {"eager", "large", "capture", "replay"}, Begin(m)
        PROVE  RouteInv' /\ RunInv'
      <2> DEFINE c == Coll(Pick("tp", FALSE), NoBuf)
                 r == [op |-> "replay", at |-> [fwd |-> fwd + 1, sub |-> 0]]
                 tail == IF m = "replay" THEN <<r>> ELSE << >>
      <2>1. c.comm = Pick("tp", FALSE) /\ r.op # "coll"
          BY DEF Coll
      <2>2. /\ str' = [str EXCEPT !.main = str.main \o <<c>> \o tail]
            /\ UNCHANGED <<cap, graph, run>>
          BY <1>1 DEF Begin
      <2> HIDE DEF c, r
      <2>3. CollsOn(<<c>>, Pick("tp", FALSE)) /\ CollsOn(<<r>>, Pick("tp", FALSE))
          BY <2>1, ShortColls
      <2>4. CollsOn(tail, Pick("tp", FALSE))
          BY <2>3, NoColls
      <2> HIDE DEF tail
      <2>5. CollsOn(str.main \o <<c>> \o tail, Pick("tp", FALSE))
          BY <1>0, <2>3, <2>4, CatColls DEF RouteInv
      <2>6. run # Nothing => /\ str.main \o <<c>> \o tail # << >>
                             /\ (str.main \o <<c>> \o tail)[1] = str.main[1]
          BY <1>0, <2>3, <2>4, CatColls DEF RouteInv, RunInv
      <2> QED
          BY <1>m, <2>2, <2>5, <2>6
  <1>2. ASSUME PreRuns PROVE RouteInv' /\ RunInv'
      <2>1. PICK a, b, c, defers :
              Launch(SettleMain \o <<Input(Here, c)>> \o
                       (IF defers THEN << >> ELSE <<Gemm(Here, a), Coef(Here, a, b)>>),
                     SettleSide)
          BY <1>2 DEF PreRuns
      <2> DEFINE i == Input(Here, c)
                 g == Gemm(Here, a)
                 k == Coef(Here, a, b)
                 rest == IF defers THEN << >> ELSE <<g, k>>
                 all == SettleMain \o <<i>> \o rest
      <2>2. i.op # "coll" /\ g.op # "coll" /\ k.op # "coll"
          BY DEF Input, Gemm, Coef
      <2>3. Launch(all, SettleSide)
          BY <2>1
      <2> HIDE DEF i, g, k
      <2>4. ASSUME NEW cm PROVE CollsOn(all, cm)
          <3>1. CollsOn(<<i>>, cm) /\ CollsOn(<<g, k>>, cm)
              BY <2>2, ShortColls
          <3>2. CollsOn(rest, cm)
              BY <3>1, NoColls
          <3>3. CollsOn(SettleMain, cm)
              BY SettleColls
          <3> HIDE DEF rest
          <3> QED
              BY <3>1, <3>2, <3>3, CatColls
      <2>5. UNCHANGED <<graph, run>>
          BY <1>2 DEF PreRuns
      <2> HIDE DEF all
      <2> QED
          BY <1>0, <2>3, <2>4, <2>5, LaunchRoute
  <1>3. ASSUME NEW here \in BOOLEAN, AllReduce(here) PROVE RouteInv' /\ RunInv'
      <2>1. PICK o : IF CanFork(here)
                     THEN Launch(<<Record(<<"fork", pending.at>>),
                                   Coll(Pick("tp", capturing), o)>>, ForkSide(pending))
                     ELSE Launch(<<Coll(Pick("tp", capturing), o)>>, << >>)
          BY <1>3 DEF AllReduce
      <2> DEFINE c == Coll(Pick("tp", capturing), o)
                 r == Record(<<"fork", pending.at>>)
      <2>2. c.comm = Pick("tp", capturing) /\ r.op # "coll"
          BY DEF Coll, Record
      <2>3. Launch(<<r, c>>, ForkSide(pending)) \/ Launch(<<c>>, << >>)
          BY <2>1
      <2> HIDE DEF c, r
      <2>4. /\ CollsOn(<<c>>, Pick("tp", capturing))
            /\ CollsOn(<<r, c>>, Pick("tp", capturing))
          BY <2>2, ShortColls
      <2>5. /\ capturing => Pick("tp", capturing) = Pick("tp", TRUE)
            /\ ~capturing => Pick("tp", capturing) = Pick("tp", FALSE)
          BY DEF Pick
      <2>6. UNCHANGED <<graph, run>>
          BY <1>3 DEF AllReduce
      <2> QED
          BY <1>0, <2>3, <2>4, <2>5, <2>6, LaunchRoute
  <1>4. ASSUME PostRuns PROVE RouteInv' /\ RunInv'
      <2> DEFINE p == Post(Here, local.coef, local.out)
      <2>1. p.op # "coll"
          BY DEF Post
      <2>2. Launch(SettleMain \o <<p>>, SettleSide) /\ UNCHANGED <<graph, run>>
          BY <1>4 DEF PostRuns
      <2> HIDE DEF p
      <2>3. ASSUME NEW cm PROVE CollsOn(SettleMain \o <<p>>, cm)
          BY <2>1, ShortColls, SettleColls, CatColls
      <2> QED
          BY <1>0, <2>2, <2>3, LaunchRoute
  <1>5. ASSUME End PROVE RouteInv' /\ RunInv'
      <2> DEFINE c == Coll(Pick("tp", FALSE), NoBuf)
      <2>1. c.comm = Pick("tp", FALSE)
          BY DEF Coll
      <2>2. str' = [str EXCEPT !.main = Append(str.main, c)]
          BY <1>5 DEF End
      <2> HIDE DEF c
      <2>3. CollsOn(Append(str.main, c), Pick("tp", FALSE))
          BY <1>0, <2>1, AppendColls DEF RouteInv
      <2>4. str' = [main |-> Append(str.main, c), side |-> str.side]
          BY <1>0, <2>2 DEF RouteInv, TwoStreams
      <2>5. (graph' = cap /\ cap' = Empty) \/ UNCHANGED <<graph, cap>>
          BY <1>5 DEF End
      <2>6. TwoStreams(str)' /\ str'.main = Append(str.main, c)
          BY <2>4 DEF TwoStreams
      <2>7. TwoStreams(cap)' /\ CollsOn(cap'.main, Pick("tp", TRUE))
          <3>1. CASE cap' = Empty
              <4>1. TwoStreams(cap)' /\ cap'.main = << >>
                  BY <3>1 DEF TwoStreams, Empty
              <4>2. CollsOn(<< >>, Pick("tp", TRUE))
                  BY NoColls
              <4> QED
                  BY <4>1, <4>2
          <3>2. CASE UNCHANGED cap
              BY <1>0, <3>2 DEF RouteInv, TwoStreams
          <3> QED
              BY <2>5, <3>1, <3>2
      <2>8. graph' # Nothing => CollsOn(graph'.main, Pick("tp", TRUE))
          BY <1>0, <2>5 DEF RouteInv
      <2>9. UNCHANGED run /\ (run # Nothing => Append(str.main, c) # << >>
                                    /\ Append(str.main, c)[1] = str.main[1])
          BY <1>0, <1>5, <2>1, AppendColls DEF RouteInv, RunInv, End
      <2> QED
          BY <1>0, <1>p, <2>3, <2>6, <2>7, <2>8, <2>9 DEF RouteInv, RunInv
  <1>6. ASSUME NEW s \in {"main", "side"}, RunEager(s) PROVE RouteInv' /\ RunInv'
      <2>1. /\ str' = [str EXCEPT ![s] = Tail(str[s])] /\ str[s] # << >>
            /\ UNCHANGED <<cap, graph, run>> /\ Head(str[s]).op # "replay"
          BY <1>6 DEF RunEager
      <2>2. CASE s = "main"
          <3>1. CollsOn(Tail(str.main), Pick("tp", FALSE))
              BY <1>0, <2>1, <2>2, TailColls DEF RouteInv
          <3>2. str' = [str EXCEPT !.main = Tail(str.main)]
              BY <2>1, <2>2
          <3>3. str.main # << >> => Head(str.main) = str.main[1]
              BY <1>0 DEF RouteInv, CollsOn, IsSeq
          <3>4. run = Nothing
              BY <1>0, <2>1, <2>2, <3>3 DEF RunInv
          <3> QED
              BY <1>m, <2>1, <3>1, <3>2, <3>4
      <2>3. CASE s = "side"
          <3>1. str' = [main |-> str.main, side |-> Tail(str.side)]
              BY <1>0, <2>1, <2>3 DEF RouteInv, TwoStreams
          <3>2. TwoStreams(str)' /\ str'.main = str.main
              BY <3>1 DEF TwoStreams
          <3>3. TwoStreams(cap)'
              BY <1>0, <2>1 DEF RouteInv, TwoStreams
          <3> QED
              BY <1>0, <1>p, <2>1, <3>2, <3>3 DEF RouteInv, RunInv
      <2> QED
          BY <2>2, <2>3
  <1>7. ASSUME ReplayEnds PROVE RouteInv' /\ RunInv'
      <2>1. /\ str' = [str EXCEPT !.main = Tail(str.main)] /\ run' = Nothing
            /\ UNCHANGED <<cap, graph>>
          BY <1>7 DEF ReplayEnds
      <2>2. run # Nothing
          BY <1>7 DEF ReplayEnds, Empty, Nothing
      <2>3. CollsOn(Tail(str.main), Pick("tp", FALSE))
          BY <1>0, <2>2, TailColls DEF RouteInv, RInv, RunInv
      <2> QED
          BY <1>m, <2>1, <2>3
  <1> QED
      BY <1>1, <1>2, <1>3, <1>4, <1>5, <1>6, <1>7 DEF Working

LEMMA WorkingStep ==
  ASSUME RInv, Working
  PROVE  RInv'
  <1>0. TwinInv /\ ColdInv /\ RouteInv /\ RunInv
      BY DEF RInv
  <1>1. UNCHANGED twinVars
      BY DEF Working, Begin, PreRuns, AllReduce, PostRuns, End, RunEager, ReplayEnds
  <1> DEFINE Up   == pc' \notin {"install", "groups"} /\ pc \notin {"install", "groups", "dead"}
             Busy == UNCHANGED <<pc, cap, graph>> /\ str # Empty
  <1>2. Up \/ Busy
      <2>1. ASSUME NEW m \in {"eager", "large", "capture", "replay"}, Begin(m) PROVE Up
          <3>1. pc = "idle" /\ pc' \in {"pre", "end"}
              BY <2>1 DEF Begin
          <3> QED
              BY <3>1
      <2>2. CASE pc = "pre" /\ PreRuns
          BY <2>2 DEF PreRuns
      <2>3. CASE pc = "post" /\ PostRuns
          <3>1. pc' \in {"pre", "end"}
              BY <2>3 DEF PostRuns
          <3> QED
              BY <2>3, <3>1
      <2>4. ASSUME NEW b \in BOOLEAN, AllReduce(b) PROVE Up
          <3>1. pc = "post" /\ pc' = "post"
              BY <2>4 DEF AllReduce
          <3> QED
              BY <3>1
      <2>5. CASE End
          BY <2>5 DEF End
      <2>6. ASSUME NEW s \in {"main", "side"}, RunEager(s) PROVE Busy
          BY <2>6 DEF RunEager, hostVars, Empty
      <2>7. CASE ReplayEnds
          <3>1. run # Nothing
              BY <2>7 DEF ReplayEnds, Empty, Nothing
          <3>2. str.main # << >>
              BY <1>0, <3>1 DEF RunInv
          <3> QED
              BY <2>7, <3>2 DEF ReplayEnds, hostVars, Empty
      <2> HIDE DEF Up, Busy
      <2> QED
          BY <2>1, <2>2, <2>3, <2>4, <2>5, <2>6, <2>7 DEF Working
  <1>3. TwinInv'
      BY <1>0, <1>1, <1>2 DEF TwinInv, ColdInv, twinVars
  <1>4. ColdInv'
      BY <1>0, <1>1, <1>2 DEF ColdInv, TwinInv, twinVars
  <1> QED
      BY <1>3, <1>4, WorkingRoute DEF RInv

\* The invariant is inductive.
THEOREM RoutesKept == Spec => []RInv
  <1>1. RInv /\ [Next]_vars => RInv'
    <2> SUFFICES ASSUME RInv, [Next]_vars PROVE RInv'
        OBVIOUS
    <2>1. CASE Install \/ (\E g \in Groups : Build(g))
        BY <2>1, BootStep
    <2>2. CASE Idle
        BY <2>2, IdleStep
    <2>3. CASE Working
        BY <2>3, WorkingStep
    <2>4. CASE Finished \/ UNCHANGED vars
        BY <2>4 DEF Finished, vars, twinVars, hostVars, devVars, RInv, TwinInv, ColdInv,
           RouteInv, RunInv, TwoStreams, Pick
    <2>5. Pre \/ PostLayer => Idle \/ Working
        BY DEF Pre, PostLayer, Idle, Working
    <2> QED
        BY <2>1, <2>2, <2>3, <2>4, <2>5 DEF Next, Idle, Working
  <1> QED
      BY <1>1, InitRoute, PTL DEF Spec

\* However many forwards, captures and replays a rank runs, and whatever the
\* installation came to: with mixing off no eager collective is launched while
\* a replay that uses its communicator is outstanding.
THEOREM NeverMixed == Spec => []NoMixedLaunch
  <1>1. RInv => NoMixedLaunch
    <2> SUFFICES ASSUME RInv, NEW i \in DOMAIN str.main, NEW j \in DOMAIN str.main,
                        str.main[j].op = "coll", str.main[j].comm \in GraphComms
                 PROVE  mixed[str.main[j].comm[1]]
        BY DEF NoMixedLaunch
    <2>1. TwinInv /\ ColdInv /\ RouteInv
        BY DEF RInv
    <2>2. DOMAIN str.main = 1 .. Len(str.main)
        BY <2>1, LenProperties DEF RouteInv, CollsOn, IsSeq
    <2>3. str.main[j].comm = Pick("tp", FALSE)
        BY <2>1, <2>2 DEF RouteInv, CollsOn
    <2>4. graph # Nothing
        BY DEF GraphComms
    <2>5. \A x \in ToSet(graph.main) : x.op = "coll" => x.comm = Pick("tp", TRUE)
        <3>1. CollsOn(graph.main, Pick("tp", TRUE))
            BY <2>1, <2>4 DEF RouteInv
        <3>2. DOMAIN graph.main = 1 .. Len(graph.main)
            BY <3>1, LenProperties DEF CollsOn, IsSeq
        <3> QED
            BY <3>1, <3>2 DEF ToSet, CollsOn
    <2>6. str.main[j].comm = Pick("tp", TRUE)
        BY <2>4, <2>5 DEF GraphComms
    <2>7. comm["tp"] # "twin" /\ str.main[j].comm[1] = "tp"
        BY <2>3, <2>6 DEF Pick
    <2>8. comm["tp"] # "unbuilt"
        BY <2>1, <2>4 DEF ColdInv
    <2> QED
        BY <2>1, <2>7, <2>8 DEF TwinInv
  <1> QED
      BY <1>1, RoutesKept, PTL

------------------------------------------------------------------------------
(* The order in which the operations of two streams run, and what a read of a *)
(* buffer finds: Before is what the events and the streams' own order force.  *)
Lanes == {"main", "side"}

\* Two sequences of operations.
Streamed(q) ==
    /\ q = [t \in Lanes |-> q[t]]
    /\ \A t \in Lanes : IsSeq(q[t])

\* The operation at place i of stream s runs before the one at place j of
\* stream t: it is ahead of it in its stream, or a record at or behind it is
\* awaited at or ahead of the other.
Before(q, s, i, t, j) ==
    IF s = t THEN i < j
    ELSE \E l \in i .. Len(q[s]), h \in 1 .. Len(q[t]) :
            h <= j /\ q[t][h].op = "await" /\ q[s][l] = Record(q[t][h].ev)

Writes(it, b) == it.op \in {"gemm", "coef", "coll"} /\ it.to = b
Reads(it) == it.op \in {"coef", "post"} \/ (it.op = "input" /\ it.from # NoBuf)

\* What a read is to find, and the operation that leaves it.
Tag(it)   == <<it.at.fwd, it.at.sub>>
Wants(it) == <<it.at.fwd, IF it.op = "input" THEN it.at.sub - 1 ELSE it.at.sub>>
Maker(it) == IF it.op = "coef" THEN "gemm" ELSE "coef"

\* The operation at place j of stream t is one of kind k that leaves v in b.
Makes(q, t, j, b, v, k) == q[t][j].op = k /\ q[t][j].to = b /\ Tag(q[t][j]) = v

\* One is still to run before place i of stream s.
Made(q, s, i, b, v, k) ==
    \E t \in Lanes : \E j \in 1 .. Len(q[t]) : Makes(q, t, j, b, v, k) /\ Before(q, t, j, s, i)

\* The operation at place j of stream t is such a maker, or runs before one.
Covered(q, t, j, s, i, b, v, k) ==
    \E u \in Lanes : \E h \in 1 .. Len(q[u]) :
        /\ Makes(q, u, h, b, v, k) /\ Before(q, u, h, s, i)
        /\ <<t, j>> = <<u, h>> \/ Before(q, t, j, u, h)

\* A read of b at place i of stream s finds v: v is there or its maker is to
\* come, and whoever else writes b does so after the read or before the maker.
Served(q, val, s, i, b, v, k) ==
    /\ Made(q, s, i, b, v, k) \/ val[b] = v
    /\ \A t \in Lanes : \A j \in 1 .. Len(q[t]) : Writes(q[t][j], b) =>
          Before(q, s, i, t, j) \/ Covered(q, t, j, s, i, b, v, k)

\* A read of b appended to stream s would find v.
Sure(q, val, s, b, v, k) ==
    LET i == Len(q[s]) + 1 IN
    /\ Made(q, s, i, b, v, k) \/ val[b] = v
    /\ \A t \in Lanes : \A j \in 1 .. Len(q[t]) :
          Writes(q[t][j], b) => Covered(q, t, j, s, i, b, v, k)

\* What is appended to stream t runs after all of the other stream.
Clear(q, t) == \A j \in 1 .. Len(q[Sibling(t)]) : Before(q, Sibling(t), j, t, Len(q[t]) + 1)

Buffers(p) == {p} \X (1 .. Bufs)
Bank == {"e", "g"} \X (1 .. Bufs)

ItemInPool(it, p) ==
    /\ Reads(it) => it.from \in Buffers(p)
    /\ it.op \in {"gemm", "coef"} => it.to \in Buffers(p)
    /\ it.op = "coll" => it.to \in Buffers(p) \cup {NoBuf}

Flow(q, val, p) ==
    /\ Streamed(q)
    /\ \A s \in Lanes : \A i \in 1 .. Len(q[s]) : ItemInPool(q[s][i], p)
    /\ \A s \in Lanes : \A i \in 1 .. Len(q[s]) : Reads(q[s][i]) =>
          Served(q, val, s, i, q[s][i].from, Wants(q[s][i]), Maker(q[s][i]))

------------------------------------------------------------------------------
LEMMA StreamFacts ==
  ASSUME NEW q, Streamed(q), NEW t \in Lanes
  PROVE  /\ Len(q[t]) \in Nat /\ DOMAIN q[t] = 1 .. Len(q[t])
         /\ Sibling(t) \in Lanes /\ Sibling(t) # t /\ Sibling(Sibling(t)) = t
         /\ Lanes = {t, Sibling(t)}
  <1>1. Len(q[t]) \in Nat /\ DOMAIN q[t] = 1 .. Len(q[t])
      BY LenProperties DEF Streamed, IsSeq
  <1> QED
      BY <1>1 DEF Lanes, Sibling

\* The device takes the head of stream s.
Pops(q, s, r) ==
    /\ Streamed(q) /\ s \in Lanes /\ q[s] # << >>
    /\ Ready(Head(q[s]), q[Sibling(s)])
    /\ r = [q EXCEPT ![s] = Tail(q[s])]

\* Where a place of the shorter streams was.
Shift(s, t, i) == IF t = s THEN i + 1 ELSE i

LEMMA PopShape ==
  ASSUME NEW q, NEW s, NEW r, Pops(q, s, r)
  PROVE  /\ Streamed(q) /\ s \in Lanes /\ Streamed(r)
         /\ \A u \in Lanes : Len(q[u]) \in Nat
         /\ Len(q[s]) \in Nat \ {0} /\ Len(r[s]) = Len(q[s]) - 1
         /\ \A i \in 1 .. Len(r[s]) : r[s][i] = q[s][i + 1]
         /\ r[Sibling(s)] = q[Sibling(s)]
         /\ Head(q[s]) = q[s][1]
  <1>0. Streamed(q) /\ s \in Lanes /\ q[s] # << >> /\ r = [q EXCEPT ![s] = Tail(q[s])]
      BY DEF Pops
  <1> DEFINE x == q[s]  S == {x[i] : i \in DOMAIN x}
  <1>1. x \in Seq(S)
      BY <1>0 DEF Streamed, IsSeq
  <1> HIDE DEF S
  <1>2. /\ Tail(x) \in Seq(S) /\ Len(Tail(x)) = Len(x) - 1 /\ Len(x) \in Nat
        /\ \A i \in 1 .. Len(Tail(x)) : Tail(x)[i] = x[i + 1]
        /\ Head(x) = x[1]
      BY <1>0, <1>1, HeadTailProperties, LenProperties
  <1>3. Len(x) # 0
      BY <1>0, <1>1, EmptySeq
  <1>4. IsSeq(Tail(x))
      BY <1>2, SeqIsSeq
  <1> HIDE DEF x
  <1>5. r = [t \in Lanes |-> IF t = s THEN Tail(x) ELSE q[t]]
      BY <1>0 DEF Streamed, x
  <1>6. r[s] = Tail(x) /\ r[Sibling(s)] = q[Sibling(s)]
      BY <1>0, <1>5, StreamFacts
  <1>7. Streamed(r)
      BY <1>0, <1>4, <1>5 DEF Streamed
  <1>8. \A u \in Lanes : Len(q[u]) \in Nat
      BY <1>0, StreamFacts
  <1> QED
      BY <1>0, <1>2, <1>3, <1>6, <1>7, <1>8 DEF x

\* Nothing in the streams runs before what the device takes.
LEMMA PopFirst ==
  ASSUME NEW q, NEW s, NEW r, Pops(q, s, r), NEW u \in Lanes, NEW h \in Nat \ {0}
  PROVE  ~Before(q, u, h, s, 1)
  <1>0. Streamed(q) /\ s \in Lanes /\ Head(q[s]) = q[s][1]
      BY PopShape DEF Pops
  <1>1. CASE u = s
      BY <1>1 DEF Before
  <1>2. CASE u # s
      <2> SUFFICES ASSUME Before(q, u, h, s, 1) PROVE FALSE
          OBVIOUS
      <2>1. u = Sibling(s)
          BY <1>0, <1>2, StreamFacts
      <2>2. PICK l \in h .. Len(q[u]), g \in 1 .. Len(q[s]) :
                g <= 1 /\ q[s][g].op = "await" /\ q[u][l] = Record(q[s][g].ev)
          BY <1>2 DEF Before
      <2>3. g = 1 /\ l \in DOMAIN q[u]
          BY <1>0, <2>2, StreamFacts
      <2>4. Head(q[s]).op = "await" /\ q[Sibling(s)][l] = Record(Head(q[s]).ev)
          BY <1>0, <2>1, <2>2, <2>3
      <2> QED
          BY <2>1, <2>3, <2>4 DEF Pops, Ready
  <1> QED
      BY <1>1, <1>2

LEMMA PopBefore ==
  ASSUME NEW q, NEW s, NEW r, Pops(q, s, r),
         NEW t \in Lanes, NEW u \in Lanes, NEW i \in Nat \ {0}, NEW j \in Nat \ {0},
         Before(q, t, Shift(s, t, i), u, Shift(s, u, j))
  PROVE  Before(r, t, i, u, j)
  <1>0. /\ Streamed(q) /\ s \in Lanes /\ Len(q[s]) \in Nat \ {0} /\ Len(r[s]) = Len(q[s]) - 1
        /\ \A k \in 1 .. Len(r[s]) : r[s][k] = q[s][k + 1]
        /\ r[Sibling(s)] = q[Sibling(s)] /\ \A k \in Lanes : Len(q[k]) \in Nat
      BY PopShape
  <1>1. CASE t = u
      BY <1>1 DEF Before, Shift
  <1>2. CASE t # u /\ t = s
      <2>1. u = Sibling(s)
          BY <1>0, <1>2, StreamFacts
      <2>2. PICK l \in (i + 1) .. Len(q[t]), h \in 1 .. Len(q[u]) :
                h <= j /\ q[u][h].op = "await" /\ q[t][l] = Record(q[u][h].ev)
          BY <1>2 DEF Before, Shift
      <2>3. l - 1 \in i .. Len(r[t]) /\ r[t][l - 1] = q[t][l]
          BY <1>0, <1>2, <2>2
      <2>4. r[u] = q[u]
          BY <1>0, <2>1
      <2>5. r[t][l - 1] = Record(r[u][h].ev) /\ h \in 1 .. Len(r[u]) /\ h <= j /\ r[u][h].op = "await"
          BY <2>2, <2>3, <2>4
      <2> QED
          BY <1>2, <2>3, <2>5 DEF Before
  <1>3. CASE t # u /\ u = s
      <2>1. t = Sibling(s)
          BY <1>0, <1>3, StreamFacts
      <2>2. PICK l \in i .. Len(q[t]), h \in 1 .. Len(q[u]) :
                h <= j + 1 /\ q[u][h].op = "await" /\ q[t][l] = Record(q[u][h].ev)
          BY <1>3 DEF Before, Shift
      <2>3. h # 1
          <3> SUFFICES ASSUME h = 1 PROVE FALSE
              OBVIOUS
          <3>1. Before(q, t, i, s, 1)
              BY <1>3, <2>2 DEF Before
          <3> QED
              BY <3>1, PopFirst
      <2>4. h - 1 \in 1 .. Len(r[u]) /\ h - 1 <= j /\ r[u][h - 1] = q[u][h]
          BY <1>0, <1>3, <2>2, <2>3
      <2>5. r[t] = q[t]
          BY <1>0, <2>1
      <2>6. r[t][l] = Record(r[u][h - 1].ev) /\ l \in i .. Len(r[t]) /\ r[u][h - 1].op = "await"
          BY <2>2, <2>4, <2>5
      <2> QED
          BY <1>3, <2>4, <2>6 DEF Before
  <1> QED
      BY <1>0, <1>1, <1>2, <1>3, StreamFacts

\* A maker that is still to run before a place is still there, or was taken.
LEMMA PopMaker ==
  ASSUME NEW q, NEW s, NEW r, Pops(q, s, r),
         NEW t \in Lanes, NEW i \in Nat \ {0}, NEW b, NEW v, NEW k,
         NEW u \in Lanes, NEW h \in 1 .. Len(q[u]),
         Makes(q, u, h, b, v, k), Before(q, u, h, t, Shift(s, t, i))
  PROVE  \/ u = s /\ h = 1
         \/ \E g \in 1 .. Len(r[u]) :
               h = Shift(s, u, g) /\ Makes(r, u, g, b, v, k) /\ Before(r, u, g, t, i)
  <1>0. /\ Streamed(q) /\ s \in Lanes /\ Len(q[s]) \in Nat \ {0} /\ Len(r[s]) = Len(q[s]) - 1
        /\ \A g \in 1 .. Len(r[s]) : r[s][g] = q[s][g + 1]
        /\ r[Sibling(s)] = q[Sibling(s)] /\ Len(q[u]) \in Nat
      BY PopShape
  <1>1. CASE u = s /\ h # 1
      <2>1. h - 1 \in 1 .. Len(r[u]) /\ h - 1 \in Nat \ {0} /\ h = Shift(s, u, h - 1)
            /\ r[u][h - 1] = q[u][h]
          BY <1>0, <1>1 DEF Shift
      <2>2. Before(r, u, h - 1, t, i)
          BY <2>1, PopBefore
      <2> QED
          BY <2>1, <2>2 DEF Makes
  <1>2. CASE u # s
      <2>1. u = Sibling(s) /\ h = Shift(s, u, h) /\ h \in Nat \ {0}
          BY <1>0, <1>2, StreamFacts DEF Shift
      <2>2. Before(r, u, h, t, i)
          BY <2>1, PopBefore
      <2>3. h \in 1 .. Len(r[u]) /\ r[u][h] = q[u][h]
          BY <1>0, <2>1
      <2> QED
          BY <2>1, <2>2, <2>3 DEF Makes
  <1> QED
      BY <1>1, <1>2

LEMMA PopMade ==
  ASSUME NEW q, NEW s, NEW r, Pops(q, s, r), NEW val, NEW new,
         NEW t \in Lanes, NEW i \in Nat \ {0}, NEW b, NEW v, NEW k,
         k \in {"gemm", "coef"},
         ~Writes(q[s][1], b) => new[b] = val[b],
         Makes(q, s, 1, b, v, k) => new[b] = v,
         \A u \in Lanes : \A j \in 1 .. Len(q[u]) : Writes(q[u][j], b) =>
             Before(q, t, Shift(s, t, i), u, j) \/ Covered(q, u, j, t, Shift(s, t, i), b, v, k),
         Made(q, t, Shift(s, t, i), b, v, k) \/ val[b] = v
  PROVE  Made(r, t, i, b, v, k) \/ new[b] = v
  <1>0. /\ s \in Lanes /\ 1 \in 1 .. Len(q[s]) /\ Shift(s, t, i) \in Nat \ {0}
      BY PopShape DEF Shift
  <1>1. ASSUME NEW u \in Lanes, NEW h \in 1 .. Len(q[u]),
               Makes(q, u, h, b, v, k), Before(q, u, h, t, Shift(s, t, i))
        PROVE  Made(r, t, i, b, v, k) \/ new[b] = v
      <2>1. CASE u = s /\ h = 1
          BY <1>1, <2>1
      <2>2. CASE \E g \in 1 .. Len(r[u]) :
                    h = Shift(s, u, g) /\ Makes(r, u, g, b, v, k) /\ Before(r, u, g, t, i)
          BY <2>2 DEF Made
      <2> QED
          BY <1>1, <2>1, <2>2, PopMaker
  <1>2. CASE Made(q, t, Shift(s, t, i), b, v, k)
      BY <1>1, <1>2 DEF Made
  <1>3. CASE ~Writes(q[s][1], b) /\ val[b] = v
      BY <1>3
  <1>4. CASE Writes(q[s][1], b)
      <2>1. ~Before(q, t, Shift(s, t, i), s, 1)
          BY <1>0, PopFirst
      <2>2. Covered(q, s, 1, t, Shift(s, t, i), b, v, k)
          BY <1>0, <1>4, <2>1
      <2> QED
          BY <1>1, <2>2 DEF Covered
  <1> QED
      BY <1>2, <1>3, <1>4

LEMMA PopCovered ==
  ASSUME NEW q, NEW s, NEW r, Pops(q, s, r),
         NEW t \in Lanes, NEW i \in Nat \ {0}, NEW b, NEW v, NEW k,
         NEW u \in Lanes, NEW j \in Nat \ {0},
         Covered(q, u, Shift(s, u, j), t, Shift(s, t, i), b, v, k)
  PROVE  Covered(r, u, j, t, i, b, v, k)
  <1>1. PICK w \in Lanes : \E h \in 1 .. Len(q[w]) :
            /\ Makes(q, w, h, b, v, k) /\ Before(q, w, h, t, Shift(s, t, i))
            /\ <<u, Shift(s, u, j)>> = <<w, h>> \/ Before(q, u, Shift(s, u, j), w, h)
      BY DEF Covered
  <1>2. PICK h \in 1 .. Len(q[w]) :
            /\ Makes(q, w, h, b, v, k) /\ Before(q, w, h, t, Shift(s, t, i))
            /\ <<u, Shift(s, u, j)>> = <<w, h>> \/ Before(q, u, Shift(s, u, j), w, h)
      BY <1>1
  <1>3. Shift(s, u, j) \in Nat \ {0} /\ (u = s => Shift(s, u, j) # 1)
      BY DEF Shift
  <1>4. ~(w = s /\ h = 1)
      BY <1>2, <1>3, PopFirst
  <1>5. PICK g \in 1 .. Len(r[w]) :
            h = Shift(s, w, g) /\ Makes(r, w, g, b, v, k) /\ Before(r, w, g, t, i)
      BY <1>2, <1>4, PopMaker
  <1>6. CASE u = w /\ Shift(s, u, j) = h
      <2>1. j = g
          BY <1>5, <1>6 DEF Shift
      <2> QED
          BY <1>5, <1>6, <2>1 DEF Covered
  <1>7. CASE Before(q, u, Shift(s, u, j), w, h)
      <2>1. g \in Nat \ {0}
          OBVIOUS
      <2>2. Before(r, u, j, w, g)
          BY <1>5, <1>7, <2>1, PopBefore
      <2> QED
          BY <1>5, <2>2 DEF Covered
  <1> QED
      BY <1>2, <1>6, <1>7

\* What is in the shorter streams was in the longer ones.
LEMMA PopOld ==
  ASSUME NEW q, NEW s, NEW r, Pops(q, s, r), NEW u \in Lanes
  PROVE  /\ Shift(s, u, Len(r[u]) + 1) = Len(q[u]) + 1 /\ Len(r[u]) \in Nat
         /\ \A j \in 1 .. Len(r[u]) :
               Shift(s, u, j) \in 1 .. Len(q[u]) /\ r[u][j] = q[u][Shift(s, u, j)]
  <1>1. CASE u = s
      BY <1>1, PopShape DEF Shift
  <1>2. CASE u # s
      <2>1. u = Sibling(s)
          BY <1>2, PopShape, StreamFacts
      <2> QED
          BY <1>2, <2>1, PopShape DEF Shift
  <1> QED
      BY <1>1, <1>2

\* What the taken operation does to the buffers.
Leaves(q, s, val, new) ==
    \A b \in Bank :
           /\ ~Writes(q[s][1], b) => new[b] = val[b]
           /\ \A v : \A k \in {"gemm", "coef"} : Makes(q, s, 1, b, v, k) => new[b] = v

LEMMA PopServed ==
  ASSUME NEW q, NEW s, NEW r, Pops(q, s, r), NEW val, NEW new, Leaves(q, s, val, new),
         NEW t \in Lanes, NEW i \in Nat \ {0}, NEW b \in Bank, NEW v, NEW k \in {"gemm", "coef"},
         Served(q, val, t, Shift(s, t, i), b, v, k)
  PROVE  Served(r, new, t, i, b, v, k)
  <1>1. Made(r, t, i, b, v, k) \/ new[b] = v
      BY PopMade DEF Served, Leaves
  <1>2. ASSUME NEW u \in Lanes, NEW j \in 1 .. Len(r[u]), Writes(r[u][j], b)
        PROVE  Before(r, t, i, u, j) \/ Covered(r, u, j, t, i, b, v, k)
      <2>1. j \in Nat \ {0} /\ Shift(s, u, j) \in 1 .. Len(q[u]) /\ r[u][j] = q[u][Shift(s, u, j)]
          BY PopOld
      <2>2. \/ Before(q, t, Shift(s, t, i), u, Shift(s, u, j))
            \/ Covered(q, u, Shift(s, u, j), t, Shift(s, t, i), b, v, k)
          BY <1>2, <2>1 DEF Served
      <2> QED
          BY <2>1, <2>2, PopBefore, PopCovered
  <1> QED
      BY <1>1, <1>2 DEF Served

LEMMA PopSure ==
  ASSUME NEW q, NEW s, NEW r, Pops(q, s, r), NEW val, NEW new, Leaves(q, s, val, new),
         NEW t \in Lanes, NEW b \in Bank, NEW v, NEW k \in {"gemm", "coef"},
         Sure(q, val, t, b, v, k)
  PROVE  Sure(r, new, t, b, v, k)
  <1> DEFINE i == Len(r[t]) + 1
  <1>0. i \in Nat \ {0} /\ Shift(s, t, i) = Len(q[t]) + 1
      BY PopOld
  <1> HIDE DEF i
  <1>1. Made(r, t, i, b, v, k) \/ new[b] = v
      BY <1>0, PopMade DEF Sure, Leaves
  <1>2. ASSUME NEW u \in Lanes, NEW j \in 1 .. Len(r[u]), Writes(r[u][j], b)
        PROVE  Covered(r, u, j, t, i, b, v, k)
      <2>1. j \in Nat \ {0} /\ Shift(s, u, j) \in 1 .. Len(q[u]) /\ r[u][j] = q[u][Shift(s, u, j)]
          BY PopOld
      <2>2. Covered(q, u, Shift(s, u, j), t, Shift(s, t, i), b, v, k)
          BY <1>0, <1>2, <2>1 DEF Sure
      <2> QED
          BY <1>0, <2>1, <2>2, PopCovered
  <1> QED
      BY <1>1, <1>2 DEF Sure, i

LEMMA PopClear ==
  ASSUME NEW q, NEW s, NEW r, Pops(q, s, r), NEW t \in Lanes, Clear(q, t)
  PROVE  Clear(r, t)
  <1> DEFINE o == Sibling(t)  i == Len(r[t]) + 1
  <1>0. o \in Lanes /\ i \in Nat \ {0} /\ Shift(s, t, i) = Len(q[t]) + 1
      BY PopOld, PopShape, StreamFacts
  <1> HIDE DEF o, i
  <1>1. ASSUME NEW j \in 1 .. Len(r[o]) PROVE Before(r, o, j, t, i)
      <2>1. j \in Nat \ {0} /\ Shift(s, o, j) \in 1 .. Len(q[o])
          BY <1>0, PopOld
      <2>2. Before(q, o, Shift(s, o, j), t, Shift(s, t, i))
          BY <1>0, <2>1 DEF Clear, o
      <2> QED
          BY <1>0, <2>1, <2>2, PopBefore
  <1> QED
      BY <1>1 DEF Clear, o, i

\* An operation that can run finds what it reads.
LEMMA HeadServed ==
  ASSUME NEW q, NEW val, NEW p, Flow(q, val, p), NEW s \in Lanes, q[s] # << >>,
         Ready(Head(q[s]), q[Sibling(s)]), Reads(Head(q[s]))
  PROVE  Head(q[s]) = q[s][1] /\ val[Head(q[s]).from] = Wants(Head(q[s]))
  <1> DEFINE r == [q EXCEPT ![s] = Tail(q[s])]
  <1>1. Pops(q, s, r)
      BY DEF Pops, Flow
  <1> HIDE DEF r
  <1>2. Head(q[s]) = q[s][1] /\ 1 \in 1 .. Len(q[s])
      BY <1>1, PopShape
  <1>3. Served(q, val, s, 1, q[s][1].from, Wants(q[s][1]), Maker(q[s][1]))
      BY <1>2 DEF Flow
  <1>4. ~Made(q, s, 1, q[s][1].from, Wants(q[s][1]), Maker(q[s][1]))
      BY <1>1, PopFirst DEF Made
  <1> QED
      BY <1>2, <1>3, <1>4 DEF Served

LEMMA PopFlow ==
  ASSUME NEW q, NEW s, NEW r, Pops(q, s, r), NEW val, NEW new, NEW p \in {"e", "g"},
         Leaves(q, s, val, new), Flow(q, val, p)
  PROVE  Flow(r, new, p)
  <1>1. ASSUME NEW t \in Lanes, NEW i \in 1 .. Len(r[t])
        PROVE  /\ ItemInPool(r[t][i], p)
               /\ Reads(r[t][i]) =>
                     Served(r, new, t, i, r[t][i].from, Wants(r[t][i]), Maker(r[t][i]))
      <2>1. i \in Nat \ {0} /\ Shift(s, t, i) \in 1 .. Len(q[t]) /\ r[t][i] = q[t][Shift(s, t, i)]
          BY PopOld
      <2>2. Maker(r[t][i]) \in {"gemm", "coef"}
          BY DEF Maker
      <2>3. Reads(r[t][i]) =>
              Served(q, val, t, Shift(s, t, i), r[t][i].from, Wants(r[t][i]), Maker(r[t][i]))
          BY <2>1 DEF Flow
      <2>4. Reads(r[t][i]) => r[t][i].from \in Bank
          BY <2>1 DEF Flow, ItemInPool, Buffers, Bank
      <2> QED
          BY <2>1, <2>2, <2>3, <2>4, PopServed DEF Flow
  <1> QED
      BY <1>1, PopShape DEF Flow

------------------------------------------------------------------------------
(* The host appends an operation to a stream.                               *)

Push(q, s, it) == [q EXCEPT ![s] = Append(q[s], it)]

LEMMA PushShape ==
  ASSUME NEW q, Streamed(q), NEW s \in Lanes, NEW it, NEW r, r = Push(q, s, it)
  PROVE  /\ Streamed(r)
         /\ \A t \in Lanes : Len(q[t]) \in Nat /\ Len(r[t]) \in Nat
         /\ \A t \in Lanes : \A i \in 1 .. Len(q[t]) : i \in 1 .. Len(r[t]) /\ r[t][i] = q[t][i]
         /\ Len(r[s]) = Len(q[s]) + 1 /\ r[s][Len(q[s]) + 1] = it
         /\ r[Sibling(s)] = q[Sibling(s)]
  <1> DEFINE x == q[s]  S == {x[i] : i \in DOMAIN x} \cup {it}  y == Append(x, it)
  <1>1. x \in Seq(S) /\ it \in S
      BY SeqMonotonic DEF Streamed, IsSeq
  <1> HIDE DEF S
  <1>2. /\ y \in Seq(S)
        /\ Len(x) \in Nat /\ Len(y) = Len(x) + 1 /\ y[Len(x) + 1] = it
        /\ \A i \in 1 .. Len(x) : y[i] = x[i]
      BY <1>1
  <1>3. IsSeq(y)
      BY <1>2, SeqIsSeq
  <1>4. r = [t \in Lanes |-> IF t = s THEN y ELSE q[t]]
      BY DEF Streamed, Push
  <1> HIDE DEF x, y
  <1>5. r[s] = y /\ r[Sibling(s)] = q[Sibling(s)]
      BY <1>4, StreamFacts
  <1>6. Streamed(r)
      BY <1>3, <1>4 DEF Streamed
  <1>7. \A t \in Lanes : Len(q[t]) \in Nat /\ Len(r[t]) \in Nat
      BY <1>6, StreamFacts
  <1>8. ASSUME NEW t \in Lanes, NEW i \in 1 .. Len(q[t])
        PROVE  i \in 1 .. Len(r[t]) /\ r[t][i] = q[t][i]
      <2>1. CASE t = s
          BY <1>2, <1>5, <1>8, <2>1 DEF x
      <2>2. CASE t # s
          BY <1>4, <1>8, <2>2
      <2> QED
          BY <2>1, <2>2
  <1> QED
      BY <1>2, <1>5, <1>6, <1>7, <1>8 DEF x

\* An operation of the longer streams is an old one, or the new.
LEMMA PushOld ==
  ASSUME NEW q, Streamed(q), NEW s \in Lanes, NEW it, NEW r, r = Push(q, s, it),
         NEW t \in Lanes, NEW j \in 1 .. Len(r[t])
  PROVE  \/ t = s /\ j = Len(q[s]) + 1 /\ r[t][j] = it
         \/ j \in 1 .. Len(q[t]) /\ r[t][j] = q[t][j]
  <1>1. CASE t = s
      BY <1>1, PushShape
  <1>2. CASE t # s
      <2>1. t = Sibling(s)
          BY <1>2, StreamFacts
      <2> QED
          BY <2>1, PushShape
  <1> QED
      BY <1>1, <1>2

LEMMA PushBefore ==
  ASSUME NEW q, Streamed(q), NEW s \in Lanes, NEW it, NEW r, r = Push(q, s, it),
         NEW t \in Lanes, NEW u \in Lanes, NEW i \in Nat \ {0}, NEW j \in Nat,
         NEW k \in Nat, j <= k, Before(q, t, i, u, j)
  PROVE  Before(r, t, i, u, k)
  <1>1. CASE t = u
      BY <1>1 DEF Before
  <1>2. CASE t # u
      <2>1. PICK l \in i .. Len(q[t]), h \in 1 .. Len(q[u]) :
                h <= j /\ q[u][h].op = "await" /\ q[t][l] = Record(q[u][h].ev)
          BY <1>2 DEF Before
      <2>2. l \in 1 .. Len(q[t]) /\ l >= i
          BY <2>1, PushShape
      <2>3. l \in 1 .. Len(r[t]) /\ r[t][l] = q[t][l] /\ h \in 1 .. Len(r[u]) /\ r[u][h] = q[u][h]
          BY <2>1, <2>2, PushShape
      <2>4. l \in i .. Len(r[t]) /\ h <= k
          BY <2>1, <2>2, <2>3, PushShape
      <2>5. r[u][h].op = "await" /\ r[t][l] = Record(r[u][h].ev)
          BY <2>1, <2>3
      <2> QED
          BY <1>2, <2>3, <2>4, <2>5 DEF Before
  <1> QED
      BY <1>1, <1>2

LEMMA PushMakes ==
  ASSUME NEW q, Streamed(q), NEW s \in Lanes, NEW it, NEW r, r = Push(q, s, it),
         NEW u \in Lanes, NEW h \in 1 .. Len(q[u]), NEW b, NEW v, NEW k, Makes(q, u, h, b, v, k)
  PROVE  h \in 1 .. Len(r[u]) /\ Makes(r, u, h, b, v, k)
  BY PushShape DEF Makes

LEMMA PushMade ==
  ASSUME NEW q, Streamed(q), NEW s \in Lanes, NEW it, NEW r, r = Push(q, s, it),
         NEW t \in Lanes, NEW i \in Nat, NEW j \in Nat, i <= j, NEW b, NEW v, NEW k,
         Made(q, t, i, b, v, k)
  PROVE  Made(r, t, j, b, v, k)
  <1>1. PICK u \in Lanes : \E h \in 1 .. Len(q[u]) : Makes(q, u, h, b, v, k) /\ Before(q, u, h, t, i)
      BY DEF Made
  <1>2. PICK h \in 1 .. Len(q[u]) : Makes(q, u, h, b, v, k) /\ Before(q, u, h, t, i)
      BY <1>1
  <1>3. h \in Nat \ {0}
      OBVIOUS
  <1>4. Before(r, u, h, t, j)
      BY <1>2, <1>3, PushBefore
  <1> QED
      BY <1>2, <1>4, PushMakes DEF Made

LEMMA PushCovered ==
  ASSUME NEW q, Streamed(q), NEW s \in Lanes, NEW it, NEW r, r = Push(q, s, it),
         NEW t \in Lanes, NEW i \in Nat, NEW j \in Nat, i <= j, NEW b, NEW v, NEW k,
         NEW w \in Lanes, NEW g \in Nat \ {0}, Covered(q, w, g, t, i, b, v, k)
  PROVE  Covered(r, w, g, t, j, b, v, k)
  <1>1. PICK u \in Lanes : \E h \in 1 .. Len(q[u]) :
            /\ Makes(q, u, h, b, v, k) /\ Before(q, u, h, t, i)
            /\ <<w, g>> = <<u, h>> \/ Before(q, w, g, u, h)
      BY DEF Covered
  <1>2. PICK h \in 1 .. Len(q[u]) :
            /\ Makes(q, u, h, b, v, k) /\ Before(q, u, h, t, i)
            /\ <<w, g>> = <<u, h>> \/ Before(q, w, g, u, h)
      BY <1>1
  <1>3. h \in Nat \ {0} /\ h <= h
      OBVIOUS
  <1>4. Before(r, u, h, t, j)
      BY <1>2, <1>3, PushBefore
  <1>5. <<w, g>> = <<u, h>> \/ Before(r, w, g, u, h)
      BY <1>2, <1>3, PushBefore
  <1> QED
      BY <1>2, <1>4, <1>5, PushMakes DEF Covered

LEMMA PushServed ==
  ASSUME NEW q, Streamed(q), NEW s \in Lanes, NEW it, NEW r, r = Push(q, s, it), NEW val,
         NEW t \in Lanes, NEW i \in 1 .. Len(q[t]), NEW b, NEW v, NEW k,
         Served(q, val, t, i, b, v, k),
         Writes(it, b) => Before(r, t, i, s, Len(q[s]) + 1)
  PROVE  Served(r, val, t, i, b, v, k)
  <1>0. i \in Nat \ {0} /\ i <= i
      OBVIOUS
  <1>1. Made(r, t, i, b, v, k) \/ val[b] = v
      BY <1>0, PushMade DEF Served
  <1>2. ASSUME NEW u \in Lanes, NEW j \in 1 .. Len(r[u]), Writes(r[u][j], b)
        PROVE  Before(r, t, i, u, j) \/ Covered(r, u, j, t, i, b, v, k)
      <2>1. CASE u = s /\ j = Len(q[s]) + 1 /\ r[u][j] = it
          BY <1>2, <2>1
      <2>2. CASE j \in 1 .. Len(q[u]) /\ r[u][j] = q[u][j]
          <3>1. Before(q, t, i, u, j) \/ Covered(q, u, j, t, i, b, v, k)
              BY <1>2, <2>2 DEF Served
          <3>2. j \in Nat \ {0} /\ j <= j
              BY <2>2
          <3> QED
              BY <1>0, <3>1, <3>2, PushBefore, PushCovered
      <2> QED
          BY <2>1, <2>2, PushOld
  <1> QED
      BY <1>1, <1>2 DEF Served

LEMMA PushSure ==
  ASSUME NEW q, Streamed(q), NEW s \in Lanes, NEW it, NEW r, r = Push(q, s, it), NEW val,
         NEW t \in Lanes, NEW b, NEW v, NEW k, Sure(q, val, t, b, v, k), ~Writes(it, b)
  PROVE  /\ Sure(r, val, t, b, v, k)
         /\ t = s => Served(r, val, t, Len(q[t]) + 1, b, v, k)
  <1> DEFINE i == Len(q[t]) + 1
  <1>0. i \in Nat /\ Len(r[t]) + 1 \in Nat /\ i <= Len(r[t]) + 1 /\ i <= i
      <2>1. t = s \/ t = Sibling(s)
          BY StreamFacts
      <2> QED
          BY <2>1, PushShape
  <1>1. ASSUME NEW j \in Nat, i <= j
        PROVE  /\ Made(r, t, j, b, v, k) \/ val[b] = v
               /\ \A u \in Lanes : \A h \in 1 .. Len(r[u]) :
                     Writes(r[u][h], b) => Covered(r, u, h, t, j, b, v, k)
      <2>1. Made(r, t, j, b, v, k) \/ val[b] = v
          BY <1>0, <1>1, PushMade DEF Sure
      <2>2. ASSUME NEW u \in Lanes, NEW h \in 1 .. Len(r[u]), Writes(r[u][h], b)
            PROVE  Covered(r, u, h, t, j, b, v, k)
          <3>1. h \in 1 .. Len(q[u]) /\ r[u][h] = q[u][h]
              BY <2>2, PushOld
          <3>2. Covered(q, u, h, t, i, b, v, k) /\ h \in Nat \ {0}
              BY <2>2, <3>1 DEF Sure
          <3> QED
              BY <1>0, <1>1, <3>2, PushCovered
      <2> QED
          BY <2>1, <2>2
  <1> HIDE DEF i
  <1> QED
      BY <1>0, <1>1 DEF Sure, Served, i

\* A maker that comes after everything else makes the buffer sure.
LEMMA PushMaker ==
  ASSUME NEW q, Streamed(q), NEW s \in Lanes, NEW it, NEW r, r = Push(q, s, it), NEW val,
         Clear(q, s), NEW b, NEW v, NEW k, it.op = k, it.to = b, Tag(it) = v
  PROVE  Sure(r, val, s, b, v, k)
  <1> DEFINE n == Len(q[s]) + 1
  <1>1. Len(r[s]) + 1 \in Nat /\ n \in 1 .. Len(r[s]) /\ n < Len(r[s]) + 1 /\ n \in Nat /\ n <= n
        /\ r[s][n] = it
      BY PushShape
  <1>2. Makes(r, s, n, b, v, k) /\ Before(r, s, n, s, Len(r[s]) + 1)
      BY <1>1 DEF Makes, Before
  <1>3. ASSUME NEW u \in Lanes, NEW h \in 1 .. Len(r[u])
        PROVE  <<u, h>> = <<s, n>> \/ Before(r, u, h, s, n)
      <2>1. CASE u = s
          BY <2>1, PushOld, PushShape DEF Before
      <2>2. CASE u = Sibling(s)
          <3>1. h \in 1 .. Len(q[u]) /\ h \in Nat \ {0}
              BY <2>2, PushShape
          <3>2. Before(q, u, h, s, n)
              BY <2>2, <3>1 DEF Clear
          <3> QED
              BY <1>1, <3>1, <3>2, PushBefore
      <2> QED
          BY <2>1, <2>2, StreamFacts
  <1> HIDE DEF n
  <1>4. Made(r, s, Len(r[s]) + 1, b, v, k)
      BY <1>1, <1>2 DEF Made
  <1>5. \A u \in Lanes : \A h \in 1 .. Len(r[u]) : Covered(r, u, h, s, Len(r[s]) + 1, b, v, k)
      BY <1>1, <1>2, <1>3 DEF Covered
  <1> QED
      BY <1>4, <1>5 DEF Sure

LEMMA PushClear ==
  ASSUME NEW q, Streamed(q), NEW s \in Lanes, NEW it, NEW r, r = Push(q, s, it), Clear(q, s)
  PROVE  Clear(r, s)
  <1> DEFINE o == Sibling(s)
  <1>1. o \in Lanes /\ r[o] = q[o] /\ Len(q[s]) + 1 \in Nat /\ Len(r[s]) + 1 \in Nat
        /\ Len(q[s]) + 1 <= Len(r[s]) + 1
      BY PushShape, StreamFacts
  <1>2. ASSUME NEW j \in 1 .. Len(r[o]) PROVE Before(r, o, j, s, Len(r[s]) + 1)
      <2>1. Before(q, o, j, s, Len(q[s]) + 1) /\ j \in Nat \ {0}
          BY <1>1 DEF Clear
      <2> QED
          BY <1>1, <2>1, PushBefore
  <1> QED
      BY <1>2 DEF Clear

\* A record on one stream, awaited on the other: what follows the await runs
\* after everything before the record.
LEMMA Synced ==
  ASSUME NEW q, Streamed(q), NEW s \in Lanes, NEW ev, NEW p, NEW r,
         p = Push(q, s, Record(ev)), r = Push(p, Sibling(s), Await(ev))
  PROVE  /\ Streamed(p) /\ Streamed(r)
         /\ Clear(r, Sibling(s))
         /\ \A j \in 1 .. Len(r[s]) : Before(r, s, j, Sibling(s), Len(r[Sibling(s)]) + 1)
  <1> DEFINE o == Sibling(s)  it == Await(ev)  rec == Record(ev)
             h == Len(p[o]) + 1  l == Len(q[s]) + 1
  <1>0. o \in Lanes /\ o # s /\ Sibling(o) = s /\ it.op = "await" /\ Record(it.ev) = rec
      BY StreamFacts DEF Await
  <1> HIDE DEF o, it, rec
  <1>1. Streamed(p) /\ Len(p[s]) = l /\ p[s][l] = rec /\ l \in Nat /\ l >= 1
      BY PushShape DEF rec
  <1>2. /\ Streamed(r) /\ r[s] = p[s]
        /\ h \in 1 .. Len(r[o]) /\ r[o][h] = it /\ h <= Len(r[o]) + 1
      BY <1>0, <1>1, PushShape DEF o, it
  <1> HIDE DEF h, l
  <1>3. ASSUME NEW j \in 1 .. Len(r[s]) PROVE Before(r, s, j, o, Len(r[o]) + 1)
      <2>1. l \in j .. Len(r[s])
          BY <1>1, <1>2
      <2>2. r[s][l] = Record(r[o][h].ev) /\ r[o][h].op = "await"
          BY <1>0, <1>1, <1>2
      <2> QED
          BY <1>0, <1>2, <2>1, <2>2 DEF Before
  <1> QED
      BY <1>0, <1>1, <1>2, <1>3 DEF Clear, o

\* Then what the first stream was sure of, the other is.
LEMMA SureCrosses ==
  ASSUME NEW q, Streamed(q), NEW s \in Lanes, NEW val, NEW b, NEW v, NEW k,
         Sure(q, val, s, b, v, k),
         \A j \in 1 .. Len(q[s]) : Before(q, s, j, Sibling(s), Len(q[Sibling(s)]) + 1)
  PROVE  Sure(q, val, Sibling(s), b, v, k)
  <1> DEFINE o == Sibling(s)  i == Len(q[s]) + 1  m == Len(q[o]) + 1
  <1>0. o \in Lanes /\ o # s /\ Lanes = {s, o} /\ m \in Nat /\ Len(q[o]) \in Nat
      BY StreamFacts
  <1>1. ASSUME NEW u \in Lanes, NEW h \in 1 .. Len(q[u])
        PROVE  Before(q, u, h, o, m)
      <2>1. CASE u = s
          BY <2>1
      <2>2. CASE u = o
          BY <1>0, <2>2 DEF Before
      <2> QED
          BY <1>0, <2>1, <2>2
  <1> HIDE DEF o, i, m
  <1>2. Made(q, s, i, b, v, k) => Made(q, o, m, b, v, k)
      BY <1>1 DEF Made
  <1>3. \A t \in Lanes : \A j \in 1 .. Len(q[t]) :
            Covered(q, t, j, s, i, b, v, k) => Covered(q, t, j, o, m, b, v, k)
      BY <1>1 DEF Covered
  <1> QED
      BY <1>2, <1>3 DEF Sure, o, i, m

\* An operation may be appended if what it writes is read before it, and what
\* it reads is sure.
LEMMA PushFlow ==
  ASSUME NEW q, NEW val, NEW p, Flow(q, val, p), NEW s \in Lanes, NEW it,
         NEW r, r = Push(q, s, it), ItemInPool(it, p),
         \A j \in 1 .. Len(q[Sibling(s)]) :
             LET x == q[Sibling(s)][j] IN
             Reads(x) /\ Writes(it, x.from) => Before(q, Sibling(s), j, s, Len(q[s]) + 1),
         Reads(it) => Sure(q, val, s, it.from, Wants(it), Maker(it)) /\ ~Writes(it, it.from)
  PROVE  Flow(r, val, p)
  <1>0. Streamed(q) /\ Streamed(r)
      BY PushShape DEF Flow
  <1>1. ASSUME NEW t \in Lanes, NEW i \in 1 .. Len(r[t])
        PROVE  /\ ItemInPool(r[t][i], p)
               /\ Reads(r[t][i]) =>
                     Served(r, val, t, i, r[t][i].from, Wants(r[t][i]), Maker(r[t][i]))
      <2>1. CASE t = s /\ i = Len(q[s]) + 1 /\ r[t][i] = it
          BY <1>0, <2>1, PushSure
      <2>2. CASE i \in 1 .. Len(q[t]) /\ r[t][i] = q[t][i]
          <3> DEFINE x == q[t][i]
          <3>1. Writes(it, x.from) /\ Reads(x) => Before(r, t, i, s, Len(q[s]) + 1)
              <4>1. CASE t = s
                  BY <1>0, <2>2, <4>1, PushShape DEF Before
              <4>2. CASE t = Sibling(s)
                  <5>1. i \in Nat \ {0} /\ Len(q[s]) + 1 \in Nat /\ Len(q[s]) + 1 <= Len(q[s]) + 1
                      BY <1>0, <2>2, PushShape
                  <5>2. Writes(it, x.from) /\ Reads(x) => Before(q, t, i, s, Len(q[s]) + 1)
                      BY <2>2, <4>2
                  <5> QED
                      BY <1>0, <5>1, <5>2, PushBefore
              <4> QED
                  BY <1>0, <4>1, <4>2, StreamFacts
          <3>2. ItemInPool(x, p) /\ (Reads(x) => Served(q, val, t, i, x.from, Wants(x), Maker(x)))
              BY <2>2 DEF Flow
          <3> HIDE DEF x
          <3>3. Reads(x) => Served(r, val, t, i, x.from, Wants(x), Maker(x))
              BY <1>0, <2>2, <3>1, <3>2, PushServed
          <3> QED
              BY <2>2, <3>2, <3>3 DEF x
      <2> QED
          BY <1>0, <2>1, <2>2, PushOld
  <1> QED
      BY <1>0, <1>1 DEF Flow

------------------------------------------------------------------------------
(* The sequences that the actions launch, operation by operation.           *)

Launched(q, m, s) == [main |-> q.main \o m, side |-> q.side \o s]

LEMMA TupleCats ==
  ASSUME NEW a, NEW b, NEW c
  PROVE  /\ <<a>> \o <<b>> = <<a, b>> /\ <<a>> \o <<b, c>> = <<a, b, c>>
         /\ <<a, b>> \o <<c>> = <<a, b, c>>
  <1> DEFINE S == {a, b, c}
  <1>1. /\ <<a>> \in Seq(S) /\ <<b>> \in Seq(S) /\ <<c>> \in Seq(S) /\ <<b, c>> \in Seq(S)
        /\ <<a, b>> \in Seq(S) /\ <<a, b, c>> \in Seq(S)
      OBVIOUS
  <1>2. /\ Len(<<a>>) = 1 /\ Len(<<b>>) = 1 /\ Len(<<c>>) = 1 /\ Len(<<b, c>>) = 2
        /\ Len(<<a, b>>) = 2 /\ Len(<<a, b, c>>) = 3
      OBVIOUS
  <1> HIDE DEF S
  <1>3. /\ <<a>> \o <<b>> \in Seq(S) /\ Len(<<a>> \o <<b>>) = 2
        /\ \A i \in 1 .. 2 : (<<a>> \o <<b>>)[i] = IF i <= 1 THEN <<a>>[i] ELSE <<b>>[i - 1]
      BY <1>1, <1>2, ConcatProperties
  <1>4. /\ <<a>> \o <<b, c>> \in Seq(S) /\ Len(<<a>> \o <<b, c>>) = 3
        /\ \A i \in 1 .. 3 : (<<a>> \o <<b, c>>)[i] = IF i <= 1 THEN <<a>>[i] ELSE <<b, c>>[i - 1]
      BY <1>1, <1>2, ConcatProperties
  <1>5. /\ <<a, b>> \o <<c>> \in Seq(S) /\ Len(<<a, b>> \o <<c>>) = 3
        /\ \A i \in 1 .. 3 : (<<a, b>> \o <<c>>)[i] = IF i <= 2 THEN <<a, b>>[i] ELSE <<c>>[i - 2]
      BY <1>1, <1>2, ConcatProperties
  <1>6. <<a>> \o <<b>> = <<a, b>>
      <2>1. (<<a>> \o <<b>>)[1] = a /\ (<<a>> \o <<b>>)[2] = b
          BY <1>3
      <2>2. \A i \in 1 .. 2 : i = 1 \/ i = 2
          OBVIOUS
      <2>3. \A i \in 1 .. 2 : (<<a>> \o <<b>>)[i] = <<a, b>>[i]
          BY <2>1, <2>2
      <2> QED
          BY <1>1, <1>2, <1>3, <2>3, SeqEqual
  <1>n. \A i \in 1 .. 3 : i = 1 \/ i = 2 \/ i = 3
      OBVIOUS
  <1>7. <<a>> \o <<b, c>> = <<a, b, c>>
      <2>1. (<<a>> \o <<b, c>>)[1] = a /\ (<<a>> \o <<b, c>>)[2] = b /\ (<<a>> \o <<b, c>>)[3] = c
          BY <1>4
      <2>2. \A i \in 1 .. 3 : (<<a>> \o <<b, c>>)[i] = <<a, b, c>>[i]
          BY <1>n, <2>1
      <2> QED
          BY <1>1, <1>2, <1>4, <2>2, SeqEqual
  <1>8. <<a, b>> \o <<c>> = <<a, b, c>>
      <2>1. (<<a, b>> \o <<c>>)[1] = a /\ (<<a, b>> \o <<c>>)[2] = b /\ (<<a, b>> \o <<c>>)[3] = c
          BY <1>5
      <2>2. \A i \in 1 .. 3 : (<<a, b>> \o <<c>>)[i] = <<a, b, c>>[i]
          BY <1>n, <2>1
      <2> QED
          BY <1>1, <1>2, <1>5, <2>2, SeqEqual
  <1> QED
      BY <1>6, <1>7, <1>8

LEMMA CatCons ==
  ASSUME NEW x, IsSeq(x), NEW a, NEW b, NEW c
  PROVE  /\ x \o << >> = x
         /\ x \o <<a>> = Append(x, a)
         /\ x \o <<a, b>> = Append(x, a) \o <<b>>
         /\ x \o <<a, b, c>> = Append(x, a) \o <<b, c>>
         /\ IsSeq(Append(x, a))
  <1> DEFINE S == {x[i] : i \in DOMAIN x} \cup {a, b, c}
  <1>1. x \in Seq(S) /\ a \in S /\ b \in S /\ c \in S
      BY SeqMonotonic DEF IsSeq
  <1> HIDE DEF S
  <1>2. Append(x, a) \in Seq(S)
      BY <1>1
  <1>3. <<a>> \in Seq(S) /\ <<b>> \in Seq(S) /\ <<b, c>> \in Seq(S)
      BY <1>1
  <1>4. Append(x, a) = x \o <<a>>
      BY <1>1, AppendIsConcat
  <1>5. <<a>> \o <<b>> = <<a, b>> /\ <<a>> \o <<b, c>> = <<a, b, c>>
      BY TupleCats
  <1>6. x \o << >> = x
      BY <1>1, ConcatEmptySeq
  <1>7. /\ (x \o <<a>>) \o <<b>> = x \o (<<a>> \o <<b>>)
        /\ (x \o <<a>>) \o <<b, c>> = x \o (<<a>> \o <<b, c>>)
      BY <1>1, <1>3, ConcatAssociative
  <1>8. IsSeq(Append(x, a))
      BY <1>2, SeqIsSeq
  <1> QED
      BY <1>4, <1>5, <1>6, <1>7, <1>8

LEMMA CatAppends ==
  ASSUME NEW x, IsSeq(x), NEW a, NEW b, NEW c
  PROVE  /\ x \o << >> = x
         /\ x \o <<a>> = Append(x, a)
         /\ x \o <<a, b>> = Append(Append(x, a), b)
         /\ x \o <<a, b, c>> = Append(Append(Append(x, a), b), c)
  <1>1. x \o << >> = x
      BY CatCons
  <1>2. IsSeq(Append(x, a)) /\ x \o <<a>> = Append(x, a)
      BY CatCons
  <1>3. x \o <<a, b>> = Append(x, a) \o <<b>>
      BY CatCons
  <1>4. x \o <<a, b, c>> = Append(x, a) \o <<b, c>>
      BY CatCons
  <1> DEFINE y == Append(x, a)
  <1> HIDE DEF y
  <1>5. IsSeq(y)
      BY <1>2 DEF y
  <1>6. IsSeq(Append(y, b)) /\ y \o <<b>> = Append(y, b)
      BY <1>5, CatCons
  <1>7. y \o <<b, c>> = Append(y, b) \o <<c>>
      BY <1>5, CatCons
  <1> DEFINE z == Append(y, b)
  <1> HIDE DEF z
  <1>8. z \o <<c>> = Append(z, c)
      <2>1. IsSeq(z)
          BY <1>6 DEF z
      <2> QED
          BY <2>1, CatCons
  <1> QED
      BY <1>1, <1>2, <1>3, <1>4, <1>6, <1>7, <1>8 DEF y, z

LEMMA PushMain ==
  ASSUME NEW q, Streamed(q), NEW a, NEW r, r = Push(q, "main", a)
  PROVE  /\ q = [main |-> q.main, side |-> q.side] /\ IsSeq(q.main) /\ IsSeq(q.side)
         /\ Streamed(r) /\ r = [main |-> Append(q.main, a), side |-> q.side]
         /\ r.main = Append(q.main, a) /\ r.side = q.side
  <1>1. q = [main |-> q.main, side |-> q.side] /\ IsSeq(q.main) /\ IsSeq(q.side)
      BY DEF Streamed, Lanes
  <1>2. Streamed(r)
      BY PushShape DEF Lanes
  <1>3. r.main = Append(q.main, a) /\ r.side = q.side
      BY <1>1 DEF Push
  <1>4. r = [main |-> r.main, side |-> r.side]
      BY <1>2 DEF Streamed, Lanes
  <1> QED
      BY <1>1, <1>2, <1>3, <1>4

LEMMA PushSide ==
  ASSUME NEW q, Streamed(q), NEW a, NEW r, r = Push(q, "side", a)
  PROVE  /\ Streamed(r) /\ r = [main |-> q.main, side |-> Append(q.side, a)]
         /\ r.main = q.main /\ r.side = Append(q.side, a)
  <1>1. q = [main |-> q.main, side |-> q.side]
      BY DEF Streamed, Lanes
  <1>2. Streamed(r)
      BY PushShape DEF Lanes
  <1>3. r.main = q.main /\ r.side = Append(q.side, a)
      BY <1>1 DEF Push
  <1>4. r = [main |-> r.main, side |-> r.side]
      BY <1>2 DEF Streamed, Lanes
  <1> QED
      BY <1>1, <1>2, <1>3, <1>4

\* One operation, three, and those of a join and of a fork.
LEMMA LaunchOne ==
  ASSUME NEW q, Streamed(q), NEW a, NEW q1, q1 = Push(q, "main", a)
  PROVE  Launched(q, <<a>>, << >>) = q1
  <1>1. q1 = [main |-> Append(q.main, a), side |-> q.side] /\ IsSeq(q.main) /\ IsSeq(q.side)
      BY PushMain
  <1>2. q.main \o <<a>> = Append(q.main, a) /\ q.side \o << >> = q.side
      BY <1>1, CatAppends
  <1> QED
      BY <1>1, <1>2 DEF Launched

LEMMA LaunchThree ==
  ASSUME NEW q, Streamed(q), NEW a, NEW b, NEW c, NEW q1, NEW q2, NEW q3,
         q1 = Push(q, "main", a), q2 = Push(q1, "main", b), q3 = Push(q2, "main", c)
  PROVE  Launched(q, <<a, b, c>>, << >>) = q3
  <1>1. /\ Streamed(q1) /\ q1.main = Append(q.main, a) /\ q1.side = q.side
        /\ IsSeq(q.main) /\ IsSeq(q.side)
      BY PushMain
  <1>2. Streamed(q2) /\ q2.main = Append(q1.main, b) /\ q2.side = q1.side
      BY <1>1, PushMain
  <1>3. q3 = [main |-> Append(q2.main, c), side |-> q2.side]
      BY <1>2, PushMain
  <1>4. q.main \o <<a, b, c>> = Append(Append(Append(q.main, a), b), c)
      BY <1>1, CatAppends
  <1>5. q.side \o << >> = q.side
      BY <1>1, CatAppends
  <1> QED
      BY <1>1, <1>2, <1>3, <1>4, <1>5 DEF Launched

LEMMA LaunchJoin ==
  ASSUME NEW q, Streamed(q), NEW a, NEW b, NEW d, NEW q1, NEW q2, NEW q3,
         q1 = Push(q, "side", d), q2 = Push(q1, "main", a), q3 = Push(q2, "main", b)
  PROVE  Launched(q, <<a, b>>, <<d>>) = q3
  <1>0. IsSeq(q.main) /\ IsSeq(q.side)
      BY PushMain
  <1>1. Streamed(q1) /\ q1.main = q.main /\ q1.side = Append(q.side, d)
      BY PushSide
  <1>2. Streamed(q2) /\ q2.main = Append(q1.main, a) /\ q2.side = q1.side
      BY <1>1, PushMain
  <1>3. q3 = [main |-> Append(q2.main, b), side |-> q2.side]
      BY <1>2, PushMain
  <1>4. q.main \o <<a, b>> = Append(Append(q.main, a), b)
      BY <1>0, CatAppends
  <1>5. q.side \o <<d>> = Append(q.side, d)
      BY <1>0, CatAppends
  <1> QED
      BY <1>1, <1>2, <1>3, <1>4, <1>5 DEF Launched

LEMMA LaunchFork ==
  ASSUME NEW q, Streamed(q), NEW a, NEW b, NEW c, NEW d, NEW e,
         NEW q1, NEW q2, NEW q3, NEW q4, NEW q5,
         q1 = Push(q, "main", a), q2 = Push(q1, "side", b), q3 = Push(q2, "side", c),
         q4 = Push(q3, "side", d), q5 = Push(q4, "main", e)
  PROVE  Launched(q, <<a, e>>, <<b, c, d>>) = q5
  <1>1. /\ Streamed(q1) /\ q1.main = Append(q.main, a) /\ q1.side = q.side
        /\ IsSeq(q.main) /\ IsSeq(q.side)
      BY PushMain
  <1>2. Streamed(q2) /\ q2.main = q1.main /\ q2.side = Append(q1.side, b)
      BY <1>1, PushSide
  <1>3. Streamed(q3) /\ q3.main = q2.main /\ q3.side = Append(q2.side, c)
      BY <1>2, PushSide
  <1>4. Streamed(q4) /\ q4.main = q3.main /\ q4.side = Append(q3.side, d)
      BY <1>3, PushSide
  <1>5. q5 = [main |-> Append(q4.main, e), side |-> q4.side]
      BY <1>4, PushMain
  <1>6. q.main \o <<a, e>> = Append(Append(q.main, a), e)
      BY <1>1, CatAppends
  <1>7. q.side \o <<b, c, d>> = Append(Append(Append(q.side, b), c), d)
      BY <1>1, CatAppends
  <1> QED
      BY <1>1, <1>2, <1>3, <1>4, <1>5, <1>6, <1>7 DEF Launched

\* An operation that touches no buffer.
Quiet(it) == ~Reads(it) /\ (\A b : b # NoBuf => ~Writes(it, b)) /\ \A p : ItemInPool(it, p)

LEMMA QuietItems ==
  ASSUME NEW w, NEW ev, NEW cm, NEW at
  PROVE  /\ Quiet(Record(ev)) /\ Quiet(Await(ev)) /\ Quiet(Coll(cm, NoBuf)) /\ Quiet(Input(w, NoBuf))
         /\ Quiet([op |-> "replay", at |-> at])
  <1> USE DEF Reads, Writes, ItemInPool, Quiet
  <1>1. Quiet(Record(ev)) /\ Quiet(Await(ev))
      BY DEF Record, Await
  <1>2. Quiet(Coll(cm, NoBuf)) /\ Quiet(Input(w, NoBuf))
      BY DEF Coll, Input
  <1>3. Quiet([op |-> "replay", at |-> at])
      OBVIOUS
  <1> QED
      BY <1>1, <1>2, <1>3

LEMMA GemmItem ==
  ASSUME NEW w, NEW s, NEW p, s \in Buffers(p)
  PROVE  LET g == Gemm(w, s) IN
         /\ ~Reads(g) /\ (\A b : Writes(g, b) <=> b = s)
         /\ g.op = "gemm" /\ g.to = s /\ Tag(g) = <<w.fwd, w.sub>>
         /\ ItemInPool(g, p)
  BY DEF Gemm, Tag, Reads, Writes, ItemInPool

LEMMA CoefItem ==
  ASSUME NEW w, NEW s, NEW c, NEW p, s \in Buffers(p), c \in Buffers(p)
  PROVE  LET k == Coef(w, s, c) IN
         /\ \A b : Writes(k, b) <=> b = c
         /\ k.op = "coef" /\ k.to = c /\ k.from = s
         /\ Tag(k) = <<w.fwd, w.sub>> /\ Wants(k) = <<w.fwd, w.sub>> /\ Maker(k) = "gemm"
         /\ ItemInPool(k, p)
  BY DEF Coef, Tag, Wants, Maker, Reads, Writes, ItemInPool

LEMMA InputItem ==
  ASSUME NEW w, NEW c, NEW p, c \in Buffers(p)
  PROVE  LET i == Input(w, c) IN
         /\ \A b : ~Writes(i, b)
         /\ i.from = c /\ Wants(i) = <<w.fwd, w.sub - 1>> /\ Maker(i) = "coef"
         /\ ItemInPool(i, p)
  BY DEF Input, Wants, Maker, Reads, Writes, ItemInPool

LEMMA PostItem ==
  ASSUME NEW w, NEW c, NEW o, NEW p, c \in Buffers(p)
  PROVE  LET i == Post(w, c, o) IN
         /\ \A b : ~Writes(i, b)
         /\ i.from = c /\ Wants(i) = <<w.fwd, w.sub>> /\ Maker(i) = "coef"
         /\ ItemInPool(i, p)
  BY DEF Post, Wants, Maker, Reads, Writes, ItemInPool

LEMMA CollItem ==
  ASSUME NEW cm, NEW o, NEW p, o \in Buffers(p)
  PROVE  LET i == Coll(cm, o) IN
         ~Reads(i) /\ (\A b : Writes(i, b) <=> b = o) /\ ItemInPool(i, p)
  BY DEF Coll, Reads, Writes, ItemInPool

\* A read is never of no buffer.
LEMMA RealReads ==
  ASSUME NEW q, NEW val, NEW p, p \in {"e", "g"}, Flow(q, val, p),
         NEW t \in Lanes, NEW i \in 1 .. Len(q[t]), Reads(q[t][i])
  PROVE  q[t][i].from \in Buffers(p) /\ q[t][i].from # NoBuf
  BY DEF Flow, ItemInPool, Buffers, NoBuf

LEMMA PushQuiet ==
  ASSUME NEW q, NEW val, NEW p, p \in {"e", "g"}, Flow(q, val, p), NEW s \in Lanes, NEW it, Quiet(it),
         NEW r, r = Push(q, s, it)
  PROVE  /\ Flow(r, val, p)
         /\ Clear(q, s) => Clear(r, s)
         /\ \A t \in Lanes : \A b, v, k : b # NoBuf /\ Sure(q, val, t, b, v, k) => Sure(r, val, t, b, v, k)
  <1>1. Streamed(q)
      BY DEF Flow
  <1>2. Clear(q, s) => Clear(r, s)
      BY <1>1, PushClear
  <1>3. ASSUME NEW j \in 1 .. Len(q[Sibling(s)]), Reads(q[Sibling(s)][j])
        PROVE  ~Writes(it, q[Sibling(s)][j].from)
      <2>1. Sibling(s) \in Lanes
          BY <1>1, StreamFacts
      <2> QED
          BY <1>3, <2>1, RealReads DEF Quiet
  <1>4. Flow(r, val, p)
      BY <1>3, PushFlow DEF Quiet
  <1>5. \A t \in Lanes : \A b, v, k : b # NoBuf /\ Sure(q, val, t, b, v, k) => Sure(r, val, t, b, v, k)
      BY <1>1, PushSure DEF Quiet
  <1> QED
      BY <1>2, <1>4, <1>5

\* A pure read of a sure buffer.
LEMMA PushRead ==
  ASSUME NEW q, NEW val, NEW p, Flow(q, val, p), NEW s \in Lanes, NEW it,
         NEW r, r = Push(q, s, it), ItemInPool(it, p), \A b : ~Writes(it, b),
         Sure(q, val, s, it.from, Wants(it), Maker(it))
  PROVE  /\ Flow(r, val, p)
         /\ Clear(q, s) => Clear(r, s)
         /\ \A t \in Lanes : \A b, v, k : Sure(q, val, t, b, v, k) => Sure(r, val, t, b, v, k)
  <1>1. Streamed(q)
      BY DEF Flow
  <1>2. Clear(q, s) => Clear(r, s)
      BY <1>1, PushClear
  <1>3. Flow(r, val, p)
      BY PushFlow
  <1>4. \A t \in Lanes : \A b, v, k : Sure(q, val, t, b, v, k) => Sure(r, val, t, b, v, k)
      BY <1>1, PushSure
  <1> QED
      BY <1>2, <1>3, <1>4

\* The GEMM and the coefficients, behind everything else.
LEMMA PushHalf ==
  ASSUME NEW q, NEW val, NEW p, Flow(q, val, p), NEW t \in Lanes, Clear(q, t), NEW w,
         NEW s \in Buffers(p), NEW c \in Buffers(p), s # c,
         NEW m, m = Push(q, t, Gemm(w, s)), NEW r, r = Push(m, t, Coef(w, s, c))
  PROVE  /\ Streamed(m)
         /\ Flow(r, val, p) /\ Clear(r, t) /\ Sure(r, val, t, c, <<w.fwd, w.sub>>, "coef")
  <1> DEFINE g == Gemm(w, s)  k == Coef(w, s, c)  v == <<w.fwd, w.sub>>
  <1>1. /\ ~Reads(g) /\ g.op = "gemm" /\ g.to = s /\ Tag(g) = v /\ ItemInPool(g, p)
        /\ k.op = "coef" /\ k.to = c /\ k.from = s /\ Tag(k) = v /\ Wants(k) = v
        /\ Maker(k) = "gemm" /\ ItemInPool(k, p) /\ ~Writes(k, s)
      <2>1. ~Reads(g) /\ g.op = "gemm" /\ g.to = s /\ Tag(g) = v /\ ItemInPool(g, p)
          BY GemmItem
      <2>2. /\ k.op = "coef" /\ k.to = c /\ k.from = s /\ Tag(k) = v /\ Wants(k) = v
            /\ Maker(k) = "gemm" /\ ItemInPool(k, p)
          BY CoefItem
      <2>3. ~Writes(k, s)
          BY CoefItem
      <2> QED
          BY <2>1, <2>2, <2>3
  <1> HIDE DEF g, k, v
  <1>2. m = Push(q, t, g) /\ r = Push(m, t, k) /\ Streamed(q)
      BY DEF g, k, Flow
  <1>3. Flow(m, val, p)
      <2>1. \A j \in 1 .. Len(q[Sibling(t)]) : Before(q, Sibling(t), j, t, Len(q[t]) + 1)
          BY DEF Clear
      <2> QED
          BY <1>1, <1>2, <2>1, PushFlow
  <1>4. Streamed(m) /\ Clear(m, t) /\ Sure(m, val, t, s, v, "gemm")
      <2>1. Streamed(m)
          BY <1>2, PushShape
      <2>2. Clear(m, t)
          BY <1>2, PushClear
      <2>3. Sure(m, val, t, s, v, "gemm")
          BY <1>1, <1>2, PushMaker
      <2> QED
          BY <2>1, <2>2, <2>3
  <1>5. Flow(r, val, p)
      <2>1. \A j \in 1 .. Len(m[Sibling(t)]) : Before(m, Sibling(t), j, t, Len(m[t]) + 1)
          BY <1>4 DEF Clear
      <2> QED
          BY <1>1, <1>2, <1>3, <1>4, <2>1, PushFlow
  <1>6. Clear(r, t) /\ Sure(r, val, t, c, v, "coef")
      BY <1>1, <1>2, <1>4, PushClear, PushMaker
  <1> QED
      BY <1>4, <1>5, <1>6 DEF v

------------------------------------------------------------------------------
(* A stream pair between the host's steps, while the host launches to it:   *)
(* c is the buffer of the coefficients and v whose they are.                *)

\* The forked half reads nothing but its scratch.
HalfOnly(q, s) ==
    \A j \in 1 .. Len(q["side"]) :
        \/ Before(q, "side", j, "main", Len(q["main"]) + 1)
        \/ Reads(q["side"][j]) => q["side"][j].from = s

IdleLane(q, val, p) == Flow(q, val, p) /\ Clear(q, "main")

PreLane(q, val, p, c, v) ==
    IdleLane(q, val, p) /\ (c # NoBuf => Sure(q, val, "main", c, v, "coef"))

ForkedLane(q, val, p, s, c, v) ==
    Flow(q, val, p) /\ Sure(q, val, "side", c, v, "coef") /\ HalfOnly(q, s)

DoneLane(q, val, p, c, v) == IdleLane(q, val, p) /\ Sure(q, val, "main", c, v, "coef")

LEMMA Sides == Sibling("main") = "side" /\ Sibling("side") = "main" /\ "main" \in Lanes /\ "side" \in Lanes
  BY DEF Sibling, Lanes

LEMMA LaunchInput ==
  ASSUME NEW q, NEW val, NEW p, p \in {"e", "g"}, NEW w, NEW c,
         PreLane(q, val, p, c, <<w.fwd, w.sub - 1>>), c \in Buffers(p) \cup {NoBuf},
         NEW r, r = Push(q, "main", Input(w, c))
  PROVE  Streamed(q) /\ Streamed(r) /\ IdleLane(r, val, p)
  <1>0. Flow(q, val, p) /\ Clear(q, "main") /\ Streamed(q) /\ Streamed(r)
      BY PushShape, Sides DEF PreLane, IdleLane, Flow
  <1>1. CASE c = NoBuf
      <2> DEFINE i == Input(w, c)
      <2>1. Quiet(i) /\ r = Push(q, "main", i)
          BY <1>1, QuietItems
      <2> HIDE DEF i
      <2> QED
          BY <1>0, <2>1, Sides, PushQuiet DEF IdleLane
  <1>2. CASE c # NoBuf
      <2> DEFINE i == Input(w, c)
      <2>1. c \in Buffers(p) /\ Sure(q, val, "main", c, <<w.fwd, w.sub - 1>>, "coef")
          BY <1>2 DEF PreLane
      <2>2. /\ \A b : ~Writes(i, b)
            /\ i.from = c /\ Wants(i) = <<w.fwd, w.sub - 1>> /\ Maker(i) = "coef"
            /\ ItemInPool(i, p)
          BY <2>1, InputItem
      <2> HIDE DEF i
      <2>3. r = Push(q, "main", i)
          BY DEF i
      <2> QED
          BY <1>0, <2>1, <2>2, <2>3, Sides, PushRead DEF IdleLane
  <1> QED
      BY <1>0, <1>1, <1>2

LEMMA LaunchHere ==
  ASSUME NEW q, NEW val, NEW p, p \in {"e", "g"}, NEW w, NEW c, NEW s, NEW d,
         PreLane(q, val, p, c, <<w.fwd, w.sub - 1>>), c \in Buffers(p) \cup {NoBuf},
         s \in Buffers(p), d \in Buffers(p), s # d
  PROVE  /\ IdleLane(Launched(q, <<Input(w, c)>>, << >>), val, p)
         /\ DoneLane(Launched(q, <<Input(w, c), Gemm(w, s), Coef(w, s, d)>>, << >>), val, p, d,
                     <<w.fwd, w.sub>>)
  <1> DEFINE i == Input(w, c)  g == Gemm(w, s)  k == Coef(w, s, d)
             q1 == Push(q, "main", i)  q2 == Push(q1, "main", g)  q3 == Push(q2, "main", k)
  <1>1. Streamed(q) /\ Streamed(q1) /\ IdleLane(q1, val, p)
      BY LaunchInput
  <1>2. /\ Streamed(q2) /\ Flow(q3, val, p) /\ Clear(q3, "main")
        /\ Sure(q3, val, "main", d, <<w.fwd, w.sub>>, "coef")
      <2>1. Flow(q1, val, p) /\ Clear(q1, "main")
          BY <1>1 DEF IdleLane
      <2> HIDE DEF q1
      <2> QED
          BY <2>1, Sides, PushHalf
  <1> HIDE DEF i, g, k
  <1>3. Streamed(q3)
      BY <1>2 DEF Flow
  <1>4. Launched(q, <<i>>, << >>) = q1
      BY <1>1, LaunchOne
  <1>5. Launched(q, <<i, g, k>>, << >>) = q3
      BY <1>1, LaunchThree
  <1> HIDE DEF q1, q2, q3
  <1> QED
      BY <1>1, <1>2, <1>4, <1>5 DEF i, g, k, DoneLane, IdleLane

\* The post, with nothing pending, or behind the half that was not forked, or
\* joining the half that was.
LEMMA LaunchPost ==
  ASSUME NEW q, NEW val, NEW p, p \in {"e", "g"}, NEW w, NEW c \in Buffers(p), NEW o,
         NEW r, r = Push(q, "main", Post(w, c, o)),
         DoneLane(q, val, p, c, <<w.fwd, w.sub>>)
  PROVE  Streamed(r) /\ DoneLane(r, val, p, c, <<w.fwd, w.sub>>)
  <1> DEFINE i == Post(w, c, o)  v == <<w.fwd, w.sub>>
  <1>1. /\ \A b : ~Writes(i, b)
        /\ i.from = c /\ Wants(i) = v /\ Maker(i) = "coef" /\ ItemInPool(i, p)
      BY PostItem
  <1> HIDE DEF i, v
  <1>2. r = Push(q, "main", i) /\ DoneLane(q, val, p, c, v)
      BY DEF i, v
  <1>3. Flow(q, val, p) /\ Clear(q, "main") /\ Sure(q, val, "main", c, v, "coef")
      BY <1>2 DEF DoneLane, IdleLane
  <1>4. Flow(r, val, p) /\ Clear(r, "main") /\ Sure(r, val, "main", c, v, "coef")
      BY <1>1, <1>2, <1>3, Sides, PushRead
  <1> QED
      BY <1>4 DEF DoneLane, IdleLane, Flow, v

LEMMA PostAlone ==
  ASSUME NEW q, NEW val, NEW p, p \in {"e", "g"}, NEW w, NEW c \in Buffers(p), NEW o,
         DoneLane(q, val, p, c, <<w.fwd, w.sub>>)
  PROVE  DoneLane(Launched(q, <<Post(w, c, o)>>, << >>), val, p, c, <<w.fwd, w.sub>>)
  <1> DEFINE i == Post(w, c, o)  r == Push(q, "main", i)
  <1>1. Streamed(q)
      BY DEF DoneLane, IdleLane, Flow
  <1>2. DoneLane(r, val, p, c, <<w.fwd, w.sub>>)
      BY LaunchPost
  <1> HIDE DEF i
  <1>3. Launched(q, <<i>>, << >>) = r
      BY <1>1, LaunchOne
  <1> QED
      BY <1>2, <1>3 DEF i

LEMMA PostSettles ==
  ASSUME NEW q, NEW val, NEW p, p \in {"e", "g"}, NEW w, NEW c \in Buffers(p), NEW o,
         NEW s \in Buffers(p), s # c, IdleLane(q, val, p)
  PROVE  DoneLane(Launched(q, <<Gemm(w, s), Coef(w, s, c), Post(w, c, o)>>, << >>), val, p, c,
                  <<w.fwd, w.sub>>)
  <1> DEFINE i == Post(w, c, o)  g == Gemm(w, s)  k == Coef(w, s, c)
             q1 == Push(q, "main", g)  q2 == Push(q1, "main", k)  q3 == Push(q2, "main", i)
             v == <<w.fwd, w.sub>>
  <1>1. Flow(q, val, p) /\ Clear(q, "main") /\ Streamed(q)
      BY DEF IdleLane, Flow
  <1>2. /\ Streamed(q1) /\ Flow(q2, val, p) /\ Clear(q2, "main")
        /\ Sure(q2, val, "main", c, v, "coef")
      BY <1>1, Sides, PushHalf
  <1>3. Streamed(q2) /\ DoneLane(q2, val, p, c, v)
      BY <1>2 DEF Flow, DoneLane, IdleLane
  <1>4. Streamed(q3) /\ DoneLane(q3, val, p, c, v)
      <2> HIDE DEF q2
      <2> QED
          BY <1>3, LaunchPost
  <1> HIDE DEF i, g, k
  <1>5. Launched(q, <<g, k, i>>, << >>) = q3
      BY <1>1, LaunchThree
  <1> HIDE DEF q1, q2, q3
  <1> QED
      BY <1>4, <1>5 DEF i, g, k, v

LEMMA PostJoins ==
  ASSUME NEW q, NEW val, NEW p, p \in {"e", "g"}, NEW w, NEW c \in Buffers(p), NEW o,
         NEW s, NEW ev, ForkedLane(q, val, p, s, c, <<w.fwd, w.sub>>)
  PROVE  DoneLane(Launched(q, <<Await(ev), Post(w, c, o)>>, <<Record(ev)>>), val, p, c,
                  <<w.fwd, w.sub>>)
  <1> DEFINE i == Post(w, c, o)  a == Await(ev)  d == Record(ev)
             q1 == Push(q, "side", d)  q2 == Push(q1, "main", a)  q3 == Push(q2, "main", i)
             v == <<w.fwd, w.sub>>
  <1>0. c # NoBuf
      BY DEF Buffers, NoBuf
  <1>1. Flow(q, val, p) /\ Streamed(q) /\ Sure(q, val, "side", c, v, "coef")
      BY DEF ForkedLane, Flow
  <1>2. Quiet(a) /\ Quiet(d)
      BY QuietItems
  <1>3. /\ Streamed(q1) /\ Streamed(q2) /\ Clear(q2, "main")
        /\ \A j \in 1 .. Len(q2["side"]) : Before(q2, "side", j, "main", Len(q2["main"]) + 1)
      BY <1>1, Sides, Synced
  <1> HIDE DEF a, d, i, v
  <1>4. Flow(q1, val, p) /\ Sure(q1, val, "side", c, v, "coef")
      BY <1>0, <1>1, <1>2, Sides, PushQuiet
  <1>5. Flow(q2, val, p) /\ Sure(q2, val, "side", c, v, "coef")
      <2> HIDE DEF q1
      <2> QED
          BY <1>0, <1>2, <1>4, Sides, PushQuiet
  <1>6. Sure(q2, val, "main", c, v, "coef")
      <2> HIDE DEF q2
      <2> QED
          BY <1>3, <1>5, Sides, SureCrosses
  <1>7. DoneLane(q2, val, p, c, v)
      <2> HIDE DEF q2
      <2> QED
          BY <1>3, <1>5, <1>6 DEF DoneLane, IdleLane
  <1>8. Streamed(q3) /\ DoneLane(q3, val, p, c, v)
      <2> HIDE DEF q2
      <2> QED
          BY <1>7, LaunchPost DEF i, v
  <1>9. Launched(q, <<a, i>>, <<d>>) = q3
      BY <1>1, LaunchJoin
  <1> HIDE DEF q1, q2, q3
  <1> QED
      BY <1>8, <1>9 DEF i, a, d, v

\* The all-reduce, with the forked half under way or without.
LEMMA PushHalfOnly ==
  ASSUME NEW q, Streamed(q), NEW t \in Lanes, NEW it, NEW r, r = Push(q, t, it), NEW s,
         HalfOnly(q, s), t = "side" => (Reads(it) => it.from = s)
  PROVE  HalfOnly(r, s)
  <1>0. /\ Len(q["main"]) + 1 \in Nat /\ Len(r["main"]) + 1 \in Nat
        /\ Len(q["main"]) + 1 <= Len(r["main"]) + 1
      <2>1. t = "main" \/ t = "side"
          BY DEF Lanes
      <2> QED
          BY <2>1, Sides, PushShape
  <1>1. ASSUME NEW j \in 1 .. Len(r["side"])
        PROVE  \/ Before(r, "side", j, "main", Len(r["main"]) + 1)
               \/ Reads(r["side"][j]) => r["side"][j].from = s
      <2>1. CASE t = "side" /\ j = Len(q[t]) + 1 /\ r["side"][j] = it
          BY <2>1
      <2>2. CASE j \in 1 .. Len(q["side"]) /\ r["side"][j] = q["side"][j]
          <3>1. CASE Before(q, "side", j, "main", Len(q["main"]) + 1)
              <4>1. j \in Nat \ {0}
                  BY <2>2
              <4> QED
                  BY <1>0, <3>1, <4>1, Sides, PushBefore
          <3> QED
              BY <2>2, <3>1 DEF HalfOnly
      <2> QED
          BY <2>1, <2>2, Sides, PushOld
  <1> QED
      BY <1>1 DEF HalfOnly

LEMMA PushColl ==
  ASSUME NEW q, NEW val, NEW p, Flow(q, val, p), NEW s, HalfOnly(q, s),
         NEW cm, NEW o \in Buffers(p), o # s, NEW r, r = Push(q, "main", Coll(cm, o))
  PROVE  /\ Flow(r, val, p) /\ HalfOnly(r, s)
         /\ Clear(q, "main") => Clear(r, "main")
         /\ \A t \in Lanes : \A b, v, k : b # o /\ Sure(q, val, t, b, v, k) => Sure(r, val, t, b, v, k)
  <1> DEFINE it == Coll(cm, o)
  <1>1. ~Reads(it) /\ (\A b : Writes(it, b) <=> b = o) /\ ItemInPool(it, p)
      BY CollItem
  <1> HIDE DEF it
  <1>2. r = Push(q, "main", it) /\ Streamed(q)
      BY DEF it, Flow
  <1>3. Flow(r, val, p)
      <2>1. \A j \in 1 .. Len(q["side"]) :
                Reads(q["side"][j]) /\ Writes(it, q["side"][j].from)
                    => Before(q, "side", j, "main", Len(q["main"]) + 1)
          BY <1>1 DEF HalfOnly
      <2> QED
          BY <1>1, <1>2, <2>1, Sides, PushFlow
  <1>4. HalfOnly(r, s)
      BY <1>2, Sides, PushHalfOnly
  <1>5. Clear(q, "main") => Clear(r, "main")
      BY <1>2, Sides, PushClear
  <1>6. \A t \in Lanes : \A b, v, k : b # o /\ Sure(q, val, t, b, v, k) => Sure(r, val, t, b, v, k)
      BY <1>1, <1>2, Sides, PushSure
  <1> QED
      BY <1>3, <1>4, <1>5, <1>6

LEMMA LaunchColl ==
  ASSUME NEW q, NEW val, NEW p, NEW cm, NEW o \in Buffers(p), NEW s, o # s,
         Flow(q, val, p), HalfOnly(q, s)
  PROVE  LET r == Launched(q, <<Coll(cm, o)>>, << >>) IN
         /\ Flow(r, val, p) /\ HalfOnly(r, s)
         /\ Clear(q, "main") => Clear(r, "main")
         /\ \A t \in Lanes : \A b, u, k :
               b # o /\ Sure(q, val, t, b, u, k) => Sure(r, val, t, b, u, k)
  <1> DEFINE it == Coll(cm, o)  m == Push(q, "main", it)
  <1>1. Streamed(q)
      BY DEF Flow
  <1>2. Launched(q, <<it>>, << >>) = m
      <2> HIDE DEF it
      <2> QED
          BY <1>1, LaunchOne
  <1>3. /\ Flow(m, val, p) /\ HalfOnly(m, s)
        /\ Clear(q, "main") => Clear(m, "main")
        /\ \A t \in Lanes : \A b, u, k :
              b # o /\ Sure(q, val, t, b, u, k) => Sure(m, val, t, b, u, k)
      BY PushColl
  <1> HIDE DEF m
  <1> QED
      BY <1>2, <1>3

\* An idle lane's side stream is all behind what main launches.
LEMMA IdleHalf ==
  ASSUME NEW q, NEW val, NEW p, IdleLane(q, val, p), NEW s
  PROVE  Flow(q, val, p) /\ HalfOnly(q, s) /\ Clear(q, "main")
  BY Sides DEF IdleLane, Flow, Clear, HalfOnly

LEMMA CollIdle ==
  ASSUME NEW q, NEW val, NEW p, NEW cm, NEW o \in Buffers(p), IdleLane(q, val, p)
  PROVE  IdleLane(Launched(q, <<Coll(cm, o)>>, << >>), val, p)
  <1> DEFINE r == Launched(q, <<Coll(cm, o)>>, << >>)
  <1>1. PICK s : o # s
      <2>1. o = <<o[1], o[2]>>
          BY DEF Buffers
      <2>2. o # << >>
          BY <2>1
      <2> QED
          BY <2>2
  <1>2. Flow(q, val, p) /\ HalfOnly(q, s) /\ Clear(q, "main")
      BY IdleHalf
  <1>3. Flow(r, val, p) /\ (Clear(q, "main") => Clear(r, "main"))
      BY <1>1, <1>2, LaunchColl
  <1> QED
      BY <1>2, <1>3 DEF IdleLane

LEMMA CollDone ==
  ASSUME NEW q, NEW val, NEW p, NEW cm, NEW o \in Buffers(p), NEW c, NEW v, o # c,
         DoneLane(q, val, p, c, v)
  PROVE  DoneLane(Launched(q, <<Coll(cm, o)>>, << >>), val, p, c, v)
  <1> DEFINE r == Launched(q, <<Coll(cm, o)>>, << >>)
  <1>1. IdleLane(q, val, p) /\ Sure(q, val, "main", c, v, "coef")
      BY DEF DoneLane
  <1>2. Flow(q, val, p) /\ HalfOnly(q, c)
      BY <1>1, IdleHalf
  <1>3. IdleLane(r, val, p)
      BY <1>1, CollIdle
  <1>4. Sure(r, val, "main", c, v, "coef")
      BY <1>1, <1>2, Sides, LaunchColl
  <1> QED
      BY <1>3, <1>4 DEF DoneLane

LEMMA CollForked ==
  ASSUME NEW q, NEW val, NEW p, NEW cm, NEW o \in Buffers(p), NEW s, NEW c, NEW v, o # s, o # c,
         ForkedLane(q, val, p, s, c, v)
  PROVE  ForkedLane(Launched(q, <<Coll(cm, o)>>, << >>), val, p, s, c, v)
  <1> DEFINE r == Launched(q, <<Coll(cm, o)>>, << >>)
  <1>1. Flow(q, val, p) /\ HalfOnly(q, s) /\ Sure(q, val, "side", c, v, "coef")
      BY DEF ForkedLane
  <1>2. Flow(r, val, p) /\ HalfOnly(r, s)
      BY <1>1, LaunchColl
  <1>3. Sure(r, val, "side", c, v, "coef")
      BY <1>1, Sides, LaunchColl
  <1> QED
      BY <1>2, <1>3 DEF ForkedLane

LEMMA LaunchForks ==
  ASSUME NEW q, NEW val, NEW p, p \in {"e", "g"}, NEW w, NEW s \in Buffers(p), NEW c \in Buffers(p),
         NEW o \in Buffers(p), s # c, o # s, o # c, NEW cm, NEW ev, IdleLane(q, val, p)
  PROVE  ForkedLane(Launched(q, <<Record(ev), Coll(cm, o)>>,
                                <<Await(ev), Gemm(w, s), Coef(w, s, c)>>),
                    val, p, s, c, <<w.fwd, w.sub>>)
  <1> DEFINE a == Record(ev)  b == Await(ev)  g == Gemm(w, s)  k == Coef(w, s, c)  e == Coll(cm, o)
             q1 == Push(q, "main", a)  q2 == Push(q1, "side", b)  q3 == Push(q2, "side", g)
             q4 == Push(q3, "side", k)  q5 == Push(q4, "main", e)
             v == <<w.fwd, w.sub>>
  <1>0. c # NoBuf /\ s # NoBuf
      BY DEF Buffers, NoBuf
  <1>1. Flow(q, val, p) /\ Streamed(q) /\ HalfOnly(q, s)
      BY Sides DEF IdleLane, Flow, Clear, HalfOnly
  <1>2. /\ Quiet(a) /\ Quiet(b) /\ ~Reads(b) /\ ~Reads(g) /\ k.from = s
      <2>1. Quiet(a) /\ Quiet(b)
          BY QuietItems
      <2>2. ~Reads(g)
          BY GemmItem
      <2>3. k.from = s
          BY DEF Coef
      <2> QED
          BY <2>1, <2>2, <2>3 DEF Quiet
  <1>3. Streamed(q1) /\ Streamed(q2) /\ Clear(q2, "side")
      BY <1>1, Sides, Synced
  <1> HIDE DEF a, b
  <1>4. Flow(q1, val, p) /\ HalfOnly(q1, s)
      BY <1>1, <1>2, Sides, PushQuiet, PushHalfOnly
  <1>5. Flow(q2, val, p) /\ HalfOnly(q2, s)
      <2> HIDE DEF q1
      <2> QED
          BY <1>2, <1>3, <1>4, Sides, PushQuiet, PushHalfOnly
  <1>6. /\ Streamed(q3) /\ Flow(q4, val, p) /\ Sure(q4, val, "side", c, v, "coef")
      <2> HIDE DEF q2
      <2> QED
          BY <1>3, <1>5, Sides, PushHalf
  <1> HIDE DEF g, k, v
  <1>7. HalfOnly(q3, s)
      <2> HIDE DEF q2
      <2> QED
          BY <1>2, <1>3, <1>5, Sides, PushHalfOnly
  <1>8. HalfOnly(q4, s)
      <2> HIDE DEF q3
      <2> QED
          BY <1>2, <1>6, <1>7, Sides, PushHalfOnly
  <1>9. Flow(q5, val, p) /\ HalfOnly(q5, s) /\ Sure(q5, val, "side", c, v, "coef")
      <2> HIDE DEF q4
      <2> QED
          BY <1>6, <1>8, Sides, PushColl
  <1> HIDE DEF e
  <1>10. Launched(q, <<a, e>>, <<b, g, k>>) = q5
      BY <1>1, LaunchFork
  <1> HIDE DEF q1, q2, q3, q4, q5
  <1> QED
      BY <1>9, <1>10 DEF ForkedLane, a, b, g, k, e, v

\* The lanes as the device works.
LEMMA PopLanes ==
  ASSUME NEW q, NEW s, NEW r, Pops(q, s, r), NEW val, NEW new, NEW p \in {"e", "g"},
         Leaves(q, s, val, new), NEW c \in Buffers(p) \cup {NoBuf}, NEW v, NEW h
  PROVE  /\ Flow(q, val, p) => Flow(r, new, p)
         /\ IdleLane(q, val, p) => IdleLane(r, new, p)
         /\ PreLane(q, val, p, c, v) => PreLane(r, new, p, c, v)
         /\ c # NoBuf /\ DoneLane(q, val, p, c, v) => DoneLane(r, new, p, c, v)
         /\ c # NoBuf /\ ForkedLane(q, val, p, h, c, v) => ForkedLane(r, new, p, h, c, v)
  <1>1. Flow(q, val, p) => Flow(r, new, p)
      BY PopFlow
  <1>0. c # NoBuf => c \in Bank
      BY DEF Buffers, Bank
  <1>2. c # NoBuf => \A t \in Lanes : Sure(q, val, t, c, v, "coef") => Sure(r, new, t, c, v, "coef")
      BY <1>0, PopSure
  <1>3. Clear(q, "main") => Clear(r, "main")
      BY Sides, PopClear
  <1>4. HalfOnly(q, h) => HalfOnly(r, h)
      <2> SUFFICES ASSUME HalfOnly(q, h), NEW j \in 1 .. Len(r["side"])
                   PROVE  \/ Before(r, "side", j, "main", Len(r["main"]) + 1)
                          \/ Reads(r["side"][j]) => r["side"][j].from = h
          BY DEF HalfOnly
      <2> DEFINE i == Len(r["main"]) + 1  l == Shift(s, "side", j)
      <2>1. /\ l \in 1 .. Len(q["side"]) /\ r["side"][j] = q["side"][l] /\ j \in Nat \ {0}
            /\ i \in Nat \ {0} /\ Shift(s, "main", i) = Len(q["main"]) + 1
          BY Sides, PopOld
      <2> HIDE DEF i, l
      <2>2. CASE Before(q, "side", l, "main", Len(q["main"]) + 1)
          <3>1. Before(q, "side", Shift(s, "side", j), "main", Shift(s, "main", i))
              BY <2>1, <2>2 DEF l
          <3>2. Before(r, "side", j, "main", i)
              BY <2>1, <3>1, Sides, PopBefore
          <3> QED
              BY <3>2 DEF i
      <2>3. CASE Reads(q["side"][l]) => q["side"][l].from = h
          BY <2>1, <2>3
      <2> QED
          BY <2>1, <2>2, <2>3 DEF HalfOnly
  <1> QED
      BY <1>1, <1>2, <1>3, <1>4, Sides DEF IdleLane, PreLane, DoneLane, ForkedLane

\* They only depend on the buffers of their pool.
LEMMA SameLanes ==
  ASSUME NEW q, NEW val, NEW new, NEW p, \A b \in Buffers(p) : new[b] = val[b],
         NEW c \in Buffers(p) \cup {NoBuf}, NEW v, NEW h
  PROVE  /\ Flow(q, val, p) => Flow(q, new, p)
         /\ IdleLane(q, val, p) => IdleLane(q, new, p)
         /\ PreLane(q, val, p, c, v) => PreLane(q, new, p, c, v)
         /\ c # NoBuf /\ DoneLane(q, val, p, c, v) => DoneLane(q, new, p, c, v)
         /\ c # NoBuf /\ ForkedLane(q, val, p, h, c, v) => ForkedLane(q, new, p, h, c, v)
  <1>1. Flow(q, val, p) => Flow(q, new, p)
      <2> SUFFICES ASSUME Flow(q, val, p) PROVE Flow(q, new, p)
          OBVIOUS
      <2>1. ASSUME NEW t \in Lanes, NEW i \in 1 .. Len(q[t]), Reads(q[t][i])
            PROVE  Served(q, new, t, i, q[t][i].from, Wants(q[t][i]), Maker(q[t][i]))
          <3>1. q[t][i].from \in Buffers(p)
              BY <2>1 DEF Flow, ItemInPool
          <3>2. Served(q, val, t, i, q[t][i].from, Wants(q[t][i]), Maker(q[t][i]))
              BY <2>1 DEF Flow
          <3> QED
              BY <3>1, <3>2 DEF Served
      <2> QED
          BY <2>1 DEF Flow
  <1>2. c # NoBuf => \A t \in Lanes : Sure(q, val, t, c, v, "coef") => Sure(q, new, t, c, v, "coef")
      BY DEF Sure
  <1> QED
      BY <1>1, <1>2, Sides DEF IdleLane, PreLane, DoneLane, ForkedLane

------------------------------------------------------------------------------
(* What a kernel does to the buffers.                                       *)

Memory(val) == val = [b \in Bank |-> val[b]]

LEMMA EffectLeaves ==
  ASSUME NEW q, NEW p \in {"e", "g"}, Flow(q, buf, p), Memory(buf), NEW s \in Lanes, q[s] # << >>,
         Ready(Head(q[s]), q[Sibling(s)]), NEW new, new = Effect(Head(q[s]))
  PROVE  /\ Leaves(q, s, buf, new) /\ Memory(new)
         /\ \A b \in Bank \ Buffers(p) : new[b] = buf[b]
  <1> DEFINE it == Head(q[s])
  <1>0. it = q[s][1] /\ ItemInPool(it, p)
      <2> DEFINE r == [q EXCEPT ![s] = Tail(q[s])]
      <2>1. Pops(q, s, r)
          BY DEF Pops, Flow
      <2>2. it = q[s][1] /\ 1 \in 1 .. Len(q[s])
          BY <2>1, PopShape
      <2> QED
          BY <2>2 DEF Flow
  <1>1. it.op = "coef" => buf[it.from] = Tag(it)
      <2>1. it.op = "coef" => Reads(it) /\ Wants(it) = Tag(it)
          BY DEF Reads, Wants, Tag
      <2> QED
          BY <2>1, HeadServed
  <1> HIDE DEF it
  <1>2. new = Effect(it)
      BY DEF it
  <1>3. \/ it.op \in {"gemm", "coef"} /\ new = [buf EXCEPT ![it.to] = Tag(it)] /\ it.to \in Buffers(p)
        \/ it.op = "coll" /\ it.to # NoBuf /\ new = [buf EXCEPT ![it.to] = <<"sum">>]
              /\ it.to \in Buffers(p)
        \/ it.op \notin {"gemm", "coef"} /\ (it.op = "coll" => it.to = NoBuf) /\ new = buf
      BY <1>0, <1>1, <1>2 DEF Effect, Tag, ItemInPool
  <1>4. Buffers(p) \subseteq Bank /\ NoBuf \notin Bank
      BY DEF Buffers, Bank, NoBuf
  <1>5. ASSUME NEW b \in Bank
        PROVE  /\ ~Writes(it, b) => new[b] = buf[b]
               /\ b \notin Buffers(p) => new[b] = buf[b]
               /\ \A v : \A k \in {"gemm", "coef"} :
                     it.op = k /\ it.to = b /\ Tag(it) = v => new[b] = v
      BY <1>3, <1>4, <1>5 DEF Memory, Writes
  <1>6. Memory(new)
      BY <1>3, <1>4 DEF Memory
  <1> QED
      BY <1>0, <1>5, <1>6 DEF Leaves, Makes

------------------------------------------------------------------------------
(* The allocator finds a buffer.                                            *)

\* A set of numbers that is not empty has a least one.
LEMMA LeastNumber ==
  ASSUME NEW S, S \subseteq Nat, S # {}
  PROVE  \E m \in S : \A d \in S : m <= d
  <1>1. IsWellFoundedOn(OpToRel(<, Nat), Nat)
      BY NatLessThanWellFounded
  <1>2. PICK m \in S : \A d \in S : ~(<<d, m>> \in OpToRel(<, Nat))
      BY <1>1, WFMin
  <1>3. \A d \in S : ~(d < m)
      BY <1>2 DEF OpToRel
  <1> QED
      BY <1>3

\* Three buffers in use leave one.
LEMMA FreeBuffer ==
  ASSUME NEW p, Pool = Buffers(p), NEW x, NEW y, NEW z, NEW held \in SUBSET {x, y, z}
  PROVE  FirstFree(held) \in Buffers(p) /\ FirstFree(held) \notin held
  <1> DEFINE S == {n \in 1 .. Bufs : <<p, n>> \notin held}
  <1>0. Bufs \in Nat /\ Bufs >= 4
      BY OverlapAssumption
  <1>1. S # {}
      <2>1. 1 \in 1 .. Bufs /\ 2 \in 1 .. Bufs /\ 3 \in 1 .. Bufs /\ 4 \in 1 .. Bufs
          BY <1>0
      <2>2. \E n \in {1, 2, 3, 4} : <<p, n>> \notin held
          OBVIOUS
      <2> QED
          BY <2>1, <2>2
  <1>a. S \subseteq Nat
      BY <1>0
  <1> HIDE DEF S
  <1>2. PICK m \in S : \A d \in S : m <= d
      BY <1>1, <1>a, LeastNumber
  <1> USE DEF S
  <1>3. <<p, m>> \in Pool \ held /\ \A d \in Pool \ held : <<p, m>>[2] <= d[2]
      <2>1. <<p, m>> \in Pool \ held
          BY DEF Buffers
      <2>2. ASSUME NEW d \in Pool \ held PROVE m <= d[2]
          <3>1. d = <<p, d[2]>> /\ d[2] \in 1 .. Bufs
              BY DEF Buffers
          <3> QED
              BY <1>2, <3>1
      <2> QED
          BY <2>1, <2>2
  <1>4. FirstFree(held) \in Pool \ held
      BY <1>3 DEF FirstFree
  <1> QED
      BY <1>4

------------------------------------------------------------------------------
(* Which operations the streams hold, and how a replay renames them.        *)

\* An operation of a forward's work: it is no replay, and one of a sublayer
\* names its forward and sublayer.
Node(it) ==
    \/ it.op \in {"record", "await", "coll"} /\ "at" \notin DOMAIN it
    \/ \E f, n, s, c : LET w == [fwd |-> f, sub |-> n] IN
          it \in {Gemm(w, s), Coef(w, s, c), Input(w, s), Post(w, s, c)}

Nodes(m) == IsSeq(m) /\ \A i \in 1 .. Len(m) : Node(m[i])

Known(q, replays) ==
    /\ Streamed(q)
    /\ \A t \in Lanes : \A i \in 1 .. Len(q[t]) :
          Node(q[t][i]) \/ (replays /\ q[t][i].op = "replay")

Renamed(it, f) == IF "at" \in DOMAIN it THEN [it EXCEPT !.at.fwd = f] ELSE it

LEMMA NodeItems ==
  ASSUME NEW f, NEW n, NEW s, NEW c, NEW ev, NEW cm, NEW w, w = [fwd |-> f, sub |-> n]
  PROVE  /\ Node(Gemm(w, s)) /\ Node(Coef(w, s, c)) /\ Node(Input(w, s)) /\ Node(Post(w, s, c))
         /\ Node(Record(ev)) /\ Node(Await(ev)) /\ Node(Coll(cm, c))
  <1>1. Node(Gemm(w, s)) /\ Node(Coef(w, s, c)) /\ Node(Input(w, s)) /\ Node(Post(w, s, c))
      BY Zenon DEF Node
  <1>2. Node(Record(ev)) /\ Node(Await(ev)) /\ Node(Coll(cm, c))
      BY DEF Node, Record, Await, Coll
  <1> QED
      BY <1>1, <1>2

LEMMA NodeSeqs ==
  ASSUME NEW a, NEW b, NEW c, Node(a), Node(b), Node(c)
  PROVE  Nodes(<< >>) /\ Nodes(<<a>>) /\ Nodes(<<a, b>>) /\ Nodes(<<a, b, c>>)
  <1>1. << >> \in Seq({a, b, c}) /\ <<a>> \in Seq({a, b, c}) /\ <<a, b>> \in Seq({a, b, c})
        /\ <<a, b, c>> \in Seq({a, b, c})
      OBVIOUS
  <1>2. IsSeq(<< >>) /\ IsSeq(<<a>>) /\ IsSeq(<<a, b>>) /\ IsSeq(<<a, b, c>>)
      BY <1>1, SeqIsSeq
  <1> QED
      BY <1>2 DEF Nodes

\* What a concatenation holds.
LEMMA CatParts ==
  ASSUME NEW x, IsSeq(x), NEW m, IsSeq(m)
  PROVE  /\ IsSeq(x \o m) /\ Len(x \o m) = Len(x) + Len(m) /\ Len(x) \in Nat /\ Len(m) \in Nat
         /\ \A i \in 1 .. Len(x) : (x \o m)[i] = x[i]
         /\ \A i \in 1 .. Len(m) : (x \o m)[Len(x) + i] = m[i]
  <1> DEFINE S == {x[i] : i \in DOMAIN x} \cup {m[i] : i \in DOMAIN m}
  <1>1. x \in Seq(S) /\ m \in Seq(S)
      BY SeqMonotonic DEF IsSeq
  <1> HIDE DEF S
  <1>2. /\ x \o m \in Seq(S) /\ Len(x \o m) = Len(x) + Len(m)
        /\ \A i \in 1 .. Len(x) + Len(m) :
              (x \o m)[i] = IF i <= Len(x) THEN x[i] ELSE m[i - Len(x)]
      BY <1>1, ConcatProperties
  <1>3. Len(x) \in Nat /\ Len(m) \in Nat
      BY <1>1, LenProperties
  <1>4. IsSeq(x \o m)
      BY <1>2, SeqIsSeq
  <1>5. \A i \in 1 .. Len(m) : (x \o m)[Len(x) + i] = m[i]
      <2> TAKE i \in 1 .. Len(m)
      <2>1. Len(x) + i \in 1 .. Len(x) + Len(m) /\ ~(Len(x) + i <= Len(x)) /\ Len(x) + i - Len(x) = i
          BY <1>3
      <2> QED
          BY <1>2, <2>1
  <1> QED
      BY <1>2, <1>3, <1>4, <1>5

LEMMA CatNodes ==
  ASSUME NEW x, IsSeq(x), NEW m, Nodes(m), NEW b,
         \A i \in 1 .. Len(x) : Node(x[i]) \/ (b /\ x[i].op = "replay")
  PROVE  /\ IsSeq(x \o m)
         /\ \A i \in 1 .. Len(x \o m) : Node((x \o m)[i]) \/ (b /\ (x \o m)[i].op = "replay")
  <1>0. IsSeq(m) /\ \A i \in 1 .. Len(m) : Node(m[i])
      BY DEF Nodes
  <1>1. /\ IsSeq(x \o m) /\ Len(x \o m) = Len(x) + Len(m) /\ Len(x) \in Nat /\ Len(m) \in Nat
        /\ \A i \in 1 .. Len(x) : (x \o m)[i] = x[i]
        /\ \A i \in 1 .. Len(m) : (x \o m)[Len(x) + i] = m[i]
      BY <1>0, CatParts
  <1>2. ASSUME NEW i \in 1 .. Len(x \o m)
        PROVE  Node((x \o m)[i]) \/ (b /\ (x \o m)[i].op = "replay")
      <2>1. CASE i \in 1 .. Len(x)
          BY <1>1, <2>1
      <2>2. CASE i \notin 1 .. Len(x)
          <3>1. PICK j \in 1 .. Len(m) : i = Len(x) + j
              <4>1. i - Len(x) \in 1 .. Len(m) /\ i = Len(x) + (i - Len(x))
                  BY <1>1, <2>2
              <4> QED
                  BY <4>1
          <3> QED
              BY <1>0, <1>1, <3>1
      <2> QED
          BY <2>1, <2>2
  <1> QED
      BY <1>1, <1>2

LEMMA LaunchKnown ==
  ASSUME NEW q, NEW b, Known(q, b), NEW m, Nodes(m), NEW s, Nodes(s)
  PROVE  Known(Launched(q, m, s), b)
  <1> DEFINE r == Launched(q, m, s)
  <1>1. IsSeq(q.main) /\ IsSeq(q.side)
      BY DEF Known, Streamed, Lanes
  <1>2. /\ IsSeq(q.main \o m)
        /\ \A i \in 1 .. Len(q.main \o m) :
              Node((q.main \o m)[i]) \/ (b /\ (q.main \o m)[i].op = "replay")
      BY <1>1, CatNodes DEF Known, Lanes
  <1>3. /\ IsSeq(q.side \o s)
        /\ \A i \in 1 .. Len(q.side \o s) :
              Node((q.side \o s)[i]) \/ (b /\ (q.side \o s)[i].op = "replay")
      BY <1>1, CatNodes DEF Known, Lanes
  <1>4. r["main"] = q.main \o m /\ r["side"] = q.side \o s /\ r = [t \in Lanes |-> r[t]]
      BY DEF Launched, Lanes
  <1> HIDE DEF r
  <1>5. ASSUME NEW t \in Lanes
        PROVE  IsSeq(r[t]) /\ \A i \in 1 .. Len(r[t]) : Node(r[t][i]) \/ (b /\ r[t][i].op = "replay")
      <2>1. t = "main" \/ t = "side"
          BY DEF Lanes
      <2> QED
          BY <1>2, <1>3, <1>4, <2>1
  <1> QED
      BY <1>4, <1>5 DEF Known, Streamed, r

LEMMA PushKnown ==
  ASSUME NEW q, NEW b, Known(q, b), NEW s \in Lanes, NEW it, Node(it) \/ (b /\ it.op = "replay"),
         NEW r, r = Push(q, s, it)
  PROVE  Known(r, b)
  <1>1. Streamed(q)
      BY DEF Known
  <1>2. ASSUME NEW t \in Lanes, NEW i \in 1 .. Len(r[t])
        PROVE  Node(r[t][i]) \/ (b /\ r[t][i].op = "replay")
      <2>1. r[t][i] = it \/ (i \in 1 .. Len(q[t]) /\ r[t][i] = q[t][i])
          BY <1>1, PushOld
      <2> QED
          BY <2>1 DEF Known
  <1> QED
      BY <1>1, <1>2, PushShape DEF Known

LEMMA PopKnown ==
  ASSUME NEW q, NEW s, NEW r, Pops(q, s, r), NEW b, Known(q, b)
  PROVE  Known(r, b)
  <1>1. ASSUME NEW t \in Lanes, NEW i \in 1 .. Len(r[t])
        PROVE  Node(r[t][i]) \/ (b /\ r[t][i].op = "replay")
      <2>1. Shift(s, t, i) \in 1 .. Len(q[t]) /\ r[t][i] = q[t][Shift(s, t, i)]
          BY PopOld
      <2> QED
          BY <2>1 DEF Known
  <1> QED
      BY <1>1, PopShape DEF Known

\* A renamed operation is the same one for another forward.
LEMMA RenamedNode ==
  ASSUME NEW it, Node(it), NEW f, NEW n, n = Renamed(it, f)
  PROVE  /\ n.op = it.op /\ (it.op \in {"record", "await", "coll"} => n = it)
         /\ \A b : Writes(n, b) => Writes(it, b)
         /\ Reads(n) => Reads(it) /\ n.from = it.from /\ Wants(n) = <<f, Wants(it)[2]>>
         /\ it.op \in {"gemm", "coef"} => n.to = it.to /\ Tag(n) = <<f, Tag(it)[2]>>
  <1>1. CASE it.op \in {"record", "await", "coll"} /\ "at" \notin DOMAIN it
      BY <1>1 DEF Renamed, Reads, Writes
  <1>2. ASSUME NEW g, NEW k, NEW s, NEW c, NEW w, w = [fwd |-> g, sub |-> k],
               it \in {Gemm(w, s), Coef(w, s, c), Input(w, s), Post(w, s, c)}
        PROVE  /\ n.op = it.op /\ it.op \notin {"record", "await", "coll"}
               /\ \A b : Writes(n, b) => Writes(it, b)
               /\ Reads(n) => Reads(it) /\ n.from = it.from /\ Wants(n) = <<f, Wants(it)[2]>>
               /\ it.op \in {"gemm", "coef"} => n.to = it.to /\ Tag(n) = <<f, Tag(it)[2]>>
      <2>1. [w EXCEPT !.fwd = f] = [fwd |-> f, sub |-> k]
          BY <1>2
      <2>2. CASE it = Gemm(w, s)
          <3>1. n = Gemm([fwd |-> f, sub |-> k], s)
              BY <1>2, <2>2 DEF Gemm, Renamed
          <3> QED
              BY <1>2, <2>2, <3>1 DEF Gemm, Tag, Reads, Writes
      <2>3. CASE it = Coef(w, s, c)
          <3>1. n = Coef([fwd |-> f, sub |-> k], s, c)
              BY <1>2, <2>3 DEF Coef, Renamed
          <3> QED
              BY <1>2, <2>3, <3>1 DEF Coef, Tag, Wants, Reads, Writes
      <2>4. CASE it = Input(w, s)
          <3>1. n = Input([fwd |-> f, sub |-> k], s)
              BY <1>2, <2>4 DEF Input, Renamed
          <3> QED
              BY <1>2, <2>4, <3>1 DEF Input, Wants, Reads, Writes
      <2>5. CASE it = Post(w, s, c)
          <3>1. n = Post([fwd |-> f, sub |-> k], s, c)
              BY <1>2, <2>5 DEF Post, Renamed
          <3> QED
              BY <1>2, <2>5, <3>1 DEF Post, Wants, Reads, Writes
      <2> QED
          BY <1>2, <2>2, <2>3, <2>4, <2>5
  <1> QED
      BY <1>1, <1>2 DEF Node

\* What every buffer holds before a graph has run.
Blank == [b \in Bank |-> <<"free">>]

Renaming(q, f) == [t \in Lanes |-> [i \in DOMAIN q[t] |-> Renamed(q[t][i], f)]]

\* The nodes of the graph whose values are still to be made are served under
\* every name, whatever the buffers hold.
LEMMA ReplayFlow ==
  ASSUME NEW q, NEW p \in {"e", "g"}, Flow(q, Blank, p), Known(q, FALSE), NEW f, NEW val,
         NEW r, r = Renaming(q, f)
  PROVE  Flow(r, val, p)
  <1>1. ASSUME NEW t \in Lanes
        PROVE  /\ IsSeq(r[t]) /\ Len(r[t]) = Len(q[t]) /\ Len(q[t]) \in Nat
               /\ \A i \in 1 .. Len(q[t]) : r[t][i] = Renamed(q[t][i], f) /\ Node(q[t][i])
      <2>1. DOMAIN q[t] = 1 .. Len(q[t]) /\ Len(q[t]) \in Nat
          BY StreamFacts DEF Flow
      <2>2. r[t] = [i \in 1 .. Len(q[t]) |-> Renamed(q[t][i], f)]
          BY <2>1 DEF Renaming
      <2>3. IsSeq(r[t]) /\ Len(r[t]) = Len(q[t])
          BY <2>1, <2>2 DEF IsSeq
      <2> QED
          BY <2>1, <2>2, <2>3 DEF Known
  <1>2. Streamed(r)
      BY <1>1 DEF Streamed, Renaming
  <1>3. ASSUME NEW t \in Lanes, NEW u \in Lanes, NEW i \in Nat \ {0}, NEW j \in Nat \ {0},
               Before(q, t, i, u, j)
        PROVE  Before(r, t, i, u, j)
      <2>1. CASE t = u
          BY <1>3, <2>1 DEF Before
      <2>2. CASE t # u
          <3>1. PICK l \in i .. Len(q[t]), h \in 1 .. Len(q[u]) :
                    h <= j /\ q[u][h].op = "await" /\ q[t][l] = Record(q[u][h].ev)
              BY <1>3, <2>2 DEF Before
          <3>2. l \in 1 .. Len(q[t]) /\ l \in i .. Len(r[t]) /\ h \in 1 .. Len(r[u])
              BY <1>1, <3>1
          <3>3. r[u][h] = q[u][h]
              BY <1>1, <3>1, RenamedNode
          <3>4. r[t][l] = q[t][l]
              <4>1. q[t][l].op = "record"
                  BY <3>1 DEF Record
              <4> QED
                  BY <1>1, <3>2, <4>1, RenamedNode
          <3> QED
              BY <2>2, <3>1, <3>2, <3>3, <3>4 DEF Before
      <2> QED
          BY <2>1, <2>2
  <1>4. ASSUME NEW u \in Lanes, NEW h \in 1 .. Len(q[u]), NEW b, NEW v, NEW k \in {"gemm", "coef"},
               Makes(q, u, h, b, v, k)
        PROVE  Makes(r, u, h, b, <<f, v[2]>>, k)
      <2>1. r[u][h] = Renamed(q[u][h], f) /\ Node(q[u][h])
          BY <1>1
      <2>2. q[u][h].op = k /\ q[u][h].to = b /\ Tag(q[u][h]) = v
          BY <1>4 DEF Makes
      <2>3. r[u][h].op = k /\ r[u][h].to = b /\ Tag(r[u][h]) = <<f, v[2]>>
          BY <2>1, <2>2, RenamedNode
      <2> QED
          BY <2>3 DEF Makes
  <1>5. ASSUME NEW t \in Lanes, NEW i \in 1 .. Len(r[t])
        PROVE  /\ i \in 1 .. Len(q[t])
               /\ ItemInPool(r[t][i], p)
               /\ Maker(r[t][i]) = Maker(q[t][i]) /\ Maker(q[t][i]) \in {"gemm", "coef"}
               /\ \A b : Writes(r[t][i], b) => Writes(q[t][i], b)
               /\ Reads(r[t][i]) => /\ Reads(q[t][i]) /\ r[t][i].from = q[t][i].from
                                    /\ Wants(r[t][i]) = <<f, Wants(q[t][i])[2]>>
      <2>1. i \in 1 .. Len(q[t]) /\ r[t][i] = Renamed(q[t][i], f) /\ Node(q[t][i])
          BY <1>1
      <2>2. ItemInPool(q[t][i], p)
          BY <2>1 DEF Flow
      <2> DEFINE it == q[t][i]  n == r[t][i]
      <2>3. /\ n.op = it.op /\ (it.op \in {"record", "await", "coll"} => n = it)
            /\ \A b : Writes(n, b) => Writes(it, b)
            /\ Reads(n) => Reads(it) /\ n.from = it.from /\ Wants(n) = <<f, Wants(it)[2]>>
            /\ it.op \in {"gemm", "coef"} => n.to = it.to
          BY <2>1, RenamedNode
      <2> HIDE DEF it, n
      <2>4. ItemInPool(it, p)
          BY <2>2 DEF it
      <2>5. ItemInPool(n, p)
          BY <2>3, <2>4 DEF ItemInPool
      <2>6. Maker(n) = Maker(it) /\ Maker(it) \in {"gemm", "coef"}
          BY <2>3 DEF Maker
      <2> QED
          BY <2>1, <2>3, <2>5, <2>6 DEF it, n
  <1>6. ASSUME NEW t \in Lanes, NEW i \in 1 .. Len(r[t]), Reads(r[t][i])
        PROVE  Served(r, val, t, i, r[t][i].from, Wants(r[t][i]), Maker(r[t][i]))
      <2> DEFINE b == q[t][i].from  v == Wants(q[t][i])  k == Maker(q[t][i])  w == <<f, v[2]>>
      <2>1. /\ Reads(q[t][i]) /\ r[t][i].from = b /\ Wants(r[t][i]) = w /\ Maker(r[t][i]) = k
            /\ k \in {"gemm", "coef"} /\ i \in 1 .. Len(q[t]) /\ i \in Nat \ {0}
          BY <1>5, <1>6
      <2>2. Served(q, Blank, t, i, b, v, k) /\ b \in Buffers(p)
          BY <2>1 DEF Flow, ItemInPool
      <2>3. Blank[b] # v
          <3>1. Blank[b] = <<"free">> /\ v = <<v[1], v[2]>>
              BY <2>2 DEF Blank, Bank, Buffers, Wants
          <3> QED
              BY <3>1
      <2> HIDE DEF b, v, k
      <2>4. Made(q, t, i, b, v, k)
          BY <2>2, <2>3 DEF Served
      <2>m. PICK u \in Lanes : \E h \in 1 .. Len(q[u]) :
                Makes(q, u, h, b, v, k) /\ Before(q, u, h, t, i)
          BY <2>4 DEF Made
      <2>5. PICK h \in 1 .. Len(q[u]) : Makes(q, u, h, b, v, k) /\ Before(q, u, h, t, i)
          BY <2>m
      <2>6. Made(r, t, i, b, w, k)
          <3>1. h \in 1 .. Len(r[u]) /\ h \in Nat \ {0} /\ Makes(r, u, h, b, w, k)
              BY <1>1, <1>4, <2>1, <2>5
          <3>2. Before(r, u, h, t, i)
              BY <1>3, <2>1, <2>5, <3>1
          <3> QED
              BY <3>1, <3>2 DEF Made
      <2>7. ASSUME NEW x \in Lanes, NEW j \in 1 .. Len(r[x]), Writes(r[x][j], b)
            PROVE  Before(r, t, i, x, j) \/ Covered(r, x, j, t, i, b, w, k)
          <3>1. j \in 1 .. Len(q[x]) /\ j \in Nat \ {0} /\ Writes(q[x][j], b)
              <4>1. j \in 1 .. Len(q[x]) /\ \A d : Writes(r[x][j], d) => Writes(q[x][j], d)
                  BY <1>5
              <4> QED
                  BY <2>7, <4>1
          <3>2. CASE Before(q, t, i, x, j)
              BY <1>3, <2>1, <3>1, <3>2
          <3>3. CASE Covered(q, x, j, t, i, b, v, k)
              <4>m. PICK y \in Lanes : \E g \in 1 .. Len(q[y]) :
                      /\ Makes(q, y, g, b, v, k) /\ Before(q, y, g, t, i)
                      /\ <<x, j>> = <<y, g>> \/ Before(q, x, j, y, g)
                  BY <3>3 DEF Covered
              <4>1. PICK g \in 1 .. Len(q[y]) :
                      /\ Makes(q, y, g, b, v, k) /\ Before(q, y, g, t, i)
                      /\ <<x, j>> = <<y, g>> \/ Before(q, x, j, y, g)
                  BY <4>m
              <4>2. g \in 1 .. Len(r[y]) /\ g \in Nat \ {0} /\ Makes(r, y, g, b, w, k)
                  <5>1. Len(r[y]) = Len(q[y])
                      BY <1>1
                  <5>2. Makes(r, y, g, b, w, k)
                      BY <1>4, <2>1, <4>1
                  <5> QED
                      BY <5>1, <5>2
              <4>3. Before(r, y, g, t, i)
                  BY <1>3, <2>1, <4>1, <4>2
              <4>4. <<x, j>> = <<y, g>> \/ Before(r, x, j, y, g)
                  BY <1>3, <3>1, <4>1, <4>2
              <4> QED
                  BY <4>2, <4>3, <4>4 DEF Covered
          <3> QED
              BY <2>2, <3>1, <3>2, <3>3 DEF Served
      <2> QED
          BY <2>1, <2>6, <2>7 DEF Served
  <1> QED
      BY <1>2, <1>5, <1>6 DEF Flow

------------------------------------------------------------------------------
(* The records and the waits of a capture.                                  *)

Awaited(q) ==
    \A i \in DOMAIN q.main : q.main[i].op = "await" =>
        \E j \in DOMAIN q.side : q.side[j] = Record(q.main[i].ev)

Joined(q) ==
    q.side # << >> =>
        \E i \in DOMAIN q.main :
            q.main[i].op = "await" /\ Last(q.side) = Record(q.main[i].ev)

LEMMA SeqPlaces ==
  ASSUME NEW x, IsSeq(x)
  PROVE  DOMAIN x = 1 .. Len(x) /\ Len(x) \in Nat /\ (x # << >> <=> Len(x) # 0)
  <1> DEFINE S == {x[i] : i \in DOMAIN x}
  <1>1. x \in Seq(S)
      BY DEF IsSeq
  <1> HIDE DEF S
  <1> QED
      BY <1>1, EmptySeq, LenProperties

LEMMA LaunchPlaces ==
  ASSUME NEW q, Streamed(q), NEW m, IsSeq(m), NEW s, IsSeq(s), NEW r, r = Launched(q, m, s)
  PROVE  /\ DOMAIN r.main = 1 .. Len(q.main) + Len(m) /\ DOMAIN r.side = 1 .. Len(q.side) + Len(s)
         /\ Len(r.side) = Len(q.side) + Len(s) /\ (r.side # << >> <=> Len(r.side) # 0)
         /\ DOMAIN q.main = 1 .. Len(q.main) /\ DOMAIN q.side = 1 .. Len(q.side)
         /\ Len(q.main) \in Nat /\ Len(q.side) \in Nat /\ Len(m) \in Nat /\ Len(s) \in Nat
         /\ \A i \in 1 .. Len(q.main) : r.main[i] = q.main[i]
         /\ \A i \in 1 .. Len(q.side) : r.side[i] = q.side[i]
         /\ \A i \in 1 .. Len(m) : r.main[Len(q.main) + i] = m[i]
         /\ \A i \in 1 .. Len(s) : r.side[Len(q.side) + i] = s[i]
  <1>1. IsSeq(q.main) /\ IsSeq(q.side) /\ r.main = q.main \o m /\ r.side = q.side \o s
      BY DEF Streamed, Lanes, Launched
  <1>2. /\ IsSeq(r.main) /\ Len(r.main) = Len(q.main) + Len(m)
        /\ \A i \in 1 .. Len(q.main) : r.main[i] = q.main[i]
        /\ \A i \in 1 .. Len(m) : r.main[Len(q.main) + i] = m[i]
      <2> DEFINE x == q.main
      <2> HIDE DEF x
      <2>1. IsSeq(x) /\ r.main = x \o m
          BY <1>1 DEF x
      <2>2. /\ IsSeq(x \o m) /\ Len(x \o m) = Len(x) + Len(m)
            /\ \A i \in 1 .. Len(x) : (x \o m)[i] = x[i]
            /\ \A i \in 1 .. Len(m) : (x \o m)[Len(x) + i] = m[i]
          BY <2>1, CatParts
      <2> QED
          BY <2>1, <2>2 DEF x
  <1>3. /\ IsSeq(r.side) /\ Len(r.side) = Len(q.side) + Len(s)
        /\ \A i \in 1 .. Len(q.side) : r.side[i] = q.side[i]
        /\ \A i \in 1 .. Len(s) : r.side[Len(q.side) + i] = s[i]
      <2> DEFINE x == q.side
      <2> HIDE DEF x
      <2>1. IsSeq(x) /\ r.side = x \o s
          BY <1>1 DEF x
      <2>2. /\ IsSeq(x \o s) /\ Len(x \o s) = Len(x) + Len(s)
            /\ \A i \in 1 .. Len(x) : (x \o s)[i] = x[i]
            /\ \A i \in 1 .. Len(s) : (x \o s)[Len(x) + i] = s[i]
          BY <2>1, CatParts
      <2> QED
          BY <2>1, <2>2 DEF x
  <1>4. DOMAIN r.main = 1 .. Len(r.main) /\ DOMAIN r.side = 1 .. Len(r.side)
        /\ (r.side # << >> <=> Len(r.side) # 0)
      BY <1>2, <1>3, SeqPlaces
  <1>5. /\ DOMAIN q.main = 1 .. Len(q.main) /\ DOMAIN q.side = 1 .. Len(q.side)
        /\ Len(q.main) \in Nat /\ Len(q.side) \in Nat
      BY <1>1, SeqPlaces
  <1>6. Len(m) \in Nat /\ Len(s) \in Nat
      BY SeqPlaces
  <1> QED
      BY <1>2, <1>3, <1>4, <1>5, <1>6

LEMMA LaunchAwaited ==
  ASSUME NEW q, Streamed(q), NEW m, IsSeq(m), NEW s, IsSeq(s), NEW r, r = Launched(q, m, s),
         Awaited(q),
         \A i \in 1 .. Len(m) : m[i].op = "await" => \E j \in 1 .. Len(s) : s[j] = Record(m[i].ev)
  PROVE  Awaited(r)
  <1> SUFFICES ASSUME NEW i \in DOMAIN r.main, r.main[i].op = "await"
               PROVE  \E j \in DOMAIN r.side : r.side[j] = Record(r.main[i].ev)
      BY DEF Awaited
  <1>1. CASE i \in 1 .. Len(q.main)
      <2>1. r.main[i] = q.main[i] /\ i \in DOMAIN q.main
          BY <1>1, LaunchPlaces
      <2>2. PICK j \in DOMAIN q.side : q.side[j] = Record(q.main[i].ev)
          BY <2>1 DEF Awaited
      <2>3. j \in DOMAIN r.side /\ r.side[j] = q.side[j]
          <3>1. /\ DOMAIN r.side = 1 .. Len(q.side) + Len(s) /\ DOMAIN q.side = 1 .. Len(q.side)
                /\ Len(q.side) \in Nat /\ Len(s) \in Nat
                /\ \A k \in 1 .. Len(q.side) : r.side[k] = q.side[k]
              BY LaunchPlaces
          <3> QED
              BY <3>1
      <2> QED
          BY <2>1, <2>2, <2>3
  <1>2. CASE i \notin 1 .. Len(q.main)
      <2>1. PICK k \in 1 .. Len(m) : i = Len(q.main) + k
          <3>1. i \in 1 .. Len(q.main) + Len(m) /\ Len(q.main) \in Nat /\ Len(m) \in Nat
              BY LaunchPlaces
          <3>2. i - Len(q.main) \in 1 .. Len(m) /\ i = Len(q.main) + (i - Len(q.main))
              BY <1>2, <3>1
          <3> QED
              BY <3>2
      <2>2. r.main[i] = m[k]
          BY <2>1, LaunchPlaces
      <2>3. PICK j \in 1 .. Len(s) : s[j] = Record(m[k].ev)
          BY <2>2
      <2>4. Len(q.side) + j \in DOMAIN r.side /\ r.side[Len(q.side) + j] = s[j]
          BY LaunchPlaces
      <2> QED
          BY <2>2, <2>3, <2>4
  <1> QED
      BY <1>1, <1>2

\* Nothing is launched beside it, or what is ends with an awaited record.
LEMMA LaunchJoined ==
  ASSUME NEW q, Streamed(q), NEW m, IsSeq(m), NEW s, IsSeq(s), NEW r, r = Launched(q, m, s),
         \/ Joined(q) /\ s = << >>
         \/ Len(s) # 0 /\ \E i \in 1 .. Len(m) : m[i].op = "await" /\ s[Len(s)] = Record(m[i].ev)
  PROVE  Joined(r)
  <1>0. Last(r.side) = r.side[Len(r.side)] /\ Last(q.side) = q.side[Len(q.side)]
      BY DEF Last
  <1>1. CASE Joined(q) /\ s = << >>
      <2>1. Len(s) = 0
          BY <1>1, SeqPlaces
      <2>2. r.side = q.side
          <3>1. IsSeq(q.side) /\ r.side = q.side \o s
              BY DEF Streamed, Lanes, Launched
          <3> QED
              BY <1>1, <3>1, CatAppends
      <2> SUFFICES ASSUME r.side # << >>
                   PROVE  \E i \in DOMAIN r.main :
                             r.main[i].op = "await" /\ Last(r.side) = Record(r.main[i].ev)
          BY DEF Joined
      <2>3. PICK i \in DOMAIN q.main : q.main[i].op = "await" /\ Last(q.side) = Record(q.main[i].ev)
          BY <1>1, <2>2 DEF Joined
      <2>4. i \in DOMAIN r.main /\ r.main[i] = q.main[i]
          <3>1. /\ DOMAIN r.main = 1 .. Len(q.main) + Len(m) /\ DOMAIN q.main = 1 .. Len(q.main)
                /\ Len(q.main) \in Nat /\ Len(m) \in Nat
                /\ \A k \in 1 .. Len(q.main) : r.main[k] = q.main[k]
              BY LaunchPlaces
          <3> QED
              BY <3>1
      <2> QED
          BY <2>2, <2>3, <2>4
  <1>2. ASSUME Len(s) # 0, NEW i \in 1 .. Len(m), m[i].op = "await", s[Len(s)] = Record(m[i].ev)
        PROVE  Joined(r)
      <2>1. Len(q.main) + i \in DOMAIN r.main /\ r.main[Len(q.main) + i] = m[i]
          BY LaunchPlaces
      <2>2. Last(r.side) = s[Len(s)]
          <3>1. /\ Len(s) \in 1 .. Len(s) /\ Len(r.side) = Len(q.side) + Len(s)
                /\ \A k \in 1 .. Len(s) : r.side[Len(q.side) + k] = s[k]
              BY <1>2, LaunchPlaces
          <3> QED
              BY <1>0, <3>1
      <2> QED
          BY <1>2, <2>1, <2>2 DEF Joined
  <1> QED
      BY <1>1, <1>2

\* The sequences the host puts together.
LEMMA ShortCats ==
  ASSUME NEW a, NEW b, NEW c
  PROVE  /\ << >> \o <<a>> = <<a>> /\ << >> \o <<a>> \o << >> = <<a>>
         /\ << >> \o <<a>> \o <<b, c>> = <<a, b, c>>
         /\ <<a>> \o <<b>> = <<a, b>> /\ <<a, b>> \o <<c>> = <<a, b, c>>
  <1>1. << >> \in Seq({a, b, c}) /\ <<a>> \in Seq({a, b, c}) /\ <<a, b>> \in Seq({a, b, c})
      OBVIOUS
  <1>2. IsSeq(<< >>) /\ IsSeq(<<a>>) /\ IsSeq(<<a, b>>)
      BY <1>1, SeqIsSeq
  <1>3. << >> \o <<a>> = <<a>>
      <2>1. << >> \o <<a>> = Append(<< >>, a)
          BY <1>2, CatAppends
      <2> QED
          BY <2>1
  <1>4. <<a>> \o << >> = <<a>>
      BY <1>2, CatAppends
  <1> QED
      BY <1>3, <1>4, TupleCats

------------------------------------------------------------------------------
(* The invariant.                                                           *)

\* The pool the host allocates from within a forward.
Own == IF mode = "capture" THEN "g" ELSE "e"

\* The pending half is of this sublayer, and keeps its buffers from reuse.
Half ==
    /\ pending = [at |-> Here, scratch |-> pending.scratch, coef |-> local.coef,
                  keep |-> pending.keep, forked |-> pending.forked,
                  capturing |-> (mode = "capture")]
    /\ pending.forked \in BOOLEAN
    /\ pending.scratch \in Buffers(Own) /\ pending.scratch # local.coef
    /\ \E x : pending.keep = {pending.scratch, local.coef, x}

HostInv ==
    /\ ~refused
    /\ local = [coef |-> local.coef, out |-> local.out]
    /\ fwd \in Nat /\ sub \in Nat
    /\ pc \in {"install", "groups", "load", "idle"} => local.coef = NoBuf
    /\ pc = "pre" => local.coef \in Buffers(Own) \cup {NoBuf}
    /\ pc = "post" => local.coef \in Buffers(Own)
    /\ pending # Nothing => pc \in {"post", "dead"}
    /\ pc = "post" /\ pending # Nothing => Half

\* The streams the host launches to: the coefficients in c are those of w, or
\* of the sublayer before it.
HostLane(at, half, c, w, q, val, p) ==
    IF at = "dead" THEN Flow(q, val, p)
    ELSE IF at = "pre" THEN PreLane(q, val, p, c, <<w.fwd, w.sub - 1>>)
    ELSE IF at = "post" /\ half = Nothing THEN DoneLane(q, val, p, c, <<w.fwd, w.sub>>)
    ELSE IF at = "post" /\ half.forked
         THEN ForkedLane(q, val, p, half.scratch, c, <<w.fwd, w.sub>>)
    ELSE IdleLane(q, val, p)

LaneInv ==
    IF mode = "capture"
    THEN HostLane(pc, pending, local.coef, Here, cap, Blank, "g") /\ IdleLane(str, buf, "e")
    ELSE HostLane(pc, pending, local.coef, Here, str, buf, "e") /\ IdleLane(cap, Blank, "g")

GraphInv ==
    /\ Memory(buf)
    /\ Known(str, graph # Nothing) /\ Known(cap, FALSE)
    /\ graph # Nothing =>
          Flow(graph, Blank, "g") /\ Known(graph, FALSE) /\ Awaited(graph) /\ Joined(graph)
    /\ run # Nothing => Flow(run, buf, "g")
    /\ Awaited(cap)
    /\ Joined(cap) \/ (mode = "capture" /\ pending # Nothing /\ pending.forked)

LInv == HostInv /\ LaneInv /\ GraphInv

LEMMA LaneFlows ==
  ASSUME NEW at, NEW half, NEW c, NEW w, NEW q, NEW val, NEW p,
         HostLane(at, half, c, w, q, val, p) \/ IdleLane(q, val, p)
  PROVE  Flow(q, val, p) /\ Streamed(q)
  BY DEF HostLane, Flow, PreLane, DoneLane, ForkedLane, IdleLane

\* Outside a sublayer the streams are idle.
LEMMA LaneIdle ==
  ASSUME NEW at, NEW half, NEW c, NEW w, NEW q, NEW val, NEW p, at \notin {"pre", "post", "dead"}
  PROVE  HostLane(at, half, c, w, q, val, p) <=> IdleLane(q, val, p)
  BY DEF HostLane

LEMMA PopHostLane ==
  ASSUME NEW q, NEW s, NEW r, Pops(q, s, r), NEW val, NEW new, NEW p \in {"e", "g"},
         Leaves(q, s, val, new), NEW at, NEW half, NEW c, NEW w,
         at = "pre" => c \in Buffers(p) \cup {NoBuf},
         at = "post" => c \in Buffers(p),
         HostLane(at, half, c, w, q, val, p)
  PROVE  HostLane(at, half, c, w, r, new, p)
  <1>1. NoBuf \in Buffers(p) \cup {NoBuf} /\ NoBuf \notin Buffers(p)
      BY DEF Buffers, NoBuf
  <1>2. Flow(q, val, p) => Flow(r, new, p)
      BY <1>1, PopLanes
  <1>3. IdleLane(q, val, p) => IdleLane(r, new, p)
      BY <1>1, PopLanes
  <1>4. CASE at = "pre"
      BY <1>4, PopLanes DEF HostLane
  <1>5. CASE at = "post" /\ half = Nothing
      BY <1>1, <1>5, PopLanes DEF HostLane
  <1>6. CASE at = "post" /\ half # Nothing /\ half.forked
      BY <1>1, <1>6, PopLanes DEF HostLane
  <1> QED
      BY <1>2, <1>3, <1>4, <1>5, <1>6 DEF HostLane

LEMMA SameHostLane ==
  ASSUME NEW q, NEW val, NEW new, NEW p, \A b \in Buffers(p) : new[b] = val[b],
         NEW at, NEW half, NEW c, NEW w, p \in {"e", "g"},
         at = "pre" => c \in Buffers(p) \cup {NoBuf},
         at = "post" => c \in Buffers(p),
         HostLane(at, half, c, w, q, val, p)
  PROVE  HostLane(at, half, c, w, q, new, p)
  <1>1. NoBuf \in Buffers(p) \cup {NoBuf} /\ NoBuf \notin Buffers(p)
      BY DEF Buffers, NoBuf
  <1>2. Flow(q, val, p) => Flow(q, new, p)
      BY <1>1, SameLanes
  <1>3. IdleLane(q, val, p) => IdleLane(q, new, p)
      BY <1>1, SameLanes
  <1>4. CASE at = "pre"
      BY <1>4, SameLanes DEF HostLane
  <1>5. CASE at = "post" /\ half = Nothing
      BY <1>1, <1>5, SameLanes DEF HostLane
  <1>6. CASE at = "post" /\ half # Nothing /\ half.forked
      BY <1>1, <1>6, SameLanes DEF HostLane
  <1> QED
      BY <1>2, <1>3, <1>4, <1>5, <1>6 DEF HostLane

LEMMA EmptyLanes ==
  ASSUME NEW val, NEW p, NEW b
  PROVE  IdleLane(Empty, val, p) /\ Known(Empty, b) /\ Awaited(Empty) /\ Joined(Empty)
  <1>1. << >> \in Seq({}) /\ Len(<< >>) = 0
      BY EmptySeq
  <1>2. IsSeq(<< >>) /\ DOMAIN << >> = 1 .. 0
      BY <1>1, SeqIsSeq
  <1>3. Empty = [t \in Lanes |-> << >>] /\ Empty.main = << >> /\ Empty.side = << >>
      BY DEF Empty, Lanes
  <1>4. Streamed(Empty) /\ \A t \in Lanes : Len(Empty[t]) = 0
      BY <1>1, <1>2, <1>3 DEF Streamed
  <1>5. Flow(Empty, val, p) /\ Known(Empty, b)
      BY <1>4 DEF Flow, Known
  <1>6. Clear(Empty, "main")
      BY <1>4, Sides DEF Clear
  <1> QED
      BY <1>2, <1>3, <1>5, <1>6 DEF IdleLane, Awaited, Joined

LEMMA InitLanes == Init => LInv
  <1> SUFFICES ASSUME Init PROVE LInv
      OBVIOUS
  <1>1. /\ pc = "install" /\ fwd = 0 /\ sub = 1 /\ mode = "eager" /\ pending = Nothing /\ refused = FALSE
        /\ local = [coef |-> NoBuf, out |-> NoBuf] /\ str = Empty /\ cap = Empty
        /\ graph = Nothing /\ run = Nothing /\ Memory(buf)
      BY DEF Init, Memory, Bank
  <1>2. HostInv
      BY <1>1 DEF HostInv
  <1>3. LaneInv
      BY <1>1, EmptyLanes, LaneIdle DEF LaneInv
  <1>4. GraphInv
      BY <1>1, EmptyLanes DEF GraphInv
  <1> QED
      BY <1>2, <1>3, <1>4 DEF LInv

------------------------------------------------------------------------------
(* The steps of the host.                                                   *)

\* The boot, and a boot that fails.
LEMMA BootLanes ==
  ASSUME LInv,
         \/ Install
         \/ \E g \in Groups : Build(g) \/ RefuseGroup(g) \/ AllReduceRaises(g)
         \/ \E b \in BOOLEAN : Prepare(b)
  PROVE  LInv'
  <1>1. UNCHANGED <<fwd, sub, mode, pending, refused, local, str, cap, graph, run, buf>>
      BY DEF Install, Build, RefuseGroup, AllReduceRaises, Prepare, devVars
  <1>2. \/ pc' = "dead"
        \/ pc \in {"install", "groups", "load"} /\ pc' \in {"groups", "load", "idle"}
      BY DEF Install, Build, RefuseGroup, AllReduceRaises, Prepare
  <1>3. HostInv'
      BY <1>1, <1>2 DEF LInv, HostInv, Half, Here, Own
  <1>4. LaneInv'
      <2>1. ASSUME NEW q, NEW val, NEW p, HostLane(pc, pending, local.coef, Here, q, val, p)
            PROVE  HostLane(pc', pending, local.coef, Here, q, val, p)
          <3>1. CASE pc' = "dead"
              BY <2>1, <3>1, LaneFlows DEF HostLane
          <3>2. CASE pc' # "dead"
              BY <1>2, <2>1, <3>2, LaneIdle
          <3> QED
              BY <3>1, <3>2
      <2>2. Here' = Here
          BY <1>1 DEF Here
      <2> QED
          BY <1>1, <2>1, <2>2 DEF LInv, LaneInv
  <1>5. GraphInv'
      BY <1>1 DEF LInv, GraphInv
  <1> QED
      BY <1>3, <1>4, <1>5 DEF LInv

\* The embedding's all-reduce and a replay are appended to the eager stream.
LEMMA BeginStreams ==
  ASSUME LInv, NEW m, Begin(m)
  PROVE  /\ IdleLane(str', buf, "e") /\ Known(str', graph # Nothing)
         /\ pc = "idle" /\ fwd' = fwd + 1 /\ sub' = 1 /\ mode' = m
         /\ pc' = IF m = "replay" THEN "end" ELSE "pre"
         /\ UNCHANGED <<pending, refused, local, cap, graph, run, buf>>
  <1>1. /\ pc = "idle" /\ fwd' = fwd + 1 /\ sub' = 1 /\ mode' = m
        /\ pc' = IF m = "replay" THEN "end" ELSE "pre"
        /\ UNCHANGED <<pending, refused, local, cap, graph, run, buf>>
        /\ m = "replay" => graph # Nothing
      BY DEF Begin
  <1> DEFINE c == Coll(Pick("tp", FALSE), NoBuf)
             r == [op |-> "replay", at |-> [fwd |-> fwd + 1, sub |-> 0]]
             q1 == Push(str, "main", c)  q2 == Push(q1, "main", r)
  <1>2. IdleLane(str, buf, "e") /\ Known(str, graph # Nothing) /\ Streamed(str)
      <2>1. IdleLane(str, buf, "e")
          BY <1>1, LaneIdle DEF LInv, LaneInv
      <2> QED
          BY <2>1 DEF LInv, GraphInv, IdleLane, Flow
  <1>3. /\ Quiet(c) /\ Quiet(r) /\ Node(c) /\ r.op = "replay"
      BY QuietItems, NodeItems
  <1>4. str' = [str EXCEPT !.main = str.main \o <<c>> \o (IF m = "replay" THEN <<r>> ELSE << >>)]
      BY DEF Begin
  <1> HIDE DEF c, r
  <1>5. /\ IsSeq(str.main) /\ Streamed(q1) /\ q1.main = Append(str.main, c)
        /\ str = [main |-> str.main, side |-> str.side]
      BY <1>2, PushMain
  <1>6. str.main \o <<c>> = Append(str.main, c)
      BY <1>5, CatAppends
  <1>7. Append(str.main, c) \o << >> = Append(str.main, c)
        /\ Append(str.main, c) \o <<r>> = Append(Append(str.main, c), r)
      <2> DEFINE x == Append(str.main, c)
      <2>1. IsSeq(x)
          BY <1>5 DEF Streamed, Lanes
      <2> HIDE DEF x
      <2>2. x \o << >> = x /\ x \o <<r>> = Append(x, r)
          BY <2>1, CatAppends
      <2> QED
          BY <2>2 DEF x
  <1>8. q1 = [str EXCEPT !.main = Append(str.main, c)]
      BY DEF Push
  <1>9. q2 = [str EXCEPT !.main = Append(Append(str.main, c), r)]
      BY <1>5, <1>8 DEF Push
  <1>10. str' = IF m = "replay" THEN q2 ELSE q1
      BY <1>4, <1>6, <1>7, <1>8, <1>9
  <1>11. IdleLane(q1, buf, "e") /\ Known(q1, graph # Nothing)
      BY <1>2, <1>3, Sides, PushQuiet, PushKnown DEF IdleLane
  <1> HIDE DEF q1
  <1>12. IdleLane(q2, buf, "e") /\ (m = "replay" => Known(q2, graph # Nothing))
      <2>1. IdleLane(q2, buf, "e")
          BY <1>3, <1>11, Sides, PushQuiet DEF IdleLane
      <2>2. m = "replay" => Known(q2, graph # Nothing)
          BY <1>1, <1>3, <1>11, Sides, PushKnown
      <2> QED
          BY <2>1, <2>2
  <1> HIDE DEF q2
  <1>13. IdleLane(str', buf, "e")
      BY <1>10, <1>11, <1>12
  <1>14. Known(str', graph # Nothing)
      BY <1>10, <1>11, <1>12
  <1> QED
      BY <1>1, <1>13, <1>14

LEMMA BeginLanes ==
  ASSUME LInv, NEW m \in {"eager", "large", "capture", "replay"}, Begin(m)
  PROVE  LInv'
  <1>1. /\ IdleLane(str', buf, "e") /\ Known(str', graph # Nothing)
        /\ pc = "idle" /\ fwd' = fwd + 1 /\ sub' = 1 /\ mode' = m
        /\ pc' = IF m = "replay" THEN "end" ELSE "pre"
        /\ UNCHANGED <<pending, refused, local, cap, graph, run, buf>>
      BY BeginStreams
  <1>2. pending = Nothing /\ local.coef = NoBuf /\ IdleLane(cap, Blank, "g")
      <2>1. IdleLane(cap, Blank, "g")
          BY <1>1, LaneIdle DEF LInv, LaneInv
      <2> QED
          BY <1>1, <2>1 DEF LInv, HostInv
  <1>3. HostInv'
      BY <1>1, <1>2 DEF LInv, HostInv
  <1>4. LaneInv'
      <2>1. ASSUME NEW q, NEW val, NEW p, IdleLane(q, val, p)
            PROVE  HostLane(pc', pending', local'.coef, Here', q, val, p)
          BY <1>1, <1>2, <2>1 DEF HostLane, PreLane
      <2> QED
          BY <1>1, <1>2, <2>1 DEF LaneInv
  <1>5. GraphInv'
      BY <1>1, <1>2 DEF LInv, GraphInv
  <1> QED
      BY <1>3, <1>4, <1>5 DEF LInv

\* The end of a forward; the capture becomes the graph.
LEMMA EndLanes ==
  ASSUME LInv, End
  PROVE  LInv'
  <1>1. /\ pc = "end" /\ pc' = "idle" /\ local' = [coef |-> NoBuf, out |-> NoBuf]
        /\ UNCHANGED <<fwd, sub, mode, pending, refused, run, buf>>
        /\ IF mode = "capture" THEN graph' = cap /\ cap' = Empty ELSE UNCHANGED <<graph, cap>>
      BY DEF End
  <1>2. /\ IdleLane(str, buf, "e") /\ IdleLane(cap, Blank, "g") /\ pending = Nothing
        /\ Known(str, graph # Nothing) /\ Known(cap, FALSE) /\ Awaited(cap) /\ Joined(cap)
      <2>1. IdleLane(str, buf, "e") /\ IdleLane(cap, Blank, "g")
          BY <1>1, LaneIdle DEF LInv, LaneInv
      <2> QED
          BY <1>1, <2>1 DEF LInv, HostInv, GraphInv
  <1> DEFINE c == Coll(Pick("tp", FALSE), NoBuf)
  <1>3. str' = Push(str, "main", c)
      BY DEF End, Push
  <1>4. Quiet(c) /\ Node(c)
      BY QuietItems, NodeItems
  <1> HIDE DEF c
  <1>5. IdleLane(str', buf, "e") /\ Known(str', graph # Nothing)
      <2>1. Flow(str', buf, "e") /\ Clear(str', "main")
          BY <1>2, <1>3, <1>4, Sides, PushQuiet DEF IdleLane
      <2>2. Known(str', graph # Nothing)
          BY <1>2, <1>3, <1>4, Sides, PushKnown
      <2> QED
          BY <2>1, <2>2 DEF IdleLane
  <1>6. cap # Nothing
      <2>1. cap = [t \in Lanes |-> cap[t]]
          BY <1>2 DEF Known, Streamed
      <2>2. DOMAIN cap = Lanes /\ DOMAIN Nothing = {"none"}
          BY <2>1, Zenon DEF Nothing
      <2> QED
          BY <2>2 DEF Lanes
  <1>7. IdleLane(cap', Blank, "g") /\ Known(cap', FALSE) /\ Awaited(cap') /\ Joined(cap')
      BY <1>1, <1>2, EmptyLanes
  <1>8. HostInv'
      BY <1>1, <1>2 DEF LInv, HostInv
  <1>9. LaneInv'
      <2>1. ASSUME NEW q, NEW val, NEW p, IdleLane(q, val, p)
            PROVE  HostLane(pc', pending', local'.coef, Here', q, val, p)
          BY <1>1, <2>1, LaneIdle
      <2> QED
          BY <1>1, <1>5, <1>7, <2>1 DEF LaneInv
  <1>10. GraphInv'
      <2>1. CASE mode = "capture"
          <3>1. graph' = cap /\ Known(str', TRUE)
              BY <1>1, <1>5, <2>1 DEF Known
          <3>2. Flow(graph', Blank, "g") /\ Known(graph', FALSE) /\ Awaited(graph') /\ Joined(graph')
              BY <1>2, <3>1 DEF IdleLane
          <3>3. Memory(buf') /\ (run' # Nothing => Flow(run', buf', "g")) /\ (graph' # Nothing)
              BY <1>1, <1>6, <3>1 DEF LInv, GraphInv
          <3>4. Known(str', graph' # Nothing)
              BY <3>1, <3>3 DEF Known
          <3> QED
              BY <1>7, <3>2, <3>3, <3>4 DEF GraphInv
      <2>2. CASE mode # "capture"
          BY <1>1, <1>5, <1>7, <2>2 DEF LInv, GraphInv
      <2> QED
          BY <2>1, <2>2
  <1> QED
      BY <1>8, <1>9, <1>10 DEF LInv

\* A launch of the forward, on the streams that are its own.
LEMMA LaunchLanes ==
  ASSUME LInv, pc \in {"pre", "post"}, UNCHANGED <<mode, graph, run, buf>>,
         NEW m, NEW s, Nodes(m), Nodes(s), Launch(m, s),
         \A i \in 1 .. Len(m) : m[i].op = "await" => \E j \in 1 .. Len(s) : s[j] = Record(m[i].ev),
         \/ pending' # Nothing /\ pending'.forked
         \/ s = << >> /\ (pending = Nothing \/ ~pending.forked)
         \/ Len(s) # 0 /\ \E i \in 1 .. Len(m) : m[i].op = "await" /\ s[Len(s)] = Record(m[i].ev),
         mode = "capture" =>
            HostLane(pc', pending', local'.coef, Here', Launched(cap, m, s), Blank, "g"),
         mode # "capture" =>
            HostLane(pc', pending', local'.coef, Here', Launched(str, m, s), buf, "e")
  PROVE  LaneInv' /\ GraphInv'
  <1>0. LaneInv /\ GraphInv
      BY DEF LInv
  <1>1. CASE mode = "capture"
      <2>1. cap' = Launched(cap, m, s) /\ UNCHANGED str
          BY <1>1 DEF Launch, Launched, capturing
      <2>2. LaneInv'
          BY <1>0, <1>1, <2>1 DEF LaneInv
      <2>3. Known(cap, FALSE) /\ Streamed(cap) /\ IsSeq(m) /\ IsSeq(s) /\ Awaited(cap)
          BY <1>0 DEF GraphInv, Known, Nodes
      <2>4. Known(cap', FALSE)
          BY <2>1, <2>3, LaunchKnown
      <2>5. Awaited(cap')
          BY <2>1, <2>3, LaunchAwaited
      <2>6. Joined(cap') \/ (pending' # Nothing /\ pending'.forked)
          <3>1. CASE s = << >> /\ (pending = Nothing \/ ~pending.forked)
              <4>1. Joined(cap)
                  BY <1>0, <3>1 DEF GraphInv
              <4> QED
                  BY <2>1, <2>3, <3>1, <4>1, LaunchJoined
          <3>2. CASE Len(s) # 0 /\ \E i \in 1 .. Len(m) :
                        m[i].op = "await" /\ s[Len(s)] = Record(m[i].ev)
              BY <2>1, <2>3, <3>2, LaunchJoined
          <3> QED
              BY <3>1, <3>2
      <2>7. GraphInv'
          BY <1>0, <1>1, <2>1, <2>4, <2>5, <2>6 DEF GraphInv
      <2> QED
          BY <2>2, <2>7
  <1>2. CASE mode # "capture"
      <2>1. str' = Launched(str, m, s) /\ UNCHANGED cap
          BY <1>2 DEF Launch, Launched, capturing
      <2>2. LaneInv'
          BY <1>0, <1>2, <2>1 DEF LaneInv
      <2>3. Known(str', graph # Nothing)
          BY <1>0, <2>1, LaunchKnown DEF GraphInv
      <2>4. Joined(cap)
          BY <1>0, <1>2 DEF GraphInv
      <2>5. Known(str', graph' # Nothing)
          BY <2>3
      <2> QED
          BY <1>0, <2>1, <2>2, <2>4, <2>5 DEF GraphInv
  <1> QED
      BY <1>1, <1>2

\* The streams and the buffers of the current forward.
OwnStreams == IF mode = "capture" THEN cap ELSE str
OwnMemory  == IF mode = "capture" THEN Blank ELSE buf

LEMMA OwnLane ==
  ASSUME LInv
  PROVE  HostLane(pc, pending, local.coef, Here, OwnStreams, OwnMemory, Own) /\ Own \in {"e", "g"}
  BY DEF LInv, LaneInv, OwnStreams, OwnMemory, Own

LEMMA OwnPool ==
  ASSUME pc \in {"pre", "post"}
  PROVE  Pool = Buffers(Own) /\ capturing = (mode = "capture")
  BY DEF Pool, Buffers, Own, capturing

LEMMA PreLanes ==
  ASSUME LInv, Pre
  PROVE  LInv'
  <1>1. pc = "pre" /\ pending = Nothing /\ local.coef \in Buffers(Own) \cup {NoBuf} /\ HostInv
      BY DEF LInv, HostInv, Pre
  <1>2. PreRuns
      BY <1>1 DEF Pre, CanSettle
  <1>3. SettleMain = << >> /\ SettleSide = << >>
      BY <1>1 DEF SettleMain, SettleSide
  <1>4. PICK s, c, defers :
            /\ s = FirstFree({local.coef}) /\ c = FirstFree({local.coef} \cup {s})
            /\ defers = (on /\ mode # "large")
            /\ Launch(SettleMain \o <<Input(Here, local.coef)>> \o
                        (IF defers THEN << >> ELSE <<Gemm(Here, s), Coef(Here, s, c)>>), SettleSide)
            /\ pending' = IF ~defers THEN Nothing
                          ELSE [at |-> Here, scratch |-> s, coef |-> c,
                                keep |-> {s, c, local.coef}, forked |-> FALSE,
                                capturing |-> capturing]
            /\ local' = [local EXCEPT !.coef = c]
      BY <1>2 DEF PreRuns
  <1>5. pc' = "post" /\ UNCHANGED <<fwd, sub, mode, refused, graph, run, buf>>
      BY <1>2 DEF PreRuns
  <1>6. s \in Buffers(Own) /\ c \in Buffers(Own) /\ s # c
      <2>1. Pool = Buffers(Own)
          BY <1>1, OwnPool
      <2>2. s \in Buffers(Own)
          BY <1>4, <2>1, FreeBuffer
      <2>3. {local.coef} \cup {s} \in SUBSET {local.coef, s, s}
          OBVIOUS
      <2> DEFINE held == {local.coef} \cup {s}
      <2>4. c = FirstFree(held) /\ held \in SUBSET {local.coef, s, s} /\ s \in held
          BY <1>4
      <2> HIDE DEF held
      <2>5. c \in Buffers(Own) /\ c \notin held
          BY <2>1, <2>4, FreeBuffer
      <2> QED
          BY <2>2, <2>4, <2>5
  <1> DEFINE i == Input(Here, local.coef)  g == Gemm(Here, s)  k == Coef(Here, s, c)
             m == IF defers THEN <<i>> ELSE <<i, g, k>>
  <1>7. Launch(m, << >>)
      <2> HIDE DEF i, g, k
      <2>1. << >> \o <<i>> \o << >> = <<i>> /\ << >> \o <<i>> \o <<g, k>> = <<i, g, k>>
          BY ShortCats
      <2>2. Launch(<< >> \o <<i>> \o (IF defers THEN << >> ELSE <<g, k>>), << >>)
          BY <1>3, <1>4 DEF i, g, k
      <2>3. << >> \o <<i>> \o (IF defers THEN << >> ELSE <<g, k>>) = m
          BY <2>1
      <2> QED
          BY <2>2, <2>3
  <1>8. Nodes(m) /\ Nodes(<< >>) /\ \A n \in 1 .. Len(m) : m[n].op # "await"
      <2>1. Node(i) /\ Node(g) /\ Node(k) /\ i.op # "await" /\ g.op # "await" /\ k.op # "await"
          <3>1. Node(i) /\ Node(g) /\ Node(k)
              BY NodeItems DEF Here
          <3> QED
              BY <3>1 DEF Input, Gemm, Coef
      <2> HIDE DEF i, g, k
      <2>2. Nodes(<< >>) /\ Nodes(<<i>>) /\ Nodes(<<i, g, k>>)
          BY <2>1, NodeSeqs
      <2>3. \A n \in 1 .. 1 : <<i>>[n].op # "await"
          BY <2>1
      <2>4. \A n \in 1 .. 3 : <<i, g, k>>[n].op # "await"
          <3>1. \A n \in 1 .. 3 : n = 1 \/ n = 2 \/ n = 3
              OBVIOUS
          <3> QED
              BY <2>1, <3>1
      <2>5. Len(<<i>>) = 1 /\ Len(<<i, g, k>>) = 3
          OBVIOUS
      <2> QED
          BY <2>2, <2>3, <2>4, <2>5
  <1>9. local' = [coef |-> c, out |-> local.out] /\ Here' = Here /\ Own' = Own
      BY <1>1, <1>4, <1>5 DEF HostInv, Here, Own
  <1>10. HostLane(pc', pending', local'.coef, Here', Launched(OwnStreams, m, << >>), OwnMemory, Own)
      <2>1. PreLane(OwnStreams, OwnMemory, Own, local.coef, <<Here.fwd, Here.sub - 1>>)
            /\ Own \in {"e", "g"}
          BY <1>1, OwnLane DEF HostLane
      <2>2. /\ IdleLane(Launched(OwnStreams, <<i>>, << >>), OwnMemory, Own)
            /\ DoneLane(Launched(OwnStreams, <<i, g, k>>, << >>), OwnMemory, Own, c,
                        <<Here.fwd, Here.sub>>)
          BY <1>1, <1>6, <2>1, LaunchHere
      <2>3. CASE defers
          <3>1. pending' # Nothing /\ pending'.forked = FALSE
              BY <1>4, <2>3 DEF Nothing
          <3> QED
              BY <1>5, <2>2, <2>3, <3>1 DEF HostLane
      <2>4. CASE ~defers
          BY <1>4, <1>5, <1>9, <2>2, <2>4 DEF HostLane
      <2> QED
          BY <2>3, <2>4
  <1>11. LaneInv' /\ GraphInv'
      <2>1. /\ mode = "capture" =>
                 HostLane(pc', pending', local'.coef, Here', Launched(cap, m, << >>), Blank, "g")
            /\ mode # "capture" =>
                 HostLane(pc', pending', local'.coef, Here', Launched(str, m, << >>), buf, "e")
          BY <1>10 DEF OwnStreams, OwnMemory, Own
      <2> HIDE DEF m
      <2> QED
          BY <1>1, <1>5, <1>7, <1>8, <2>1, LaunchLanes
  <1>12. HostInv'
      <2>1. pending' # Nothing => Half'
          <3>1. ASSUME defers PROVE Half'
              <4>1. pending' = [at |-> Here, scratch |-> s, coef |-> c, keep |-> {s, c, local.coef},
                                forked |-> FALSE, capturing |-> (mode = "capture")]
                  BY <1>1, <1>4, <3>1, OwnPool
              <4>2. \E x : pending'.keep = {pending'.scratch, local'.coef, x}
                  BY <1>9, <4>1
              <4> QED
                  BY <1>5, <1>6, <1>9, <4>1, <4>2 DEF Half
          <3> QED
              BY <1>4, <3>1
      <2> QED
          BY <1>1, <1>5, <1>6, <1>9, <2>1 DEF HostInv
  <1> QED
      BY <1>11, <1>12 DEF LInv

LEMMA AllReduceLanes ==
  ASSUME LInv, NEW here \in BOOLEAN, AllReduce(here)
  PROVE  LInv'
  <1>1. /\ pc = "post" /\ pc' = "post" /\ UNCHANGED <<fwd, sub, mode, refused, graph, run, buf>>
        /\ local.coef \in Buffers(Own) /\ HostInv /\ (pending # Nothing => Half)
      BY DEF AllReduce, LInv, HostInv
  <1>2. pending' = IF CanFork(here) THEN Forked(pending) ELSE pending
      BY DEF AllReduce
  <1>3. PICK o, cm :
            /\ o = FirstFree({local.coef} \cup (IF pending' = Nothing THEN {} ELSE pending'.keep))
            /\ local' = [local EXCEPT !.out = o]
            /\ IF CanFork(here)
               THEN Launch(<<Record(<<"fork", pending.at>>), Coll(cm, o)>>, ForkSide(pending))
               ELSE Launch(<<Coll(cm, o)>>, << >>)
      BY DEF AllReduce
  <1>4. local' = [coef |-> local.coef, out |-> o] /\ Here' = Here /\ Own' = Own
      BY <1>1, <1>3 DEF HostInv, Here, Own
  <1>5. CanFork(here) => pending # Nothing /\ ~pending.forked /\ Half
      BY <1>1 DEF CanFork
  <1>6. pending # Nothing =>
            /\ pending' = [at |-> Here, scratch |-> pending.scratch, coef |-> local.coef,
                           keep |-> pending.keep,
                           forked |-> (IF CanFork(here) THEN TRUE ELSE pending.forked),
                           capturing |-> (mode = "capture")]
            /\ pending.scratch \in Buffers(Own) /\ pending.scratch # local.coef
            /\ pending.forked \in BOOLEAN
            /\ \E x : pending.keep = {pending.scratch, local.coef, x}
      <2> SUFFICES ASSUME pending # Nothing
                   PROVE  /\ pending' = [at |-> Here, scratch |-> pending.scratch,
                                         coef |-> local.coef, keep |-> pending.keep,
                                         forked |-> (IF CanFork(here) THEN TRUE ELSE pending.forked),
                                         capturing |-> (mode = "capture")]
                          /\ pending.scratch \in Buffers(Own) /\ pending.scratch # local.coef
                          /\ pending.forked \in BOOLEAN
                          /\ \E x : pending.keep = {pending.scratch, local.coef, x}
          OBVIOUS
      <2>1. pending = [at |-> Here, scratch |-> pending.scratch, coef |-> local.coef,
                       keep |-> pending.keep, forked |-> pending.forked,
                       capturing |-> (mode = "capture")]
          BY <1>1 DEF Half
      <2>2. /\ pending.scratch \in Buffers(Own) /\ pending.scratch # local.coef
            /\ pending.forked \in BOOLEAN
            /\ \E x : pending.keep = {pending.scratch, local.coef, x}
          BY <1>1 DEF Half
      <2>3. Forked(pending) = [at |-> Here, scratch |-> pending.scratch, coef |-> local.coef,
                               keep |-> pending.keep, forked |-> TRUE,
                               capturing |-> (mode = "capture")]
          <3>1. PICK sc, kp, fk :
                    pending = [at |-> Here, scratch |-> sc, coef |-> local.coef, keep |-> kp,
                               forked |-> fk, capturing |-> (mode = "capture")]
              BY <2>1
          <3>2. pending.scratch = sc /\ pending.keep = kp
              BY <3>1
          <3> DEFINE w == Here  lc == local.coef  cp == (mode = "capture")  yes == TRUE
          <3> HIDE DEF w, lc, cp, yes
          <3>3. [pending EXCEPT !.forked = yes] =
                    [at |-> w, scratch |-> sc, coef |-> lc, keep |-> kp,
                     forked |-> yes, capturing |-> cp]
              <4>1. pending = [at |-> w, scratch |-> sc, coef |-> lc, keep |-> kp,
                               forked |-> fk, capturing |-> cp]
                  BY <3>1 DEF w, lc, cp
              <4> QED
                  BY <4>1
          <3> QED
              BY <3>2, <3>3 DEF Forked, w, lc, cp, yes
      <2>4. CASE CanFork(here)
          BY <1>2, <2>2, <2>3, <2>4
      <2>5. CASE ~CanFork(here)
          BY <1>2, <2>1, <2>2, <2>5
      <2> QED
          BY <2>4, <2>5
  <1>7. pending' # Nothing <=> pending # Nothing
      <2>1. CASE pending = Nothing
          BY <1>2, <1>5, <2>1
      <2>2. CASE pending # Nothing
          <3>1. DOMAIN pending' = {"at", "scratch", "coef", "keep", "forked", "capturing"}
              BY <1>6, <2>2
          <3>2. DOMAIN Nothing = {"none"}
              BY Zenon DEF Nothing
          <3> QED
              BY <2>2, <3>1, <3>2
      <2> QED
          BY <2>1, <2>2
  <1>8. o \in Buffers(Own) /\ o # local.coef /\ (pending # Nothing => o # pending.scratch)
      <2> DEFINE held == {local.coef} \cup (IF pending' = Nothing THEN {} ELSE pending'.keep)
      <2>1. Pool = Buffers(Own)
          BY <1>1, OwnPool
      <2>2. CASE pending = Nothing
          <3>1. o = FirstFree(held) /\ held = {local.coef}
              BY <1>3, <1>7, <2>2
          <3>2. held \in SUBSET {local.coef, local.coef, local.coef} /\ local.coef \in held
              BY <3>1
          <3> HIDE DEF held
          <3>3. o \in Buffers(Own) /\ o \notin held
              BY <2>1, <3>1, <3>2, FreeBuffer
          <3> QED
              BY <2>2, <3>2, <3>3
      <2>3. CASE pending # Nothing
          <3>1. PICK x : pending.keep = {pending.scratch, local.coef, x}
              BY <1>6, <2>3
          <3>2. pending'.keep = {pending.scratch, local.coef, x}
              BY <1>6, <2>3, <3>1
          <3>3. /\ o = FirstFree(held) /\ held \in SUBSET {pending.scratch, local.coef, x}
                /\ local.coef \in held /\ pending.scratch \in held
              BY <1>3, <1>7, <2>3, <3>2
          <3> HIDE DEF held
          <3>4. o \in Buffers(Own) /\ o \notin held
              BY <2>1, <3>3, FreeBuffer
          <3> QED
              BY <3>3, <3>4
      <2> QED
          BY <2>2, <2>3
  <1> DEFINE e == Coll(cm, o)
  <1>9. HostLane("post", pending, local.coef, Here, OwnStreams, OwnMemory, Own) /\ Own \in {"e", "g"}
      BY <1>1, OwnLane
  <1>10. LaneInv' /\ GraphInv'
      <2>1. CASE CanFork(here)
          <3> DEFINE ev == <<"fork", pending.at>>  a == Record(ev)  b == Await(ev)
                     g == Gemm(Here, pending.scratch)
                     k == Coef(Here, pending.scratch, local.coef)
          <3>1. pending.at = Here /\ pending.coef = local.coef /\ pending'.forked = TRUE
                /\ pending'.scratch = pending.scratch /\ pending # Nothing
              BY <1>5, <1>6, <2>1 DEF Half
          <3>2. ForkSide(pending) = <<b, g, k>>
              <4>1. ForkSide(pending) = <<b>> \o <<g, k>>
                  BY <3>1 DEF ForkSide, Deferred
              <4> HIDE DEF b, g, k
              <4> QED
                  BY <4>1, TupleCats
          <3>3. Launch(<<a, e>>, <<b, g, k>>)
              BY <1>3, <2>1, <3>2
          <3>4. IdleLane(OwnStreams, OwnMemory, Own)
              BY <1>5, <1>9, <2>1, <3>1 DEF HostLane
          <3>5. ForkedLane(Launched(OwnStreams, <<a, e>>, <<b, g, k>>), OwnMemory, Own,
                           pending.scratch, local.coef, <<Here.fwd, Here.sub>>)
              BY <1>1, <1>6, <1>8, <1>9, <3>1, <3>4, LaunchForks
          <3>6. /\ Node(a) /\ Node(e) /\ Node(b) /\ Node(g) /\ Node(k)
                /\ a.op # "await" /\ e.op # "await"
              <4>1. Node(a) /\ Node(e) /\ Node(b) /\ Node(g) /\ Node(k)
                  BY NodeItems DEF Here
              <4> QED
                  BY <4>1 DEF Record, Coll
          <3> HIDE DEF a, b, g, k, e
          <3>7. Nodes(<<a, e>>) /\ Nodes(<<b, g, k>>)
              BY <3>6, NodeSeqs
          <3>8. \A n \in 1 .. Len(<<a, e>>) : <<a, e>>[n].op # "await"
              <4>1. Len(<<a, e>>) = 2 /\ \A n \in 1 .. 2 : n = 1 \/ n = 2
                  OBVIOUS
              <4> QED
                  BY <3>6, <4>1
          <3>9. HostLane(pc', pending', local'.coef, Here', Launched(OwnStreams, <<a, e>>, <<b, g, k>>),
                         OwnMemory, Own)
              BY <1>1, <1>4, <1>7, <3>1, <3>5 DEF HostLane
          <3> DEFINE m == <<a, e>>  s == <<b, g, k>>
          <3> HIDE DEF m, s
          <3>10. /\ mode = "capture" =>
                      HostLane(pc', pending', local'.coef, Here', Launched(cap, m, s), Blank, "g")
                 /\ mode # "capture" =>
                      HostLane(pc', pending', local'.coef, Here', Launched(str, m, s), buf, "e")
              BY <3>9 DEF OwnStreams, OwnMemory, Own, m, s
          <3>11. Nodes(m) /\ Nodes(s) /\ Launch(m, s) /\ \A n \in 1 .. Len(m) : m[n].op # "await"
              BY <3>3, <3>7, <3>8 DEF m, s
          <3> QED
              BY <1>1, <1>7, <3>1, <3>10, <3>11, LaunchLanes
      <2>2. CASE ~CanFork(here)
          <3>1. pending' = pending /\ Launch(<<e>>, << >>)
              BY <1>2, <1>3, <2>2
          <3> DEFINE h == IF pending = Nothing THEN NoBuf ELSE pending.scratch
                     r == Launched(OwnStreams, <<e>>, << >>)
          <3>2. o # h
              BY <1>8 DEF Buffers, NoBuf
          <3>3. /\ IdleLane(OwnStreams, OwnMemory, Own) => IdleLane(r, OwnMemory, Own)
                /\ DoneLane(OwnStreams, OwnMemory, Own, local.coef, <<Here.fwd, Here.sub>>) =>
                      DoneLane(r, OwnMemory, Own, local.coef, <<Here.fwd, Here.sub>>)
                /\ ForkedLane(OwnStreams, OwnMemory, Own, h, local.coef, <<Here.fwd, Here.sub>>) =>
                      ForkedLane(r, OwnMemory, Own, h, local.coef, <<Here.fwd, Here.sub>>)
              <4> DEFINE v == <<Here.fwd, Here.sub>>  x == local.coef
              <4>0. o \in Buffers(Own) /\ o # h /\ o # x
                  BY <1>8, <3>2
              <4> HIDE DEF h, v, x
              <4>2. IdleLane(OwnStreams, OwnMemory, Own) => IdleLane(r, OwnMemory, Own)
                  BY <4>0, CollIdle
              <4>3. DoneLane(OwnStreams, OwnMemory, Own, x, v) => DoneLane(r, OwnMemory, Own, x, v)
                  BY <4>0, CollDone
              <4>4. ForkedLane(OwnStreams, OwnMemory, Own, h, x, v)
                        => ForkedLane(r, OwnMemory, Own, h, x, v)
                  BY <4>0, CollForked
              <4> HIDE DEF r
              <4> QED
                  BY <4>2, <4>3, <4>4 DEF v, x
          <3>4. HostLane("post", pending, local.coef, Here, r, OwnMemory, Own)
              <4> HIDE DEF r
              <4> QED
                  BY <1>9, <3>3 DEF HostLane
          <3>5. Node(e) /\ e.op # "await"
              <4>1. Node(e)
                  BY NodeItems
              <4> QED
                  BY <4>1 DEF Coll
          <3> HIDE DEF e
          <3>6. Nodes(<<e>>) /\ Nodes(<< >>) /\ \A n \in 1 .. Len(<<e>>) : <<e>>[n].op # "await"
              <4>1. Nodes(<<e>>) /\ Nodes(<< >>)
                  BY <3>5, NodeSeqs
              <4>2. Len(<<e>>) = 1 /\ \A n \in 1 .. 1 : n = 1
                  OBVIOUS
              <4> QED
                  BY <3>5, <4>1, <4>2
          <3> DEFINE m == <<e>>
          <3>7. HostLane(pc', pending', local'.coef, Here', Launched(OwnStreams, m, << >>), OwnMemory, Own)
              BY <1>1, <1>4, <3>1, <3>4
          <3>8. Nodes(m) /\ Launch(m, << >>) /\ \A n \in 1 .. Len(m) : m[n].op # "await"
              BY <3>1, <3>6
          <3> HIDE DEF m
          <3>9. /\ mode = "capture" =>
                      HostLane(pc', pending', local'.coef, Here', Launched(cap, m, << >>), Blank, "g")
                /\ mode # "capture" =>
                      HostLane(pc', pending', local'.coef, Here', Launched(str, m, << >>), buf, "e")
              BY <3>7 DEF OwnStreams, OwnMemory, Own
          <3> QED
              BY <1>1, <1>6, <3>1, <3>6, <3>8, <3>9, LaunchLanes
      <2> QED
          BY <2>1, <2>2
  <1>11. HostInv'
      <2>1. ASSUME pending # Nothing PROVE Half'
          <3>0. PICK fk \in BOOLEAN :
                    pending' = [at |-> Here, scratch |-> pending.scratch, coef |-> local.coef,
                                keep |-> pending.keep, forked |-> fk,
                                capturing |-> (mode = "capture")]
              <4>1. CASE CanFork(here)
                  BY <1>6, <2>1, <4>1
              <4>2. CASE ~CanFork(here)
                  BY <1>6, <2>1, <4>2
              <4> QED
                  BY <4>1, <4>2
          <3>1. /\ pending'.at = Here /\ pending'.scratch = pending.scratch
                /\ pending'.keep = pending.keep /\ pending'.forked = fk
              BY <3>0
          <3>2. local'.coef = local.coef /\ mode' = mode
              BY <1>1, <1>4
          <3>3. pending' = [at |-> Here', scratch |-> pending'.scratch, coef |-> local'.coef,
                            keep |-> pending'.keep, forked |-> pending'.forked,
                            capturing |-> (mode' = "capture")]
              BY <1>4, <3>0, <3>1, <3>2
          <3>4. \E x : pending'.keep = {pending'.scratch, local'.coef, x}
              BY <1>6, <2>1, <3>1, <3>2
          <3>5. pending'.scratch \in Buffers(Own') /\ pending'.scratch # local'.coef
              BY <1>4, <1>6, <2>1, <3>1, <3>2
          <3> QED
              BY <3>1, <3>3, <3>4, <3>5 DEF Half
      <2> QED
          BY <1>1, <1>4, <1>7, <2>1 DEF HostInv
  <1> QED
      BY <1>10, <1>11 DEF LInv

\* Behind the post the coefficients of its sublayer stay in their buffer.
LEMMA PostStreams ==
  ASSUME LInv, pc = "post", NEW m, m = SettleMain \o <<Post(Here, local.coef, local.out)>>
  PROVE  /\ DoneLane(Launched(OwnStreams, m, SettleSide), OwnMemory, Own, local.coef, <<fwd, sub>>)
         /\ Nodes(m) /\ Nodes(SettleSide)
         /\ \A i \in 1 .. Len(m) : m[i].op = "await" =>
               \E j \in 1 .. Len(SettleSide) : SettleSide[j] = Record(m[i].ev)
         /\ \/ SettleSide = << >> /\ (pending = Nothing \/ ~pending.forked)
            \/ Len(SettleSide) # 0 /\ \E i \in 1 .. Len(m) :
                   m[i].op = "await" /\ SettleSide[Len(SettleSide)] = Record(m[i].ev)
  <1>1. /\ local.coef \in Buffers(Own) /\ Own \in {"e", "g"} /\ (pending # Nothing => Half)
        /\ HostLane("post", pending, local.coef, Here, OwnStreams, OwnMemory, Own)
      BY OwnLane DEF LInv, HostInv
  <1> DEFINE i == Post(Here, local.coef, local.out)
  <1>2. Node(i) /\ i.op # "await" /\ Here.fwd = fwd /\ Here.sub = sub
      <2>1. Node(i)
          BY NodeItems DEF Here
      <2> QED
          BY <2>1 DEF Post, Here
  <1>3. CASE pending = Nothing
      <2>1. SettleMain = << >> /\ SettleSide = << >>
          BY <1>3 DEF SettleMain, SettleSide
      <2>2. DoneLane(Launched(OwnStreams, <<i>>, << >>), OwnMemory, Own, local.coef, <<fwd, sub>>)
          <3>1. DoneLane(OwnStreams, OwnMemory, Own, local.coef, <<Here.fwd, Here.sub>>)
              BY <1>1, <1>3 DEF HostLane
          <3>2. DoneLane(Launched(OwnStreams, <<i>>, << >>), OwnMemory, Own, local.coef,
                         <<Here.fwd, Here.sub>>)
              BY <1>1, <3>1, PostAlone
          <3> QED
              BY <1>2, <3>2
      <2> HIDE DEF i
      <2>3. << >> \o <<i>> = <<i>>
          BY ShortCats
      <2>4. m = <<i>>
          BY <2>1, <2>3 DEF i
      <2>5. Nodes(<<i>>) /\ Nodes(<< >>)
          BY <1>2, NodeSeqs
      <2>6. Len(<<i>>) = 1 /\ \A n \in 1 .. 1 : n = 1
          OBVIOUS
      <2> QED
          BY <1>2, <1>3, <2>1, <2>2, <2>4, <2>5, <2>6
  <1>4. CASE pending # Nothing /\ ~pending.forked
      <2> DEFINE g == Gemm(Here, pending.scratch)  k == Coef(Here, pending.scratch, local.coef)
      <2>1. pending.at = Here /\ pending.coef = local.coef
            /\ pending.scratch \in Buffers(Own) /\ pending.scratch # local.coef
          BY <1>1, <1>4 DEF Half
      <2>2. SettleMain = <<g, k>> /\ SettleSide = << >>
          BY <1>4, <2>1 DEF SettleMain, SettleSide, Deferred
      <2>3. DoneLane(Launched(OwnStreams, <<g, k, i>>, << >>), OwnMemory, Own, local.coef, <<fwd, sub>>)
          <3>1. IdleLane(OwnStreams, OwnMemory, Own)
              BY <1>1, <1>4 DEF HostLane
          <3>2. DoneLane(Launched(OwnStreams, <<g, k, i>>, << >>), OwnMemory, Own, local.coef,
                         <<Here.fwd, Here.sub>>)
              BY <1>1, <2>1, <3>1, PostSettles
          <3> QED
              BY <1>2, <3>2
      <2>4. Node(g) /\ Node(k) /\ g.op # "await" /\ k.op # "await"
          <3>1. Node(g) /\ Node(k)
              BY NodeItems DEF Here
          <3> QED
              BY <3>1 DEF Gemm, Coef
      <2> HIDE DEF i, g, k
      <2>5. <<g, k>> \o <<i>> = <<g, k, i>>
          BY TupleCats
      <2>6. m = <<g, k, i>>
          BY <2>2, <2>5 DEF i
      <2>7. Nodes(<<g, k, i>>) /\ Nodes(<< >>)
          BY <1>2, <2>4, NodeSeqs
      <2>8. Len(<<g, k, i>>) = 3 /\ \A n \in 1 .. 3 : n = 1 \/ n = 2 \/ n = 3
          OBVIOUS
      <2>9. \A n \in 1 .. Len(m) : m[n].op # "await"
          <3>1. \A n \in 1 .. 3 : <<g, k, i>>[n].op # "await"
              BY <1>2, <2>4, <2>8
          <3> QED
              BY <2>6, <2>8, <3>1
      <2>10. Nodes(m) /\ Nodes(SettleSide)
          BY <2>2, <2>6, <2>7
      <2> QED
          BY <1>4, <2>2, <2>3, <2>6, <2>9, <2>10
  <1>5. CASE pending # Nothing /\ pending.forked
      <2> DEFINE ev == <<"join", pending.at>>  a == Await(ev)  d == Record(ev)
      <2>1. SettleMain = <<a>> /\ SettleSide = <<d>>
          BY <1>5 DEF SettleMain, SettleSide
      <2>2. DoneLane(Launched(OwnStreams, <<a, i>>, <<d>>), OwnMemory, Own, local.coef, <<fwd, sub>>)
          <3>1. ForkedLane(OwnStreams, OwnMemory, Own, pending.scratch, local.coef,
                           <<Here.fwd, Here.sub>>)
              BY <1>1, <1>5 DEF HostLane
          <3>2. DoneLane(Launched(OwnStreams, <<a, i>>, <<d>>), OwnMemory, Own, local.coef,
                         <<Here.fwd, Here.sub>>)
              BY <1>1, <3>1, PostJoins
          <3> QED
              BY <1>2, <3>2
      <2>3. Node(a) /\ Node(d) /\ a.op = "await" /\ d = Record(a.ev)
          <3>1. Node(a) /\ Node(d)
              BY NodeItems
          <3> QED
              BY <3>1 DEF Await, Record
      <2> HIDE DEF a, d, i
      <2>4. <<a>> \o <<i>> = <<a, i>>
          BY TupleCats
      <2>5. m = <<a, i>>
          BY <2>1, <2>4 DEF i
      <2>6. Nodes(<<a, i>>) /\ Nodes(<<d>>)
          BY <1>2, <2>3, NodeSeqs
      <2>7. Len(<<a, i>>) = 2 /\ Len(<<d>>) = 1 /\ \A n \in 1 .. 2 : n = 1 \/ n = 2
          OBVIOUS
      <2>8. ASSUME NEW n \in 1 .. Len(m), m[n].op = "await"
            PROVE  \E j \in 1 .. Len(SettleSide) : SettleSide[j] = Record(m[n].ev)
          <3>1. m[n] = a
              <4>1. n = 1 \/ n = 2
                  BY <2>5, <2>7
              <4>2. <<a, i>>[1] = a /\ <<a, i>>[2] = i
                  OBVIOUS
              <4> QED
                  BY <1>2, <2>5, <2>8, <4>1, <4>2
          <3>2. 1 \in 1 .. Len(SettleSide) /\ SettleSide[1] = d
              BY <2>1, <2>7
          <3> QED
              BY <2>3, <3>1, <3>2
      <2>9. Len(SettleSide) # 0 /\ \E n \in 1 .. Len(m) :
                m[n].op = "await" /\ SettleSide[Len(SettleSide)] = Record(m[n].ev)
          <3>1. 1 \in 1 .. Len(m) /\ m[1] = a /\ Len(SettleSide) = 1 /\ SettleSide[1] = d
              BY <2>1, <2>5, <2>7
          <3> QED
              BY <2>3, <3>1
      <2>10. Nodes(m) /\ Nodes(SettleSide)
          BY <2>1, <2>5, <2>6
      <2> QED
          BY <2>1, <2>2, <2>5, <2>8, <2>9, <2>10
  <1> QED
      BY <1>3, <1>4, <1>5

LEMMA PostLanes ==
  ASSUME LInv, PostLayer
  PROVE  LInv'
  <1>1. /\ pc = "post" /\ local.coef \in Buffers(Own) /\ HostInv /\ (pending # Nothing => Half)
        /\ Own \in {"e", "g"}
      BY OwnLane DEF PostLayer, LInv, HostInv
  <1>2. PostRuns
      <2>1. CanSettle
          <3>1. pending # Nothing => pending.capturing = (mode = "capture")
              <4> DEFINE cp == (mode = "capture")
              <4>1. pending # Nothing => \E at, sc, co, kp, fk :
                      pending = [at |-> at, scratch |-> sc, coef |-> co, keep |-> kp,
                                 forked |-> fk, capturing |-> cp]
                  BY <1>1, Zenon DEF Half
              <4> HIDE DEF cp
              <4>2. pending # Nothing => pending.capturing = cp
                  BY <4>1
              <4> QED
                  BY <4>2 DEF cp
          <3> QED
              BY <1>1, <3>1, OwnPool DEF CanSettle, SameCapture
      <2> QED
          BY <2>1 DEF PostLayer
  <1>3. /\ pending' = Nothing /\ local' = [local EXCEPT !.out = NoBuf]
        /\ UNCHANGED <<fwd, mode, refused, graph, run, buf>>
        /\ \/ pc' = "pre" /\ sub' = sub + 1
           \/ pc' = "end" /\ sub' = sub
        /\ Launch(SettleMain \o <<Post(Here, local.coef, local.out)>>, SettleSide)
      BY <1>2 DEF PostRuns
  <1>4. local' = [coef |-> local.coef, out |-> NoBuf] /\ Own' = Own
      BY <1>1, <1>3 DEF HostInv, Own
  <1>5. PICK m : m = SettleMain \o <<Post(Here, local.coef, local.out)>>
      OBVIOUS
  <1> DEFINE s == SettleSide
  <1>6. /\ DoneLane(Launched(OwnStreams, m, s), OwnMemory, Own, local.coef, <<fwd, sub>>)
        /\ Nodes(m) /\ Nodes(s)
        /\ \A i \in 1 .. Len(m) : m[i].op = "await" => \E j \in 1 .. Len(s) : s[j] = Record(m[i].ev)
        /\ \/ s = << >> /\ (pending = Nothing \/ ~pending.forked)
           \/ Len(s) # 0 /\ \E i \in 1 .. Len(m) : m[i].op = "await" /\ s[Len(s)] = Record(m[i].ev)
      BY <1>1, <1>5, PostStreams
  <1>7. Launch(m, s)
      BY <1>3, <1>5
  <1>8. sub \in Nat /\ fwd \in Nat
      BY <1>1 DEF HostInv
  <1> HIDE DEF s
  <1>9. HostLane(pc', pending', local'.coef, Here', Launched(OwnStreams, m, s), OwnMemory, Own)
      <2> DEFINE r == Launched(OwnStreams, m, s)
      <2>1. DoneLane(r, OwnMemory, Own, local.coef, <<fwd, sub>>)
          BY <1>6
      <2> HIDE DEF r
      <2>2. CASE pc' = "pre" /\ sub' = sub + 1
          <3>1. Here'.fwd = fwd /\ Here'.sub - 1 = sub
              BY <1>3, <1>8, <2>2 DEF Here
          <3>2. PreLane(r, OwnMemory, Own, local'.coef, <<Here'.fwd, Here'.sub - 1>>)
              BY <1>4, <2>1, <3>1 DEF PreLane, DoneLane
          <3> QED
              BY <2>2, <3>2 DEF HostLane, r
      <2>3. CASE pc' = "end"
          BY <2>1, <2>3 DEF HostLane, DoneLane, r
      <2> QED
          BY <1>3, <2>2, <2>3
  <1>10. LaneInv' /\ GraphInv'
      <2>1. /\ mode = "capture" =>
                 HostLane(pc', pending', local'.coef, Here', Launched(cap, m, s), Blank, "g")
            /\ mode # "capture" =>
                 HostLane(pc', pending', local'.coef, Here', Launched(str, m, s), buf, "e")
          BY <1>9 DEF OwnStreams, OwnMemory, Own
      <2> QED
          BY <1>1, <1>3, <1>6, <1>7, <2>1, LaunchLanes
  <1>11. HostInv'
      BY <1>1, <1>3, <1>4, <1>8 DEF HostInv
  <1> QED
      BY <1>10, <1>11 DEF LInv

------------------------------------------------------------------------------
(* The steps of the device.                                                 *)

\* The head of the eager streams is taken; new is what the buffers come to hold.
LEMMA EagerPops ==
  ASSUME LInv, UNCHANGED <<hostVars, cap, graph>>, NEW s, Pops(str, s, str'),
         Leaves(str, s, buf, buf'), Memory(buf'), \A b \in Buffers("g") : buf'[b] = buf[b],
         run' = run \/ run' = Nothing
  PROVE  LInv'
  <1>0. /\ UNCHANGED <<pc, fwd, sub, mode, pending, refused, local, cap, graph>>
        /\ HostInv /\ LaneInv /\ GraphInv
      BY DEF hostVars, LInv
  <1>1. HostInv'
      BY <1>0 DEF HostInv, Half, Here, Own
  <1>h. Here' = Here
      BY <1>0 DEF Here
  <1>2. LaneInv'
      <2>1. CASE mode = "capture"
          <3>1. IdleLane(str', buf', "e")
              <4>1. NoBuf \in Buffers("e") \cup {NoBuf} /\ "e" \in {"e", "g"}
                  OBVIOUS
              <4>2. IdleLane(str, buf, "e")
                  BY <1>0, <2>1 DEF LaneInv
              <4> QED
                  BY <4>1, <4>2, PopLanes
          <3> QED
              BY <1>0, <1>h, <2>1, <3>1 DEF LaneInv
      <2>2. CASE mode # "capture"
          <3>1. /\ pc = "pre" => local.coef \in Buffers("e") \cup {NoBuf}
                /\ pc = "post" => local.coef \in Buffers("e")
                /\ HostLane(pc, pending, local.coef, Here, str, buf, "e") /\ "e" \in {"e", "g"}
              BY <1>0, <2>2 DEF HostInv, Own, LaneInv
          <3>2. HostLane(pc, pending, local.coef, Here, str', buf', "e")
              BY <3>1, PopHostLane
          <3> QED
              BY <1>0, <1>h, <2>2, <3>2 DEF LaneInv
      <2> QED
          BY <2>1, <2>2
  <1>3. GraphInv'
      <2>1. Known(str, graph # Nothing)
          BY <1>0 DEF GraphInv
      <2>2. Known(str', graph # Nothing)
          BY <2>1, PopKnown
      <2>3. run' # Nothing => Flow(run', buf', "g")
          <3> SUFFICES ASSUME run # Nothing, run' = run PROVE Flow(run, buf', "g")
              OBVIOUS
          <3>1. Flow(run, buf, "g") /\ NoBuf \in Buffers("g") \cup {NoBuf}
              BY <1>0 DEF GraphInv
          <3> QED
              BY <3>1, SameLanes
      <2>4. Known(str', graph' # Nothing)
          BY <1>0, <2>2
      <2> QED
          BY <1>0, <2>3, <2>4 DEF GraphInv
  <1> QED
      BY <1>1, <1>2, <1>3 DEF LInv

LEMMA RunEagerLanes ==
  ASSUME LInv, NEW s \in {"main", "side"}, RunEager(s)
  PROVE  LInv'
  <1>1. /\ str[s] # << >> /\ Ready(Head(str[s]), str[Sibling(s)])
        /\ buf' = Effect(Head(str[s])) /\ str' = [str EXCEPT ![s] = Tail(str[s])]
        /\ UNCHANGED <<hostVars, cap, graph, run>>
      BY DEF RunEager
  <1>2. Flow(str, buf, "e") /\ Streamed(str) /\ Memory(buf) /\ s \in Lanes
      BY LaneFlows DEF LInv, LaneInv, GraphInv, Lanes
  <1>3. Pops(str, s, str')
      BY <1>1, <1>2 DEF Pops
  <1>4. /\ Leaves(str, s, buf, buf') /\ Memory(buf')
        /\ \A b \in Bank \ Buffers("e") : buf'[b] = buf[b]
      BY <1>1, <1>2, EffectLeaves
  <1>5. \A b \in Buffers("g") : buf'[b] = buf[b]
      BY <1>4 DEF Bank, Buffers
  <1> QED
      BY <1>1, <1>3, <1>4, <1>5, EagerPops

\* The stream goes on once the device is through with the replay.
LEMMA ReplayEndsLanes ==
  ASSUME LInv, RInv, ReplayEnds
  PROVE  LInv'
  <1>1. /\ run' = Nothing /\ str' = [str EXCEPT !["main"] = Tail(str["main"])]
        /\ UNCHANGED <<hostVars, cap, graph, buf>>
      BY DEF ReplayEnds
  <1>2. run # Nothing
      BY DEF ReplayEnds, Empty, Nothing
  <1>3. str.main # << >> /\ str.main[1].op = "replay"
      BY <1>2 DEF RInv, RunInv
  <1>4. Flow(str, buf, "e") /\ Streamed(str) /\ Memory(buf)
      BY LaneFlows DEF LInv, LaneInv, GraphInv
  <1>5. Head(str["main"]) = str["main"][1]
      BY <1>4 DEF Streamed, Lanes, IsSeq
  <1>6. Pops(str, "main", str')
      BY <1>1, <1>3, <1>4, <1>5, Sides DEF Pops, Ready
  <1>7. Leaves(str, "main", buf, buf')
      BY <1>1, <1>3 DEF Leaves, Writes, Makes
  <1> QED
      BY <1>1, <1>4, <1>6, <1>7, EagerPops

\* A replay starts, in the name of its forward.
LEMMA ReplayStartsLanes ==
  ASSUME LInv, ReplayStarts
  PROVE  LInv'
  <1>0. /\ UNCHANGED <<pc, fwd, sub, mode, pending, refused, local, str, cap, graph, buf>>
        /\ HostInv /\ LaneInv /\ GraphInv
      BY DEF ReplayStarts, hostVars, LInv
  <1>1. PICK f : f = Head(str.main).at.fwd
      OBVIOUS
  <1>2. run' = [main |-> [i \in DOMAIN graph.main |-> Renamed(graph.main[i], f)],
                side |-> [i \in DOMAIN graph.side |-> Renamed(graph.side[i], f)]]
      BY <1>1 DEF ReplayStarts, Renamed
  <1>3. run' = Renaming(graph, f)
      BY <1>2 DEF Renaming, Lanes
  <1>4. graph # Nothing
      <2>1. str.main # << >> /\ Head(str.main).op = "replay" /\ Known(str, graph # Nothing)
          BY <1>0 DEF ReplayStarts, GraphInv
      <2>2. IsSeq(str.main)
          BY <2>1 DEF Known, Streamed, Lanes
      <2>3. Head(str.main) = str.main[1] /\ 1 \in 1 .. Len(str.main)
          <3>1. Len(str.main) # 0 /\ Len(str.main) \in Nat
              BY <2>1, <2>2, SeqPlaces
          <3> QED
              BY <2>2, <3>1 DEF IsSeq
      <2>4. Node(str.main[1]) \/ graph # Nothing
          BY <2>1, <2>3, Sides DEF Known
      <2>5. ~Node(str.main[1])
          BY <2>1, <2>3 DEF Node, Gemm, Coef, Input, Post
      <2> QED
          BY <2>4, <2>5
  <1>5. Flow(run', buf, "g")
      <2>1. Flow(graph, Blank, "g") /\ Known(graph, FALSE)
          BY <1>0, <1>4 DEF GraphInv
      <2> QED
          BY <1>3, <2>1, ReplayFlow
  <1>6. HostInv'
      BY <1>0 DEF HostInv, Half, Here, Own
  <1>7. LaneInv'
      BY <1>0 DEF LaneInv, Here
  <1>8. GraphInv'
      BY <1>0, <1>5 DEF GraphInv
  <1> QED
      BY <1>6, <1>7, <1>8 DEF LInv

LEMMA RunNodeLanes ==
  ASSUME LInv, NEW s \in {"main", "side"}, RunNode(s)
  PROVE  LInv'
  <1>0. /\ UNCHANGED <<pc, fwd, sub, mode, pending, refused, local, str, cap, graph>>
        /\ HostInv /\ LaneInv /\ GraphInv
      BY DEF RunNode, hostVars, LInv
  <1>1. /\ run # Nothing /\ run[s] # << >> /\ Ready(Head(run[s]), run[Sibling(s)])
        /\ buf' = Effect(Head(run[s])) /\ run' = [run EXCEPT ![s] = Tail(run[s])]
      BY DEF RunNode
  <1>2. Flow(run, buf, "g") /\ Streamed(run) /\ Memory(buf) /\ s \in Lanes
      BY <1>0, <1>1 DEF GraphInv, Flow, Lanes
  <1>3. Pops(run, s, run')
      BY <1>1, <1>2 DEF Pops
  <1>4. /\ Leaves(run, s, buf, buf') /\ Memory(buf')
        /\ \A b \in Bank \ Buffers("g") : buf'[b] = buf[b]
      BY <1>1, <1>2, EffectLeaves
  <1>5. \A b \in Buffers("e") : buf'[b] = buf[b]
      BY <1>4 DEF Bank, Buffers
  <1>6. Flow(run', buf', "g")
      BY <1>2, <1>3, <1>4, PopFlow
  <1>7. HostInv'
      BY <1>0 DEF HostInv, Half, Here, Own
  <1>8. LaneInv'
      <2>1. CASE mode = "capture"
          <3>1. IdleLane(str, buf', "e")
              <4>1. IdleLane(str, buf, "e") /\ NoBuf \in Buffers("e") \cup {NoBuf}
                  BY <1>0, <2>1 DEF LaneInv
              <4> QED
                  BY <1>5, <4>1, SameLanes
          <3> QED
              BY <1>0, <2>1, <3>1 DEF LaneInv, Here
      <2>2. CASE mode # "capture"
          <3>1. /\ pc = "pre" => local.coef \in Buffers("e") \cup {NoBuf}
                /\ pc = "post" => local.coef \in Buffers("e")
                /\ HostLane(pc, pending, local.coef, Here, str, buf, "e") /\ "e" \in {"e", "g"}
              BY <1>0, <2>2 DEF HostInv, Own, LaneInv
          <3>2. HostLane(pc, pending, local.coef, Here, str, buf', "e")
              BY <1>5, <3>1, SameHostLane
          <3>3. Here' = Here
              BY <1>0 DEF Here
          <3> QED
              BY <1>0, <2>2, <3>2, <3>3 DEF LaneInv
      <2> QED
          BY <2>1, <2>2
  <1>9. GraphInv'
      BY <1>0, <1>4, <1>6 DEF GraphInv
  <1> QED
      BY <1>7, <1>8, <1>9 DEF LInv

------------------------------------------------------------------------------
(* The theorems.                                                            *)

\* The invariant is inductive, together with the one of the communicators.
THEOREM LanesKept == Spec => []LInv
  <1>1. LInv /\ RInv /\ [Next]_vars => LInv'
    <2> SUFFICES ASSUME LInv, RInv, [Next]_vars PROVE LInv'
        OBVIOUS
    <2>1. CASE \/ Install
               \/ \E g \in Groups : Build(g) \/ RefuseGroup(g) \/ AllReduceRaises(g)
               \/ \E b \in BOOLEAN : Prepare(b)
        BY <2>1, BootLanes
    <2>2. CASE Pre
        BY <2>2, PreLanes
    <2>3. CASE PostLayer
        BY <2>3, PostLanes
    <2>4. CASE End
        BY <2>4, EndLanes
    <2>5. CASE \E b \in BOOLEAN : AllReduce(b)
        BY <2>5, AllReduceLanes
    <2>6. CASE \E m \in {"eager", "large", "capture", "replay"} : Begin(m)
        BY <2>6, BeginLanes
    <2>7. CASE \E s \in {"main", "side"} : RunEager(s)
        BY <2>7, RunEagerLanes
    <2>8. CASE \E s \in {"main", "side"} : RunNode(s)
        BY <2>8, RunNodeLanes
    <2>9. CASE ReplayStarts
        BY <2>9, ReplayStartsLanes
    <2>10. CASE ReplayEnds
        BY <2>10, ReplayEndsLanes
    <2>11. CASE Finished \/ UNCHANGED vars
        <3>1. UNCHANGED <<pc, fwd, sub, mode, pending, refused, local, str, cap, graph, run, buf>>
            BY <2>11 DEF Finished, vars, hostVars, devVars
        <3>2. HostInv'
            BY <3>1 DEF LInv, HostInv, Half, Here, Own
        <3>3. LaneInv'
            BY <3>1 DEF LInv, LaneInv, Here
        <3>4. GraphInv'
            BY <3>1 DEF LInv, GraphInv
        <3> QED
            BY <3>2, <3>3, <3>4 DEF LInv
    <2> QED
        BY <2>1, <2>2, <2>3, <2>4, <2>5, <2>6, <2>7, <2>8, <2>9, <2>10, <2>11 DEF Next
  <1> QED
      BY <1>1, InitLanes, RoutesKept, PTL DEF Spec

\* Whatever forwards run eagerly, are captured or replayed, and however the two
\* streams interleave, a post that runs finds the coefficients of its own
\* sublayer and a layer_input those of the sublayer before: the deferred half
\* ran before, once, and no kernel reused its buffers.
THEOREM CoefficientsCorrect == Spec => []CoefficientsAreOwn
  <1>1. LInv => CoefficientsAreOwn
    <2> SUFFICES ASSUME LInv, NEW q \in Streams, q.main # << >>
                 PROVE  LET it == Head(q.main) IN
                        /\ it.op = "post" => buf[it.from] = <<it.at.fwd, it.at.sub>>
                        /\ it.op = "input" /\ it.from # NoBuf =>
                              buf[it.from] = <<it.at.fwd, it.at.sub - 1>>
        BY DEF CoefficientsAreOwn
    <2>1. PICK p : Flow(q, buf, p)
        <3>1. CASE q = str
            BY <3>1, LaneFlows DEF LInv, LaneInv
        <3>2. CASE q = run /\ run # Nothing
            BY <3>2 DEF LInv, GraphInv
        <3> QED
            BY <3>1, <3>2 DEF Streams
    <2> DEFINE it == Head(q["main"])
    <2>2. it.op \in {"post", "input"} /\ Reads(it) => buf[it.from] = Wants(it)
        <3> SUFFICES ASSUME it.op \in {"post", "input"}, Reads(it) PROVE buf[it.from] = Wants(it)
            OBVIOUS
        <3>1. Ready(it, q[Sibling("main")])
            BY DEF Ready
        <3> QED
            BY <2>1, <3>1, Sides, HeadServed
    <2> HIDE DEF it
    <2>3. /\ it.op = "post" => buf[it.from] = <<it.at.fwd, it.at.sub>>
          /\ it.op = "input" /\ it.from # NoBuf => buf[it.from] = <<it.at.fwd, it.at.sub - 1>>
        BY <2>2 DEF Reads, Wants
    <2> QED
        BY <2>3 DEF it
  <1> QED
      BY <1>1, LanesKept, PTL

\* However many sublayers a capture spans, the graph joins every piece of the
\* side stream it forks and awaits only its own records, and settle never meets
\* a half of another capture state.
THEOREM WholeGraphsCorrect == Spec => []WholeGraphs
  <1>1. LInv => WholeGraphs
      BY DEF LInv, HostInv, GraphInv, WholeGraphs, Awaited, Joined
  <1> QED
      BY <1>1, LanesKept, PTL
==============================================================================
