------------------------------ MODULE MhcOverlap ------------------------------
(* The deferred half of the deterministic mHC pre (docker/patch/
   mhc_det_overlap.py, with _pre and _post of mhc_det.py) on one rank: eager
   forwards, the capture of a CUDA graph and its replays, together with the
   all-reduces that fork the deferred half and the communicators they use.

   A forward runs Subs sublayers.  Each one's pre computes layer_input and the
   coefficients; with the overlap engaged it launches layer_input only and
   defers the GEMM and the coefficients.  The next all-reduce forks them to a
   side stream, the post joins it.  The GPU runs the streams asynchronously;
   values in buffers are the <<forward, sublayer>> they belong to.            *)
EXTENDS NcclTwin, Sequences, SequencesExt

CONSTANTS
    Forwards,   \* forwards the host runs
    Subs,       \* sublayers of a forward
    Bufs,       \* device buffers of one memory pool
    Ahead       \* launches the host may leave behind when it starts a forward

ASSUME OverlapAssumption ==
    /\ Forwards \in Nat
    /\ Subs \in Nat \ {0}
    /\ Bufs \in Nat /\ Bufs >= 4   \* two sublayers' coefficients, scratch, output
    /\ Ahead \in Nat

VARIABLES
    pc,        \* the host's next step
    fwd, sub,  \* its forward and sublayer
    mode,      \* "eager", "large" (T > MAX_T), "capture" or "replay"
    on,        \* the overlap is engaged
    pending,   \* the Pending record, or Nothing
    refused,   \* settle met work of another capture state
    local,     \* buffers the model's Python locals hold, by role
    str,       \* the eager streams: what main and side have yet to run
    cap,       \* the streams being captured
    graph,     \* the captured graph, or Nothing
    run,       \* the replay in flight on the device, or Nothing
    buf        \* what each buffer holds

hostVars == <<pc, fwd, sub, mode, on, pending, refused, local>>
devVars  == <<str, cap, graph, run, buf>>
vars == <<twinVars, hostVars, devVars>>

Nothing == [none |-> TRUE]
NoBuf == <<"none", 0>>
Empty == [main |-> <<>>, side |-> <<>>]

capturing == mode = "capture" /\ pc \in {"pre", "post"}

\* A capture allocates from the graph's own pool.
Pool == {(IF capturing THEN "g" ELSE "e")} \X (1 .. Bufs)
\* The allocator reuses memory at the first occasion.
FirstFree(held) == CHOOSE b \in Pool \ held : \A d \in Pool \ held : b[2] <= d[2]

Init ==
    /\ TwinInit
    /\ pc = "install" /\ fwd = 0 /\ sub = 1 /\ mode = "eager"
    /\ on = FALSE /\ pending = Nothing /\ refused = FALSE
    /\ local = [coef |-> NoBuf, out |-> NoBuf]
    /\ str = Empty /\ cap = Empty /\ graph = Nothing /\ run = Nothing
    /\ buf = [b \in {"e", "g"} \X (1 .. Bufs) |-> <<"free">>]

----------------------------------------------------------------------------
(* What is launched.                                                          *)

Here == [fwd |-> fwd, sub |-> sub]
Record(ev) == [op |-> "record", ev |-> ev]
Await(ev)  == [op |-> "await", ev |-> ev]
Gemm(w, s)    == [op |-> "gemm", at |-> w, to |-> s]
Coef(w, s, c) == [op |-> "coef", at |-> w, from |-> s, to |-> c]
Input(w, c)   == [op |-> "input", at |-> w, from |-> c]
Post(w, c, o) == [op |-> "post", at |-> w, from |-> c, out |-> o]
Coll(cm, o)   == [op |-> "coll", comm |-> cm, to |-> o]

\* The deferred launch of a pre: GEMM, then coefficients.
Deferred(p) == <<Gemm(p.at, p.scratch), Coef(p.at, p.scratch, p.coef)>>

\* Launch the sequences m and s on the current main and side streams.
Launch(m, s) ==
    LET On(st) == [main |-> st.main \o m, side |-> st.side \o s]
    IN  IF capturing
        THEN cap' = On(cap) /\ UNCHANGED str
        ELSE str' = On(str) /\ UNCHANGED cap

----------------------------------------------------------------------------
(* settle().                                                                  *)

\* Pending work belongs to the current capture state.
SameCapture == pending.capturing = capturing

\* Mutant: a forked half is not joined.
SettleMainNoJoin ==
    IF pending = Nothing \/ pending.forked THEN <<>> ELSE Deferred(pending)

\* What settle launches on the main and on the side stream.
SettleMain ==
    IF pending = Nothing THEN <<>>
    ELSE IF pending.forked THEN <<Await(<<"join", pending.at>>)>>
    ELSE Deferred(pending)

SettleSide ==
    IF pending # Nothing /\ pending.forked
    THEN <<Record(<<"join", pending.at>>)>> ELSE <<>>

CanSettle == pending # Nothing => SameCapture

\* settle() raises at a capture boundary: the overlap is off for good.
Crossed ==
    /\ pending' = Nothing
    /\ on' = FALSE
    /\ refused' = TRUE
    /\ pc' = "dead"
    /\ UNCHANGED <<twinVars, fwd, sub, mode, local, devVars>>

----------------------------------------------------------------------------
(* Boot.                                                                      *)

Install ==
    /\ pc = "install"
    /\ InstallTwin
    /\ pc' = "groups"
    /\ UNCHANGED <<fwd, sub, mode, on, pending, refused, local, devVars>>

Build(g) ==
    /\ pc = "groups"
    /\ BuildGroup(g)
    /\ pc' = IF \A h \in Groups \ {g} : comm[h] # "unbuilt" THEN "load" ELSE pc
    /\ UNCHANGED <<fwd, sub, mode, on, pending, refused, local, devVars>>

RefuseGroup(g) ==
    /\ pc = "groups"
    /\ BuildRefused(g)
    /\ pc' = "dead"
    /\ UNCHANGED <<fwd, sub, mode, on, pending, refused, local, devVars>>

\* prepare(): the split path engages if its self-test passes.
Prepare(passes) ==
    /\ pc = "load"
    /\ on' = passes
    /\ pc' = "idle"
    /\ UNCHANGED <<twinVars, fwd, sub, mode, pending, refused, local, devVars>>

----------------------------------------------------------------------------
(* A forward.                                                                 *)

(* The embedding's all-reduce is eager in every step; then the layers run
   eagerly, into a capture, or as one replay.                                 *)
Begin(m) ==
    /\ pc = "idle"
    /\ fwd < Forwards
    /\ Len(str.main) <= Ahead
    /\ m = "capture" => graph = Nothing
    /\ m = "replay" => graph # Nothing
    /\ mode' = m
    /\ fwd' = fwd + 1
    /\ sub' = 1
    /\ pc' = IF m = "replay" THEN "end" ELSE "pre"
    /\ str' = [str EXCEPT !.main = @ \o <<Coll(Pick("tp", FALSE), NoBuf)>> \o
                    (IF m = "replay"
                     THEN <<[op |-> "replay", at |-> [fwd |-> fwd + 1, sub |-> 0]]>>
                     ELSE <<>>)]
    /\ UNCHANGED <<twinVars, on, pending, refused, local, cap, graph, run, buf>>

(* _pre: settle, then layer_input at once and the rest deferred, or the whole
   pre where the overlap is off or the batch is too large for the det path.   *)
PreRuns ==
    /\ LET used   == {local.coef}
           s      == FirstFree(used)
           c      == FirstFree(used \cup {s})
           defers == on /\ mode # "large"
       IN  /\ Launch(SettleMain \o <<Input(Here, local.coef)>> \o
                       (IF defers THEN <<>> ELSE <<Gemm(Here, s), Coef(Here, s, c)>>),
                     SettleSide)
           /\ pending' = IF ~defers THEN Nothing
                         ELSE [at |-> Here, scratch |-> s, coef |-> c,
                               keep |-> {s, c, local.coef}, forked |-> FALSE,
                               capturing |-> capturing]
           /\ local' = [local EXCEPT !.coef = c]
    /\ pc' = "post"
    /\ UNCHANGED <<twinVars, fwd, sub, mode, on, refused, graph, run, buf>>

Pre == pc = "pre" /\ IF CanSettle THEN PreRuns ELSE Crossed

CanFork(here) ==
    pending # Nothing /\ ~pending.forked /\ on /\ here /\ SameCapture

\* Mutant: the record lets its tensors go once the kernels are launched.
ForkedDrops(p) == [p EXCEPT !.forked = TRUE, !.keep = {}]

Forked(p) == [p EXCEPT !.forked = TRUE]

\* Mutant: the side stream does not wait for the main stream.
ForkSideAtOnce(p) == Deferred(p)

\* The side stream starts behind what main has launched.
ForkSide(p) == <<Await(<<"fork", p.at>>)>> \o Deferred(p)

(* The wrapped GroupCoordinator.all_reduce: fork_at_all_reduce, then the
   collective on the communicator the router picks, into a new output.  here:
   the call is on the stream the pending half was deferred on.                *)
AllReduce(here) ==
    /\ pc = "post"
    /\ local.out = NoBuf
    /\ pending' = IF CanFork(here) THEN Forked(pending) ELSE pending
    /\ LET o == FirstFree({local.coef} \cup
                          (IF pending' = Nothing THEN {} ELSE pending'.keep))
           sum == Coll(Pick("tp", capturing), o)
       IN  /\ local' = [local EXCEPT !.out = o]
           /\ IF CanFork(here)
              THEN Launch(<<Record(<<"fork", pending.at>>), sum>>, ForkSide(pending))
              ELSE Launch(<<sum>>, <<>>)
    /\ UNCHANGED <<twinVars, pc, fwd, sub, mode, on, refused, graph, run, buf>>

\* A captured collective of a group without a twin: the boot fails.
AllReduceRaises(g) ==
    /\ pc = "post"
    /\ PickRaises(g, capturing)
    /\ pc' = "dead"
    /\ UNCHANGED <<twinVars, fwd, sub, mode, on, pending, refused, local, devVars>>

\* Mutant: the post leaves the pending half to the next pre.
PostRunsUnsettled ==
    /\ Launch(<<Post(Here, local.coef, local.out)>>, <<>>)
    /\ local' = [local EXCEPT !.out = NoBuf]
    /\ IF sub < Subs
       THEN sub' = sub + 1 /\ pc' = "pre"
       ELSE pc' = "end" /\ UNCHANGED sub
    /\ UNCHANGED <<twinVars, fwd, mode, on, pending, refused, graph, run, buf>>

(* _post: settle, then the post; the sublayer's output buffer is free again.  *)
PostRuns ==
    /\ Launch(SettleMain \o <<Post(Here, local.coef, local.out)>>, SettleSide)
    /\ pending' = Nothing
    /\ local' = [local EXCEPT !.out = NoBuf]
    /\ IF sub < Subs
       THEN sub' = sub + 1 /\ pc' = "pre"
       ELSE pc' = "end" /\ UNCHANGED sub
    /\ UNCHANGED <<twinVars, fwd, mode, on, refused, graph, run, buf>>

PostLayer == pc = "post" /\ IF CanSettle THEN PostRuns ELSE Crossed

\* The end of the forward: a capture becomes the graph; logits are gathered.
End ==
    /\ pc = "end"
    /\ IF mode = "capture"
       THEN graph' = cap /\ cap' = Empty
       ELSE UNCHANGED <<graph, cap>>
    /\ str' = [str EXCEPT !.main = Append(@, Coll(Pick("tp", FALSE), NoBuf))]
    /\ local' = [coef |-> NoBuf, out |-> NoBuf]
    /\ pc' = "idle"
    /\ UNCHANGED <<twinVars, fwd, sub, mode, on, pending, refused, run, buf>>

----------------------------------------------------------------------------
(* The device.                                                                *)

\* The head of a stream can run; other is the rest of its sibling stream.
Ready(it, other) ==
    it.op = "await" => \A i \in DOMAIN other : other[i] # Record(it.ev)

\* What the kernel at the head leaves in the buffers.
Effect(it) ==
    CASE it.op = "gemm" -> [buf EXCEPT ![it.to] = <<it.at.fwd, it.at.sub>>]
      [] it.op = "coef" -> [buf EXCEPT ![it.to] = buf[it.from]]
      [] it.op = "coll" /\ it.to # NoBuf -> [buf EXCEPT ![it.to] = <<"sum">>]
      [] OTHER -> buf

Sibling(s) == IF s = "main" THEN "side" ELSE "main"

RunEager(s) ==
    /\ str[s] # <<>>
    /\ Head(str[s]).op # "replay"
    /\ Ready(Head(str[s]), str[Sibling(s)])
    /\ buf' = Effect(Head(str[s]))
    /\ str' = [str EXCEPT ![s] = Tail(@)]
    /\ UNCHANGED <<twinVars, hostVars, cap, graph, run>>

\* A replay starts with the graph's nodes, in this forward's name.
ReplayStarts ==
    /\ run = Nothing
    /\ str.main # <<>>
    /\ Head(str.main).op = "replay"
    /\ LET InRun(q) == [i \in DOMAIN q |->
                IF "at" \in DOMAIN q[i]
                THEN [q[i] EXCEPT !.at.fwd = Head(str.main).at.fwd] ELSE q[i]]
       IN  run' = [main |-> InRun(graph.main), side |-> InRun(graph.side)]
    /\ UNCHANGED <<twinVars, hostVars, str, cap, graph, buf>>

RunNode(s) ==
    /\ run # Nothing
    /\ run[s] # <<>>
    /\ Ready(Head(run[s]), run[Sibling(s)])
    /\ buf' = Effect(Head(run[s]))
    /\ run' = [run EXCEPT ![s] = Tail(@)]
    /\ UNCHANGED <<twinVars, hostVars, str, cap, graph>>

ReplayEnds ==
    /\ run = Empty
    /\ run' = Nothing
    /\ str' = [str EXCEPT !.main = Tail(@)]
    /\ UNCHANGED <<twinVars, hostVars, cap, graph, buf>>

\* The bounded host is done, or the boot failed.
Finished ==
    /\ pc = "dead" \/ (pc = "idle" /\ fwd = Forwards)
    /\ str = Empty
    /\ UNCHANGED vars

Next ==
    \/ Install \/ Pre \/ PostLayer \/ End \/ Finished
    \/ \E g \in Groups : Build(g) \/ RefuseGroup(g) \/ AllReduceRaises(g)
    \/ \E b \in BOOLEAN : AllReduce(b) \/ Prepare(b)
    \/ \E m \in {"eager", "large", "capture", "replay"} : Begin(m)
    \/ \E s \in {"main", "side"} : RunEager(s) \/ RunNode(s)
    \/ ReplayStarts \/ ReplayEnds

----------------------------------------------------------------------------
(* Properties.                                                                *)

Streams == {str, run} \ {Nothing}

(* A post reads the coefficients of its own sublayer, and a pre's layer_input
   those of the sublayer before, in eager forwards and in every replay: the
   deferred half ran before, once, and nothing reused its buffers
   (mhc_det_overlap.settle, Pending.keep, _fork).                             *)
CoefficientsAreOwn ==
    \A q \in Streams : q.main # <<>> =>
        LET it == Head(q.main) IN
        /\ it.op = "post" => buf[it.from] = <<it.at.fwd, it.at.sub>>
        /\ it.op = "input" /\ it.from # NoBuf =>
                buf[it.from] = <<it.at.fwd, it.at.sub - 1>>

(* A captured graph joins all the side-stream work it forks and waits for
   nothing outside it, and settle never meets work of another capture state
   (mhc_det_overlap docstring: a pending record never crosses a capture
   boundary).                                                                 *)
WholeGraphs ==
    /\ ~refused
    /\ graph # Nothing =>
        /\ \A i \in DOMAIN graph.main : graph.main[i].op = "await" =>
                \E j \in DOMAIN graph.side : graph.side[j] = Record(graph.main[i].ev)
        /\ graph.side # <<>> =>
                \E i \in DOMAIN graph.main :
                    /\ graph.main[i].op = "await"
                    /\ Last(graph.side) = Record(graph.main[i].ev)

GraphComms ==
    IF graph = Nothing THEN {}
    ELSE {it.comm : it \in {x \in ToSet(graph.main) : x.op = "coll"}}

(* No eager collective is launched while a replay that uses its communicator
   is outstanding, unless that communicator was made with mixing on
   (nccl_eager_twin docstring: "Why not the env var alone").                  *)
NoMixedLaunch ==
    \A i, j \in DOMAIN str.main :
        /\ i < j
        /\ str.main[i].op = "replay"
        /\ str.main[j].op = "coll"
        /\ str.main[j].comm \in GraphComms
        => mixed[str.main[j].comm[1]]

Spec == Init /\ [][Next]_vars
==============================================================================
