----------------------------- MODULE EngramCpuHash -----------------------------
(***************************************************************************)
(* The CPU-side Engram hash (docker/patch/engram_cpu_hash.py).  At the end *)
(* of a step the runner snapshots the step's outputs to pinned memory on a *)
(* side stream, and a worker thread predicts the next step's input, hashes *)
(* it into hash_host and gathers the table rows into rows_host.  When the  *)
(* next step's batch has the predicted shape, stage() copies rows_host to  *)
(* the device without hashing on the GPU; otherwise it runs the stock path *)
(* on the same two buffers.  A canary job compares the GPU's own hash of   *)
(* every such step afterwards, off the main thread.                        *)
(*                                                                         *)
(* Processes: the main thread, the worker pool's one thread, the threads   *)
(* of _ENG_STAGE_POOL, and two GPU streams.  A stream is the queue of what *)
(* it has yet to execute; an event is a number of operations completed.    *)
(***************************************************************************)
EXTENDS Integers, FiniteSets, Sequences

CONSTANTS
    Steps,     \* engine steps to run (a bound)
    RunAhead,  \* steps the host may be ahead of the main stream (a bound)
    Tables,    \* Engram tables, numbered 1 .. Tables
    WarmN      \* warm_n, the steps of warm-up validation

ASSUME CpuHashAssumption ==
    /\ Steps \in Nat \ {0}
    /\ RunAhead \in Nat \ {0}
    /\ Tables \in Nat \ {0}
    /\ WarmN \in Nat

StepIds  == 1 .. Steps
TableIds == 1 .. Tables

\* What a prediction got right: everything; the tokens but not the lookback
\* window; not even the tokens and positions.
Kinds == {"right", "badWindow", "badTokens"}

\* What a batch looks like to the next stage() call.
Batches == {"decode", "surprise", "prefill", "empty"}

NoStep == 0
Nothing == [step |-> NoStep, kind |-> "right"]

VARIABLES
    \* the main thread
    step,      \* the engine step
    pc,        \* where in the step it is
    batch,     \* the step's batch, against the signature of the prediction
    mode,      \* how each step filled the buffers
    \* st[...]: the lever's own state
    ok, warm, gen, pending, pred,
    \* threads
    jobs,      \* the worker pool's queue, the running job first
    wpc,       \* where in that job the worker is
    doneGen,   \* the last generation whose future is done
    guess,     \* what the running job predicted
    tasks,     \* gathers in _ENG_STAGE_POOL: <<who submitted them, table>>
    failed,    \* gathers of the running job that raised
    \* GPU
    mainQ, mainDone, sideQ, sideDone,
    devIn,     \* the step whose input the device's input buffers hold
    snapEv, canaryEv, h2dEv,
    \* buffers
    hashHost,  \* pinned: the hashes
    rowsHost,  \* pinned: the rows of each table
    pins,      \* pinned: the step the snapshot was taken of
    gpuPin,    \* pinned: the step the canary's GPU hash is of
    staged     \* device: the rows each step copied

lever == <<ok, warm, gen, pending, pred>>
work  == <<jobs, wpc, doneGen, guess, failed>>
gpu   == <<mainQ, mainDone, sideQ, sideDone, devIn, snapEv, canaryEv, h2dEv>>
host  == <<hashHost, rowsHost, pins, gpuPin, staged>>
vars  == <<step, pc, batch, mode, lever, work, tasks, gpu, host>>

Init ==
    /\ step = 1 /\ pc = "prepare" /\ batch = "empty"
    /\ mode = [s \in StepIds |-> "none"]
    /\ ok = TRUE /\ warm = 0 /\ gen = 0 /\ pending = 0 /\ pred = Nothing
    /\ jobs = << >> /\ wpc = "start" /\ doneGen = 0 /\ guess = Nothing
    /\ tasks = {} /\ failed = {}
    /\ mainQ = << >> /\ mainDone = 0 /\ sideQ = << >> /\ sideDone = 0
    /\ devIn = NoStep /\ snapEv = 0 /\ canaryEv = 0 /\ h2dEv = 0
    /\ hashHost = Nothing
    /\ rowsHost = [t \in TableIds |-> Nothing]
    /\ pins = NoStep /\ gpuPin = NoStep
    /\ staged = [s \in StepIds |-> rowsHost]

------------------------------------------------------------------------------
\* Streams and events.
MainIssued == mainDone + Len(mainQ)
SideIssued == sideDone + Len(sideQ)

\* Mutant: wait_stream is issued under the side stream, where it waits for
\* nothing.
OnSideSelfWait(op, s) == sideQ' = Append(sideQ, [op |-> op, step |-> s, after |-> 0])

\* stream.wait_stream(main), then op on the side stream.
OnSide(op, s) == sideQ' = Append(sideQ, [op |-> op, step |-> s, after |-> MainIssued])

RunMain ==
    /\ mainQ # << >>
    /\ LET o == Head(mainQ) IN
       /\ devIn' = IF o.op = "prepare" THEN o.step ELSE devIn
       /\ hashHost' = IF o.op = "hash" THEN [step |-> o.step, kind |-> "right"] ELSE hashHost
       /\ staged' = IF o.op = "h2d" THEN [staged EXCEPT ![o.step] = rowsHost] ELSE staged
    /\ mainQ' = Tail(mainQ)
    /\ mainDone' = mainDone + 1
    /\ UNCHANGED <<step, pc, batch, mode, lever, work, tasks, sideQ, sideDone,
                   snapEv, canaryEv, h2dEv, rowsHost, pins, gpuPin>>

RunSide ==
    /\ sideQ # << >>
    /\ LET o == Head(sideQ) IN
       /\ mainDone >= o.after
       /\ pins' = IF o.op = "snapshot" THEN devIn ELSE pins
       /\ gpuPin' = IF o.op = "canary" THEN devIn ELSE gpuPin
    /\ sideQ' = Tail(sideQ)
    /\ sideDone' = sideDone + 1
    /\ UNCHANGED <<step, pc, batch, mode, lever, work, tasks, mainQ, mainDone,
                   devIn, snapEv, canaryEv, h2dEv, hashHost, rowsHost, staged>>

------------------------------------------------------------------------------
\* The worker's thread.
Job == jobs[1]
JobDone == /\ jobs' = Tail(jobs)
           /\ wpc' = "start"
           /\ failed' = {}
           /\ doneGen' = IF Job.type = "predict" THEN Job.gen ELSE doneGen

Running(type, at) == jobs # << >> /\ Job.type = type /\ wpc = at

\* Both waits of _ch_worker have ended.
SnapshotLanded == mainDone >= h2dEv /\ sideDone >= snapEv

\* Superseded, nothing to predict, or an exception before the first write.
WorkerGivesUp ==
    /\ Running("predict", "start")
    /\ SnapshotLanded
    /\ JobDone
    /\ ok' \in IF gen = Job.gen THEN {ok, FALSE} ELSE {ok}
    /\ UNCHANGED <<step, pc, batch, mode, warm, gen, pending, pred, guess, tasks, gpu, host>>

\* The prediction rule and the hash run on a private copy of the snapshot; a
\* snapshot of another step's input never yields this step's tokens.
WorkerPredicts ==
    /\ Running("predict", "start")
    /\ SnapshotLanded
    /\ gen = Job.gen
    /\ \E k \in IF pins = Job.step THEN Kinds ELSE {"badTokens"} :
          guess' = [step |-> Job.step + 1, kind |-> k]
    /\ wpc' = "write"
    /\ UNCHANGED <<step, pc, batch, mode, lever, jobs, doneGen, failed, tasks, gpu, host>>

WorkerWrites ==
    /\ Running("predict", "write")
    /\ hashHost' = guess
    /\ tasks' = tasks \cup {<<Job.gen, t>> : t \in TableIds}
    /\ wpc' = "gather"
    /\ UNCHANGED <<step, pc, batch, mode, lever, jobs, doneGen, guess, failed, gpu,
                   rowsHost, pins, gpuPin, staged>>

\* Mutant: the prediction is published without waiting for the gathers.
WorkerPublishesEarly ==
    /\ Running("predict", "gather")
    /\ failed = {}
    /\ pred' = guess
    /\ JobDone
    /\ UNCHANGED <<step, pc, batch, mode, ok, warm, gen, pending, guess, tasks, gpu, host>>

WorkerPublishes ==
    /\ Running("predict", "gather")
    /\ failed = {}
    /\ \A t \in TableIds : <<Job.gen, t>> \notin tasks
    /\ pred' = guess
    /\ JobDone
    /\ UNCHANGED <<step, pc, batch, mode, ok, warm, gen, pending, guess, tasks, gpu, host>>

\* Mutant: a failed gather leaves the lever armed.
WorkerRaisesArmed ==
    /\ Running("predict", "gather")
    /\ \E t \in failed : \A u \in 1 .. (t - 1) : <<Job.gen, u>> \notin tasks
    /\ JobDone
    /\ UNCHANGED <<step, pc, batch, mode, lever, guess, tasks, gpu, host>>

\* for f in futs: the first failed gather raises, without the later ones.
WorkerRaises ==
    /\ Running("predict", "gather")
    /\ \E t \in failed : \A u \in 1 .. (t - 1) : <<Job.gen, u>> \notin tasks
    /\ ok' = FALSE
    /\ JobDone
    /\ UNCHANGED <<step, pc, batch, mode, warm, gen, pending, pred, guess, tasks, gpu, host>>

\* Mutant: the tokens are compared, not the hashes of them and their window.
CanaryTokens ==
    /\ Running("canary", "start")
    /\ sideDone >= canaryEv
    /\ ok' = (ok /\ gpuPin = Job.step /\ Job.kind # "badTokens")
    /\ JobDone
    /\ UNCHANGED <<step, pc, batch, mode, warm, gen, pending, pred, guess, tasks, gpu, host>>

\* _ch_canary: the GPU's hash against the one that fed the step.
Canary ==
    /\ Running("canary", "start")
    /\ sideDone >= canaryEv
    /\ ok' = (ok /\ gpuPin = Job.step /\ Job.kind = "right")
    /\ JobDone
    /\ UNCHANGED <<step, pc, batch, mode, warm, gen, pending, pred, guess, tasks, gpu, host>>

\* Mutant: the gathers are submitted to the worker's own pool.
GatherOnOwnPool(who, t) ==
    /\ <<who, t>> \in tasks
    /\ jobs = << >>
    /\ tasks' = tasks \ {<<who, t>>}
    /\ \/ /\ rowsHost' = [rowsHost EXCEPT ![t] = hashHost]
          /\ UNCHANGED failed
       \/ /\ who # 0
          /\ failed' = IF wpc = "gather" /\ Job.gen = who THEN failed \cup {t} ELSE failed
          /\ UNCHANGED rowsHost
    /\ UNCHANGED <<step, pc, batch, mode, lever, jobs, wpc, doneGen, guess, gpu,
                   hashHost, pins, gpuPin, staged>>

\* A thread of _ENG_STAGE_POOL reads hash_host and fills one table's rows, or
\* raises (a read error).  One that the stock path submitted ends the process.
Gather(who, t) ==
    /\ <<who, t>> \in tasks
    /\ tasks' = tasks \ {<<who, t>>}
    /\ \/ /\ rowsHost' = [rowsHost EXCEPT ![t] = hashHost]
          /\ UNCHANGED failed
       \/ /\ who # 0
          /\ failed' = IF wpc = "gather" /\ Job.gen = who THEN failed \cup {t} ELSE failed
          /\ UNCHANGED rowsHost
    /\ UNCHANGED <<step, pc, batch, mode, lever, jobs, wpc, doneGen, guess, gpu,
                   hashHost, pins, gpuPin, staged>>

------------------------------------------------------------------------------
\* The main thread: execute_model, from prepare_inputs to the post-propose hook.
NextStep == step' = step + 1 /\ pc' = "prepare"

\* commit_batch's signature, and the kernels that fill the input buffers.
Prepare ==
    /\ pc = "prepare"
    /\ step <= Steps
    /\ Cardinality({i \in DOMAIN mainQ : mainQ[i].op = "prepare"}) < RunAhead
    /\ batch' \in Batches
    /\ mainQ' = Append(mainQ, [op |-> "prepare", step |-> step])
    /\ pc' = IF batch' = "empty" THEN "enqueue" ELSE "try"
    /\ UNCHANGED <<step, mode, lever, work, tasks, mainDone, sideQ, sideDone, devIn,
                   snapEv, canaryEv, h2dEv, host>>

\* _ch_try_stage: not armed, or no worker was started: the stock path at once.
TryStage ==
    /\ pc = "try"
    /\ pc' = IF ok /\ pending # 0 THEN "join" ELSE "hash"
    /\ UNCHANGED <<step, batch, mode, lever, work, tasks, gpu, host>>

\* Mutant: one warm-up step too many.
JoinWarmsMore ==
    /\ pc = "join"
    /\ doneGen >= pending
    /\ pending' = 0
    /\ IF pred = Nothing \/ batch # "decode"
       THEN pred' = Nothing /\ pc' = "hash"
       ELSE pred' = pred /\ pc' = IF warm <= WarmN THEN "verify" ELSE "steady"
    /\ UNCHANGED <<step, batch, mode, ok, warm, gen, work, tasks, gpu, host>>

\* pend["fut"].result(), then the prediction against the batch's signature.
Join ==
    /\ pc = "join"
    /\ doneGen >= pending
    /\ pending' = 0
    /\ IF pred = Nothing \/ batch # "decode"
       THEN pred' = Nothing /\ pc' = "hash"
       ELSE pred' = pred /\ pc' = IF warm < WarmN THEN "verify" ELSE "steady"
    /\ UNCHANGED <<step, batch, mode, ok, warm, gen, work, tasks, gpu, host>>

\* Warm-up, after hashes_ready and snap_ev: the mirror against the GPU on the
\* step's own input, then the predicted tokens and positions against it.
VerifyRejects ==
    /\ pc = "verify"
    /\ mainQ = << >> /\ sideQ = << >>
    /\ ok' = FALSE
    /\ pred' = Nothing
    /\ pc' = "hash"
    /\ UNCHANGED <<step, batch, mode, warm, gen, pending, work, tasks, gpu, host>>

VerifyAccepts ==
    /\ pc = "verify"
    /\ mainQ = << >> /\ sideQ = << >>
    /\ pred.kind # "badTokens"
    /\ warm' = warm + 1
    /\ mode' = [mode EXCEPT ![step] = "warm"]
    /\ pred' = Nothing
    /\ pc' = "h2d"
    /\ UNCHANGED <<step, batch, ok, gen, pending, work, tasks, gpu, host>>

\* Steady state: serve the prediction, and start its canary.
Steady ==
    /\ pc = "steady"
    /\ OnSide("canary", step)
    /\ canaryEv' = SideIssued + 1
    /\ jobs' = Append(jobs, [type |-> "canary", gen |-> 0, step |-> step, kind |-> pred.kind])
    /\ mode' = [mode EXCEPT ![step] = "steady"]
    /\ pred' = Nothing
    /\ pc' = "h2d"
    /\ UNCHANGED <<step, batch, ok, warm, gen, pending, wpc, doneGen, guess, failed, tasks,
                   mainQ, mainDone, sideDone, devIn, snapEv, h2dEv, host>>

\* The stock path: hash on the GPU, copy to hash_host, wait, gather.
StockHash ==
    /\ pc = "hash"
    /\ mainQ' = Append(mainQ, [op |-> "hash", step |-> step])
    /\ mode' = [mode EXCEPT ![step] = "stock"]
    /\ pc' = "sync"
    /\ UNCHANGED <<step, batch, lever, work, tasks, mainDone, sideQ, sideDone, devIn,
                   snapEv, canaryEv, h2dEv, host>>

StockSync ==
    /\ pc = "sync"
    /\ mainQ = << >>
    /\ tasks' = tasks \cup {<<0, t>> : t \in TableIds}
    /\ pc' = "gather"
    /\ UNCHANGED <<step, batch, mode, lever, work, gpu, host>>

StockGathered ==
    /\ pc = "gather"
    /\ \A t \in TableIds : <<0, t>> \notin tasks
    /\ pc' = "h2d"
    /\ UNCHANGED <<step, batch, mode, lever, work, tasks, gpu, host>>

\* dest.copy_(staged) per table, and _ch_note_h2d after a fast step.
Upload ==
    /\ pc = "h2d"
    /\ mainQ' = Append(mainQ, [op |-> "h2d", step |-> step])
    /\ h2dEv' = IF mode[step] = "stock" THEN h2dEv ELSE MainIssued + 1
    /\ pc' = "enqueue"
    /\ UNCHANGED <<step, batch, mode, lever, work, tasks, mainDone, sideQ, sideDone, devIn,
                   snapEv, canaryEv, host>>

\* enqueue_cpu_hash.
EnqueueUnarmed ==
    /\ pc = "enqueue"
    /\ ~ok
    /\ NextStep
    /\ UNCHANGED <<batch, mode, lever, work, tasks, gpu, host>>

\* _ch_drain: join what was not consumed.
Drain == doneGen >= pending /\ pred' = Nothing

\* side-stream copies of the step's input and output, then snap_ev.
Snapshot == OnSide("snapshot", step) /\ snapEv' = SideIssued + 1

\* A batch that cannot be predicted, or an exception, perhaps after the copies.
EnqueueSkips ==
    /\ pc = "enqueue"
    /\ ok
    /\ Drain
    /\ pending' = 0
    /\ \/ UNCHANGED <<sideQ, snapEv>>
       \/ batch \in {"decode", "surprise"} /\ Snapshot
    /\ NextStep
    /\ UNCHANGED <<batch, mode, ok, warm, gen, work, tasks, mainQ, mainDone, sideDone,
                   devIn, canaryEv, h2dEv, host>>

EnqueueSubmits ==
    /\ pc = "enqueue"
    /\ ok
    /\ batch \in {"decode", "surprise"}
    /\ Drain
    /\ Snapshot
    /\ gen' = gen + 1
    /\ pending' = gen'
    /\ jobs' = Append(jobs, [type |-> "predict", gen |-> gen', step |-> step, kind |-> "right"])
    /\ NextStep
    /\ UNCHANGED <<batch, mode, ok, warm, wpc, doneGen, guess, failed, tasks, mainQ,
                   mainDone, sideDone, devIn, canaryEv, h2dEv, host>>

------------------------------------------------------------------------------
Main ==
    \/ Prepare \/ TryStage \/ Join \/ VerifyRejects \/ VerifyAccepts \/ Steady
    \/ StockHash \/ StockSync \/ StockGathered \/ Upload
    \/ EnqueueUnarmed \/ EnqueueSkips \/ EnqueueSubmits

Worker ==
    \/ WorkerGivesUp \/ WorkerPredicts \/ WorkerWrites
    \/ WorkerPublishes \/ WorkerRaises \/ Canary

StageThread == \E task \in tasks : Gather(task[1], task[2])

Next == Main \/ Worker \/ StageThread \/ RunMain \/ RunSide

Spec == Init /\ [][Next]_vars

\* Threads are scheduled and the GPU executes what it was given.
Fairness ==
    /\ WF_vars(Main) /\ WF_vars(Worker) /\ WF_vars(StageThread)
    /\ WF_vars(RunMain) /\ WF_vars(RunSide)

FairSpec == Spec /\ Fairness

------------------------------------------------------------------------------
Values == [step : 0 .. (Steps + 1), kind : Kinds]
MainOps == [op : {"prepare", "hash", "h2d"}, step : StepIds]
SideOps == [op : {"snapshot", "canary"}, step : StepIds, after : Nat]
Jobs == [type : {"predict", "canary"}, gen : 0 .. Steps, step : StepIds, kind : Kinds]

TypeOK ==
    /\ step \in 1 .. (Steps + 1)
    /\ pc \in {"prepare", "try", "join", "verify", "steady", "hash", "sync", "gather",
               "h2d", "enqueue"}
    /\ batch \in Batches
    /\ mode \in [StepIds -> {"none", "stock", "warm", "steady"}]
    /\ ok \in BOOLEAN /\ warm \in 0 .. WarmN
    /\ gen \in 0 .. Steps /\ pending \in 0 .. gen /\ pred \in Values
    /\ jobs \in Seq(Jobs) /\ wpc \in {"start", "write", "gather"}
    /\ doneGen \in 0 .. gen /\ guess \in Values
    /\ tasks \subseteq (0 .. Steps) \X TableIds /\ failed \subseteq TableIds
    /\ mainQ \in Seq(MainOps) /\ mainDone \in Nat
    /\ sideQ \in Seq(SideOps) /\ sideDone \in Nat
    /\ devIn \in 0 .. Steps
    /\ snapEv \in Nat /\ canaryEv \in Nat /\ h2dEv \in Nat
    /\ hashHost \in Values /\ rowsHost \in [TableIds -> Values]
    /\ pins \in 0 .. Steps /\ gpuPin \in 0 .. Steps
    /\ staged \in [StepIds -> [TableIds -> Values]]

Served(s) == staged[s] # [t \in TableIds |-> Nothing]
Fast(s)   == mode[s] \in {"warm", "steady"}
RightRows(s) == [t \in TableIds |-> [step |-> s, kind |-> "right"]]

\* What a step copies to the device without hashing on the GPU is one whole
\* prediction of that very step: no row of an older one, and none of a gather
\* still running or of the next prediction's worker already writing.
FastServesOnePrediction ==
    \A s \in StepIds :
        Fast(s) /\ Served(s) =>
            \E k \in Kinds : staged[s] = [t \in TableIds |-> [step |-> s, kind |-> k]]

\* While the lever is armed, rows_host does not change under a queued copy: the
\* next worker writes only after the side stream has passed it.
RowsInFlight ==
    ok => \A i \in DOMAIN mainQ :
              LET s == mainQ[i].step IN
              mainQ[i].op = "h2d" =>
                  IF Fast(s) THEN \A t \in TableIds : rowsHost[t].step = s
                             ELSE rowsHost = RightRows(s)

\* The canary is asynchronous, and what it bounds is this: after a step served
\* a wrong prediction, at most one more step is served without the GPU's hash,
\* because that step joins a worker queued behind the canary.
OneMoreAtMost ==
    \A s \in StepIds :
        mode[s] = "steady" /\ Served(s) /\ staged[s] # RightRows(s) =>
            Cardinality({u \in StepIds : u > s /\ Fast(u)}) <= 1

\* "a newer worker": no worker writes while gathers of an older one remain.
NewerWorkerAlone ==
    /\ wpc # "start" => \A task \in tasks : task[1] \in {0, Job.gen}
    /\ \A a, b \in tasks : a[1] # 0 /\ b[1] # 0 => a[1] = b[1]

\* Nobody waits for good: the main thread joins the worker, the worker waits
\* for the streams and its gathers, the streams for nobody.
StepsEnd == <>(step > Steps)

\* "so it never writes pinned buffers while the stock path uses them": from
\* the stock path's hash to its upload no worker of the lever writes.
StockPathAlone ==
    step \in StepIds /\ mode[step] = "stock" /\ pc \in {"sync", "gather", "h2d"} =>
        /\ ~Running("predict", "write")
        /\ \A task \in tasks : task[1] = 0

\* "predicted ids/pos/qsl/window vs actual": a step that passed the warm-up
\* validation was served the rows of its own input.
WarmupExact == \A s \in StepIds : mode[s] = "warm" /\ Served(s) => staged[s] = RightRows(s)
==============================================================================
