------------------------- MODULE EngramCpuHashProofs -------------------------
(***************************************************************************)
(* Proofs about EngramCpuHash, for any number of steps, tables and warm-up *)
(* steps: a fast step serves one whole prediction of itself, no queued     *)
(* copy's rows change while the lever is armed, workers do not overlap,    *)
(* and a wrong prediction is followed by at most one more fast step.       *)
(***************************************************************************)
EXTENDS EngramCpuHash, SequenceTheorems, FiniteSetTheorems, TLAPS

\* Where the main thread is in the step, and which steps have been served.
Places ==
    /\ gen < step
    /\ pc # "prepare" => step <= Steps
    /\ \A s \in StepIds : mode[s] # "none" =>
          s < step \/ (s = step /\ pc \in {"sync", "gather", "h2d", "enqueue"})
    /\ pc \in {"sync", "gather"} => mode[step] = "stock"
    /\ pc = "h2d" => mode[step] # "none"
    /\ pc = "verify" => warm < WarmN
    /\ pc = "join" => pending # 0
    /\ pc \in {"verify", "steady"} => jobs = << >> /\ pred # Nothing /\ pending = 0
    /\ ok /\ pending # 0 =>
          pc \in {"prepare", "try", "join"} \/ (pc = "enqueue" /\ batch = "empty")

\* A prediction is the last job of the queue and of the newest generation, and
\* until its future is done it is pending.
JobsInv ==
    /\ \A i \in 1 .. Len(jobs) : jobs[i].type = "predict" =>
          i = Len(jobs) /\ jobs[i].gen = gen /\ pending = gen /\ doneGen < gen
    /\ pending # 0 =>
          pending = gen /\ (jobs = << >> \/ jobs[Len(jobs)].type = "predict")
    /\ wpc # "start" => jobs # << >> /\ Job.type = "predict"

Predicting == jobs # << >> /\ jobs[Len(jobs)].type = "predict"
Leftover   == \E task \in tasks : task[1] # 0

\* Gathers are the stock path's, or the worker's of the newest generation; a
\* disarmed lever's worker may leave some behind.
TasksInv ==
    /\ \A task \in tasks : task[1] = 0 => pc = "gather"
    /\ \A task \in tasks : task[1] # 0 => task[1] = gen /\ (ok => wpc = "gather")

\* Copies and hashes that are queued.
QueueInv ==
    /\ pc = "gather" => mainQ = << >>
    /\ \A i \in 1 .. Len(mainQ) :
          /\ mainQ[i].op = "hash" => pc = "sync"
          /\ mainQ[i].op = "h2d" => mode[mainQ[i].step] # "none"
    /\ pc = "sync" /\ mainQ # << >> =>
          mainQ[Len(mainQ)] = [op |-> "hash", step |-> step]
    /\ \A s \in StepIds : Served(s) => mode[s] # "none"

\* No prediction is kept while the worker, or what it left behind, may write.
PredInv ==
    /\ Predicting \/ Leftover =>
          pred = Nothing /\ pc \notin {"verify", "steady"} /\ ~(pc = "h2d" /\ Fast(step))
    /\ ok /\ pred # Nothing => pending # 0 \/ pc \in {"verify", "steady"}

\* The copies that the worker's write would disturb stand before its snapshot
\* on the two streams.
SnapInv ==
    /\ snapEv <= sideDone + Len(sideQ)
    /\ wpc # "start" => snapEv <= sideDone
    /\ Predicting =>
          \A i \in 1 .. Len(mainQ) : mainQ[i].op = "h2d" /\ (ok \/ Fast(mainQ[i].step)) =>
              snapEv > sideDone /\ sideQ[snapEv - sideDone].after >= mainDone + i
    /\ Leftover => \A i \in 1 .. Len(mainQ) : ~(mainQ[i].op = "h2d" /\ Fast(mainQ[i].step))

\* The main thread has seen the lever armed in this step, or still may.
Trusting == ok \/ pc \in {"join", "verify", "steady"}

Right(s) == [step |-> s, kind |-> "right"]
Whole(s, k) == [t \in TableIds |-> [step |-> s, kind |-> k]]

\* How far the worker has carried the prediction of the step at hand.
GuessInv ==
    /\ Predicting /\ Trusting => jobs[Len(jobs)].step + 1 = step
    /\ wpc # "start" => guess.step = Job.step + 1
    /\ wpc = "gather" /\ Trusting =>
          /\ hashHost = guess
          /\ \A t \in TableIds : <<gen, t>> \in tasks \/ t \in failed \/ rowsHost[t] = guess
    /\ pred # Nothing /\ Trusting =>
          pred.step = step /\ \A t \in TableIds : rowsHost[t] = pred

\* A step that is served fast copies one whole prediction of itself.
FastInv ==
    /\ pc = "h2d" /\ Fast(step) => \E k \in Kinds : rowsHost = Whole(step, k)
    /\ \A i \in 1 .. Len(mainQ) : mainQ[i].op = "h2d" /\ Fast(mainQ[i].step) =>
          \E k \in Kinds : rowsHost = Whole(mainQ[i].step, k)
    /\ \A s \in StepIds : Served(s) /\ Fast(s) => \E k \in Kinds : staged[s] = Whole(s, k)

\* While the lever is armed the stock path has the buffers to itself.
StockInv ==
    ok =>
      /\ pc = "sync" /\ mainQ = << >> => hashHost = Right(step)
      /\ pc = "gather" =>
            /\ hashHost = Right(step)
            /\ \A t \in TableIds : <<0, t>> \in tasks \/ rowsHost[t] = Right(step)
      /\ pc = "h2d" /\ ~Fast(step) => rowsHost = RightRows(step)
      /\ \A i \in 1 .. Len(mainQ) : mainQ[i].op = "h2d" /\ ~Fast(mainQ[i].step) =>
            rowsHost = RightRows(mainQ[i].step)

\* Step s was served a wrong prediction, or its copy will be.
Wrong(s) ==
    /\ mode[s] = "steady"
    /\ \/ Served(s) /\ staged[s] # RightRows(s)
       \/ /\ rowsHost # RightRows(s)
          /\ \/ pc = "h2d" /\ s = step
             \/ \E i \in 1 .. Len(mainQ) : mainQ[i] = [op |-> "h2d", step |-> s]

Later(s) == {u \in StepIds : u > s /\ Fast(u)}

\* Its canary has disarmed the lever or is queued before the next prediction.
CanaryInv ==
    \A s \in StepIds : Wrong(s) =>
        /\ ok => \E i \in 1 .. Len(jobs) :
                    jobs[i].type = "canary" /\ jobs[i].step = s /\ jobs[i].kind # "right"
        /\ \/ Later(s) = {}
           \/ ~Trusting /\ \E u \in StepIds : Later(s) = {u}

IInv ==
    /\ TypeOK /\ Places /\ JobsInv /\ TasksInv /\ QueueInv /\ PredInv
    /\ SnapInv /\ GuessInv /\ FastInv /\ StockInv /\ CanaryInv

LEMMA InitInv == Init => IInv
  <1> SUFFICES ASSUME Init PROVE IInv
      OBVIOUS
  <1> USE CpuHashAssumption
  <1>1. Nothing \in Values
      BY DEF Nothing, Values, Kinds, NoStep
  <1>2. TypeOK
      <2>1. rowsHost \in [TableIds -> Values] /\ staged \in [StepIds -> [TableIds -> Values]]
          BY <1>1 DEF Init
      <2>2. mode \in [StepIds -> {"none", "stock", "warm", "steady"}]
          BY DEF Init
      <2>3. jobs \in Seq(Jobs) /\ mainQ \in Seq(MainOps) /\ sideQ \in Seq(SideOps)
          BY DEF Init
      <2> QED
          BY <1>1, <2>1, <2>2, <2>3 DEF Init, TypeOK, Batches, NoStep
  <1>3. Places /\ JobsInv /\ TasksInv /\ ~Predicting /\ ~Leftover
      BY DEF Init, Places, JobsInv, TasksInv, Predicting, Leftover
  <1>4. \A s \in StepIds : ~Served(s)
      BY DEF Init, Served
  <1>5. QueueInv
      BY <1>4 DEF Init, QueueInv
  <1>6. PredInv /\ SnapInv /\ GuessInv
      BY <1>3 DEF Init, PredInv, SnapInv, GuessInv
  <1>7. FastInv /\ StockInv
      BY <1>4 DEF Init, FastInv, StockInv
  <1>8. CanaryInv
      BY DEF Init, CanaryInv, Wrong
  <1> QED
      BY <1>2, <1>3, <1>5, <1>6, <1>7, <1>8 DEF IInv

------------------------------------------------------------------------------
(* Queues.                                                                  *)

LEMMA QueueTail ==
  ASSUME NEW S, NEW q \in Seq(S), q # << >>
  PROVE  /\ q[1] = Head(q) /\ q[1] \in S
         /\ Len(q) \in Nat /\ Len(q) >= 1
         /\ Tail(q) \in Seq(S)
         /\ Len(Tail(q)) = Len(q) - 1
         /\ \A i \in 1 .. Len(Tail(q)) : Tail(q)[i] = q[i + 1]
  <1>1. Len(q) \in Nat /\ Len(q) >= 1 /\ Head(q) = q[1] /\ q[1] \in S
      BY EmptySeq, HeadTailProperties, LenProperties
  <1>2. Tail(q) \in Seq(S) /\ Len(Tail(q)) = Len(q) - 1
      BY HeadTailProperties
  <1> QED
      BY <1>1, <1>2

LEMMA QueueTypes ==
  ASSUME TypeOK
  PROVE  /\ mainQ \in Seq(MainOps) /\ Len(mainQ) \in Nat
         /\ \A i \in 1 .. Len(mainQ) : mainQ[i] \in MainOps
         /\ sideQ \in Seq(SideOps) /\ Len(sideQ) \in Nat
         /\ \A i \in 1 .. Len(sideQ) : sideQ[i] \in SideOps
         /\ jobs \in Seq(Jobs) /\ Len(jobs) \in Nat
         /\ \A i \in 1 .. Len(jobs) : jobs[i] \in Jobs
  BY DEF TypeOK

LEMMA Appended ==
  ASSUME NEW S, NEW q \in Seq(S), NEW e \in S
  PROVE  /\ Append(q, e) \in Seq(S) /\ Append(q, e) # << >>
         /\ Len(Append(q, e)) = Len(q) + 1
         /\ \A i \in 1 .. Len(q) : Append(q, e)[i] = q[i]
         /\ Append(q, e)[Len(q) + 1] = e
  BY AppendProperties

LEMMA JobFacts ==
  ASSUME TypeOK, jobs # << >>
  PROVE  /\ Job \in Jobs /\ Job.gen \in 0 .. Steps /\ Job.step \in StepIds /\ Job.kind \in Kinds
         /\ Len(jobs) \in Nat /\ Len(jobs) >= 1
         /\ Tail(jobs) \in Seq(Jobs)
         /\ Len(Tail(jobs)) = Len(jobs) - 1
         /\ \A i \in 1 .. Len(Tail(jobs)) : Tail(jobs)[i] = jobs[i + 1]
  <1>1. jobs \in Seq(Jobs)
      BY QueueTypes
  <1>2. Job \in Jobs
      BY <1>1, QueueTail DEF Job
  <1>3. Job.gen \in 0 .. Steps /\ Job.step \in StepIds /\ Job.kind \in Kinds
      BY <1>2 DEF Jobs
  <1> QED
      BY <1>1, <1>2, <1>3, QueueTail

------------------------------------------------------------------------------
(* Types.                                                                   *)

LEMMA GenTypes ==
  ASSUME TypeOK
  PROVE  /\ Steps \in Nat \ {0} /\ WarmN \in Nat
         /\ step \in Nat /\ 1 <= step /\ step <= Steps + 1
         /\ gen \in Nat /\ pending \in Nat /\ doneGen \in Nat
         /\ mainDone \in Nat /\ sideDone \in Nat /\ snapEv \in Nat
         /\ StepIds \subseteq Nat \ {0}
         /\ step <= Steps => step \in StepIds
         /\ \A s \in StepIds : s \in 1 .. Steps /\ s \in 0 .. Steps
  BY CpuHashAssumption DEF TypeOK, StepIds

\* What the streams and the worker's steps leave alone.
LEMMA MainQueued ==
  ASSUME TypeOK, step \in StepIds, NEW o \in {"prepare", "hash", "h2d"},
         mainQ' = Append(mainQ, [op |-> o, step |-> step])
  PROVE  /\ mainQ' \in Seq(MainOps)
         /\ Len(mainQ') = Len(mainQ) + 1
         /\ mainQ' # << >>
         /\ \A i \in 1 .. Len(mainQ) : mainQ'[i] = mainQ[i]
         /\ mainQ'[Len(mainQ) + 1] = [op |-> o, step |-> step]
  <1>1. [op |-> o, step |-> step] \in MainOps
      BY DEF MainOps
  <1> QED
      BY <1>1, QueueTypes, Appended

LEMMA SideQueued ==
  ASSUME TypeOK, step \in StepIds, NEW o \in {"snapshot", "canary"}, OnSide(o, step)
  PROVE  /\ sideQ' \in Seq(SideOps)
         /\ Len(sideQ') = Len(sideQ) + 1
         /\ \A i \in 1 .. Len(sideQ) : sideQ'[i] = sideQ[i]
         /\ sideQ'[Len(sideQ) + 1].after = mainDone + Len(mainQ)
         /\ SideIssued = sideDone + Len(sideQ) /\ SideIssued \in Nat
  <1>1. [op |-> o, step |-> step, after |-> MainIssued] \in SideOps /\ MainIssued = mainDone + Len(mainQ)
      BY QueueTypes, GenTypes DEF SideOps, MainIssued
  <1>2. sideQ' = Append(sideQ, [op |-> o, step |-> step, after |-> MainIssued])
      BY DEF OnSide
  <1> QED
      BY <1>1, <1>2, QueueTypes, GenTypes, Appended DEF SideIssued

LEMMA MainType ==
  ASSUME IInv, Main
  PROVE  TypeOK'
  <1> USE DEF lever, work, gpu, host
  <1>0. TypeOK /\ Places /\ (pc # "prepare" => step \in StepIds)
      BY GenTypes DEF IInv, Places
  <1>n. Nothing \in Values
      BY CpuHashAssumption DEF Nothing, Values, Kinds, NoStep
  <1>m. \A o \in {"prepare", "hash", "h2d"} :
           mainQ' = Append(mainQ, [op |-> o, step |-> step]) /\ step \in StepIds =>
              mainQ' \in Seq(MainOps)
      BY <1>0, MainQueued
  <1>s. \A m \in {"stock", "warm", "steady"} :
           mode' = [mode EXCEPT ![step] = m] =>
              mode' \in [StepIds -> {"none", "stock", "warm", "steady"}]
      BY <1>0 DEF TypeOK
  <1>e. NextStep /\ step \in StepIds => step' \in 1 .. (Steps + 1) /\ pc' = "prepare"
      BY <1>0, GenTypes DEF NextStep
  <1>z. 0 \in 0 .. gen
      BY <1>0, GenTypes
  <1>1. CASE Prepare
      BY <1>0, <1>1, <1>m, GenTypes DEF Prepare, TypeOK
  <1>2. CASE TryStage
      BY <1>0, <1>2 DEF TryStage, TypeOK
  <1>3. CASE Join
      BY <1>0, <1>3, <1>n, <1>z DEF Join, TypeOK
  <1>4. CASE VerifyRejects
      BY <1>0, <1>4, <1>n DEF VerifyRejects, TypeOK
  <1>5. CASE VerifyAccepts
      <2>1. warm' \in 0 .. WarmN
          BY <1>0, <1>5, GenTypes DEF VerifyAccepts, Places, TypeOK
      <2> QED
          BY <1>0, <1>5, <1>n, <1>s, <2>1 DEF VerifyAccepts, TypeOK
  <1>6. CASE Steady
      <2>1. [type |-> "canary", gen |-> 0, step |-> step, kind |-> pred.kind] \in Jobs
          BY <1>0, <1>6, GenTypes DEF Steady, Jobs, TypeOK, Values
      <2>2. jobs' \in Seq(Jobs)
          BY <1>0, <1>6, <2>1, QueueTypes, Appended DEF Steady
      <2>3. sideQ' \in Seq(SideOps) /\ canaryEv' \in Nat
          BY <1>0, <1>6, SideQueued DEF Steady
      <2> QED
          BY <1>0, <1>6, <1>n, <1>s, <2>2, <2>3 DEF Steady, TypeOK
  <1>7. CASE StockHash
      BY <1>0, <1>7, <1>m, <1>s DEF StockHash, TypeOK
  <1>8. CASE StockSync
      <2>1. tasks' \subseteq (0 .. Steps) \X TableIds
          BY <1>0, <1>8, GenTypes DEF StockSync, TypeOK
      <2> QED
          BY <1>0, <1>8, <2>1 DEF StockSync, TypeOK
  <1>9. CASE StockGathered
      BY <1>0, <1>9 DEF StockGathered, TypeOK
  <1>10. CASE Upload
      <2>1. h2dEv' \in Nat
          BY <1>0, <1>10, QueueTypes DEF Upload, MainIssued, TypeOK
      <2> QED
          BY <1>0, <1>10, <1>m, <2>1 DEF Upload, TypeOK
  <1>11. CASE EnqueueUnarmed
      BY <1>0, <1>11, <1>e DEF EnqueueUnarmed, TypeOK
  <1>s2. Snapshot /\ step \in StepIds => sideQ' \in Seq(SideOps) /\ snapEv' \in Nat
      BY <1>0, SideQueued DEF Snapshot
  <1>12. CASE EnqueueSkips
      <2>1. sideQ' \in Seq(SideOps) /\ snapEv' \in Nat
          BY <1>0, <1>12, <1>s2 DEF EnqueueSkips, TypeOK
      <2> QED
          BY <1>0, <1>12, <1>n, <1>e, <1>z, <2>1 DEF EnqueueSkips, Drain, TypeOK
  <1>13. CASE EnqueueSubmits
      <2>1. /\ gen + 1 \in 0 .. Steps /\ gen + 1 \in 0 .. (gen + 1)
            /\ \A d \in 0 .. gen : d \in 0 .. (gen + 1)
          BY <1>0, <1>13, GenTypes DEF EnqueueSubmits, Places
      <2>2. [type |-> "predict", gen |-> gen + 1, step |-> step, kind |-> "right"] \in Jobs
          BY <1>0, <1>13, <2>1 DEF EnqueueSubmits, Jobs, Kinds
      <2>3. jobs' \in Seq(Jobs)
          BY <1>0, <1>13, <2>2, QueueTypes, Appended DEF EnqueueSubmits
      <2> QED
          BY <1>0, <1>13, <1>n, <1>e, <1>s2, <2>1, <2>3 DEF EnqueueSubmits, Drain, TypeOK
  <1> QED
      BY <1>1, <1>2, <1>3, <1>4, <1>5, <1>6, <1>7, <1>8, <1>9, <1>10, <1>11, <1>12, <1>13 DEF Main

\* A worker's step keeps its job or ends it.
JobSteps ==
    \/ UNCHANGED <<jobs, failed, doneGen>> /\ wpc \in {"start", "write"}
    \/ JobDone

LEMMA WorkerSteps ==
  ASSUME Worker
  PROVE  /\ UNCHANGED <<step, pc, batch, mode, warm, gen, pending, gpu, rowsHost, pins, gpuPin, staged>>
         /\ ok' = ok \/ ok' = FALSE
         /\ jobs # << >>
         /\ JobSteps
         /\ pred' = pred \/ WorkerPublishes
         /\ hashHost' = hashHost \/ WorkerWrites
         /\ tasks' = tasks \/ WorkerWrites
  <1> USE DEF Running, JobSteps, lever, work, gpu, host
  <1>1. CASE WorkerGivesUp
      BY <1>1 DEF WorkerGivesUp
  <1>2. CASE WorkerPredicts
      BY <1>2 DEF WorkerPredicts
  <1>3. CASE WorkerWrites
      BY <1>3 DEF WorkerWrites
  <1>4. CASE WorkerPublishes
      BY <1>4 DEF WorkerPublishes
  <1>5. CASE WorkerRaises
      BY <1>5 DEF WorkerRaises
  <1>6. CASE Canary
      <2>1. ok' = ok \/ ok' = FALSE
          BY <1>6, Zenon DEF Canary
      <2> QED
          BY <1>6, <2>1 DEF Canary
  <1> QED
      BY <1>1, <1>2, <1>3, <1>4, <1>5, <1>6 DEF Worker

\* A step that ends a canary job is the canary.
LEMMA WorkerJobs ==
  ASSUME Worker, Job.type = "canary"
  PROVE  Canary
  BY DEF Worker, WorkerGivesUp, WorkerPredicts, WorkerWrites, WorkerPublishes, WorkerRaises, Running

LEMMA WorkerType ==
  ASSUME IInv, Worker
  PROVE  TypeOK'
  <1> USE DEF lever, work, gpu, host
  <1>0. TypeOK /\ JobsInv /\ jobs # << >> /\ Job \in Jobs
      BY WorkerSteps, JobFacts DEF IInv
  <1>1. jobs' \in Seq(Jobs) /\ failed' \subseteq TableIds
      <2>1. Tail(jobs) \in Seq(Jobs)
          BY <1>0, JobFacts
      <2> QED
          BY <1>0, <2>1, WorkerSteps DEF JobSteps, JobDone, TypeOK
  <1>2. doneGen' \in 0 .. gen'
      <2>1. Job.type = "predict" => Job.gen \in 0 .. gen
          <3>1. 1 \in 1 .. Len(jobs)
              BY <1>0, JobFacts
          <3>2. jobs[1].type = "predict" => jobs[1].gen = gen
              BY <1>0, <3>1 DEF JobsInv
          <3> QED
              BY <1>0, <3>2, GenTypes DEF Job
      <2>2. gen' = gen
          BY WorkerSteps
      <2> QED
          BY <1>0, <2>1, <2>2, WorkerSteps DEF JobSteps, JobDone, TypeOK
  <1>3. wpc' \in {"start", "write", "gather"}
      BY <1>0 DEF Worker, WorkerGivesUp, WorkerPredicts, WorkerWrites, WorkerPublishes,
         WorkerRaises, Canary, JobDone, TypeOK
  <1>4. guess' \in Values
      <2>1. CASE WorkerPredicts
          <3>1. PICK k \in Kinds : guess' = [step |-> Job.step + 1, kind |-> k]
              BY <2>1 DEF WorkerPredicts, Kinds
          <3>2. Job.step + 1 \in 0 .. (Steps + 1)
              BY <1>0, JobFacts, GenTypes
          <3> QED
              BY <3>1, <3>2 DEF Values
      <2>2. CASE ~WorkerPredicts
          BY <1>0, <2>2 DEF Worker, WorkerGivesUp, WorkerWrites, WorkerPublishes, WorkerRaises,
             Canary, TypeOK
      <2> QED
          BY <2>1, <2>2
  <1>5. tasks' \subseteq (0 .. Steps) \X TableIds
      <2>1. CASE WorkerWrites
          BY <1>0, <2>1, JobFacts DEF WorkerWrites, TypeOK
      <2> QED
          BY <1>0, <2>1, WorkerSteps DEF TypeOK
  <1>6. pred' \in Values /\ hashHost' \in Values
      BY <1>0, WorkerSteps DEF WorkerPublishes, WorkerWrites, TypeOK
  <1>7. ok' \in BOOLEAN
      BY <1>0, WorkerSteps DEF TypeOK
  <1>8. UNCHANGED <<step, pc, batch, mode, warm, gen, pending, gpu, rowsHost, pins, gpuPin, staged>>
      BY WorkerSteps
  <1> QED
      BY <1>0, <1>1, <1>2, <1>3, <1>4, <1>5, <1>6, <1>7, <1>8 DEF TypeOK

\* A gather takes one table's rows from hash_host, or it fails.
LEMMA GatherSteps ==
  ASSUME TypeOK, NEW who, NEW t, Gather(who, t)
  PROVE  /\ UNCHANGED <<step, pc, batch, mode, lever, jobs, wpc, doneGen, guess, gpu,
                        hashHost, pins, gpuPin, staged>>
         /\ <<who, t>> \in tasks /\ who \in 0 .. Steps /\ t \in TableIds
         /\ tasks' = tasks \ {<<who, t>>}
         /\ rowsHost' = rowsHost \/ (failed' = failed /\ rowsHost' = [rowsHost EXCEPT ![t] = hashHost])
         /\ failed' = failed \/ failed' = failed \cup {t}
  BY DEF Gather, TypeOK, lever, gpu

LEMMA StageSteps ==
  ASSUME TypeOK, StageThread
  PROVE  \E who \in 0 .. Steps, t \in TableIds : Gather(who, t)
  <1>1. PICK task \in tasks : Gather(task[1], task[2])
      BY DEF StageThread
  <1>2. task[1] \in 0 .. Steps /\ task[2] \in TableIds
      BY <1>1 DEF TypeOK
  <1> QED
      BY <1>1, <1>2

LEMMA GatherType ==
  ASSUME TypeOK, NEW who, NEW t, Gather(who, t)
  PROVE  TypeOK'
  <1>1. rowsHost' \in [TableIds -> Values]
      <2>1. rowsHost' = rowsHost \/ rowsHost' = [rowsHost EXCEPT ![t] = hashHost]
          BY GatherSteps
      <2> QED
          BY <2>1 DEF TypeOK
  <1>3. failed' \subseteq TableIds
      <2>1. t \in TableIds /\ (failed' = failed \/ failed' = failed \cup {t})
          BY GatherSteps
      <2> QED
          BY <2>1 DEF TypeOK
  <1>4. tasks' \subseteq (0 .. Steps) \X TableIds
      <2>1. tasks' = tasks \ {<<who, t>>}
          BY GatherSteps
      <2> QED
          BY <2>1 DEF TypeOK
  <1>2. UNCHANGED <<step, pc, batch, mode, lever, jobs, wpc, doneGen, guess, gpu,
                    hashHost, pins, gpuPin, staged>>
      BY GatherSteps
  <1> QED
      BY <1>1, <1>2, <1>3, <1>4 DEF TypeOK, lever, gpu

LEMMA RunMainFacts ==
  ASSUME TypeOK, RunMain
  PROVE  /\ Len(mainQ) >= 1 /\ mainQ[1] \in MainOps /\ mainQ[1].step \in StepIds
         /\ mainQ' \in Seq(MainOps)
         /\ Len(mainQ') = Len(mainQ) - 1
         /\ \A i \in 1 .. Len(mainQ') : mainQ'[i] = mainQ[i + 1]
         /\ mainDone' = mainDone + 1
         /\ hashHost' = IF mainQ[1].op = "hash" THEN Right(mainQ[1].step) ELSE hashHost
         /\ staged' = IF mainQ[1].op = "h2d" THEN [staged EXCEPT ![mainQ[1].step] = rowsHost] ELSE staged
         /\ UNCHANGED <<step, pc, batch, mode, lever, work, tasks, sideQ, sideDone,
                        snapEv, canaryEv, h2dEv, rowsHost, pins, gpuPin>>
  <1>1. mainQ # << >> /\ mainQ \in Seq(MainOps)
      BY QueueTypes DEF RunMain
  <1>2. mainQ[1] = Head(mainQ) /\ mainQ[1] \in MainOps /\ mainQ[1].step \in StepIds
      <2>1. mainQ[1] = Head(mainQ) /\ mainQ[1] \in MainOps
          BY <1>1, QueueTail
      <2> QED
          BY <2>1 DEF MainOps
  <1>3. /\ Len(mainQ) >= 1 /\ Tail(mainQ) \in Seq(MainOps) /\ Len(Tail(mainQ)) = Len(mainQ) - 1
        /\ \A i \in 1 .. Len(Tail(mainQ)) : Tail(mainQ)[i] = mainQ[i + 1]
      BY <1>1, QueueTail
  <1>4. mainQ' = Tail(mainQ)
      BY DEF RunMain
  <1> QED
      BY <1>2, <1>3, <1>4 DEF RunMain, Right

LEMMA RunSideFacts ==
  ASSUME TypeOK, RunSide
  PROVE  /\ Len(sideQ) >= 1 /\ sideQ' \in Seq(SideOps)
         /\ Len(sideQ') = Len(sideQ) - 1
         /\ \A i \in 1 .. Len(sideQ') : sideQ'[i] = sideQ[i + 1]
         /\ sideDone' = sideDone + 1
         /\ mainDone >= sideQ[1].after
         /\ UNCHANGED <<step, pc, batch, mode, lever, work, tasks, mainQ, mainDone,
                        devIn, snapEv, canaryEv, h2dEv, hashHost, rowsHost, staged>>
  <1>1. sideQ # << >> /\ sideQ \in Seq(SideOps)
      BY QueueTypes DEF RunSide
  <1>2. sideQ[1] = Head(sideQ)
      BY <1>1, QueueTail
  <1>3. /\ Len(sideQ) >= 1 /\ Tail(sideQ) \in Seq(SideOps) /\ Len(Tail(sideQ)) = Len(sideQ) - 1
        /\ \A i \in 1 .. Len(Tail(sideQ)) : Tail(sideQ)[i] = sideQ[i + 1]
      BY <1>1, QueueTail
  <1>4. sideQ' = Tail(sideQ)
      BY DEF RunSide
  <1> QED
      BY <1>2, <1>3, <1>4 DEF RunSide

LEMMA StreamType ==
  ASSUME TypeOK, RunMain \/ RunSide
  PROVE  TypeOK'
  <1> USE DEF lever, work, gpu, host
  <1>1. CASE RunMain
      <2>1. hashHost' \in Values
          <3>1. Right(mainQ[1].step) \in Values
              BY <1>1, RunMainFacts, GenTypes DEF Right, Values, Kinds
          <3> QED
              BY <1>1, <3>1, RunMainFacts DEF TypeOK
      <2>2. staged' \in [StepIds -> [TableIds -> Values]]
          BY <1>1, RunMainFacts DEF TypeOK
      <2>3. devIn' \in 0 .. Steps
          <3>1. mainQ[1] = Head(mainQ)
              BY <1>1, QueueTypes, QueueTail DEF RunMain
          <3> QED
              BY <1>1, <3>1, RunMainFacts, GenTypes DEF RunMain, TypeOK
      <2>4. mainQ' \in Seq(MainOps) /\ mainDone' \in Nat
          BY <1>1, RunMainFacts, GenTypes
      <2>5. UNCHANGED <<step, pc, batch, mode, lever, work, tasks, sideQ, sideDone,
                        snapEv, canaryEv, h2dEv, rowsHost, pins, gpuPin>>
          BY <1>1, RunMainFacts
      <2> QED
          BY <2>1, <2>2, <2>3, <2>4, <2>5 DEF TypeOK
  <1>2. CASE RunSide
      <2>1. pins' \in 0 .. Steps /\ gpuPin' \in 0 .. Steps
          BY <1>2 DEF RunSide, TypeOK
      <2>2. sideQ' \in Seq(SideOps) /\ sideDone' \in Nat
          BY <1>2, RunSideFacts, GenTypes
      <2>3. UNCHANGED <<step, pc, batch, mode, lever, work, tasks, mainQ, mainDone,
                        devIn, snapEv, canaryEv, h2dEv, hashHost, rowsHost, staged>>
          BY <1>2, RunSideFacts
      <2> QED
          BY <2>1, <2>2, <2>3 DEF TypeOK
  <1> QED
      BY <1>1, <1>2

LEMMA TypeStep ==
  ASSUME IInv, Next
  PROVE  TypeOK'
  <1>1. TypeOK
      BY DEF IInv
  <1> QED
      BY <1>1, MainType, WorkerType, StageSteps, GatherType, StreamType DEF Next

------------------------------------------------------------------------------
(* The jobs.                                                                *)

LEMMA PredictingFacts ==
  ASSUME TypeOK, JobsInv, Predicting
  PROVE  /\ pending = gen /\ gen > 0 /\ doneGen < gen
         /\ Len(jobs) >= 1 /\ jobs[Len(jobs)].gen = gen
  <1>1. jobs # << >> /\ Len(jobs) \in 1 .. Len(jobs) /\ Len(jobs) >= 1
      BY JobFacts DEF Predicting
  <1> QED
      BY <1>1, GenTypes DEF Predicting, JobsInv

LEMMA BusyPredicts ==
  ASSUME TypeOK, JobsInv, wpc # "start"
  PROVE  Predicting /\ Job.type = "predict" /\ Len(jobs) = 1 /\ Job.gen = gen /\ Job = jobs[Len(jobs)]
  <1>1. jobs # << >> /\ Job.type = "predict"
      BY DEF JobsInv
  <1>2. 1 \in 1 .. Len(jobs)
      BY <1>1, JobFacts
  <1> QED
      BY <1>1, <1>2 DEF JobsInv, Job, Predicting

LEMMA DrainedFacts ==
  ASSUME TypeOK, JobsInv, doneGen >= pending
  PROVE  /\ ~Predicting /\ wpc = "start"
         /\ \A i \in 1 .. Len(jobs) : jobs[i].type # "predict"
         /\ pending # 0 => jobs = << >>
  <1>1. \A i \in 1 .. Len(jobs) : jobs[i].type # "predict"
      BY GenTypes DEF JobsInv
  <1>2. ~Predicting
      BY PredictingFacts, GenTypes
  <1> QED
      BY <1>1, <1>2, BusyPredicts DEF JobsInv, Predicting

LEMMA JobDoneFacts ==
  ASSUME TypeOK, JobsInv, jobs # << >>, JobDone
  PROVE  /\ wpc' = "start" /\ failed' = {}
         /\ Len(jobs') = Len(jobs) - 1
         /\ \A i \in 1 .. Len(jobs') : jobs'[i] = jobs[i + 1]
         /\ Job.type = "predict" => jobs = <<Job>> /\ jobs' = << >>
         /\ Predicting' => Predicting /\ jobs'[Len(jobs')] = jobs[Len(jobs)]
  <1>1. jobs' = Tail(jobs) /\ wpc' = "start" /\ failed' = {}
      BY DEF JobDone
  <1>2. /\ Len(jobs) >= 1 /\ Len(jobs) \in Nat /\ Len(jobs') = Len(jobs) - 1
        /\ \A i \in 1 .. Len(jobs') : jobs'[i] = jobs[i + 1]
        /\ jobs' \in Seq(Jobs)
      BY <1>1, JobFacts
  <1>3. Job.type = "predict" => jobs = <<Job>> /\ jobs' = << >>
      <2> SUFFICES ASSUME Job.type = "predict" PROVE jobs = <<Job>> /\ jobs' = << >>
          OBVIOUS
      <2>1. Len(jobs) = 1
          <3>1. 1 \in 1 .. Len(jobs)
              BY <1>2
          <3>2. jobs[1].type = "predict"
              BY DEF Job
          <3> QED
              BY <3>1, <3>2 DEF JobsInv
      <2>2. Len(jobs') = 0
          BY <1>2, <2>1
      <2>3. jobs = <<Job>>
          BY <2>1, QueueTypes DEF Job
      <2> QED
          BY <1>2, <2>2, <2>3, EmptySeq
  <1>4. Predicting' => Predicting /\ jobs'[Len(jobs')] = jobs[Len(jobs)]
      <2> SUFFICES ASSUME Predicting' PROVE Predicting /\ jobs'[Len(jobs')] = jobs[Len(jobs)]
          OBVIOUS
      <2>1. jobs' # << >> /\ jobs'[Len(jobs')].type = "predict"
          BY DEF Predicting
      <2>2. Len(jobs') \in 1 .. Len(jobs')
          BY <1>2, <2>1, EmptySeq
      <2>3. jobs'[Len(jobs')] = jobs[Len(jobs)]
          BY <1>2, <2>2
      <2> QED
          BY <2>1, <2>3 DEF Predicting
  <1> QED
      BY <1>1, <1>2, <1>3, <1>4

\* The main thread submits a canary or a prediction.
LEMMA SteadyFacts ==
  ASSUME TypeOK, Places, Steady
  PROVE  /\ jobs = << >> /\ Len(jobs') = 1 /\ jobs' # << >>
         /\ jobs'[1] = [type |-> "canary", gen |-> 0, step |-> step, kind |-> pred.kind]
         /\ step \in StepIds
  <1>1. step \in StepIds /\ jobs = << >>
      BY GenTypes DEF Places, Steady
  <1>2. [type |-> "canary", gen |-> 0, step |-> step, kind |-> pred.kind] \in Jobs
      BY <1>1, GenTypes DEF Jobs, TypeOK, Values
  <1>3. jobs' = Append(jobs, [type |-> "canary", gen |-> 0, step |-> step, kind |-> pred.kind])
      BY DEF Steady
  <1>4. Len(jobs) = 0
      BY <1>1
  <1> QED
      BY <1>1, <1>2, <1>3, <1>4, QueueTypes, Appended

LEMMA SubmitFacts ==
  ASSUME TypeOK, Places, EnqueueSubmits
  PROVE  /\ Len(jobs') = Len(jobs) + 1 /\ jobs' # << >>
         /\ \A i \in 1 .. Len(jobs) : jobs'[i] = jobs[i]
         /\ jobs'[Len(jobs) + 1]
               = [type |-> "predict", gen |-> gen + 1, step |-> step, kind |-> "right"]
         /\ gen' = gen + 1 /\ pending' = gen + 1 /\ step \in StepIds
         /\ Predicting'
  <1>1. step \in StepIds /\ gen + 1 \in 0 .. Steps
      BY GenTypes DEF Places, EnqueueSubmits
  <1>2. [type |-> "predict", gen |-> gen + 1, step |-> step, kind |-> "right"] \in Jobs
      BY <1>1 DEF Jobs, Kinds
  <1>3. /\ jobs' = Append(jobs, [type |-> "predict", gen |-> gen + 1, step |-> step, kind |-> "right"])
        /\ gen' = gen + 1 /\ pending' = gen + 1
      BY DEF EnqueueSubmits
  <1> QED
      BY <1>1, <1>2, <1>3, QueueTypes, Appended DEF Predicting

\* The steps that leave the queue of jobs alone.
MainKeepsJobs ==
    \/ Prepare \/ TryStage \/ Join \/ VerifyRejects \/ VerifyAccepts \/ StockHash \/ StockSync
    \/ StockGathered \/ Upload \/ EnqueueUnarmed \/ EnqueueSkips

LEMMA MainKeeps ==
  ASSUME MainKeepsJobs
  PROVE  UNCHANGED <<jobs, wpc, doneGen, guess, failed, gen, rowsHost, hashHost>>
         /\ (pending' = pending \/ (pending' = 0 /\ doneGen >= pending))
  BY DEF MainKeepsJobs, Prepare, TryStage, Join, VerifyRejects, VerifyAccepts, StockHash, StockSync,
     StockGathered, Upload, EnqueueUnarmed, EnqueueSkips, Drain, lever, work, gpu, host

LEMMA JobsStep ==
  ASSUME IInv, Next
  PROVE  JobsInv'
  <1>0. TypeOK /\ Places /\ JobsInv /\ Len(jobs) \in Nat
      BY QueueTypes DEF IInv
  <1>t. gen \in Nat /\ doneGen \in Nat /\ pending \in Nat /\ doneGen <= gen
      BY <1>0, GenTypes DEF TypeOK
  <1>1. CASE MainKeepsJobs
      <2>1. UNCHANGED <<jobs, wpc, doneGen, gen>>
            /\ (pending' = pending \/ (pending' = 0 /\ doneGen >= pending))
          BY <1>1, MainKeeps
      <2>2. CASE pending' = pending
          BY <1>0, <2>1, <2>2 DEF JobsInv, Job
      <2>3. CASE pending' = 0 /\ doneGen >= pending
          BY <1>0, <2>1, <2>3, DrainedFacts DEF JobsInv, Job
      <2> QED
          BY <2>1, <2>2, <2>3
  <1>2. CASE Steady
      <2>1. jobs = << >> /\ Len(jobs') = 1 /\ jobs'[1].type = "canary"
          BY <1>0, <1>2, SteadyFacts
      <2>2. pending = 0
          BY <1>0, <1>2 DEF Steady, Places, JobsInv
      <2>3. wpc = "start"
          BY <1>0, <2>1 DEF JobsInv
      <2>4. UNCHANGED <<wpc, pending>>
          BY <1>2 DEF Steady
      <2> QED
          BY <2>1, <2>2, <2>3, <2>4 DEF JobsInv
  <1>3. CASE EnqueueSubmits
      <2>1. /\ wpc = "start"
            /\ \A i \in 1 .. Len(jobs) : jobs[i].type # "predict"
          BY <1>0, <1>3, DrainedFacts DEF EnqueueSubmits, Drain
      <2>2. /\ Len(jobs') = Len(jobs) + 1 /\ jobs' # << >>
            /\ \A i \in 1 .. Len(jobs) : jobs'[i] = jobs[i]
            /\ jobs'[Len(jobs) + 1].type = "predict" /\ jobs'[Len(jobs) + 1].gen = gen + 1
            /\ gen' = gen + 1 /\ pending' = gen + 1
          BY <1>0, <1>3, SubmitFacts
      <2>3. UNCHANGED <<wpc, doneGen>>
          BY <1>3 DEF EnqueueSubmits
      <2> QED
          BY <1>0, <1>t, <2>1, <2>2, <2>3 DEF JobsInv
  <1>4. CASE Worker
      <2>1. UNCHANGED <<gen, pending>> /\ jobs # << >> /\ JobSteps
          BY <1>4, WorkerSteps
      <2>2. CASE JobDone
          <3>1. /\ wpc' = "start" /\ Len(jobs') = Len(jobs) - 1
                /\ \A i \in 1 .. Len(jobs') : jobs'[i] = jobs[i + 1]
                /\ Job.type = "predict" => jobs' = << >> /\ Len(jobs') = 0
              BY <1>0, <2>1, <2>2, JobDoneFacts
          <3>2. Job.type # "predict" => doneGen' = doneGen
              BY <2>2 DEF JobDone
          <3>3. pending # 0 => jobs' = << >> \/ jobs'[Len(jobs')].type = "predict"
              <4> SUFFICES ASSUME pending # 0, jobs' # << >>
                           PROVE  jobs'[Len(jobs')].type = "predict"
                  OBVIOUS
              <4>1. Len(jobs') # 0
                  BY <1>0, <2>1, <2>2, JobFacts, EmptySeq DEF JobDone
              <4>2. Len(jobs') \in 1 .. Len(jobs')
                  BY <1>0, <3>1, <4>1, <2>1, JobFacts
              <4> QED
                  BY <1>0, <2>1, <3>1, <4>2 DEF JobsInv
          <3>4. \A i \in 1 .. Len(jobs') : jobs'[i].type = "predict" =>
                    i = Len(jobs') /\ jobs'[i].gen = gen /\ pending = gen /\ doneGen' < gen
              <4> SUFFICES ASSUME NEW i \in 1 .. Len(jobs'), jobs'[i].type = "predict"
                           PROVE  i = Len(jobs') /\ jobs'[i].gen = gen /\ pending = gen
                                  /\ doneGen' < gen
                  OBVIOUS
              <4>1. doneGen' = doneGen
                  BY <3>1, <3>2
              <4>2. i + 1 \in 1 .. Len(jobs) /\ jobs'[i] = jobs[i + 1]
                  BY <1>0, <3>1
              <4> QED
                  BY <1>0, <3>1, <4>1, <4>2 DEF JobsInv
          <3> QED
              BY <1>0, <2>1, <3>1, <3>3, <3>4 DEF JobsInv
      <2>3. CASE UNCHANGED <<jobs, failed, doneGen>> /\ wpc \in {"start", "write"}
          <3>1. wpc' # "start" => Job.type = "predict"
              BY <1>4, <2>3, <1>0 DEF Worker, WorkerGivesUp, WorkerPredicts, WorkerWrites,
                 WorkerPublishes, WorkerRaises, Canary, Running, JobDone
          <3> QED
              BY <1>0, <2>1, <2>3, <3>1 DEF JobsInv, Job
      <2> QED
          BY <2>1, <2>2, <2>3 DEF JobSteps
  <1>5. CASE StageThread
      <2>1. PICK who \in 0 .. Steps, t \in TableIds : Gather(who, t)
          BY <1>0, <1>5, StageSteps
      <2>2. UNCHANGED <<lever, jobs, wpc, doneGen>>
          BY <2>1 DEF Gather
      <2> QED
          BY <1>0, <2>2 DEF JobsInv, Job, lever
  <1>6. CASE RunMain \/ RunSide
      <2>1. UNCHANGED <<lever, work>>
          BY <1>6 DEF RunMain, RunSide
      <2> QED
          BY <1>0, <2>1 DEF JobsInv, Job, lever, work
  <1> QED
      BY <1>1, <1>2, <1>3, <1>4, <1>5, <1>6 DEF Next, Main, MainKeepsJobs

------------------------------------------------------------------------------
(* The step, its mode and the gathers.                                      *)

\* A step's mode is set once.
LEMMA OwnModeUnset ==
  ASSUME TypeOK, Places, pc \in {"try", "join", "verify", "steady", "hash"}
  PROVE  step \in StepIds /\ mode[step] = "none"
  <1>1. step \in StepIds
      BY GenTypes DEF Places
  <1> QED
      BY <1>1, GenTypes DEF Places

ModeSet(m) == step \in StepIds /\ mode[step] = "none" /\ mode' = [mode EXCEPT ![step] = m]

LEMMA ModeSteps ==
  ASSUME TypeOK, Places, Next
  PROVE  \/ mode' = mode
         \/ VerifyAccepts /\ ModeSet("warm")
         \/ Steady /\ ModeSet("steady")
         \/ StockHash /\ ModeSet("stock")
  <1>1. CASE VerifyAccepts \/ Steady \/ StockHash
      <2>1. step \in StepIds /\ mode[step] = "none"
          BY <1>1, OwnModeUnset DEF VerifyAccepts, Steady, StockHash
      <2> QED
          BY <1>1, <2>1 DEF VerifyAccepts, Steady, StockHash, ModeSet
  <1>2. CASE \/ Prepare \/ TryStage \/ Join \/ VerifyRejects \/ StockSync \/ StockGathered \/ Upload
             \/ EnqueueUnarmed \/ EnqueueSkips \/ EnqueueSubmits
      BY <1>2 DEF Prepare, TryStage, Join, VerifyRejects, StockSync, StockGathered, Upload,
         EnqueueUnarmed, EnqueueSkips, EnqueueSubmits
  <1>3. CASE Worker
      BY <1>3, WorkerSteps
  <1>4. CASE StageThread
      BY <1>4, StageSteps, GatherSteps
  <1>5. CASE RunMain \/ RunSide
      BY <1>5 DEF RunMain, RunSide
  <1> QED
      BY <1>1, <1>2, <1>3, <1>4, <1>5 DEF Next, Main

\* What was fast stays fast, and what was set stays set.
LEMMA ModeKept ==
  ASSUME TypeOK, Places, Next
  PROVE  \A s \in StepIds : mode[s] # "none" => mode'[s] = mode[s]
  BY ModeSteps DEF ModeSet, TypeOK

\* Steps of the threads and the streams leave the main thread's state alone,
\* but for disarming the lever and publishing a prediction.
LEMMA OtherSteps ==
  ASSUME TypeOK, Worker \/ StageThread \/ RunMain \/ RunSide
  PROVE  /\ UNCHANGED <<step, pc, batch, mode, warm, gen, pending, snapEv>>
         /\ ok' = ok \/ ok' = FALSE
         /\ pred' = pred \/ WorkerPublishes
  <1>1. CASE Worker
      BY <1>1, WorkerSteps DEF gpu
  <1>2. CASE StageThread
      BY <1>2, StageSteps, GatherSteps DEF lever, gpu
  <1>3. CASE RunMain \/ RunSide
      BY <1>3 DEF RunMain, RunSide, lever
  <1> QED
      BY <1>1, <1>2, <1>3

LEMMA PublishFacts ==
  ASSUME TypeOK, JobsInv, WorkerPublishes
  PROVE  /\ pred' = guess /\ Predicting /\ pending # 0 /\ jobs' = << >> /\ wpc = "gather" /\ ~Predicting'
         /\ failed = {} /\ Job.gen = gen /\ \A t \in TableIds : <<gen, t>> \notin tasks
         /\ UNCHANGED <<tasks, rowsHost>>
  <1>1. /\ wpc = "gather" /\ JobDone /\ pred' = guess /\ jobs # << >> /\ Job.type = "predict"
        /\ failed = {} /\ \A t \in TableIds : <<Job.gen, t>> \notin tasks
        /\ UNCHANGED <<tasks, rowsHost>>
      BY DEF WorkerPublishes, Running, host
  <1> QED
      <2>1. Predicting /\ Job.gen = gen
          BY <1>1, BusyPredicts
      <2>2. pending # 0
          BY <2>1, PredictingFacts, GenTypes
      <2>3. jobs' = << >>
          BY <1>1, JobDoneFacts
      <2>4. \A t \in TableIds : <<gen, t>> \notin tasks
          <3> SUFFICES ASSUME NEW t \in TableIds PROVE <<gen, t>> \notin tasks
              OBVIOUS
          <3>1. <<Job.gen, t>> \notin tasks
              BY <1>1
          <3> QED
              BY <2>1, <3>1
      <2>5. ~Predicting'
          BY <2>3 DEF Predicting
      <2> QED
          BY <1>1, <2>1, <2>2, <2>3, <2>4, <2>5

LEMMA PlacesStep ==
  ASSUME IInv, Next
  PROVE  Places'
  <1> USE DEF lever, work, gpu, host, NextStep
  <1>0. TypeOK /\ Places /\ JobsInv
      BY DEF IInv
  <1>t. step \in Nat /\ gen \in Nat /\ Steps \in Nat
      BY <1>0, GenTypes
  <1>u. pc # "prepare" => step \in StepIds
      BY <1>0, GenTypes DEF Places
  <1>m. \A m \in {"stock", "warm", "steady"} : mode' = [mode EXCEPT ![step] = m] /\ step \in StepIds =>
           mode'[step] = m /\ \A s \in StepIds : mode'[s] # "none" => s = step \/ mode[s] # "none"
      BY <1>0 DEF TypeOK
  <1>1. CASE Prepare
      BY <1>0, <1>1 DEF Prepare, Places
  <1>2. CASE TryStage
      BY <1>0, <1>2 DEF TryStage, Places
  <1>3. CASE Join
      <2>1. jobs = << >>
          BY <1>0, <1>3, DrainedFacts DEF Join, Places
      <2> QED
          BY <1>0, <1>3, <2>1 DEF Join, Places
  <1>4. CASE VerifyRejects
      BY <1>0, <1>4 DEF VerifyRejects, Places
  <1>5. CASE VerifyAccepts
      BY <1>0, <1>5, <1>u, <1>m DEF VerifyAccepts, Places
  <1>6. CASE Steady
      BY <1>0, <1>6, <1>u, <1>m DEF Steady, Places
  <1>7. CASE StockHash
      BY <1>0, <1>7, <1>u, <1>m DEF StockHash, Places
  <1>8. CASE StockSync
      BY <1>0, <1>8 DEF StockSync, Places
  <1>9. CASE StockGathered
      BY <1>0, <1>9 DEF StockGathered, Places
  <1>10. CASE Upload
      BY <1>0, <1>10 DEF Upload, Places
  <1>11. CASE EnqueueUnarmed
      BY <1>0, <1>11, <1>t, <1>u DEF EnqueueUnarmed, Places, StepIds
  <1>12. CASE EnqueueSkips
      BY <1>0, <1>12, <1>t, <1>u DEF EnqueueSkips, Places, StepIds
  <1>13. CASE EnqueueSubmits
      BY <1>0, <1>13, <1>t, <1>u DEF EnqueueSubmits, Places, StepIds
  <1>14. CASE Worker \/ StageThread \/ RunMain \/ RunSide
      <2>1. /\ UNCHANGED <<step, pc, batch, mode, warm, gen, pending>>
            /\ ok' = ok \/ ok' = FALSE
            /\ pred' = pred \/ WorkerPublishes
          BY <1>0, <1>14, OtherSteps
      <2>2. jobs = << >> => jobs' = << >> /\ pred' = pred
          <3>1. ASSUME Worker PROVE jobs # << >>
              BY <3>1, WorkerSteps
          <3>2. ASSUME StageThread PROVE jobs' = jobs /\ pred' = pred
              BY <1>0, <3>2, StageSteps, GatherSteps
          <3>3. ASSUME RunMain \/ RunSide PROVE jobs' = jobs /\ pred' = pred
              BY <3>3 DEF RunMain, RunSide
          <3> QED
              BY <1>14, <3>1, <3>2, <3>3
      <2> QED
          BY <1>0, <2>1, <2>2 DEF Places
  <1> QED
      BY <1>1, <1>2, <1>3, <1>4, <1>5, <1>6, <1>7, <1>8, <1>9, <1>10, <1>11, <1>12, <1>13, <1>14
         DEF Next, Main

LEMMA TasksStep ==
  ASSUME IInv, Next
  PROVE  TasksInv'
  <1> USE DEF lever, work, gpu, host
  <1>0. TypeOK /\ Places /\ JobsInv /\ TasksInv
      BY DEF IInv
  <1>t. gen \in Nat /\ \A task \in tasks : task[1] \in Nat
      BY <1>0, GenTypes DEF TypeOK
  <1>1. CASE StockSync
      <2>1. UNCHANGED <<ok, gen, wpc>> /\ pc' = "gather"
            /\ \A task \in tasks' : task \in tasks \/ task[1] = 0
          BY <1>1 DEF StockSync
      <2> QED
          BY <1>0, <2>1 DEF TasksInv
  <1>2. CASE WorkerWrites
      <2>1. UNCHANGED <<gen, ok, pc>> /\ wpc' = "gather" /\ wpc = "write"
            /\ \A task \in tasks' : task \in tasks \/ task[1] = Job.gen
          BY <1>2 DEF WorkerWrites, Running
      <2>2. Job.gen = gen /\ gen # 0
          BY <1>0, <2>1, BusyPredicts, PredictingFacts, GenTypes
      <2> QED
          BY <1>0, <2>1, <2>2 DEF TasksInv
  <1>3. CASE Main /\ ~StockSync
      <2>1. tasks' = tasks
          BY <1>3 DEF Main, Prepare, TryStage, Join, VerifyRejects, VerifyAccepts, Steady, StockHash,
             StockGathered, Upload, EnqueueUnarmed, EnqueueSkips, EnqueueSubmits
      <2>2. \A task \in tasks : task[1] # 0
          <3>1. CASE pc # "gather"
              BY <1>0, <3>1 DEF TasksInv
          <3>2. CASE pc = "gather"
              <4>1. StockGathered
                  BY <1>3, <3>2 DEF Main, Prepare, TryStage, Join, VerifyRejects, VerifyAccepts, Steady,
                     StockHash, Upload, EnqueueUnarmed, EnqueueSkips, EnqueueSubmits
              <4> SUFFICES ASSUME NEW task \in tasks PROVE task[1] # 0
                  OBVIOUS
              <4>2. task[2] \in TableIds /\ task = <<task[1], task[2]>>
                  BY <1>0 DEF TypeOK
              <4> QED
                  BY <4>1, <4>2 DEF StockGathered
          <3> QED
              BY <3>1, <3>2
      <2>3. CASE EnqueueSubmits
          <3>1. wpc = "start" /\ ok
              BY <1>0, <2>3, DrainedFacts DEF EnqueueSubmits, Drain
          <3>2. \A task \in tasks : FALSE
              BY <1>0, <2>2, <3>1 DEF TasksInv
          <3> QED
              BY <2>1, <3>2 DEF TasksInv
      <2>4. CASE ~EnqueueSubmits
          <3>1. UNCHANGED <<gen, wpc>> /\ (ok' => ok)
              BY <1>3, <2>4 DEF Main, Prepare, TryStage, Join, VerifyRejects, VerifyAccepts, Steady,
                 StockHash, StockGathered, Upload, EnqueueUnarmed, EnqueueSkips
          <3> QED
              BY <1>0, <2>1, <2>2, <3>1 DEF TasksInv
      <2> QED
          BY <2>3, <2>4
  <1>4. CASE Worker /\ ~WorkerWrites
      <2>1. tasks' = tasks /\ UNCHANGED <<pc, gen>> /\ (ok' = ok \/ ok' = FALSE)
          BY <1>4, WorkerSteps
      <2>2. ok' /\ wpc = "gather" => wpc' = "gather" \/ \A task \in tasks : task[1] = 0
          <3>1. CASE WorkerPublishes
              <4>1. \A t \in TableIds : <<gen, t>> \notin tasks
                  BY <1>0, <3>1, PublishFacts
              <4>2. \A task \in tasks : task[1] # gen
                  <5> SUFFICES ASSUME NEW task \in tasks PROVE task[1] # gen
                      OBVIOUS
                  <5>1. task[2] \in TableIds /\ task = <<task[1], task[2]>>
                      BY <1>0 DEF TypeOK
                  <5> QED
                      BY <4>1, <5>1
              <4> QED
                  BY <1>0, <4>2 DEF TasksInv
          <3>2. CASE ~WorkerPublishes
              BY <1>4, <3>2 DEF Worker, WorkerGivesUp, WorkerPredicts, WorkerRaises, Canary, Running
          <3> QED
              BY <3>1, <3>2
      <2> QED
          BY <1>0, <2>1, <2>2 DEF TasksInv
  <1>5. CASE StageThread
      BY <1>0, <1>5, StageSteps, GatherSteps DEF TasksInv
  <1>6. CASE RunMain \/ RunSide
      BY <1>0, <1>6 DEF RunMain, RunSide, TasksInv
  <1> QED
      BY <1>1, <1>2, <1>3, <1>4, <1>5, <1>6 DEF Next

------------------------------------------------------------------------------
(* What each step does to the queues, to the prediction under way and to    *)
(* what a worker left behind.                                               *)

MainAppended(o) ==
    /\ step \in StepIds
    /\ Len(mainQ') = Len(mainQ) + 1 /\ mainQ' # << >>
    /\ \A i \in 1 .. Len(mainQ) : mainQ'[i] = mainQ[i]
    /\ mainQ'[Len(mainQ) + 1] = [op |-> o, step |-> step]
    /\ mainDone' = mainDone

LEMMA MainQSteps ==
  ASSUME TypeOK, Places, Next
  PROVE  /\ Prepare => MainAppended("prepare")
         /\ StockHash => MainAppended("hash")
         /\ Upload => MainAppended("h2d")
         /\ ~(Prepare \/ StockHash \/ Upload \/ RunMain) => UNCHANGED <<mainQ, mainDone>>
  <1>1. \A o \in {"prepare", "hash", "h2d"} :
           (step \in StepIds /\ mainQ' = Append(mainQ, [op |-> o, step |-> step])
                             /\ mainDone' = mainDone) => MainAppended(o)
      BY MainQueued DEF MainAppended
  <1>2. ASSUME Prepare PROVE MainAppended("prepare")
      BY <1>1, <1>2, GenTypes DEF Prepare
  <1>3. ASSUME StockHash PROVE MainAppended("hash")
      BY <1>1, <1>3, GenTypes DEF StockHash, Places
  <1>4. ASSUME Upload PROVE MainAppended("h2d")
      BY <1>1, <1>4, GenTypes DEF Upload, Places
  <1>5. ASSUME \/ TryStage \/ Join \/ VerifyRejects \/ VerifyAccepts \/ Steady \/ StockSync
               \/ StockGathered \/ EnqueueUnarmed \/ EnqueueSkips \/ EnqueueSubmits
        PROVE  UNCHANGED <<mainQ, mainDone>>
      BY <1>5 DEF TryStage, Join, VerifyRejects, VerifyAccepts, Steady, StockSync, StockGathered,
         EnqueueUnarmed, EnqueueSkips, EnqueueSubmits, gpu
  <1>6. ASSUME Worker PROVE UNCHANGED <<mainQ, mainDone>>
      BY <1>6, WorkerSteps DEF gpu
  <1>7. ASSUME StageThread PROVE UNCHANGED <<mainQ, mainDone>>
      BY <1>7, StageSteps, GatherSteps DEF gpu
  <1>8. ASSUME RunSide PROVE UNCHANGED <<mainQ, mainDone>>
      BY <1>8 DEF RunSide
  <1> QED
      BY <1>2, <1>3, <1>4, <1>5, <1>6, <1>7, <1>8 DEF Next, Main

LEMMA PredictingSteps ==
  ASSUME TypeOK, Places, JobsInv, Next, Predicting'
  PROVE  \/ EnqueueSubmits
         \/ Predicting /\ jobs'[Len(jobs')] = jobs[Len(jobs)] /\ gen' = gen
  <1>1. CASE MainKeepsJobs
      BY <1>1, MainKeeps DEF Predicting
  <1>2. CASE Steady
      <2>1. Len(jobs') = 1 /\ jobs'[1] = [type |-> "canary", gen |-> 0, step |-> step, kind |-> pred.kind]
          BY <1>2, SteadyFacts
      <2>2. jobs'[Len(jobs')].type = "canary"
          BY <2>1
      <2> QED
          BY <2>2 DEF Predicting
  <1>3. CASE Worker
      <2>1. jobs # << >> /\ JobSteps /\ gen' = gen
          BY <1>3, WorkerSteps
      <2> QED
          BY <2>1, JobDoneFacts DEF JobSteps, Predicting
  <1>4. CASE StageThread
      BY <1>4, StageSteps, GatherSteps DEF Predicting, lever
  <1>5. CASE RunMain \/ RunSide
      BY <1>5 DEF RunMain, RunSide, Predicting, work, lever
  <1> QED
      BY <1>1, <1>2, <1>3, <1>4, <1>5 DEF Next, Main, MainKeepsJobs

LEMMA LeftoverSteps ==
  ASSUME TypeOK, Next, Leftover'
  PROVE  Leftover \/ WorkerWrites
  <1>1. PICK task \in tasks' : task[1] # 0
      BY DEF Leftover
  <1>2. CASE StockSync
      BY <1>1, <1>2 DEF StockSync, Leftover
  <1>3. CASE Main /\ ~StockSync
      <2>1. tasks' = tasks
          BY <1>3 DEF Main, Prepare, TryStage, Join, VerifyRejects, VerifyAccepts, Steady, StockHash,
             StockGathered, Upload, EnqueueUnarmed, EnqueueSkips, EnqueueSubmits
      <2> QED
          BY <1>1, <2>1 DEF Leftover
  <1>4. CASE Worker
      BY <1>1, <1>4, WorkerSteps DEF Leftover
  <1>5. CASE StageThread
      BY <1>1, <1>5, StageSteps, GatherSteps DEF Leftover
  <1>6. CASE RunMain \/ RunSide
      BY <1>1, <1>6 DEF RunMain, RunSide, Leftover
  <1> QED
      BY <1>2, <1>3, <1>4, <1>5, <1>6 DEF Next

\* Nobody arms the lever again.
LEMMA TrustingSteps ==
  ASSUME TypeOK, Next
  PROVE  (ok' => ok) /\ (Trusting' => Trusting)
  <1>1. CASE Main
      <2>1. ok' => ok
          BY <1>1 DEF Main, Prepare, TryStage, Join, VerifyRejects, VerifyAccepts, Steady, StockHash,
             StockSync, StockGathered, Upload, EnqueueUnarmed, EnqueueSkips, EnqueueSubmits, lever
      <2>2. pc' \in {"join", "verify", "steady"} => ok \/ pc \in {"join", "verify", "steady"}
          BY <1>1 DEF Main, Prepare, TryStage, Join, VerifyRejects, VerifyAccepts, Steady, StockHash,
             StockSync, StockGathered, Upload, EnqueueUnarmed, EnqueueSkips, EnqueueSubmits, NextStep
      <2> QED
          BY <2>1, <2>2 DEF Trusting
  <1>2. CASE Worker \/ StageThread \/ RunMain \/ RunSide
      <2>1. pc' = pc /\ (ok' = ok \/ ok' = FALSE)
          BY <1>2, OtherSteps
      <2> QED
          BY <2>1 DEF Trusting
  <1> QED
      BY <1>1, <1>2 DEF Next

\* While the lever is trusted and a prediction is under way, the main thread
\* is before the place where it would use the buffers itself.
LEMMA TrustingPlaces ==
  ASSUME TypeOK, Places, JobsInv, PredInv, Predicting, Trusting
  PROVE  pc \in {"prepare", "try", "join", "enqueue"}
  <1>1. pending # 0
      BY PredictingFacts, GenTypes
  <1> QED
      BY <1>1 DEF Places, PredInv, Trusting

LEMMA StagedKept ==
  ASSUME TypeOK, Next, ~RunMain
  PROVE  staged' = staged
  BY WorkerSteps, StageSteps, GatherSteps DEF Next, Main, Prepare, TryStage, Join,
     VerifyRejects, VerifyAccepts, Steady, StockHash, StockSync, StockGathered, Upload,
     EnqueueUnarmed, EnqueueSkips, EnqueueSubmits, RunSide, host

LEMMA QueueStep ==
  ASSUME IInv, Next
  PROVE  QueueInv'
  <1>0. TypeOK /\ Places /\ QueueInv /\ Len(mainQ) \in Nat
      BY QueueTypes DEF IInv
  <1>m. \A s \in StepIds : mode[s] # "none" => mode'[s] # "none"
      BY <1>0, ModeKept
  <1>q. \A i \in 1 .. Len(mainQ) : mainQ[i].step \in StepIds
      BY <1>0, QueueTypes DEF MainOps
  <1>s. ~RunMain => staged' = staged
      BY <1>0, StagedKept
  <1>1. CASE Prepare
      <2>1. MainAppended("prepare") /\ pc = "prepare" /\ pc' \in {"try", "enqueue"}
          BY <1>0, <1>1, MainQSteps DEF Prepare
      <2>2. staged' = staged
          BY <1>1 DEF Prepare, host
      <2> QED
          BY <1>0, <1>m, <1>q, <2>1, <2>2 DEF QueueInv, MainAppended, Served
  <1>2. CASE StockHash
      <2>1. MainAppended("hash") /\ pc = "hash" /\ pc' = "sync" /\ step' = step
          BY <1>0, <1>2, MainQSteps DEF StockHash
      <2>2. staged' = staged
          BY <1>2 DEF StockHash, host
      <2> QED
          BY <1>0, <1>m, <1>q, <2>1, <2>2 DEF QueueInv, MainAppended, Served
  <1>3. CASE Upload
      <2>1. MainAppended("h2d") /\ pc = "h2d" /\ pc' = "enqueue" /\ mode[step] # "none"
          BY <1>0, <1>3, MainQSteps DEF Upload, Places
      <2>2. staged' = staged
          BY <1>3 DEF Upload, host
      <2> QED
          BY <1>0, <1>m, <1>q, <2>1, <2>2 DEF QueueInv, MainAppended, Served
  <1>4. CASE RunMain
      <2>1. /\ Len(mainQ) >= 1 /\ Len(mainQ') = Len(mainQ) - 1
            /\ \A i \in 1 .. Len(mainQ') : mainQ'[i] = mainQ[i + 1]
            /\ mainQ' \in Seq(MainOps) /\ mainQ[1].step \in StepIds
            /\ staged' = IF mainQ[1].op = "h2d" THEN [staged EXCEPT ![mainQ[1].step] = rowsHost]
                                                ELSE staged
          BY <1>0, <1>4, RunMainFacts
      <2>2. UNCHANGED <<step, pc, mode>>
          BY <1>0, <1>4, RunMainFacts
      <2>3. pc # "gather"
          BY <1>0, <2>1 DEF QueueInv
      <2>4. \A i \in 1 .. Len(mainQ') : i + 1 \in 1 .. Len(mainQ)
          BY <1>0, <2>1
      <2>5. mainQ' # << >> => mainQ # << >> /\ mainQ'[Len(mainQ')] = mainQ[Len(mainQ)]
          <3> SUFFICES ASSUME mainQ' # << >> PROVE mainQ # << >> /\ mainQ'[Len(mainQ')] = mainQ[Len(mainQ)]
              OBVIOUS
          <3>1. Len(mainQ') \in 1 .. Len(mainQ')
              BY <2>1, EmptySeq
          <3> QED
              BY <1>0, <2>1, <3>1
      <2>6. \A s \in StepIds : Served(s)' => Served(s) \/ mode[s] # "none"
          <3> SUFFICES ASSUME NEW s \in StepIds, Served(s)' PROVE Served(s) \/ mode[s] # "none"
              OBVIOUS
          <3>1. CASE mainQ[1].op = "h2d" /\ s = mainQ[1].step
              BY <1>0, <2>1, <3>1 DEF QueueInv
          <3>2. CASE ~(mainQ[1].op = "h2d" /\ s = mainQ[1].step)
              <4>1. staged'[s] = staged[s]
                  BY <1>0, <2>1, <3>2 DEF TypeOK
              <4> QED
                  BY <4>1 DEF Served
          <3> QED
              BY <3>1, <3>2
      <2> QED
          BY <1>0, <2>1, <2>2, <2>3, <2>4, <2>5, <2>6 DEF QueueInv
  <1>5. CASE ~(Prepare \/ StockHash \/ Upload \/ RunMain)
      <2>1. UNCHANGED <<mainQ, staged>>
          BY <1>0, <1>5, <1>s, MainQSteps
      <2>2. pc' = "gather" => mainQ = << >>
          <3>1. CASE Main
              BY <1>0, <1>5, <3>1 DEF Main, TryStage, Join, VerifyRejects, VerifyAccepts, Steady, StockSync,
                 StockGathered, EnqueueUnarmed, EnqueueSkips, EnqueueSubmits, NextStep, QueueInv
          <3>2. CASE ~Main
              BY <1>0, <3>2, OtherSteps DEF Next, QueueInv
          <3> QED
              BY <3>1, <3>2
      <2>3. (pc = "sync" /\ mainQ # << >> => pc' = "sync") /\ (pc' = "sync" => pc = "sync" /\ step' = step)
          <3>1. CASE Main
              BY <1>0, <1>5, <3>1 DEF Main, TryStage, Join, VerifyRejects, VerifyAccepts, Steady, StockSync,
                 StockGathered, EnqueueUnarmed, EnqueueSkips, EnqueueSubmits, NextStep
          <3>2. CASE ~Main
              BY <1>0, <3>2, OtherSteps DEF Next
          <3> QED
              BY <3>1, <3>2
      <2>4. \A i \in 1 .. Len(mainQ) : mainQ # << >>
          BY <1>0
      <2> QED
          BY <1>0, <1>m, <1>q, <2>1, <2>2, <2>3, <2>4 DEF QueueInv, Served
  <1> QED
      BY <1>1, <1>2, <1>3, <1>4, <1>5

LEMMA PredStep ==
  ASSUME IInv, Next
  PROVE  PredInv'
  <1>0. TypeOK /\ Places /\ JobsInv /\ TasksInv /\ PredInv
      BY DEF IInv
  <1>t. ok' => ok
      BY <1>0, TrustingSteps
  <1>1. CASE EnqueueSubmits
      BY <1>1 DEF EnqueueSubmits, Drain, NextStep, PredInv
  <1>2. ASSUME ~EnqueueSubmits, Predicting' \/ Leftover'
        PROVE  /\ Predicting \/ Leftover
               /\ ~WorkerPublishes
      <2>1. Predicting \/ Leftover
          <3>1. WorkerWrites => Predicting
              BY <1>0, BusyPredicts DEF WorkerWrites, Running
          <3> QED
              BY <1>0, <1>2, <3>1, PredictingSteps, LeftoverSteps
      <2>2. ASSUME WorkerPublishes PROVE FALSE
          <3>1. ~Predicting' /\ tasks' = tasks /\ \A t \in TableIds : <<gen, t>> \notin tasks
              BY <1>0, <2>2, PublishFacts
          <3>2. PICK task \in tasks : task[1] # 0
              BY <1>2, <3>1 DEF Leftover
          <3>3. task[1] = gen /\ task[2] \in TableIds /\ task = <<task[1], task[2]>>
              BY <1>0, <3>2 DEF TasksInv, TypeOK
          <3> QED
              BY <3>1, <3>3
      <2> QED
          BY <2>1, <2>2
  <1>3. CASE Main /\ ~EnqueueSubmits
      <2>1. pred' = pred \/ pred' = Nothing
          BY <1>3 DEF Main, Prepare, TryStage, Join, VerifyRejects, VerifyAccepts, Steady, StockHash,
             StockSync, StockGathered, Upload, EnqueueUnarmed, EnqueueSkips, Drain, lever
      <2>2. pc' \in {"verify", "steady"} => pc = "join" /\ pred # Nothing
          BY <1>3 DEF Main, Prepare, TryStage, Join, VerifyRejects, VerifyAccepts, Steady, StockHash,
             StockSync, StockGathered, Upload, EnqueueUnarmed, EnqueueSkips, NextStep
      <2>3. pc' = "h2d" =>
              \/ pc \in {"verify", "steady"}
              \/ mode[step] = "stock" /\ UNCHANGED <<mode, step>>
          BY <1>0, <1>3 DEF Main, Prepare, TryStage, Join, VerifyRejects, VerifyAccepts, Steady, StockHash,
             StockSync, StockGathered, Upload, EnqueueUnarmed, EnqueueSkips, NextStep, Places
      <2>4. ok' /\ pred' # Nothing => pending' # 0 \/ pc' \in {"verify", "steady"}
          <3>1. CASE Join
              BY <3>1 DEF Join
          <3>2. CASE EnqueueSkips \/ VerifyAccepts \/ VerifyRejects \/ Steady
              BY <3>2 DEF EnqueueSkips, Drain, VerifyAccepts, VerifyRejects, Steady
          <3>3. CASE Prepare \/ TryStage \/ StockHash \/ StockSync \/ StockGathered \/ Upload
                     \/ EnqueueUnarmed
              <4>1. UNCHANGED <<pred, pending>> /\ pc \notin {"verify", "steady"}
                  BY <3>3 DEF Prepare, TryStage, StockHash, StockSync, StockGathered, Upload,
                     EnqueueUnarmed, lever
              <4> QED
                  BY <1>0, <1>t, <4>1 DEF PredInv
          <3> QED
              BY <1>3, <3>1, <3>2, <3>3 DEF Main
      <2> QED
          BY <1>0, <1>2, <1>3, <2>1, <2>2, <2>3, <2>4 DEF PredInv, Fast
  <1>4. CASE Worker \/ StageThread \/ RunMain \/ RunSide
      <2>1. /\ UNCHANGED <<step, pc, mode, pending>>
            /\ pred' = pred \/ WorkerPublishes
          BY <1>0, <1>4, OtherSteps
      <2>2. WorkerPublishes => pending # 0
          BY <1>0, PublishFacts
      <2>3. EnqueueSubmits => PredInv'
          BY <1>1
      <2> QED
          BY <1>0, <1>1, <1>2, <1>t, <2>1, <2>2, <2>3 DEF PredInv, Fast
  <1> QED
      BY <1>1, <1>3, <1>4 DEF Next

\* The main thread's snapshot of step.
LEMMA SnapshotFacts ==
  ASSUME TypeOK, step \in StepIds, Snapshot
  PROVE  /\ Len(sideQ') = Len(sideQ) + 1
         /\ \A i \in 1 .. Len(sideQ) : sideQ'[i] = sideQ[i]
         /\ sideQ'[Len(sideQ) + 1].after = mainDone + Len(mainQ)
         /\ snapEv' = sideDone + Len(sideQ) + 1
  <1>1. OnSide("snapshot", step) /\ snapEv' = SideIssued + 1
      BY DEF Snapshot
  <1> QED
      BY <1>1, SideQueued

LEMMA SnapStep ==
  ASSUME IInv, Next
  PROVE  SnapInv'
  <1>0. TypeOK /\ Places /\ JobsInv /\ TasksInv /\ QueueInv /\ PredInv /\ SnapInv
      BY DEF IInv
  <1>t. /\ snapEv \in Nat /\ sideDone \in Nat /\ mainDone \in Nat
        /\ Len(sideQ) \in Nat /\ Len(mainQ) \in Nat
        /\ \A i \in 1 .. Len(sideQ) : sideQ[i].after \in Nat
      BY <1>0, GenTypes, QueueTypes DEF SideOps
  <1>o. ok' => ok
      BY <1>0, TrustingSteps
  <1>f. \A i \in 1 .. Len(mainQ) : mainQ[i].op = "h2d" =>
           mode'[mainQ[i].step] = mode[mainQ[i].step]
      BY <1>0, ModeKept, QueueTypes DEF QueueInv, MainOps
  <1>1. CASE EnqueueSubmits
      <2>1. Snapshot /\ step \in StepIds /\ UNCHANGED <<mainQ, mainDone, sideDone, wpc, tasks>>
          BY <1>0, <1>1, GenTypes DEF EnqueueSubmits, Places
      <2>2. wpc = "start" /\ ~Leftover
          <3>1. wpc = "start"
              BY <1>0, <1>1, DrainedFacts DEF EnqueueSubmits, Drain
          <3> QED
              BY <1>0, <1>1, <3>1 DEF EnqueueSubmits, TasksInv, Leftover
      <2>3. /\ Len(sideQ') = Len(sideQ) + 1
            /\ sideQ'[Len(sideQ) + 1].after = mainDone + Len(mainQ)
            /\ snapEv' = sideDone + Len(sideQ) + 1
          BY <1>0, <2>1, SnapshotFacts
      <2>4. snapEv' - sideDone' = Len(sideQ) + 1
          BY <1>t, <2>1, <2>3
      <2> QED
          BY <1>t, <2>1, <2>2, <2>3, <2>4 DEF SnapInv, Leftover
  <1>2. CASE EnqueueSkips \/ Steady
      <2>1. ~Predicting /\ wpc = "start" /\ step \in StepIds
          <3>1. CASE EnqueueSkips
              BY <1>0, <3>1, DrainedFacts, GenTypes DEF EnqueueSkips, Drain, Places
          <3>2. CASE Steady
              BY <1>0, <3>2, GenTypes DEF Steady, Places, JobsInv, Predicting
          <3> QED
              BY <1>2, <3>1, <3>2
      <2>2. ~Leftover \/ Steady
          BY <1>0, <1>2, <2>1 DEF EnqueueSkips, TasksInv, Leftover
      <2>3. ~Predicting'
          <3>2. EnqueueSkips => jobs' = jobs
              BY DEF EnqueueSkips, work
          <3>3. ASSUME Steady PROVE jobs'[Len(jobs')].type = "canary"
              <4>1. /\ Len(jobs') = 1
                    /\ jobs'[1] = [type |-> "canary", gen |-> 0, step |-> step, kind |-> pred.kind]
                  BY <1>0, <3>3, SteadyFacts
              <4> QED
                  BY <4>1
          <3> QED
              BY <1>2, <2>1, <3>2, <3>3 DEF Predicting
      <2>4. UNCHANGED <<mainQ, mainDone, sideDone, wpc, tasks>>
          BY <1>2 DEF EnqueueSkips, Steady, work
      <2>5. snapEv' <= sideDone + Len(sideQ')
          <3>1. CASE Snapshot
              BY <1>0, <1>t, <2>1, <3>1, SnapshotFacts
          <3>2. CASE UNCHANGED <<sideQ, snapEv>>
              BY <1>0, <3>2 DEF SnapInv
          <3>3. CASE Steady
              <4>1. OnSide("canary", step) /\ snapEv' = snapEv
                  BY <3>3 DEF Steady
              <4>2. Len(sideQ') = Len(sideQ) + 1
                  BY <1>0, <2>1, <4>1, SideQueued
              <4> QED
                  BY <1>0, <1>t, <4>1, <4>2 DEF SnapInv
          <3> QED
              BY <1>2, <3>1, <3>2, <3>3 DEF EnqueueSkips
      <2>6. Leftover' => \A i \in 1 .. Len(mainQ) :
                            ~(mainQ[i].op = "h2d" /\ mode'[mainQ[i].step] \in {"warm", "steady"})
          BY <1>0, <1>f, <2>4 DEF SnapInv, Leftover, Fast
      <2> QED
          BY <2>1, <2>3, <2>4, <2>5, <2>6 DEF SnapInv, Fast
  <1>3. CASE RunSide
      <2>1. /\ Len(sideQ) >= 1 /\ Len(sideQ') = Len(sideQ) - 1
            /\ \A i \in 1 .. Len(sideQ') : sideQ'[i] = sideQ[i + 1]
            /\ sideDone' = sideDone + 1 /\ mainDone >= sideQ[1].after
          BY <1>0, <1>3, RunSideFacts
      <2>2. UNCHANGED <<mainQ, mainDone, snapEv, wpc, tasks, mode, ok, jobs>>
          BY <1>0, <1>3, RunSideFacts DEF lever, work
      <2>3. snapEv' <= sideDone' + Len(sideQ')
          BY <1>0, <1>t, <2>1, <2>2 DEF SnapInv
      <2>4. ASSUME Predicting, NEW i \in 1 .. Len(mainQ),
                   mainQ[i].op = "h2d" /\ (ok \/ Fast(mainQ[i].step))
            PROVE  snapEv > sideDone' /\ sideQ'[snapEv - sideDone'].after >= mainDone + i
          <3>1. snapEv > sideDone /\ sideQ[snapEv - sideDone].after >= mainDone + i
              BY <1>0, <2>4 DEF SnapInv
          <3>2. snapEv # sideDone + 1
              <4> SUFFICES ASSUME snapEv = sideDone + 1 PROVE FALSE
                  OBVIOUS
              <4>1. snapEv - sideDone = 1
                  BY <1>t
              <4>2. sideQ[1].after >= mainDone + i /\ sideQ[1].after \in Nat
                  BY <1>t, <2>1, <3>1, <4>1
              <4> QED
                  BY <1>t, <2>1, <4>2
          <3>3. snapEv - sideDone' \in 1 .. Len(sideQ') /\ (snapEv - sideDone') + 1 = snapEv - sideDone
              BY <1>0, <1>t, <2>1, <3>1, <3>2 DEF SnapInv
          <3>4. sideQ'[snapEv - sideDone'] = sideQ[snapEv - sideDone]
              BY <2>1, <3>3
          <3> QED
              BY <1>t, <2>1, <3>1, <3>3, <3>4
      <2>5. (wpc # "start" => snapEv <= sideDone') /\ (Predicting' => Predicting) /\ (Leftover' => Leftover)
          BY <1>0, <1>t, <2>1, <2>2 DEF SnapInv, Predicting, Leftover
      <2> QED
          BY <1>0, <2>2, <2>3, <2>4, <2>5 DEF SnapInv, Fast
  <1>4. CASE ~(EnqueueSubmits \/ EnqueueSkips \/ Steady \/ RunSide)
      <2>1. UNCHANGED <<snapEv, sideQ, sideDone>>
          <3>1. CASE Main
              BY <1>4, <3>1 DEF Main, Prepare, TryStage, Join, VerifyRejects, VerifyAccepts, StockHash,
                 StockSync, StockGathered, Upload, EnqueueUnarmed, gpu
          <3>2. CASE Worker
              BY <3>2, WorkerSteps DEF gpu
          <3>3. CASE StageThread
              BY <1>0, <3>3, StageSteps, GatherSteps DEF gpu
          <3>4. CASE RunMain
              BY <1>0, <3>4, RunMainFacts
          <3> QED
              BY <1>4, <3>1, <3>2, <3>3, <3>4 DEF Next
      <2>2. wpc' # "start" => snapEv <= sideDone
          <3>1. CASE WorkerPredicts
              BY <1>t, <3>1 DEF WorkerPredicts, SnapshotLanded
          <3>2. CASE ~WorkerPredicts
              <4>1. wpc' # "start" => wpc # "start"
                  <5>1. CASE MainKeepsJobs
                      BY <5>1, MainKeeps
                  <5>2. CASE Worker
                      BY <3>2, <5>2 DEF Worker, WorkerGivesUp, WorkerWrites, WorkerPublishes,
                         WorkerRaises, Canary, JobDone, Running
                  <5>3. CASE StageThread \/ RunMain
                      BY <1>0, <5>3, StageSteps, GatherSteps, RunMainFacts DEF work
                  <5> QED
                      BY <1>4, <5>1, <5>2, <5>3 DEF Next, Main, MainKeepsJobs
              <4> QED
                  BY <1>0, <4>1 DEF SnapInv
          <3> QED
              BY <3>1, <3>2
      <2>3. Predicting' => Predicting
          BY <1>0, <1>4, PredictingSteps
      <2>4. ASSUME Leftover', NEW i \in 1 .. Len(mainQ), mainQ[i].op = "h2d", Fast(mainQ[i].step)
            PROVE  FALSE
          <3>1. CASE Leftover
              BY <1>0, <2>4, <3>1 DEF SnapInv
          <3>2. CASE WorkerWrites
              <4>1. Predicting /\ snapEv <= sideDone
                  BY <1>0, <3>2, BusyPredicts DEF WorkerWrites, Running, SnapInv
              <4> QED
                  BY <1>0, <1>t, <2>4, <4>1 DEF SnapInv
          <3> QED
              BY <1>0, <2>4, <3>1, <3>2, LeftoverSteps
      <2>5. CASE RunMain
          <3>1. /\ Len(mainQ') = Len(mainQ) - 1 /\ mainDone' = mainDone + 1
                /\ \A i \in 1 .. Len(mainQ') : mainQ'[i] = mainQ[i + 1]
                /\ UNCHANGED <<mode, ok>>
              BY <1>0, <2>5, RunMainFacts DEF lever
          <3>2. \A i \in 1 .. Len(mainQ') :
                    i + 1 \in 1 .. Len(mainQ) /\ mainDone' + i = mainDone + (i + 1)
              BY <1>t, <3>1
          <3>3. ASSUME Predicting', NEW i \in 1 .. Len(mainQ'),
                       mainQ'[i].op = "h2d" /\ (ok \/ Fast(mainQ'[i].step))
                PROVE  snapEv > sideDone /\ sideQ[snapEv - sideDone].after >= mainDone' + i
              <4>1. i + 1 \in 1 .. Len(mainQ) /\ mainQ'[i] = mainQ[i + 1] /\ mainDone' + i = mainDone + (i + 1)
                  BY <3>1, <3>2
              <4> QED
                  BY <1>0, <2>3, <3>3, <4>1 DEF SnapInv
          <3>4. ASSUME Leftover', NEW i \in 1 .. Len(mainQ'), mainQ'[i].op = "h2d", Fast(mainQ'[i].step)
                PROVE  FALSE
              <4>1. i + 1 \in 1 .. Len(mainQ) /\ mainQ'[i] = mainQ[i + 1]
                  BY <3>1, <3>2
              <4> QED
                  BY <2>4, <3>4, <4>1
          <3> QED
              BY <1>0, <2>1, <2>2, <3>1, <3>3, <3>4 DEF SnapInv, Fast
      <2>6. CASE Prepare \/ StockHash \/ Upload
          <3>1. PICK o \in {"prepare", "hash", "h2d"} : MainAppended(o) /\ (o = "h2d" => Upload)
              BY <1>0, <2>6, MainQSteps
          <3>2. o = "h2d" => mode' = mode /\ mode[step] # "none" /\ pc = "h2d"
              BY <1>0, <3>1 DEF Upload, Places
          <3>3. o = "h2d" => ~(Predicting /\ (ok \/ Fast(step))) /\ ~(Leftover /\ Fast(step))
              <4> SUFFICES ASSUME o = "h2d"
                           PROVE  ~(Predicting /\ (ok \/ Fast(step))) /\ ~(Leftover /\ Fast(step))
                  OBVIOUS
              <4>1. Predicting => pending # 0
                  BY <1>0, PredictingFacts, GenTypes
              <4> QED
                  BY <1>0, <3>2, <4>1 DEF Places, PredInv
          <3>4. /\ Len(mainQ') = Len(mainQ) + 1 /\ mainDone' = mainDone
                /\ \A i \in 1 .. Len(mainQ) : mainQ'[i] = mainQ[i]
                /\ mainQ'[Len(mainQ) + 1] = [op |-> o, step |-> step]
              BY <3>1 DEF MainAppended
          <3>5. Leftover' => Leftover
              BY <2>6 DEF Prepare, StockHash, Upload, Leftover
          <3>6. ASSUME Predicting', NEW i \in 1 .. Len(mainQ'),
                       mainQ'[i].op = "h2d", ok' \/ mode'[mainQ'[i].step] \in {"warm", "steady"}
                PROVE  snapEv > sideDone /\ sideQ[snapEv - sideDone].after >= mainDone + i
              <4>1. CASE i \in 1 .. Len(mainQ)
                  BY <1>0, <1>f, <1>o, <2>3, <3>4, <3>6, <4>1 DEF SnapInv, Fast
              <4>2. CASE i = Len(mainQ) + 1
                  <5>1. mainQ'[i] = [op |-> o, step |-> step]
                      BY <3>4, <4>2
                  <5>2. o = "h2d" /\ mainQ'[i].step = step
                      BY <3>6, <5>1
                  <5> QED
                      BY <1>o, <2>3, <3>2, <3>3, <3>6, <5>2 DEF Fast
              <4> QED
                  BY <1>t, <3>4, <4>1, <4>2
          <3>7. ASSUME Leftover', NEW i \in 1 .. Len(mainQ'), mainQ'[i].op = "h2d",
                       mode'[mainQ'[i].step] \in {"warm", "steady"}
                PROVE  FALSE
              <4>1. CASE i \in 1 .. Len(mainQ)
                  BY <1>f, <2>4, <3>4, <3>7, <4>1 DEF Fast
              <4>2. CASE i = Len(mainQ) + 1
                  <5>1. mainQ'[i] = [op |-> o, step |-> step]
                      BY <3>4, <4>2
                  <5>2. o = "h2d" /\ mainQ'[i].step = step
                      BY <3>7, <5>1
                  <5> QED
                      BY <3>2, <3>3, <3>5, <3>7, <5>2 DEF Fast
              <4> QED
                  BY <1>t, <3>4, <4>1, <4>2
          <3> QED
              BY <1>0, <2>1, <2>2, <3>4, <3>6, <3>7 DEF SnapInv, Fast
      <2>7. CASE ~(Prepare \/ StockHash \/ Upload \/ RunMain)
          <3>1. UNCHANGED <<mainQ, mainDone>>
              BY <1>0, <2>7, MainQSteps
          <3>2. ASSUME Predicting', NEW i \in 1 .. Len(mainQ),
                       mainQ[i].op = "h2d", ok' \/ mode'[mainQ[i].step] \in {"warm", "steady"}
                PROVE  snapEv > sideDone /\ sideQ[snapEv - sideDone].after >= mainDone + i
              BY <1>0, <1>f, <1>o, <2>3, <3>1, <3>2 DEF SnapInv, Fast
          <3>3. ASSUME Leftover', NEW i \in 1 .. Len(mainQ), mainQ[i].op = "h2d",
                       mode'[mainQ[i].step] \in {"warm", "steady"}
                PROVE  FALSE
              BY <1>f, <2>4, <3>1, <3>3 DEF Fast
          <3> QED
              BY <1>0, <2>1, <2>2, <3>1, <3>2, <3>3 DEF SnapInv, Fast
      <2> QED
          BY <2>5, <2>6, <2>7
  <1> QED
      BY <1>1, <1>2, <1>3, <1>4

------------------------------------------------------------------------------
(* The buffers.                                                             *)

LEMMA RowsSteps ==
  ASSUME TypeOK, Next
  PROVE  rowsHost' = rowsHost \/ StageThread
  <1>1. CASE Main
      BY <1>1 DEF Main, Prepare, TryStage, Join, VerifyRejects, VerifyAccepts, Steady, StockHash,
         StockSync, StockGathered, Upload, EnqueueUnarmed, EnqueueSkips, EnqueueSubmits, host
  <1>2. CASE Worker
      BY <1>2, WorkerSteps
  <1>3. CASE RunMain \/ RunSide
      BY <1>3 DEF RunMain, RunSide
  <1> QED
      BY <1>1, <1>2, <1>3 DEF Next

LEMMA HashSteps ==
  ASSUME TypeOK, Next
  PROVE  hashHost' = hashHost \/ WorkerWrites \/ (RunMain /\ mainQ[1].op = "hash")
  <1>1. CASE Main
      BY <1>1 DEF Main, Prepare, TryStage, Join, VerifyRejects, VerifyAccepts, Steady, StockHash,
         StockSync, StockGathered, Upload, EnqueueUnarmed, EnqueueSkips, EnqueueSubmits, host
  <1>2. CASE Worker
      BY <1>2, WorkerSteps
  <1>3. CASE StageThread
      BY <1>3, StageSteps, GatherSteps
  <1>4. CASE RunMain
      BY <1>4, RunMainFacts
  <1>5. CASE RunSide
      BY <1>5 DEF RunSide
  <1> QED
      BY <1>1, <1>2, <1>3, <1>4, <1>5 DEF Next

\* Whose gather it is, and where the main thread and the worker then are.
LEMMA GatherPlaces ==
  ASSUME TypeOK, TasksInv, NEW who, NEW t, Gather(who, t)
  PROVE  \/ who = 0 /\ pc = "gather"
         \/ who # 0 /\ who = gen /\ Leftover /\ (ok => wpc = "gather")
  <1>1. <<who, t>> \in tasks
      BY GatherSteps
  <1> QED
      BY <1>1 DEF TasksInv, Leftover

\* The worker's write, and what it leaves of its job.
LEMMA WriteFacts ==
  ASSUME TypeOK, JobsInv, WorkerWrites
  PROVE  /\ Predicting /\ Job.gen = gen /\ wpc = "write" /\ wpc' = "gather"
         /\ hashHost' = guess /\ UNCHANGED <<jobs, guess, gen, pc, step, rowsHost, failed>>
         /\ \A t \in TableIds : <<gen, t>> \in tasks'
  <1>1. wpc = "write" /\ wpc' = "gather" /\ hashHost' = guess
      BY DEF WorkerWrites, Running
  <1>2. UNCHANGED <<jobs, guess, gen, pc, step, rowsHost, failed>>
      BY DEF WorkerWrites, lever
  <1>3. Predicting /\ Job.gen = gen
      BY <1>1, BusyPredicts
  <1>4. \A t \in TableIds : <<gen, t>> \in tasks'
      BY <1>3 DEF WorkerWrites
  <1> QED
      BY <1>1, <1>2, <1>3, <1>4

\* Who is busy was busy with the same job, or has just begun.
LEMMA BusySteps ==
  ASSUME TypeOK, Places, JobsInv, Next, wpc' # "start"
  PROVE  \/ WorkerPredicts
         \/ WorkerWrites
         \/ /\ wpc # "start" /\ wpc' = wpc
            /\ UNCHANGED <<jobs, guess, gen>>
            /\ failed' = failed \/ StageThread
  <1>1. CASE MainKeepsJobs
      BY <1>1, MainKeeps
  <1>2. CASE Steady
      <2>1. wpc' = wpc /\ jobs = << >>
          BY <1>2, SteadyFacts DEF Steady
      <2> QED
          BY <2>1 DEF JobsInv
  <1>3. CASE EnqueueSubmits
      <2>1. wpc' = wpc /\ wpc = "start"
          BY <1>3, DrainedFacts DEF EnqueueSubmits, Drain
      <2> QED
          BY <2>1
  <1>4. CASE Worker
      BY <1>4 DEF Worker, WorkerGivesUp, WorkerPublishes, WorkerRaises, Canary, JobDone
  <1>5. CASE StageThread
      BY <1>5, StageSteps, GatherSteps DEF lever
  <1>6. CASE RunMain \/ RunSide
      BY <1>6 DEF RunMain, RunSide, lever, work
  <1> QED
      BY <1>1, <1>2, <1>3, <1>4, <1>5, <1>6 DEF Next, Main, MainKeepsJobs

\* The prediction that waits for its step.
LEMMA PredKept ==
  ASSUME TypeOK, Places, PredInv, Next, Trusting', pred' # Nothing, ~WorkerPublishes
  PROVE  Trusting /\ pred' = pred /\ step' = step
  <1>1. Trusting
      BY TrustingSteps
  <1>2. CASE Main
      <2>1. CASE EnqueueUnarmed
          BY <1>1, <2>1 DEF EnqueueUnarmed, Trusting
      <2>2. CASE EnqueueSkips \/ EnqueueSubmits
          BY <2>2 DEF EnqueueSkips, EnqueueSubmits, Drain
      <2>3. CASE ~(EnqueueUnarmed \/ EnqueueSkips \/ EnqueueSubmits)
          BY <1>1, <1>2, <2>3 DEF Main, Prepare, TryStage, Join, VerifyRejects, VerifyAccepts, Steady,
             StockHash, StockSync, StockGathered, Upload, lever
      <2> QED
          BY <2>1, <2>2, <2>3
  <1>3. CASE Worker \/ StageThread \/ RunMain \/ RunSide
      BY <1>1, <1>3, OtherSteps
  <1> QED
      BY <1>2, <1>3 DEF Next

LEMMA GuessStep ==
  ASSUME IInv, Next
  PROVE  GuessInv'
  <1>0. TypeOK /\ Places /\ JobsInv /\ TasksInv /\ QueueInv /\ PredInv /\ GuessInv
      BY DEF IInv
  <1>t. step \in Nat /\ gen \in Nat
      BY <1>0, GenTypes
  <1>1. Predicting' /\ Trusting' => jobs'[Len(jobs')].step + 1 = step'
      <2> SUFFICES ASSUME Predicting', Trusting' PROVE jobs'[Len(jobs')].step + 1 = step'
          OBVIOUS
      <2>1. CASE EnqueueSubmits
          <3>1. /\ Len(jobs') = Len(jobs) + 1
                /\ jobs'[Len(jobs) + 1]
                      = [type |-> "predict", gen |-> gen + 1, step |-> step, kind |-> "right"]
              BY <1>0, <2>1, SubmitFacts
          <3>2. jobs'[Len(jobs')].step = step
              BY <3>1
          <3> QED
              BY <2>1, <3>2 DEF EnqueueSubmits, NextStep
      <2>2. CASE ~EnqueueSubmits
          <3>1. Predicting /\ jobs'[Len(jobs')] = jobs[Len(jobs)]
              BY <1>0, <2>2, PredictingSteps
          <3>2. Trusting
              BY <1>0, TrustingSteps
          <3>3. ~EnqueueUnarmed /\ ~EnqueueSkips
              <4>1. EnqueueSkips => FALSE
                  BY <1>0, <3>1, DrainedFacts DEF EnqueueSkips, Drain
              <4>2. EnqueueUnarmed => FALSE
                  BY <3>2 DEF EnqueueUnarmed, Trusting
              <4> QED
                  BY <4>1, <4>2
          <3>4. step' = step
              <4>1. CASE Main
                  BY <2>2, <3>3, <4>1 DEF Main, Prepare, TryStage, Join, VerifyRejects, VerifyAccepts,
                     Steady, StockHash, StockSync, StockGathered, Upload
              <4>2. CASE ~Main
                  BY <1>0, <4>2, OtherSteps DEF Next
              <4> QED
                  BY <4>1, <4>2
          <3> QED
              BY <1>0, <3>1, <3>2, <3>4 DEF GuessInv
      <2> QED
          BY <2>1, <2>2
  <1>2. wpc' # "start" => guess'.step = Job'.step + 1
      <2> SUFFICES ASSUME wpc' # "start" PROVE guess'.step = Job'.step + 1
          OBVIOUS
      <2>1. CASE WorkerPredicts
          <3>1. jobs' = jobs /\ guess'.step = Job.step + 1
              BY <2>1 DEF WorkerPredicts
          <3> QED
              BY <3>1 DEF Job
      <2>2. CASE WorkerWrites
          BY <1>0, <2>2, WriteFacts DEF GuessInv, Job
      <2>3. CASE ~WorkerPredicts /\ ~WorkerWrites
          BY <1>0, <2>3, BusySteps DEF GuessInv, Job
      <2> QED
          BY <2>1, <2>2, <2>3
  <1>3. wpc' = "gather" /\ Trusting' =>
          /\ hashHost' = guess'
          /\ \A t \in TableIds :
                <<gen', t>> \in tasks' \/ t \in failed' \/ rowsHost'[t] = guess'
      <2> SUFFICES ASSUME wpc' = "gather", Trusting'
                   PROVE  /\ hashHost' = guess'
                          /\ \A t \in TableIds :
                                <<gen', t>> \in tasks' \/ t \in failed' \/ rowsHost'[t] = guess'
          OBVIOUS
      <2>1. CASE WorkerWrites
          BY <1>0, <2>1, WriteFacts
      <2>2. CASE ~WorkerWrites
          <3>1. wpc = "gather" /\ UNCHANGED <<jobs, guess, gen>> /\ (failed' = failed \/ StageThread)
              BY <1>0, <2>2, BusySteps DEF WorkerPredicts
          <3>2. Trusting /\ Predicting /\ Job.gen = gen
              BY <1>0, <3>1, TrustingSteps, BusyPredicts
          <3>3. pc \in {"prepare", "try", "join", "enqueue"}
              BY <1>0, <3>2, TrustingPlaces
          <3>4. hashHost' = hashHost
              <4>1. RunMain => mainQ[1].op # "hash"
                  BY <1>0, <3>3, RunMainFacts, QueueTypes DEF QueueInv
              <4> QED
                  BY <1>0, <2>2, <4>1, HashSteps
          <3>5. hashHost = guess
                /\ \A t \in TableIds : <<gen, t>> \in tasks \/ t \in failed \/ rowsHost[t] = guess
              BY <1>0, <3>1, <3>2 DEF GuessInv
          <3>6. CASE StageThread
              <4>1. PICK who \in 0 .. Steps, t \in TableIds : Gather(who, t)
                  BY <1>0, <3>6, StageSteps
              <4>2. who = gen
                  BY <1>0, <3>3, <4>1, GatherPlaces
              <4>3. tasks' = tasks \ {<<who, t>>}
                  BY <4>1 DEF Gather
              <4>4. \/ rowsHost' = [rowsHost EXCEPT ![t] = hashHost] /\ failed' = failed
                    \/ rowsHost' = rowsHost /\ failed' = failed \cup {t}
                  BY <3>1, <3>2, <4>1, <4>2 DEF Gather
              <4>5. ASSUME NEW u \in TableIds
                    PROVE  <<gen, u>> \in tasks' \/ u \in failed' \/ rowsHost'[u] = guess
                  <5>1. CASE u = t
                      BY <1>0, <3>5, <4>4, <5>1 DEF TypeOK
                  <5>2. CASE u # t
                      BY <1>0, <3>5, <4>3, <4>4, <5>2 DEF TypeOK
                  <5> QED
                      BY <5>1, <5>2
              <4> QED
                  BY <3>1, <3>4, <3>5, <4>5
          <3>7. CASE ~StageThread
              <4>1. rowsHost' = rowsHost /\ failed' = failed
                  BY <1>0, <3>1, <3>7, RowsSteps
              <4>2. tasks \subseteq tasks'
                  <5>1. CASE Main
                      BY <5>1 DEF Main, Prepare, TryStage, Join, VerifyRejects, VerifyAccepts, Steady,
                         StockHash, StockSync, StockGathered, Upload, EnqueueUnarmed, EnqueueSkips,
                         EnqueueSubmits
                  <5>2. CASE Worker
                      BY <2>2, <5>2, WorkerSteps
                  <5>3. CASE RunMain \/ RunSide
                      BY <5>3 DEF RunMain, RunSide
                  <5> QED
                      BY <3>7, <5>1, <5>2, <5>3 DEF Next
              <4> QED
                  BY <3>1, <3>4, <3>5, <4>1, <4>2
          <3> QED
              BY <3>6, <3>7
      <2> QED
          BY <2>1, <2>2
  <1>4. pred' # Nothing /\ Trusting' =>
          pred'.step = step' /\ \A t \in TableIds : rowsHost'[t] = pred'
      <2> SUFFICES ASSUME pred' # Nothing, Trusting'
                   PROVE  pred'.step = step' /\ \A t \in TableIds : rowsHost'[t] = pred'
          OBVIOUS
      <2>1. CASE WorkerPublishes
          <3>1. /\ pred' = guess /\ Predicting /\ wpc = "gather" /\ failed = {}
                /\ \A t \in TableIds : <<gen, t>> \notin tasks
                /\ rowsHost' = rowsHost
              BY <1>0, <2>1, PublishFacts
          <3>2. Trusting /\ step' = step
              BY <1>0, <2>1, TrustingSteps DEF WorkerPublishes
          <3>3. Job = jobs[Len(jobs)] /\ guess.step = Job.step + 1
              BY <1>0, <3>1, BusyPredicts DEF GuessInv
          <3>4. jobs[Len(jobs)].step + 1 = step
              BY <1>0, <3>1, <3>2 DEF GuessInv
          <3>5. \A t \in TableIds : rowsHost[t] = guess
              BY <1>0, <3>1, <3>2 DEF GuessInv
          <3> QED
              BY <3>1, <3>2, <3>3, <3>4, <3>5
      <2>2. CASE ~WorkerPublishes
          <3>1. Trusting /\ pred' = pred /\ step' = step
              BY <1>0, <2>2, PredKept
          <3>2. ASSUME StageThread PROVE FALSE
              <4>1. PICK who \in 0 .. Steps, t \in TableIds : Gather(who, t)
                  BY <1>0, <3>2, StageSteps
              <4>2. ~Leftover
                  BY <1>0, <3>1 DEF PredInv
              <4>3. pc = "gather"
                  BY <1>0, <4>1, <4>2, GatherPlaces
              <4> QED
                  BY <1>0, <3>1, <4>3 DEF Trusting, PredInv, Places
          <3>3. rowsHost' = rowsHost
              BY <1>0, <3>2, RowsSteps
          <3> QED
              BY <1>0, <3>1, <3>3 DEF GuessInv
      <2> QED
          BY <2>1, <2>2
  <1> QED
      BY <1>1, <1>2, <1>3, <1>4 DEF GuessInv

\* While a fast step's copy is to come, or queued, nobody gathers.
LEMMA FastQuiet ==
  ASSUME TypeOK, TasksInv, QueueInv, PredInv, SnapInv, StageThread,
         \/ pc = "h2d" /\ Fast(step)
         \/ \E i \in 1 .. Len(mainQ) : mainQ[i].op = "h2d" /\ Fast(mainQ[i].step)
  PROVE  FALSE
  <1>1. PICK who \in 0 .. Steps, t \in TableIds : Gather(who, t)
      BY StageSteps
  <1>2. CASE pc = "h2d" /\ Fast(step)
      BY <1>1, <1>2, GatherPlaces DEF PredInv
  <1>3. CASE \E i \in 1 .. Len(mainQ) : mainQ[i].op = "h2d" /\ Fast(mainQ[i].step)
      <2>1. PICK i \in 1 .. Len(mainQ) : mainQ[i].op = "h2d" /\ Fast(mainQ[i].step)
          BY <1>3
      <2>2. mainQ # << >>
          BY <2>1, QueueTypes
      <2>3. pc # "gather"
          BY <2>2 DEF QueueInv
      <2>4. ~Leftover
          BY <2>1 DEF SnapInv
      <2> QED
          BY <1>1, <2>3, <2>4, GatherPlaces
  <1> QED
      BY <1>2, <1>3

\* Where a step's rows come from when its prediction is used.
LEMMA UsedRows ==
  ASSUME TypeOK, Places, GuessInv, pc \in {"verify", "steady"}
  PROVE  pred \in Values /\ pred.kind \in Kinds /\ rowsHost = Whole(step, pred.kind)
  <1>1. pred.step = step /\ \A t \in TableIds : rowsHost[t] = pred
      BY DEF Places, GuessInv, Trusting
  <1>2. pred \in Values
      BY DEF TypeOK
  <1>3. pred = [step |-> step, kind |-> pred.kind] /\ pred.kind \in Kinds
      BY <1>1, <1>2 DEF Values
  <1>4. rowsHost = [t \in TableIds |-> rowsHost[t]]
      BY DEF TypeOK
  <1>5. \A t \in TableIds : rowsHost[t] = [step |-> step, kind |-> pred.kind]
      BY <1>1, <1>3
  <1> QED
      BY <1>2, <1>3, <1>4, <1>5 DEF Whole

LEMMA FastStep ==
  ASSUME IInv, Next
  PROVE  FastInv'
  <1>0. TypeOK /\ Places /\ TasksInv /\ QueueInv /\ PredInv /\ SnapInv /\ GuessInv /\ FastInv
      BY DEF IInv
  <1>q. Len(mainQ) \in Nat /\ \A i \in 1 .. Len(mainQ) : mainQ[i].step \in StepIds
      BY <1>0, QueueTypes DEF MainOps
  <1>f. \A i \in 1 .. Len(mainQ) : mainQ[i].op = "h2d" =>
           mode'[mainQ[i].step] = mode[mainQ[i].step]
      BY <1>0, <1>q, ModeKept DEF QueueInv
  <1>1. pc' = "h2d" /\ mode'[step'] \in {"warm", "steady"} => \E k \in Kinds : rowsHost' = Whole(step', k)
      <2> SUFFICES ASSUME pc' = "h2d", mode'[step'] \in {"warm", "steady"}
                   PROVE  \E k \in Kinds : rowsHost' = Whole(step', k)
          OBVIOUS
      <2>1. CASE VerifyAccepts \/ Steady
          <3>1. pc \in {"verify", "steady"} /\ UNCHANGED <<step, rowsHost>>
              BY <2>1 DEF VerifyAccepts, Steady, host
          <3>2. pred.kind \in Kinds /\ rowsHost = Whole(step, pred.kind)
              BY <1>0, <3>1, UsedRows
          <3> QED
              BY <3>1, <3>2 DEF Whole
      <2>2. CASE ~(VerifyAccepts \/ Steady)
          <3>1. pc = "h2d" /\ UNCHANGED <<step, mode>>
              <4>1. CASE Main
                  BY <1>0, <2>2, <4>1 DEF Main, Prepare, TryStage, Join, VerifyRejects, StockHash,
                     StockSync, StockGathered, Upload, EnqueueUnarmed, EnqueueSkips, EnqueueSubmits,
                     NextStep, Places
              <4>2. CASE ~Main
                  BY <1>0, <4>2, OtherSteps DEF Next
              <4> QED
                  BY <4>1, <4>2
          <3>2. Fast(step)
              BY <3>1 DEF Fast
          <3>3. rowsHost' = rowsHost
              BY <1>0, <3>1, <3>2, RowsSteps, FastQuiet
          <3> QED
              BY <1>0, <3>1, <3>2, <3>3 DEF FastInv, Whole
      <2> QED
          BY <2>1, <2>2
  <1>2. \A i \in 1 .. Len(mainQ') : mainQ'[i].op = "h2d" /\ mode'[mainQ'[i].step] \in {"warm", "steady"} =>
           \E k \in Kinds : rowsHost' = Whole(mainQ'[i].step, k)
      <2> SUFFICES ASSUME NEW i \in 1 .. Len(mainQ'), mainQ'[i].op = "h2d",
                          mode'[mainQ'[i].step] \in {"warm", "steady"}
                   PROVE  \E k \in Kinds : rowsHost' = Whole(mainQ'[i].step, k)
          OBVIOUS
      <2>1. ASSUME NEW j \in 1 .. Len(mainQ), mainQ[j] = mainQ'[i]
            PROVE  \E k \in Kinds : rowsHost' = Whole(mainQ'[i].step, k)
          <3>1. mainQ[j].op = "h2d" /\ Fast(mainQ[j].step)
              BY <1>f, <2>1 DEF Fast
          <3>2. rowsHost' = rowsHost
              BY <1>0, <3>1, RowsSteps, FastQuiet
          <3> QED
              BY <1>0, <2>1, <3>1, <3>2 DEF FastInv
      <2>2. CASE Prepare \/ StockHash
          <3>1. PICK o \in {"prepare", "hash"} : MainAppended(o)
              BY <1>0, <2>2, MainQSteps
          <3>2. i \in 1 .. Len(mainQ)
              <4>1. mainQ'[Len(mainQ) + 1].op # "h2d" /\ Len(mainQ') = Len(mainQ) + 1
                  BY <3>1 DEF MainAppended
              <4> QED
                  BY <1>q, <4>1
          <3> QED
              BY <2>1, <3>1, <3>2 DEF MainAppended
      <2>3. CASE Upload
          <3>1. MainAppended("h2d") /\ pc = "h2d" /\ UNCHANGED <<mode, rowsHost>>
              BY <1>0, <2>3, MainQSteps DEF Upload, host
          <3>2. CASE i \in 1 .. Len(mainQ)
              BY <2>1, <3>1, <3>2 DEF MainAppended
          <3>3. CASE i = Len(mainQ) + 1
              <4>1. mainQ'[i].step = step
                  BY <3>1, <3>3 DEF MainAppended
              <4>2. Fast(step)
                  BY <3>1, <4>1 DEF Fast
              <4> QED
                  BY <1>0, <3>1, <4>1, <4>2 DEF FastInv
          <3> QED
              BY <1>q, <3>1, <3>2, <3>3 DEF MainAppended
      <2>4. CASE RunMain
          <3>1. i + 1 \in 1 .. Len(mainQ) /\ mainQ'[i] = mainQ[i + 1]
              BY <1>0, <1>q, <2>4, RunMainFacts
          <3> QED
              BY <2>1, <3>1
      <2>5. CASE ~(Prepare \/ StockHash \/ Upload \/ RunMain)
          <3>1. mainQ' = mainQ
              BY <1>0, <2>5, MainQSteps
          <3> QED
              BY <2>1, <3>1
      <2> QED
          BY <2>2, <2>3, <2>4, <2>5
  <1>3. \A s \in StepIds : Served(s)' /\ mode'[s] \in {"warm", "steady"} =>
           \E k \in Kinds : staged'[s] = Whole(s, k)
      <2> SUFFICES ASSUME NEW s \in StepIds, Served(s)', mode'[s] \in {"warm", "steady"}
                   PROVE  \E k \in Kinds : staged'[s] = Whole(s, k)
          OBVIOUS
      <2>1. CASE RunMain
          <3>1. /\ mainQ[1].step \in StepIds /\ mode' = mode /\ Len(mainQ) >= 1
                /\ staged' = IF mainQ[1].op = "h2d" THEN [staged EXCEPT ![mainQ[1].step] = rowsHost]
                                                    ELSE staged
              BY <1>0, <2>1, RunMainFacts
          <3>2. CASE mainQ[1].op = "h2d" /\ s = mainQ[1].step
              <4>1. staged'[s] = rowsHost /\ Fast(mainQ[1].step) /\ 1 \in 1 .. Len(mainQ)
                  BY <1>0, <1>q, <3>1, <3>2 DEF TypeOK, Fast
              <4> QED
                  BY <1>0, <3>2, <4>1 DEF FastInv
          <3>3. CASE ~(mainQ[1].op = "h2d" /\ s = mainQ[1].step)
              <4>1. staged'[s] = staged[s]
                  BY <1>0, <3>1, <3>3 DEF TypeOK
              <4> QED
                  BY <1>0, <3>1, <4>1 DEF FastInv, Served, Fast
          <3> QED
              BY <3>2, <3>3
      <2>2. CASE ~RunMain
          <3>1. staged' = staged
              BY <1>0, <2>2, StagedKept
          <3>2. mode'[s] = mode[s]
              BY <1>0, <3>1, ModeKept DEF QueueInv, Served
          <3> QED
              BY <1>0, <3>1, <3>2 DEF FastInv, Served, Fast
      <2> QED
          BY <2>1, <2>2
  <1> QED
      BY <1>1, <1>2, <1>3 DEF FastInv, Fast

\* Rows that an armed lever's stock path has queued, or is about to, are in
\* nobody's way.
LEMMA StockQuiet ==
  ASSUME TypeOK, Places, JobsInv, TasksInv, QueueInv, PredInv, SnapInv, ok, StageThread,
         pc = "h2d" \/ \E i \in 1 .. Len(mainQ) : mainQ[i].op = "h2d"
  PROVE  FALSE
  <1>1. PICK who \in 0 .. Steps, t \in TableIds : Gather(who, t)
      BY StageSteps
  <1>2. pc # "gather"
      <2>1. Len(mainQ) \in Nat
          BY QueueTypes
      <2> QED
          BY <2>1 DEF QueueInv
  <1>3. wpc = "gather"
      BY <1>1, <1>2, GatherPlaces
  <1>4. Predicting /\ Trusting
      BY <1>3, BusyPredicts DEF Trusting
  <1>5. pc # "h2d"
      BY <1>4, TrustingPlaces
  <1>6. PICK i \in 1 .. Len(mainQ) : mainQ[i].op = "h2d"
      BY <1>5
  <1>7. snapEv > sideDone /\ snapEv <= sideDone
      BY <1>3, <1>4, <1>6 DEF SnapInv
  <1> QED
      BY <1>7, GenTypes

\* Nor does a worker write hash_host or gather while the stock path does.
LEMMA StockAlone ==
  ASSUME TypeOK, Places, JobsInv, TasksInv, PredInv, ok, pc \in {"sync", "gather"}
  PROVE  wpc = "start" /\ ~WorkerWrites
         /\ \A who, t : Gather(who, t) => who = 0
  <1>1. wpc = "start"
      BY BusyPredicts, TrustingPlaces DEF Trusting
  <1>2. ~WorkerWrites
      BY <1>1 DEF WorkerWrites, Running
  <1> QED
      BY <1>1, <1>2, GatherPlaces

LEMMA StockStep ==
  ASSUME IInv, Next
  PROVE  StockInv'
  <1>0. /\ TypeOK /\ Places /\ JobsInv /\ TasksInv /\ QueueInv /\ PredInv /\ SnapInv
        /\ StockInv
      BY DEF IInv
  <1>q. Len(mainQ) \in Nat /\ \A i \in 1 .. Len(mainQ) : mainQ[i].step \in StepIds
      BY <1>0, QueueTypes DEF MainOps
  <1>f. \A i \in 1 .. Len(mainQ) : mainQ[i].op = "h2d" =>
           mode'[mainQ[i].step] = mode[mainQ[i].step]
      BY <1>0, <1>q, ModeKept DEF QueueInv
  <1> SUFFICES ASSUME ok'
               PROVE  /\ pc' = "sync" /\ mainQ' = << >> => hashHost' = Right(step')
                      /\ pc' = "gather" =>
                            /\ hashHost' = Right(step')
                            /\ \A t \in TableIds : <<0, t>> \in tasks' \/ rowsHost'[t] = Right(step')
                      /\ pc' = "h2d" /\ mode'[step'] \notin {"warm", "steady"} =>
                            rowsHost' = RightRows(step')
                      /\ \A i \in 1 .. Len(mainQ') :
                            mainQ'[i].op = "h2d" /\ mode'[mainQ'[i].step] \notin {"warm", "steady"}
                                => rowsHost' = RightRows(mainQ'[i].step)
      BY DEF StockInv, Fast, Right, RightRows
  <1>o. ok
      BY <1>0, TrustingSteps
  <1>1. pc' = "sync" /\ mainQ' = << >> => hashHost' = Right(step')
      <2> SUFFICES ASSUME pc' = "sync", mainQ' = << >> PROVE hashHost' = Right(step')
          OBVIOUS
      <2>1. ~StockHash
          BY <1>0, MainQSteps DEF MainAppended
      <2>2. pc = "sync" /\ step' = step
          <3>1. CASE Main
              BY <2>1, <3>1 DEF Main, Prepare, TryStage, Join, VerifyRejects, VerifyAccepts, Steady,
                 StockSync, StockGathered, Upload, EnqueueUnarmed, EnqueueSkips, EnqueueSubmits, NextStep
          <3>2. CASE ~Main
              BY <1>0, <3>2, OtherSteps DEF Next
          <3> QED
              BY <3>1, <3>2
      <2>3. ~WorkerWrites
          BY <1>0, <1>o, <2>2, StockAlone
      <2>4. CASE RunMain
          <3>1. /\ Len(mainQ') = Len(mainQ) - 1 /\ Len(mainQ) >= 1
                /\ hashHost' = IF mainQ[1].op = "hash" THEN Right(mainQ[1].step) ELSE hashHost
              BY <1>0, <2>4, RunMainFacts
          <3>2. Len(mainQ) = 1 /\ mainQ # << >>
              BY <1>q, <3>1
          <3>3. mainQ[Len(mainQ)] = [op |-> "hash", step |-> step]
              BY <1>0, <2>2, <3>2 DEF QueueInv
          <3>4. mainQ[1].op = "hash" /\ mainQ[1].step = step
              BY <3>2, <3>3
          <3> QED
              BY <2>2, <3>1, <3>4
      <2>5. CASE ~RunMain
          <3>1. ~(Prepare \/ StockHash \/ Upload)
              BY <2>2 DEF Prepare, StockHash, Upload
          <3>2. mainQ' = mainQ /\ hashHost' = hashHost
              BY <1>0, <2>3, <2>5, <3>1, MainQSteps, HashSteps
          <3> QED
              BY <1>0, <1>o, <2>2, <3>2 DEF StockInv
      <2> QED
          BY <2>4, <2>5
  <1>2. pc' = "gather" =>
          /\ hashHost' = Right(step')
          /\ \A t \in TableIds : <<0, t>> \in tasks' \/ rowsHost'[t] = Right(step')
      <2> SUFFICES ASSUME pc' = "gather"
                   PROVE  /\ hashHost' = Right(step')
                          /\ \A t \in TableIds : <<0, t>> \in tasks' \/ rowsHost'[t] = Right(step')
          OBVIOUS
      <2>1. CASE StockSync
          <3>1. UNCHANGED <<hashHost, step>> /\ pc = "sync" /\ mainQ = << >>
                /\ \A t \in TableIds : <<0, t>> \in tasks'
              BY <2>1 DEF StockSync, host
          <3> QED
              BY <1>0, <1>o, <3>1 DEF StockInv
      <2>2. CASE ~StockSync
          <3>1. pc = "gather" /\ step' = step /\ ~Main
              <4>1. ~Main
                  BY <2>2 DEF Main, Prepare, TryStage, Join, VerifyRejects, VerifyAccepts, Steady,
                     StockHash, StockGathered, Upload, EnqueueUnarmed, EnqueueSkips, EnqueueSubmits,
                     NextStep
              <4> QED
                  BY <1>0, <4>1, OtherSteps DEF Next
          <3>2. ~WorkerWrites /\ \A who, t : Gather(who, t) => who = 0
              BY <1>0, <1>o, <3>1, StockAlone
          <3>3. ~RunMain
              BY <1>0, <3>1 DEF QueueInv, RunMain
          <3>4. hashHost' = hashHost /\ hashHost = Right(step)
              BY <1>0, <1>o, <3>1, <3>2, <3>3, HashSteps DEF StockInv
          <3>5. \A t \in TableIds : <<0, t>> \in tasks \/ rowsHost[t] = Right(step)
              BY <1>0, <1>o, <3>1 DEF StockInv
          <3>6. CASE StageThread
              <4>1. PICK who \in 0 .. Steps, t \in TableIds : Gather(who, t)
                  BY <1>0, <3>6, StageSteps
              <4>2. who = 0
                  BY <3>2, <4>1
              <4>3. tasks' = tasks \ {<<0, t>>} /\ rowsHost' = [rowsHost EXCEPT ![t] = hashHost]
                  BY <4>1, <4>2 DEF Gather
              <4>4. ASSUME NEW u \in TableIds
                    PROVE  <<0, u>> \in tasks' \/ rowsHost'[u] = Right(step)
                  <5>1. CASE u = t
                      BY <1>0, <3>4, <4>3, <5>1 DEF TypeOK
                  <5>2. CASE u # t
                      BY <1>0, <3>5, <4>3, <5>2 DEF TypeOK
                  <5> QED
                      BY <5>1, <5>2
              <4> QED
                  BY <3>1, <3>4, <4>4
          <3>7. CASE ~StageThread
              <4>1. rowsHost' = rowsHost
                  BY <1>0, <3>7, RowsSteps
              <4>2. tasks' = tasks
                  <5>1. CASE Worker
                      BY <3>2, <5>1, WorkerSteps
                  <5>2. CASE RunSide
                      BY <5>2 DEF RunSide
                  <5> QED
                      BY <3>1, <3>3, <3>7, <5>1, <5>2 DEF Next
              <4> QED
                  BY <3>1, <3>4, <3>5, <4>1, <4>2
          <3> QED
              BY <3>6, <3>7
      <2> QED
          BY <2>1, <2>2
  <1>3. pc' = "h2d" /\ mode'[step'] \notin {"warm", "steady"} => rowsHost' = RightRows(step')
      <2> SUFFICES ASSUME pc' = "h2d", mode'[step'] \notin {"warm", "steady"}
                   PROVE  rowsHost' = RightRows(step')
          OBVIOUS
      <2>1. CASE StockGathered
          <3>1. /\ pc = "gather" /\ UNCHANGED <<step, rowsHost>>
                /\ \A t \in TableIds : <<0, t>> \notin tasks
              BY <2>1 DEF StockGathered, host
          <3>2. \A t \in TableIds : rowsHost[t] = Right(step)
              BY <1>0, <1>o, <3>1 DEF StockInv
          <3>3. rowsHost = [t \in TableIds |-> rowsHost[t]]
              BY <1>0 DEF TypeOK
          <3>4. rowsHost = RightRows(step)
              BY <3>2, <3>3 DEF Right, RightRows
          <3> QED
              BY <3>1, <3>4 DEF RightRows
      <2>2. CASE VerifyAccepts \/ Steady
          <3>1. step' = step /\ (ModeSet("warm") \/ ModeSet("steady"))
              <4>1. step' = step
                  BY <2>2 DEF VerifyAccepts, Steady
              <4>2. step \in StepIds /\ mode[step] = "none"
                  BY <1>0, <2>2, OwnModeUnset DEF VerifyAccepts, Steady
              <4> QED
                  BY <2>2, <4>1, <4>2 DEF VerifyAccepts, Steady, ModeSet
          <3> QED
              BY <1>0, <3>1 DEF ModeSet, TypeOK
      <2>3. CASE ~(StockGathered \/ VerifyAccepts \/ Steady)
          <3>1. pc = "h2d" /\ UNCHANGED <<step, mode>>
              <4>1. CASE Main
                  BY <2>3, <4>1 DEF Main, Prepare, TryStage, Join, VerifyRejects, StockHash,
                     StockSync, Upload, EnqueueUnarmed, EnqueueSkips, EnqueueSubmits, NextStep
              <4>2. CASE ~Main
                  BY <1>0, <4>2, OtherSteps DEF Next
              <4> QED
                  BY <4>1, <4>2
          <3>2. rowsHost' = rowsHost
              BY <1>0, <1>o, <3>1, RowsSteps, StockQuiet
          <3> QED
              BY <1>0, <1>o, <3>1, <3>2 DEF StockInv, Fast, RightRows
      <2> QED
          BY <2>1, <2>2, <2>3
  <1>4. ASSUME NEW i \in 1 .. Len(mainQ'), mainQ'[i].op = "h2d",
               mode'[mainQ'[i].step] \notin {"warm", "steady"}
        PROVE  rowsHost' = RightRows(mainQ'[i].step)
      <2>1. ASSUME NEW j \in 1 .. Len(mainQ), mainQ[j] = mainQ'[i]
            PROVE  rowsHost' = RightRows(mainQ'[i].step)
          <3>1. mainQ[j].op = "h2d" /\ ~Fast(mainQ[j].step)
              BY <1>f, <1>4, <2>1 DEF Fast
          <3>2. rowsHost' = rowsHost
              BY <1>0, <1>o, <3>1, RowsSteps, StockQuiet
          <3>3. rowsHost = RightRows(mainQ[j].step)
              BY <1>0, <1>o, <3>1 DEF StockInv
          <3> QED
              BY <2>1, <3>2, <3>3
      <2>2. CASE Prepare \/ StockHash
          <3>1. PICK o \in {"prepare", "hash"} : MainAppended(o)
              BY <1>0, <2>2, MainQSteps
          <3>2. i \in 1 .. Len(mainQ)
              <4>1. mainQ'[Len(mainQ) + 1].op # "h2d" /\ Len(mainQ') = Len(mainQ) + 1
                  BY <3>1 DEF MainAppended
              <4> QED
                  BY <1>q, <1>4, <4>1
          <3> QED
              BY <2>1, <3>1, <3>2 DEF MainAppended
      <2>3. CASE Upload
          <3>1. MainAppended("h2d") /\ pc = "h2d" /\ UNCHANGED <<mode, rowsHost>>
              BY <1>0, <2>3, MainQSteps DEF Upload, host
          <3>2. CASE i \in 1 .. Len(mainQ)
              BY <2>1, <3>1, <3>2 DEF MainAppended
          <3>3. CASE i = Len(mainQ) + 1
              <4>1. mainQ'[i].step = step
                  BY <3>1, <3>3 DEF MainAppended
              <4>2. ~Fast(step)
                  BY <1>4, <3>1, <4>1 DEF Fast
              <4> QED
                  BY <1>0, <1>o, <3>1, <4>1, <4>2 DEF StockInv
          <3> QED
              BY <1>q, <3>1, <3>2, <3>3 DEF MainAppended
      <2>4. CASE RunMain
          <3>1. i + 1 \in 1 .. Len(mainQ) /\ mainQ'[i] = mainQ[i + 1]
              BY <1>0, <1>q, <2>4, RunMainFacts
          <3> QED
              BY <2>1, <3>1
      <2>5. CASE ~(Prepare \/ StockHash \/ Upload \/ RunMain)
          <3>1. mainQ' = mainQ
              BY <1>0, <2>5, MainQSteps
          <3> QED
              BY <2>1, <3>1
      <2> QED
          BY <2>2, <2>3, <2>4, <2>5
  <1> QED
      BY <1>1, <1>2, <1>3, <1>4

------------------------------------------------------------------------------
(* What the canary bounds.                                                  *)

\* A step goes wrong when it is served a wrong prediction, and by nothing else.
LEMMA WrongSteps ==
  ASSUME IInv, Next, NEW s \in StepIds, Wrong(s)'
  PROVE  Wrong(s) \/ (Steady /\ s = step /\ pred.kind # "right")
  <1>0. TypeOK /\ Places /\ TasksInv /\ QueueInv /\ PredInv /\ SnapInv /\ GuessInv
      BY DEF IInv
  <1>w. /\ mode'[s] = "steady"
        /\ \/ Served(s)' /\ staged'[s] # RightRows(s)
           \/ rowsHost' # RightRows(s) /\ pc' = "h2d" /\ s = step'
           \/ rowsHost' # RightRows(s) /\ \E i \in 1 .. Len(mainQ') : mainQ'[i] = [op |-> "h2d", step |-> s]
      BY DEF Wrong, RightRows
  <1>q. Len(mainQ) \in Nat
      BY <1>0, QueueTypes
  <1>1. mode[s] = "steady" \/ (Steady /\ s = step /\ mode[s] = "none")
      BY <1>0, <1>w, ModeSteps DEF ModeSet, TypeOK
  <1>2. CASE Steady /\ s = step /\ mode[s] = "none"
      <2>1. rowsHost = Whole(step, pred.kind)
          BY <1>0, <1>2, UsedRows DEF Steady
      <2>2. UNCHANGED <<mainQ, staged, rowsHost>>
          BY <1>2 DEF Steady, host
      <2>3. ~Served(s)' /\ \A i \in 1 .. Len(mainQ) : mainQ[i] # [op |-> "h2d", step |-> s]
          BY <1>0, <1>2, <2>2 DEF QueueInv, Served
      <2>4. rowsHost # RightRows(s)
          BY <1>w, <2>2, <2>3
      <2> QED
          BY <1>2, <2>1, <2>4 DEF Whole, RightRows
  <1>3. CASE mode[s] = "steady"
      <2>f. Fast(s)
          BY <1>3 DEF Fast
      <2>1. CASE Served(s)' /\ staged'[s] # RightRows(s)
          <3>1. CASE RunMain
              <4>1. /\ mainQ[1].step \in StepIds /\ Len(mainQ) >= 1 /\ mainQ[1] \in MainOps
                    /\ staged' = IF mainQ[1].op = "h2d" THEN [staged EXCEPT ![mainQ[1].step] = rowsHost]
                                                        ELSE staged
                  BY <1>0, <3>1, RunMainFacts
              <4>2. CASE mainQ[1].op = "h2d" /\ s = mainQ[1].step
                  <5>1. mainQ[1] = [op |-> "h2d", step |-> s] /\ 1 \in 1 .. Len(mainQ)
                      BY <1>q, <4>1, <4>2 DEF MainOps
                  <5>2. staged'[s] = rowsHost
                      BY <1>0, <4>1, <4>2 DEF TypeOK
                  <5> QED
                      BY <1>3, <2>1, <5>1, <5>2 DEF Wrong
              <4>3. CASE ~(mainQ[1].op = "h2d" /\ s = mainQ[1].step)
                  <5>1. staged'[s] = staged[s]
                      BY <1>0, <4>1, <4>3 DEF TypeOK
                  <5> QED
                      BY <1>3, <2>1, <5>1 DEF Wrong, Served
              <4> QED
                  BY <4>2, <4>3
          <3>2. CASE ~RunMain
              <4>1. staged' = staged
                  BY <1>0, <3>2, StagedKept
              <4> QED
                  BY <1>3, <2>1, <4>1 DEF Wrong, Served
          <3> QED
              BY <3>1, <3>2
      <2>2. CASE rowsHost' # RightRows(s) /\ pc' = "h2d" /\ s = step'
          <3>1. pc = "h2d" /\ step' = step
              <4>1. CASE Main
                  <5>1. CASE VerifyAccepts \/ Steady \/ StockGathered
                      <6>1. step' = step
                          BY <5>1 DEF VerifyAccepts, Steady, StockGathered
                      <6>2. mode[step] # "steady"
                          BY <1>0, <5>1, OwnModeUnset DEF VerifyAccepts, Steady, StockGathered, Places
                      <6> QED
                          BY <1>3, <2>2, <6>1, <6>2
                  <5>2. CASE ~(VerifyAccepts \/ Steady \/ StockGathered)
                      BY <2>2, <4>1, <5>2 DEF Main, Prepare, TryStage, Join, VerifyRejects, StockHash,
                         StockSync, Upload, EnqueueUnarmed, EnqueueSkips, EnqueueSubmits, NextStep
                  <5> QED
                      BY <5>1, <5>2
              <4>2. CASE ~Main
                  BY <1>0, <2>2, <4>2, OtherSteps DEF Next
              <4> QED
                  BY <4>1, <4>2
          <3>2. rowsHost' = rowsHost
              BY <1>0, <2>2, <2>f, <3>1, RowsSteps, FastQuiet
          <3> QED
              BY <1>3, <2>2, <3>1, <3>2 DEF Wrong
      <2>3. CASE rowsHost' # RightRows(s)
                 /\ \E i \in 1 .. Len(mainQ') : mainQ'[i] = [op |-> "h2d", step |-> s]
          <3>1. PICK i \in 1 .. Len(mainQ') : mainQ'[i] = [op |-> "h2d", step |-> s]
              BY <2>3
          <3>2. ASSUME NEW j \in 1 .. Len(mainQ), mainQ[j] = mainQ'[i]
                PROVE  Wrong(s)
              <4>1. mainQ[j] = [op |-> "h2d", step |-> s]
                  BY <3>1, <3>2
              <4>2. mainQ[j].op = "h2d" /\ mainQ[j].step = s
                  BY <4>1
              <4>3. rowsHost' = rowsHost
                  BY <1>0, <2>f, <4>2, RowsSteps, FastQuiet
              <4> QED
                  BY <1>3, <2>3, <4>1, <4>3 DEF Wrong
          <3>3. CASE Prepare \/ StockHash
              <4>1. PICK o \in {"prepare", "hash"} : MainAppended(o)
                  BY <1>0, <3>3, MainQSteps
              <4>2. i \in 1 .. Len(mainQ)
                  <5>1. mainQ'[Len(mainQ) + 1].op # "h2d" /\ Len(mainQ') = Len(mainQ) + 1
                      BY <4>1 DEF MainAppended
                  <5>2. mainQ'[i].op = "h2d"
                      BY <3>1
                  <5> QED
                      BY <1>q, <5>1, <5>2
              <4> QED
                  BY <3>2, <4>1, <4>2 DEF MainAppended
          <3>4. CASE Upload
              <4>1. MainAppended("h2d") /\ pc = "h2d" /\ rowsHost' = rowsHost
                  BY <1>0, <3>4, MainQSteps DEF Upload, host
              <4>2. CASE i \in 1 .. Len(mainQ)
                  BY <3>2, <4>1, <4>2 DEF MainAppended
              <4>3. CASE i = Len(mainQ) + 1
                  <5>1. mainQ'[i] = [op |-> "h2d", step |-> step]
                      BY <4>1, <4>3 DEF MainAppended
                  <5>2. s = step
                      <6>1. mainQ'[i].step = step /\ mainQ'[i].step = s
                          BY <3>1, <5>1
                      <6> QED
                          BY <6>1
                  <5> QED
                      BY <1>3, <2>3, <4>1, <5>2 DEF Wrong
              <4> QED
                  BY <1>q, <4>1, <4>2, <4>3 DEF MainAppended
          <3>5. CASE RunMain
              <4>1. i + 1 \in 1 .. Len(mainQ) /\ mainQ'[i] = mainQ[i + 1]
                  BY <1>0, <1>q, <3>5, RunMainFacts
              <4> QED
                  BY <3>2, <4>1
          <3>6. CASE ~(Prepare \/ StockHash \/ Upload \/ RunMain)
              <4>1. mainQ' = mainQ
                  BY <1>0, <3>6, MainQSteps
              <4> QED
                  BY <3>2, <4>1
          <3> QED
              BY <3>3, <3>4, <3>5, <3>6
      <2> QED
          BY <1>w, <2>1, <2>2, <2>3
  <1> QED
      BY <1>1, <1>2, <1>3

CanaryQueued(s) ==
    \E i \in 1 .. Len(jobs) : jobs[i].type = "canary" /\ jobs[i].step = s /\ jobs[i].kind # "right"

\* A wrong step's canary leaves the queue by disarming the lever.
LEMMA CanaryKept ==
  ASSUME TypeOK, Places, JobsInv, Next, ok', NEW s \in StepIds, CanaryQueued(s)
  PROVE  CanaryQueued(s)'
  <1>1. PICK i \in 1 .. Len(jobs) :
           jobs[i].type = "canary" /\ jobs[i].step = s /\ jobs[i].kind # "right"
      BY DEF CanaryQueued
  <1>t. Len(jobs) \in Nat /\ jobs # << >>
      BY <1>1, QueueTypes
  <1>2. CASE MainKeepsJobs
      BY <1>1, <1>2, MainKeeps DEF CanaryQueued
  <1>3. CASE Steady
      BY <1>3, <1>t, SteadyFacts
  <1>4. CASE EnqueueSubmits
      <2>1. Len(jobs') = Len(jobs) + 1 /\ jobs'[i] = jobs[i]
          BY <1>4, SubmitFacts
      <2>2. i \in 1 .. Len(jobs')
          BY <1>t, <2>1
      <2> QED
          BY <1>1, <2>1, <2>2 DEF CanaryQueued
  <1>5. CASE Worker
      <2>1. CASE JobDone
          <3>1. /\ Len(jobs') = Len(jobs) - 1
                /\ \A j \in 1 .. Len(jobs') : jobs'[j] = jobs[j + 1]
                /\ Job.type = "predict" => jobs = <<Job>>
              BY <1>t, <2>1, JobDoneFacts
          <3>2. i # 1
              <4> SUFFICES ASSUME i = 1 PROVE FALSE
                  OBVIOUS
              <4>1. Job.type = "canary" /\ Job.kind # "right"
                  BY <1>1 DEF Job
              <4>2. Canary
                  BY <1>5, <2>1, <4>1, WorkerJobs
              <4> QED
                  BY <4>1, <4>2 DEF Canary
          <3>3. i - 1 \in 1 .. Len(jobs') /\ (i - 1) + 1 = i
              BY <1>t, <3>1, <3>2
          <3>4. jobs'[i - 1] = jobs[i]
              BY <3>1, <3>3
          <3> QED
              BY <1>1, <3>3, <3>4 DEF CanaryQueued
      <2>2. CASE jobs' = jobs
          BY <1>1, <2>2 DEF CanaryQueued
      <2> QED
          BY <1>5, <2>1, <2>2, WorkerSteps DEF JobSteps
  <1>6. CASE StageThread
      BY <1>1, <1>6, StageSteps, GatherSteps DEF CanaryQueued
  <1>7. CASE RunMain \/ RunSide
      <2>1. jobs' = jobs
          BY <1>7 DEF RunMain, RunSide, work
      <2> QED
          BY <1>1, <2>1 DEF CanaryQueued
  <1> QED
      BY <1>2, <1>3, <1>4, <1>5, <1>6, <1>7 DEF Next, Main, MainKeepsJobs

LEMMA CanaryStep ==
  ASSUME IInv, Next
  PROVE  CanaryInv'
  <1>0. TypeOK /\ Places /\ JobsInv /\ CanaryInv
      BY DEF IInv
  <1>o. (ok' => ok) /\ (Trusting' => Trusting)
      BY <1>0, TrustingSteps
  <1> SUFFICES ASSUME NEW s \in StepIds, Wrong(s)'
               PROVE  /\ ok' => CanaryQueued(s)'
                      /\ Later(s)' = {} \/ (~Trusting' /\ \E u \in StepIds : Later(s)' = {u})
      BY DEF CanaryInv, CanaryQueued
  <1>t. StepIds \subseteq Nat /\ step \in Nat
      BY <1>0, GenTypes
  <1>1. CASE Steady /\ s = step /\ pred.kind # "right"
      <2>1. CanaryQueued(s)'
          <3>1. /\ Len(jobs') = 1
                /\ jobs'[1] = [type |-> "canary", gen |-> 0, step |-> step, kind |-> pred.kind]
              BY <1>0, <1>1, SteadyFacts
          <3>2. 1 \in 1 .. Len(jobs') /\ jobs'[1].type = "canary" /\ jobs'[1].step = s
                /\ jobs'[1].kind # "right"
              BY <1>1, <3>1
          <3> QED
              BY <3>2 DEF CanaryQueued
      <2>2. Later(s)' = {}
          <3>1. ASSUME NEW u \in StepIds, u > s PROVE mode'[u] = "none"
              <4>1. mode[u] = "none"
                  BY <1>0, <1>1, <1>t, <3>1 DEF Places
              <4>2. mode'[u] = mode[u]
                  BY <1>0, <1>1, <1>t, <3>1 DEF Steady, TypeOK
              <4> QED
                  BY <4>1, <4>2
          <3> QED
              BY <3>1 DEF Later, Fast
      <2> QED
          BY <2>1, <2>2
  <1>2. CASE Wrong(s)
      <2>1. /\ ok => CanaryQueued(s)
            /\ Later(s) = {} \/ (~Trusting /\ \E u \in StepIds : Later(s) = {u})
          BY <1>0, <1>2 DEF CanaryInv, CanaryQueued
      <2>2. ok' => CanaryQueued(s)'
          BY <1>0, <1>o, <2>1, CanaryKept
      <2>3. CASE VerifyAccepts \/ Steady
          <3>1. pc \in {"verify", "steady"} /\ pc' = "h2d" /\ jobs = << >>
              BY <1>0, <2>3 DEF VerifyAccepts, Steady, Places
          <3>2. ~ok /\ ~ok'
              BY <1>o, <2>1, <3>1, EmptySeq DEF CanaryQueued
          <3>3. ~Trusting' /\ Later(s) = {}
              BY <2>1, <3>1, <3>2 DEF Trusting
          <3>4. step \in StepIds /\ Later(s)' \subseteq Later(s) \cup {step}
              <4>1. step \in StepIds /\ \A u \in StepIds \ {step} : mode'[u] = mode[u]
                  BY <1>0, <2>3, OwnModeUnset DEF VerifyAccepts, Steady, TypeOK
              <4> QED
                  BY <4>1 DEF Later, Fast
          <3> QED
              BY <2>2, <3>3, <3>4
      <2>4. CASE ~(VerifyAccepts \/ Steady)
          <3>1. \A u \in StepIds : mode'[u] \in {"warm", "steady"} <=> mode[u] \in {"warm", "steady"}
              BY <1>0, <2>4, ModeSteps DEF ModeSet, TypeOK
          <3>2. Later(s)' = Later(s)
              BY <3>1 DEF Later, Fast
          <3> QED
              BY <1>o, <2>1, <2>2, <3>2
      <2> QED
          BY <2>3, <2>4
  <1> QED
      BY <1>1, <1>2, WrongSteps

------------------------------------------------------------------------------
LEMMA IInvInductive == IInv /\ [Next]_vars => IInv'
  <1> SUFFICES ASSUME IInv, [Next]_vars PROVE IInv'
      OBVIOUS
  <1>1. CASE Next
      BY <1>1, TypeStep, PlacesStep, JobsStep, TasksStep, QueueStep, PredStep, SnapStep, GuessStep,
         FastStep, StockStep, CanaryStep DEF IInv
  <1>2. CASE UNCHANGED vars
      <2> USE <1>2 DEF vars, lever, work, gpu, host, IInv
      <2>1. TypeOK' /\ Places' /\ JobsInv' /\ TasksInv'
          BY DEF TypeOK, Places, JobsInv, TasksInv, Job
      <2>2. QueueInv' /\ PredInv' /\ SnapInv'
          BY DEF QueueInv, PredInv, SnapInv, Served, Predicting, Leftover, Fast
      <2>3. GuessInv' /\ FastInv' /\ StockInv'
          BY DEF GuessInv, FastInv, StockInv, Served, Predicting, Trusting, Fast, Job
      <2>4. CanaryInv'
          BY DEF CanaryInv, Wrong, Later, Served, Trusting, Fast
      <2> QED
          BY <2>1, <2>2, <2>3, <2>4
  <1> QED
      BY <1>1, <1>2

THEOREM InvCorrect == Spec => []IInv
  <1> QED
      BY InitInv, IInvInductive, PTL DEF Spec

\* Every reachable state is well typed.
THEOREM TypeCorrect == Spec => []TypeOK
  <1>1. IInv => TypeOK
      BY DEF IInv
  <1> QED
      BY <1>1, InvCorrect, PTL

\* A step that hashes nothing on the GPU copies one whole prediction of itself
\* (_ch_try_stage, _ch_worker).
THEOREM FastServesCorrect == Spec => []FastServesOnePrediction
  <1>1. IInv => FastServesOnePrediction
      BY DEF IInv, FastInv, FastServesOnePrediction, Whole
  <1> QED
      BY <1>1, InvCorrect, PTL

\* While the lever is armed, rows_host does not change under a queued copy (the
\* worker's wait for snap_ev, stage()'s wait for the hash).
THEOREM RowsInFlightCorrect == Spec => []RowsInFlight
  <1>1. IInv => RowsInFlight
      <2> SUFFICES ASSUME IInv PROVE RowsInFlight
          OBVIOUS
      <2>1. FastInv /\ StockInv /\ DOMAIN mainQ = 1 .. Len(mainQ)
          BY QueueTypes DEF IInv
      <2> SUFFICES ASSUME ok, NEW i \in 1 .. Len(mainQ), mainQ[i].op = "h2d"
                   PROVE  IF Fast(mainQ[i].step)
                          THEN \A t \in TableIds : rowsHost[t].step = mainQ[i].step
                          ELSE rowsHost = RightRows(mainQ[i].step)
          BY <2>1 DEF RowsInFlight
      <2>2. CASE Fast(mainQ[i].step)
          <3>1. PICK k \in Kinds : rowsHost = Whole(mainQ[i].step, k)
              BY <2>1, <2>2 DEF FastInv
          <3> QED
              BY <2>2, <3>1 DEF Whole
      <2>3. CASE ~Fast(mainQ[i].step)
          BY <2>1, <2>3 DEF StockInv
      <2> QED
          BY <2>2, <2>3
  <1> QED
      BY <1>1, InvCorrect, PTL

\* No worker writes while gathers of an older one remain (_ch_worker).
THEOREM NewerWorkerAloneCorrect == Spec => []NewerWorkerAlone
  <1>1. IInv => NewerWorkerAlone
      <2> SUFFICES ASSUME IInv PROVE NewerWorkerAlone
          OBVIOUS
      <2>1. TypeOK /\ JobsInv /\ TasksInv
          BY DEF IInv
      <2>2. wpc # "start" => Job.gen = gen
          BY <2>1, BusyPredicts
      <2> QED
          BY <2>1, <2>2 DEF TasksInv, NewerWorkerAlone
  <1> QED
      BY <1>1, InvCorrect, PTL

\* After a step that served a wrong prediction at most one more step is served
\* without the GPU's hash (_ch_canary).
THEOREM OneMoreAtMostCorrect == Spec => []OneMoreAtMost
  <1>1. IInv => OneMoreAtMost
      <2> SUFFICES ASSUME IInv, NEW s \in StepIds,
                          mode[s] = "steady", Served(s), staged[s] # RightRows(s)
                   PROVE  Cardinality(Later(s)) <= 1
          BY DEF OneMoreAtMost, Later
      <2>1. Later(s) = {} \/ \E u \in StepIds : Later(s) = {u}
          BY DEF IInv, CanaryInv, Wrong
      <2>2. Cardinality({}) = 0 /\ \A u \in StepIds : Cardinality({u}) = 1
          BY FS_EmptySet, FS_Singleton
      <2> QED
          BY <2>1, <2>2
  <1> QED
      BY <1>1, InvCorrect, PTL
==============================================================================
