-------------------------- MODULE EngramDeferProofs --------------------------
(***************************************************************************)
(* Proofs about EngramDefer, for any set of requests, number of steps and  *)
(* verification budget: the rows a step uses are those of one whole        *)
(* prediction, the newest one, and none is used before the budget of       *)
(* verified predictions is spent.                                          *)
(***************************************************************************)
EXTENDS EngramDefer, SequenceTheorems, FiniteSetTheorems, TLAPS

MainOps == [op : {"prepare", "dtod", "forward"}, step : StepIds]
SideOps == [op : {"snapshot", "h2d"}, gen : Gens, slot : {0, 1}, after : Nat]
JobRecs == [gen : Gens, slot : {0, 1}, req : SUBSET Reqs]

\* Where the main thread is in the step.
Places ==
    /\ gen < step
    /\ pc # "prepare" => step <= Steps
    /\ \A s \in StepIds : mode[s] # "none" =>
          s < step \/ (s = step /\ pc \in {"forward", "hook", "submit"})
    /\ pc \in {"join", "apply"} =>
          mainQ = << >> /\ ready.gen = gen /\ pending = gen /\ gen > 0

Proved == {t \in StepIds : mode[t] = "verified"}
Refuted == \E t \in StepIds : mode[t] = "refuted"

\* While a prediction may still be used, each of the warm ones proved right.
WarmInv ==
    /\ armed \/ pc \in {"join", "apply"} => ~Refuted /\ Cardinality(Proved) >= warm
    /\ pc = "apply" => warm >= WarmN

\* The worker's jobs are newer than what it returned, in order, and the record
\* is of a returned job, or of the one about to return.
JobsInv ==
    /\ doneGen <= gen
    /\ \A i \in 1 .. Len(jobs) : doneGen < jobs[i].gen /\ jobs[i].gen <= gen
    /\ \A i, j \in 1 .. Len(jobs) : i < j => jobs[i].gen < jobs[j].gen
    /\ wpc # "wait" => jobs # << >>
    /\ \/ ready.gen <= doneGen
       \/ wpc = "return" /\ ready.gen = Job.gen /\ ready.slot = Job.slot

\* The newest generation is the pending one: no hook has snapshotted since.
Current == pending = gen /\ gen > 0 /\ pc # "submit"

\* The last snapshot is of generation g, queued still or in pinned memory.
Snapped(g) ==
    IF snapEv > sideDone
    THEN sideQ[snapEv - sideDone].op = "snapshot" /\ sideQ[snapEv - sideDone].gen = g
    ELSE pins.gen = g

SnapInv ==
    /\ snapEv <= sideDone + Len(sideQ)
    /\ \A i \in 1 .. Len(sideQ) : sideQ[i].op = "snapshot" => sideDone + i <= snapEv
    /\ Current => Snapped(gen)
    /\ pc = "submit" => Snapped(gen + 1)

\* The slot holds the newest generation, and the last upload is of that slot:
\* queued still, or on the device.
Uploaded(i) ==
    /\ pinRows[i].gen = gen
    /\ IF h2dEv > sideDone
       THEN sideQ[h2dEv - sideDone].op = "h2d" /\ sideQ[h2dEv - sideDone].slot = i
       ELSE devRows.gen = gen

UploadInv ==
    /\ h2dEv <= sideDone + Len(sideQ)
    /\ \A i \in 1 .. Len(sideQ) : sideQ[i].op = "h2d" => sideDone + i <= h2dEv

\* How far the worker has carried the newest generation.
WorkInv ==
    Current =>
        /\ jobs # << >> /\ Job.gen = gen =>
              /\ wpc = "read" => guess = pins /\ guess.gen = gen /\ sideDone >= snapEv
              /\ wpc = "gather" => guess.gen = gen
              /\ wpc = "upload" => pinRows[Job.slot].gen = gen
              /\ wpc \in {"publish", "return"} => Uploaded(Job.slot)
        /\ ready.gen = gen => Uploaded(ready.slot)

\* A DtoD copy that has yet to run finds the rows its step uses, and every
\* queued upload waits for it.
CopyInv ==
    \A i \in 1 .. Len(mainQ) : mainQ[i].op = "dtod" =>
        /\ devRows.gen = used[mainQ[i].step]
        /\ \A j \in 1 .. Len(sideQ) : sideQ[j].op = "h2d" => sideQ[j].after >= mainDone + i

\* The rows of a step whose copy has run.
StagedInv == \A s \in StepIds : Copied(s) => staged[s].gen = used[s]

\* Every hook since the one whose rows a step used was of that step or later.
NewestInv ==
    \A s \in StepIds : mode[s] = "used" => \A g \in (used[s] + 1) .. gen : hookOf[g] >= s

IInv ==
    /\ TypeOK /\ Places /\ WarmInv /\ JobsInv
    /\ SnapInv /\ UploadInv /\ WorkInv /\ CopyInv
    /\ StagedInv /\ NewestInv /\ VerifiedFirst

LEMMA InitInv == Init => IInv
  <1> SUFFICES ASSUME Init PROVE IInv
      OBVIOUS
  <1> USE DeferAssumption
  <1>1. None \in Data /\ NotReady \in JobRecs /\ 0 \in Gens /\ Steps \in Nat \ {0}
      BY DEF None, NotReady, Data, Gens, JobRecs
  <1>2. TypeOK
      <2>1. pinRows \in [{0, 1} -> Data] /\ staged \in [StepIds -> Data]
          BY <1>1 DEF Init
      <2>2. /\ mode \in [StepIds -> {"none", "sync", "verified", "refuted", "used"}]
            /\ used \in [StepIds -> Gens] /\ hookOf \in [StepIds -> Gens]
          BY <1>1 DEF Init
      <2>3. /\ step \in 1 .. (Steps + 1) /\ warm \in 0 .. WarmN
            /\ gen \in Gens /\ pending \in Gens /\ seen \in Gens /\ doneGen \in Gens
            /\ {mainDone, sideDone, snapEv, h2dEv} \subseteq Nat
            /\ {devIn, devOut} \subseteq Gens
            /\ {guess, pins, devRows} \subseteq Data
            /\ slot \in {0, 1}
          BY <1>1 DEF Init
      <2>4. ready \in [gen : Gens, slot : {0, 1}, req : SUBSET Reqs]
          BY <1>1 DEF Init, JobRecs
      <2>5. /\ pc \in {"prepare", "stage", "join", "apply", "forward", "hook", "submit"}
            /\ wpc \in {"wait", "read", "gather", "upload", "publish", "return"}
            /\ live \subseteq Reqs /\ done \subseteq Reqs /\ live \cap done = {}
            /\ prefill \in BOOLEAN /\ armed \in BOOLEAN
          BY DEF Init
      <2>6. jobs \in Seq([gen : Gens, slot : {0, 1}, req : SUBSET Reqs])
          BY DEF Init
      <2>7. mainQ \in Seq([op : {"prepare", "dtod", "forward"}, step : StepIds])
          BY DEF Init
      <2>8. sideQ \in Seq([op : {"snapshot", "h2d"}, gen : Gens, slot : {0, 1}, after : Nat])
          BY DEF Init
      <2> QED
          BY <2>1, <2>2, <2>3, <2>4, <2>5, <2>6, <2>7, <2>8 DEF TypeOK
  <1>3. Places /\ JobsInv
      BY DEF Init, Places, JobsInv, NotReady
  <1>4. WarmInv
      <2>1. IsFiniteSet(Proved) /\ Cardinality(Proved) \in Nat
          <3>1. Proved = {}
              BY DEF Init, Proved
          <3> QED
              BY <3>1, FS_EmptySet
      <2> QED
          BY <2>1 DEF Init, WarmInv, Refuted
  <1>5. SnapInv /\ UploadInv /\ WorkInv /\ CopyInv
      BY DEF Init, SnapInv, UploadInv, WorkInv, CopyInv, Current
  <1>6. StagedInv /\ NewestInv /\ VerifiedFirst
      BY DEF Init, StagedInv, NewestInv, VerifiedFirst, Copied
  <1> QED
      BY <1>2, <1>3, <1>4, <1>5, <1>6 DEF IInv

------------------------------------------------------------------------------
(* Queues.                                                                  *)

LEMMA QueueTail ==
  ASSUME NEW S, NEW q \in Seq(S), q # << >>
  PROVE  /\ q[1] = Head(q) /\ q[1] \in S
         /\ Len(q) \in Nat /\ Len(q) >= 1
         /\ Tail(q) \in Seq(S)
         /\ Len(Tail(q)) = Len(q) - 1
         /\ \A i \in 1 .. Len(Tail(q)) : Tail(q)[i] = q[i + 1]
  <1>1. Len(q) \in Nat \ {0}
      BY EmptySeq
  <1>2. q[1] \in S
      BY <1>1, ElementOfSeq
  <1> QED
      BY <1>1, <1>2, HeadTailProperties

LEMMA QueueTypes ==
  ASSUME TypeOK
  PROVE  /\ mainQ \in Seq(MainOps) /\ Len(mainQ) \in Nat
         /\ \A i \in 1 .. Len(mainQ) : mainQ[i] \in MainOps
         /\ sideQ \in Seq(SideOps) /\ Len(sideQ) \in Nat
         /\ \A i \in 1 .. Len(sideQ) : sideQ[i] \in SideOps
         /\ jobs \in Seq(JobRecs) /\ Len(jobs) \in Nat
         /\ \A i \in 1 .. Len(jobs) : jobs[i] \in JobRecs
         /\ mainDone \in Nat /\ sideDone \in Nat /\ snapEv \in Nat /\ h2dEv \in Nat
  <1>1. mainQ \in Seq(MainOps) /\ sideQ \in Seq(SideOps) /\ jobs \in Seq(JobRecs)
      BY DEF TypeOK, MainOps, SideOps, JobRecs
  <1> QED
      BY <1>1, ElementOfSeq, LenProperties DEF TypeOK

LEMMA MainQueued ==
  ASSUME TypeOK, step \in StepIds, NEW o \in {"prepare", "dtod", "forward"}, OnMain(o)
  PROVE  /\ mainQ' \in Seq(MainOps)
         /\ Len(mainQ') = Len(mainQ) + 1
         /\ \A i \in 1 .. Len(mainQ) : mainQ'[i] = mainQ[i]
         /\ mainQ'[Len(mainQ) + 1] = [op |-> o, step |-> step]
  BY QueueTypes, AppendProperties DEF OnMain, MainOps

LEMMA SideQueued ==
  ASSUME TypeOK, NEW o \in {"snapshot", "h2d"}, NEW g \in Gens, NEW s \in {0, 1}, OnSide(o, g, s)
  PROVE  /\ sideQ' \in Seq(SideOps)
         /\ Len(sideQ') = Len(sideQ) + 1
         /\ \A i \in 1 .. Len(sideQ) : sideQ'[i] = sideQ[i]
         /\ sideQ'[Len(sideQ) + 1]
               = [op |-> o, gen |-> g, slot |-> s, after |-> mainDone + Len(mainQ)]
  <1>1. [op |-> o, gen |-> g, slot |-> s, after |-> mainDone + Len(mainQ)] \in SideOps
      BY QueueTypes DEF SideOps
  <1> QED
      BY <1>1, QueueTypes, AppendProperties DEF OnSide, MainIssued

\* The job that is returned is the first; the others move up.
LEMMA JobFacts ==
  ASSUME TypeOK, jobs # << >>
  PROVE  /\ Job \in JobRecs /\ Job.gen \in Gens /\ Job.slot \in {0, 1} /\ Job.req \subseteq Reqs
         /\ Len(jobs) \in Nat /\ Len(jobs) >= 1
         /\ Tail(jobs) \in Seq(JobRecs)
         /\ Len(Tail(jobs)) = Len(jobs) - 1
         /\ \A i \in 1 .. Len(Tail(jobs)) : Tail(jobs)[i] = jobs[i + 1]
  <1>1. jobs \in Seq(JobRecs)
      BY QueueTypes
  <1>2. Job \in JobRecs
      BY <1>1, QueueTail DEF Job
  <1>3. Job.gen \in Gens /\ Job.slot \in {0, 1} /\ Job.req \subseteq Reqs
      BY <1>2 DEF JobRecs
  <1> QED
      BY <1>1, <1>2, <1>3, QueueTail

------------------------------------------------------------------------------
(* Types.                                                                   *)

LEMMA GenTypes ==
  ASSUME TypeOK
  PROVE  /\ Steps \in Nat \ {0} /\ WarmN \in Nat
         /\ step \in Nat \ {0} /\ step <= Steps + 1
         /\ gen \in Nat /\ gen <= Steps /\ doneGen \in Nat /\ pending \in Nat /\ seen \in Nat
         /\ ready.gen \in Nat /\ ready.gen <= Steps /\ ready.slot \in {0, 1} /\ ready.req \subseteq Reqs
         /\ warm \in Nat
         /\ StepIds \subseteq Nat \ {0} /\ Gens \subseteq Nat /\ 0 \in Gens /\ StepIds \subseteq Gens
  <1>1. Steps \in Nat \ {0} /\ WarmN \in Nat
      BY DeferAssumption
  <1>2. ready.gen \in Gens /\ ready.slot \in {0, 1} /\ ready.req \subseteq Reqs
      BY DEF TypeOK
  <1> QED
      BY <1>1, <1>2 DEF TypeOK, StepIds, Gens

LEMMA MainType ==
  ASSUME IInv, MainNext
  PROVE  TypeOK'
  <1> USE DEF host, lever, worker, gpu, memory, Goto
  <1>0. TypeOK /\ Places /\ (step <= Steps => step \in StepIds)
      BY GenTypes DEF IInv, StepIds, TypeOK
  <1>m. \A o \in {"prepare", "dtod", "forward"} : OnMain(o) /\ step <= Steps =>
           mainQ' \in Seq([op : {"prepare", "dtod", "forward"}, step : StepIds])
      BY <1>0, MainQueued DEF MainOps
  <1>s. \A m \in {"none", "sync", "verified", "refuted", "used"} :
           mode' = [mode EXCEPT ![step] = m] =>
              mode' \in [StepIds -> {"none", "sync", "verified", "refuted", "used"}]
      BY <1>0 DEF TypeOK
  <1>n. NextStep /\ step <= Steps => step' \in 1 .. (Steps + 1) /\ pc' = "prepare"
      BY <1>0, GenTypes DEF NextStep
  <1>1. CASE Prepare
      BY <1>0, <1>1, <1>m DEF Prepare, TypeOK
  <1>2. CASE TryStage
      BY <1>0, <1>2, <1>s DEF TryStage, TypeOK
  <1>3. CASE JoinLate
      BY <1>0, <1>3, <1>s DEF JoinLate, TypeOK
  <1>4. CASE JoinWarm
      <2>1. warm' \in 0 .. WarmN /\ seen' \in Gens /\ armed' \in BOOLEAN
          <3>1. warm' \in 0 .. WarmN /\ seen' \in Gens
              BY <1>0, <1>4, GenTypes DEF JoinWarm, Gens
          <3>2. armed' \in BOOLEAN
              BY <1>0, <1>4, Zenon DEF JoinWarm, TypeOK
          <3> QED
              BY <3>1, <3>2
      <2>2. mode' \in [StepIds -> {"none", "sync", "verified", "refuted", "used"}]
          BY <1>0, <1>4, <1>s DEF JoinWarm
      <2> QED
          BY <1>0, <1>4, <2>1, <2>2 DEF JoinWarm, TypeOK
  <1>5. CASE JoinHit
      BY <1>0, <1>5 DEF JoinHit, TypeOK
  <1>6. CASE Apply
      <2>1. used' \in [StepIds -> Gens]
          BY <1>0, <1>6 DEF Apply, TypeOK
      <2>2. mainQ' \in Seq([op : {"prepare", "dtod", "forward"}, step : StepIds])
          BY <1>0, <1>6, <1>m DEF Apply, Places
      <2> QED
          BY <1>0, <1>6, <1>s, <2>1, <2>2 DEF Apply, TypeOK
  <1>7. CASE Forward
      BY <1>0, <1>7, <1>m DEF Forward, Places, TypeOK
  <1>8. CASE HookSkips
      BY <1>0, <1>8, <1>n DEF HookSkips, Places, TypeOK
  <1>9. CASE HookSnapshots
      <2>1. gen + 1 \in Gens
          BY <1>0, <1>9, GenTypes DEF HookSnapshots, Places, Gens
      <2>2. sideQ' \in Seq([op : {"snapshot", "h2d"}, gen : Gens, slot : {0, 1}, after : Nat])
          BY <1>0, <1>9, <2>1, SideQueued DEF HookSnapshots, SideOps
      <2>3. snapEv' \in Nat
          BY <1>0, <1>9, QueueTypes DEF HookSnapshots, SideIssued
      <2> QED
          BY <1>0, <1>9, <2>2, <2>3 DEF HookSnapshots, TypeOK
  <1>10. CASE HookSubmits
      <2>1. gen + 1 \in Gens /\ gen + 1 \in StepIds /\ step \in Gens /\ step' \in 1 .. (Steps + 1)
          BY <1>0, <1>10, GenTypes DEF HookSubmits, NextStep, Places, Gens, StepIds
      <2>2. [gen |-> gen + 1, slot |-> slot, req |-> live] \in JobRecs
          BY <1>0, <2>1 DEF JobRecs, TypeOK
      <2>3. jobs' \in Seq([gen : Gens, slot : {0, 1}, req : SUBSET Reqs])
          BY <1>0, <1>10, <2>2, QueueTypes, AppendProperties DEF HookSubmits, JobRecs
      <2>4. hookOf' \in [StepIds -> Gens] /\ slot' \in {0, 1}
          BY <1>0, <1>10, <2>1 DEF HookSubmits, TypeOK
      <2>5. gen' \in Gens /\ pending' \in Gens /\ pc' = "prepare"
          BY <1>10, <2>1 DEF HookSubmits, NextStep
      <2> QED
          BY <1>0, <1>10, <2>1, <2>3, <2>4, <2>5 DEF HookSubmits, TypeOK
  <1>11. CASE HookRaises
      <2>1. pending' \in Gens
          BY <1>0, <1>11, GenTypes DEF HookRaises
      <2> QED
          BY <1>0, <1>11, <1>n, <2>1 DEF HookRaises, Places, TypeOK
  <1> QED
      BY <1>1, <1>2, <1>3, <1>4, <1>5, <1>6, <1>7, <1>8, <1>9, <1>10, <1>11 DEF MainNext

\* What a worker step does to the jobs: nothing, or it returns the first one.
JobSteps ==
    \/ UNCHANGED <<jobs, doneGen>>
    \/ jobs # << >> /\ JobDone

LEMMA WorkerSteps ==
  ASSUME WorkerNext
  PROVE  /\ UNCHANGED <<host, gen, slot, pending, seen, warm, hookOf, mainQ, mainDone,
                        sideDone, snapEv, devIn, devOut, pins, devRows, staged>>
         /\ armed' = armed \/ armed' = FALSE
         /\ jobs # << >>
         /\ JobSteps
  BY DEF WorkerNext, WorkerWakes, WorkerPredicts, WorkerGathers, WorkerUploads, WorkerPublishes,
     WorkerReturns, WorkerRaises, At, JobSteps, host, lever, worker, gpu, memory

LEMMA WorkerType ==
  ASSUME IInv, WorkerNext
  PROVE  TypeOK'
  <1>0. TypeOK /\ jobs # << >>
      BY WorkerSteps DEF IInv
  <1> USE DEF host, lever, worker, gpu, memory
  <1>1. jobs' \in Seq([gen : Gens, slot : {0, 1}, req : SUBSET Reqs]) /\ doneGen' \in Gens
      BY <1>0, WorkerSteps, JobFacts DEF JobSteps, JobDone, JobRecs, TypeOK
  <1>2. armed' \in BOOLEAN
      BY <1>0, WorkerSteps DEF TypeOK
  <1>3. wpc' \in {"wait", "read", "gather", "upload", "publish", "return"}
      BY <1>0 DEF WorkerNext, WorkerWakes, WorkerPredicts, WorkerGathers, WorkerUploads,
         WorkerPublishes, WorkerReturns, WorkerRaises, JobDone, TypeOK
  <1>4. guess' \in Data
      <2>1. [guess EXCEPT !.gen = Torn] \in Data
          BY <1>0 DEF TypeOK, Data
      <2> QED
          BY <1>0, <2>1 DEF WorkerNext, WorkerWakes, WorkerPredicts, WorkerGathers, WorkerUploads,
             WorkerPublishes, WorkerReturns, WorkerRaises, TypeOK
  <1>5. pinRows' \in [{0, 1} -> Data]
      <2>1. [pinRows EXCEPT ![Job.slot] = guess] \in [{0, 1} -> Data]
          BY <1>0 DEF TypeOK
      <2> QED
          BY <1>0, <2>1 DEF WorkerNext, WorkerWakes, WorkerPredicts, WorkerGathers, WorkerUploads,
             WorkerPublishes, WorkerReturns, WorkerRaises, TypeOK
  <1>6. /\ sideQ' \in Seq([op : {"snapshot", "h2d"}, gen : Gens, slot : {0, 1}, after : Nat])
        /\ h2dEv' \in Nat
      <2>1. CASE WorkerUploads
          <3>1. OnSide("h2d", Job.gen, Job.slot) /\ h2dEv' = SideIssued + 1
              BY <2>1 DEF WorkerUploads
          <3>2. sideQ' \in Seq(SideOps)
              BY <1>0, <3>1, JobFacts, SideQueued
          <3>3. h2dEv' \in Nat
              BY <1>0, <3>1, QueueTypes DEF SideIssued
          <3> QED
              BY <3>2, <3>3 DEF SideOps
      <2>2. CASE ~WorkerUploads
          BY <1>0, <2>2 DEF WorkerNext, WorkerWakes, WorkerPredicts, WorkerGathers,
             WorkerPublishes, WorkerReturns, WorkerRaises, TypeOK
      <2> QED
          BY <2>1, <2>2
  <1>7. ready' \in [gen : Gens, slot : {0, 1}, req : SUBSET Reqs]
      <2>1. [gen |-> Job.gen, slot |-> Job.slot, req |-> Job.req]
               \in [gen : Gens, slot : {0, 1}, req : SUBSET Reqs]
          BY <1>0, JobFacts
      <2> QED
          BY <1>0, <2>1 DEF WorkerNext, WorkerWakes, WorkerPredicts, WorkerGathers, WorkerUploads,
             WorkerPublishes, WorkerReturns, WorkerRaises, TypeOK
  <1>8. UNCHANGED <<step, pc, live, done, prefill, mode, used, gen, slot, pending, seen, warm, hookOf,
                    mainQ, mainDone, sideDone, snapEv, devIn, devOut, pins, devRows, staged>>
      BY WorkerSteps
  <1> QED
      BY <1>0, <1>1, <1>2, <1>3, <1>4, <1>5, <1>6, <1>7, <1>8 DEF TypeOK

LEMMA StreamType ==
  ASSUME IInv, RunMain \/ RunSide
  PROVE  TypeOK'
  <1> USE DEF host, lever, worker, gpu, memory
  <1>0. TypeOK
      BY DEF IInv
  <1>1. CASE RunMain
      <2>1. /\ Head(mainQ) \in MainOps /\ Tail(mainQ) \in Seq(MainOps)
            /\ Head(mainQ).step \in StepIds /\ Head(mainQ).step \in Gens
          <3>1. Head(mainQ) \in MainOps /\ Tail(mainQ) \in Seq(MainOps)
              BY <1>0, <1>1, QueueTypes, QueueTail DEF RunMain
          <3> QED
              BY <1>0, <3>1, GenTypes DEF MainOps
      <2>2. devIn' \in Gens /\ devOut' \in Gens /\ staged' \in [StepIds -> Data]
          BY <1>0, <1>1, <2>1 DEF RunMain, TypeOK
      <2>3. mainQ' \in Seq([op : {"prepare", "dtod", "forward"}, step : StepIds]) /\ mainDone' \in Nat
          BY <1>0, <1>1, <2>1, QueueTypes DEF RunMain, MainOps
      <2> QED
          BY <1>0, <1>1, <2>2, <2>3 DEF RunMain, TypeOK
  <1>2. CASE RunSide
      <2>1. /\ Tail(sideQ) \in Seq(SideOps) /\ Head(sideQ).gen \in Gens
            /\ Head(sideQ).slot \in {0, 1}
          <3>1. Head(sideQ) \in SideOps /\ Tail(sideQ) \in Seq(SideOps)
              BY <1>0, <1>2, QueueTypes, QueueTail DEF RunSide
          <3> QED
              BY <3>1 DEF SideOps
      <2>2. pins' \in Data
          <3>1. [gen |-> Head(sideQ).gen, of |-> IF devIn = devOut THEN devIn ELSE Torn] \in Data
              BY <1>0, <2>1 DEF TypeOK, Data
          <3> QED
              BY <1>0, <1>2, <3>1 DEF RunSide, TypeOK
      <2>3. devRows' \in Data
          BY <1>0, <1>2, <2>1 DEF RunSide, TypeOK
      <2>4. /\ sideQ' \in Seq([op : {"snapshot", "h2d"}, gen : Gens, slot : {0, 1}, after : Nat])
            /\ sideDone' \in Nat
          BY <1>0, <1>2, <2>1, QueueTypes DEF RunSide, SideOps
      <2> QED
          BY <1>0, <1>2, <2>2, <2>3, <2>4 DEF RunSide, TypeOK
  <1> QED
      BY <1>1, <1>2

LEMMA TypeStep ==
  ASSUME IInv, Next
  PROVE  TypeOK'
  BY MainType, WorkerType, StreamType DEF Next

------------------------------------------------------------------------------
(* The main thread's steps that touch neither stream but the main one, nor  *)
(* the lever's predictions.                                                 *)

MainQuiet ==
    Prepare \/ TryStage \/ JoinLate \/ JoinWarm \/ JoinHit \/ Apply \/ Forward \/ HookSkips

LEMMA QuietSteps ==
  ASSUME MainQuiet
  PROVE  /\ UNCHANGED <<gen, slot, pending, ready, hookOf, worker, mainDone, sideQ, sideDone, snapEv,
                        h2dEv, memory>>
         /\ pc # "submit" /\ pc' # "submit"
  BY DEF MainQuiet, Prepare, TryStage, JoinLate, JoinWarm, JoinHit, Apply, Forward, HookSkips,
     Goto, NextStep, host, lever, worker, gpu, memory

LEMMA PlacesStep ==
  ASSUME IInv, Next
  PROVE  Places'
  <1> USE DEF host, lever, worker, gpu, memory, Goto, NextStep
  <1>0. TypeOK /\ Places /\ JobsInv
      BY DEF IInv
  <1>t. step \in Nat /\ gen \in Nat /\ Steps \in Nat
      BY <1>0, GenTypes
  <1>m. \A m : step \in StepIds /\ mode' = [mode EXCEPT ![step] = m] =>
           /\ mode'[step] = m
           /\ \A s \in StepIds : s # step => mode'[s] = mode[s]
      BY <1>0 DEF TypeOK
  <1>i. step <= Steps => step \in StepIds
      BY <1>0, <1>t DEF TypeOK, StepIds
  <1>1. CASE Prepare
      BY <1>0, <1>1, <1>t DEF Prepare, Places
  <1>2. CASE TryStage
      <2>1. CASE armed /\ Accepts
          BY <1>0, <1>2, <1>t, <2>1, GenTypes DEF TryStage, Places, Accepts
      <2>2. CASE ~(armed /\ Accepts)
          BY <1>0, <1>2, <1>t, <1>m, <1>i, <2>2 DEF TryStage, Places
      <2> QED
          BY <2>1, <2>2
  <1>3. CASE JoinLate
      BY <1>0, <1>3, <1>t, <1>m, <1>i DEF JoinLate, Places
  <1>4. CASE JoinWarm
      BY <1>0, <1>4, <1>t, <1>m, <1>i DEF JoinWarm, Places
  <1>5. CASE JoinHit
      BY <1>0, <1>5, <1>t DEF JoinHit, Places
  <1>6. CASE Apply
      BY <1>0, <1>6, <1>t, <1>m, <1>i DEF Apply, Places
  <1>7. CASE Forward
      BY <1>0, <1>7, <1>t DEF Forward, Places
  <1>8. CASE HookSkips \/ HookRaises
      <2>1. /\ pc \in {"hook", "submit"} /\ step' = step + 1 /\ pc' = "prepare"
            /\ UNCHANGED <<gen, mode>>
          BY <1>8 DEF HookSkips, HookRaises
      <2> QED
          BY <1>0, <1>t, <2>1 DEF Places, StepIds
  <1>9. CASE HookSnapshots
      BY <1>0, <1>9, <1>t DEF HookSnapshots, Places
  <1>10. CASE HookSubmits
      <2>1. /\ pc = "submit" /\ step' = step + 1 /\ pc' = "prepare" /\ gen' = gen + 1
            /\ UNCHANGED mode
          BY <1>10 DEF HookSubmits
      <2> QED
          BY <1>0, <1>t, <2>1 DEF Places, StepIds
  <1>11. CASE WorkerNext
      <2>1. UNCHANGED <<step, pc, gen, mode, mainQ, pending>>
          BY <1>11, WorkerSteps
      <2>2. pc \in {"join", "apply"} => ready' = ready
          <3> SUFFICES ASSUME pc \in {"join", "apply"}, WorkerPublishes PROVE FALSE
              BY <1>11 DEF WorkerNext, WorkerWakes, WorkerPredicts, WorkerGathers, WorkerUploads,
                 WorkerReturns, WorkerRaises
          <3>1. jobs # << >> /\ wpc = "publish"
              BY DEF WorkerPublishes, At
          <3>2. /\ Job.gen \in Nat /\ doneGen \in Nat /\ ready.gen \in Nat
                /\ ready.gen <= doneGen /\ doneGen < Job.gen /\ Job.gen <= gen
              BY <1>0, <3>1, JobFacts, GenTypes DEF JobsInv, Job
          <3> QED
              BY <1>0, <1>t, <3>2 DEF Places
      <2> QED
          BY <1>0, <2>1, <2>2 DEF Places
  <1>12. CASE RunMain
      BY <1>0, <1>12 DEF RunMain, Places
  <1>13. CASE RunSide
      BY <1>0, <1>13 DEF RunSide, Places
  <1> QED
      BY <1>1, <1>2, <1>3, <1>4, <1>5, <1>6, <1>7, <1>8, <1>9, <1>10, <1>11, <1>12, <1>13
         DEF Next, MainNext

\* A job handed to the worker.
LEMMA SubmitFacts ==
  ASSUME TypeOK, Places, HookSubmits
  PROVE  /\ Len(jobs') = Len(jobs) + 1
         /\ \A i \in 1 .. Len(jobs) : jobs'[i] = jobs[i]
         /\ jobs'[Len(jobs) + 1].gen = gen + 1
         /\ jobs' # << >>
  <1> DEFINE j == [gen |-> gen + 1, slot |-> slot, req |-> live]
  <1>1. gen + 1 \in Gens
      BY GenTypes DEF HookSubmits, Places, Gens
  <1>2. j \in JobRecs
      BY <1>1 DEF JobRecs, TypeOK
  <1>3. j.gen = gen + 1
      OBVIOUS
  <1>4. jobs' = Append(jobs, j)
      BY DEF HookSubmits
  <1> HIDE DEF j
  <1> QED
      BY <1>2, <1>3, <1>4, QueueTypes, AppendProperties

LEMMA JobsStep ==
  ASSUME IInv, Next
  PROVE  JobsInv'
  <1> USE DEF host, lever, worker, gpu, memory
  <1>0. TypeOK /\ JobsInv /\ jobs \in Seq(JobRecs) /\ Len(jobs) \in Nat
      BY QueueTypes DEF IInv
  <1>t. /\ gen \in Nat /\ doneGen \in Nat /\ ready.gen \in Nat
        /\ \A i \in 1 .. Len(jobs) : jobs[i].gen \in Nat
      BY <1>0, GenTypes, QueueTypes DEF JobRecs
  <1>1. CASE UNCHANGED <<gen, ready, jobs, wpc, doneGen>>
      BY <1>0, <1>1 DEF JobsInv, Job
  <1>2. CASE HookSubmits
      <2>3. /\ Len(jobs') = Len(jobs) + 1
            /\ \A i \in 1 .. Len(jobs) : jobs'[i] = jobs[i]
            /\ jobs'[Len(jobs) + 1].gen = gen + 1
            /\ jobs' # << >>
          BY <1>0, <1>2, SubmitFacts DEF IInv
      <2>4. gen' = gen + 1 /\ UNCHANGED <<ready, wpc, doneGen>>
          BY <1>2 DEF HookSubmits
      <2>5. jobs # << >> => Len(jobs) >= 1 /\ Job' = Job
          BY <1>0, <2>3, EmptySeq DEF Job
      <2>6. doneGen' <= gen' /\ (wpc' # "wait" => jobs' # << >>)
          BY <1>0, <1>t, <2>3, <2>4 DEF JobsInv
      <2>7. \A i \in 1 .. Len(jobs') : doneGen' < jobs'[i].gen /\ jobs'[i].gen <= gen'
          BY <1>0, <1>t, <2>3, <2>4 DEF JobsInv
      <2>8. \A a, b \in 1 .. Len(jobs') : a < b => jobs'[a].gen < jobs'[b].gen
          <3> SUFFICES ASSUME NEW a \in 1 .. Len(jobs'), NEW b \in 1 .. Len(jobs'), a < b
                       PROVE  jobs'[a].gen < jobs'[b].gen
              OBVIOUS
          <3>1. a \in 1 .. Len(jobs) /\ jobs'[a] = jobs[a]
              BY <1>0, <2>3
          <3>2. CASE b \in 1 .. Len(jobs)
              BY <1>0, <2>3, <3>1, <3>2 DEF JobsInv
          <3>3. CASE b = Len(jobs) + 1
              <4>1. jobs[a].gen <= gen /\ jobs[a].gen \in Nat
                  BY <1>0, <1>t, <3>1 DEF JobsInv
              <4> QED
                  BY <1>t, <2>3, <3>1, <3>3, <4>1
          <3> QED
              BY <1>0, <2>3, <3>2, <3>3
      <2>9. \/ ready'.gen <= doneGen'
            \/ wpc' = "return" /\ ready'.gen = Job'.gen /\ ready'.slot = Job'.slot
          BY <1>0, <2>4, <2>5 DEF JobsInv
      <2> QED
          BY <2>6, <2>7, <2>8, <2>9 DEF JobsInv
  <1>3. CASE WorkerNext /\ ~WorkerPublishes /\ UNCHANGED <<jobs, doneGen>>
      <2>1. UNCHANGED <<gen, ready>> /\ wpc # "return" /\ jobs # << >>
          BY <1>3 DEF WorkerNext, WorkerWakes, WorkerPredicts, WorkerGathers, WorkerUploads,
             WorkerReturns, WorkerRaises, At, JobDone
      <2> QED
          BY <1>0, <1>3, <2>1 DEF JobsInv, Job
  <1>4. CASE WorkerPublishes
      BY <1>0, <1>4 DEF WorkerPublishes, At, JobsInv, Job
  <1>5. CASE WorkerNext /\ jobs # << >> /\ JobDone
      <2>1. UNCHANGED <<gen, ready>>
          BY <1>5 DEF WorkerNext, WorkerWakes, WorkerPredicts, WorkerGathers, WorkerUploads,
             WorkerPublishes, WorkerReturns, WorkerRaises, JobDone, At
      <2>2. /\ Len(jobs) >= 1 /\ Job = jobs[1] /\ jobs' = Tail(jobs)
            /\ Len(jobs') = Len(jobs) - 1
            /\ \A i \in 1 .. Len(jobs') : jobs'[i] = jobs[i + 1]
            /\ doneGen' = Job.gen /\ wpc' = "wait"
          BY <1>0, <1>5, JobFacts DEF JobDone, Job
      <2>3. ready.gen <= Job.gen
          BY <1>0, <1>t, <2>2 DEF JobsInv
      <2> QED
          BY <1>0, <1>t, <2>1, <2>2, <2>3 DEF JobsInv
  <1>6. CASE MainNext \/ RunMain \/ RunSide
      BY <1>1, <1>2, <1>6, QuietSteps DEF MainNext, MainQuiet, HookSnapshots, HookRaises, RunMain, RunSide
  <1> QED
      BY <1>3, <1>4, <1>5, <1>6, WorkerSteps DEF Next, JobSteps

------------------------------------------------------------------------------
(* The budget of verified predictions.                                      *)

LEMMA ProvedFinite ==
  ASSUME TypeOK
  PROVE  IsFiniteSet(Proved) /\ Cardinality(Proved) \in Nat
  <1>1. IsFiniteSet(1 .. Steps)
      BY GenTypes, FS_Interval
  <1> QED
      BY <1>1, FS_Subset, FS_CardinalityType DEF Proved, StepIds

LEMMA OwnModeUnset ==
  ASSUME TypeOK, Places, pc \in {"stage", "join", "apply"}
  PROVE  step \in StepIds /\ mode[step] = "none"
  <1>1. step \in 1 .. (Steps + 1) /\ Steps \in Nat
      BY GenTypes DEF TypeOK
  <1>2. step <= Steps
      BY DEF Places
  <1>3. step \in StepIds
      BY <1>1, <1>2 DEF StepIds
  <1> QED
      BY <1>1, <1>3 DEF Places

\* What a step does to the modes: at most it sets the mode of its own step,
\* which was not set.
LEMMA ModeSteps ==
  ASSUME IInv, Next
  PROVE  \/ mode' = mode
         \/ /\ step \in StepIds /\ mode[step] = "none" /\ step' = step
            /\ \E m \in {"sync", "verified", "refuted", "used"} : mode' = [mode EXCEPT ![step] = m]
  <1> USE DEF host, lever, worker, gpu, memory, Goto, NextStep
  <1>0. TypeOK /\ Places
      BY DEF IInv
  <1>1. pc \in {"stage", "join", "apply"} => step \in StepIds /\ mode[step] = "none"
      BY <1>0, OwnModeUnset
  <1>2. CASE TryStage \/ JoinLate \/ JoinWarm \/ Apply
      BY <1>1, <1>2 DEF TryStage, JoinLate, JoinWarm, Apply
  <1>3. CASE Prepare \/ JoinHit \/ Forward \/ HookSkips \/ HookSnapshots \/ HookSubmits \/ HookRaises
      BY <1>3 DEF Prepare, JoinHit, Forward, HookSkips, HookSnapshots, HookSubmits, HookRaises
  <1>4. CASE WorkerNext \/ RunMain \/ RunSide
      BY <1>4, WorkerSteps DEF RunMain, RunSide
  <1> QED
      BY <1>2, <1>3, <1>4 DEF Next, MainNext

\* Setting a mode keeps what is known of the other steps.
LEMMA ModeSet ==
  ASSUME TypeOK, step \in StepIds, mode[step] = "none",
         NEW m \in {"sync", "verified", "refuted", "used"}, mode' = [mode EXCEPT ![step] = m]
  PROVE  /\ mode'[step] = m
         /\ \A s \in StepIds \ {step} : mode'[s] = mode[s]
         /\ m # "refuted" /\ ~Refuted => ~Refuted'
         /\ Cardinality(Proved') = IF m = "verified" THEN Cardinality(Proved) + 1
                                                     ELSE Cardinality(Proved)
  <1>1. mode'[step] = m /\ \A s \in StepIds \ {step} : mode'[s] = mode[s]
      BY DEF TypeOK
  <1>2. m # "refuted" /\ ~Refuted => ~Refuted'
      BY <1>1 DEF Refuted
  <1>3. step \notin Proved
      BY DEF Proved
  <1>4. CASE m = "verified"
      <2>1. Proved' = Proved \cup {step}
          BY <1>1, <1>4 DEF Proved
      <2> QED
          BY <1>1, <1>2, <1>3, <1>4, <2>1, ProvedFinite, FS_AddElement
  <1>5. CASE m # "verified"
      <2>1. Proved' = Proved
          BY <1>1, <1>3, <1>5 DEF Proved
      <2> QED
          BY <1>1, <1>2, <1>5, <2>1
  <1> QED
      BY <1>4, <1>5

LEMMA WarmStep ==
  ASSUME IInv, Next
  PROVE  WarmInv'
  <1> USE DEF host, lever, worker, gpu, memory, Goto, NextStep
  <1>0. TypeOK /\ Places /\ WarmInv
      BY DEF IInv
  <1>t. warm \in Nat /\ WarmN \in Nat /\ Cardinality(Proved) \in Nat
      BY <1>0, GenTypes, ProvedFinite
  <1>p. pc \in {"stage", "join", "apply"} => step \in StepIds /\ mode[step] = "none"
      BY <1>0, OwnModeUnset
  <1>1. ASSUME mode' = mode, warm' = warm, armed' \/ pc' \in {"join", "apply"} => armed \/ pc \in {"join", "apply"},
               pc' = "apply" => warm >= WarmN
        PROVE  WarmInv'
      BY <1>0, <1>1 DEF WarmInv, Refuted, Proved
  <1>2. CASE TryStage
      <2>1. CASE armed /\ Accepts
          BY <1>1, <1>2, <2>1 DEF TryStage
      <2>2. CASE ~(armed /\ Accepts)
          BY <1>0, <1>2, <1>p, <2>2, ModeSet DEF TryStage, WarmInv
      <2> QED
          BY <2>1, <2>2
  <1>3. CASE JoinLate
      BY <1>0, <1>3, <1>p, ModeSet DEF JoinLate, WarmInv
  <1>4. CASE JoinWarm
      <2>1. CASE RowsMatch
          <3>1. mode' = [mode EXCEPT ![step] = "verified"] /\ warm' = warm + 1 /\ pc' = "forward"
              BY <1>4, <2>1 DEF JoinWarm
          <3>2. ~Refuted' /\ Cardinality(Proved') = Cardinality(Proved) + 1
              BY <1>0, <1>4, <1>p, <3>1, ModeSet DEF JoinWarm, WarmInv
          <3>3. Cardinality(Proved) >= warm
              BY <1>0, <1>4 DEF JoinWarm, WarmInv
          <3> QED
              BY <1>t, <3>1, <3>2, <3>3 DEF WarmInv
      <2>2. CASE ~RowsMatch
          <3>1. ~armed' /\ pc' = "forward"
              BY <1>4, <2>2, Zenon DEF JoinWarm, Matches
          <3> QED
              BY <3>1 DEF WarmInv
      <2> QED
          BY <2>1, <2>2
  <1>5. CASE JoinHit
      BY <1>1, <1>5 DEF JoinHit
  <1>6. CASE Apply
      BY <1>0, <1>6, <1>p, ModeSet DEF Apply, WarmInv
  <1>7. CASE Prepare \/ Forward \/ HookSkips \/ HookSnapshots \/ HookSubmits \/ HookRaises
      BY <1>1, <1>7 DEF Prepare, Forward, HookSkips, HookSnapshots, HookSubmits, HookRaises
  <1>8. CASE WorkerNext
      BY <1>0, <1>1, <1>8, WorkerSteps DEF WarmInv
  <1>9. CASE RunMain \/ RunSide
      BY <1>0, <1>1, <1>9 DEF RunMain, RunSide, WarmInv
  <1> QED
      BY <1>2, <1>3, <1>4, <1>5, <1>6, <1>7, <1>8, <1>9 DEF Next, MainNext

LEMMA VerifiedStep ==
  ASSUME IInv, Next
  PROVE  VerifiedFirst'
  <1>0. TypeOK /\ Places /\ WarmInv /\ VerifiedFirst
      BY DEF IInv
  <1>t. /\ warm \in Nat /\ WarmN \in Nat /\ Cardinality(Proved) \in Nat /\ step \in Nat
        /\ Steps \in Nat
      BY <1>0, GenTypes, ProvedFinite
  <1>1. CASE mode' = mode
      BY <1>0, <1>1 DEF VerifiedFirst
  <1>2. ASSUME step \in StepIds, mode[step] = "none", step' = step,
               NEW m \in {"sync", "verified", "refuted", "used"}, mode' = [mode EXCEPT ![step] = m]
        PROVE  VerifiedFirst'
      <2>1. /\ mode'[step] = m
            /\ \A s \in StepIds \ {step} : mode'[s] = mode[s]
          BY <1>0, <1>2, ModeSet
      <2> SUFFICES ASSUME NEW s \in StepIds, mode'[s] = "used"
                   PROVE  /\ Cardinality({t \in 1 .. (s - 1) : mode'[t] = "verified"}) >= WarmN
                          /\ \A t \in 1 .. (s - 1) : mode'[t] # "refuted"
          BY Zenon DEF VerifiedFirst
      <2>2. s \in Nat /\ s <= Steps /\ \A t \in 1 .. (s - 1) : t \in StepIds /\ t # s
          BY <1>t DEF StepIds
      <2>3. CASE s # step
          <3>1. mode[s] = "used" /\ s < step
              BY <1>0, <2>1, <2>3 DEF Places
          <3>2. \A t \in 1 .. (s - 1) : mode'[t] = mode[t]
              BY <1>t, <2>1, <2>2, <3>1
          <3>3. {t \in 1 .. (s - 1) : mode'[t] = "verified"} = {t \in 1 .. (s - 1) : mode[t] = "verified"}
              BY <3>2
          <3> QED
              BY <1>0, <3>1, <3>2, <3>3 DEF VerifiedFirst
      <2>4. CASE s = step
          <3>a. mode' # mode /\ mode'[step] = "used"
              BY <1>2, <2>1, <2>4
          <3>b. \A m2 : mode' = [mode EXCEPT ![step] = m2] => mode'[step] = m2
              BY <1>0, <1>2 DEF TypeOK
          <3>c. ~(TryStage \/ JoinLate \/ JoinWarm)
              BY <3>a, <3>b DEF TryStage, JoinLate, JoinWarm
          <3>1. Apply
              BY <3>a, <3>c, WorkerSteps DEF Next, MainNext, Prepare, JoinHit, Forward, HookSkips,
                 HookSnapshots, HookSubmits, HookRaises, RunMain, RunSide, host
          <3>2. pc = "apply"
              BY <3>1 DEF Apply
          <3>3. ~Refuted /\ Cardinality(Proved) >= WarmN
              BY <1>0, <1>t, <3>2 DEF WarmInv
          <3>4. \A t \in 1 .. (s - 1) : mode'[t] = mode[t]
              BY <2>1, <2>2, <2>4
          <3>5. {t \in 1 .. (s - 1) : mode'[t] = "verified"} = Proved
              <4>1. \A t \in StepIds : mode[t] = "verified" => t \in 1 .. (s - 1)
                  BY <1>0, <1>2, <1>t, <2>4 DEF Places, StepIds
              <4> QED
                  BY <2>2, <3>4, <4>1 DEF Proved
          <3> QED
              BY <2>2, <3>3, <3>4, <3>5 DEF Refuted
      <2> QED
          BY <2>3, <2>4
  <1> QED
      BY <1>1, <1>2, ModeSteps

------------------------------------------------------------------------------
(* The side stream: the snapshots and the uploads.                          *)

LEMMA QuietCurrent ==
  ASSUME MainQuiet
  PROVE  Current' <=> Current
  BY QuietSteps DEF Current

LEMMA OtherCurrent ==
  ASSUME WorkerNext \/ RunMain \/ RunSide
  PROVE  Current' <=> Current
  BY WorkerSteps DEF Current, RunMain, RunSide, host, lever

LEMMA RunSideFacts ==
  ASSUME TypeOK, RunSide
  PROVE  /\ Len(sideQ) >= 1
         /\ Len(sideQ') = Len(sideQ) - 1
         /\ \A i \in 1 .. Len(sideQ') : sideQ'[i] = sideQ[i + 1]
         /\ sideDone' = sideDone + 1
         /\ mainDone >= sideQ[1].after
         /\ sideQ[1].op = "snapshot" => pins'.gen = sideQ[1].gen
         /\ sideQ[1].op # "snapshot" => pins' = pins
         /\ sideQ[1].op = "h2d" => devRows' = pinRows[sideQ[1].slot]
         /\ sideQ[1].op # "h2d" => devRows' = devRows
         /\ UNCHANGED <<host, lever, worker, mainQ, mainDone, snapEv, h2dEv, devIn, devOut, pinRows, staged>>
  <1>1. sideQ \in Seq(SideOps) /\ sideQ # << >> /\ sideQ' = Tail(sideQ)
      BY QueueTypes DEF RunSide
  <1>2. /\ Head(sideQ) = sideQ[1] /\ Len(sideQ) >= 1
        /\ Len(sideQ') = Len(sideQ) - 1
        /\ \A i \in 1 .. Len(sideQ') : sideQ'[i] = sideQ[i + 1]
      BY <1>1, QueueTail
  <1> QED
      BY <1>2 DEF RunSide

\* A snapshot queued by the hook.
LEMMA SnapshotFacts ==
  ASSUME TypeOK, Places, HookSnapshots
  PROVE  /\ Len(sideQ') = Len(sideQ) + 1
         /\ \A i \in 1 .. Len(sideQ) : sideQ'[i] = sideQ[i]
         /\ sideQ'[Len(sideQ) + 1].op = "snapshot"
         /\ sideQ'[Len(sideQ) + 1].gen = gen + 1
         /\ snapEv' = sideDone + Len(sideQ) + 1 /\ pc' = "submit"
         /\ UNCHANGED <<lever, worker, mainQ, mainDone, sideDone, h2dEv, memory, mode, used>>
  <1>1. OnSide("snapshot", gen + 1, 0)
      BY DEF HookSnapshots
  <1>2. gen + 1 \in Gens
      BY GenTypes DEF HookSnapshots, Places, Gens
  <1>3. /\ Len(sideQ') = Len(sideQ) + 1
        /\ \A i \in 1 .. Len(sideQ) : sideQ'[i] = sideQ[i]
        /\ sideQ'[Len(sideQ) + 1]
              = [op |-> "snapshot", gen |-> gen + 1, slot |-> 0, after |-> mainDone + Len(mainQ)]
      BY <1>1, <1>2, SideQueued
  <1> QED
      BY <1>3 DEF HookSnapshots, SideIssued, Goto

\* An upload queued by the worker.
LEMMA UploadFacts ==
  ASSUME TypeOK, WorkerUploads
  PROVE  /\ Len(sideQ') = Len(sideQ) + 1
         /\ \A i \in 1 .. Len(sideQ) : sideQ'[i] = sideQ[i]
         /\ sideQ'[Len(sideQ) + 1] = [op |-> "h2d", gen |-> Job.gen, slot |-> Job.slot,
                                      after |-> mainDone + Len(mainQ)]
         /\ h2dEv' = sideDone + Len(sideQ) + 1
         /\ jobs # << >> /\ wpc = "upload" /\ wpc' = "publish"
         /\ sideDone >= h2dEv
         /\ UNCHANGED <<host, lever, jobs, doneGen, guess, mainQ, mainDone, sideDone, snapEv, memory>>
  <1>1. jobs # << >> /\ Job.gen \in Gens /\ Job.slot \in {0, 1}
      BY JobFacts DEF WorkerUploads, At
  <1> QED
      BY <1>1, SideQueued DEF WorkerUploads, SideIssued, At

\* Worker steps that leave the side stream alone.
LEMMA WorkerSide ==
  ASSUME WorkerNext, ~WorkerUploads
  PROVE  UNCHANGED <<sideQ, h2dEv>>
  BY DEF WorkerNext, WorkerWakes, WorkerPredicts, WorkerGathers, WorkerPublishes, WorkerReturns,
     WorkerRaises, gpu

LEMMA SnapStep ==
  ASSUME IInv, Next
  PROVE  SnapInv'
  <1> USE DEF host, lever, worker, gpu, memory
  <1>0. TypeOK /\ Places /\ SnapInv
      BY DEF IInv
  <1>t. sideDone \in Nat /\ snapEv \in Nat /\ Len(sideQ) \in Nat /\ gen \in Nat
      BY <1>0, QueueTypes, GenTypes
  <1>1. ASSUME UNCHANGED <<sideQ, sideDone, snapEv, gen, pins>>, Current' <=> Current,
               pc' # "submit" \/ pc = "submit"
        PROVE  SnapInv'
      BY <1>0, <1>1 DEF SnapInv, Snapped
  <1>2. CASE MainQuiet
      BY <1>1, <1>2, QuietSteps, QuietCurrent
  <1>3. CASE HookSnapshots
      BY <1>0, <1>3, <1>t, SnapshotFacts DEF SnapInv, Snapped, Current
  <1>4. CASE HookSubmits
      <2>1. pc = "submit" /\ pc' = "prepare" /\ gen' = gen + 1 /\ UNCHANGED <<sideQ, sideDone, snapEv, pins>>
          BY <1>4 DEF HookSubmits, NextStep, Goto
      <2> QED
          BY <1>0, <2>1 DEF SnapInv, Snapped
  <1>5. CASE HookRaises
      <2>1. pc' = "prepare" /\ pending' = 0 /\ UNCHANGED <<gen, sideQ, sideDone, snapEv, pins>>
          BY <1>5 DEF HookRaises, NextStep, Goto
      <2> QED
          BY <1>0, <1>t, <2>1 DEF SnapInv, Snapped, Current
  <1>6. CASE WorkerUploads
      <2>1. UNCHANGED <<sideDone, snapEv, gen, pins, pc>> /\ (Current' <=> Current)
          BY <1>6, UploadFacts, <1>0, OtherCurrent DEF WorkerNext
      <2>2. \A g : Snapped(g) => Snapped(g)'
          BY <1>0, <1>6, <1>t, <2>1, UploadFacts DEF SnapInv, Snapped
      <2> QED
          BY <1>0, <1>6, <1>t, <2>1, <2>2, UploadFacts DEF SnapInv
  <1>7. CASE WorkerNext /\ ~WorkerUploads
      BY <1>1, <1>7, WorkerSide, WorkerSteps, OtherCurrent
  <1>8. CASE RunMain
      BY <1>1, <1>8, OtherCurrent DEF RunMain
  <1>9. CASE RunSide
      <2>1. UNCHANGED <<snapEv, gen, pc>> /\ (Current' <=> Current)
          BY <1>0, <1>9, RunSideFacts, OtherCurrent
      <2>2. \A g : Snapped(g) => Snapped(g)'
          BY <1>0, <1>9, <1>t, <2>1, RunSideFacts DEF SnapInv, Snapped
      <2>3. snapEv' <= sideDone' + Len(sideQ')
          BY <1>0, <1>9, <1>t, <2>1, RunSideFacts DEF SnapInv
      <2>4. \A i \in 1 .. Len(sideQ') : sideQ'[i].op = "snapshot" => sideDone' + i <= snapEv'
          BY <1>0, <1>9, <1>t, <2>1, RunSideFacts DEF SnapInv
      <2> QED
          BY <1>0, <2>1, <2>2, <2>3, <2>4 DEF SnapInv
  <1> QED
      BY <1>2, <1>3, <1>4, <1>5, <1>6, <1>7, <1>8, <1>9 DEF Next, MainNext, MainQuiet

LEMMA UploadStep ==
  ASSUME IInv, Next
  PROVE  UploadInv'
  <1> USE DEF host, lever, worker, gpu, memory
  <1>0. TypeOK /\ Places /\ UploadInv
      BY DEF IInv
  <1>t. sideDone \in Nat /\ h2dEv \in Nat /\ Len(sideQ) \in Nat /\ gen \in Nat
      BY <1>0, QueueTypes, GenTypes
  <1>1. CASE UNCHANGED <<sideQ, sideDone, h2dEv>>
      BY <1>0, <1>1 DEF UploadInv
  <1>2. CASE HookSnapshots
      BY <1>0, <1>2, <1>t, SnapshotFacts DEF UploadInv
  <1>3. CASE WorkerUploads
      BY <1>0, <1>3, <1>t, UploadFacts DEF UploadInv
  <1>4. CASE WorkerNext /\ ~WorkerUploads
      BY <1>1, <1>4, WorkerSide, WorkerSteps
  <1>5. CASE RunSide
      <2>1. h2dEv' <= sideDone' + Len(sideQ')
          BY <1>0, <1>5, <1>t, RunSideFacts DEF UploadInv
      <2>2. \A i \in 1 .. Len(sideQ') : sideQ'[i].op = "h2d" => sideDone' + i <= h2dEv'
          BY <1>0, <1>5, <1>t, RunSideFacts DEF UploadInv
      <2> QED
          BY <2>1, <2>2 DEF UploadInv
  <1>6. CASE MainQuiet \/ HookSubmits \/ HookRaises \/ RunMain
      BY <1>1, <1>6, QuietSteps DEF HookSubmits, HookRaises, RunMain
  <1> QED
      BY <1>2, <1>3, <1>4, <1>5, <1>6 DEF Next, MainNext, MainQuiet

------------------------------------------------------------------------------
(* The worker, as far as it carries the newest generation.                  *)

LEMMA WorkStep ==
  ASSUME IInv, Next
  PROVE  WorkInv'
  <1> USE DEF host, lever, worker, gpu, memory
  <1>0. TypeOK /\ Places /\ JobsInv /\ SnapInv /\ UploadInv /\ WorkInv
      BY DEF IInv
  <1>t. /\ sideDone \in Nat /\ h2dEv \in Nat /\ snapEv \in Nat /\ Len(sideQ) \in Nat
        /\ gen \in Nat /\ doneGen \in Nat /\ ready.gen \in Nat
      BY <1>0, QueueTypes, GenTypes
  \* Where the worker works on the newest generation, no record of it is out before it publishes.
  <1>w. jobs # << >> => /\ Job.gen \in Nat /\ Job.slot \in {0, 1}
                        /\ doneGen < Job.gen /\ Job.gen <= gen
                        /\ ready.gen = gen => wpc = "return" /\ Job.gen = gen
      BY <1>0, <1>t, JobFacts DEF JobsInv, Job, Gens, JobRecs, TypeOK
  <1>1. ASSUME UNCHANGED <<sideQ, sideDone, snapEv, h2dEv, gen, pins, pinRows, devRows, ready, jobs, wpc, guess>>,
               Current' => Current
        PROVE  WorkInv'
      BY <1>0, <1>1 DEF WorkInv, Uploaded, Job
  <1>2. CASE MainQuiet
      BY <1>1, <1>2, QuietSteps, QuietCurrent
  <1>3. CASE HookSnapshots
      BY <1>0, <1>3, SnapshotFacts DEF WorkInv, Current
  <1>4. CASE HookSubmits
      <2>1. gen' = gen + 1 /\ UNCHANGED <<ready, wpc>>
          BY <1>4 DEF HookSubmits
      <2>2. ready'.gen # gen'
          BY <1>0, <1>t, <1>w, <2>1 DEF JobsInv
      <2>3. jobs = << >> => wpc' = "wait"
          BY <1>0, <2>1 DEF JobsInv
      <2>4. jobs # << >> => Job' = Job
          BY <1>0, <1>4, SubmitFacts, QueueTypes, EmptySeq DEF Job
      <2> QED
          BY <1>t, <1>w, <2>1, <2>2, <2>3, <2>4 DEF WorkInv
  <1>5. CASE HookRaises
      BY <1>t, <1>5 DEF HookRaises, WorkInv, Current
  <1>6. CASE WorkerWakes
      <2>1. (Current' <=> Current) /\ jobs # << >> /\ wpc = "wait" /\ sideDone >= snapEv
          BY <1>6, OtherCurrent DEF WorkerNext, WorkerWakes, At
      <2>2. CASE JobDone
          <3>1. UNCHANGED <<ready, gen>> /\ wpc' = "wait" /\ ready.gen # gen
              BY <1>6, <1>w, <2>1, <2>2 DEF WorkerWakes, JobDone
          <3> QED
              BY <3>1 DEF WorkInv
      <2>3. CASE guess' = pins /\ wpc' = "read" /\ UNCHANGED <<jobs, doneGen>>
          <3>1. UNCHANGED <<sideDone, snapEv, gen, pins, ready>> /\ ready.gen # gen
              BY <1>6, <1>w, <2>1 DEF WorkerWakes
          <3>2. Current => pins.gen = gen
              BY <1>0, <1>t, <2>1 DEF SnapInv, Snapped
          <3> QED
              BY <2>1, <2>3, <3>1, <3>2 DEF WorkInv
      <2> QED
          BY <1>6, <2>2, <2>3 DEF WorkerWakes
  <1>7. CASE WorkerPredicts
      <2>1. (Current' <=> Current) /\ jobs # << >> /\ wpc = "read" /\ ready.gen # gen
            /\ UNCHANGED <<ready, gen, pins>>
          BY <1>7, <1>w, OtherCurrent DEF WorkerNext, WorkerPredicts, At
      <2>2. CASE JobDone
          BY <2>1, <2>2 DEF WorkInv, JobDone
      <2>3. CASE guess' = (IF pins = guess THEN guess ELSE [guess EXCEPT !.gen = Torn])
                 /\ wpc' = "gather" /\ UNCHANGED <<jobs, doneGen>>
          BY <1>0, <2>1, <2>3 DEF WorkInv, Job
      <2> QED
          BY <1>7, <2>2, <2>3 DEF WorkerPredicts
  <1>8. CASE WorkerGathers
      <2>1. (Current' <=> Current) /\ jobs # << >> /\ wpc = "gather" /\ ready.gen # gen
            /\ wpc' = "upload" /\ pinRows' = [pinRows EXCEPT ![Job.slot] = guess]
            /\ UNCHANGED <<ready, gen, jobs>>
          BY <1>8, <1>w, OtherCurrent DEF WorkerNext, WorkerGathers, At
      <2>2. pinRows'[Job.slot] = guess
          BY <1>0, <1>w, <2>1 DEF TypeOK
      <2> QED
          BY <1>0, <2>1, <2>2 DEF WorkInv, Job
  <1>9. CASE WorkerUploads
      <2>1. (Current' <=> Current) /\ ready.gen # gen
          BY <1>9, <1>0, <1>w, OtherCurrent, UploadFacts DEF WorkerNext
      <2>2. Current /\ Job.gen = gen => pinRows[Job.slot].gen = gen
          BY <1>0, <1>9, UploadFacts DEF WorkInv
      <2> QED
          BY <1>0, <1>9, <1>t, <2>1, <2>2, UploadFacts DEF WorkInv, Uploaded, Job
  <1>10. CASE WorkerPublishes
      <2>1. (Current' <=> Current) /\ jobs # << >> /\ wpc = "publish" /\ wpc' = "return"
            /\ ready'.gen = Job.gen /\ ready'.slot = Job.slot
            /\ UNCHANGED <<jobs, gen, pinRows, sideQ, sideDone, h2dEv, devRows>>
          BY <1>10, OtherCurrent DEF WorkerNext, WorkerPublishes, At
      <2> QED
          BY <1>0, <2>1 DEF WorkInv, Uploaded, Job
  <1>11. CASE WorkerReturns
      <2>1. (Current' <=> Current) /\ wpc' = "wait"
            /\ UNCHANGED <<ready, gen, pinRows, sideQ, sideDone, h2dEv, devRows>>
          BY <1>11, OtherCurrent DEF WorkerNext, WorkerReturns, JobDone
      <2> QED
          BY <1>0, <2>1 DEF WorkInv, Uploaded
  <1>12. CASE WorkerRaises
      <2>1. UNCHANGED <<ready, gen>> /\ wpc' = "wait" /\ ready.gen # gen
          BY <1>12, <1>w DEF WorkerRaises, JobDone, At
      <2> QED
          BY <2>1 DEF WorkInv
  <1>13. CASE RunMain
      BY <1>1, <1>13, OtherCurrent DEF RunMain
  <1>14. CASE RunSide
      <2>1. UNCHANGED <<snapEv, h2dEv, gen, ready, jobs, wpc, guess, pinRows>> /\ (Current' <=> Current)
          BY <1>0, <1>14, RunSideFacts, OtherCurrent
      <2>2. \A i : Uploaded(i) => Uploaded(i)'
          <3> SUFFICES ASSUME NEW i, Uploaded(i) PROVE Uploaded(i)'
              OBVIOUS
          <3>1. pinRows'[i].gen = gen'
              BY <2>1 DEF Uploaded
          <3>2. CASE h2dEv > sideDone + 1
              <4>1. h2dEv' - sideDone' \in 1 .. Len(sideQ') /\ (h2dEv' - sideDone') + 1 = h2dEv - sideDone
                  BY <1>0, <1>14, <1>t, <2>1, <3>2, RunSideFacts DEF UploadInv
              <4>2. sideQ'[h2dEv' - sideDone'] = sideQ[h2dEv - sideDone]
                  BY <1>0, <1>14, <4>1, RunSideFacts
              <4>3. h2dEv' > sideDone'
                  BY <1>0, <1>14, <1>t, <3>2, RunSideFacts
              <4> QED
                  BY <1>t, <3>1, <3>2, <4>2, <4>3 DEF Uploaded
          <3>3. CASE h2dEv = sideDone + 1
              <4>1. sideQ[1].op = "h2d" /\ sideQ[1].slot = i
                  BY <1>t, <3>3 DEF Uploaded
              <4>2. devRows' = pinRows[i] /\ ~(h2dEv' > sideDone')
                  BY <1>0, <1>14, <1>t, <3>3, <4>1, RunSideFacts
              <4> QED
                  BY <2>1, <3>1, <4>2 DEF Uploaded
          <3>4. CASE h2dEv <= sideDone
              <4>1. devRows' = devRows
                  BY <1>0, <1>14, <1>t, <3>4, RunSideFacts DEF UploadInv
              <4>2. ~(h2dEv' > sideDone') /\ ~(h2dEv > sideDone)
                  BY <1>0, <1>14, <1>t, <3>4, RunSideFacts
              <4> QED
                  BY <2>1, <3>1, <4>1, <4>2 DEF Uploaded
          <3> QED
              BY <1>t, <3>2, <3>3, <3>4
      <2>3. sideDone >= snapEv => pins' = pins /\ sideDone' >= snapEv
          BY <1>0, <1>14, <1>t, RunSideFacts DEF SnapInv
      <2> QED
          BY <1>0, <2>1, <2>2, <2>3 DEF WorkInv, Job
  <1> QED
      BY <1>2, <1>3, <1>4, <1>5, <1>6, <1>7, <1>8, <1>9, <1>10, <1>11, <1>12, <1>13, <1>14
         DEF Next, MainNext, MainQuiet, WorkerNext

------------------------------------------------------------------------------
(* The copies on the main stream, and what the steps have used.             *)

LEMMA RunMainFacts ==
  ASSUME TypeOK, RunMain
  PROVE  /\ Len(mainQ) >= 1
         /\ Len(mainQ') = Len(mainQ) - 1
         /\ \A i \in 1 .. Len(mainQ') : mainQ'[i] = mainQ[i + 1]
         /\ mainQ[1] \in MainOps
         /\ mainDone' = mainDone + 1
         /\ staged' = IF mainQ[1].op = "dtod" THEN [staged EXCEPT ![mainQ[1].step] = devRows] ELSE staged
         /\ UNCHANGED <<host, lever, worker, sideQ, sideDone, devRows>>
  <1>1. mainQ \in Seq(MainOps) /\ mainQ # << >> /\ mainQ' = Tail(mainQ)
      BY QueueTypes DEF RunMain
  <1>2. /\ Head(mainQ) = mainQ[1] /\ mainQ[1] \in MainOps /\ Len(mainQ) >= 1
        /\ Len(mainQ') = Len(mainQ) - 1
        /\ \A i \in 1 .. Len(mainQ') : mainQ'[i] = mainQ[i + 1]
      BY <1>1, QueueTail
  <1> QED
      BY <1>2 DEF RunMain

\* The main thread's queueing steps, one of which queues the copy.
LEMMA QueueFacts ==
  ASSUME TypeOK, Places, NEW o \in {"prepare", "dtod", "forward"}, OnMain(o), step <= Steps
  PROVE  /\ Len(mainQ') = Len(mainQ) + 1
         /\ \A i \in 1 .. Len(mainQ) : mainQ'[i] = mainQ[i]
         /\ mainQ'[Len(mainQ) + 1] = [op |-> o, step |-> step]
         /\ mainQ'[Len(mainQ) + 1].op = o /\ mainQ'[Len(mainQ) + 1].step = step
  <1>1. step \in StepIds
      BY GenTypes DEF StepIds
  <1>2. /\ Len(mainQ') = Len(mainQ) + 1
        /\ \A i \in 1 .. Len(mainQ) : mainQ'[i] = mainQ[i]
        /\ mainQ'[Len(mainQ) + 1] = [op |-> o, step |-> step]
      BY <1>1, MainQueued
  <1> QED
      BY <1>2

\* When the copy is queued, the device holds the newest generation.
LEMMA ApplyFacts ==
  ASSUME IInv, Apply
  PROVE  /\ step \in StepIds /\ step <= Steps /\ mainQ = << >>
         /\ Len(mainQ) = 0 /\ Len(mainQ') = 1
         /\ mainQ'[1] = [op |-> "dtod", step |-> step]
         /\ mainQ'[1].op = "dtod" /\ mainQ'[1].step = step
         /\ mode'[step] = "used" /\ used'[step] = gen
         /\ \A s \in StepIds \ {step} : mode'[s] = mode[s] /\ used'[s] = used[s]
         /\ devRows.gen = gen
         /\ \A j \in 1 .. Len(sideQ) : sideQ[j].op # "h2d"
         /\ UNCHANGED <<lever, worker, mainDone, sideQ, sideDone, memory>>
  <1>0. TypeOK /\ Places /\ WorkInv /\ UploadInv
      BY DEF IInv
  <1>1. pc = "apply" /\ OnMain("dtod") /\ sideDone >= h2dEv
      BY DEF Apply
  <1>2. mainQ = << >> /\ ready.gen = gen /\ Current /\ step <= Steps /\ step \in StepIds
      BY <1>0, <1>1, OwnModeUnset DEF Places, Current
  <1>3. Len(mainQ) = 0
      BY <1>2
  <1>4. Len(mainQ') = 1 /\ mainQ'[1] = [op |-> "dtod", step |-> step]
        /\ mainQ'[1].op = "dtod" /\ mainQ'[1].step = step
      BY <1>0, <1>1, <1>2, <1>3, QueueFacts
  <1>5. sideDone \in Nat /\ h2dEv \in Nat /\ Len(sideQ) \in Nat
      BY <1>0, QueueTypes
  <1>6. devRows.gen = gen
      BY <1>0, <1>1, <1>2, <1>5 DEF WorkInv, Uploaded
  <1>7. \A j \in 1 .. Len(sideQ) : sideQ[j].op # "h2d"
      BY <1>0, <1>1, <1>5 DEF UploadInv
  <1>8. /\ mode'[step] = "used" /\ used'[step] = ready.gen
        /\ \A s \in StepIds \ {step} : mode'[s] = mode[s] /\ used'[s] = used[s]
      BY <1>0, <1>2 DEF Apply, TypeOK
  <1> QED
      BY <1>2, <1>3, <1>4, <1>6, <1>7, <1>8 DEF Apply

LEMMA CopyStep ==
  ASSUME IInv, Next
  PROVE  CopyInv'
  <1> USE DEF host, lever, worker, gpu, memory
  <1>0. TypeOK /\ Places /\ CopyInv
      BY DEF IInv
  <1>t. mainDone \in Nat /\ Len(mainQ) \in Nat /\ Len(sideQ) \in Nat
        /\ \A j \in 1 .. Len(sideQ) : sideQ[j].after \in Nat
      BY <1>0, QueueTypes DEF SideOps
  <1>1. CASE UNCHANGED <<mainQ, mainDone, sideQ, devRows, used>>
      BY <1>0, <1>1 DEF CopyInv
  <1>2. ASSUME NEW o \in {"prepare", "forward"}, OnMain(o), step <= Steps,
               UNCHANGED <<mainDone, sideQ, devRows, used>>
        PROVE  CopyInv'
      BY <1>0, <1>2, <1>t, QueueFacts DEF CopyInv
  <1>3. CASE Prepare
      BY <1>2, <1>3 DEF Prepare
  <1>4. CASE Forward
      BY <1>0, <1>2, <1>4 DEF Forward, Places
  <1>5. CASE Apply
      <2>0. Len(mainQ') = 1
          BY <1>5, ApplyFacts
      <2>1. \A i \in 1 .. Len(mainQ') : i = 1
          BY <2>0
      <2>2. devRows'.gen = used'[mainQ'[1].step]
          BY <1>5, ApplyFacts
      <2>3. sideQ' = sideQ /\ \A j \in 1 .. Len(sideQ) : sideQ[j].op # "h2d"
          BY <1>5, ApplyFacts
      <2> QED
          BY <2>1, <2>2, <2>3 DEF CopyInv
  <1>6. CASE HookSnapshots
      BY <1>0, <1>6, <1>t, SnapshotFacts DEF CopyInv
  <1>7. CASE WorkerUploads
      BY <1>0, <1>7, <1>t, UploadFacts DEF CopyInv
  <1>8. CASE WorkerNext /\ ~WorkerUploads
      BY <1>1, <1>8, WorkerSide, WorkerSteps
  <1>9. CASE RunMain
      BY <1>0, <1>9, <1>t, RunMainFacts DEF CopyInv
  <1>10. CASE RunSide
      <2>1. ASSUME NEW i \in 1 .. Len(mainQ), mainQ[i].op = "dtod"
            PROVE  sideQ[1].op # "h2d"
          BY <1>0, <1>10, <1>t, <2>1, RunSideFacts DEF CopyInv
      <2> SUFFICES ASSUME NEW i \in 1 .. Len(mainQ), mainQ[i].op = "dtod"
                   PROVE  /\ devRows'.gen = used[mainQ[i].step]
                          /\ \A j \in 1 .. Len(sideQ') : sideQ'[j].op = "h2d" => sideQ'[j].after >= mainDone + i
          BY <1>0, <1>10, RunSideFacts DEF CopyInv
      <2>2. devRows' = devRows
          BY <1>0, <1>10, <2>1, RunSideFacts
      <2>3. ASSUME NEW j \in 1 .. Len(sideQ'), sideQ'[j].op = "h2d"
            PROVE  sideQ'[j].after >= mainDone + i
          <3>1. j + 1 \in 1 .. Len(sideQ) /\ sideQ'[j] = sideQ[j + 1]
              BY <1>0, <1>10, <1>t, RunSideFacts
          <3> QED
              BY <1>0, <2>3, <3>1 DEF CopyInv
      <2> QED
          BY <1>0, <2>2, <2>3 DEF CopyInv
  <1>11. CASE TryStage \/ JoinLate \/ JoinWarm \/ JoinHit \/ HookSkips \/ HookSubmits \/ HookRaises
      BY <1>1, <1>11 DEF TryStage, JoinLate, JoinWarm, JoinHit, HookSkips, HookSubmits, HookRaises
  <1> QED
      BY <1>3, <1>4, <1>5, <1>6, <1>7, <1>8, <1>9, <1>10, <1>11 DEF Next, MainNext

LEMMA HookOfSteps ==
  ASSUME IInv, Next, ~HookSubmits
  PROVE  UNCHANGED <<gen, hookOf>>
  BY WorkerSteps, QuietSteps DEF Next, MainNext, MainQuiet, HookSnapshots, HookRaises, RunMain, RunSide,
     lever

LEMMA NewestStep ==
  ASSUME IInv, Next
  PROVE  NewestInv'
  <1> USE DEF host, lever, worker, gpu, memory
  <1>0. TypeOK /\ Places /\ NewestInv
      BY DEF IInv
  <1>t. gen \in Nat /\ step \in Nat /\ StepIds \subseteq Nat /\ used \in [StepIds -> Gens] /\ Gens \subseteq Nat
      BY <1>0, GenTypes DEF TypeOK
  <1>1. CASE HookSubmits
      <2>1. gen + 1 \in StepIds
          BY <1>0, <1>1, GenTypes DEF HookSubmits, Places, StepIds
      <2>2. gen' = gen + 1 /\ hookOf'[gen + 1] = step /\ \A g \in StepIds \ {gen + 1} : hookOf'[g] = hookOf[g]
          BY <1>0, <1>1, <2>1 DEF HookSubmits, TypeOK
      <2>3. UNCHANGED <<mode, used>>
          BY <1>1 DEF HookSubmits
      <2> SUFFICES ASSUME NEW s \in StepIds, mode[s] = "used", NEW g \in (used[s] + 1) .. (gen + 1)
                   PROVE  hookOf'[g] >= s
          BY <2>2, <2>3 DEF NewestInv
      <2>4. s <= step
          BY <1>0, <1>t DEF Places
      <2>5. used[s] \in Nat
          BY <1>t
      <2>6. CASE g = gen + 1
          BY <1>t, <2>2, <2>4, <2>6
      <2>7. CASE g # gen + 1
          <3>1. g \in (used[s] + 1) .. gen /\ g \in StepIds
              BY <1>t, <2>1, <2>5, <2>7, DeferAssumption DEF StepIds
          <3> QED
              BY <1>0, <2>2, <2>7, <3>1 DEF NewestInv
      <2> QED
          BY <2>6, <2>7
  <1>2. CASE Apply
      <2> SUFFICES ASSUME NEW s \in StepIds, mode'[s] = "used", NEW g \in (used'[s] + 1) .. gen'
                   PROVE  hookOf'[g] >= s
          BY DEF NewestInv
      <2>1. UNCHANGED <<gen, hookOf>>
          BY <1>2, ApplyFacts, <1>0
      <2>2. CASE s = step
          BY <1>2, <1>t, <2>1, <2>2, ApplyFacts
      <2>3. CASE s # step
          BY <1>0, <1>2, <2>1, <2>3, ApplyFacts DEF NewestInv
      <2> QED
          BY <2>2, <2>3
  <1>3. CASE ~HookSubmits /\ ~Apply
      <2>1. used' = used
          BY <1>3, WorkerSteps DEF Next, MainNext, Prepare, TryStage, JoinLate, JoinWarm, JoinHit, Forward,
             HookSkips, HookSnapshots, HookRaises, RunMain, RunSide
      <2>2. \A s \in StepIds : mode'[s] = "used" => mode[s] = "used"
          <3>1. ASSUME NEW m, step \in StepIds, mode' = [mode EXCEPT ![step] = m], m # "used"
                PROVE  \A s \in StepIds : mode'[s] = "used" => mode[s] = "used"
              BY <1>0, <3>1 DEF TypeOK
          <3>2. pc \in {"stage", "join"} => step \in StepIds
              BY <1>0, OwnModeUnset
          <3>3. CASE TryStage \/ JoinLate
              BY <3>1, <3>2, <3>3 DEF TryStage, JoinLate
          <3>4. CASE JoinWarm
              BY <3>1, <3>2, <3>4 DEF JoinWarm
          <3>5. CASE ~(TryStage \/ JoinLate \/ JoinWarm)
              BY <1>3, <3>5, WorkerSteps DEF Next, MainNext, Prepare, JoinHit, Forward, HookSkips,
                 HookSnapshots, HookRaises, RunMain, RunSide
          <3> QED
              BY <3>3, <3>4, <3>5
      <2> QED
          BY <1>0, <1>3, <2>1, <2>2, HookOfSteps DEF NewestInv
  <1> QED
      BY <1>1, <1>2, <1>3

\* The copies, in terms of the positions of the queue.
LEMMA CopiedDef ==
  ASSUME TypeOK, NEW s \in StepIds
  PROVE  Copied(s) <=> mode[s] = "used" /\ \A i \in 1 .. Len(mainQ) :
                          ~(mainQ[i].op = "dtod" /\ mainQ[i].step = s)
  <1>1. \A i \in 1 .. Len(mainQ) : mainQ[i] \in MainOps
      BY QueueTypes
  <1>2. DOMAIN mainQ = 1 .. Len(mainQ)
      BY QueueTypes, LenProperties
  <1>3. \A o \in MainOps : o = [op |-> "dtod", step |-> s] <=> o.op = "dtod" /\ o.step = s
      BY DEF MainOps
  <1> QED
      BY <1>1, <1>2, <1>3 DEF Copied

LEMMA StagedStep ==
  ASSUME IInv, Next
  PROVE  StagedInv'
  <1> USE DEF host, lever, worker, gpu, memory
  <1>0. TypeOK /\ TypeOK' /\ Places /\ StagedInv /\ CopyInv
      BY TypeStep DEF IInv
  <1>t. Len(mainQ) \in Nat
      BY <1>0, QueueTypes
  <1>c. \A s \in StepIds : Copied(s)' <=> mode'[s] = "used" /\ \A i \in 1 .. Len(mainQ') :
                               ~(mainQ'[i].op = "dtod" /\ mainQ'[i].step = s)
      <2> SUFFICES ASSUME NEW s \in StepIds
                   PROVE  Copied(s)' <=> mode'[s] = "used" /\ \A i \in 1 .. Len(mainQ') :
                               ~(mainQ'[i].op = "dtod" /\ mainQ'[i].step = s)
          OBVIOUS
      <2>1. mainQ' \in Seq(MainOps)
          BY <1>0 DEF TypeOK, MainOps
      <2>2. DOMAIN mainQ' = 1 .. Len(mainQ') /\ \A i \in 1 .. Len(mainQ') : mainQ'[i] \in MainOps
          BY <2>1, LenProperties, ElementOfSeq
      <2>3. \A o \in MainOps : o = [op |-> "dtod", step |-> s] <=> o.op = "dtod" /\ o.step = s
          BY DEF MainOps
      <2> QED
          BY <2>2, <2>3 DEF Copied
  <1>d. \A s \in StepIds : Copied(s) <=> mode[s] = "used" /\ \A i \in 1 .. Len(mainQ) :
                               ~(mainQ[i].op = "dtod" /\ mainQ[i].step = s)
      BY <1>0, CopiedDef
  <1>1. ASSUME UNCHANGED <<used, staged>>, \A s \in StepIds : mode'[s] = "used" => mode[s] = "used",
               \/ mainQ' = mainQ
               \/ /\ Len(mainQ') = Len(mainQ) + 1
                  /\ \A i \in 1 .. Len(mainQ) : mainQ'[i] = mainQ[i]
        PROVE  StagedInv'
      BY <1>0, <1>1, <1>c, <1>d, <1>t DEF StagedInv
  <1>2. CASE Apply
      <2> SUFFICES ASSUME NEW s \in StepIds, Copied(s)' PROVE staged'[s].gen = used'[s]
          BY DEF StagedInv
      <2>1. s # step
          BY <1>2, <1>c, ApplyFacts
      <2>2. mode[s] = "used"
          BY <1>2, <1>c, <2>1, ApplyFacts
      <2>3. Copied(s)
          BY <1>2, <1>d, <2>2, ApplyFacts
      <2> QED
          BY <1>0, <1>2, <2>1, <2>3, ApplyFacts DEF StagedInv
  <1>3. CASE RunMain
      <2> SUFFICES ASSUME NEW s \in StepIds, Copied(s)' PROVE staged'[s].gen = used'[s]
          BY DEF StagedInv
      <2>1. UNCHANGED <<mode, used, devRows>>
          BY <1>0, <1>3, RunMainFacts
      <2>2. CASE mainQ[1].op = "dtod" /\ mainQ[1].step = s
          <3>1. staged'[s] = devRows
              BY <1>0, <1>3, <2>2, RunMainFacts DEF TypeOK
          <3> QED
              BY <1>0, <1>3, <1>t, <2>1, <2>2, <3>1, RunMainFacts DEF CopyInv
      <2>3. CASE ~(mainQ[1].op = "dtod" /\ mainQ[1].step = s)
          <3>1. staged'[s] = staged[s]
              BY <1>0, <1>3, <2>3, RunMainFacts DEF TypeOK, MainOps
          <3>2. \A i \in 1 .. Len(mainQ) : i = 1 \/ (i - 1 \in 1 .. Len(mainQ') /\ mainQ[i] = mainQ'[i - 1])
              BY <1>0, <1>3, <1>t, RunMainFacts
          <3>3. Copied(s)
              BY <1>c, <1>d, <2>1, <2>3, <3>2
          <3> QED
              BY <1>0, <2>1, <3>1, <3>3 DEF StagedInv
      <2> QED
          BY <2>2, <2>3
  <1>m. ASSUME NEW m, step \in StepIds, mode' = [mode EXCEPT ![step] = m], m # "used"
        PROVE  \A s \in StepIds : mode'[s] = "used" => mode[s] = "used"
      BY <1>0, <1>m DEF TypeOK
  <1>4. CASE TryStage \/ JoinLate \/ JoinWarm
      <2>1. step \in StepIds
          BY <1>0, <1>4, OwnModeUnset DEF TryStage, JoinLate, JoinWarm
      <2>2. UNCHANGED <<used, staged, mainQ>>
          BY <1>4 DEF TryStage, JoinLate, JoinWarm
      <2>3. \A s \in StepIds : mode'[s] = "used" => mode[s] = "used"
          <3>1. CASE TryStage \/ JoinLate
              BY <1>m, <2>1, <3>1 DEF TryStage, JoinLate
          <3>2. CASE JoinWarm
              BY <1>m, <2>1, <3>2 DEF JoinWarm
          <3> QED
              BY <1>4, <3>1, <3>2
      <2> QED
          BY <1>1, <2>2, <2>3
  <1>5. CASE Prepare \/ Forward
      <2>1. /\ Len(mainQ') = Len(mainQ) + 1
            /\ \A i \in 1 .. Len(mainQ) : mainQ'[i] = mainQ[i]
          BY <1>0, <1>5, QueueFacts DEF Prepare, Forward, Places
      <2> QED
          BY <1>1, <1>5, <2>1 DEF Prepare, Forward
  <1>6. CASE JoinHit \/ HookSkips \/ HookSnapshots \/ HookSubmits \/ HookRaises \/ RunSide
      BY <1>1, <1>6 DEF JoinHit, HookSkips, HookSnapshots, HookSubmits, HookRaises, RunSide
  <1>7. CASE WorkerNext
      BY <1>1, <1>7, WorkerSteps
  <1> QED
      BY <1>2, <1>3, <1>4, <1>5, <1>6, <1>7 DEF Next, MainNext

------------------------------------------------------------------------------
LEMMA IInvInductive == IInv /\ [Next]_vars => IInv'
  <1> SUFFICES ASSUME IInv, [Next]_vars PROVE IInv'
      OBVIOUS
  <1>1. CASE Next
      BY <1>1, TypeStep, PlacesStep, WarmStep, JobsStep, SnapStep, UploadStep, WorkStep, CopyStep,
         StagedStep, NewestStep, VerifiedStep DEF IInv
  <1>2. CASE UNCHANGED vars
      <2> USE <1>2 DEF vars, host, lever, worker, gpu, memory, IInv
      <2>1. TypeOK' /\ Places'
          BY DEF TypeOK, Places
      <2>2. WarmInv' /\ JobsInv' /\ VerifiedFirst'
          BY DEF WarmInv, Refuted, Proved, JobsInv, Job, VerifiedFirst
      <2>3. SnapInv' /\ UploadInv'
          BY DEF SnapInv, Snapped, Current, UploadInv
      <2>4. WorkInv' /\ CopyInv'
          BY DEF WorkInv, Current, Uploaded, Job, CopyInv
      <2>5. StagedInv' /\ NewestInv'
          BY DEF StagedInv, Copied, NewestInv
      <2> QED
          BY <2>1, <2>2, <2>3, <2>4, <2>5
  <1> QED
      BY <1>1, <1>2

THEOREM InvCorrect == Spec => []IInv
  <1> QED
      BY InitInv, IInvInductive, PTL DEF Spec

\* Every reachable state is well typed.
THEOREM TypeCorrect == Spec => []TypeOK
  <1>1. IInv => TypeOK
      BY DEF IInv
  <1> QED
      BY <1>1, InvCorrect, PTL

\* Rows that are used are those of one prediction, whole, and no later hook's
\* prediction was passed over for it (_defer_try_stage, _defer_apply).
THEOREM UsedRowsNewestCorrect == Spec => []UsedRowsNewest
  <1>1. IInv => UsedRowsNewest
      BY DEF IInv, StagedInv, NewestInv, UsedRowsNewest, Copied
  <1> QED
      BY <1>1, InvCorrect, PTL

\* No row is used before WarmN predictions proved right, nor after one proved
\* wrong (_defer_check_warm).
THEOREM VerifiedFirstCorrect == Spec => []VerifiedFirst
  <1>1. IInv => VerifiedFirst
      BY DEF IInv
  <1> QED
      BY <1>1, InvCorrect, PTL
==============================================================================
