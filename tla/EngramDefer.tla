----------------------------- MODULE EngramDefer -----------------------------
(***************************************************************************)
(* The deferred Engram upload (docker/patch/engram_defer.py).  After a     *)
(* step with one decoding request the runner snapshots the step to pinned  *)
(* memory on a side stream; a worker thread predicts the request's next    *)
(* chunk, gathers its rows into one of two pinned slots, uploads them on   *)
(* the side stream and publishes a record.  The next stage() whose batch   *)
(* has the record's signature copies the rows on the device; any other     *)
(* stage() gathers synchronously.                                          *)
(*                                                                         *)
(* The main thread, the worker and two GPU streams run concurrently.  A    *)
(* stream is the queue of what it has yet to execute, an event the number  *)
(* of operations completed when it fires.                                  *)
(***************************************************************************)
EXTENDS Integers, FiniteSets, Sequences

CONSTANTS
    Reqs,    \* requests, numbered as they are admitted, each at most once
    Steps,   \* engine steps to run (a bound)
    WarmN    \* _df_warm_n, predicted steps that are verified and not used

ASSUME DeferAssumption ==
    /\ IsFiniteSet(Reqs) /\ Reqs \subseteq Nat
    /\ Steps \in Nat \ {0}
    /\ WarmN \in Nat

StepIds == 1 .. Steps

VARIABLES
    \* the main thread
    step, pc,
    live, done,   \* requests being served, requests that ended
    prefill,      \* has_prefill of the step's batch
    mode,         \* step -> how stage() filled the rows
    used,         \* step -> the generation whose rows it used, or 0
    \* the lever
    armed, gen, slot, pending, ready, seen, warm,
    hookOf,       \* generation -> the step its hook ended
    \* the worker
    jobs, wpc, doneGen, guess,
    \* the streams
    mainQ, mainDone, sideQ, sideDone, snapEv, h2dEv,
    \* memory
    devIn, devOut,   \* the step whose inputs, whose outputs, the device holds
    pins,            \* the snapshot: the generation and step it is of
    pinRows,         \* the two pinned slots
    devRows,         \* _df_dev
    staged           \* step -> the rows the forward pass read

host   == <<step, pc, live, done, prefill, mode, used>>
lever  == <<armed, gen, slot, pending, ready, seen, warm, hookOf>>
worker == <<jobs, wpc, doneGen, guess>>
gpu    == <<mainQ, mainDone, sideQ, sideDone, snapEv, h2dEv>>
memory == <<devIn, devOut, pins, pinRows, devRows, staged>>
vars   == <<host, lever, worker, gpu, memory>>

\* Rows, or a snapshot: the generation whose hook took it, and the step it is
\* of; Torn when two snapshots, or two steps, are mixed in it.
Torn == -1
None == [gen |-> 0, of |-> 0]
NotReady == [gen |-> 0, slot |-> 0, req |-> {}]

Init ==
    /\ step = 1 /\ pc = "prepare" /\ live = {} /\ done = {} /\ prefill = FALSE
    /\ mode = [s \in StepIds |-> "none"] /\ used = [s \in StepIds |-> 0]
    /\ armed = TRUE /\ gen = 0 /\ slot = 0 /\ pending = 0 /\ ready = NotReady
    /\ seen = 0 /\ warm = 0 /\ hookOf = [g \in StepIds |-> 0]
    /\ jobs = << >> /\ wpc = "wait" /\ doneGen = 0 /\ guess = None
    /\ mainQ = << >> /\ mainDone = 0 /\ sideQ = << >> /\ sideDone = 0
    /\ snapEv = 0 /\ h2dEv = 0
    /\ devIn = 0 /\ devOut = 0 /\ pins = None
    /\ pinRows = [i \in {0, 1} |-> None] /\ devRows = None
    /\ staged = [s \in StepIds |-> None]

------------------------------------------------------------------------------
(* Streams. *)
SideIssued == sideDone + Len(sideQ)
MainIssued == mainDone + Len(mainQ)

OnMain(op) == mainQ' = Append(mainQ, [op |-> op, step |-> step])

\* Mutant: wait_stream under the side stream, where it waits for nothing.
OnSideSelfWait(op, g, s) == sideQ' = Append(sideQ, [op |-> op, gen |-> g, slot |-> s, after |-> 0])

(* wait_stream(main), then op on the side stream. *)
OnSide(op, g, s) == sideQ' = Append(sideQ, [op |-> op, gen |-> g, slot |-> s, after |-> MainIssued])

(* prepare_inputs fills the input buffers, the forward pass and the drafter
   the outputs, the DtoD copies read _df_dev. *)
RunMain ==
    /\ mainQ # << >>
    /\ LET o == Head(mainQ) IN
       /\ devIn'  = IF o.op = "prepare" THEN o.step ELSE devIn
       /\ devOut' = IF o.op = "forward" THEN o.step ELSE devOut
       /\ staged' = IF o.op = "dtod" THEN [staged EXCEPT ![o.step] = devRows] ELSE staged
    /\ mainQ' = Tail(mainQ)
    /\ mainDone' = mainDone + 1
    /\ UNCHANGED <<host, lever, worker, sideQ, sideDone, snapEv, h2dEv, pins, pinRows, devRows>>

(* The snapshot's copies, and the H2D copies of one slot. *)
RunSide ==
    /\ sideQ # << >>
    /\ LET o == Head(sideQ) IN
       /\ mainDone >= o.after
       /\ pins' = IF o.op = "snapshot"
                  THEN [gen |-> o.gen, of |-> IF devIn = devOut THEN devIn ELSE Torn]
                  ELSE pins
       /\ devRows' = IF o.op = "h2d" THEN pinRows[o.slot] ELSE devRows
    /\ sideQ' = Tail(sideQ)
    /\ sideDone' = sideDone + 1
    /\ UNCHANGED <<host, lever, worker, mainQ, mainDone, snapEv, h2dEv, devIn, devOut, pinRows, staged>>

------------------------------------------------------------------------------
(* The worker, the pool's one thread: _defer_worker. *)
Job == jobs[1]
At(place) == jobs # << >> /\ wpc = place
JobDone == /\ jobs' = Tail(jobs)
           /\ wpc' = "wait"
           /\ doneGen' = Job.gen

(* snap_ev has fired: superseded, or begin to read the snapshot. *)
WorkerWakes ==
    /\ At("wait")
    /\ sideDone >= snapEv
    /\ \/ gen # Job.gen /\ JobDone /\ UNCHANGED guess
       \/ /\ gen = Job.gen
          /\ guess' = pins
          /\ wpc' = "read"
          /\ UNCHANGED <<jobs, doneGen>>
    /\ UNCHANGED <<host, lever, gpu, memory>>

(* The rest of the snapshot, and _defer_predict, which may find none. *)
WorkerPredicts ==
    /\ At("read")
    /\ \/ JobDone /\ UNCHANGED guess
       \/ /\ guess' = IF pins = guess THEN guess ELSE [guess EXCEPT !.gen = Torn]
          /\ wpc' = "gather"
          /\ UNCHANGED <<jobs, doneGen>>
    /\ UNCHANGED <<host, lever, gpu, memory>>

(* The gathers of every table into the job's slot. *)
WorkerGathers ==
    /\ At("gather")
    /\ pinRows' = [pinRows EXCEPT ![Job.slot] = guess]
    /\ wpc' = "upload"
    /\ UNCHANGED <<host, lever, jobs, doneGen, guess, gpu, devIn, devOut, pins, devRows, staged>>

(* h2d_ev of the previous upload, then the H2D copies and the new h2d_ev. *)
WorkerUploads ==
    /\ At("upload")
    /\ sideDone >= h2dEv
    /\ OnSide("h2d", Job.gen, Job.slot)
    /\ h2dEv' = SideIssued + 1
    /\ wpc' = "publish"
    /\ UNCHANGED <<host, lever, jobs, doneGen, guess, mainQ, mainDone, sideDone, snapEv, memory>>

WorkerPublishes ==
    /\ At("publish")
    /\ ready' = [gen |-> Job.gen, slot |-> Job.slot, req |-> Job.req]
    /\ wpc' = "return"
    /\ UNCHANGED <<host, armed, gen, slot, pending, seen, warm, hookOf, jobs, doneGen, guess, gpu, memory>>

WorkerReturns ==
    /\ At("return")
    /\ JobDone
    /\ UNCHANGED <<host, lever, guess, gpu, memory>>

(* Any exception disarms the lever. *)
WorkerRaises ==
    /\ \E place \in {"read", "gather", "upload"} : At(place)
    /\ armed' = FALSE
    /\ JobDone
    /\ UNCHANGED <<host, gen, slot, pending, ready, seen, warm, hookOf, guess, gpu, memory>>

WorkerNext == WorkerWakes \/ WorkerPredicts \/ WorkerGathers \/ WorkerUploads
              \/ WorkerPublishes \/ WorkerReturns \/ WorkerRaises

------------------------------------------------------------------------------
(* The main thread. *)
Goto(place) == pc' = place

(* The scheduler ends requests and admits new ones; every live request is in
   the batch.  prepare_inputs queues the kernels that fill the input buffers. *)
Prepare ==
    /\ pc = "prepare"
    /\ step <= Steps
    /\ \E ends \in SUBSET live, new \in SUBSET (Reqs \ (live \cup done)) :
         /\ \A r \in new, q \in Reqs \ (live \cup done \cup new) : r < q
         /\ live' = (live \ ends) \cup new
         /\ live' # {}
         /\ done' = done \cup ends
         /\ prefill' = (new # {})
    /\ OnMain("prepare")
    /\ Goto("stage")
    /\ UNCHANGED <<step, mode, used, lever, worker, mainDone, sideQ, sideDone, snapEv, h2dEv, memory>>

(* The signature of the batch: its requests and its decode shape. *)
SameBatch == ready.req = live /\ ~prefill

\* Mutant: a superseded record is not refused.
AcceptsOlder == /\ ready.gen > seen
                /\ pending # 0
                /\ SameBatch

(* The checks of _defer_try_stage, in their order. *)
Accepts == /\ ready.gen > seen
           /\ ready.gen = gen
           /\ pending = ready.gen
           /\ SameBatch

(* stage(): the stock hash and its synchronisation, then _defer_try_stage. *)
TryStage ==
    /\ pc = "stage"
    /\ mainQ = << >>
    /\ \/ armed /\ Accepts /\ Goto("join") /\ UNCHANGED mode
       \/ /\ ~(armed /\ Accepts)
          /\ Goto("forward")
          /\ mode' = [mode EXCEPT ![step] = "sync"]
    /\ UNCHANGED <<step, live, done, prefill, used, lever, worker, gpu, memory>>

\* Mutant: the join has no timeout.
JoinForever == FALSE /\ UNCHANGED vars

(* The 2 s pass before the worker returned. *)
JoinLate ==
    /\ pc = "join"
    /\ doneGen < pending
    /\ mode' = [mode EXCEPT ![step] = "sync"]
    /\ Goto("forward")
    /\ UNCHANGED <<step, live, done, prefill, used, lever, worker, gpu, memory>>

(* What the synchronous gather of this step finds: the prediction is right
   when it is of the step before. *)
RowsMatch == pinRows[ready.slot].of = step - 1

\* Mutant: the result of the comparison is ignored.
MatchUnread == TRUE

Matches == RowsMatch

(* The join ends: one more verified step, or the rows are used. *)
JoinWarm ==
    /\ pc = "join"
    /\ doneGen >= pending
    /\ warm < WarmN
    /\ seen' = ready.gen
    /\ warm' = warm + 1
    /\ armed' = (armed /\ Matches)
    /\ mode' = [mode EXCEPT ![step] = IF RowsMatch THEN "verified" ELSE "refuted"]
    /\ Goto("forward")
    /\ UNCHANGED <<step, live, done, prefill, used, gen, slot, pending, ready, hookOf, worker, gpu, memory>>

JoinHit ==
    /\ pc = "join"
    /\ doneGen >= pending
    /\ warm >= WarmN
    /\ seen' = ready.gen
    /\ Goto("apply")
    /\ UNCHANGED <<step, live, done, prefill, mode, used, armed, gen, slot, pending, ready, warm, hookOf,
                   worker, gpu, memory>>

\* Mutant: the copies are queued without waiting for the upload.
ApplyAtOnce ==
    /\ pc = "apply"
    /\ OnMain("dtod")
    /\ mode' = [mode EXCEPT ![step] = "used"]
    /\ used' = [used EXCEPT ![step] = ready.gen]
    /\ Goto("forward")
    /\ UNCHANGED <<step, live, done, prefill, lever, worker, mainDone, sideQ, sideDone, snapEv, h2dEv, memory>>

(* _defer_apply: h2d_ev, then one DtoD per table on the main stream. *)
Apply ==
    /\ pc = "apply"
    /\ sideDone >= h2dEv
    /\ OnMain("dtod")
    /\ mode' = [mode EXCEPT ![step] = "used"]
    /\ used' = [used EXCEPT ![step] = ready.gen]
    /\ Goto("forward")
    /\ UNCHANGED <<step, live, done, prefill, lever, worker, mainDone, sideQ, sideDone, snapEv, h2dEv, memory>>

(* The forward pass, sampling and drafting of the step. *)
Forward ==
    /\ pc = "forward"
    /\ OnMain("forward")
    /\ Goto("hook")
    /\ UNCHANGED <<step, live, done, prefill, mode, used, lever, worker, mainDone, sideQ, sideDone,
                   snapEv, h2dEv, memory>>

NextStep == step' = step + 1 /\ Goto("prepare")

(* enqueue_defer returns early: disarmed, a prefill, a batch of several requests,
   whose query_start_loc never passes the shape check (sum(qsl[1:]) #
   num_tokens), or one whose shape or drafts do not suit it. *)
HookSkips ==
    /\ pc = "hook"
    /\ NextStep
    /\ UNCHANGED <<live, done, prefill, mode, used, lever, worker, gpu, memory>>

(* The snapshot's copies are queued and snap_ev recorded ... *)
HookSnapshots ==
    /\ pc = "hook"
    /\ armed /\ ~prefill /\ Cardinality(live) = 1
    /\ OnSide("snapshot", gen + 1, 0)
    /\ snapEv' = SideIssued + 1
    /\ Goto("submit")
    /\ UNCHANGED <<step, live, done, prefill, mode, used, lever, worker, mainQ, mainDone, sideDone, h2dEv, memory>>

\* Mutant: the slot is counted up, not toggled.
HookCountsSlots ==
    /\ pc = "submit"
    /\ gen' = gen + 1
    /\ slot' = slot + 1
    /\ pending' = gen + 1
    /\ hookOf' = [hookOf EXCEPT ![gen + 1] = step]
    /\ jobs' = Append(jobs, [gen |-> gen + 1, slot |-> slot, req |-> live])
    /\ NextStep
    /\ UNCHANGED <<live, done, prefill, mode, used, armed, ready, seen, warm, wpc, doneGen, guess, gpu, memory>>

(* ... then the generation is bumped and the worker called. *)
HookSubmits ==
    /\ pc = "submit"
    /\ gen' = gen + 1
    /\ slot' = 1 - slot
    /\ pending' = gen + 1
    /\ hookOf' = [hookOf EXCEPT ![gen + 1] = step]
    /\ jobs' = Append(jobs, [gen |-> gen + 1, slot |-> slot, req |-> live])
    /\ NextStep
    /\ UNCHANGED <<live, done, prefill, mode, used, armed, ready, seen, warm, wpc, doneGen, guess, gpu, memory>>

(* An exception after the copies: no prediction, the lever stays armed. *)
HookRaises ==
    /\ pc = "submit"
    /\ pending' = 0
    /\ NextStep
    /\ UNCHANGED <<live, done, prefill, mode, used, armed, gen, slot, ready, seen, warm, hookOf, worker, gpu, memory>>

MainNext == Prepare \/ TryStage \/ JoinLate \/ JoinWarm \/ JoinHit \/ Apply \/ Forward
            \/ HookSkips \/ HookSnapshots \/ HookSubmits \/ HookRaises

------------------------------------------------------------------------------
Next == MainNext \/ WorkerNext \/ RunMain \/ RunSide

Spec == Init /\ [][Next]_vars

(* The main thread and the streams make progress; the worker may be wedged. *)
FairSpec == Spec /\ WF_vars(MainNext) /\ WF_vars(RunMain) /\ WF_vars(RunSide)

------------------------------------------------------------------------------
Gens == 0 .. Steps
Data == [gen : Gens \cup {Torn}, of : Gens \cup {Torn}]

TypeOK ==
    /\ step \in 1 .. (Steps + 1)
    /\ pc \in {"prepare", "stage", "join", "apply", "forward", "hook", "submit"}
    /\ live \subseteq Reqs /\ done \subseteq Reqs /\ live \cap done = {}
    /\ prefill \in BOOLEAN
    /\ mode \in [StepIds -> {"none", "sync", "verified", "refuted", "used"}]
    /\ used \in [StepIds -> Gens]
    /\ armed \in BOOLEAN
    /\ gen \in Gens /\ pending \in Gens /\ seen \in Gens /\ doneGen \in Gens
    /\ slot \in {0, 1} /\ warm \in 0 .. WarmN
    /\ ready \in [gen : Gens, slot : {0, 1}, req : SUBSET Reqs]
    /\ hookOf \in [StepIds -> Gens]
    /\ jobs \in Seq([gen : Gens, slot : {0, 1}, req : SUBSET Reqs])
    /\ wpc \in {"wait", "read", "gather", "upload", "publish", "return"}
    /\ mainQ \in Seq([op : {"prepare", "dtod", "forward"}, step : StepIds])
    /\ sideQ \in Seq([op : {"snapshot", "h2d"}, gen : Gens, slot : {0, 1}, after : Nat])
    /\ {mainDone, sideDone, snapEv, h2dEv} \subseteq Nat
    /\ {devIn, devOut} \subseteq Gens
    /\ {guess, pins, devRows} \subseteq Data
    /\ pinRows \in [{0, 1} -> Data] /\ staged \in [StepIds -> Data]

\* The DtoD copy of step s has run.
Copied(s) == mode[s] = "used" /\ \A i \in DOMAIN mainQ : mainQ[i] # [op |-> "dtod", step |-> s]

\* Rows that are used are those of one prediction, whole: not of a snapshot
\* that the next hook was already overwriting, not of an upload still under
\* way; and no later hook made a prediction that was passed over for it.
UsedRowsNewest ==
    \A s \in StepIds : Copied(s) =>
        /\ staged[s].gen = used[s]
        /\ \A g \in (used[s] + 1) .. gen : hookOf[g] >= s

\* "The first warm_n predicted steps ALSO run the sync gather and bit-compare":
\* no row is used before WarmN predictions proved right, nor after one proved
\* wrong.
VerifiedFirst ==
    \A s \in StepIds : mode[s] = "used" =>
        /\ Cardinality({t \in 1 .. (s - 1) : mode[t] = "verified"}) >= WarmN
        /\ \A t \in 1 .. (s - 1) : mode[t] # "refuted"

\* "A wedged worker at worst makes every later step a silent miss": a step
\* comes to its end whatever the worker does, or does not do.
StepsPassTheWorker == pc = "stage" ~> pc = "prepare"

\* The record's "generation+batch signature matches this step's batch": the
\* rows that are used were predicted for this step, by the hook of the step
\* before.
PredictedForThisStep == \A s \in StepIds : mode[s] = "used" => hookOf[used[s]] = s - 1
==============================================================================
