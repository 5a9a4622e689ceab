# Verification of the two-Spark DeepSeek-V4.1 serving recipe

TLA+ models of the concurrent and stateful parts of this repository, TLC
configurations that check them on small instances, and TLAPS proofs of the
properties that matter most for every value of the constants. `PROJECT.json`
lists the components, the runs, the hazards each property is aimed at, the
theorems, the findings, and for every definition the source lines it models.

    tlc -config P2bRefines.cfg MCP2bDataflow.tla    # any run
    tlapm P2bDataflowProofs.tla                     # any proof module

## 1. The system

The recipe serves one model on two nodes with vLLM. What is the repository's own
logic is in `docker/patch` (kernels and patches of vLLM that `sitecustomize.py`
installs at start-up), `run.sh`/`stop.sh` (launch on both nodes), `tools`
(making, checking and publishing the quantised pack) and
`docker/cooperative/runtime.py`. Benchmarks, evidence, `kernel_study` and
`docker/patch/attic` are measurement or retired code and are left aside.

### Inventory

| Component | State it keeps | Operations | What makes it hard | What makes it correct |
| --- | --- | --- | --- | --- |
| Fused MoE dataflow kernel, task loop (`widen_p2b_dataflow.py`, default on) | task counter, arrival word per 128-column block, readiness word per unit, scratch arrays | zero, input Hadamard, claim, tile, count, epilogue, release, wait, down tile, output, relaunch | every interleaving of co-resident blocks, weak memory, spinning waits, stale words in replays | no task twice, reads see what was stored, every wait ends, result = dependency graph |
| Fused MoE dataflow kernel, chunk build (same file) | sort, run and chunk arrays in shared memory | rank, find runs, cut chunks | threads write one array at once; boundaries at multiples of the row count | sorted, chunks partition the runs, control words do not overlap |
| Engram native stage and early hash (`engram_native_stage.py`, `engram_early_hash.py`, default on) | `hash_host`, `rows_host`, `_early_rec`, two levers with a verification budget | launch in `prepare_attn`, consume or hash late, C gather, verify, refill, upload | GPU copies in flight on the buffers the host refills; a launch without its `stage()`; partial failure | buffers quiet when filled, own hashes, verified rows exact |
| Engram CPU hash (`engram_cpu_hash.py`, opt-in) | pinned snapshots, `hash_host`, `rows_host`, generation, pending future, prediction, armed flag | snapshot, predict, gather, join, warm-up, serve, canary, drain | five processes on the same buffers, asynchronous disarm | a fast step serves one whole prediction of that step; a wrong one is bounded |
| Engram prefetch v3 (`engram_prefetch_v3.py`, default on) | pinned snapshot with a generation, expected row sets | enqueue, worker pass, census | torn snapshots, publication after consumption | an expectation is of one generation |
| Engram deferred upload (`engram_defer.py`, opt-in) | two pinned slots, `_df_dev`, generation, pending future, ready record, warm-up count | snapshot, enqueue, predict, gather, upload, join with timeout, apply, verify, disarm | slot reuse after a timeout; copies queued before the generation is bumped; two streams; rejected records | rows used are whole and of the newest generation; nothing is served before it was verified; a wedged worker delays no step for good |
| Engram stock path (`engram_disk.py`, `engram_gather_v2.py`, `engram_stage_fast.py`, ...) | table files, staging pool | row arithmetic, coalesced reads, census | error while several gathers run | rows owned by this rank, read once |
| MHC kernel and its overlap (`mhc_det*.py`, overlap opt-in) | at most one deferred launch, side stream, allocator, captured graph | defer, fork at the all-reduce, settle, capture, replay | CUDA-graph capture boundaries; buffers freed by Python while a stream uses them | a post reads its own coefficients; a captured graph is closed |
| NCCL eager twin (`nccl_eager_twin.py`, opt-in) | two communicators, lever gates | install, build a group, route a collective | captured and eager launches on one communicator; every gate can disarm | with mixing off no eager call meets a replay on its communicator |
| Launch (`run.sh`, `stop.sh`) | containers on two nodes, traps, flags of what was started | checks, start worker, wait, start head, wait, clean up, stop | ssh failures are "unknown", interrupts, two launches at once | a failed launch leaves nothing it could reach and tears nothing down without a cause; a serve that was up is spared |
| Requantisation (`tools/requant_full.py`) | `claims/`, `owner.json`, `done/`, manifest, `DONE`, shards and unit records on each node | claim, resume, encode, record, publish, assemble | two nodes, deaths anywhere, ssh cut off in the middle of a write, a stale manifest | one encoder per unit, records true, `DONE` only at the end, a snapshot of the recorded shards |
| Pack tools (`assemble_pack.sh`, `publish_pack.py`, `rebuild_index.py`, ...) | files | sequential transformations | - | left to their own checks |
| Cooperative runtime (`docker/cooperative/runtime.py`) | install-time flags | eligibility of one call | - | stateless |
| Numeric kernels and text patches | - | arithmetic | floating point | bit-exactness tests on the GPU |

### How the components interact

Per decode step the runner calls `prepare_attn` (early hash launch), then
`prepare_inputs` -> `EngramDiskStager.stage` (native stage, CPU hash or stock path:
all write `hash_host` and `rows_host`, exactly one of them serves a step), then the
captured graph (MHC kernel, all-reduces through the NCCL communicators, the fused
MoE kernel), then the post-propose hooks (prefetch v3, CPU hash, deferred upload)
that hand pinned snapshots to worker threads. The CPU hash and the deferred upload
rewrite `stage()`'s text; the native stage then disarms itself, so `NativeStage` and
`EngramCpuHash` are two systems and not two parts of one; `EngramDefer` is a third.
Inside a forward the overlap and the communicators meet: the all-reduce of a sublayer
forks the deferred half of its pre, and the twin decides which communicator that
all-reduce uses. `MhcOverlap` therefore extends `NcclTwin` and runs both together. The
launch scripts only start and stop the two ranks. The requantisation runs offline;
`Assemble` extends `Requant` because it reads what the workers write, while they may
still be running.

## 2. The modules

| Module | Models | Correspondence |
| --- | --- | --- |
| `P2bLayout` | task list, units, control words, scratch cells of the dataflow kernel | operators of the kernel's index expressions |
| `MoeDag` | what one launch promises: each cell computed once, after its inputs | abstract specification |
| `P2bDataflow` | `p2b_coop_df_kernel` | a process per thread block; `pc` is the place in the loop; `counter`, `act`, `ready` are the control words; `view`, `actView`, `readyView` are what acquire/release makes visible |
| `P2bInvariant` | the inductive invariant of `P2bDataflow` | - |
| `P2bBuild` | `p2b_df_build` and the control-word layout | one action per thread and loop pass; `Barrier` is `__syncthreads` |
| `NativeStage` | native stage and early hash | host thread and one GPU stream; a stream is a queue, an event a number of completed operations |
| `EngramCpuHash` | CPU hash | main thread, prediction worker, gather threads, main and side stream |
| `EngramDefer` | deferred upload | main thread, the pool's one worker, main and side stream; generations and slots as in the code, one table |
| `NcclTwin` | `nccl_eager_twin.py` on one rank | `install()` off, disarmed or armed; one construction per group; `Pick` is the routing of a call |
| `MhcOverlap` | `mhc_det_overlap.py`, `_pre` and `_post`, with `NcclTwin` | the host's loop over sublayers; streams are queues with record and await, a capture moves them into a graph, a replay runs it; buffers come from a first-fit allocator |
| `Launch` | `run.sh`, the copy it starts on the worker, `stop.sh` | per launch the line run.sh is at (`pc`) and the line its script on the worker is at (`remote`); `box` is the container of each node |
| `Requant` | `requant_full.py run` | a process per node; one action per store or file operation |
| `Assemble` | `requant_full.py assemble`, with `Requant` | one action per step of the call on a unit; `snap` is the new snapshot directory |
| `*Proofs` | TLAPS proofs | - |
| `MC*` | instances for TLC | - |

Data is reduced to what the properties tell apart. A hash or a row is the step it
is of and whether it is right; a shard is a version number; a scratch cell is the
name of the step that writes it. What a verified lever might get wrong is not
assumed away: in `NativeStage` the early hash may be of inputs that change
afterwards and the C gather may fill any set of tables wrongly or raise at any
table; in `EngramCpuHash` a prediction may be right, wrong in the window only, or
wrong in its tokens, and a snapshot of another step's input never gives a right one.

Memory in `P2bDataflow` is weak: a block sees a cell only if it wrote it, if a grid
barrier published it, or if it acquired from a counter into which a block that saw it
released. Read-modify-writes continue a release sequence, so what a counter has
published only grows. Control words start with any value of `Garbage`: the scratch is
`at::empty`.

In `Requant`, an ssh command may take effect or not before the worker dies, and a
write may be cut off so that the remote `cat > tmp && mv` installs an empty file. That
holds of each of a remote worker's writes: `units.json`, `owner.json`, `done/<unit>.json`,
the manifest and `DONE`. `index` is `units.json` as `init_state` finds it at every start:
absent (it is written), whole, or without text, and then no worker starts. The operator
starts workers again as long as `DONE` is missing. `Assemble`
may be stopped anywhere and called again; a file that `rsync --partial` was stopped in
stays under the shard's name.

In `EngramDefer` the snapshot copies of a hook read the device while the next step's
`prepare_inputs` may already write it: such a snapshot is `Torn`, and a worker may
predict from it. The generation check is where the code makes it.

In `Launch` an ssh call may end before the script it started, a container may crash in
any state, an interrupt may come at any trapped line. `worker_state` and the liveness
checks answer "unknown" for a failed ssh, as in the code. `docker` may fail too, and the
scripts do not take that alike: in `wait_ready` a failing `docker ps` reads as an exited
head (`HeadUnseen`); a clean-up that cannot clear a node goes on
(`CleanHeadFails`, `CleanWorkerUnreached`, kept in `missed`); `stop.sh` takes a failing
`docker ps` on the head or `docker rm` on the worker for a node without a container
(`StopLocalFails`, `StopRemoteFails`, kept in `overlooked`) and ends badly only when
`docker rm` fails on the head or ssh fails. `missed` and `overlooked` are history: the code
keeps no such record, and no guard reads them.

## 3. What the runs check

| Run | Instance | What it shows |
| --- | --- | --- |
| `p2b_refines` | 1 unit with 2 x 128 columns and 2 down groups, 2 blocks of 2 warps | nothing is read before it is visible to its reader; no task has two owners; a waiting block is served by one that does not wait; the kernel refines `MoeDag`; every launch ends with all cells computed |
| `p2b_build` | every routing of 6 pairs to 3 experts, chunks of 2 | sort, chunks, control words |
| `native_stage` | 4 batches, 2 tables, 1 verification per lever | no host access races with a queued copy; hashes are of the batch in hand; rows are exact unless a lever past its verification is relied on |
| `cpu_hash_safety` | 5 steps, 2 tables, 1 warm-up step, host up to 2 steps ahead | a fast step serves one whole prediction of that step; a wrong one is followed by at most one more fast step; no queued copy is overwritten; workers do not overlap; no step waits for good |
| `cpu_hash_stock`, `cpu_hash_warmup` | 4 and 3 steps | findings 1 and 2 |
| `engram_defer` | 5 steps, 2 requests, 1 warm-up step | rows used are whole and of the newest generation; nothing is served before it was verified; a wedged worker delays no step for good |
| `defer_stale` | the same | finding 4 |
| `mhc_overlap` | 4 forwards of 2 sublayers (eager, over-large, captured, replayed), 4 buffers, every outcome of the twin's install | a post reads its own coefficients; a captured graph is closed; with mixing off no eager collective meets a replay on its communicator |
| `launch` | 2 launches, `stop.sh`, 2 troubles | what a failed, a ready and a torn-down launch leave; what `stop.sh` clears; every launch ends |
| `requant` | 2 nodes, 3 units, one source missing on one node, assemble on the node of the state, 2 troubles | one encoder, true records, `DONE` only at the end, a snapshot of the recorded shards; restarted workers finish |
| `requant_orphan` | 2 units, 1 trouble | finding 3 |

Why the bounds are enough:

- `p2b_refines`: two blocks race for an arrival word, and one may wait while the other
  works; two 128-blocks and two groups make the readiness word count and the down tasks
  share it. `Warps` = 2 and `HadN` = 3 make the grid-stride loop uneven. With more units
  or blocks nothing new is asked of liveness, and the safety properties are proved for
  every number of either.
- `p2b_build`: six pairs over three experts give empty, short, exact and split runs for
  chunks of two.
- `cpu_hash_safety`: five steps are a wrong prediction, the step that joins behind its
  canary, and one step on either side; the number of steps the host runs ahead is bounded
  by the engine's own queue of batches.
- `native_stage`: four batches cover verification, trust, a dropped batch and the batch
  after it.
- `engram_defer`: one warm-up step, one step served, and a skipped hook or a second
  request between any two of them; both slots are used and reused. Requests are
  numbered in the order they are admitted, which loses nothing.
- `mhc_overlap`: an eager forward, a capture, and two replays or eager forwards beside a
  replay; four buffers are the fewest the code needs, so memory is reused at the first
  occasion; the host may leave two launches behind, so a replay is still running when the
  next forward starts.
- `launch`: two launches are the smallest number that can rob each other; two troubles
  are a failure and a failure of its clean-up, or of the `stop.sh` that follows.
- `requant`: two troubles give a death and a second failure at the resumed unit; with
  three units two workers can finish together and leave a manifest one unit behind.

### Fairness

- `P2bDataflow`: weak fairness of every block's work and of the two barriers. The
  launch is cooperative, so all blocks are resident and the hardware scheduler keeps
  running each. Nothing is assumed of the host: `Relaunch` is not fair.
- `EngramCpuHash`: weak fairness of each thread and each stream. Threads are
  scheduled by the OS; a stream executes what was queued.
- `EngramDefer`: weak fairness of the main thread and the two streams. The worker is NOT
  fair: the timeout of the join is there because it may be wedged.
- `Launch`: weak fairness of each launch and of its script on the worker, both being
  processes. Crashes, cut connections and interrupts are not fair and bounded by
  `Trouble`. No container has to come up: the readiness loop's own timeout ends it.
- `Requant`, `Assemble`: weak fairness of each worker, its restart by the operator
  included; deaths, STOP files, failed encodings and broken connections are not fair and
  bounded by `Trouble`, and nobody has to call assemble.
- `MhcOverlap`, `NativeStage` and `P2bBuild` state no fairness; they claim safety only.

`CHECK_DEADLOCK FALSE` is set where the system stops by itself: the build after its
last chunk, the engine after the last of the bounded steps, the workers after `DONE`.
`p2b_refines`, `mhc_overlap` and `launch` check deadlock.

## 4. What is proved

For every grid size, number of units, columns, groups, warps and any garbage:

- `P2bDataflowProofs`: `TypeCorrect`, `TasksOnce` (no task twice), `WaitsServed`,
  `FlowSafe` (the invariant), `ReadsVisible` (no read of a stale or unpublished cell),
  `KernelImplementsDag` (every step is a step of `MoeDag` or a stutter).

For every value of the constants of the other modules:

- `P2bBuildProofs`, for every routing, row count and thread order: `TypeCorrect`,
  `SlotsOnce`, `SortCorrect`, `ChunksCorrect`, `WordsCorrect`.
- `EngramCpuHashProofs`, for any number of steps, tables, warm-up steps and steps the host
  runs ahead: `InvCorrect`, `TypeCorrect`, `FastServesCorrect`, `RowsInFlightCorrect`,
  `NewerWorkerAloneCorrect`, `OneMoreAtMostCorrect`.
- `EngramDeferProofs`, for any number of steps, requests and warm-up steps: `InvCorrect`,
  `TypeCorrect`, `UsedRowsNewestCorrect`, `VerifiedFirstCorrect`.
- `RequantProofs`, for any nodes, units and number of troubles: `RequantInv`,
  `AssembleInv`, `OneEncoderAlways`, `RecordsTrue`, `DoneOnlyAtEnd`, `SnapshotIsRecorded`.
- `LaunchProofs`, for any number of launches and troubles: `TypeCorrect`, `LaunchInv`,
  `CleanUp`, `NoFalseTearDown`, `ReadyIsItsOwn`, `ServeSpared`, `StopWorks`.
- `NativeStageProofs`, for any number of batches, tables and verifications: `NativeInv`,
  `TypeCorrect`, `HostAlone`, `HashesAreOwn`, `RowsVerified`.
- `MhcOverlapProofs`, for any number of forwards, sublayers and buffers: `RoutesKept`,
  `NeverMixed`, `LanesKept`, `CoefficientsCorrect`, `WholeGraphsCorrect`.

The assumptions are the named `ASSUME`s of the modules, which TLC evaluates for
the instances: positive sizes (four buffers at least for the overlap: two
sublayers' coefficients, scratch and output are alive at once), finitely many requests,
and that the host launches the build only when the pairs fit the sort array.
The bounds on steps, forwards, launches, troubles and run-ahead are constants too, so the
theorems hold for each of them.

The kernel's invariant has three layers, each proved with the ones below.
`TypeInv`: the barriers keep all blocks in the same third of the launch, and where
a block is says what its task can be. `DealInv`: tasks below `counter + G` are each
held by exactly one block or stored, later ones are neither; this is what makes
`NoTaskTwice` inductive, and with the order of the task list (all gate/up tiles
first) it gives `WaitsAreServed`. `FlowInv`: an arrival word equals the number of
counted tiles of its 128-block, so the fourth arrival elects exactly one block; a
readiness word equals the number of released 128-blocks; and the views published
into a word contain the cells it counts. Reading after the election or after the
wait is then reading what is in view. `P2bDataflowProofs` also holds the facts about
division the counters need (four tasks per key, `Hb` keys per unit).

The build's argument: `Before` is a total order, so ranks are distinct and fill
`0 .. Pairs - 1`; a slot written is never written again. The two scans of a slot find its run, the maximal interval of one expert around it (`RunEnds`,
`RunInv`). A chunk starts at a multiple of the chunk size within its run, and is full or
ends with the run (`Cut`); so the scan for the next start finds nothing before the chunk's
end, and what is found there is the same run's next multiple or the next run (`Follows`).

`Requant`'s invariant `IInv`: the owner file of a claimed unit names the only node
that may hold it, and is absent while the claim is being made (so mkdir decides);
a record's unit is held by nobody, and its owner has it in its listing whenever it
scans (so it is never taken again and its shard never changes); what a worker has
read are records, and records stay.

`Assemble` adds `AInv`: what a call goes by are the records (`ManInv`), and these stay; a
file it has checked is good, and nobody replaces it, because a recorded unit is held by
no worker (`DoneBacked`) and a fetch only fills a place that was empty. So whatever an
earlier call linked is what the record says.

`Launch`'s invariant says where a launch stands says what it may have started and not yet
cleaned (`Placed`), who may hold a node's container (`Held`), which earlier serve it may
still touch (`Spared`: none, once it is past its checks), and what is gone after each
half of `stop.sh`, docker willing (`Stopped`). The properties are about the history of several processes
(`lostTo`, `upAt`, `why`), so none is inductive alone.

`NativeStage`'s invariant: the event a batch waits for stands behind the last hash queued
for it, so the wait empties the stream of everything that writes `hash_host`
(`HashInv`); queued uploads are of rows the host leaves alone until they ran (`RowsInv`,
`UploadsExact`); and as long as a lever is in its verification its output was compared.

`MhcOverlapProofs`: a process whose constructor is not wrapped has mixing on (`TwinInv`,
`ColdInv`), a tp group made with mixing off has a twin, eager calls are routed with
`Pick(FALSE)` and captured ones with `Pick(TRUE)` (`RouteInv`), and what is running is
either (`RunInv`). Hence an eager call and a replay meet on one communicator only if it
was made with mixing on.

The streams need a happens-before argument. `Before` orders two queued operations by their
stream or by a record one of them passes and an await the other stands behind. Each queued
read is `Served` (`LanesKept`): the operation that makes its value is still queued before
it, or has left the value there already, and every other writer of that buffer runs after
the read or before the maker. `Sure` and `Clear` say the same of the read, or the fork, the
host may append next. The deferred launch keeps its buffers alive (`Pending.keep`), and a
first-fit allocator only hands out buffers nobody keeps; that is why a later writer of a
buffer is always ordered after its last read. For a graph under capture the same holds of
a memory that contains nothing, so every read's maker must be inside the graph
(`WholeGraphs`), and a replay started later, in whatever memory, serves its reads itself.

`EngramCpuHash`'s invariant: there is one prediction job at a time and it is the last in
the pool's queue; gathers in flight belong to the stock path while the main thread waits
for them, or to the newest generation (`TasksInv`). Uploads the next worker would disturb
stand, on the main stream, before what its snapshot awaits on the side stream, so they ran
when the worker starts to write (`SnapInv`). While the main thread has seen the lever armed
(`Trusting`), a prediction is carried whole from the job to `guess`, `hash_host` and
`rows_host`, and from there to the record (`GuessInv`, `FastInv`). When a wrong prediction
was served and the lever is armed, the canary that will find it is in the queue ahead of
the next prediction, so the step that joins that prediction finds the lever disarmed: one
more fast step, no second (`CanaryInv`).

`EngramDefer`'s invariant follows the newest generation from its snapshot to the worker's
guess, the pinned slot, the queued upload, `_df_dev` and the copy into the staged rows: at
each place either what is there is of the newest generation and whole, or its record can
no longer be accepted. A superseded worker may still write its slot and queue its upload,
but the pool's one worker does its jobs in order, so the last upload queued is that of the
record in hand (`Uploaded`), and uploads queued later wait for the copies queued before
them (`CopyInv`). `VerifiedFirst` needs that while the lever is armed no step was refuted
and at least `warm` steps proved right (`WarmInv`).

Only model-checked: the liveness properties (`LaunchFinishes`, `StepsEnd`,
`StepsPassTheWorker`, `LaunchEnds`, `RecoversElsewhere`), which are out of the prover's
reach. The violation runs' properties are false and so have no theorem. Every invariant of
a passing run is a theorem.

## 5. Findings

1. `cpu_hash_stock` / `StockPathAlone` (`engram_cpu_hash.py:797`). The canary, or a
   failed gather, disarms the lever between two steps. The next `stage()` sees it
   unarmed and takes the stock path without joining the pending worker; the worker,
   or gathers it left behind when it raised on the first failed one (`:747-750`),
   still write `hash_host` and `rows_host`. The comment at `:446-448` says the worker is
   joined so that it never does. A short trace: serve step s, canary mismatch, step
   s + 1 stock while the worker predicts s + 1.
2. `cpu_hash_warmup` / `WarmupExact` (`:925-946`). Stage B of the warm-up compares the
   predicted ids and positions, not the predicted window (and not `hash_host`), which
   the comment at `:832` includes. A prediction wrong only in the window is accepted and
   its rows are served, also with the warm-up on. `OneMoreAtMost` shows what the canary
   bounds afterwards in steady state.
3. `requant_orphan` / `ClaimsGetDone` (`requant_full.py:319-325`). A worker that dies
   between the claim's mkdir and `owner.json`, or whose write of it is cut off, leaves a
   claim that reads as nobody's; no worker resumes it, although the docstring says a
   worker resumes its own unfinished claims. `RecoversElsewhere` shows what else can keep
   the pack from being finished: an empty `done` record of one unit, and, for all of them,
   a `units.json` left empty by a cut-off of the first write (`:304`), at which
   `json.loads` raises in every later start (`:305`).
4. `defer_stale` / `PredictedForThisStep` (`engram_defer.py:602`). A record that
   `_defer_try_stage` rejects for its signature is neither consumed nor invalidated. The
   trace: a prefill; step {a}, whose hook is generation 1; step {a}, verified, hook 2; step
   {a, b} rejects the record by its signature, and its own hook is skipped; step {a} alone
   has the signature again and is served the rows predicted for the step before. The
   docstring (`:37-43`) says a mismatch takes the synchronous path and the worker re-syncs
   at the next enqueue; the enqueue that did not happen is what is missed.

Smaller observations, without a run:

- `enqueue_defer` skips every batch of two or more requests: `query_start_loc` is
  cumulative, so `sum(qsl_l[1:]) != num_tokens` holds for all of them. The lever serves lone
  requests only.
- A pinned slot can be rewritten while the upload of a superseded record is still queued,
  contrary to the comment at `engram_defer.py:519-520`. What is uploaded then is never
  applied (`UsedRowsNewest`).
- With the twin's lever on, an `install()` that disarms leaves a preset
  `NCCL_GRAPH_MIXING_SUPPORT=0` as it is (`nccl_eager_twin.py:322-324`, against the docstring
  at `:53-55`). `run.sh` never forwards the variable, so the model does not start there.
- `run.sh` checks the port once: a serve that comes up after the check is not spared
  (`UpServeSpared` is about one that was up when the launch began).
- `stop.sh:37` turns a failing `docker rm -f` on the worker into "No remote container" and
  exits 0, and `stop_local` (`:14`) takes a failing `docker ps` for no container: `stop.sh`
  can end well with a rank still loaded, although `run.sh:740` says "./stop.sh stops both
  ranks". One docker failure after a launch shows it; `StopsWhereItCould` says that these
  are the only nodes left out.
- The ssh that starts the worker (`run.sh:743`) may break when the script over there has
  removed the old container and not yet started its own. `set -e` ends the launch, its
  clean-up finds nothing to remove, and the script then starts the rank: a failed boot
  leaves it loaded, against the comment at `run.sh:586-588`. `FailureLeavesNothing` excepts
  exactly this (`cut`) and a clean-up that failed (`missed`).
- A `docker ps` that fails once on the head while the model loads reads as "Container exited
  early" (`run.sh:643`) and tears the launch down; on the worker the same failure is
  "unknown" (`run.sh:561-566`). `TearDownHasCause` holds of the second only.
- Temporary names in the state directory are `.<name>.<pid>.tmp` (`requant_full.py:208`,
  `:264`). Two workers in containers of their own may have the same pid; writing the same
  file (the manifest, `units.json`) they would share the temporary. The model publishes
  atomically.
- A file that `rsync --partial` leaves in `shards/` makes every later `assemble` fail at
  the size check, until somebody deletes it: `assemble` skips the copy of a file that is
  there (`requant_full.py:777-782`). Safe (`SnapshotTrue`), but it does not resume.
- Prefetch v3 publishes without a lock against its consumer: a late publication pairs a
  prediction with a later gather, and the union of two publications may count rows twice
  (against the comment at `engram_prefetch_v3.py:553-556`). Only the census and page-cache
  advice depend on it, and the default native stage does not consume it at all.

## 6. What is not modelled

- The values the kernels compute, the L2 prefetch hints and instruction-level
  details of the tiles; `s_df`, the shared word by which thread 0 tells its block the
  task, with its `__syncthreads` (planned).
- Hashes as arithmetic: the models only say whether a hash is of the right tokens and
  window. `EngramDefer` has one table; the others follow the same path in one loop.
- The packed-weight cache and the boot self-test of the MHC kernel: one choice between
  engaged and not.
- Python older than 3.11, where the timeout of a future is not a `TimeoutError`.
- `EngramCpuHash.Gather` reads a table's hash and writes its rows in one step; a disarmed
  gather is caught by what it may still write, not by a torn row.
- A clean-up's or stop.sh's ssh that breaks after docker removed the container: as if it
  had been reached, or as if it had not.
- Process-ending errors of the stock path: the engine dies, nothing follows.
- Text patching at start-up: each patch refuses to install on text it does not know.
- `encode` (one unit, by hand) and `status` (reads only) of `requant_full.py`; state
  files cut off after the first bytes. Most are one small packet, and nothing reads the
  manifest back; a part of `units.json` stops every start as an empty one does; the temporary names two workers may share; the
  snapshot's entries that are not unit shards.
- Prefetch v3: see the observation above; a wrong pairing changes no result.
- The components that `PROJECT.json` lists as not modelled.

Most of the repository's Python and CUDA is of three kinds that have no state of several
steps to check: numeric kernels (their correctness is bit-exactness on the GPU), text
patches applied once at start-up, and copies of patched files kept as evidence under
`results/`, which repeat code modelled at its home in `docker/patch`. The models cover the
code that keeps state across steps, threads, streams, processes and nodes.

## 7. Plan

1. `P2bBroadcast`: the intra-block protocol of `s_df` under the two barriers, shown to
   implement the atomic `Claim`/`Advance` of `P2bDataflow`.
2. `EngramPrefetch`: the generation check over the pinned snapshot and the census.
3. The row arithmetic of `engram_disk.py` and `engram_gather_v2.py` against a reference
   definition.
4. Proofs: the step-by-step refinement of `P2bBroadcast` when it is written, and the
   safety of the prefetch generation check.
