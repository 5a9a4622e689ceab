------------------------------ MODULE NativeStage ------------------------------
(***************************************************************************)
(* The default decode path of the Engram tables: engram_early_hash.py      *)
(* launches a step's hash and its copy to hash_host in prepare_attn,       *)
(* stage() of engram_native_stage.py consumes it (or hashes late), fills   *)
(* rows_host from the tables in C, and queues the copies to the device.    *)
(* Both levers verify their first calls against the stock code and disarm  *)
(* for good at the first mismatch or error.                                *)
(*                                                                         *)
(* One host thread and one GPU stream: the queue of what it has yet to     *)
(* execute.  What the levers are verified for (the inputs of the hash are  *)
(* final in prepare_attn; the C gather computes what the stock one does)   *)
(* is not assumed: either may fail at any call.                            *)
(***************************************************************************)
EXTENDS Integers, Sequences

CONSTANTS
    Steps,         \* batches to run (a bound)
    QueueCap,      \* operations the host may queue ahead (a bound)
    Tables,        \* Engram tables, numbered 1 .. Tables
    EarlyVerify,   \* DSV41_ENGRAM_EARLY_VERIFY, at least 1
    NativeVerify   \* DSV41_ENGRAM_NATIVE_VERIFY, at least 1

ASSUME NativeAssumption ==
    /\ Steps \in Nat \ {0}
    /\ QueueCap \in Nat \ {0}
    /\ Tables \in Nat \ {0}
    /\ EarlyVerify \in Nat \ {0}
    /\ NativeVerify \in Nat \ {0}

BatchIds == 1 .. Steps
TableIds == 1 .. Tables

\* A prefill is larger than nat.max_tokens.
Sizes == {"decode", "prefill", "empty"}

VARIABLES
    pc,
    batch,        \* the batch in hand
    size,
    final,        \* its inputs do not change between prepare_attn and stage()
    rec,          \* stager._early_rec: the batch hashed early, 0: none
    early,        \* early_hash._STATE: armed, verify_left
    native,       \* native_stage._STATE: armed, verify_left
    inC,          \* this stage() call is the native one
    clone,        \* hash_host before the verifying late hash
    mainQ, mainDone,
    hashEv,       \* hashes_ready
    hashHost,     \* pinned: whose hashes, and of the inputs stage() sees?
    rowsHost,     \* pinned: the rows of each table
    staged,       \* device: the rows each batch was given
    trusted       \* batches that relied on a lever no longer verified

levers == <<early, native>>
gpu    == <<mainQ, mainDone, hashEv, hashHost, staged>>
vars   == <<pc, batch, size, final, rec, levers, inC, clone, gpu, rowsHost, trusted>>

Nothing == [batch |-> 0, exact |-> TRUE]
Exact(b) == [batch |-> b, exact |-> TRUE]

Init ==
    /\ pc = "runner" /\ batch = 0 /\ size = "empty" /\ final = TRUE /\ rec = 0
    /\ early = [armed |-> TRUE, left |-> EarlyVerify]
    /\ native = [armed |-> TRUE, left |-> NativeVerify]
    /\ inC = FALSE /\ clone = Nothing
    /\ mainQ = << >> /\ mainDone = 0 /\ hashEv = 0
    /\ hashHost = Nothing
    /\ rowsHost = [t \in TableIds |-> Nothing]
    /\ staged = [b \in BatchIds |-> rowsHost]
    /\ trusted = {}

------------------------------------------------------------------------------
\* The stream executes copies into hash_host and out of rows_host.
RunMain ==
    /\ mainQ # << >>
    /\ LET o == Head(mainQ) IN
       IF o.op = "h2d"
       THEN /\ staged' = [staged EXCEPT ![o.batch][o.table] = rowsHost[o.table]]
            /\ UNCHANGED hashHost
       ELSE /\ hashHost' = [batch |-> o.batch, exact |-> o.exact]
            /\ UNCHANGED staged
    /\ mainQ' = Tail(mainQ)
    /\ mainDone' = mainDone + 1
    /\ UNCHANGED <<pc, batch, size, final, rec, levers, inC, clone, hashEv, rowsHost, trusted>>

HashOp(exact) == [op |-> "hash", batch |-> batch, table |-> 0, exact |-> exact]

\* hash_state, host.copy_, hashes_ready.record().
Hash(exact) ==
    /\ mainQ' = Append(mainQ, HashOp(exact))
    /\ hashEv' = mainDone + Len(mainQ) + 1

\* hashes_ready.synchronize() has returned.
HashReady == mainDone >= hashEv

------------------------------------------------------------------------------
\* execute_model reaches prepare_attn with its next batch.
NewBatch ==
    /\ pc = "runner"
    /\ batch < Steps
    /\ Len(mainQ) < QueueCap
    /\ batch' = batch + 1
    /\ size' \in Sizes
    /\ final' \in BOOLEAN
    /\ pc' = "attn"
    /\ UNCHANGED <<rec, levers, inC, clone, gpu, rowsHost, trusted>>

CanLaunch == early.armed /\ size = "decode"

\* Mutant: hashes_ready is not recorded.
LaunchUnrecorded ==
    /\ pc = "attn"
    /\ CanLaunch
    /\ mainQ' = Append(mainQ, HashOp(final))
    /\ rec' = batch
    /\ pc' \in {"stage", "runner"}
    /\ UNCHANGED <<batch, size, final, levers, inC, clone, mainDone, hashEv, hashHost,
                   staged, rowsHost, trusted>>

\* EarlyHash.launch.  Not every prepare_attn is followed by a stage() call.
Launch ==
    /\ pc = "attn"
    /\ CanLaunch
    /\ Hash(final)
    /\ rec' = batch
    /\ pc' \in {"stage", "runner"}
    /\ UNCHANGED <<batch, size, final, levers, inC, clone, mainDone, hashHost, staged,
                   rowsHost, trusted>>

\* ... raises, perhaps after it queued the copy.
LaunchFails ==
    /\ pc = "attn"
    /\ CanLaunch
    /\ \/ UNCHANGED mainQ
       \/ mainQ' = Append(mainQ, HashOp(final))
    /\ rec' = 0
    /\ early' = [early EXCEPT !.armed = FALSE]
    /\ pc' \in {"stage", "runner"}
    /\ UNCHANGED <<batch, size, final, native, inC, clone, mainDone, hashEv, hashHost,
                   staged, rowsHost, trusted>>

\* ... returns at one of its guards (not armed, a prefill, no window, the hash's
\* cache not ready), and leaves _early_rec as it is.
LaunchSkips ==
    /\ pc = "attn"
    /\ pc' \in {"stage", "runner"}
    /\ UNCHANGED <<batch, size, final, rec, levers, inC, clone, gpu, rowsHost, trusted>>

------------------------------------------------------------------------------
\* prepare_inputs' finally: the record is cleared however stage() went.
Return == pc' = "runner" /\ rec' = 0

StageEmpty ==
    /\ pc = "stage"
    /\ size = "empty"
    /\ Return
    /\ UNCHANGED <<batch, size, final, levers, inC, clone, gpu, rowsHost, trusted>>

\* Mutant: any recorded batch will do.
MayConsumeAny == early.armed /\ rec # 0

\* EarlyHash.consume's tests: armed, this InputBatch and this token count.
MayConsume == early.armed /\ rec = batch

Stage ==
    /\ pc = "stage"
    /\ size # "empty"
    /\ inC' = (native.armed /\ size = "decode")
    /\ pc' = IF inC' /\ MayConsume THEN "consume" ELSE "late"
    /\ rec' = IF inC' THEN 0 ELSE rec
    /\ UNCHANGED <<batch, size, final, levers, clone, gpu, rowsHost, trusted>>

\* Mutant: one verification too many.
ConsumeVerifies ==
    /\ pc = "consume"
    /\ HashReady
    /\ clone' = hashHost
    /\ Hash(TRUE)
    /\ pc' = "compare"
    /\ UNCHANGED <<batch, size, final, rec, levers, inC, mainDone, hashHost, staged,
                   rowsHost, trusted>>

\* The early hashes have landed; while verify_left > 0 hash again.
Consume ==
    /\ pc = "consume"
    /\ HashReady
    /\ clone' = hashHost
    /\ \/ /\ early.left > 0
          /\ Hash(TRUE)
          /\ pc' = "compare"
          /\ UNCHANGED trusted
       \/ /\ early.left = 0
          /\ pc' = "gather"
          /\ trusted' = trusted \cup {batch}
          /\ UNCHANGED <<mainQ, hashEv>>
    /\ UNCHANGED <<batch, size, final, rec, levers, inC, mainDone, hashHost, staged, rowsHost>>

\* Mutant: the second synchronize() is missing.
CompareUnsynced ==
    /\ pc = "compare"
    /\ early' = IF clone = hashHost THEN [early EXCEPT !.left = @ - 1]
                                    ELSE [early EXCEPT !.armed = FALSE]
    /\ pc' = "gather"
    /\ UNCHANGED <<batch, size, final, rec, native, inC, clone, gpu, rowsHost, trusted>>

Compare ==
    /\ pc = "compare"
    /\ HashReady
    /\ early' = IF clone = hashHost THEN [early EXCEPT !.left = @ - 1]
                                    ELSE [early EXCEPT !.armed = FALSE]
    /\ pc' = "gather"
    /\ UNCHANGED <<batch, size, final, rec, native, inC, clone, gpu, rowsHost, trusted>>

\* The stock hash, copy and sync.
LateHash ==
    /\ pc = "late"
    /\ Hash(TRUE)
    /\ pc' = "sync"
    /\ UNCHANGED <<batch, size, final, rec, levers, inC, clone, mainDone, hashHost, staged,
                   rowsHost, trusted>>

LateSync ==
    /\ pc = "sync"
    /\ HashReady
    /\ pc' = IF inC THEN "gather" ELSE "stock"
    /\ UNCHANGED <<batch, size, final, rec, levers, inC, clone, gpu, rowsHost, trusted>>

\* nat.gather returns; a wrong table shows nowhere but in the rows.
Gather ==
    /\ pc = "gather"
    /\ \E wrong \in SUBSET TableIds :
          rowsHost' = [t \in TableIds |->
              [batch |-> hashHost.batch, exact |-> hashHost.exact /\ t \notin wrong]]
    /\ pc' = IF native.left > 0 THEN "verify" ELSE "upload"
    /\ trusted' = IF native.left > 0 THEN trusted ELSE trusted \cup {batch}
    /\ UNCHANGED <<batch, size, final, rec, levers, inC, clone, gpu>>

\* nat.gather raises at table t: the tables before it are filled.
GatherFails ==
    /\ pc = "gather"
    /\ \E t \in TableIds :
          rowsHost' = [u \in TableIds |-> IF u < t THEN hashHost ELSE rowsHost[u]]
    /\ native' = [native EXCEPT !.armed = FALSE]
    /\ pc' = "stock"
    /\ UNCHANGED <<batch, size, final, rec, early, inC, clone, gpu, trusted>>

StockRows == [t \in TableIds |-> hashHost]

\* Mutant: the comparison stops at the first table.
VerifyFirstTable ==
    /\ pc = "verify"
    /\ rowsHost[1] = StockRows[1]
    /\ native' = [native EXCEPT !.left = @ - 1]
    /\ pc' = "upload"
    /\ UNCHANGED <<batch, size, final, rec, early, inC, clone, gpu, rowsHost, trusted>>

Verify ==
    /\ pc = "verify"
    /\ rowsHost = StockRows
    /\ native' = [native EXCEPT !.left = @ - 1]
    /\ pc' = "upload"
    /\ UNCHANGED <<batch, size, final, rec, early, inC, clone, gpu, rowsHost, trusted>>

\* A mismatch, or an error of the stock gather it compares with.
VerifyFails ==
    /\ pc = "verify"
    /\ native' = [native EXCEPT !.armed = FALSE]
    /\ pc' = "stock"
    /\ UNCHANGED <<batch, size, final, rec, early, inC, clone, gpu, rowsHost, trusted>>

\* The stock gather: of a stock stage(), or the refill of a failed native one.
StockGather ==
    /\ pc = "stock"
    /\ rowsHost' = StockRows
    /\ pc' = "upload"
    /\ UNCHANGED <<batch, size, final, rec, levers, inC, clone, gpu, trusted>>

\* dest.copy_(staged, non_blocking=True) for every table.
Upload ==
    /\ pc = "upload"
    /\ mainQ' = mainQ \o [t \in TableIds |->
                    [op |-> "h2d", batch |-> batch, table |-> t, exact |-> TRUE]]
    /\ Return
    /\ UNCHANGED <<batch, size, final, levers, inC, clone, mainDone, hashEv, hashHost, staged,
                   rowsHost, trusted>>

------------------------------------------------------------------------------
Host ==
    \/ NewBatch \/ Launch \/ LaunchFails \/ LaunchSkips
    \/ StageEmpty \/ Stage \/ Consume \/ Compare \/ LateHash \/ LateSync
    \/ Gather \/ GatherFails \/ Verify \/ VerifyFails \/ StockGather \/ Upload

Next == Host \/ RunMain

Spec == Init /\ [][Next]_vars

------------------------------------------------------------------------------
Values == [batch : 0 .. Steps, exact : BOOLEAN]

TypeOK ==
    /\ pc \in {"runner", "attn", "stage", "consume", "compare", "late", "sync", "gather",
               "verify", "stock", "upload"}
    /\ batch \in 0 .. Steps /\ size \in Sizes /\ final \in BOOLEAN /\ rec \in 0 .. batch
    /\ early \in [armed : BOOLEAN, left : 0 .. EarlyVerify]
    /\ native \in [armed : BOOLEAN, left : 0 .. NativeVerify]
    /\ inC \in BOOLEAN /\ clone \in Values
    /\ mainQ \in Seq([op : {"hash", "h2d"}, batch : BatchIds, table : 0 .. Tables,
                      exact : BOOLEAN])
    /\ mainDone \in Nat /\ hashEv \in Nat
    /\ hashHost \in Values
    /\ rowsHost \in [TableIds -> Values]
    /\ staged \in [BatchIds -> [TableIds -> Values]]
    /\ trusted \subseteq BatchIds

\* Where the host reads hash_host and writes rows_host.
Filling == pc \in {"gather", "verify", "stock"}

\* The one wait of a step covers the last step's copies too: rows_host is
\* never overwritten while one of them is queued, and hash_host is not written
\* by the GPU while the host reads it.
BuffersQuiet == Filling => mainQ = << >>

\* The gather always works from the hashes of the batch in hand: an early hash
\* of a batch that was dropped, or replaced, is never taken for it.
OwnHash == Filling => hashHost.batch = batch

\* A batch gets the rows of its own inputs on the device, whatever the early
\* hash and the C gather do, unless it relied on one of them after its
\* verification steps were over.
VerifiedRowsExact ==
    \A b \in BatchIds \ trusted :
        \A t \in TableIds : staged[b][t] \in {Nothing, Exact(b)}
==============================================================================
