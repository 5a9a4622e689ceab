-------------------------- MODULE NativeStageProofs --------------------------
(***************************************************************************)
(* Proofs about NativeStage, for any number of batches and tables, any     *)
(* queue and any verification budget: the host never touches a buffer the  *)
(* stream still uses, it works on the hashes of its own batch, and a batch *)
(* that relied on verified levers only has the exact rows on the device.   *)
(***************************************************************************)
EXTENDS NativeStage, SequenceTheorems, TLAPS

Ops == [op : {"hash", "h2d"}, batch : BatchIds, table : 0 .. Tables, exact : BOOLEAN]

\* What the place in the step says.
Phases ==
    /\ pc # "runner" => batch \in BatchIds
    /\ pc = "attn" => rec # batch
    /\ pc = "compare" => early.left > 0
    /\ pc = "verify" => native.left > 0

\* The host is about to wait for, or to consume, the hash it queued last.
AwaitsHash == pc \in {"consume", "compare", "sync"} \/ (pc = "stage" /\ rec = batch)

\* The stream ends with a hash of this batch, hash_host holds it once the
\* stream is empty, and the event stands behind it.
LastIsOwn ==
    /\ hashEv = mainDone + Len(mainQ)
    /\ mainQ = << >> => hashHost.batch = batch
    /\ mainQ # << >> => mainQ[Len(mainQ)].op = "hash" /\ mainQ[Len(mainQ)].batch = batch

\* ... and it was hashed from the inputs stage() sees.
LastIsExact ==
    /\ mainQ = << >> => hashHost = Exact(batch)
    /\ mainQ # << >> => mainQ[Len(mainQ)].exact

HashInv ==
    /\ AwaitsHash => LastIsOwn
    /\ pc \in {"compare", "sync"} => LastIsExact

Relied(b) == b \in trusted

\* A queued upload is of rows the host has left alone since it queued it.
UploadIsExact(i) ==
    mainQ[i].op = "h2d" =>
        /\ mainQ[i].table \in TableIds
        /\ ~Relied(mainQ[i].batch) => rowsHost[mainQ[i].table] = Exact(mainQ[i].batch)

RowsInv ==
    /\ Filling /\ ~Relied(batch) => hashHost = Exact(batch)
    /\ pc = "upload" /\ ~Relied(batch) => \A t \in TableIds : rowsHost[t] = Exact(batch)

UploadsExact == \A i \in 1 .. Len(mainQ) : UploadIsExact(i)

IInv ==
    /\ TypeOK /\ Phases /\ HashInv
    /\ BuffersQuiet /\ OwnHash
    /\ RowsInv /\ UploadsExact /\ VerifiedRowsExact

LEMMA InitInv == Init => IInv
  <1> SUFFICES ASSUME Init PROVE IInv
      OBVIOUS
  <1> USE NativeAssumption DEF Init
  <1>1. Nothing \in Values
      BY DEF Nothing, Values
  <1>2. rowsHost \in [TableIds -> Values] /\ staged \in [BatchIds -> [TableIds -> Values]]
      BY <1>1
  <1>3. TypeOK
      <2>1. mainQ \in Seq([op : {"hash", "h2d"}, batch : BatchIds, table : 0 .. Tables,
                           exact : BOOLEAN])
          OBVIOUS
      <2>2. /\ early \in [armed : BOOLEAN, left : 0 .. EarlyVerify]
            /\ native \in [armed : BOOLEAN, left : 0 .. NativeVerify]
            /\ clone \in Values /\ hashHost \in Values
          BY <1>1
      <2>3. batch \in 0 .. Steps /\ rec \in 0 .. batch /\ mainDone \in Nat /\ hashEv \in Nat
          OBVIOUS
      <2>4. /\ pc = "runner" /\ size \in Sizes /\ final \in BOOLEAN /\ inC \in BOOLEAN
            /\ trusted \subseteq BatchIds
          BY Zenon DEF Sizes
      <2> HIDE DEF Init
      <2> QED
          BY <1>2, <2>1, <2>2, <2>3, <2>4 DEF TypeOK
  <1>4. VerifiedRowsExact
      BY DEF VerifiedRowsExact
  <1> QED
      BY <1>3, <1>4 DEF IInv, Phases, HashInv, AwaitsHash, BuffersQuiet, OwnHash, RowsInv,
         UploadsExact, Filling

------------------------------------------------------------------------------
(* What the two ways to lengthen the queue, and the one to shorten it, do.  *)

LEMMA Queued ==
  ASSUME TypeOK, batch \in BatchIds, NEW x \in BOOLEAN, mainQ' = Append(mainQ, HashOp(x))
  PROVE  /\ mainQ' \in Seq(Ops)
         /\ Len(mainQ') = Len(mainQ) + 1
         /\ Len(mainQ) \in Nat
         /\ mainQ'[Len(mainQ')] = HashOp(x)
         /\ \A i \in 1 .. Len(mainQ) : mainQ'[i] = mainQ[i]
  <1>1. mainQ \in Seq(Ops)
      BY DEF TypeOK, Ops
  <1>2. HashOp(x) \in Ops
      BY NativeAssumption DEF HashOp, Ops
  <1> QED
      BY <1>1, <1>2

UploadOp(t) == [op |-> "h2d", batch |-> batch, table |-> t, exact |-> TRUE]

LEMMA Uploaded ==
  ASSUME TypeOK, batch \in BatchIds,
         mainQ' = mainQ \o [t \in TableIds |-> UploadOp(t)]
  PROVE  /\ mainQ' \in Seq(Ops)
         /\ \A i \in 1 .. Len(mainQ') :
               \/ i \in 1 .. Len(mainQ) /\ mainQ'[i] = mainQ[i]
               \/ \E t \in TableIds : mainQ'[i] = UploadOp(t)
  <1> DEFINE u == [t \in TableIds |-> UploadOp(t)]
  <1>1. mainQ \in Seq(Ops) /\ Len(mainQ) \in Nat
      BY DEF TypeOK, Ops
  <1>2. \A t \in TableIds : UploadOp(t) \in Ops
      BY NativeAssumption DEF UploadOp, Ops, TableIds
  <1>3. u \in Seq(Ops) /\ Len(u) = Tables
      BY <1>2, NativeAssumption DEF TableIds
  <1>4. \A t \in TableIds : u[t] = UploadOp(t)
      OBVIOUS
  <1> HIDE DEF u
  <1>5. mainQ' = mainQ \o u
      BY DEF u
  <1>6. /\ mainQ' \in Seq(Ops)
        /\ Len(mainQ') = Len(mainQ) + Len(u)
        /\ \A i \in 1 .. Len(mainQ) + Len(u) :
              mainQ'[i] = IF i <= Len(mainQ) THEN mainQ[i] ELSE u[i - Len(mainQ)]
      BY <1>1, <1>3, <1>5, ConcatProperties
  <1>7. ASSUME NEW i \in 1 .. Len(mainQ'), ~(i <= Len(mainQ))
        PROVE  \E t \in TableIds : mainQ'[i] = UploadOp(t)
      <2>1. i - Len(mainQ) \in TableIds
          BY <1>1, <1>3, <1>6, <1>7, NativeAssumption DEF TableIds
      <2> QED
          BY <1>1, <1>3, <1>4, <1>6, <1>7, <2>1
  <1>8. ASSUME NEW i \in 1 .. Len(mainQ'), i <= Len(mainQ)
        PROVE  i \in 1 .. Len(mainQ) /\ mainQ'[i] = mainQ[i]
      BY <1>1, <1>3, <1>6, <1>8, NativeAssumption
  <1> QED
      BY <1>6, <1>7, <1>8

LEMMA Executed ==
  ASSUME TypeOK, mainQ # << >>, mainQ' = Tail(mainQ)
  PROVE  /\ mainQ[1] = Head(mainQ) /\ mainQ[1] \in Ops
         /\ mainQ' \in Seq(Ops)
         /\ Len(mainQ) \in Nat /\ Len(mainQ) >= 1
         /\ Len(mainQ') = Len(mainQ) - 1
         /\ \A i \in 1 .. Len(mainQ') : mainQ'[i] = mainQ[i + 1]
  <1>1. mainQ \in Seq(Ops)
      BY DEF TypeOK, Ops
  <1>2. Len(mainQ) \in Nat \ {0}
      BY <1>1, EmptySeq
  <1>3. mainQ[1] \in Ops
      BY <1>1, <1>2, ElementOfSeq
  <1>4. /\ Tail(mainQ) \in Seq(Ops)
        /\ Len(Tail(mainQ)) = Len(mainQ) - 1
        /\ \A i \in 1 .. Len(Tail(mainQ)) : Tail(mainQ)[i] = mainQ[i + 1]
      BY <1>1, HeadTailProperties
  <1> QED
      BY <1>1, <1>2, <1>3, <1>4

\* When the host has waited for the hash it queued last, the stream is empty.
LEMMA WaitEmpties ==
  ASSUME TypeOK, LastIsOwn, HashReady
  PROVE  mainQ = << >> /\ hashHost.batch = batch
  <1>1. mainQ \in Seq(Ops) /\ mainDone \in Nat
      BY DEF TypeOK, Ops
  <1>2. Len(mainQ) = 0
      BY <1>1 DEF LastIsOwn, HashReady
  <1>3. mainQ = << >>
      BY <1>1, <1>2, EmptySeq
  <1> QED
      BY <1>3 DEF LastIsOwn

------------------------------------------------------------------------------
(* One lemma per part of the invariant, with one step per action that may   *)
(* disturb it.                                                              *)

\* The actions that leave the queue and the buffers alone.
Quiet ==
    \/ NewBatch \/ LaunchSkips \/ StageEmpty \/ Stage \/ Compare \/ LateSync
    \/ Verify \/ VerifyFails

LEMMA StepType ==
  ASSUME IInv, Host \/ RunMain
  PROVE  TypeOK'
  <1> USE NativeAssumption
  <1>0. TypeOK /\ Phases /\ mainQ \in Seq(Ops) /\ Len(mainQ) \in Nat
      BY DEF IInv, TypeOK, Ops
  <1>h. \A x \in BOOLEAN : Hash(x) /\ batch \in BatchIds =>
            mainQ' \in Seq(Ops) /\ hashEv' \in Nat
      BY <1>0, Queued DEF Hash, TypeOK
  <1>1. CASE NewBatch
      BY <1>0, <1>1 DEF NewBatch, TypeOK, levers, gpu
  <1>2. CASE Launch
      <2>1. mainQ' \in Seq(Ops) /\ hashEv' \in Nat
          BY <1>0, <1>2, <1>h DEF Launch, Phases, TypeOK
      <2> QED
          BY <1>0, <1>2, <2>1 DEF Launch, TypeOK, levers, Ops
  <1>3. CASE LaunchFails
      <2>1. mainQ' \in Seq(Ops)
          <3>1. batch \in BatchIds /\ final \in BOOLEAN
              BY <1>0, <1>3 DEF LaunchFails, Phases, TypeOK
          <3>2. mainQ' = mainQ \/ mainQ' = Append(mainQ, HashOp(final))
              BY <1>3 DEF LaunchFails
          <3> QED
              BY <1>0, <3>1, <3>2, Queued
      <2>2. early' \in [armed : BOOLEAN, left : 0 .. EarlyVerify]
          BY <1>0, <1>3 DEF LaunchFails, TypeOK
      <2> QED
          BY <1>0, <1>3, <2>1, <2>2 DEF LaunchFails, TypeOK, Ops
  <1>4. CASE LaunchSkips
      BY <1>0, <1>4 DEF LaunchSkips, TypeOK, levers, gpu
  <1>5. CASE StageEmpty
      BY <1>0, <1>5 DEF StageEmpty, Return, TypeOK, levers, gpu
  <1>6. CASE Stage
      <2>1. inC' \in BOOLEAN
          BY <1>0, <1>6 DEF Stage, TypeOK
      <2>2. pc' \in {"consume", "late"} /\ rec' \in 0 .. batch
          BY <1>0, <1>6 DEF Stage, TypeOK
      <2> QED
          BY <1>0, <1>6, <2>1, <2>2 DEF Stage, TypeOK, levers, gpu
  <1>7. CASE Consume
      <2>1. mainQ' \in Seq(Ops) /\ hashEv' \in Nat
          BY <1>0, <1>7, <1>h DEF Consume, Phases, TypeOK
      <2>2. trusted' \subseteq BatchIds
          BY <1>0, <1>7 DEF Consume, Phases, TypeOK
      <2> QED
          BY <1>0, <1>7, <2>1, <2>2 DEF Consume, TypeOK, levers, Ops
  <1>8. CASE Compare
      <2>1. early' \in [armed : BOOLEAN, left : 0 .. EarlyVerify]
          <3>1. /\ early.armed \in BOOLEAN /\ early.left \in 0 .. EarlyVerify
                /\ early.left - 1 \in 0 .. EarlyVerify
              BY <1>0, <1>8 DEF Compare, Phases, TypeOK
          <3>2. early \in [armed : BOOLEAN, left : 0 .. EarlyVerify]
              BY <1>0 DEF TypeOK
          <3>3. \/ early' = [early EXCEPT !.left = early.left - 1]
                \/ early' = [early EXCEPT !.armed = FALSE]
              BY <1>8 DEF Compare
          <3> QED
              BY <3>1, <3>2, <3>3
      <2> QED
          BY <1>0, <1>8, <2>1 DEF Compare, TypeOK, gpu
  <1>9. CASE LateHash
      <2>1. mainQ' \in Seq(Ops) /\ hashEv' \in Nat
          BY <1>0, <1>9, <1>h DEF LateHash, Phases, TypeOK
      <2> QED
          BY <1>0, <1>9, <2>1 DEF LateHash, TypeOK, levers, Ops
  <1>10. CASE LateSync
      BY <1>0, <1>10 DEF LateSync, TypeOK, levers, gpu
  <1>11. CASE Gather
      <2>1. rowsHost' \in [TableIds -> Values]
          <3>1. PICK wrong \in SUBSET TableIds :
                  rowsHost' = [t \in TableIds |->
                      [batch |-> hashHost.batch, exact |-> hashHost.exact /\ t \notin wrong]]
              BY <1>11 DEF Gather
          <3>2. hashHost.batch \in 0 .. Steps
              BY <1>0 DEF TypeOK, Values
          <3> QED
              BY <3>1, <3>2 DEF Values
      <2>2. trusted' \subseteq BatchIds
          BY <1>0, <1>11 DEF Gather, Phases, TypeOK
      <2>3. pc' \in {"verify", "upload"}
          BY <1>11 DEF Gather
      <2> QED
          BY <1>0, <1>11, <2>1, <2>2, <2>3 DEF Gather, TypeOK, levers, gpu
  <1>12. CASE GatherFails
      <2>1. rowsHost' \in [TableIds -> Values]
          BY <1>0, <1>12 DEF GatherFails, TypeOK
      <2>2. native' \in [armed : BOOLEAN, left : 0 .. NativeVerify]
          BY <1>0, <1>12 DEF GatherFails, TypeOK
      <2> QED
          BY <1>0, <1>12, <2>1, <2>2 DEF GatherFails, TypeOK, gpu
  <1>13. CASE Verify
      <2>1. native' \in [armed : BOOLEAN, left : 0 .. NativeVerify]
          BY <1>0, <1>13 DEF Verify, Phases, TypeOK
      <2> QED
          BY <1>0, <1>13, <2>1 DEF Verify, TypeOK, gpu
  <1>14. CASE VerifyFails
      <2>1. native' \in [armed : BOOLEAN, left : 0 .. NativeVerify]
          BY <1>0, <1>14 DEF VerifyFails, TypeOK
      <2> QED
          BY <1>0, <1>14, <2>1 DEF VerifyFails, TypeOK, gpu
  <1>15. CASE StockGather
      BY <1>0, <1>15 DEF StockGather, StockRows, TypeOK, levers, gpu
  <1>16. CASE Upload
      <2>1. mainQ' \in Seq(Ops)
          <3>1. batch \in BatchIds
              BY <1>0, <1>16 DEF Upload, Phases
          <3>2. mainQ' = mainQ \o [t \in TableIds |-> UploadOp(t)]
              BY <1>16 DEF Upload, UploadOp
          <3> QED
              BY <1>0, <3>1, <3>2, Uploaded
      <2> QED
          BY <1>0, <1>16, <2>1 DEF Upload, Return, TypeOK, levers, Ops
  <1>17. CASE RunMain
      <2>1. /\ mainQ' \in Seq(Ops) /\ mainQ[1] \in Ops /\ Head(mainQ) = mainQ[1]
            /\ mainDone' \in Nat
          BY <1>0, <1>17, Executed DEF RunMain, TypeOK
      <2>2. hashHost' \in Values
          <3>1. mainQ[1].batch \in 0 .. Steps /\ mainQ[1].exact \in BOOLEAN
              BY <2>1 DEF Ops, BatchIds
          <3>2. \/ hashHost' = hashHost
                \/ hashHost' = [batch |-> mainQ[1].batch, exact |-> mainQ[1].exact]
              BY <1>17, <2>1 DEF RunMain
          <3> QED
              BY <1>0, <3>1, <3>2 DEF TypeOK, Values
      <2>3. staged' \in [BatchIds -> [TableIds -> Values]]
          <3> DEFINE b == mainQ[1].batch
                     t == mainQ[1].table
          <3>1. CASE UNCHANGED staged
              BY <1>0, <3>1 DEF TypeOK
          <3>2. CASE mainQ[1].op = "h2d"
              <4>1. b \in BatchIds /\ t \in TableIds
                  BY <1>0, <1>17, <2>1, <3>2, Executed DEF IInv, UploadsExact, UploadIsExact,
                     Ops, RunMain
              <4>2. rowsHost[t] \in Values /\ staged[b] \in [TableIds -> Values]
                  BY <1>0, <4>1 DEF TypeOK
              <4>3. [staged[b] EXCEPT ![t] = rowsHost[t]] \in [TableIds -> Values]
                  BY <4>2
              <4>4. staged' = [staged EXCEPT ![b] = [staged[b] EXCEPT ![t] = rowsHost[t]]]
                  BY <1>17, <2>1, <3>2 DEF RunMain
              <4>5. staged \in [BatchIds -> [TableIds -> Values]]
                  BY <1>0 DEF TypeOK
              <4> HIDE DEF b, t
              <4> QED
                  BY <4>3, <4>4, <4>5
          <3> QED
              BY <1>17, <2>1, <3>1, <3>2 DEF RunMain
      <2> QED
          BY <1>0, <1>17, <2>1, <2>2, <2>3 DEF RunMain, TypeOK, levers, Ops
  <1> QED
      BY <1>1, <1>2, <1>3, <1>4, <1>5, <1>6, <1>7, <1>8, <1>9, <1>10, <1>11, <1>12, <1>13,
         <1>14, <1>15, <1>16, <1>17 DEF Host

LEMMA StepPhases ==
  ASSUME IInv, Host \/ RunMain
  PROVE  Phases'
  <1>0. TypeOK /\ Phases
      BY DEF IInv
  <1>1. CASE NewBatch
      BY <1>0, <1>1, NativeAssumption DEF NewBatch, Phases, TypeOK, BatchIds
  <1>2. CASE RunMain
      BY <1>0, <1>2 DEF RunMain, Phases, levers
  <1>3. CASE Host /\ ~NewBatch
      <2>1. batch' = batch /\ pc # "runner" /\ pc' # "attn"
          BY <1>3 DEF Host, Launch, LaunchFails, LaunchSkips, StageEmpty, Stage, Consume,
             Compare, LateHash, LateSync, Gather, GatherFails, Verify, VerifyFails,
             StockGather, Upload, Return
      <2>2. pc' = "compare" => Consume /\ early.left > 0 /\ UNCHANGED early
          BY <1>3 DEF Host, Launch, LaunchFails, LaunchSkips, StageEmpty, Stage, Consume,
             Compare, LateHash, LateSync, Gather, GatherFails, Verify, VerifyFails,
             StockGather, Upload, Return, levers
      <2>3. pc' = "verify" => Gather /\ native.left > 0 /\ UNCHANGED native
          BY <1>3 DEF Host, Launch, LaunchFails, LaunchSkips, StageEmpty, Stage, Consume,
             Compare, LateHash, LateSync, Gather, GatherFails, Verify, VerifyFails,
             StockGather, Upload, Return, levers
      <2> QED
          BY <1>0, <2>1, <2>2, <2>3 DEF Phases
  <1> QED
      BY <1>1, <1>2, <1>3

LEMMA StepHash ==
  ASSUME IInv, Host \/ RunMain
  PROVE  HashInv'
  <1>0. TypeOK /\ Phases /\ HashInv /\ mainQ \in Seq(Ops) /\ Len(mainQ) \in Nat
      BY DEF IInv, TypeOK, Ops
  <1>q. ASSUME NEW x \in BOOLEAN, Hash(x), batch \in BatchIds, UNCHANGED <<mainDone, batch>>
        PROVE  LastIsOwn' /\ (x => LastIsExact')
      <2>1. /\ Len(mainQ') = Len(mainQ) + 1 /\ mainQ'[Len(mainQ')] = HashOp(x)
            /\ mainQ' # << >>
          BY <1>0, <1>q, Queued DEF Hash
      <2> QED
          BY <1>0, <1>q, <2>1 DEF Hash, LastIsOwn, LastIsExact, HashOp, TypeOK
  <1>1. CASE Launch
      <2>1. LastIsOwn' /\ pc' \notin {"compare", "sync"}
          BY <1>0, <1>1, <1>q DEF Launch, Phases, TypeOK
      <2> QED
          BY <2>1 DEF HashInv
  <1>2. CASE Consume
      <2>1. batch \in BatchIds /\ UNCHANGED <<mainDone, batch>>
          BY <1>0, <1>2 DEF Consume, Phases
      <2>2. Hash(TRUE) \/ pc' = "gather"
          BY <1>2 DEF Consume
      <2> QED
          BY <1>q, <2>1, <2>2 DEF HashInv, AwaitsHash
  <1>3. CASE LateHash
      BY <1>0, <1>3, <1>q DEF LateHash, Phases, HashInv
  <1>4. CASE RunMain
      <2>1. /\ mainQ # << >> /\ mainQ[1] = Head(mainQ) /\ Len(mainQ) >= 1
            /\ mainQ' \in Seq(Ops) /\ Len(mainQ') = Len(mainQ) - 1
            /\ \A i \in 1 .. Len(mainQ') : mainQ'[i] = mainQ[i + 1]
            /\ mainDone' = mainDone + 1 /\ mainDone \in Nat
            /\ UNCHANGED <<pc, batch, rec, hashEv>>
          BY <1>0, <1>4, Executed DEF RunMain, TypeOK
      <2>2. mainQ' # << >> => Len(mainQ') >= 1 /\ mainQ'[Len(mainQ')] = mainQ[Len(mainQ)]
          <3>1. mainQ' # << >> => Len(mainQ') \in Nat \ {0}
              BY <2>1, EmptySeq
          <3> QED
              BY <1>0, <2>1, <3>1
      <2>3. mainQ' = << >> => Len(mainQ) = 1
          BY <1>0, <2>1
      <2>4. ASSUME LastIsOwn PROVE LastIsOwn'
          <3>1. mainQ' = << >> => hashHost'.batch = batch
              BY <1>4, <2>1, <2>3, <2>4 DEF LastIsOwn, RunMain
          <3>2. hashEv' = mainDone' + Len(mainQ')
              BY <1>0, <2>1, <2>4 DEF LastIsOwn
          <3>3. mainQ[Len(mainQ)].op = "hash" /\ mainQ[Len(mainQ)].batch = batch
              BY <2>1, <2>4 DEF LastIsOwn
          <3> QED
              BY <2>1, <2>2, <3>1, <3>2, <3>3 DEF LastIsOwn
      <2>5. ASSUME LastIsOwn, LastIsExact PROVE LastIsExact'
          <3>1. mainQ' = << >> => hashHost' = [batch |-> batch, exact |-> mainQ[1].exact]
              BY <1>4, <2>1, <2>3, <2>5 DEF LastIsOwn, RunMain
          <3>2. mainQ' = << >> => mainQ[1].exact = TRUE
              <4>1. mainQ[1] \in Ops
                  BY <1>0, <1>4, Executed DEF RunMain
              <4>2. mainQ[1].exact \in BOOLEAN
                  BY <4>1 DEF Ops
              <4>3. mainQ' = << >> => mainQ[1].exact
                  BY <2>1, <2>3, <2>5 DEF LastIsExact
              <4> QED
                  BY <4>2, <4>3
          <3> QED
              BY <2>1, <2>2, <2>5, <3>1, <3>2 DEF LastIsExact, Exact
      <2> QED
          BY <1>0, <2>1, <2>4, <2>5 DEF HashInv, AwaitsHash
  <1>5. CASE Stage
      <2>1. UNCHANGED <<mainQ, mainDone, hashEv, hashHost, batch>>
          BY <1>5 DEF Stage, gpu
      <2>2. pc' = "consume" => AwaitsHash
          BY <1>5 DEF Stage, MayConsume, AwaitsHash
      <2>3. pc' \in {"consume", "late"}
          BY <1>5 DEF Stage
      <2> QED
          BY <1>0, <2>1, <2>2, <2>3 DEF HashInv, AwaitsHash, LastIsOwn
  <1>6. CASE NewBatch \/ LaunchFails \/ LaunchSkips \/ StageEmpty \/ Compare \/ LateSync
             \/ Gather \/ GatherFails \/ Verify \/ VerifyFails \/ StockGather \/ Upload
      <2>1. ~AwaitsHash'
          BY <1>0, <1>6 DEF NewBatch, LaunchFails, LaunchSkips, StageEmpty, Compare, LateSync,
             Gather, GatherFails, Verify, VerifyFails, StockGather, Upload, Return,
             AwaitsHash, Phases, BatchIds
      <2> QED
          BY <2>1 DEF HashInv, AwaitsHash
  <1> QED
      BY <1>1, <1>2, <1>3, <1>4, <1>5, <1>6 DEF Host

\* Whenever the host has come to the buffers, the stream is empty and
\* hash_host is this batch's.
LEMMA StepFilling ==
  ASSUME IInv, Host \/ RunMain, Filling'
  PROVE  /\ mainQ' = << >>
         /\ hashHost'.batch = batch'
         /\ ~Relied(batch)' => hashHost' = Exact(batch)'
  <1>0. TypeOK /\ HashInv /\ BuffersQuiet /\ OwnHash /\ RowsInv
      BY DEF IInv
  <1>1. CASE Consume
      <2>1. LastIsOwn /\ HashReady
          BY <1>0, <1>1 DEF Consume, HashInv, AwaitsHash
      <2>2. /\ UNCHANGED <<mainQ, hashHost, batch>> /\ batch \in trusted'
          BY <1>1 DEF Consume, Filling
      <2> QED
          BY <1>0, <2>1, <2>2, WaitEmpties DEF Relied
  <1>2. CASE Compare \/ LateSync
      <2>1. LastIsOwn /\ LastIsExact /\ HashReady
          BY <1>0, <1>2 DEF Compare, LateSync, HashInv, AwaitsHash
      <2>2. mainQ = << >> /\ hashHost = Exact(batch) /\ hashHost.batch = batch
          BY <1>0, <2>1, WaitEmpties DEF LastIsExact
      <2>3. UNCHANGED <<mainQ, hashHost, batch>>
          BY <1>2 DEF Compare, LateSync, gpu
      <2> QED
          BY <2>2, <2>3 DEF Exact
  <1>3. CASE Gather \/ GatherFails \/ VerifyFails
      <2>1. Filling /\ UNCHANGED <<mainQ, hashHost, batch>>
          BY <1>3 DEF Gather, GatherFails, VerifyFails, Filling, gpu
      <2>2. trusted' = trusted
          BY <1>3 DEF Gather, GatherFails, VerifyFails, Filling
      <2> QED
          BY <1>0, <2>1, <2>2 DEF BuffersQuiet, OwnHash, RowsInv, Relied, Exact
  <1>4. CASE RunMain
      BY <1>0, <1>4 DEF RunMain, Filling, BuffersQuiet
  <1>5. CASE NewBatch \/ Launch \/ LaunchFails \/ LaunchSkips \/ StageEmpty \/ Stage \/ LateHash
             \/ Verify \/ StockGather \/ Upload
      BY <1>5 DEF NewBatch, Launch, LaunchFails, LaunchSkips, StageEmpty, Stage, LateHash,
         Verify, StockGather, Upload, Return, Filling
  <1> QED
      BY <1>1, <1>2, <1>3, <1>4, <1>5 DEF Host

\* The uploads a batch queues are of the rows the host last left there.
LEMMA StepRows ==
  ASSUME IInv, Host \/ RunMain
  PROVE  RowsInv'
  <1>0. RowsInv
      BY DEF IInv
  <1>1. CASE pc' # "upload"
      BY <1>1, StepFilling DEF RowsInv
  <1>2. CASE Gather /\ pc' = "upload"
      BY <1>2 DEF Gather, RowsInv, Relied, Filling
  <1>3. CASE Verify
      <2>1. ~Relied(batch) => hashHost = Exact(batch)
          BY <1>0, <1>3 DEF Verify, RowsInv, Filling
      <2>2. \A t \in TableIds : rowsHost[t] = hashHost
          BY <1>3 DEF Verify, StockRows
      <2>3. UNCHANGED <<rowsHost, hashHost, trusted, batch>> /\ pc' = "upload"
          BY <1>3 DEF Verify, gpu
      <2> QED
          BY <2>1, <2>2, <2>3 DEF RowsInv, Relied, Filling, Exact
  <1>4. CASE StockGather
      <2>1. ~Relied(batch) => hashHost = Exact(batch)
          BY <1>0, <1>4 DEF StockGather, RowsInv, Filling
      <2>2. \A t \in TableIds : rowsHost'[t] = hashHost
          BY <1>4 DEF StockGather, StockRows
      <2>3. UNCHANGED <<hashHost, trusted, batch>> /\ pc' = "upload"
          BY <1>4 DEF StockGather, gpu
      <2> QED
          BY <2>1, <2>2, <2>3 DEF RowsInv, Relied, Filling, Exact
  <1>5. CASE RunMain
      <2>1. UNCHANGED <<pc, batch, rowsHost, trusted>>
          BY <1>5 DEF RunMain
      <2> QED
          BY <1>0, <1>1, <2>1 DEF RowsInv, Relied, Filling, Exact
  <1>6. CASE Host /\ ~Gather /\ ~Verify /\ ~StockGather
      <2>1. pc' # "upload"
          BY <1>6 DEF Host, NewBatch, Launch, LaunchFails, LaunchSkips, StageEmpty, Stage,
             Consume, Compare, LateHash, LateSync, GatherFails, VerifyFails, Upload, Return
      <2> QED
          BY <1>1, <2>1
  <1> QED
      BY <1>1, <1>2, <1>3, <1>4, <1>5, <1>6 DEF Host

\* A batch once counted as relying on a lever stays so.
LEMMA TrustGrows ==
  ASSUME Host \/ RunMain
  PROVE  trusted \subseteq trusted'
  BY DEF Host, NewBatch, Launch, LaunchFails, LaunchSkips, StageEmpty, Stage, Consume, Compare,
     LateHash, LateSync, Gather, GatherFails, Verify, VerifyFails, StockGather, Upload, RunMain

LEMMA StepUploads ==
  ASSUME IInv, Host \/ RunMain
  PROVE  UploadsExact'
  <1>0. /\ TypeOK /\ Phases /\ BuffersQuiet /\ RowsInv /\ UploadsExact
        /\ mainQ \in Seq(Ops) /\ Len(mainQ) \in Nat
      BY DEF IInv, TypeOK, Ops
  <1>t. trusted \subseteq trusted'
      BY TrustGrows
  <1>q. ASSUME NEW x \in BOOLEAN, mainQ' = Append(mainQ, HashOp(x)), batch \in BatchIds,
               UNCHANGED rowsHost
        PROVE  UploadsExact'
      <2>1. /\ Len(mainQ') = Len(mainQ) + 1 /\ mainQ'[Len(mainQ')] = HashOp(x)
            /\ \A i \in 1 .. Len(mainQ) : mainQ'[i] = mainQ[i]
          BY <1>0, <1>q, Queued
      <2>2. SUFFICES ASSUME NEW i \in 1 .. Len(mainQ') PROVE UploadIsExact(i)'
          BY DEF UploadsExact
      <2>3. CASE i \in 1 .. Len(mainQ)
          BY <1>0, <1>t, <1>q, <2>1, <2>3 DEF UploadsExact, UploadIsExact, Relied
      <2>4. CASE i = Len(mainQ')
          BY <2>1, <2>4 DEF UploadIsExact, HashOp
      <2> QED
          BY <1>0, <2>1, <2>3, <2>4
  <1>s. ASSUME UNCHANGED <<mainQ, rowsHost>> PROVE UploadsExact'
      <2>1. SUFFICES ASSUME NEW i \in 1 .. Len(mainQ) PROVE UploadIsExact(i)'
          BY <1>s DEF UploadsExact
      <2> QED
          BY <1>0, <1>t, <1>s DEF UploadsExact, UploadIsExact, Relied
  <1>1. CASE Launch \/ LateHash
      <2>1. batch \in BatchIds /\ UNCHANGED rowsHost /\ final \in BOOLEAN
          BY <1>0, <1>1 DEF Launch, LateHash, Phases, TypeOK
      <2>2. \E x \in BOOLEAN : mainQ' = Append(mainQ, HashOp(x))
          BY <1>1, <2>1 DEF Launch, LateHash, Hash
      <2> QED
          BY <1>q, <2>1, <2>2
  <1>2. CASE LaunchFails
      <2>1. batch \in BatchIds /\ UNCHANGED rowsHost /\ final \in BOOLEAN
          BY <1>0, <1>2 DEF LaunchFails, Phases, TypeOK
      <2>2. UNCHANGED mainQ \/ mainQ' = Append(mainQ, HashOp(final))
          BY <1>2 DEF LaunchFails
      <2> QED
          BY <1>q, <1>s, <2>1, <2>2
  <1>3. CASE Consume
      <2>1. batch \in BatchIds /\ UNCHANGED rowsHost
          BY <1>0, <1>3 DEF Consume, Phases
      <2>2. UNCHANGED mainQ \/ mainQ' = Append(mainQ, HashOp(TRUE))
          BY <1>3 DEF Consume, Hash
      <2> QED
          BY <1>q, <1>s, <2>1, <2>2
  <1>4. CASE Gather \/ GatherFails \/ StockGather
      <2>1. mainQ' = << >>
          BY <1>0, <1>4 DEF Gather, GatherFails, StockGather, BuffersQuiet, Filling, gpu
      <2> QED
          BY <2>1 DEF UploadsExact
  <1>5. CASE Upload
      <2>1. batch \in BatchIds /\ UNCHANGED <<rowsHost, trusted>> /\ pc = "upload"
          BY <1>0, <1>5 DEF Upload, Phases
      <2>2. mainQ' = mainQ \o [t \in TableIds |-> UploadOp(t)]
          BY <1>5 DEF Upload, UploadOp
      <2>3. SUFFICES ASSUME NEW i \in 1 .. Len(mainQ') PROVE UploadIsExact(i)'
          BY DEF UploadsExact
      <2>4. CASE i \in 1 .. Len(mainQ) /\ mainQ'[i] = mainQ[i]
          BY <1>0, <2>1, <2>4 DEF UploadsExact, UploadIsExact, Relied
      <2>5. CASE \E t \in TableIds : mainQ'[i] = UploadOp(t)
          <3>1. PICK t \in TableIds : mainQ'[i] = UploadOp(t)
              BY <2>5
          <3>2. mainQ'[i].batch = batch /\ mainQ'[i].table = t
              BY <3>1 DEF UploadOp
          <3> QED
              BY <1>0, <2>1, <3>2 DEF UploadIsExact, RowsInv, Relied, Exact
      <2> QED
          BY <1>0, <2>1, <2>2, <2>4, <2>5, Uploaded
  <1>6. CASE RunMain
      <2>1. /\ Len(mainQ') = Len(mainQ) - 1
            /\ \A i \in 1 .. Len(mainQ') : mainQ'[i] = mainQ[i + 1]
            /\ UNCHANGED <<rowsHost, trusted>>
          BY <1>0, <1>6, Executed DEF RunMain
      <2>2. SUFFICES ASSUME NEW i \in 1 .. Len(mainQ') PROVE UploadIsExact(i)'
          BY DEF UploadsExact
      <2>3. i + 1 \in 1 .. Len(mainQ) /\ mainQ'[i] = mainQ[i + 1]
          BY <1>0, <2>1
      <2>4. UploadIsExact(i + 1)
          BY <1>0, <2>3 DEF UploadsExact
      <2> QED
          BY <2>1, <2>3, <2>4 DEF UploadIsExact, Relied, Exact
  <1>7. CASE NewBatch \/ LaunchSkips \/ StageEmpty \/ Stage \/ Compare \/ LateSync \/ Verify
             \/ VerifyFails
      <2>1. UNCHANGED <<mainQ, rowsHost>>
          BY <1>7 DEF NewBatch, LaunchSkips, StageEmpty, Stage, Compare, LateSync, Verify,
             VerifyFails, gpu
      <2> QED
          BY <1>s, <2>1
  <1> QED
      BY <1>1, <1>2, <1>3, <1>4, <1>5, <1>6, <1>7 DEF Host

LEMMA StepVerified ==
  ASSUME IInv, Host \/ RunMain
  PROVE  VerifiedRowsExact'
  <1>0. TypeOK /\ UploadsExact /\ VerifiedRowsExact
      BY DEF IInv
  <1>t. trusted \subseteq trusted'
      BY TrustGrows
  <1>1. CASE UNCHANGED staged
      BY <1>0, <1>t, <1>1 DEF VerifiedRowsExact
  <1>2. CASE RunMain /\ mainQ[1].op = "h2d"
      <2> DEFINE b == mainQ[1].batch
                 t == mainQ[1].table
      <2>1. /\ b \in BatchIds /\ t \in TableIds
            /\ ~Relied(b) => rowsHost[t] = Exact(b)
            /\ staged' = [staged EXCEPT ![b][t] = rowsHost[t]]
            /\ trusted' = trusted
          BY <1>0, <1>2, Executed DEF RunMain, UploadsExact, UploadIsExact, Ops
      <2> HIDE DEF b, t
      <2>2. SUFFICES ASSUME NEW c \in BatchIds \ trusted, NEW u \in TableIds
                     PROVE  staged'[c][u] \in {Nothing, Exact(c)}
          BY <2>1 DEF VerifiedRowsExact, Exact, Nothing
      <2>3. staged'[c][u] = IF c = b /\ u = t THEN rowsHost[t] ELSE staged[c][u]
          BY <1>0, <2>1 DEF TypeOK
      <2> QED
          BY <1>0, <2>1, <2>3 DEF VerifiedRowsExact, Relied
  <1>3. RunMain => mainQ[1].op = "h2d" \/ UNCHANGED staged
      BY <1>0, Executed DEF RunMain
  <1>4. Host => UNCHANGED staged
      BY DEF Host, NewBatch, Launch, LaunchFails, LaunchSkips, StageEmpty, Stage, Consume,
         Compare, LateHash, LateSync, Gather, GatherFails, Verify, VerifyFails, StockGather,
         Upload, gpu
  <1> QED
      BY <1>1, <1>2, <1>3, <1>4

\* The invariant is inductive, so it holds always.
THEOREM NativeInv == Spec => []IInv
  <1>1. IInv /\ [Next]_vars => IInv'
    <2> SUFFICES ASSUME IInv, [Next]_vars PROVE IInv'
        OBVIOUS
    <2>1. ASSUME Host \/ RunMain PROVE IInv'
        <3>1. BuffersQuiet' /\ OwnHash'
            BY <2>1, StepFilling DEF BuffersQuiet, OwnHash
        <3> QED
            BY <2>1, <3>1, StepType, StepPhases, StepHash, StepRows, StepUploads, StepVerified
               DEF IInv
    <2>2. CASE UNCHANGED vars
        BY <2>2 DEF vars, levers, gpu, IInv, TypeOK, Phases, HashInv, AwaitsHash, LastIsOwn,
           LastIsExact, BuffersQuiet, OwnHash, Filling, RowsInv, UploadsExact, UploadIsExact,
           Relied, VerifiedRowsExact
    <2> QED
        BY <2>1, <2>2 DEF Next
  <1> QED
      BY <1>1, InitInv, PTL DEF Spec

\* The variables keep their types; the queue holds hashes and uploads only.
THEOREM TypeCorrect == Spec => []TypeOK
  BY NativeInv, PTL DEF IInv

\* The one wait of a step is enough: while the host fills rows_host or reads
\* hash_host, no copy into or out of them is queued.
THEOREM HostAlone == Spec => []BuffersQuiet
  BY NativeInv, PTL DEF IInv

\* A gather never works from the hashes of a dropped or an earlier batch.
THEOREM HashesAreOwn == Spec => []OwnHash
  BY NativeInv, PTL DEF IInv

\* Wrong early hashes and wrong or failing C gathers never reach the device
\* for a batch whose levers were still being verified, or were off.
THEOREM RowsVerified == Spec => []VerifiedRowsExact
  BY NativeInv, PTL DEF IInv
==============================================================================
