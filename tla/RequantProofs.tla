---------------------------- MODULE RequantProofs ----------------------------
(***************************************************************************)
(* Proofs about Requant and Assemble, for any number of nodes and units    *)
(* and any number of deaths: one encoder per unit, true records, DONE only *)
(* at the end, and a snapshot of the recorded shards.                      *)
(***************************************************************************)
EXTENDS Assemble, TLAPS

USE DEF Absent, Empty, Whole, File, NoUnit

PcLocs == {"down", "index", "list", "scan", "own", "reuse", "encode", "record",
           "done", "refresh", "publish", "finish"}

\* The actions of one worker.
Step(n) == Work(n) \/ StopFile(n) \/ EncodeFails(n) \/ Die(n) \/ WriteCutOff(n)

LEMMA InitInv == Init => IInv
  <1> SUFFICES ASSUME Init PROVE IInv
      OBVIOUS
  <1> USE DEF Init
  <1>1. TypeOK
      <2>1. failures \in [Nodes -> [UnitIds -> 0 .. 1]]
          OBVIOUS
      <2>2. done \in [UnitIds -> [node : Nodes \cup {Absent, Empty}, version : Nat]]
          OBVIOUS
      <2>3. shard \in [Nodes -> [UnitIds -> Nat]] /\ unitRec \in [Nodes -> [UnitIds -> Nat]]
          OBVIOUS
      <2>4. pos \in [Nodes -> 1 .. (Units + 1)] /\ troubles \in 0 .. Trouble
          BY RequantAssumption
      <2> QED
          BY <2>1, <2>2, <2>3, <2>4 DEF TypeOK
  <1>3. \A n \in Nodes : pc[n] \notin HoldLocs
      BY DEF HoldLocs
  <1>4. OneEncoder /\ ClaimInv
      BY <1>3 DEF OneEncoder, ClaimInv, Holds
  <1>5. Records = {}
      BY RequantAssumption DEF Records
  <1>6. DoneBacked /\ RecordInv
      BY <1>3, <1>5 DEF DoneBacked, RecordInv, HoldLocs
  <1>7. DoneMeansAll /\ ReadInv
      BY DEF DoneMeansAll, ReadInv
  <1> QED
      BY <1>1, <1>4, <1>6, <1>7 DEF IInv

\* What the end of a worker's process leaves ...
LEMMA ExitEffect ==
    ASSUME TypeOK, NEW n \in Nodes, Exit(n)
    PROVE  /\ pc' \in [Nodes -> PcLocs]
           /\ pos' \in [Nodes -> 1 .. (Units + 1)]
           /\ cur' \in [Nodes -> UnitIds \cup {NoUnit}]
           /\ seen' \in [Nodes -> SUBSET UnitIds]
           /\ read' \in [Nodes -> SUBSET UnitIds]
           /\ failures' \in [Nodes -> [UnitIds -> 0 .. 1]]
           /\ pc'[n] = "down"
           /\ \A m \in Nodes : m # n =>
                 /\ pc'[m] = pc[m] /\ cur'[m] = cur[m]
                 /\ seen'[m] = seen[m] /\ read'[m] = read[m]
  <1>1. 1 \in 1 .. (Units + 1)
      BY RequantAssumption
  <1>2. pc' \in [Nodes -> PcLocs] /\ pos' \in [Nodes -> 1 .. (Units + 1)]
      BY <1>1 DEF TypeOK, Exit, Goto, PcLocs
  <1> QED
      BY <1>2 DEF TypeOK, Exit, Goto

\* ... and the return of pick_unit.
LEMMA TakeEffect ==
    ASSUME TypeOK, NEW n \in Nodes, NEW u \in UnitIds \cup {NoUnit},
           NEW to \in PcLocs, Take(n, u, to)
    PROVE  /\ pc' \in [Nodes -> PcLocs]
           /\ pos' \in [Nodes -> 1 .. (Units + 1)]
           /\ cur' \in [Nodes -> UnitIds \cup {NoUnit}]
           /\ seen' \in [Nodes -> SUBSET UnitIds]
           /\ pc'[n] = to /\ cur'[n] = u
           /\ \A m \in Nodes : m # n =>
                 pc'[m] = pc[m] /\ cur'[m] = cur[m] /\ seen'[m] = seen[m]
  <1>1. 1 \in 1 .. (Units + 1)
      BY RequantAssumption
  <1>2. pc' \in [Nodes -> PcLocs] /\ pos' \in [Nodes -> 1 .. (Units + 1)]
      BY <1>1 DEF TypeOK, Take, Goto, PcLocs
  <1> QED
      BY <1>2 DEF TypeOK, Take, Goto

\* Types.
LEMMA StepType ==
    ASSUME IInv, NEW n \in Nodes, Step(n)
    PROVE  TypeOK'
  <1> USE DEF TypeOK, Goto, loop, state, disk
  <1>0. TypeOK
      BY DEF IInv
  <1>c. pc[n] \in HoldLocs => cur[n] \in UnitIds
      BY DEF IInv, ClaimInv
  <1>e. Exit(n) =>
            /\ pc' \in [Nodes -> PcLocs]
            /\ pos' \in [Nodes -> 1 .. (Units + 1)]
            /\ cur' \in [Nodes -> UnitIds \cup {NoUnit}]
            /\ seen' \in [Nodes -> SUBSET UnitIds]
            /\ read' \in [Nodes -> SUBSET UnitIds]
            /\ failures' \in [Nodes -> [UnitIds -> 0 .. 1]]
      BY <1>0, ExitEffect
  <1>1. CASE Start(n)
      BY <1>0, <1>1 DEF Start
  <1>17. CASE WriteIndex(n)
      BY <1>0, <1>17 DEF WriteIndex
  <1>2. CASE ListDone(n)
      BY <1>0, <1>2, RequantAssumption DEF ListDone
  <1>3. CASE Scan(n)
      <2> DEFINE u == UnitAt(n, pos[n])
      <2>1. u \in UnitIds /\ pos[n] + 1 \in 1 .. (Units + 1)
        <3>1. pos[n] \in 1 .. (Units + 1) /\ pos[n] <= Units
            BY <1>0, <1>3 DEF Scan
        <3> QED
            BY <3>1, RequantAssumption DEF UnitAt, UnitIds
      <2> HIDE DEF u
      <2>2. CASE Skip(n)
          BY <1>0, <1>3, <2>1, <2>2 DEF Scan, Skip
      <2>3. CASE (claims' = claims \/ claims' = claims \cup {u})
                 /\ \E to \in {"own", "reuse"} : Take(n, u, to)
        <3>1. PICK to \in {"own", "reuse"} : Take(n, u, to)
            BY <2>3
        <3>2. to \in PcLocs
            BY DEF PcLocs
        <3> QED
            BY <1>0, <1>3, <2>1, <2>3, <3>1, <3>2, TakeEffect DEF Scan, PcLocs
      <2> QED
          BY <1>3, <2>2, <2>3 DEF Scan, u
  <1>4. CASE ScanEnds(n)
      BY <1>0, <1>4, TakeEffect DEF ScanEnds, PcLocs
  <1>16. CASE StopFile(n)
      <2>1. troubles' \in 0 .. Trouble
          BY <1>0, <1>16, RequantAssumption DEF StopFile
      <2> QED
          BY <1>0, <1>16, <2>1, TakeEffect DEF StopFile, PcLocs
  <1>5. CASE WriteOwner(n)
      BY <1>0, <1>5, <1>c DEF WriteOwner, HoldLocs
  <1>6. CASE Reuse(n)
      BY <1>0, <1>6 DEF Reuse
  <1>7. CASE Encode(n)
      <2>1. shard' \in [Nodes -> [UnitIds -> Nat]]
          BY <1>0, <1>7, <1>c DEF Encode, HoldLocs
      <2> QED
          BY <1>0, <1>7, <2>1 DEF Encode
  <1>8. CASE WriteUnitRec(n)
      BY <1>0, <1>8, <1>c DEF WriteUnitRec, HoldLocs
  <1>9. CASE WriteDone(n)
      <2>1. done' \in [UnitIds -> [node : Nodes \cup {Absent, Empty}, version : Nat]]
          BY <1>0, <1>9, <1>c DEF WriteDone, HoldLocs
      <2> QED
          BY <1>0, <1>9, <2>1 DEF WriteDone
  <1>10. CASE ReadRecords(n)
      BY <1>0, <1>10 DEF ReadRecords, Records
  <1>11. CASE Publish(n)
      BY <1>0, <1>11 DEF Publish
  <1>12. CASE Finish(n)
      <2>1. CASE Exit(n)
          BY <1>0, <1>12, <1>e, <2>1 DEF Finish, PcLocs
      <2>2. CASE ~Exit(n)
          BY <1>0, <1>12, <2>2 DEF Finish
      <2> QED
          BY <2>1, <2>2
  <1>13. CASE EncodeFails(n)
      <2>1. cur[n] \in UnitIds
          BY <1>13, <1>c DEF EncodeFails, HoldLocs
      <2>2. troubles' \in 0 .. Trouble
          BY <1>0, <1>13, RequantAssumption DEF EncodeFails
      <2>3. CASE Exit(n)
          BY <1>0, <1>13, <1>e, <2>2, <2>3 DEF EncodeFails, PcLocs
      <2>4. CASE ~Exit(n)
        <3>0. failures' = [failures EXCEPT ![n][cur[n]] = 1] /\ UNCHANGED <<pos, cur, seen, read>>
            BY <1>13, <2>4 DEF EncodeFails
        <3>1. failures' \in [Nodes -> [UnitIds -> 0 .. 1]]
            BY <1>0, <2>1, <3>0
        <3>2. pc' \in [Nodes -> PcLocs] /\ UNCHANGED <<pos, cur, seen, read>>
            BY <1>0, <1>13, <2>4 DEF EncodeFails, PcLocs
        <3> QED
            BY <1>0, <1>13, <2>2, <3>1, <3>2 DEF EncodeFails, PcLocs
      <2> QED
          BY <2>3, <2>4
  <1>14. CASE Die(n)
      BY <1>0, <1>14, <1>e, RequantAssumption DEF Die, PcLocs
  <1>15. CASE WriteCutOff(n)
      <2>1. done' \in [UnitIds -> [node : Nodes \cup {Absent, Empty}, version : Nat]]
        <3>1. CASE done' = done
            BY <1>0, <3>1
        <3>2. CASE done' = [done EXCEPT ![cur[n]] = File(Empty, 0)]
            BY <1>0, <3>2
        <3> QED
            BY <1>15, <3>1, <3>2 DEF WriteCutOff
      <2>2. owner' \in [UnitIds -> Nodes \cup {Absent, Empty}]
          BY <1>0, <1>15, <1>c DEF WriteCutOff, HoldLocs
      <2>4. index' \in {Absent, Empty, Whole} /\ manifest' \subseteq UnitIds /\ allDone' \in BOOLEAN
          BY <1>0, <1>15 DEF WriteCutOff
      <2>3. troubles' \in 0 .. Trouble
          BY <1>0, <1>15, RequantAssumption DEF WriteCutOff
      <2> QED
          BY <1>0, <1>15, <1>e, <2>1, <2>2, <2>3, <2>4 DEF WriteCutOff, PcLocs
  <1> QED
      BY <1>1, <1>2, <1>3, <1>4, <1>5, <1>6, <1>7, <1>8, <1>9, <1>10, <1>11, <1>12,
         <1>13, <1>14, <1>15, <1>16, <1>17 DEF Step, Work

\* A worker that ends, or goes back for its next unit, holds nothing.
LEMMA LeaveEffect ==
    ASSUME TypeOK, NEW n \in Nodes,
           Finish(n) \/ EncodeFails(n) \/ Die(n) \/ WriteCutOff(n)
    PROVE  /\ pc'[n] \in {"down", "list"}
           /\ \A m \in Nodes : m # n =>
                 /\ pc'[m] = pc[m] /\ cur'[m] = cur[m]
                 /\ seen'[m] = seen[m] /\ read'[m] = read[m]
  <1>1. CASE Exit(n)
      BY <1>1, ExitEffect
  <1>2. CASE ~Exit(n)
      BY <1>2 DEF Finish, EncodeFails, Die, WriteCutOff, Goto, TypeOK
  <1> QED
      BY <1>1, <1>2

\* A unit is claimed once, and resumed only by its owner.
LEMMA StepClaims ==
    ASSUME IInv, NEW n \in Nodes, Step(n)
    PROVE  OneEncoder' /\ ClaimInv'
  <1> USE RequantAssumption
      DEF OneEncoder, ClaimInv, Holds, HoldLocs, Goto, loop, state, disk
  <1>0. TypeOK /\ OneEncoder /\ ClaimInv
      BY DEF IInv
  <1>e. Finish(n) \/ EncodeFails(n) \/ Die(n) \/ WriteCutOff(n) =>
            /\ pc'[n] \in {"down", "list"}
            /\ \A m \in Nodes : m # n =>
                  /\ pc'[m] = pc[m] /\ cur'[m] = cur[m]
                  /\ seen'[m] = seen[m] /\ read'[m] = read[m]
      BY <1>0, LeaveEffect
  <1>t. ScanEnds(n) \/ StopFile(n) =>
            /\ pc'[n] = "refresh"
            /\ \A m \in Nodes : m # n =>
                  pc'[m] = pc[m] /\ cur'[m] = cur[m] /\ seen'[m] = seen[m]
      BY <1>0, TakeEffect DEF ScanEnds, StopFile, PcLocs
  <1>1. CASE Start(n)
      BY <1>0, <1>1 DEF Start, TypeOK
  <1>17. CASE WriteIndex(n)
      BY <1>0, <1>17 DEF WriteIndex, TypeOK
  <1>2. CASE ListDone(n)
      BY <1>0, <1>2 DEF ListDone, TypeOK
  <1>3. CASE Scan(n)
      <2> DEFINE u == UnitAt(n, pos[n])
      <2>0. u \in UnitIds
          BY <1>0, <1>3 DEF Scan, UnitAt, UnitIds, TypeOK
      <2>1. CASE Skip(n) /\ UNCHANGED owner
          BY <1>0, <2>1 DEF Skip, TypeOK
      <2>2. CASE u \notin claims /\ claims' = claims \cup {u} /\ Take(n, u, "own")
                 /\ UNCHANGED owner
          BY <1>0, <2>0, <2>2 DEF Take, TypeOK
      <2>3. CASE u \in claims /\ owner[u] = n /\ Take(n, u, "reuse") /\ UNCHANGED claims
                 /\ UNCHANGED owner
          BY <1>0, <2>0, <2>3 DEF Take, TypeOK
      <2> QED
          BY <1>3, <2>1, <2>2, <2>3 DEF Scan
  <1>4. CASE ScanEnds(n) \/ StopFile(n)
      BY <1>0, <1>4, <1>t DEF ScanEnds, StopFile
  <1>5. CASE WriteOwner(n)
      BY <1>0, <1>5 DEF WriteOwner, TypeOK
  <1>6. CASE Reuse(n)
      BY <1>0, <1>6 DEF Reuse, TypeOK
  <1>7. CASE Encode(n)
      BY <1>0, <1>7 DEF Encode, TypeOK
  <1>8. CASE WriteUnitRec(n)
      BY <1>0, <1>8 DEF WriteUnitRec, TypeOK
  <1>9. CASE WriteDone(n)
      BY <1>0, <1>9 DEF WriteDone, TypeOK
  <1>10. CASE ReadRecords(n)
      BY <1>0, <1>10 DEF ReadRecords, TypeOK
  <1>11. CASE Publish(n)
      BY <1>0, <1>11 DEF Publish, TypeOK
  <1>12. CASE Finish(n) \/ EncodeFails(n) \/ Die(n)
      <2>1. UNCHANGED <<claims, owner>>
          BY <1>12 DEF Finish, EncodeFails, Die
      <2>2. /\ pc'[n] \in {"down", "list"}
            /\ \A m \in Nodes : m # n =>
                  pc'[m] = pc[m] /\ cur'[m] = cur[m] /\ seen'[m] = seen[m]
          BY <1>12, <1>e
      <2> QED
          BY <1>0, <2>1, <2>2
  <1>15. CASE WriteCutOff(n)
      <2>1. /\ pc'[n] = "down" \/ pc'[n] = "list"
            /\ \A m \in Nodes : m # n => pc'[m] = pc[m] /\ cur'[m] = cur[m]
          BY <1>15, <1>e
      <2>2. CASE pc[n] = "own" /\ owner' = [owner EXCEPT ![cur[n]] = Empty] /\ UNCHANGED claims
        <3>1. cur[n] \in claims /\ cur[n] \in UnitIds
            BY <1>0, <2>2 DEF TypeOK
        <3>2. \A m \in Nodes : m # n /\ pc[m] \in HoldLocs => cur[m] # cur[n] /\ cur[m] \in UnitIds
            BY <1>0, <2>2 DEF TypeOK
        <3>3. \A u \in UnitIds : owner'[u] = IF u = cur[n] THEN Empty ELSE owner[u]
            BY <1>0, <2>2 DEF TypeOK
        <3> QED
            BY <1>0, <2>1, <2>2, <3>1, <3>2, <3>3
      <2>3. CASE UNCHANGED <<owner, claims>>
          BY <1>0, <2>1, <2>3
      <2> QED
          BY <1>15, <2>2, <2>3 DEF WriteCutOff
  <1> QED
      BY <1>1, <1>2, <1>3, <1>4, <1>5, <1>6, <1>7, <1>8, <1>9, <1>10, <1>11, <1>12,
         <1>15, <1>17 DEF Step, Work

\* A record, once there, stays as it is; nobody writes it twice.
LEMMA RecordsStay ==
    ASSUME IInv, NEW n \in Nodes, Step(n)
    PROVE  \A u \in UnitIds : done[u].node # Absent => done'[u] = done[u]
  <1> USE DEF Goto, loop, state, disk
  <1>1. pc[n] = "done" => cur[n] \in UnitIds /\ done[cur[n]].node = Absent
      BY DEF IInv, ClaimInv, RecordInv, Holds, HoldLocs, TypeOK
  <1>2. CASE WriteDone(n)
      BY <1>1, <1>2 DEF WriteDone, IInv, TypeOK
  <1>3. CASE WriteCutOff(n)
      BY <1>1, <1>3 DEF WriteCutOff, IInv, TypeOK
  <1>4. CASE ~WriteDone(n) /\ ~WriteCutOff(n)
      BY <1>4 DEF Step, Work, Start, WriteIndex, ListDone, Scan, ScanEnds, StopFile, WriteOwner, Reuse, Encode,
         WriteUnitRec, ReadRecords, Publish, Finish, Exit, EncodeFails, Die
  <1> QED
      BY <1>2, <1>3, <1>4

\* A holder's unit has no record, and nobody else holds it.
LEMMA HolderFacts ==
    ASSUME IInv, NEW n \in Nodes, pc[n] \in HoldLocs
    PROVE  /\ cur[n] \in UnitIds
           /\ done[cur[n]].node = Absent
           /\ \A m \in Nodes : Holds(m, cur[n]) => m = n
           /\ owner[cur[n]] = IF pc[n] = "own" THEN Absent ELSE n
  BY DEF IInv, TypeOK, ClaimInv, RecordInv, OneEncoder, Holds

\* Nobody takes a unit that has a record.
LEMMA ScanFacts ==
    ASSUME IInv, NEW n \in Nodes, Scan(n), NEW u \in UnitIds, done[u].node # Absent
    PROVE  \A m \in Nodes : ~Holds(m, u)'
  <1> USE DEF Holds, HoldLocs, Goto
  <1>1. /\ owner[u] \in Nodes
        /\ u \in claims
        /\ pc[owner[u]] = "scan" => u \in seen[owner[u]]
      BY RequantAssumption DEF IInv, ClaimInv, RecordInv
  <1>2. \A m \in Nodes : ~Holds(m, u)
      BY DEF IInv, RecordInv
  <1>3. CASE Skip(n)
      BY <1>2, <1>3 DEF Skip
  <1>4. ASSUME NEW to \in {"own", "reuse"}, Take(n, UnitAt(n, pos[n]), to),
               UnitAt(n, pos[n]) # u
        PROVE  \A m \in Nodes : ~Holds(m, u)'
      BY <1>2, <1>4 DEF Take, IInv, TypeOK
  <1>5. UnitAt(n, pos[n]) = u => Skip(n)
      BY <1>1 DEF Scan, PassesOver
  <1>6. Skip(n) \/ \E to \in {"own", "reuse"} : Take(n, UnitAt(n, pos[n]), to)
      BY DEF Scan
  <1> QED
      BY <1>3, <1>4, <1>5, <1>6

\* What "done" will write is true, and a record stays true.
LEMMA StepRecords ==
    ASSUME IInv, NEW n \in Nodes, Step(n)
    PROVE  RecordInv' /\ DoneBacked'
  <1> USE RequantAssumption
      DEF RecordInv, DoneBacked, Records, Holds, HoldLocs, Goto, loop, state, disk
  <1>0. TypeOK /\ RecordInv /\ DoneBacked
      BY DEF IInv
  <1>h. pc[n] \in HoldLocs =>
            /\ cur[n] \in UnitIds
            /\ done[cur[n]].node = Absent
            /\ \A m \in Nodes : Holds(m, cur[n]) => m = n
            /\ owner[cur[n]] = IF pc[n] = "own" THEN Absent ELSE n
      BY HolderFacts
  <1>e. Finish(n) \/ EncodeFails(n) \/ Die(n) \/ WriteCutOff(n) =>
            /\ pc'[n] \in {"down", "list"}
            /\ \A m \in Nodes : m # n =>
                  /\ pc'[m] = pc[m] /\ cur'[m] = cur[m]
                  /\ seen'[m] = seen[m] /\ read'[m] = read[m]
      BY <1>0, LeaveEffect
  <1>t. ScanEnds(n) \/ StopFile(n) =>
            /\ pc'[n] = "refresh"
            /\ \A m \in Nodes : m # n =>
                  pc'[m] = pc[m] /\ cur'[m] = cur[m] /\ seen'[m] = seen[m]
      BY <1>0, TakeEffect DEF ScanEnds, StopFile, PcLocs
  <1>1. CASE Start(n)
      BY <1>0, <1>1 DEF Start, TypeOK
  <1>17. CASE WriteIndex(n)
      BY <1>0, <1>17 DEF WriteIndex, TypeOK
  <1>2. CASE ListDone(n)
      BY <1>0, <1>2 DEF ListDone, TypeOK
  <1>3. CASE Scan(n)
      <2>1. \A u \in UnitIds : done[u].node # Absent => \A m \in Nodes : ~Holds(m, u)'
          BY <1>3, ScanFacts
      <2>2. /\ UNCHANGED <<owner, done, shard, unitRec>>
            /\ \A m \in Nodes : pc'[m] \in {"record", "done"} => pc'[m] = pc[m] /\ cur'[m] = cur[m]
            /\ \A m \in Nodes : pc'[m] = "scan" => pc[m] = "scan" /\ seen'[m] = seen[m]
        <3>1. CASE Skip(n)
            BY <1>0, <1>3, <3>1 DEF Scan, Skip, TypeOK
        <3>2. ASSUME NEW to \in {"own", "reuse"}, Take(n, UnitAt(n, pos[n]), to)
              PROVE  <2>2!2 /\ <2>2!3
            BY <1>0, <1>3, <3>2 DEF Scan, Take, TypeOK
        <3> QED
            BY <1>3, <3>1, <3>2 DEF Scan
      <2> QED
          BY <1>0, <2>1, <2>2 DEF TypeOK
  <1>4. CASE ScanEnds(n) \/ StopFile(n)
      BY <1>0, <1>4, <1>t DEF ScanEnds, StopFile
  <1>5. CASE WriteOwner(n)
      BY <1>0, <1>5, <1>h DEF WriteOwner, TypeOK
  <1>6. CASE Reuse(n)
      BY <1>0, <1>6, <1>h DEF Reuse, TypeOK
  <1>7. CASE Encode(n)
      BY <1>0, <1>7, <1>h DEF Encode, TypeOK
  <1>8. CASE WriteUnitRec(n)
      BY <1>0, <1>8, <1>h DEF WriteUnitRec, TypeOK
  <1>9. CASE WriteDone(n)
      BY <1>0, <1>9, <1>h DEF WriteDone, TypeOK
  <1>10. CASE ReadRecords(n)
      BY <1>0, <1>10 DEF ReadRecords, TypeOK
  <1>11. CASE Publish(n)
      BY <1>0, <1>11 DEF Publish, TypeOK
  <1>12. CASE Finish(n) \/ EncodeFails(n) \/ Die(n)
      <2>1. UNCHANGED <<owner, done, shard, unitRec>>
          BY <1>12 DEF Finish, EncodeFails, Die
      <2>2. /\ pc'[n] \in {"down", "list"}
            /\ \A m \in Nodes : m # n =>
                  pc'[m] = pc[m] /\ cur'[m] = cur[m] /\ seen'[m] = seen[m]
          BY <1>12, <1>e
      <2> QED
          BY <1>0, <2>1, <2>2
  <1>15. CASE WriteCutOff(n)
      <2>1. /\ pc'[n] = "down" \/ pc'[n] = "list"
            /\ \A m \in Nodes : m # n =>
                  pc'[m] = pc[m] /\ cur'[m] = cur[m] /\ seen'[m] = seen[m]
            /\ UNCHANGED <<shard, unitRec>>
          BY <1>15, <1>e DEF WriteCutOff
      <2>2. CASE pc[n] = "own" /\ owner' = [owner EXCEPT ![cur[n]] = Empty] /\ UNCHANGED done
        <3>1. done[cur[n]].node = Absent
            BY <1>h, <2>2
        <3>2. \A u \in UnitIds : u # cur[n] => owner'[u] = owner[u]
            BY <1>0, <2>2 DEF TypeOK
        <3> QED
            BY <1>0, <2>1, <2>2, <3>1, <3>2
      <2>3. CASE pc[n] = "done" /\ done' = [done EXCEPT ![cur[n]] = File(Empty, 0)]
                 /\ UNCHANGED owner
        <3>1. /\ cur[n] \in UnitIds /\ owner[cur[n]] = n
              /\ \A m \in Nodes : Holds(m, cur[n]) => m = n
            BY <1>h, <2>3
        <3>2. \A u \in UnitIds : u # cur[n] => done'[u] = done[u]
            BY <1>0, <2>3 DEF TypeOK
        <3>3. done'[cur[n]].node = Empty /\ Empty \notin Nodes
            BY <1>0, <2>3, <3>1 DEF TypeOK
        <3>4. \A m \in Nodes, u \in UnitIds : Holds(m, u)' => Holds(m, u) /\ u # cur[n]
            BY <2>1, <3>1
        <3> QED
            BY <1>0, <2>1, <2>3, <3>1, <3>2, <3>3, <3>4
      <2>4. CASE UNCHANGED <<owner, done>>
          BY <1>0, <2>1, <2>4
      <2> QED
          BY <1>15, <2>2, <2>3, <2>4 DEF WriteCutOff
  <1> QED
      BY <1>1, <1>2, <1>3, <1>4, <1>5, <1>6, <1>7, <1>8, <1>9, <1>10, <1>11, <1>12,
         <1>15, <1>17 DEF Step, Work

\* What a worker has read, and DONE, outlive the other workers' steps.
LEMMA StepRead ==
    ASSUME IInv, NEW n \in Nodes, Step(n)
    PROVE  ReadInv' /\ DoneMeansAll'
  <1> USE DEF ReadInv, DoneMeansAll, Goto, loop, state, disk
  <1>0. TypeOK /\ ReadInv /\ DoneMeansAll
      BY DEF IInv
  <1>1. Records \subseteq Records' /\ Records' \subseteq UnitIds
      BY RecordsStay, RequantAssumption DEF Records
  <1>2. CASE ReadRecords(n)
      BY <1>0, <1>1, <1>2 DEF ReadRecords, TypeOK
  <1>3. CASE Publish(n)
      BY <1>0, <1>1, <1>3 DEF Publish, TypeOK
  <1>4. CASE Finish(n)
      BY <1>0, <1>1, <1>4 DEF Finish, Exit, TypeOK
  <1>5. CASE ~ReadRecords(n) /\ ~Publish(n) /\ ~Finish(n)
      <2>1. CASE ScanEnds(n) \/ Scan(n) \/ StopFile(n)
        <3>1. /\ UNCHANGED <<read, allDone>>
              /\ pc'[n] \notin {"publish", "finish"}
              /\ \A m \in Nodes : m # n => pc'[m] = pc[m]
            BY <1>0, <2>1 DEF ScanEnds, StopFile, Scan, Skip, Take, TypeOK
        <3> QED
            BY <1>0, <1>1, <3>1
      <2>2. CASE EncodeFails(n) \/ Die(n) \/ WriteCutOff(n)
        <3>1. /\ pc'[n] \in {"down", "list"}
              /\ \A m \in Nodes : m # n => pc'[m] = pc[m] /\ read'[m] = read[m]
            BY <1>0, <2>2, LeaveEffect
        <3>2. ReadInv'
            BY <1>0, <1>1, <3>1
        <3>3. allDone' => allDone \/ (pc[n] = "finish" /\ read[n] = UnitIds)
            BY <2>2 DEF EncodeFails, Die, WriteCutOff
        <3> QED
            BY <1>0, <1>1, <3>2, <3>3
      <2>3. CASE ~ScanEnds(n) /\ ~Scan(n) /\ ~StopFile(n) /\ ~EncodeFails(n) /\ ~Die(n) /\ ~WriteCutOff(n)
        <3>1. /\ UNCHANGED <<read, allDone>>
              /\ pc'[n] \notin {"publish", "finish"}
              /\ \A m \in Nodes : m # n => pc'[m] = pc[m]
            BY <1>0, <1>5, <2>3 DEF Step, Work, Start, WriteIndex, ListDone, WriteOwner, Reuse, Encode,
               WriteUnitRec, WriteDone, TypeOK
        <3> QED
            BY <1>0, <1>1, <3>1
      <2> QED
          BY <2>1, <2>2, <2>3
  <1> QED
      BY <1>2, <1>3, <1>4, <1>5

\* The invariant is inductive, so it holds always.
THEOREM RequantInv == Spec => []IInv
  <1>1. IInv /\ [Next]_vars => IInv'
    <2> SUFFICES ASSUME IInv, [Next]_vars PROVE IInv'
        OBVIOUS
    <2>1. ASSUME NEW n \in Nodes, Step(n) PROVE IInv'
        BY <2>1, StepType, StepClaims, StepRecords, StepRead DEF IInv
    <2>2. CASE UNCHANGED vars
        BY <2>2 DEF vars, loop, state, disk, IInv, TypeOK, OneEncoder, ClaimInv,
           DoneBacked, RecordInv, DoneMeansAll, ReadInv, Records, Holds
    <2> QED
        BY <2>1, <2>2 DEF Next, Step
  <1> QED
      BY <1>1, InitInv, PTL DEF Spec

\* Types of the workers' state.
THEOREM TypeCorrect == Spec => []TypeOK
  BY RequantInv, PTL DEF IInv

------------------------------------------------------------------------------
(* The assembly beside the workers. *)

AVarsSame == UNCHANGED <<call, cut, snap>>

\* A recorded shard is replaced by no worker.
LEMMA ShardsStay ==
    ASSUME IInv, NEW n \in Nodes, Step(n)
    PROVE  \A m \in Nodes, u \in Records : shard'[m][u] = shard[m][u]
  <1> USE DEF Goto, loop, state, disk
  <1>1. CASE Encode(n)
      <2>1. cur[n] \in UnitIds /\ done[cur[n]].node = Absent
          BY <1>1, HolderFacts DEF Encode, HoldLocs
      <2>2. cur[n] \notin Records
          BY <2>1, RequantAssumption DEF Records
      <2>3. shard \in [Nodes -> [UnitIds -> Nat]]
          BY DEF IInv, TypeOK
      <2> QED
          BY <1>1, <2>2, <2>3 DEF Encode, Records
  <1>2. CASE ~Encode(n)
      <2>1. UNCHANGED shard
          BY <1>2 DEF Step, Work, Start, WriteIndex, ListDone, Scan, ScanEnds, StopFile, WriteOwner, Reuse,
             WriteUnitRec, WriteDone, ReadRecords, Publish, Finish, EncodeFails, Die, WriteCutOff
      <2> QED
          BY <2>1
  <1> QED
      BY <1>1, <1>2

\* A worker's step is none of assemble's business.
LEMMA WorkerKeeps ==
    ASSUME AInv, NEW n \in Nodes, Step(n), AVarsSame
    PROVE  AInv'
  <1>1. IInv'
      BY StepType, StepClaims, StepRecords, StepRead DEF AInv, IInv
  <1>2. \A u \in Records : done'[u] = done[u] /\ u \in Records'
      BY RecordsStay, RequantAssumption DEF AInv, Records
  <1>3. \A u \in Records : shard'[Assembler][u] = shard[Assembler][u]
      BY ShardsStay, AssembleAssumption DEF AInv
  <1>4. ATypeOK'
      BY <1>1 DEF AInv, ATypeOK, IInv, AVarsSame, call
  <1>5. allDone => allDone' /\ Records = UnitIds
      <2>1. allDone => allDone'
          BY DEF Step, Work, Start, WriteIndex, ListDone, Scan, ScanEnds, StopFile, WriteOwner, Reuse, Encode,
             WriteUnitRec, WriteDone, ReadRecords, Publish, Finish, EncodeFails, Die,
             WriteCutOff, state
      <2> QED
          BY <2>1 DEF AInv, IInv, DoneMeansAll
  <1>6. ManInv'
      BY <1>2, <1>3, <1>5 DEF AInv, ManInv, Good, ThisFile, InMan, AVarsSame, call
  <1>7. SnapInv' /\ SnapshotTrue'
      BY <1>2 DEF AInv, SnapInv, SnapshotTrue, AVarsSame, call
  <1> QED
      BY <1>1, <1>4, <1>6, <1>7 DEF AInv

\* assemble changes the manifest, the count of troubles and, where a shard was
\* missing and its unit is recorded, its node's files.
LEMMA AssemblyKeepsWork ==
    ASSUME AInv, Assembly
    PROVE  IInv'
  <1> USE DEF IInv, TypeOK, OneEncoder, ClaimInv, DoneBacked, RecordInv, DoneMeansAll,
              ReadInv, Records, Holds
  <1>1. CASE ReadAll \/ Check \/ Link \/ Inodes
      <2>1. UNCHANGED vars
          BY <1>1 DEF ReadAll, Check, Link, Inodes
      <2> QED
          BY <2>1 DEF AInv, vars, loop, state, disk
  <1>2. CASE WriteManifest
      <2>1. manifest' \subseteq UnitIds
          BY <1>2 DEF WriteManifest
      <2>2. UNCHANGED <<pc, loop, index, claims, owner, done, allDone, disk, troubles>>
          BY <1>2 DEF WriteManifest
      <2> QED
          BY <2>1, <2>2 DEF AInv, loop, disk
  <1>3. CASE FetchCut \/ Stopped
      <2>1. troubles' \in 0 .. Trouble
          BY <1>3, RequantAssumption DEF AInv, FetchCut, Stopped
      <2>2. UNCHANGED <<pc, loop, state, disk>>
          BY <1>3 DEF FetchCut, Stopped
      <2> QED
          BY <2>1, <2>2 DEF AInv, loop, state, disk
  <1>4. CASE Fetch
      <2>1. /\ unit \in Records
            /\ shard[Assembler][unit] = 0
            /\ man[unit].node # Assembler => done[unit].node # Assembler
            /\ man[unit].node \in Nodes
          BY <1>4, AssembleAssumption DEF AInv, Fetch, ManInv, ATypeOK, IsFile, ThisFile
      <2>2. CASE UNCHANGED shard
          BY <1>4, <2>2 DEF AInv, Fetch, loop, state
      <2>3. CASE man[unit].node # Assembler
                 /\ shard' = [shard EXCEPT ![Assembler][unit] = shard[man[unit].node][unit]]
        <3>1. shard' \in [Nodes -> [UnitIds -> Nat]]
          <4>1. unit \in UnitIds /\ shard \in [Nodes -> [UnitIds -> Nat]]
              BY <2>1 DEF AInv
          <4>2. shard[man[unit].node][unit] \in Nat
              BY <2>1, <4>1
          <4> QED
              BY <2>3, <4>1, <4>2, AssembleAssumption
        <3>2. \A m \in Nodes, u \in UnitIds :
                 shard'[m][u] = shard[m][u] \/ (m = Assembler /\ u = unit)
            BY <2>3 DEF AInv
        <3>3. UNCHANGED <<pc, loop, state, unitRec, troubles>>
            BY <1>4 DEF Fetch
        <3>4. TypeOK'
            BY <3>1, <3>3 DEF AInv, loop, state
        <3>5. \A n \in Nodes : ~Holds(n, unit)
            BY <2>1 DEF AInv
        <3>6. RecordInv' /\ DoneBacked'
            BY <2>1, <2>3, <3>2, <3>3, <3>5 DEF AInv, loop, state, HoldLocs
        <3> QED
            BY <3>3, <3>4, <3>6 DEF AInv, loop, state
      <2> QED
          BY <1>4, <2>2, <2>3 DEF Fetch
  <1> QED
      BY <1>1, <1>2, <1>3, <1>4 DEF Assembly

\* What a call ends with.
LEMMA EndEffect ==
    ASSUME NEW with \in {"idle", "ok"}, End(with)
    PROVE  /\ at' = with /\ unit' \in UnitIds
           /\ man' \in [UnitIds -> [node : Nodes \cup {Absent}, version : Nat]]
  BY RequantAssumption DEF End, NoMan, NoRecord, UnitIds

\* A pass of a loop over the units.
LEMMA NextUnitEffect ==
    ASSUME ATypeOK, NEW to \in {"link", "inodes"}, NextUnit(to)
    PROVE  /\ man' = man /\ unit' \in UnitIds
           /\ \/ at' = at /\ unit' = unit + 1
              \/ at' = to /\ unit' = 1 /\ \A u \in UnitIds : u <= unit
  BY RequantAssumption DEF NextUnit, ATypeOK, UnitIds

\* The call's own part of the invariant.
LEMMA AssemblyKeepsSnapshot ==
    ASSUME AInv, Assembly
    PROVE  ATypeOK' /\ ManInv' /\ SnapInv' /\ SnapshotTrue'
  <1> USE DEF ManInv, SnapInv, SnapshotTrue, Good, ThisFile, InMan, Leave
  <1>0. /\ ATypeOK /\ ManInv /\ SnapInv /\ SnapshotTrue
        /\ TypeOK'
      BY AssemblyKeepsWork DEF AInv, IInv
  <1>1. CASE ReadAll
      <2>1. allDone /\ Records = UnitIds
          BY <1>1 DEF ReadAll, AInv, IInv, DoneMeansAll
      <2>2. \A u \in UnitIds : man'[u] = done[u] /\ done[u].node \in Nodes
          BY <1>1, <2>1 DEF ReadAll, Records
      <2>3. \A u \in UnitIds : done[u] # NoRecord
          BY <2>2, RequantAssumption DEF NoRecord
      <2>4. man' \in [UnitIds -> [node : Nodes \cup {Absent}, version : Nat]]
          BY <1>1, <2>1, <2>2, RequantAssumption DEF ReadAll, AInv, IInv, TypeOK
      <2>5. unit' = 1 /\ unit' \in UnitIds /\ at' = "manifest" /\ UNCHANGED <<vars, cut, snap>>
          BY <1>1, RequantAssumption DEF ReadAll, UnitIds
      <2>6. ATypeOK'
          BY <1>0, <2>4, <2>5 DEF ATypeOK
      <2> QED
          BY <1>0, <2>1, <2>2, <2>3, <2>5, <2>6 DEF vars, state, disk, Records
  <1>l. ASSUME NEW with \in {"idle", "ok"}, End(with), UNCHANGED <<done, snap>>,
               cut' \subseteq UnitIds, with = "ok" => at = "inodes"
        PROVE  ATypeOK' /\ ManInv' /\ SnapInv' /\ SnapshotTrue'
      <2>1. /\ at' = with /\ unit' \in UnitIds
            /\ man' \in [UnitIds -> [node : Nodes \cup {Absent}, version : Nat]]
          BY <1>l, EndEffect
      <2>2. ATypeOK'
          BY <1>0, <1>l, <2>1 DEF ATypeOK
      <2> QED
          BY <1>0, <1>l, <2>1, <2>2 DEF Records
  <1>f. unit \in UnitIds /\ cut \subseteq UnitIds
      BY <1>0 DEF ATypeOK
  <1>2. CASE WriteManifest
      <2>1. UNCHANGED <<allDone, done, shard, cut, snap>> /\ at = "manifest"
          BY <1>2 DEF WriteManifest, disk
      <2>2. CASE Leave
          BY <1>f, <1>l, <2>1, <2>2
      <2>3. CASE at' = "fetch" /\ UNCHANGED <<unit, man>>
        <3>1. ATypeOK'
            BY <1>0, <2>1, <2>3 DEF ATypeOK
        <3>2. unit = 1
            BY <1>0, <2>1
        <3> QED
            BY <1>0, <2>1, <2>3, <3>1, <3>2 DEF Records, UnitIds
      <2> QED
          BY <1>2, <2>2, <2>3 DEF WriteManifest
  <1>3. CASE Fetch
      <2>1. UNCHANGED <<allDone, done, cut, snap>> /\ at = "fetch" /\ ~IsFile(unit)
          BY <1>3 DEF Fetch, state
      <2>2. CASE Leave
          BY <1>f, <1>l, <2>1, <2>2
      <2>3. CASE UNCHANGED call
                 /\ shard' = [shard EXCEPT ![Assembler][unit] = shard[man[unit].node][unit]]
        <3>1. ATypeOK'
            BY <1>0, <2>1, <2>3 DEF ATypeOK, call
        <3>2. \A u \in UnitIds : u # unit => shard'[Assembler][u] = shard[Assembler][u]
            BY <2>3 DEF AInv, IInv, TypeOK
        <3> QED
            BY <1>0, <1>f, <2>1, <2>3, <3>1, <3>2 DEF Records, UnitIds, call
      <2> QED
          BY <1>3, <2>2, <2>3 DEF Fetch
  <1>4. CASE FetchCut \/ Stopped
      <2>1. Leave /\ UNCHANGED <<done, snap>> /\ cut' \subseteq UnitIds
          BY <1>4, <1>f DEF FetchCut, Stopped, state
      <2> QED
          BY <1>l, <2>1
  <1>5. CASE Check
      <2>1. UNCHANGED <<allDone, done, shard, cut, snap>> /\ at = "fetch"
          BY <1>5 DEF Check, vars, state, disk
      <2>2. CASE Leave
          BY <1>f, <1>l, <2>1, <2>2
      <2>3. CASE NextUnit("link") /\ Good(unit)
        <3>1. /\ man' = man /\ unit' \in UnitIds
              /\ \/ at' = at /\ unit' = unit + 1
                 \/ at' = "link" /\ unit' = 1 /\ \A u \in UnitIds : u <= unit
            BY <1>0, <2>3, NextUnitEffect
        <3>2. ATypeOK'
            BY <1>0, <2>1, <3>1 DEF ATypeOK
        <3>3. \A u \in UnitIds : u <= unit => Good(u)
            BY <1>0, <1>f, <2>1, <2>3 DEF UnitIds
        <3>4. ManInv'
            BY <1>0, <1>f, <2>1, <3>1, <3>3 DEF UnitIds
        <3> QED
            BY <1>0, <2>1, <3>1, <3>2, <3>4 DEF Records, UnitIds
      <2> QED
          BY <1>0, <1>5, <1>f, <2>2, <2>3 DEF Check
  <1>6. CASE Link
      <2>1. UNCHANGED <<allDone, done, shard, cut>> /\ at = "link" /\ NextUnit("inodes")
          BY <1>6 DEF Link, vars, state, disk
      <2>2. /\ man' = man /\ unit' \in UnitIds
            /\ \/ at' = at /\ unit' = unit + 1
               \/ at' = "inodes" /\ \A u \in UnitIds : u <= unit
          BY <1>0, <2>1, NextUnitEffect
      <2>3. /\ unit \in Records
            /\ ThisFile(unit) = done[unit].version /\ ThisFile(unit) \in Nat /\ InMan(unit)
        <3>1. Records = UnitIds
            BY <1>0, <2>1 DEF AInv, IInv, DoneMeansAll
        <3>2. shard[Assembler][unit] \in Nat
            BY <1>f, AssembleAssumption DEF AInv, IInv, TypeOK
        <3> QED
            BY <1>0, <1>f, <2>1, <3>1, <3>2
      <2>4. snap' \in [UnitIds -> Nat \cup {Missing}]
            /\ \A u \in UnitIds : snap'[u] = IF u = unit /\ snap[u] = Missing
                                              THEN done[u].version ELSE snap[u]
          BY <1>0, <1>6, <1>f, <2>3 DEF Link, ATypeOK
      <2>5. ATypeOK'
          BY <1>0, <2>1, <2>2, <2>4 DEF ATypeOK
      <2>6. ManInv'
          BY <1>0, <1>f, <2>1, <2>2
      <2>7. \A u \in UnitIds : u <= unit => snap'[u] # Missing
          BY <1>0, <1>f, <2>1, <2>3, <2>4 DEF UnitIds, Missing
      <2>8. SnapInv'
          BY <1>f, <2>1, <2>2, <2>7 DEF UnitIds
      <2>9. SnapshotTrue'
          BY <1>0, <2>1, <2>2, <2>3, <2>4 DEF Records
      <2> QED
          BY <2>5, <2>6, <2>8, <2>9
  <1>7. CASE Inodes
      <2>1. UNCHANGED <<done, cut, snap>> /\ at = "inodes"
          BY <1>7 DEF Inodes, vars, state
      <2>2. End("idle") \/ End("ok")
          BY <1>7 DEF Inodes
      <2> QED
          BY <1>f, <1>l, <2>1, <2>2
  <1> QED
      BY <1>1, <1>2, <1>3, <1>4, <1>5, <1>6, <1>7 DEF Assembly

LEMMA AInitInv == AInit => AInv
  <1> SUFFICES ASSUME AInit PROVE AInv
      OBVIOUS
  <1>1. IInv
      BY InitInv DEF AInit
  <1>2. man \in [UnitIds -> [node : Nodes \cup {Absent}, version : Nat]]
      BY DEF AInit, NoMan, NoRecord
  <1>3. unit \in UnitIds
      BY RequantAssumption DEF AInit, UnitIds
  <1>4. ATypeOK
      BY <1>1, <1>2, <1>3 DEF AInit, ATypeOK, IInv
  <1> QED
      BY <1>1, <1>4 DEF AInit, AInv, ManInv, SnapInv, SnapshotTrue

\* With assemble beside them the workers keep their invariant, and it keeps its own.
THEOREM AssembleInv == ASpec => []AInv
  <1>1. AInv /\ [ANext]_avars => AInv'
    <2> SUFFICES ASSUME AInv, [ANext]_avars PROVE AInv'
        OBVIOUS
    <2>1. CASE Next /\ AVarsSame
      <3>1. PICK n \in Nodes : Step(n)
          BY <2>1 DEF Next, Step
      <3> QED
          BY <2>1, <3>1, WorkerKeeps
    <2>2. CASE Assembly
        BY <2>2, AssemblyKeepsWork, AssemblyKeepsSnapshot DEF AInv
    <2>3. CASE UNCHANGED avars
        BY <2>3 DEF avars, call, vars, loop, state, disk, AInv, ATypeOK, ManInv, SnapInv,
           SnapshotTrue, Good, ThisFile, InMan, IInv, TypeOK, OneEncoder, ClaimInv,
           DoneBacked, RecordInv, DoneMeansAll, ReadInv, Records, Holds
    <2> QED
        BY <2>1, <2>2, <2>3 DEF ANext, AVarsSame
  <1> QED
      BY <1>1, AInitInv, PTL DEF ASpec

\* Types of both.
THEOREM ATypeCorrect == ASpec => []ATypeOK
  BY AssembleInv, PTL DEF AInv

\* The snapshot only ever holds shards as recorded, and is complete when assemble
\* says so, however often it was stopped and whatever the manifest said.
THEOREM SnapshotIsRecorded == ASpec => []SnapshotTrue
  BY AssembleInv, PTL DEF AInv

\* However often workers die and resume, a unit is encoded by one node.
THEOREM OneEncoderAlways == ASpec => []OneEncoder
  BY AssembleInv, PTL DEF AInv, IInv

\* A done record always describes the file on the disk of the node it names,
\* nobody takes its unit again, and no fetched file disturbs it.
THEOREM RecordsTrue == ASpec => []DoneBacked
  BY AssembleInv, PTL DEF AInv, IInv

\* DONE is published only when every unit has a record with text.
THEOREM DoneOnlyAtEnd == ASpec => []DoneMeansAll
  BY AssembleInv, PTL DEF AInv, IInv
==============================================================================
