-------------------------------- MODULE Requant --------------------------------
(***************************************************************************)
(* tools/requant_full.py run: workers on several nodes re-encode the units *)
(* (output shards) of the pack.  The shared state is a directory on one    *)
(* node: units.json, claims/<unit>/ (an atomic mkdir),                     *)
(* claims/<unit>/owner.json, done/<unit>.json, manifest.json and DONE; a   *)
(* remote node reaches it with one ssh command per operation.  Each node   *)
(* keeps its shards and unit records on its own disk.                      *)
(*                                                                         *)
(* A worker may die anywhere, an ssh failure included: it raises out of    *)
(* the loop before or after its operation took effect.  The operator       *)
(* starts a dead worker again.                                             *)
(***************************************************************************)
EXTENDS Integers, FiniteSets

CONSTANTS
    Nodes,     \* the nodes with a worker
    Remote,    \* those that reach the state directory over ssh
    Upward,    \* those that take the units in ascending order
    NoSource,  \* pairs of a node and a unit whose source shard it lacks
    Units,     \* number of units
    Trouble    \* deaths, stops, lost commands and failed encodings in all (a bound)

\* A file of the state may be absent, or cut off before its first byte.
Absent == "absent"
Empty  == "empty"
Whole  == "whole"
File(node, version) == [node |-> node, version |-> version]

ASSUME RequantAssumption ==
    /\ IsFiniteSet(Nodes)
    /\ Nodes \cap {Absent, Empty} = {}
    /\ Remote \subseteq Nodes
    /\ Upward \subseteq Nodes
    /\ Units \in Nat \ {0}
    /\ Trouble \in Nat
    /\ NoSource \subseteq Nodes \X (1 .. Units)
    /\ \A u \in 1 .. Units : \E n \in Nodes : <<n, u>> \notin NoSource

UnitIds == 1 .. Units

VARIABLES
    pc, pos, cur, seen, read, failures,    \* each worker's loop
    index,        \* units.json: Absent, Empty or Whole
    claims,       \* units with a claim directory
    owner,        \* owner.json of each unit
    done,         \* done/<unit>.json: [node, version of the shard]
    manifest,     \* units manifest.json lists, none if it is empty
    allDone,      \* DONE exists
    shard,        \* version of each unit's shard on each node's disk, 0: none
    unitRec,      \* version that units/<unit>.json describes, 0: none
    troubles

loop  == <<pos, cur, seen, read, failures>>
state == <<index, claims, owner, done, manifest, allDone>>
disk  == <<shard, unitRec>>
vars  == <<pc, loop, state, disk, troubles>>

NoUnit == 0

Init ==
    /\ pc = [n \in Nodes |-> "down"]
    /\ pos = [n \in Nodes |-> 1]
    /\ cur = [n \in Nodes |-> NoUnit]
    /\ seen = [n \in Nodes |-> {}]
    /\ read = [n \in Nodes |-> {}]
    /\ failures = [n \in Nodes |-> [u \in UnitIds |-> 0]]
    /\ index = Absent
    /\ claims = {}
    /\ owner = [u \in UnitIds |-> Absent]
    /\ done = [u \in UnitIds |-> File(Absent, 0)]
    /\ manifest = {}
    /\ allDone = FALSE
    /\ shard = [n \in Nodes |-> [u \in UnitIds |-> 0]]
    /\ unitRec = shard
    /\ troubles = 0

Goto(n, to) == pc' = [pc EXCEPT ![n] = to]

\* The process ends, and its variables with it.
Exit(n) ==
    /\ Goto(n, "down")
    /\ pos' = [pos EXCEPT ![n] = 1]
    /\ cur' = [cur EXCEPT ![n] = NoUnit]
    /\ seen' = [seen EXCEPT ![n] = {}]
    /\ read' = [read EXCEPT ![n] = {}]
    /\ failures' = [failures EXCEPT ![n] = [u \in UnitIds |-> 0]]

\* ordered(units, order)[i].
UnitAt(n, i) == IF n \in Upward THEN i ELSE Units + 1 - i

\* pick_unit passes over u: a record's name was listed, or can_run says no.
PassesOver(n, u) == u \in seen[n] \/ <<n, u>> \in NoSource

\* Records load_done accepts: it skips a file without text.
Records == {u \in UnitIds : done[u].node \in Nodes}

------------------------------------------------------------------------------
\* cmd_run, with the node's lock: one worker per node.  init_state reads
\* units.json; without text in it json.loads raises, and the worker stays down.
Start(n) ==
    /\ pc[n] = "down"
    /\ ~allDone
    /\ index # Empty
    /\ Goto(n, IF index = Absent THEN "index" ELSE "list")
    /\ UNCHANGED <<loop, state, disk, troubles>>

\* The file was not there when this worker looked.
WriteIndex(n) ==
    /\ pc[n] = "index"
    /\ index' = Whole
    /\ Goto(n, "list")
    /\ UNCHANGED <<loop, claims, owner, done, manifest, allDone, disk, troubles>>

\* pick_unit: one listing of done/ ...
ListDone(n) ==
    /\ pc[n] = "list"
    /\ seen' = [seen EXCEPT ![n] = {u \in UnitIds : done[u].node # Absent}]
    /\ Goto(n, "scan")
    /\ UNCHANGED <<pos, cur, read, failures, state, disk, troubles>>

\* Mutant: a skipped unit is counted twice.
SkipTwo(n) ==
    /\ pos' = [pos EXCEPT ![n] = @ + 2]
    /\ UNCHANGED <<pc, cur, seen, claims>>

\* ... then unit after unit: skip, claim, or resume.
Skip(n) ==
    /\ pos' = [pos EXCEPT ![n] = @ + 1]
    /\ UNCHANGED <<pc, cur, seen, claims>>

\* pick_unit returns.
Take(n, u, to) ==
    /\ cur' = [cur EXCEPT ![n] = u]
    /\ pos' = [pos EXCEPT ![n] = 1]
    /\ seen' = [seen EXCEPT ![n] = {}]
    /\ Goto(n, to)

\* Mutant: mkdir -p, which succeeds for everybody.
ScanClaimsAnyway(n) ==
    /\ pc[n] = "scan"
    /\ pos[n] <= Units
    /\ LET u == UnitAt(n, pos[n]) IN
       \/ PassesOver(n, u) /\ Skip(n)
       \/ ~PassesOver(n, u) /\ claims' = claims \cup {u} /\ Take(n, u, "own")
    /\ UNCHANGED <<read, failures, index, owner, done, manifest, allDone, disk, troubles>>

\* Mutant: a claim is never resumed, not even by the node that owns it.
ScanNoResume(n) ==
    /\ pc[n] = "scan"
    /\ pos[n] <= Units
    /\ LET u == UnitAt(n, pos[n]) IN
       \/ (PassesOver(n, u) \/ u \in claims) /\ Skip(n)
       \/ ~PassesOver(n, u) /\ u \notin claims
          /\ claims' = claims \cup {u} /\ Take(n, u, "own")
    /\ UNCHANGED <<read, failures, index, owner, done, manifest, allDone, disk, troubles>>

Scan(n) ==
    /\ pc[n] = "scan"
    /\ pos[n] <= Units
    /\ LET u == UnitAt(n, pos[n]) IN
       \/ PassesOver(n, u) /\ Skip(n)
       \/ ~PassesOver(n, u) /\ u \notin claims
          /\ claims' = claims \cup {u} /\ Take(n, u, "own")
       \/ ~PassesOver(n, u) /\ u \in claims /\ owner[u] = n
          /\ Take(n, u, "reuse") /\ UNCHANGED claims
       \/ ~PassesOver(n, u) /\ u \in claims /\ owner[u] # n /\ Skip(n)
    /\ UNCHANGED <<read, failures, index, owner, done, manifest, allDone, disk, troubles>>

ScanEnds(n) ==
    /\ pc[n] = "scan"
    /\ pos[n] > Units
    /\ Take(n, NoUnit, "refresh")
    /\ UNCHANGED <<read, failures, state, disk, troubles>>

\* Before the next unit the loop looks for a STOP file.
StopFile(n) ==
    /\ pc[n] = "list"
    /\ troubles < Trouble
    /\ troubles' = troubles + 1
    /\ Take(n, NoUnit, "refresh")
    /\ UNCHANGED <<read, failures, state, disk>>

WriteOwner(n) ==
    /\ pc[n] = "own"
    /\ owner' = [owner EXCEPT ![cur[n]] = n]
    /\ Goto(n, "reuse")
    /\ UNCHANGED <<loop, index, claims, done, manifest, allDone, disk, troubles>>

\* Mutant: a shard left by an earlier run is taken without its record.
ReuseAnyShard(n) ==
    /\ pc[n] = "reuse"
    /\ Goto(n, IF shard[n][cur[n]] > 0 THEN "done" ELSE "encode")
    /\ UNCHANGED <<loop, state, disk, troubles>>

\* reuse_local: the record and the shard of an earlier run, if they agree.
Reuse(n) ==
    LET u == cur[n] IN
    /\ pc[n] = "reuse"
    /\ Goto(n, IF unitRec[n][u] > 0 /\ unitRec[n][u] = shard[n][u] THEN "done" ELSE "encode")
    /\ UNCHANGED <<loop, state, disk, troubles>>

\* encode_unit: the shard is verified under a temporary name, then renamed.
Encode(n) ==
    /\ pc[n] = "encode"
    /\ shard' = [shard EXCEPT ![n][cur[n]] = @ + 1]
    /\ Goto(n, "record")
    /\ UNCHANGED <<loop, state, unitRec, troubles>>

\* ... or raises: a gate, the verification, a heartbeat, a full disk.  A worker
\* that fails twice on a unit stops.
EncodeFails(n) ==
    /\ pc[n] \in {"encode", "record"}
    /\ troubles < Trouble
    /\ troubles' = troubles + 1
    /\ \/ /\ failures[n][cur[n]] >= 1
          /\ Exit(n)
       \/ /\ failures[n][cur[n]] = 0
          /\ failures' = [failures EXCEPT ![n][cur[n]] = 1]
          /\ Goto(n, "list")
          /\ UNCHANGED <<pos, cur, seen, read>>
    /\ UNCHANGED <<state, disk>>

WriteUnitRec(n) ==
    /\ pc[n] = "record"
    /\ unitRec' = [unitRec EXCEPT ![n][cur[n]] = shard[n][cur[n]]]
    /\ Goto(n, "done")
    /\ UNCHANGED <<loop, state, shard, troubles>>

WriteDone(n) ==
    /\ pc[n] = "done"
    /\ done' = [done EXCEPT ![cur[n]] = File(n, unitRec[n][cur[n]])]
    /\ Goto(n, "refresh")
    /\ UNCHANGED <<loop, index, claims, owner, manifest, allDone, disk, troubles>>

\* Mutant: the files are counted, not read.
ReadRecordNames(n) ==
    /\ pc[n] = "refresh"
    /\ read' = [read EXCEPT ![n] = {u \in UnitIds : done[u].node # Absent}]
    /\ Goto(n, "publish")
    /\ UNCHANGED <<pos, cur, seen, failures, state, disk, troubles>>

\* refresh_manifest reads all records, then writes the manifest of what it read ...
ReadRecords(n) ==
    /\ pc[n] = "refresh"
    /\ read' = [read EXCEPT ![n] = Records]
    /\ Goto(n, "publish")
    /\ UNCHANGED <<pos, cur, seen, failures, state, disk, troubles>>

Publish(n) ==
    /\ pc[n] = "publish"
    /\ manifest' = read[n]
    /\ Goto(n, "finish")
    /\ UNCHANGED <<loop, index, claims, owner, done, allDone, disk, troubles>>

\* ... and DONE, if all were there.  After the last unit the worker exits, else
\* it picks the next one.
Finish(n) ==
    /\ pc[n] = "finish"
    /\ allDone' = (allDone \/ read[n] = UnitIds)
    /\ \/ /\ cur[n] = NoUnit
          /\ Exit(n)
       \/ /\ cur[n] # NoUnit
          /\ read' = [read EXCEPT ![n] = {}]
          /\ Goto(n, "list")
          /\ UNCHANGED <<pos, cur, seen, failures>>
    /\ UNCHANGED <<index, claims, owner, done, manifest, disk, troubles>>

\* The worker dies.
Die(n) ==
    /\ pc[n] # "down"
    /\ troubles < Trouble
    /\ troubles' = troubles + 1
    /\ Exit(n)
    /\ UNCHANGED <<state, disk>>

\* The connection breaks after the remote "cat > tmp && mv tmp dst" has
\* started and before the text arrives: cat ends at once and mv runs.  The
\* worker, in any of its writes, gets an error and dies.
WriteCutOff(n) ==
    /\ n \in Remote
    /\ troubles < Trouble
    /\ troubles' = troubles + 1
    /\ \/ /\ pc[n] = "index"
          /\ index' = Empty
          /\ UNCHANGED <<owner, done, manifest, allDone>>
       \/ /\ pc[n] = "own"
          /\ owner' = [owner EXCEPT ![cur[n]] = Empty]
          /\ UNCHANGED <<index, done, manifest, allDone>>
       \/ /\ pc[n] = "done"
          /\ done' = [done EXCEPT ![cur[n]] = File(Empty, 0)]
          /\ UNCHANGED <<index, owner, manifest, allDone>>
       \/ /\ pc[n] = "publish"
          /\ manifest' = {}
          /\ UNCHANGED <<index, owner, done, allDone>>
       \/ /\ pc[n] = "finish" /\ read[n] = UnitIds /\ ~allDone
          /\ allDone' = TRUE
          /\ UNCHANGED <<index, owner, done, manifest>>
    /\ Exit(n)
    /\ UNCHANGED <<claims, disk>>

------------------------------------------------------------------------------
Work(n) ==
    \/ Start(n) \/ WriteIndex(n) \/ ListDone(n) \/ Scan(n) \/ ScanEnds(n)
    \/ WriteOwner(n) \/ Reuse(n) \/ Encode(n) \/ WriteUnitRec(n)
    \/ WriteDone(n) \/ ReadRecords(n) \/ Publish(n) \/ Finish(n)

Next == \E n \in Nodes : Work(n) \/ StopFile(n) \/ EncodeFails(n) \/ Die(n) \/ WriteCutOff(n)

Spec == Init /\ [][Next]_vars

\* Workers run, and the operator starts those that exited.
FairSpec == Spec /\ \A n \in Nodes : WF_vars(Work(n))

------------------------------------------------------------------------------
TypeOK ==
    /\ pc \in [Nodes -> {"down", "index", "list", "scan", "own", "reuse", "encode", "record",
                         "done", "refresh", "publish", "finish"}]
    /\ pos \in [Nodes -> 1 .. (Units + 1)]
    /\ cur \in [Nodes -> UnitIds \cup {NoUnit}]
    /\ seen \in [Nodes -> SUBSET UnitIds]
    /\ read \in [Nodes -> SUBSET UnitIds]
    /\ failures \in [Nodes -> [UnitIds -> 0 .. 1]]
    /\ index \in {Absent, Empty, Whole}
    /\ claims \subseteq UnitIds
    /\ owner \in [UnitIds -> Nodes \cup {Absent, Empty}]
    /\ done \in [UnitIds -> [node : Nodes \cup {Absent, Empty}, version : Nat]]
    /\ manifest \subseteq UnitIds
    /\ allDone \in BOOLEAN
    /\ shard \in [Nodes -> [UnitIds -> Nat]]
    /\ unitRec \in [Nodes -> [UnitIds -> Nat]]
    /\ troubles \in 0 .. Trouble

HoldLocs == {"own", "reuse", "encode", "record", "done"}
Holds(n, u) == cur[n] = u /\ pc[n] \in HoldLocs

\* A unit is encoded by one node, however often its worker dies and resumes.
OneEncoder == \A n, m \in Nodes, u \in UnitIds : Holds(n, u) /\ Holds(m, u) => n = m

\* What a done record says of a shard is true of the file on that node's disk:
\* nobody takes the unit again, and no older shard is passed off as it.
DoneBacked ==
    \A u \in Records :
        LET r == done[u] IN
        /\ r.version > 0
        /\ shard[r.node][u] = r.version
        /\ \A n \in Nodes : ~Holds(n, u)

\* DONE is there only when every unit has a record assemble can use.
DoneMeansAll == allDone => Records = UnitIds

\* The inductive invariant behind the three.  A claim's owner file names the
\* only node that may hold the unit; while it is being written it is absent.
ClaimInv ==
    /\ \A u \in UnitIds : u \notin claims => owner[u] = Absent
    /\ \A n \in Nodes : pc[n] \in HoldLocs =>
          /\ cur[n] \in claims
          /\ owner[cur[n]] = IF pc[n] = "own" THEN Absent ELSE n

\* A record's file, with or without text, ends the unit: its owner wrote it,
\* and has seen it whenever it scans.  What "done" is about to write is true.
RecordInv ==
    /\ \A u \in UnitIds : done[u].node # Absent =>
          /\ owner[u] \in Nodes
          /\ done[u].node \in {owner[u], Empty}
          /\ \A n \in Nodes : ~Holds(n, u)
          /\ pc[owner[u]] = "scan" => u \in seen[owner[u]]
    /\ \A n \in Nodes :
          /\ pc[n] \in {"record", "done"} => shard[n][cur[n]] > 0
          /\ pc[n] = "done" => unitRec[n][cur[n]] = shard[n][cur[n]]

ReadInv == \A n \in Nodes : pc[n] \in {"publish", "finish"} => read[n] \subseteq Records

IInv ==
    /\ TypeOK
    /\ OneEncoder /\ ClaimInv
    /\ DoneBacked /\ RecordInv
    /\ DoneMeansAll /\ ReadInv

\* A unit nobody will ever finish: claimed in nobody's name, or done in name.
Orphan(u) ==
    \/ done[u].node = Empty
    \/ /\ u \in claims /\ owner[u] \in {Absent, Empty}
       /\ \A n \in Nodes : ~(cur[n] = u /\ pc[n] = "own")

\* Unless units.json stays without text, which stops every start, or a unit was
\* orphaned, the workers and those restarted after them finish the pack, from
\* whatever deaths and cut-off writes left.
RecoversElsewhere ==
    <>[](index # Empty /\ \A u \in UnitIds : ~Orphan(u)) => <>allDone

\* "A worker resumes its own unfinished claims": claimed units get done.
ClaimsGetDone == \A u \in UnitIds : u \in claims ~> u \in Records
==============================================================================
