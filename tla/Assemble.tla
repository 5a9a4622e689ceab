-------------------------------- MODULE Assemble --------------------------------
(***************************************************************************)
(* tools/requant_full.py assemble, beside the workers of Requant: on one   *)
(* node, once DONE is there, it collects the recorded shards and builds    *)
(* the snapshot that will be served.                                       *)
(*                                                                         *)
(* It may be stopped anywhere and called again; what it has fetched and    *)
(* linked stays.  rsync --partial leaves a file it was stopped in under    *)
(* its final name, where the next call finds it.                           *)
(***************************************************************************)
EXTENDS Requant

CONSTANT Assembler   \* the node assemble is called on

ASSUME AssembleAssumption == Assembler \in Nodes

VARIABLES
    at,      \* where the call is: "idle" between calls, "ok" after a success
    unit,    \* the unit of the loop it is in
    man,     \* the records it goes by: unit -> done record
    cut,     \* units whose file on this node is a part of a shard
    snap     \* unit -> version of the shard linked into the snapshot

call  == <<at, unit, man>>
avars == <<vars, call, cut, snap>>

\* What the snapshot may hold for a unit beside a version: no file yet, or the
\* base revision's shard.
Missing == -1
Base    == 0

NoRecord == File(Absent, 0)
NoMan    == [u \in UnitIds |-> NoRecord]
InMan(u) == man[u] # NoRecord

AInit ==
    /\ Init
    /\ at = "idle"
    /\ unit = 1
    /\ man = NoMan
    /\ cut = {}
    /\ snap = [u \in UnitIds |-> Missing]

\* The end of a call: its variables go with the process.
End(with) == at' = with /\ unit' = 1 /\ man' = NoMan
Leave     == End("idle")

ThisFile(u) == shard[Assembler][u]
IsFile(u)   == ThisFile(u) > 0 \/ u \in cut

------------------------------------------------------------------------------
\* Mutant: the manifest the workers left is trusted.
ReadManifest ==
    /\ at = "idle"
    /\ allDone
    /\ man' = [u \in UnitIds |-> IF u \in manifest THEN done[u] ELSE NoRecord]
    /\ unit' = 1
    /\ at' = "fetch"
    /\ UNCHANGED <<vars, cut, snap>>

\* DONE is there, and units.json can be read (without text the call ends at
\* once): refresh_manifest reads all records ...
ReadAll ==
    /\ at = "idle"
    /\ allDone
    /\ index = Whole
    /\ man' = [u \in UnitIds |-> IF u \in Records THEN done[u] ELSE NoRecord]
    /\ unit' = 1
    /\ at' = "manifest"
    /\ UNCHANGED <<vars, cut, snap>>

\* ... and writes the manifest; assemble leaves unless it is complete.
WriteManifest ==
    /\ at = "manifest"
    /\ manifest' = {u \in UnitIds : InMan(u)}
    /\ IF manifest' = UnitIds THEN at' = "fetch" /\ UNCHANGED <<unit, man>> ELSE Leave
    /\ UNCHANGED <<pc, loop, index, claims, owner, done, allDone, disk, troubles, cut, snap>>

NextUnit(to) ==
    /\ IF unit < Units THEN unit' = unit + 1 /\ UNCHANGED at ELSE unit' = 1 /\ at' = to
    /\ UNCHANGED man

\* A recorded shard that is not here comes from the node of its record; one that
\* should be here and is not ends the call.
Fetch ==
    /\ at = "fetch"
    /\ InMan(unit) /\ ~IsFile(unit)
    /\ IF man[unit].node = Assembler
       THEN Leave /\ UNCHANGED shard
       ELSE /\ shard' = [shard EXCEPT ![Assembler][unit] = shard[man[unit].node][unit]]
            /\ UNCHANGED call
    /\ UNCHANGED <<pc, loop, state, unitRec, troubles, cut, snap>>

\* rsync stops in the middle, and assemble with it.
FetchCut ==
    /\ at = "fetch"
    /\ InMan(unit) /\ ~IsFile(unit) /\ man[unit].node # Assembler
    /\ troubles < Trouble
    /\ troubles' = troubles + 1
    /\ cut' = cut \cup {unit}
    /\ Leave
    /\ UNCHANGED <<pc, loop, state, disk, snap>>

\* Size and sha256 of the file against the record; a unit without a record is
\* not in the loop.
Check ==
    /\ at = "fetch"
    /\ InMan(unit) => IsFile(unit)
    /\ IF InMan(unit) /\ (unit \in cut \/ ThisFile(unit) # man[unit].version)
       THEN Leave
       ELSE NextUnit("link")
    /\ UNCHANGED <<vars, cut, snap>>

\* The snapshot mirrors the base: a unit's shard is a hard link to the checked
\* file, every other entry the base's own.  What is there already stays.
Link ==
    /\ at = "link"
    /\ snap' = [snap EXCEPT ![unit] =
                   IF @ # Missing THEN @ ELSE IF InMan(unit) THEN ThisFile(unit) ELSE Base]
    /\ NextUnit("inodes")
    /\ UNCHANGED <<vars, cut>>

\* The shards of the snapshot are the checked files.
Inodes ==
    /\ at = "inodes"
    /\ IF \A u \in UnitIds : InMan(u) => snap[u] = ThisFile(u)
       THEN End("ok")
       ELSE Leave
    /\ UNCHANGED <<vars, cut, snap>>

Stopped ==
    /\ at \in {"manifest", "fetch", "link", "inodes"}
    /\ troubles < Trouble
    /\ troubles' = troubles + 1
    /\ Leave
    /\ UNCHANGED <<pc, loop, state, disk, cut, snap>>

------------------------------------------------------------------------------
Assembly ==
    \/ ReadAll \/ WriteManifest \/ Fetch \/ FetchCut \/ Check
    \/ Link \/ Inodes \/ Stopped

ANext ==
    \/ Next /\ UNCHANGED <<call, cut, snap>>
    \/ Assembly

ASpec == AInit /\ [][ANext]_avars

\* The workers as in Requant; nobody has to call assemble.
AFairSpec ==
    ASpec /\ \A n \in Nodes : WF_avars(Work(n) /\ UNCHANGED <<call, cut, snap>>)

------------------------------------------------------------------------------
ATypeOK ==
    /\ TypeOK
    /\ at \in {"idle", "manifest", "fetch", "link", "inodes", "ok"}
    /\ unit \in UnitIds
    /\ man \in [UnitIds -> [node : Nodes \cup {Absent}, version : Nat]]
    /\ cut \subseteq UnitIds
    /\ snap \in [UnitIds -> Nat \cup {Missing}]

\* Whatever was left by stopped calls and late workers, the snapshot holds only
\* shards as their records describe them, and after a success all of them.
SnapshotTrue ==
    /\ \A u \in UnitIds : snap[u] # Missing => u \in Records /\ snap[u] = done[u].version
    /\ at = "ok" => \A u \in UnitIds : snap[u] # Missing

\* The inductive invariant behind it.  What assemble goes by are the records, and
\* these stay; a file is good once it is checked, and nobody replaces it.
Good(u) == u \notin cut /\ ThisFile(u) = done[u].version

ManInv ==
    /\ at \in {"manifest", "fetch", "link", "inodes"} =>
          /\ allDone
          /\ \A u \in UnitIds : InMan(u) /\ man[u] = done[u]
    /\ at = "manifest" => unit = 1
    /\ \A u \in UnitIds :
          (at = "fetch" /\ u < unit) \/ at \in {"link", "inodes"} => Good(u)

SnapInv ==
    \A u \in UnitIds : (at = "link" /\ u < unit) \/ at = "inodes" => snap[u] # Missing

AInv == IInv /\ ATypeOK /\ ManInv /\ SnapInv /\ SnapshotTrue
==============================================================================
