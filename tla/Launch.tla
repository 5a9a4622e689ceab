------------------------------- MODULE Launch --------------------------------
(***************************************************************************)
(* Starting and stopping the serve on both Sparks: run.sh on the head, the *)
(* copy of run.sh it starts on the worker over ssh, and stop.sh.  A node   *)
(* has one container of the recipe's name; several launches may be under   *)
(* way at once, containers crash, ssh fails, the operator interrupts.      *)
(***************************************************************************)
EXTENDS Naturals, FiniteSets

CONSTANTS Launches,   \* the invocations of run.sh on the head
          Trouble     \* crashes, cut or failed ssh calls and interrupts in all

Nobody == "nobody"

ASSUME LaunchAssumption ==
    /\ Trouble \in Nat
    /\ Launches \cap {Nobody, "outside"} = {}

Node == {"head", "worker"}

VARIABLES box,          \* node -> the container: who ran it, its state
          pc,           \* launch -> where run.sh is
          remote,       \* launch -> where its script on the worker is
          cut,          \* launches whose ssh ended before the remote script
          headStarted,  \* launches that set HEAD_STARTED
          missed,       \* pairs of a launch and a node its clean-up could not clear
          why,          \* launch -> why it failed: a rank found gone, or other
          lostTo,       \* launch -> who took one of its containers from it: a
                        \*   launch, or stop.sh or a crash ("outside")
          upAt,         \* launch -> whose serve was up when it was called
          stop,         \* where stop.sh is
          overlooked,   \* nodes whose docker failed without stop.sh noticing
          calm,         \* no container was started since stop.sh began
          trouble       \* troubles so far

vars == <<box, pc, remote, cut, headStarted, missed, why, lostTo, upAt,
          stop, overlooked, calm, trouble>>

history == <<lostTo, upAt, why>>

Trapped == {"startWorker", "waitMark", "startHead", "runHead", "waitReady"}
Cleaning == {"cleanWorker", "cleanHead"}
Ended == {"ready", "failed", "refused", "interrupted"}

State == {"none", "loading", "up", "exited"}
Owner == Launches \cup {Nobody}
Culprit == Launches \cup {"outside"}
Absent == [by |-> Nobody, st |-> "none"]

TypeOK ==
    /\ box \in [Node -> [by : Owner, st : State]]
    /\ pc \in [Launches -> {"idle", "check", "preflight"} \cup Trapped \cup Cleaning \cup Ended]
    /\ remote \in [Launches -> {"off", "remove", "run", "done", "failed"}]
    /\ cut \subseteq Launches
    /\ headStarted \subseteq Launches
    /\ missed \subseteq Launches \X Node
    /\ why \in [Launches -> {"-", "rank gone", "other"}]
    /\ lostTo \in [Launches -> SUBSET Culprit]
    /\ upAt \in [Launches -> SUBSET Launches]
    /\ stop \in {"idle", "remote", "done", "failed"}
    /\ overlooked \subseteq Node
    /\ calm \in BOOLEAN
    /\ trouble \in 0 .. Trouble

Init ==
    /\ box = [n \in Node |-> Absent]
    /\ pc = [l \in Launches |-> "idle"]
    /\ remote = [l \in Launches |-> "off"]
    /\ cut = {}
    /\ headStarted = {}
    /\ missed = {}
    /\ why = [l \in Launches |-> "-"]
    /\ lostTo = [l \in Launches |-> {}]
    /\ upAt = [l \in Launches |-> {}]
    /\ stop = "idle"
    /\ overlooked = {}
    /\ calm = TRUE
    /\ trouble = 0

Running(n) == box[n].st \in {"loading", "up"}              \* docker ps
Exists(n)  == box[n].st # "none"                           \* docker ps -a

(* What the port answers: vLLM binds it before it loads, but serves only
   when both ranks are up. *)
PortBusy == box["head"].st = "up"

\* Mutant: an ssh failure reads as an exited container.
WorkerStateBlunt(ssh) == IF ssh /\ Running("worker") THEN "running" ELSE "gone"

(* worker_state: an ssh failure is "unknown", never "gone". *)
WorkerState(ssh) == IF ~ssh THEN "unknown"
                    ELSE IF Running("worker") THEN "running" ELSE "gone"

Hiccup == trouble < Trouble /\ trouble' = trouble + 1

(* docker rm -f of the container on node n, by `who`. *)
Remove(n, who) ==
    /\ box' = [box EXCEPT ![n] = Absent]
    /\ lostTo' = [m \in Launches |->
                    IF box[n].by = m /\ m # who THEN lostTo[m] \cup {who} ELSE lostTo[m]]

(* docker run --name: fails when the name is taken. *)
Run(n, l) == /\ ~Exists(n)
             /\ box' = [box EXCEPT ![n] = [by |-> l, st |-> "loading"]]
             /\ calm' = FALSE

Goto(l, place) == pc' = [pc EXCEPT ![l] = place]

(* `exit 1` or a failing command under set -e, with the EXIT trap set. *)
Fail(l, reason) == /\ Goto(l, "cleanWorker")
                   /\ why' = [why EXCEPT ![l] = reason]

------------------------------------------------------------------------------
(* run.sh on the head. *)

(* The operator runs run.sh. *)
Begin(l) ==
    /\ pc[l] = "idle"
    /\ upAt' = [upAt EXCEPT ![l] = {m \in Launches : box["head"] = [by |-> m, st |-> "up"]}]
    /\ Goto(l, "check")
    /\ UNCHANGED <<box, remote, cut, headStarted, missed, why, lostTo, stop, overlooked, calm, trouble>>

\* Mutant: the port is not looked at.
PortUnchecked(l) ==
    /\ pc[l] = "check"
    /\ Goto(l, "preflight")
    /\ UNCHANGED <<box, remote, cut, headStarted, missed, history, stop, overlooked, calm, trouble>>

(* refuse_foreign_serve and refuse_busy_port pass. *)
PortFree(l) ==
    /\ pc[l] = "check"
    /\ ~PortBusy
    /\ Goto(l, "preflight")
    /\ UNCHANGED <<box, remote, cut, headStarted, missed, history, stop, overlooked, calm, trouble>>

(* Any refusal before a container is started: another serve on the GPUs, the
   port, no ssh, no image or weights on either node. *)
Refuse(l) ==
    /\ pc[l] \in {"check", "preflight"}
    /\ Goto(l, "refused")
    /\ UNCHANGED <<box, remote, cut, headStarted, missed, history, stop, overlooked, calm, trouble>>

(* The preflight of both nodes passes; the traps are set and ssh starts the
   script on the worker. *)
StartWorker(l) ==
    /\ pc[l] = "preflight"
    /\ Goto(l, "startWorker")
    /\ remote' = [remote EXCEPT ![l] = "remove"]
    /\ UNCHANGED <<box, cut, headStarted, missed, history, stop, overlooked, calm, trouble>>

WorkerStarted(l) ==
    /\ pc[l] = "startWorker"
    /\ remote[l] = "done"
    /\ Goto(l, "waitMark")
    /\ UNCHANGED <<box, remote, cut, headStarted, missed, history, stop, overlooked, calm, trouble>>

WorkerFailed(l) ==
    /\ pc[l] = "startWorker"
    /\ remote[l] = "failed"
    /\ Fail(l, "other")
    /\ UNCHANGED <<box, remote, cut, headStarted, missed, lostTo, upAt, stop, overlooked, calm, trouble>>

Midway(l) == pc[l] = "startWorker" /\ remote[l] \in {"remove", "run"}

(* The ssh client fails while the script on the worker goes on. *)
SshCut(l) ==
    /\ Hiccup
    /\ Midway(l)
    /\ cut' = cut \cup {l}
    /\ Fail(l, "other")
    /\ UNCHANGED <<box, remote, headStarted, missed, lostTo, upAt, stop, overlooked, calm>>

(* wait_worker_launch ends with the launch mark, or after its 60 polls. *)
MarkOrTimeout(l) ==
    /\ pc[l] = "waitMark"
    /\ Goto(l, "startHead")
    /\ headStarted' = headStarted \cup {l}
    /\ UNCHANGED <<box, remote, cut, missed, history, stop, overlooked, calm, trouble>>

(* fail_worker_exited, from either wait loop. *)
SeeWorkerGone(l) ==
    /\ pc[l] \in {"waitMark", "waitReady"}
    /\ \E ssh \in BOOLEAN : WorkerState(ssh) = "gone"
    /\ Fail(l, "rank gone")
    /\ UNCHANGED <<box, remote, cut, headStarted, missed, lostTo, upAt, stop, overlooked, calm, trouble>>

(* start_local 0: refuse_foreign_serve, then stop_local. *)
HeadRemove(l) ==
    /\ pc[l] = "startHead"
    /\ Remove("head", l)
    /\ Goto(l, "runHead")
    /\ UNCHANGED <<remote, cut, headStarted, missed, why, upAt, stop, overlooked, calm, trouble>>

\* Mutant: a failing docker run does not end the script.
HeadRunAnyway(l) ==
    /\ pc[l] = "runHead"
    /\ Goto(l, "waitReady")
    /\ Run("head", l) \/ (Exists("head") /\ UNCHANGED <<box, calm>>)
    /\ UNCHANGED <<remote, cut, headStarted, missed, history, stop, overlooked, trouble>>

(* start_local 0: docker run. *)
HeadRun(l) ==
    /\ pc[l] = "runHead"
    /\ Run("head", l)
    /\ Goto(l, "waitReady")
    /\ UNCHANGED <<remote, cut, headStarted, missed, history, stop, overlooked, trouble>>

(* start_local 0 refuses (another serve came up), cannot ensure the image or
   the weights, or the name is taken. *)
HeadFailed(l) ==
    /\ pc[l] \in {"startHead", "runHead"}
    /\ Fail(l, "other")
    /\ UNCHANGED <<box, remote, cut, headStarted, missed, lostTo, upAt, stop, overlooked, calm, trouble>>

(* wait_ready: health and /v1/models answer; the traps are cleared.  The
   audit and the warm-up that follow leave the serve up whatever they find. *)
SeeReady(l) ==
    /\ pc[l] = "waitReady"
    /\ PortBusy
    /\ Goto(l, "ready")
    /\ UNCHANGED <<box, remote, cut, headStarted, missed, history, stop, overlooked, calm, trouble>>

(* wait_ready: the head's container is not in docker ps. *)
SeeHeadGone(l) ==
    /\ pc[l] = "waitReady"
    /\ ~Running("head")
    /\ Fail(l, "rank gone")
    /\ UNCHANGED <<box, remote, cut, headStarted, missed, lostTo, upAt, stop, overlooked, calm, trouble>>

(* ... or docker ps itself fails, which reads the same. *)
HeadUnseen(l) ==
    /\ Hiccup
    /\ pc[l] = "waitReady"
    /\ Fail(l, "other")
    /\ UNCHANGED <<box, remote, cut, headStarted, missed, lostTo, upAt, stop, overlooked, calm>>

\* Mutant: the loop has no last poll.
NoReadyTimeout(l) == FALSE /\ UNCHANGED vars

(* wait_ready: 720 polls. *)
ReadyTimeout(l) ==
    /\ pc[l] = "waitReady"
    /\ Fail(l, "other")
    /\ UNCHANGED <<box, remote, cut, headStarted, missed, lostTo, upAt, stop, overlooked, calm, trouble>>

\* Mutant: only the worker is cleaned up, as before the head was.
AfterWorkerOnly(l) == Goto(l, "failed")

(* cleanup_worker_on_failure: the worker's container, then the head's. *)
AfterWorker(l) == Goto(l, IF l \in headStarted THEN "cleanHead" ELSE "failed")

CleanWorker(l) ==
    /\ pc[l] = "cleanWorker"
    /\ Remove("worker", l)
    /\ AfterWorker(l)
    /\ UNCHANGED <<remote, cut, headStarted, missed, why, upAt, stop, overlooked, calm, trouble>>

(* ssh fails, or docker on the worker; the clean-up says so and goes on. *)
CleanWorkerUnreached(l) ==
    /\ Hiccup
    /\ pc[l] = "cleanWorker"
    /\ missed' = missed \cup {<<l, "worker">>}
    /\ AfterWorker(l)
    /\ UNCHANGED <<box, remote, cut, headStarted, history, stop, overlooked, calm>>

CleanHead(l) ==
    /\ pc[l] = "cleanHead"
    /\ Remove("head", l)
    /\ Goto(l, "failed")
    /\ UNCHANGED <<remote, cut, headStarted, missed, why, upAt, stop, overlooked, calm, trouble>>

(* docker ps fails here, which reads as no container, or docker rm. *)
CleanHeadFails(l) ==
    /\ Hiccup
    /\ pc[l] = "cleanHead"
    /\ missed' = missed \cup {<<l, "head">>}
    /\ Goto(l, "failed")
    /\ UNCHANGED <<box, remote, cut, headStarted, history, stop, overlooked, calm>>

(* Ctrl-C: the INT trap drops the EXIT trap and leaves the containers loading.
   Interrupting the ssh of the worker's start, the script there goes on or dies. *)
Interrupt(l) ==
    /\ Hiccup
    /\ pc[l] \in {"check", "preflight"} \cup Trapped \cup Cleaning
    /\ Goto(l, "interrupted")
    /\ \/ /\ Midway(l)
          /\ cut' = cut \cup {l}
          /\ UNCHANGED remote \/ remote' = [remote EXCEPT ![l] = "failed"]
       \/ ~Midway(l) /\ UNCHANGED <<cut, remote>>
    /\ UNCHANGED <<box, headStarted, missed, history, stop, overlooked, calm>>

LaunchStep(l) ==
    \/ PortFree(l) \/ Refuse(l) \/ StartWorker(l) \/ WorkerStarted(l) \/ WorkerFailed(l)
    \/ MarkOrTimeout(l) \/ SeeWorkerGone(l) \/ HeadRemove(l) \/ HeadRun(l) \/ HeadFailed(l)
    \/ SeeReady(l) \/ SeeHeadGone(l) \/ ReadyTimeout(l) \/ CleanWorker(l) \/ CleanHead(l)

------------------------------------------------------------------------------
(* run.sh on the worker (ROLE=worker): start_local 1. *)

RemoteRemove(l) ==
    /\ remote[l] = "remove"
    /\ Remove("worker", l)
    /\ remote' = [remote EXCEPT ![l] = "run"]
    /\ UNCHANGED <<pc, cut, headStarted, missed, why, upAt, stop, overlooked, calm, trouble>>

RemoteRun(l) ==
    /\ remote[l] = "run"
    /\ Run("worker", l)
    /\ remote' = [remote EXCEPT ![l] = "done"]
    /\ UNCHANGED <<pc, cut, headStarted, missed, history, stop, overlooked, trouble>>

RemoteFails(l) ==
    /\ remote[l] \in {"remove", "run"}
    /\ remote' = [remote EXCEPT ![l] = "failed"]
    /\ UNCHANGED <<box, pc, cut, headStarted, missed, history, stop, overlooked, calm, trouble>>

RemoteStep(l) == RemoteRemove(l) \/ RemoteRun(l) \/ RemoteFails(l)

------------------------------------------------------------------------------
(* The containers. *)

Lose(n, who) == lostTo' = [m \in Launches |->
                    IF box[n].by = m THEN lostTo[m] \cup {who} ELSE lostTo[m]]

(* The two ranks meet at the head's master port and finish loading. *)
LoadUp ==
    /\ box["head"].st = "loading"
    /\ box["worker"].st = "loading"
    /\ box' = [n \in Node |-> [box[n] EXCEPT !.st = "up"]]
    /\ UNCHANGED <<pc, remote, cut, headStarted, missed, history, stop, overlooked, calm, trouble>>

\* Mutant: docker starts the container again (no --restart no).
ExitRestarts(n) == box' = [box EXCEPT ![n].st = "restarting"]

Exit(n) == box' = [box EXCEPT ![n].st = "exited"]

Crash(n) ==
    /\ Hiccup
    /\ Running(n)
    /\ Exit(n)
    /\ Lose(n, "outside")
    /\ UNCHANGED <<pc, remote, cut, headStarted, missed, why, upAt, stop, overlooked, calm>>

(* A rank that was up loses its peer and exits. *)
PeerLost(n) ==
    /\ box[n].st = "up"
    /\ \E p \in Node \ {n} : ~Running(p)
    /\ Exit(n)
    /\ Lose(n, "outside")
    /\ UNCHANGED <<pc, remote, cut, headStarted, missed, why, upAt, stop, overlooked, calm, trouble>>

------------------------------------------------------------------------------
(* stop.sh, any number of times. *)

StopLocal ==
    /\ stop # "remote"
    /\ Remove("head", "outside")
    /\ stop' = "remote"
    /\ overlooked' = {}
    /\ calm' = TRUE
    /\ UNCHANGED <<pc, remote, cut, headStarted, missed, why, upAt, trouble>>

(* docker ps fails, which stop_local takes for no container, or docker rm
   fails, which ends stop.sh. *)
StopLocalFails ==
    /\ Hiccup
    /\ stop # "remote"
    /\ \/ stop' = "remote" /\ overlooked' = {"head"}
       \/ stop' = "failed" /\ overlooked' = {}
    /\ calm' = TRUE
    /\ UNCHANGED <<box, pc, remote, cut, headStarted, missed, history>>

StopRemote ==
    /\ stop = "remote"
    /\ Remove("worker", "outside")
    /\ stop' = "done"
    /\ UNCHANGED <<pc, remote, cut, headStarted, missed, why, upAt, overlooked, calm, trouble>>

(* docker rm fails on the worker: "No remote container", and stop.sh ends well. *)
StopRemoteFails ==
    /\ Hiccup
    /\ stop = "remote"
    /\ stop' = "done"
    /\ overlooked' = overlooked \cup {"worker"}
    /\ UNCHANGED <<box, pc, remote, cut, headStarted, missed, history, calm>>

\* Mutant: stop.sh does not notice that ssh failed.
StopUnnoticed ==
    /\ Hiccup
    /\ stop = "remote"
    /\ stop' = "done"
    /\ UNCHANGED <<box, pc, remote, cut, headStarted, missed, history, overlooked, calm>>

(* ssh fails, and stop.sh with it. *)
StopUnreached ==
    /\ Hiccup
    /\ stop = "remote"
    /\ stop' = "failed"
    /\ overlooked' = {}
    /\ UNCHANGED <<box, pc, remote, cut, headStarted, missed, history, calm>>

------------------------------------------------------------------------------
Next ==
    \/ \E l \in Launches : \/ Begin(l) \/ LaunchStep(l) \/ RemoteStep(l)
                           \/ SshCut(l) \/ HeadUnseen(l) \/ Interrupt(l)
                           \/ CleanWorkerUnreached(l) \/ CleanHeadFails(l)
    \/ LoadUp
    \/ \E n \in Node : Crash(n) \/ PeerLost(n)
    \/ StopLocal \/ StopLocalFails \/ StopRemote \/ StopRemoteFails \/ StopUnreached

Spec == Init /\ [][Next]_vars

(* run.sh and its script on the worker, once called, run until they end; containers, crashes
   and operators owe nothing. *)
FairSpec == Spec /\ \A l \in Launches : WF_vars(LaunchStep(l)) /\ WF_vars(RemoteStep(l))

------------------------------------------------------------------------------
(* A launch that failed leaves no container of its own on a node its clean-up
   could clear (run.sh:586-607), whatever other launches, crashes and stop.sh
   did meanwhile.  The exception is a worker script that outlives its ssh and
   runs its container after the clean-up. *)
FailureLeavesNothing ==
    \A l \in Launches, n \in Node :
        pc[l] = "failed" /\ <<l, n>> \notin missed /\ (n = "worker" => l \notin cut) =>
            box[n].by # l

(* A launch finds a rank gone only if that rank did crash or was taken away:
   ssh failures in the wait loops never tear a serve down (run.sh:553).  That a
   docker ps that fails on the head does (run.sh:643) is HeadUnseen. *)
TearDownHasCause ==
    \A l \in Launches : why[l] = "rank gone" => lostTo[l] # {}

(* A launch that reported ready, and that nothing was taken from, serves with
   both its own ranks: never with a head or a worker of another launch. *)
ReadyServesItself ==
    \A l \in Launches : pc[l] = "ready" /\ lostTo[l] = {} =>
        \A n \in Node : box[n] = [by |-> l, st |-> "up"]

(* A launch called while a serve is up takes a container from it only after
   something else has, or its own launch tore it down: the port check refuses
   otherwise (run.sh:386).  A serve that comes up after the check is not spared. *)
UpServeSpared ==
    \A l, m \in Launches : m \in upAt[l] /\ why[m] = "-" => lostTo[m] # {l}

(* "./stop.sh stops both ranks" (run.sh:740): when it ends well, with no container
   started meanwhile, every node is clear, of the ranks of interrupted, failed and
   outlived launches too.  Only a node whose docker failed unnoticed may be not
   (stop.sh:14, :37). *)
StopsWhereItCould ==
    stop = "done" /\ calm => \A n \in Node \ overlooked : ~Exists(n)

(* Every launch comes to an end: the wait loops are bounded, and the clean-up
   does not wait for anybody. *)
LaunchEnds == \A l \in Launches : pc[l] = "check" ~> pc[l] \in Ended

------------------------------------------------------------------------------
(* Why these hold: an inductive invariant, proved in LaunchProofs. *)

(* Where a launch is says what it has started, and what can still start. *)
Placed(l) ==
    /\ pc[l] \in {"idle", "check", "preflight", "refused"} => remote[l] = "off"
    /\ remote[l] = "off" => pc[l] \in {"idle", "check", "preflight", "refused", "interrupted"}
    /\ remote[l] \in {"remove", "run"} => pc[l] = "startWorker" \/ l \in cut
    /\ pc[l] \in {"waitMark", "startHead", "runHead", "waitReady", "ready"} => remote[l] = "done"
    /\ pc[l] \in {"startHead", "runHead", "waitReady"} => l \in headStarted
    /\ pc[l] \in Cleaning => why[l] # "-"
    /\ pc[l] \in {"cleanHead", "failed"} /\ <<l, "worker">> \notin missed /\ l \notin cut =>
         box["worker"].by # l
    /\ box["worker"].by = l => remote[l] = "done"
    /\ box["head"].by = l =>
         /\ l \in headStarted
         /\ \/ pc[l] \in {"waitReady", "cleanWorker", "cleanHead", "ready", "interrupted"}
            \/ pc[l] = "failed" /\ <<l, "head">> \in missed

(* A launch that nothing was taken from still has what it started. *)
Held(l) ==
    /\ why[l] = "rank gone" => lostTo[l] # {}
    /\ lostTo[l] = {} =>
         /\ remote[l] = "done" /\ pc[l] \in Trapped \cup {"ready"} =>
              box["worker"].by = l /\ Running("worker")
         /\ pc[l] \in {"waitReady", "ready"} => box["head"].by = l /\ Running("head")
         /\ pc[l] \in {"waitReady", "ready"} /\ PortBusy => box["worker"].st = "up"
         /\ pc[l] = "ready" => PortBusy

(* What a launch found up it can only have met after somebody else took from it. *)
Spares(l, m) ==
    /\ l \in lostTo[m] => remote[l] # "off"
    /\ m \in upAt[l] /\ why[m] = "-" =>
         /\ lostTo[m] = {} => box["head"] = [by |-> m, st |-> "up"]
         /\ pc[l] = "preflight" \/ remote[l] # "off" => \E c \in lostTo[m] : c # l

Spared(l) == \A m \in Launches : Spares(l, m)

Stopped ==
    /\ StopsWhereItCould
    /\ stop = "remote" /\ calm /\ "head" \notin overlooked => ~Exists("head")

IInv ==
    /\ \A n \in Node : box[n].st = "none" <=> box[n] = Absent
    /\ \A n \in Node : box[n].by = Nobody <=> box[n] = Absent
    /\ \A l \in Launches : Placed(l) /\ Held(l) /\ Spared(l)
    /\ Stopped
==============================================================================
