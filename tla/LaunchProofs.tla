----------------------------- MODULE LaunchProofs -----------------------------
(***************************************************************************)
(* The safety of Launch for any number of launches and troubles.           *)
(***************************************************************************)
EXTENDS Launch, TLAPS

LEMMA HiccupCounts ==
  ASSUME TypeOK, Hiccup PROVE trouble' \in 0 .. Trouble
<1>1. Trouble \in Nat /\ trouble \in 0 .. Trouble
  BY LaunchAssumption DEF TypeOK
<1> QED
  BY <1>1 DEF Hiccup

LEMMA ExitBox ==
  ASSUME TypeOK, NEW n \in Node, Exit(n)
  PROVE  /\ box' \in [Node -> [by : Owner, st : State]]
         /\ \A k \in Node : box'[k] = IF k = n THEN [by |-> box[n].by, st |-> "exited"] ELSE box[k]
<1>1. box[n] \in [by : Owner, st : State]
  BY DEF TypeOK
<1>3. [box[n] EXCEPT !.st = "exited"] = [by |-> box[n].by, st |-> "exited"]
  BY <1>1
<1>2. box' = [k \in Node |-> IF k = n THEN [by |-> box[n].by, st |-> "exited"] ELSE box[k]]
  BY <1>3 DEF TypeOK, Exit
<1> QED
  BY <1>1, <1>2 DEF TypeOK, State

LEMMA LoadedBox ==
  ASSUME TypeOK, LoadUp
  PROVE  /\ box' \in [Node -> [by : Owner, st : State]]
         /\ \A n \in Node : box'[n] = [by |-> box[n].by, st |-> "up"]
<1>1. \A n \in Node : box[n] \in [by : Owner, st : State]
  BY DEF TypeOK
<1>3. \A n \in Node : [box[n] EXCEPT !.st = "up"] = [by |-> box[n].by, st |-> "up"]
  BY <1>1
<1>2. box' = [n \in Node |-> [by |-> box[n].by, st |-> "up"]]
  BY <1>3 DEF LoadUp
<1> QED
  BY <1>1, <1>2 DEF State

LEMMA MissedMore ==
  ASSUME TypeOK, NEW l \in Launches, NEW n \in Node, missed' = missed \cup {<<l, n>>}
  PROVE  missed' \subseteq Launches \X Node
<1>1. <<l, n>> \in Launches \X Node
  OBVIOUS
<1>2. missed \subseteq Launches \X Node
  BY DEF TypeOK
<1> QED
  BY <1>1, <1>2

(* Every variable keeps its type. *)
LEMMA TypeStep == TypeOK /\ [Next]_vars => TypeOK'
<1> SUFFICES ASSUME TypeOK, [Next]_vars PROVE TypeOK'
  OBVIOUS
<1> USE LaunchAssumption, HiccupCounts DEF TypeOK, Trapped, Cleaning, Ended, Owner, Culprit, Absent, Node, State,
         Nobody, Goto, Fail, Remove, Run, AfterWorker, Lose, history, Midway
<1>1. ASSUME NEW l \in Launches, Begin(l) PROVE TypeOK'
  BY <1>1 DEF Begin
<1>2. ASSUME NEW l \in Launches, PortFree(l) PROVE TypeOK'
  BY <1>2 DEF PortFree
<1>3. ASSUME NEW l \in Launches, Refuse(l) PROVE TypeOK'
  BY <1>3 DEF Refuse
<1>4. ASSUME NEW l \in Launches, StartWorker(l) PROVE TypeOK'
  BY <1>4 DEF StartWorker
<1>5. ASSUME NEW l \in Launches, WorkerStarted(l) PROVE TypeOK'
  BY <1>5 DEF WorkerStarted
<1>6. ASSUME NEW l \in Launches, WorkerFailed(l) PROVE TypeOK'
  BY <1>6 DEF WorkerFailed
<1>7. ASSUME NEW l \in Launches, SshCut(l) PROVE TypeOK'
  BY <1>7 DEF SshCut
<1>8. ASSUME NEW l \in Launches, MarkOrTimeout(l) PROVE TypeOK'
  BY <1>8 DEF MarkOrTimeout
<1>9. ASSUME NEW l \in Launches, SeeWorkerGone(l) PROVE TypeOK'
  BY <1>9 DEF SeeWorkerGone
<1>10. ASSUME NEW l \in Launches, HeadRemove(l) PROVE TypeOK'
  BY <1>10 DEF HeadRemove
<1>11. ASSUME NEW l \in Launches, HeadRun(l) PROVE TypeOK'
  BY <1>11 DEF HeadRun
<1>12. ASSUME NEW l \in Launches, HeadFailed(l) PROVE TypeOK'
  BY <1>12 DEF HeadFailed
<1>13. ASSUME NEW l \in Launches, SeeReady(l) PROVE TypeOK'
  BY <1>13 DEF SeeReady
<1>14. ASSUME NEW l \in Launches, SeeHeadGone(l) PROVE TypeOK'
  BY <1>14 DEF SeeHeadGone
<1>15. ASSUME NEW l \in Launches, ReadyTimeout(l) PROVE TypeOK'
  BY <1>15 DEF ReadyTimeout
<1>16. ASSUME NEW l \in Launches, CleanWorker(l) PROVE TypeOK'
  BY <1>16 DEF CleanWorker
<1>17. ASSUME NEW l \in Launches, CleanWorkerUnreached(l) PROVE TypeOK'
  <2>1. missed' \subseteq Launches \X Node
    BY <1>17, MissedMore DEF CleanWorkerUnreached
  <2> QED
    BY <1>17, <2>1 DEF CleanWorkerUnreached
<1>18. ASSUME NEW l \in Launches, CleanHead(l) PROVE TypeOK'
  BY <1>18 DEF CleanHead
<1>19. ASSUME NEW l \in Launches, Interrupt(l) PROVE TypeOK'
  <2>0. remote \in [Launches -> {"off", "remove", "run", "done", "failed"}] /\ cut \subseteq Launches
    OBVIOUS
  <2>1. CASE Midway(l)
    <3>1. remote' = remote \/ remote' = [remote EXCEPT ![l] = "failed"]
      BY <1>19, <2>1 DEF Interrupt
    <3>2. remote' \in [Launches -> {"off", "remove", "run", "done", "failed"}]
      BY <3>1, <2>0
    <3>3. cut' \subseteq Launches
      <4>1. cut' = cut \cup {l}
        BY <1>19, <2>1 DEF Interrupt
      <4> QED
        BY <4>1, <2>0
    <3> QED
      BY <1>19, <2>1, <3>2, <3>3 DEF Interrupt
  <2>2. CASE ~Midway(l)
    BY <1>19, <2>2 DEF Interrupt
  <2> QED
    BY <2>1, <2>2
<1>20. ASSUME NEW l \in Launches, RemoteRemove(l) PROVE TypeOK'
  BY <1>20 DEF RemoteRemove
<1>21. ASSUME NEW l \in Launches, RemoteRun(l) PROVE TypeOK'
  BY <1>21 DEF RemoteRun
<1>22. ASSUME NEW l \in Launches, RemoteFails(l) PROVE TypeOK'
  BY <1>22 DEF RemoteFails
<1>23. ASSUME LoadUp PROVE TypeOK'
  BY LoadedBox, <1>23 DEF LoadUp
<1>24. ASSUME NEW n \in Node, Crash(n) PROVE TypeOK'
  BY ExitBox, <1>24 DEF Crash, Running
<1>25. ASSUME NEW n \in Node, PeerLost(n) PROVE TypeOK'
  BY ExitBox, <1>25 DEF PeerLost, Running
<1>26. ASSUME StopLocal PROVE TypeOK'
  BY <1>26 DEF StopLocal
<1>27. ASSUME StopRemote PROVE TypeOK'
  BY <1>27 DEF StopRemote
<1>28. ASSUME StopUnreached PROVE TypeOK'
  BY <1>28 DEF StopUnreached
<1>30. ASSUME NEW l \in Launches, HeadUnseen(l) PROVE TypeOK'
  BY <1>30 DEF HeadUnseen
<1>31. ASSUME NEW l \in Launches, CleanHeadFails(l) PROVE TypeOK'
  <2>1. missed' \subseteq Launches \X Node
    BY <1>31, MissedMore DEF CleanHeadFails
  <2> QED
    BY <1>31, <2>1 DEF CleanHeadFails
<1>32. ASSUME StopLocalFails PROVE TypeOK'
  BY <1>32 DEF StopLocalFails
<1>33. ASSUME StopRemoteFails PROVE TypeOK'
  BY <1>33 DEF StopRemoteFails
<1>29. CASE UNCHANGED vars
  BY <1>29 DEF vars
<1> QED
  BY <1>1, <1>2, <1>3, <1>4, <1>5, <1>6, <1>7, <1>8, <1>9, <1>10, <1>11, <1>12, <1>13, <1>14, <1>15, <1>16, <1>17, <1>18, <1>19, <1>20, <1>21, <1>22, <1>23, <1>24, <1>25, <1>26, <1>27, <1>28, <1>29, <1>30, <1>31, <1>32, <1>33 DEF Next, LaunchStep, RemoteStep

LEMMA RemoveBox ==
  ASSUME TypeOK, NEW n \in Node, NEW who \in Culprit, Remove(n, who)
  PROVE  /\ box'[n] = Absent
         /\ \A k \in Node \ {n} : box'[k] = box[k]
         /\ \A m \in Launches : /\ lostTo[m] \subseteq lostTo'[m]
                                /\ lostTo'[m] \subseteq lostTo[m] \cup {who}
                                /\ box[n].by = m /\ m # who => who \in lostTo'[m]
                                /\ box[n].by # m \/ m = who => lostTo'[m] = lostTo[m]
BY DEF TypeOK, Remove

LEMMA RunBox ==
  ASSUME TypeOK, NEW n \in Node, NEW l \in Launches, Run(n, l)
  PROVE  /\ box'[n] = [by |-> l, st |-> "loading"]
         /\ \A k \in Node \ {n} : box'[k] = box[k]
         /\ box[n].st = "none"
         /\ calm' = FALSE
BY DEF TypeOK, Run, Exists


(* The parts of IInv about what the nodes have. *)
Boxes == \A n \in Node : /\ box[n].st = "none" <=> box[n] = Absent
                         /\ box[n].by = Nobody <=> box[n] = Absent

(* Every step keeps the invariant. *)
LEMMA InvStep == TypeOK /\ IInv /\ [Next]_vars => IInv'
<1> SUFFICES ASSUME TypeOK, IInv, [Next]_vars PROVE IInv'
  OBVIOUS
<1>b. Boxes
  BY DEF IInv, Boxes
<1>j. \A l \in Launches : Placed(l) /\ Held(l) /\ Spared(l)
  BY DEF IInv
<1>s. Stopped
  BY DEF IInv
<1>n. \A l \in Launches : l # Nobody /\ l # "outside"
  BY LaunchAssumption
<1>a. Absent.by = Nobody /\ Absent.st = "none"
  BY DEF Absent
<1> HIDE DEF IInv
<1>1. ASSUME NEW l \in Launches, Begin(l) PROVE IInv'
  <2>1. /\ pc[l] = "idle"
        /\ UNCHANGED <<box, remote, cut, headStarted, missed, why, lostTo, stop, overlooked, calm>>
    BY <1>1 DEF Begin, Goto
  <2>2. \A q \in Launches : pc'[q] = IF q = l THEN "check" ELSE pc[q]
    BY <1>1 DEF Begin, TypeOK, Goto
  <2>3. \A q \in Launches : upAt'[q] = IF q = l THEN {m \in Launches : box["head"] = [by |-> m, st |-> "up"]} ELSE upAt[q]
    BY <1>1 DEF Begin, TypeOK
  <2>4. Boxes'
    BY <2>1, <1>b DEF Boxes, StopsWhereItCould, Exists
  <2>5. ASSUME NEW j \in Launches PROVE Placed(j)'
    <3>1. Placed(j)
      BY <1>j
    <3> QED
      BY <2>1, <2>2, <3>1 DEF Placed, Cleaning
  <2>6. ASSUME NEW j \in Launches PROVE Held(j)'
    <3>1. Placed(j) /\ Held(j)
      BY <1>j
    <3> QED
      BY <2>1, <2>2, <3>1 DEF Placed, Held, Trapped, Running, PortBusy
  <2>7. ASSUME NEW j \in Launches, NEW m \in Launches PROVE Spares(j, m)'
    <3>1. Placed(j) /\ Placed(m) /\ Placed(l)
      BY <1>j
    <3>2. Spares(j, m)
      BY <1>j DEF Spared
    <3> QED
      BY <2>1, <2>2, <2>3, <3>1, <3>2 DEF Placed, Spares
  <2>8. Stopped'
    BY <2>1, <1>s DEF Stopped, StopsWhereItCould, Exists
  <2> QED
    BY <2>4, <2>5, <2>6, <2>7, <2>8 DEF IInv, Boxes, Spared
<1>2. ASSUME NEW l \in Launches, PortFree(l) PROVE IInv'
  <2>1. /\ pc[l] = "check"
        /\ ~PortBusy
        /\ UNCHANGED <<box, remote, cut, headStarted, missed, why, lostTo, upAt, stop, overlooked, calm>>
    BY <1>2 DEF PortFree, Goto, history
  <2>2. \A q \in Launches : pc'[q] = IF q = l THEN "preflight" ELSE pc[q]
    BY <1>2 DEF PortFree, TypeOK, Goto
  <2>3. Boxes'
    BY <2>1, <1>b DEF Boxes, StopsWhereItCould, Exists
  <2>4. ASSUME NEW j \in Launches PROVE Placed(j)'
    <3>1. Placed(j)
      BY <1>j
    <3> QED
      BY <2>1, <2>2, <3>1 DEF Placed, Cleaning
  <2>5. ASSUME NEW j \in Launches PROVE Held(j)'
    <3>1. Placed(j) /\ Held(j)
      BY <1>j
    <3> QED
      BY <2>1, <2>2, <3>1 DEF Placed, Held, Trapped, Running, PortBusy
  <2>6. ASSUME NEW j \in Launches, NEW m \in Launches PROVE Spares(j, m)'
    <3>1. Placed(j) /\ Placed(m) /\ Placed(l)
      BY <1>j
    <3>2. Spares(j, m)
      BY <1>j DEF Spared
    <3> QED
      BY <2>1, <2>2, <3>1, <3>2 DEF Placed, Spares, PortBusy
  <2>7. Stopped'
    BY <2>1, <1>s DEF Stopped, StopsWhereItCould, Exists
  <2> QED
    BY <2>3, <2>4, <2>5, <2>6, <2>7 DEF IInv, Boxes, Spared
<1>3. ASSUME NEW l \in Launches, Refuse(l) PROVE IInv'
  <2>1. /\ pc[l] \in {"check", "preflight"}
        /\ UNCHANGED <<box, remote, cut, headStarted, missed, why, lostTo, upAt, stop, overlooked, calm>>
    BY <1>3 DEF Refuse, Goto, history
  <2>2. \A q \in Launches : pc'[q] = IF q = l THEN "refused" ELSE pc[q]
    BY <1>3 DEF Refuse, TypeOK, Goto
  <2>3. Boxes'
    BY <2>1, <1>b DEF Boxes, StopsWhereItCould, Exists
  <2>4. ASSUME NEW j \in Launches PROVE Placed(j)'
    <3>1. Placed(j)
      BY <1>j
    <3> QED
      BY <2>1, <2>2, <3>1 DEF Placed, Cleaning
  <2>5. ASSUME NEW j \in Launches PROVE Held(j)'
    <3>1. Placed(j) /\ Held(j)
      BY <1>j
    <3> QED
      BY <2>1, <2>2, <3>1 DEF Placed, Held, Trapped, Running, PortBusy
  <2>6. ASSUME NEW j \in Launches, NEW m \in Launches PROVE Spares(j, m)'
    <3>1. Placed(j) /\ Placed(m) /\ Placed(l)
      BY <1>j
    <3>2. Spares(j, m)
      BY <1>j DEF Spared
    <3> QED
      BY <2>1, <2>2, <3>1, <3>2 DEF Placed, Spares
  <2>7. Stopped'
    BY <2>1, <1>s DEF Stopped, StopsWhereItCould, Exists
  <2> QED
    BY <2>3, <2>4, <2>5, <2>6, <2>7 DEF IInv, Boxes, Spared
<1>4. ASSUME NEW l \in Launches, StartWorker(l) PROVE IInv'
  <2>1. /\ pc[l] = "preflight"
        /\ UNCHANGED <<box, cut, headStarted, missed, why, lostTo, upAt, stop, overlooked, calm>>
    BY <1>4 DEF StartWorker, Goto, history
  <2>2. \A q \in Launches : pc'[q] = IF q = l THEN "startWorker" ELSE pc[q]
    BY <1>4 DEF StartWorker, TypeOK, Goto
  <2>3. \A q \in Launches : remote'[q] = IF q = l THEN "remove" ELSE remote[q]
    BY <1>4 DEF StartWorker, TypeOK
  <2>4. Boxes'
    BY <2>1, <1>b DEF Boxes, StopsWhereItCould, Exists
  <2>5. ASSUME NEW j \in Launches PROVE Placed(j)'
    <3>1. Placed(j)
      BY <1>j
    <3> QED
      BY <2>1, <2>2, <2>3, <3>1 DEF Placed, Cleaning
  <2>6. ASSUME NEW j \in Launches PROVE Held(j)'
    <3>1. Placed(j) /\ Held(j)
      BY <1>j
    <3> QED
      BY <2>1, <2>2, <2>3, <3>1 DEF Placed, Held, Trapped, Running, PortBusy
  <2>7. ASSUME NEW j \in Launches, NEW m \in Launches PROVE Spares(j, m)'
    <3>1. Placed(j) /\ Placed(m) /\ Placed(l)
      BY <1>j
    <3>2. Spares(j, m)
      BY <1>j DEF Spared
    <3> QED
      BY <2>1, <2>2, <2>3, <3>1, <3>2 DEF Placed, Spares
  <2>8. Stopped'
    BY <2>1, <1>s DEF Stopped, StopsWhereItCould, Exists
  <2> QED
    BY <2>4, <2>5, <2>6, <2>7, <2>8 DEF IInv, Boxes, Spared
<1>5. ASSUME NEW l \in Launches, WorkerStarted(l) PROVE IInv'
  <2>1. /\ pc[l] = "startWorker"
        /\ remote[l] = "done"
        /\ UNCHANGED <<box, remote, cut, headStarted, missed, why, lostTo, upAt, stop, overlooked, calm>>
    BY <1>5 DEF WorkerStarted, Goto, history
  <2>2. \A q \in Launches : pc'[q] = IF q = l THEN "waitMark" ELSE pc[q]
    BY <1>5 DEF WorkerStarted, TypeOK, Goto
  <2>3. Boxes'
    BY <2>1, <1>b DEF Boxes, StopsWhereItCould, Exists
  <2>4. ASSUME NEW j \in Launches PROVE Placed(j)'
    <3>1. Placed(j)
      BY <1>j
    <3> QED
      BY <2>1, <2>2, <3>1 DEF Placed, Cleaning
  <2>5. ASSUME NEW j \in Launches PROVE Held(j)'
    <3>1. Placed(j) /\ Held(j)
      BY <1>j
    <3> QED
      BY <2>1, <2>2, <3>1 DEF Placed, Held, Trapped, Running, PortBusy
  <2>6. ASSUME NEW j \in Launches, NEW m \in Launches PROVE Spares(j, m)'
    <3>1. Placed(j) /\ Placed(m) /\ Placed(l)
      BY <1>j
    <3>2. Spares(j, m)
      BY <1>j DEF Spared
    <3> QED
      BY <2>1, <2>2, <3>1, <3>2 DEF Placed, Spares
  <2>7. Stopped'
    BY <2>1, <1>s DEF Stopped, StopsWhereItCould, Exists
  <2> QED
    BY <2>3, <2>4, <2>5, <2>6, <2>7 DEF IInv, Boxes, Spared
<1>6. ASSUME NEW l \in Launches, WorkerFailed(l) PROVE IInv'
  <2>1. /\ pc[l] = "startWorker"
        /\ remote[l] = "failed"
        /\ UNCHANGED <<box, remote, cut, headStarted, missed, lostTo, upAt, stop, overlooked, calm>>
    BY <1>6 DEF WorkerFailed, Fail, Goto
  <2>2. \A q \in Launches : pc'[q] = IF q = l THEN "cleanWorker" ELSE pc[q]
    BY <1>6 DEF WorkerFailed, TypeOK, Fail, Goto
  <2>3. \A q \in Launches : why'[q] = IF q = l THEN "other" ELSE why[q]
    BY <1>6 DEF WorkerFailed, TypeOK, Fail
  <2>4. Boxes'
    BY <2>1, <1>b DEF Boxes, StopsWhereItCould, Exists
  <2>5. ASSUME NEW j \in Launches PROVE Placed(j)'
    <3>1. Placed(j)
      BY <1>j
    <3> QED
      BY <2>1, <2>2, <2>3, <3>1 DEF Placed, Cleaning
  <2>6. ASSUME NEW j \in Launches PROVE Held(j)'
    <3>1. Placed(j) /\ Held(j)
      BY <1>j
    <3> QED
      BY <2>1, <2>2, <2>3, <3>1 DEF Placed, Held, Trapped, Running, PortBusy
  <2>7. ASSUME NEW j \in Launches, NEW m \in Launches PROVE Spares(j, m)'
    <3>1. Placed(j) /\ Placed(m) /\ Placed(l)
      BY <1>j
    <3>2. Spares(j, m)
      BY <1>j DEF Spared
    <3> QED
      BY <2>1, <2>2, <2>3, <3>1, <3>2 DEF Placed, Spares
  <2>8. Stopped'
    BY <2>1, <1>s DEF Stopped, StopsWhereItCould, Exists
  <2> QED
    BY <2>4, <2>5, <2>6, <2>7, <2>8 DEF IInv, Boxes, Spared
<1>7. ASSUME NEW l \in Launches, SshCut(l) PROVE IInv'
  <2>1. /\ pc[l] = "startWorker"
        /\ UNCHANGED <<box, remote, headStarted, missed, lostTo, upAt, stop, overlooked, calm>>
    BY <1>7 DEF SshCut, Fail, Goto, Midway
  <2>2. \A q \in Launches : pc'[q] = IF q = l THEN "cleanWorker" ELSE pc[q]
    BY <1>7 DEF SshCut, TypeOK, Fail, Goto
  <2>3. \A q \in Launches : why'[q] = IF q = l THEN "other" ELSE why[q]
    BY <1>7 DEF SshCut, TypeOK, Fail
  <2>4. cut' = cut \cup {l}
    BY <1>7 DEF SshCut, TypeOK, Midway
  <2>5. Boxes'
    BY <2>1, <1>b DEF Boxes, StopsWhereItCould, Exists
  <2>6. ASSUME NEW j \in Launches PROVE Placed(j)'
    <3>1. Placed(j)
      BY <1>j
    <3> QED
      BY <2>1, <2>2, <2>3, <2>4, <3>1 DEF Placed, Cleaning
  <2>7. ASSUME NEW j \in Launches PROVE Held(j)'
    <3>1. Placed(j) /\ Held(j)
      BY <1>j
    <3> QED
      BY <2>1, <2>2, <2>3, <3>1 DEF Placed, Held, Trapped, Running, PortBusy
  <2>8. ASSUME NEW j \in Launches, NEW m \in Launches PROVE Spares(j, m)'
    <3>1. Placed(j) /\ Placed(m) /\ Placed(l)
      BY <1>j
    <3>2. Spares(j, m)
      BY <1>j DEF Spared
    <3> QED
      BY <2>1, <2>2, <2>3, <3>1, <3>2 DEF Placed, Spares
  <2>9. Stopped'
    BY <2>1, <1>s DEF Stopped, StopsWhereItCould, Exists
  <2> QED
    BY <2>5, <2>6, <2>7, <2>8, <2>9 DEF IInv, Boxes, Spared
<1>8. ASSUME NEW l \in Launches, MarkOrTimeout(l) PROVE IInv'
  <2>1. /\ pc[l] = "waitMark"
        /\ UNCHANGED <<box, remote, cut, missed, why, lostTo, upAt, stop, overlooked, calm>>
    BY <1>8 DEF MarkOrTimeout, Goto, history
  <2>2. \A q \in Launches : pc'[q] = IF q = l THEN "startHead" ELSE pc[q]
    BY <1>8 DEF MarkOrTimeout, TypeOK, Goto
  <2>3. headStarted' = headStarted \cup {l}
    BY <1>8 DEF MarkOrTimeout, TypeOK
  <2>4. Boxes'
    BY <2>1, <1>b DEF Boxes, StopsWhereItCould, Exists
  <2>5. ASSUME NEW j \in Launches PROVE Placed(j)'
    <3>1. Placed(j)
      BY <1>j
    <3> QED
      BY <2>1, <2>2, <2>3, <3>1 DEF Placed, Cleaning
  <2>6. ASSUME NEW j \in Launches PROVE Held(j)'
    <3>1. Placed(j) /\ Held(j)
      BY <1>j
    <3>2. CASE j = l
      BY <2>1, <2>2, <3>1, <3>2 DEF Placed, Held, Trapped, Running
    <3>3. CASE j # l
      BY <2>1, <2>2, <3>1, <3>3 DEF Held, Running, PortBusy
    <3> QED
      BY <3>2, <3>3
  <2>7. ASSUME NEW j \in Launches, NEW m \in Launches PROVE Spares(j, m)'
    <3>1. Placed(j) /\ Placed(m) /\ Placed(l)
      BY <1>j
    <3>2. Spares(j, m)
      BY <1>j DEF Spared
    <3> QED
      BY <2>1, <2>2, <3>1, <3>2 DEF Placed, Spares
  <2>8. Stopped'
    BY <2>1, <1>s DEF Stopped, StopsWhereItCould, Exists
  <2> QED
    BY <2>4, <2>5, <2>6, <2>7, <2>8 DEF IInv, Boxes, Spared
<1>9. ASSUME NEW l \in Launches, SeeWorkerGone(l) PROVE IInv'
  <2>1. /\ pc[l] \in {"waitMark", "waitReady"}
        /\ ~Running("worker")
        /\ UNCHANGED <<box, remote, cut, headStarted, missed, lostTo, upAt, stop, overlooked, calm>>
    BY <1>9 DEF SeeWorkerGone, Fail, Goto, WorkerState
  <2>2. \A q \in Launches : pc'[q] = IF q = l THEN "cleanWorker" ELSE pc[q]
    BY <1>9 DEF SeeWorkerGone, TypeOK, Fail, Goto
  <2>3. \A q \in Launches : why'[q] = IF q = l THEN "rank gone" ELSE why[q]
    BY <1>9 DEF SeeWorkerGone, TypeOK, Fail
  <2>4. Boxes'
    BY <2>1, <1>b DEF Boxes, StopsWhereItCould, Exists
  <2>5. ASSUME NEW j \in Launches PROVE Placed(j)'
    <3>1. Placed(j)
      BY <1>j
    <3> QED
      BY <2>1, <2>2, <2>3, <3>1 DEF Placed, Cleaning
  <2>6. ASSUME NEW j \in Launches PROVE Held(j)'
    <3>1. Placed(j) /\ Held(j)
      BY <1>j
    <3> QED
      BY <2>1, <2>2, <2>3, <3>1 DEF Placed, Held, Trapped, Running, PortBusy
  <2>7. ASSUME NEW j \in Launches, NEW m \in Launches PROVE Spares(j, m)'
    <3>1. Placed(j) /\ Placed(m) /\ Placed(l)
      BY <1>j
    <3>2. Spares(j, m)
      BY <1>j DEF Spared
    <3> QED
      BY <2>1, <2>2, <2>3, <3>1, <3>2 DEF Placed, Spares
  <2>8. Stopped'
    BY <2>1, <1>s DEF Stopped, StopsWhereItCould, Exists
  <2> QED
    BY <2>4, <2>5, <2>6, <2>7, <2>8 DEF IInv, Boxes, Spared
<1>10. ASSUME NEW l \in Launches, HeadRemove(l) PROVE IInv'
  <2>1. /\ pc[l] = "startHead"
        /\ UNCHANGED <<remote, cut, headStarted, missed, why, upAt, stop, overlooked, calm>>
    BY <1>10 DEF HeadRemove, Goto, Remove
  <2>2. \A q \in Launches : pc'[q] = IF q = l THEN "runHead" ELSE pc[q]
    BY <1>10 DEF HeadRemove, TypeOK, Goto
  <2>3. box'["head"] = Absent
    BY <1>10 DEF HeadRemove, TypeOK, Remove, Node
  <2>4. \A q \in Node \ {"head"} : box'[q] = box[q]
    BY <1>10 DEF HeadRemove, TypeOK, Remove, Node
  <2>5. \A m \in Launches : lostTo'[m] = IF box["head"].by = m /\ m # l THEN lostTo[m] \cup {l} ELSE lostTo[m]
    BY <1>10 DEF HeadRemove, TypeOK, Remove
  <2>6. Boxes'
    BY <2>1, <2>3, <2>4, <1>b, <1>n, <1>a DEF Boxes, Node, Absent, Running
  <2>7. ASSUME NEW j \in Launches PROVE Placed(j)'
    <3>1. Placed(j)
      BY <1>j
    <3> QED
      BY <2>1, <2>2, <2>3, <2>4, <3>1, <1>n, <1>a DEF Placed, Cleaning, Node
  <2>8. ASSUME NEW j \in Launches PROVE Held(j)'
    <3>1. Placed(j) /\ Held(j)
      BY <1>j
    <3> QED
      BY <2>1, <2>2, <2>3, <2>4, <2>5, <3>1, <1>n, <1>a DEF Placed, Held, Trapped, Running, PortBusy, Node
  <2>9. ASSUME NEW j \in Launches, NEW m \in Launches PROVE Spares(j, m)'
    <3>1. Placed(j) /\ Placed(m) /\ Placed(l)
      BY <1>j
    <3>2. Spares(j, m)
      BY <1>j DEF Spared
    <3>3. lostTo[m] \subseteq lostTo'[m] /\ lostTo'[m] \subseteq lostTo[m] \cup {l}
      BY <2>1, <2>2, <2>3, <2>4, <2>5
    <3>4. lostTo'[m] = {} => lostTo[m] = {} /\ (box["head"].by = m => m = l)
      BY <2>1, <2>2, <2>3, <2>4, <2>5, <1>n DEF Node
    <3>5. j \in lostTo'[m] => remote[j] # "off"
      BY <2>1, <2>2, <2>3, <2>4, <2>5, <3>1, <3>2, <3>3, <1>n DEF Spares, Placed, Cleaning
    <3>6. ASSUME m \in upAt[j], why[m] = "-", lostTo'[m] = {} PROVE box'["head"] = [by |-> m, st |-> "up"]
      <4>1. box["head"] = [by |-> m, st |-> "up"]
        BY <3>2, <3>4, <3>6 DEF Spares
      <4>2. box["head"].by = m
        BY <4>1
      <4> QED
        BY <2>1, <2>2, <2>3, <2>4, <2>5, <4>1, <4>2, <3>1, <3>4, <3>6 DEF Placed, Cleaning, Node
    <3>7. ASSUME m \in upAt[j], why[m] = "-", pc[j] = "preflight" \/ remote[j] # "off" PROVE \E c \in lostTo'[m] : c # j
      BY <3>2, <3>3, <3>7 DEF Spares
    <3> QED
      BY <2>1, <2>2, <2>3, <2>4, <2>5, <3>1, <3>5, <3>6, <3>7 DEF Spares, Placed, Cleaning
  <2>10. Stopped'
    BY <2>1, <2>3, <2>4, <1>s, <1>a DEF Stopped, StopsWhereItCould, Exists, Node, Running
  <2> QED
    BY <2>6, <2>7, <2>8, <2>9, <2>10 DEF IInv, Boxes, Spared
<1>11. ASSUME NEW l \in Launches, HeadRun(l) PROVE IInv'
  <2>1. /\ pc[l] = "runHead"
        /\ UNCHANGED <<remote, cut, headStarted, missed, why, lostTo, upAt, stop, overlooked>>
    BY <1>11 DEF HeadRun, Goto, Run, Exists, history
  <2>2. \A q \in Launches : pc'[q] = IF q = l THEN "waitReady" ELSE pc[q]
    BY <1>11 DEF HeadRun, TypeOK, Goto
  <2>3. box'["head"] = [by |-> l, st |-> "loading"]
    BY <1>11 DEF HeadRun, TypeOK, Run, Exists, Node
  <2>4. \A q \in Node \ {"head"} : box'[q] = box[q]
    BY <1>11 DEF HeadRun, TypeOK, Run, Exists, Node
  <2>5. box["head"].st = "none"
    BY <1>11 DEF HeadRun, TypeOK, Run, Exists, Node
  <2>6. calm' = FALSE
    BY <1>11 DEF HeadRun, TypeOK, Run
  <2>7. Boxes'
    BY <2>1, <2>3, <2>4, <2>5, <1>b, <1>n, <1>a DEF Boxes, Node, Absent, Running
  <2>8. ASSUME NEW j \in Launches PROVE Placed(j)'
    <3>1. Placed(j)
      BY <1>j
    <3> QED
      BY <2>1, <2>2, <2>3, <2>4, <2>5, <3>1, <1>n, <1>a DEF Placed, Cleaning, Node
  <2>9. ASSUME NEW j \in Launches PROVE Held(j)'
    <3>1. Placed(j) /\ Held(j)
      BY <1>j
    <3>2. box'["head"].by = l /\ box'["head"].st = "loading" /\ box'["worker"] = box["worker"]
      BY <2>1, <2>2, <2>3, <2>4, <2>5 DEF Node
    <3> QED
      BY <2>1, <2>2, <2>3, <2>4, <2>5, <3>1, <3>2 DEF Placed, Held, Trapped, Running, PortBusy
  <2>10. ASSUME NEW j \in Launches, NEW m \in Launches PROVE Spares(j, m)'
    <3>1. Placed(j) /\ Placed(m) /\ Placed(l)
      BY <1>j
    <3>2. Spares(j, m)
      BY <1>j DEF Spared
    <3> QED
      BY <2>1, <2>2, <2>3, <2>4, <2>5, <3>1, <3>2, <1>n, <1>a DEF Placed, Spares, Node
  <2>11. Stopped'
    BY <2>1, <2>3, <2>4, <2>5, <2>6, <1>s, <1>a DEF Stopped, StopsWhereItCould, Exists, Node, Running
  <2> QED
    BY <2>7, <2>8, <2>9, <2>10, <2>11 DEF IInv, Boxes, Spared
<1>12. ASSUME NEW l \in Launches, HeadFailed(l) PROVE IInv'
  <2>1. /\ pc[l] \in {"startHead", "runHead"}
        /\ UNCHANGED <<box, remote, cut, headStarted, missed, lostTo, upAt, stop, overlooked, calm>>
    BY <1>12 DEF HeadFailed, Fail, Goto
  <2>2. \A q \in Launches : pc'[q] = IF q = l THEN "cleanWorker" ELSE pc[q]
    BY <1>12 DEF HeadFailed, TypeOK, Fail, Goto
  <2>3. \A q \in Launches : why'[q] = IF q = l THEN "other" ELSE why[q]
    BY <1>12 DEF HeadFailed, TypeOK, Fail
  <2>4. Boxes'
    BY <2>1, <1>b DEF Boxes, StopsWhereItCould, Exists
  <2>5. ASSUME NEW j \in Launches PROVE Placed(j)'
    <3>1. Placed(j)
      BY <1>j
    <3> QED
      BY <2>1, <2>2, <2>3, <3>1 DEF Placed, Cleaning
  <2>6. ASSUME NEW j \in Launches PROVE Held(j)'
    <3>1. Placed(j) /\ Held(j)
      BY <1>j
    <3> QED
      BY <2>1, <2>2, <2>3, <3>1 DEF Placed, Held, Trapped, Running, PortBusy
  <2>7. ASSUME NEW j \in Launches, NEW m \in Launches PROVE Spares(j, m)'
    <3>1. Placed(j) /\ Placed(m) /\ Placed(l)
      BY <1>j
    <3>2. Spares(j, m)
      BY <1>j DEF Spared
    <3> QED
      BY <2>1, <2>2, <2>3, <3>1, <3>2 DEF Placed, Spares
  <2>8. Stopped'
    BY <2>1, <1>s DEF Stopped, StopsWhereItCould, Exists
  <2> QED
    BY <2>4, <2>5, <2>6, <2>7, <2>8 DEF IInv, Boxes, Spared
<1>13. ASSUME NEW l \in Launches, SeeReady(l) PROVE IInv'
  <2>1. /\ pc[l] = "waitReady"
        /\ PortBusy
        /\ UNCHANGED <<box, remote, cut, headStarted, missed, why, lostTo, upAt, stop, overlooked, calm>>
    BY <1>13 DEF SeeReady, Goto, history
  <2>2. \A q \in Launches : pc'[q] = IF q = l THEN "ready" ELSE pc[q]
    BY <1>13 DEF SeeReady, TypeOK, Goto
  <2>3. Boxes'
    BY <2>1, <1>b DEF Boxes, StopsWhereItCould, Exists
  <2>4. ASSUME NEW j \in Launches PROVE Placed(j)'
    <3>1. Placed(j)
      BY <1>j
    <3> QED
      BY <2>1, <2>2, <3>1 DEF Placed, Cleaning
  <2>5. ASSUME NEW j \in Launches PROVE Held(j)'
    <3>1. Placed(j) /\ Held(j)
      BY <1>j
    <3> QED
      BY <2>1, <2>2, <3>1 DEF Placed, Held, Trapped, Running, PortBusy
  <2>6. ASSUME NEW j \in Launches, NEW m \in Launches PROVE Spares(j, m)'
    <3>1. Placed(j) /\ Placed(m) /\ Placed(l)
      BY <1>j
    <3>2. Spares(j, m)
      BY <1>j DEF Spared
    <3> QED
      BY <2>1, <2>2, <3>1, <3>2 DEF Placed, Spares
  <2>7. Stopped'
    BY <2>1, <1>s DEF Stopped, StopsWhereItCould, Exists
  <2> QED
    BY <2>3, <2>4, <2>5, <2>6, <2>7 DEF IInv, Boxes, Spared
<1>14. ASSUME NEW l \in Launches, SeeHeadGone(l) PROVE IInv'
  <2>1. /\ pc[l] = "waitReady"
        /\ ~Running("head")
        /\ UNCHANGED <<box, remote, cut, headStarted, missed, lostTo, upAt, stop, overlooked, calm>>
    BY <1>14 DEF SeeHeadGone, Fail, Goto
  <2>2. \A q \in Launches : pc'[q] = IF q = l THEN "cleanWorker" ELSE pc[q]
    BY <1>14 DEF SeeHeadGone, TypeOK, Fail, Goto
  <2>3. \A q \in Launches : why'[q] = IF q = l THEN "rank gone" ELSE why[q]
    BY <1>14 DEF SeeHeadGone, TypeOK, Fail
  <2>4. Boxes'
    BY <2>1, <1>b DEF Boxes, StopsWhereItCould, Exists
  <2>5. ASSUME NEW j \in Launches PROVE Placed(j)'
    <3>1. Placed(j)
      BY <1>j
    <3> QED
      BY <2>1, <2>2, <2>3, <3>1 DEF Placed, Cleaning
  <2>6. ASSUME NEW j \in Launches PROVE Held(j)'
    <3>1. Placed(j) /\ Held(j)
      BY <1>j
    <3> QED
      BY <2>1, <2>2, <2>3, <3>1 DEF Placed, Held, Trapped, Running, PortBusy
  <2>7. ASSUME NEW j \in Launches, NEW m \in Launches PROVE Spares(j, m)'
    <3>1. Placed(j) /\ Placed(m) /\ Placed(l)
      BY <1>j
    <3>2. Spares(j, m)
      BY <1>j DEF Spared
    <3> QED
      BY <2>1, <2>2, <2>3, <3>1, <3>2 DEF Placed, Spares
  <2>8. Stopped'
    BY <2>1, <1>s DEF Stopped, StopsWhereItCould, Exists
  <2> QED
    BY <2>4, <2>5, <2>6, <2>7, <2>8 DEF IInv, Boxes, Spared
<1>15. ASSUME NEW l \in Launches, ReadyTimeout(l) PROVE IInv'
  <2>1. /\ pc[l] = "waitReady"
        /\ UNCHANGED <<box, remote, cut, headStarted, missed, lostTo, upAt, stop, overlooked, calm>>
    BY <1>15 DEF ReadyTimeout, Fail, Goto
  <2>2. \A q \in Launches : pc'[q] = IF q = l THEN "cleanWorker" ELSE pc[q]
    BY <1>15 DEF ReadyTimeout, TypeOK, Fail, Goto
  <2>3. \A q \in Launches : why'[q] = IF q = l THEN "other" ELSE why[q]
    BY <1>15 DEF ReadyTimeout, TypeOK, Fail
  <2>4. Boxes'
    BY <2>1, <1>b DEF Boxes, StopsWhereItCould, Exists
  <2>5. ASSUME NEW j \in Launches PROVE Placed(j)'
    <3>1. Placed(j)
      BY <1>j
    <3> QED
      BY <2>1, <2>2, <2>3, <3>1 DEF Placed, Cleaning
  <2>6. ASSUME NEW j \in Launches PROVE Held(j)'
    <3>1. Placed(j) /\ Held(j)
      BY <1>j
    <3> QED
      BY <2>1, <2>2, <2>3, <3>1 DEF Placed, Held, Trapped, Running, PortBusy
  <2>7. ASSUME NEW j \in Launches, NEW m \in Launches PROVE Spares(j, m)'
    <3>1. Placed(j) /\ Placed(m) /\ Placed(l)
      BY <1>j
    <3>2. Spares(j, m)
      BY <1>j DEF Spared
    <3> QED
      BY <2>1, <2>2, <2>3, <3>1, <3>2 DEF Placed, Spares
  <2>8. Stopped'
    BY <2>1, <1>s DEF Stopped, StopsWhereItCould, Exists
  <2> QED
    BY <2>4, <2>5, <2>6, <2>7, <2>8 DEF IInv, Boxes, Spared
<1>16. ASSUME NEW l \in Launches, CleanWorker(l) PROVE IInv'
  <2>1. /\ pc[l] = "cleanWorker"
        /\ UNCHANGED <<remote, cut, headStarted, missed, why, upAt, stop, overlooked, calm>>
    BY <1>16 DEF CleanWorker, AfterWorker, Goto, Remove
  <2>2. \A q \in Launches : pc'[q] = IF q = l THEN (IF l \in headStarted THEN "cleanHead" ELSE "failed") ELSE pc[q]
    BY <1>16 DEF CleanWorker, TypeOK, AfterWorker, Goto
  <2>4. box'["worker"] = Absent
    BY <1>16 DEF CleanWorker, TypeOK, Remove, Node
  <2>5. \A q \in Node \ {"worker"} : box'[q] = box[q]
    BY <1>16 DEF CleanWorker, TypeOK, Remove, Node
  <2>6. \A m \in Launches : lostTo'[m] = IF box["worker"].by = m /\ m # l THEN lostTo[m] \cup {l} ELSE lostTo[m]
    BY <1>16 DEF CleanWorker, TypeOK, Remove
  <2>7. Boxes'
    BY <2>1, <2>4, <2>5, <1>b, <1>n, <1>a DEF Boxes, Node, Absent, Running
  <2>8. ASSUME NEW j \in Launches PROVE Placed(j)'
    <3>1. Placed(j)
      BY <1>j
    <3> QED
      BY <2>1, <2>2, <2>4, <2>5, <3>1, <1>n, <1>a DEF Placed, Cleaning, Node
  <2>9. ASSUME NEW j \in Launches PROVE Held(j)'
    <3>1. Placed(j) /\ Held(j)
      BY <1>j
    <3> QED
      BY <2>1, <2>2, <2>4, <2>5, <2>6, <3>1, <1>n, <1>a DEF Placed, Held, Trapped, Running, PortBusy, Node
  <2>10. ASSUME NEW j \in Launches, NEW m \in Launches PROVE Spares(j, m)'
    <3>1. Placed(j) /\ Placed(m) /\ Placed(l)
      BY <1>j
    <3>2. Spares(j, m)
      BY <1>j DEF Spared
    <3> QED
      BY <2>1, <2>2, <2>4, <2>5, <2>6, <3>1, <3>2, <1>n, <1>a DEF Placed, Spares, Node, Cleaning
  <2>11. Stopped'
    BY <2>1, <2>4, <2>5, <1>s, <1>a DEF Stopped, StopsWhereItCould, Exists, Node, Running
  <2> QED
    BY <2>7, <2>8, <2>9, <2>10, <2>11 DEF IInv, Boxes, Spared
<1>17. ASSUME NEW l \in Launches, CleanWorkerUnreached(l) PROVE IInv'
  <2>1. /\ pc[l] = "cleanWorker"
        /\ UNCHANGED <<box, remote, cut, headStarted, why, lostTo, upAt, stop, overlooked, calm>>
    BY <1>17 DEF CleanWorkerUnreached, AfterWorker, Goto, history
  <2>2. \A q \in Launches : pc'[q] = IF q = l THEN (IF l \in headStarted THEN "cleanHead" ELSE "failed") ELSE pc[q]
    BY <1>17 DEF CleanWorkerUnreached, TypeOK, AfterWorker, Goto
  <2>8. missed' = missed \cup {<<l, "worker">>}
    BY <1>17 DEF CleanWorkerUnreached
  <2>3. Boxes'
    BY <2>1, <1>b DEF Boxes, StopsWhereItCould, Exists
  <2>4. ASSUME NEW j \in Launches PROVE Placed(j)'
    <3>1. Placed(j)
      BY <1>j
    <3> QED
      BY <2>1, <2>2, <2>8, <3>1 DEF Placed, Cleaning
  <2>5. ASSUME NEW j \in Launches PROVE Held(j)'
    <3>1. Placed(j) /\ Held(j)
      BY <1>j
    <3> QED
      BY <2>1, <2>2, <3>1 DEF Placed, Held, Trapped, Running, PortBusy
  <2>6. ASSUME NEW j \in Launches, NEW m \in Launches PROVE Spares(j, m)'
    <3>1. Placed(j) /\ Placed(m) /\ Placed(l)
      BY <1>j
    <3>2. Spares(j, m)
      BY <1>j DEF Spared
    <3> QED
      BY <2>1, <2>2, <3>1, <3>2 DEF Placed, Spares
  <2>7. Stopped'
    BY <2>1, <1>s DEF Stopped, StopsWhereItCould, Exists
  <2> QED
    BY <2>3, <2>4, <2>5, <2>6, <2>7 DEF IInv, Boxes, Spared
<1>18. ASSUME NEW l \in Launches, CleanHead(l) PROVE IInv'
  <2>1. /\ pc[l] = "cleanHead"
        /\ UNCHANGED <<remote, cut, headStarted, missed, why, upAt, stop, overlooked, calm>>
    BY <1>18 DEF CleanHead, Goto, Remove
  <2>2. \A q \in Launches : pc'[q] = IF q = l THEN "failed" ELSE pc[q]
    BY <1>18 DEF CleanHead, TypeOK, Goto
  <2>3. box'["head"] = Absent
    BY <1>18 DEF CleanHead, TypeOK, Remove, Node
  <2>4. \A q \in Node \ {"head"} : box'[q] = box[q]
    BY <1>18 DEF CleanHead, TypeOK, Remove, Node
  <2>5. \A m \in Launches : lostTo'[m] = IF box["head"].by = m /\ m # l THEN lostTo[m] \cup {l} ELSE lostTo[m]
    BY <1>18 DEF CleanHead, TypeOK, Remove
  <2>6. Boxes'
    BY <2>1, <2>3, <2>4, <1>b, <1>n, <1>a DEF Boxes, Node, Absent, Running
  <2>7. ASSUME NEW j \in Launches PROVE Placed(j)'
    <3>1. Placed(j)
      BY <1>j
    <3> QED
      BY <2>1, <2>2, <2>3, <2>4, <3>1, <1>n, <1>a DEF Placed, Cleaning, Node
  <2>8. ASSUME NEW j \in Launches PROVE Held(j)'
    <3>1. Placed(j) /\ Held(j)
      BY <1>j
    <3> QED
      BY <2>1, <2>2, <2>3, <2>4, <2>5, <3>1, <1>n, <1>a DEF Placed, Held, Trapped, Running, PortBusy, Node
  <2>9. ASSUME NEW j \in Launches, NEW m \in Launches PROVE Spares(j, m)'
    <3>1. Placed(j) /\ Placed(m) /\ Placed(l)
      BY <1>j
    <3>2. Spares(j, m)
      BY <1>j DEF Spared
    <3>3. lostTo[m] \subseteq lostTo'[m] /\ lostTo'[m] \subseteq lostTo[m] \cup {l}
      BY <2>1, <2>2, <2>3, <2>4, <2>5
    <3>4. lostTo'[m] = {} => lostTo[m] = {} /\ (box["head"].by = m => m = l)
      BY <2>1, <2>2, <2>3, <2>4, <2>5, <1>n DEF Node
    <3>5. j \in lostTo'[m] => remote[j] # "off"
      BY <2>1, <2>2, <2>3, <2>4, <2>5, <3>1, <3>2, <3>3, <1>n DEF Spares, Placed, Cleaning
    <3>6. ASSUME m \in upAt[j], why[m] = "-", lostTo'[m] = {} PROVE box'["head"] = [by |-> m, st |-> "up"]
      <4>1. box["head"] = [by |-> m, st |-> "up"]
        BY <3>2, <3>4, <3>6 DEF Spares
      <4>2. box["head"].by = m
        BY <4>1
      <4> QED
        BY <2>1, <2>2, <2>3, <2>4, <2>5, <4>1, <4>2, <3>1, <3>4, <3>6 DEF Placed, Cleaning, Node
    <3>7. ASSUME m \in upAt[j], why[m] = "-", pc[j] = "preflight" \/ remote[j] # "off" PROVE \E c \in lostTo'[m] : c # j
      BY <3>2, <3>3, <3>7 DEF Spares
    <3> QED
      BY <2>1, <2>2, <2>3, <2>4, <2>5, <3>1, <3>5, <3>6, <3>7 DEF Spares, Placed, Cleaning
  <2>10. Stopped'
    BY <2>1, <2>3, <2>4, <1>s, <1>a DEF Stopped, StopsWhereItCould, Exists, Node, Running
  <2> QED
    BY <2>6, <2>7, <2>8, <2>9, <2>10 DEF IInv, Boxes, Spared
<1>19. ASSUME NEW l \in Launches, Interrupt(l) PROVE IInv'
  <2>1. /\ pc[l] \in {"check", "preflight"} \cup Trapped \cup Cleaning
        /\ UNCHANGED <<box, headStarted, missed, why, lostTo, upAt, stop, overlooked, calm>>
    BY <1>19 DEF Interrupt, Goto, Midway, history
  <2>2. \A q \in Launches : pc'[q] = IF q = l THEN "interrupted" ELSE pc[q]
    BY <1>19 DEF Interrupt, TypeOK, Goto
  <2>3. \/ /\ Midway(l)
           /\ cut' = cut \cup {l}
           /\ \A q \in Launches : remote'[q] = remote[q] \/ (q = l /\ remote'[q] = "failed")
        \/ cut' = cut /\ remote' = remote /\ ~Midway(l)
    BY <1>19 DEF Interrupt, TypeOK, Midway
  <2>4. Boxes'
    BY <2>1, <1>b DEF Boxes, StopsWhereItCould, Exists
  <2>5. ASSUME NEW j \in Launches PROVE Placed(j)'
    <3>1. Placed(j)
      BY <1>j
    <3> QED
      BY <2>1, <2>2, <2>3, <3>1 DEF Placed, Cleaning, Trapped, Midway
  <2>6. ASSUME NEW j \in Launches PROVE Held(j)'
    <3>1. Placed(j) /\ Held(j)
      BY <1>j
    <3> QED
      BY <2>1, <2>2, <2>3, <3>1 DEF Placed, Held, Trapped, Running, PortBusy, Cleaning, Midway
  <2>7. ASSUME NEW j \in Launches, NEW m \in Launches PROVE Spares(j, m)'
    <3>1. Placed(j) /\ Placed(m) /\ Placed(l)
      BY <1>j
    <3>2. Spares(j, m)
      BY <1>j DEF Spared
    <3> QED
      BY <2>1, <2>2, <2>3, <3>1, <3>2 DEF Placed, Spares, Midway
  <2>8. Stopped'
    BY <2>1, <1>s DEF Stopped, StopsWhereItCould, Exists
  <2> QED
    BY <2>4, <2>5, <2>6, <2>7, <2>8 DEF IInv, Boxes, Spared
<1>20. ASSUME NEW l \in Launches, RemoteRemove(l) PROVE IInv'
  <2>1. /\ remote[l] = "remove"
        /\ UNCHANGED <<pc, cut, headStarted, missed, why, upAt, stop, overlooked, calm>>
    BY <1>20 DEF RemoteRemove, Remove
  <2>2. \A q \in Launches : remote'[q] = IF q = l THEN "run" ELSE remote[q]
    BY <1>20 DEF RemoteRemove, TypeOK
  <2>3. box'["worker"] = Absent
    BY <1>20 DEF RemoteRemove, TypeOK, Remove, Node
  <2>4. \A q \in Node \ {"worker"} : box'[q] = box[q]
    BY <1>20 DEF RemoteRemove, TypeOK, Remove, Node
  <2>5. \A m \in Launches : lostTo'[m] = IF box["worker"].by = m /\ m # l THEN lostTo[m] \cup {l} ELSE lostTo[m]
    BY <1>20 DEF RemoteRemove, TypeOK, Remove
  <2>6. Boxes'
    BY <2>1, <2>3, <2>4, <1>b, <1>n, <1>a DEF Boxes, Node, Absent, Running
  <2>7. ASSUME NEW j \in Launches PROVE Placed(j)'
    <3>1. Placed(j)
      BY <1>j
    <3> QED
      BY <2>1, <2>2, <2>3, <2>4, <3>1, <1>n, <1>a DEF Placed, Cleaning, Node
  <2>8. ASSUME NEW j \in Launches PROVE Held(j)'
    <3>1. Placed(j) /\ Held(j)
      BY <1>j
    <3> QED
      BY <2>1, <2>2, <2>3, <2>4, <2>5, <3>1, <1>n, <1>a DEF Placed, Held, Trapped, Running, PortBusy, Node
  <2>9. ASSUME NEW j \in Launches, NEW m \in Launches PROVE Spares(j, m)'
    <3>1. Placed(j) /\ Placed(m) /\ Placed(l)
      BY <1>j
    <3>2. Spares(j, m)
      BY <1>j DEF Spared
    <3>3. lostTo[m] \subseteq lostTo'[m] /\ lostTo'[m] \subseteq lostTo[m] \cup {l}
      BY <2>5
    <3>4. lostTo'[m] = {} => lostTo[m] = {} /\ box'["head"] = box["head"]
      BY <2>4, <3>3 DEF Node
    <3>5. j \in lostTo'[m] => remote'[j] # "off"
      BY <2>1, <2>2, <3>2, <3>3 DEF Spares
    <3>6. ASSUME m \in upAt[j], why[m] = "-", lostTo'[m] = {} PROVE box'["head"] = [by |-> m, st |-> "up"]
      BY <3>2, <3>4, <3>6 DEF Spares
    <3>7. ASSUME m \in upAt[j], why[m] = "-", pc[j] = "preflight" \/ remote'[j] # "off" PROVE \E c \in lostTo'[m] : c # j
      BY <2>1, <2>2, <3>2, <3>3, <3>7 DEF Spares
    <3> QED
      BY <2>1, <3>5, <3>6, <3>7 DEF Spares
  <2>10. Stopped'
    BY <2>1, <2>3, <2>4, <1>s, <1>a DEF Stopped, StopsWhereItCould, Exists, Node, Running
  <2> QED
    BY <2>6, <2>7, <2>8, <2>9, <2>10 DEF IInv, Boxes, Spared
<1>21. ASSUME NEW l \in Launches, RemoteRun(l) PROVE IInv'
  <2>1. /\ remote[l] = "run"
        /\ UNCHANGED <<pc, cut, headStarted, missed, why, lostTo, upAt, stop, overlooked>>
    BY <1>21 DEF RemoteRun, Run, Exists, history
  <2>2. \A q \in Launches : remote'[q] = IF q = l THEN "done" ELSE remote[q]
    BY <1>21 DEF RemoteRun, TypeOK
  <2>3. box'["worker"] = [by |-> l, st |-> "loading"]
    BY <1>21 DEF RemoteRun, TypeOK, Run, Exists, Node
  <2>4. \A q \in Node \ {"worker"} : box'[q] = box[q]
    BY <1>21 DEF RemoteRun, TypeOK, Run, Exists, Node
  <2>5. box["worker"].st = "none"
    BY <1>21 DEF RemoteRun, TypeOK, Run, Exists, Node
  <2>6. calm' = FALSE
    BY <1>21 DEF RemoteRun, TypeOK, Run
  <2>7. Boxes'
    BY <2>1, <2>3, <2>4, <2>5, <1>b, <1>n, <1>a DEF Boxes, Node, Absent, Running
  <2>8. ASSUME NEW j \in Launches PROVE Placed(j)'
    <3>1. Placed(j)
      BY <1>j
    <3> QED
      BY <2>1, <2>2, <2>3, <2>4, <2>5, <3>1, <1>n, <1>a DEF Placed, Cleaning, Node
  <2>9. ASSUME NEW j \in Launches PROVE Held(j)'
    <3>1. Placed(j) /\ Held(j)
      BY <1>j
    <3>2. box'["worker"].by = l /\ box'["worker"].st = "loading" /\ box'["head"] = box["head"]
      BY <2>1, <2>2, <2>3, <2>4, <2>5 DEF Node
    <3> QED
      BY <2>1, <2>2, <2>3, <2>4, <2>5, <3>1, <3>2 DEF Placed, Held, Trapped, Running, PortBusy
  <2>10. ASSUME NEW j \in Launches, NEW m \in Launches PROVE Spares(j, m)'
    <3>1. Placed(j) /\ Placed(m) /\ Placed(l)
      BY <1>j
    <3>2. Spares(j, m)
      BY <1>j DEF Spared
    <3> QED
      BY <2>1, <2>2, <2>3, <2>4, <2>5, <3>1, <3>2, <1>n, <1>a DEF Placed, Spares, Node
  <2>11. Stopped'
    BY <2>1, <2>3, <2>4, <2>5, <2>6, <1>s, <1>a DEF Stopped, StopsWhereItCould, Exists, Node, Running
  <2> QED
    BY <2>7, <2>8, <2>9, <2>10, <2>11 DEF IInv, Boxes, Spared
<1>22. ASSUME NEW l \in Launches, RemoteFails(l) PROVE IInv'
  <2>1. /\ remote[l] \in {"remove", "run"}
        /\ UNCHANGED <<box, pc, cut, headStarted, missed, why, lostTo, upAt, stop, overlooked, calm>>
    BY <1>22 DEF RemoteFails, history
  <2>2. \A q \in Launches : remote'[q] = IF q = l THEN "failed" ELSE remote[q]
    BY <1>22 DEF RemoteFails, TypeOK
  <2>3. Boxes'
    BY <2>1, <1>b DEF Boxes, StopsWhereItCould, Exists
  <2>4. ASSUME NEW j \in Launches PROVE Placed(j)'
    <3>1. Placed(j)
      BY <1>j
    <3> QED
      BY <2>1, <2>2, <3>1 DEF Placed, Cleaning
  <2>5. ASSUME NEW j \in Launches PROVE Held(j)'
    <3>1. Placed(j) /\ Held(j)
      BY <1>j
    <3> QED
      BY <2>1, <2>2, <3>1 DEF Placed, Held, Trapped, Running, PortBusy
  <2>6. ASSUME NEW j \in Launches, NEW m \in Launches PROVE Spares(j, m)'
    <3>1. Placed(j) /\ Placed(m) /\ Placed(l)
      BY <1>j
    <3>2. Spares(j, m)
      BY <1>j DEF Spared
    <3> QED
      BY <2>1, <2>2, <3>1, <3>2 DEF Placed, Spares
  <2>7. Stopped'
    BY <2>1, <1>s DEF Stopped, StopsWhereItCould, Exists
  <2> QED
    BY <2>3, <2>4, <2>5, <2>6, <2>7 DEF IInv, Boxes, Spared
<1>23. ASSUME LoadUp PROVE IInv'
  <2>1. /\ box["head"].st = "loading"
        /\ box["worker"].st = "loading"
        /\ UNCHANGED <<pc, remote, cut, headStarted, missed, why, lostTo, upAt, stop, overlooked, calm>>
    BY <1>23 DEF LoadUp, history
  <2>2. \A q \in Node : box'[q] = [by |-> box[q].by, st |-> "up"]
    BY LoadedBox, <1>23 DEF LoadUp, TypeOK, Node
  <2>3. Boxes'
    BY <2>1, <2>2, <1>b, <1>n, <1>a DEF Boxes, Node, Absent, Running
  <2>4. ASSUME NEW j \in Launches PROVE Placed(j)'
    <3>1. Placed(j)
      BY <1>j
    <3> QED
      BY <2>1, <2>2, <3>1, <1>n, <1>a DEF Placed, Cleaning, Node
  <2>5. ASSUME NEW j \in Launches PROVE Held(j)'
    <3>1. Placed(j) /\ Held(j)
      BY <1>j
    <3>2. box'["head"].by = box["head"].by /\ box'["head"].st = "up" /\ box'["worker"].by = box["worker"].by /\ box'["worker"].st = "up"
      BY <2>1, <2>2 DEF Node
    <3> QED
      BY <2>1, <2>2, <3>1, <3>2 DEF Placed, Held, Trapped, Running, PortBusy
  <2>6. ASSUME NEW j \in Launches, NEW m \in Launches PROVE Spares(j, m)'
    <3>1. Placed(j) /\ Placed(m)
      BY <1>j
    <3>2. Spares(j, m)
      BY <1>j DEF Spared
    <3> QED
      BY <2>1, <2>2, <3>1, <3>2, <1>n, <1>a DEF Placed, Spares, Node
  <2>7. Stopped'
    BY <2>1, <2>2, <1>s, <1>a DEF Stopped, StopsWhereItCould, Exists, Node, Running
  <2> QED
    BY <2>3, <2>4, <2>5, <2>6, <2>7 DEF IInv, Boxes, Spared
<1>24. ASSUME NEW n \in Node, Crash(n) PROVE IInv'
  <2>1. /\ Running(n)
        /\ UNCHANGED <<pc, remote, cut, headStarted, missed, why, upAt, stop, overlooked, calm>>
    BY <1>24 DEF Crash, Lose, Exit
  <2>2. \A q \in Node : box'[q] = IF q = n THEN [by |-> box[n].by, st |-> "exited"] ELSE box[q]
    BY ExitBox, <1>24 DEF Crash, TypeOK, Exit
  <2>3. \A m \in Launches : lostTo'[m] = IF box[n].by = m THEN lostTo[m] \cup {"outside"} ELSE lostTo[m]
    BY ExitBox, <1>24 DEF Crash, TypeOK, Lose
  <2>4. Boxes'
    BY <2>1, <2>2, <1>b, <1>n, <1>a DEF Boxes, Node, Absent, Running
  <2>5. ASSUME NEW j \in Launches PROVE Placed(j)'
    <3>1. Placed(j)
      BY <1>j
    <3> QED
      BY <2>1, <2>2, <3>1, <1>n, <1>a DEF Placed, Cleaning, Node
  <2>6. ASSUME NEW j \in Launches PROVE Held(j)'
    <3>1. Placed(j) /\ Held(j)
      BY <1>j
    <3> QED
      BY <2>1, <2>2, <2>3, <3>1, <1>n, <1>a DEF Placed, Held, Trapped, Running, PortBusy, Node
  <2>7. ASSUME NEW j \in Launches, NEW m \in Launches PROVE Spares(j, m)'
    <3>1. Placed(j) /\ Placed(m)
      BY <1>j
    <3>2. Spares(j, m)
      BY <1>j DEF Spared
    <3>3. lostTo[m] \subseteq lostTo'[m] /\ lostTo'[m] \subseteq lostTo[m] \cup {"outside"}
      BY <2>1, <2>2, <2>3
    <3>4. lostTo'[m] = {} => lostTo[m] = {} /\ box[n].by # m
      BY <2>1, <2>2, <2>3, <1>n DEF Node
    <3>5. j \in lostTo'[m] => remote[j] # "off"
      BY <2>1, <2>2, <2>3, <3>1, <3>2, <3>3, <1>n DEF Spares, Placed, Cleaning
    <3>6. ASSUME m \in upAt[j], why[m] = "-", lostTo'[m] = {} PROVE box'["head"] = [by |-> m, st |-> "up"]
      <4>1. box["head"] = [by |-> m, st |-> "up"]
        BY <3>2, <3>4, <3>6 DEF Spares
      <4>2. box["head"].by = m
        BY <4>1
      <4> QED
        BY <2>1, <2>2, <2>3, <4>1, <4>2, <3>1, <3>4, <3>6 DEF Placed, Cleaning, Node
    <3>7. ASSUME m \in upAt[j], why[m] = "-", pc[j] = "preflight" \/ remote[j] # "off" PROVE \E c \in lostTo'[m] : c # j
      BY <3>2, <3>3, <3>7 DEF Spares
    <3> QED
      BY <2>1, <2>2, <2>3, <3>1, <3>5, <3>6, <3>7 DEF Spares, Placed, Cleaning
  <2>8. Stopped'
    BY <2>1, <2>2, <1>s, <1>a DEF Stopped, StopsWhereItCould, Exists, Node, Running
  <2> QED
    BY <2>4, <2>5, <2>6, <2>7, <2>8 DEF IInv, Boxes, Spared
<1>25. ASSUME NEW n \in Node, PeerLost(n) PROVE IInv'
  <2>1. /\ box[n].st = "up"
        /\ UNCHANGED <<pc, remote, cut, headStarted, missed, why, upAt, stop, overlooked, calm>>
    BY <1>25 DEF PeerLost, Lose, Exit
  <2>2. \A q \in Node : box'[q] = IF q = n THEN [by |-> box[n].by, st |-> "exited"] ELSE box[q]
    BY ExitBox, <1>25 DEF PeerLost, TypeOK, Exit
  <2>3. \A m \in Launches : lostTo'[m] = IF box[n].by = m THEN lostTo[m] \cup {"outside"} ELSE lostTo[m]
    BY ExitBox, <1>25 DEF PeerLost, TypeOK, Lose
  <2>4. Boxes'
    BY <2>1, <2>2, <1>b, <1>n, <1>a DEF Boxes, Node, Absent, Running
  <2>5. ASSUME NEW j \in Launches PROVE Placed(j)'
    <3>1. Placed(j)
      BY <1>j
    <3> QED
      BY <2>1, <2>2, <3>1, <1>n, <1>a DEF Placed, Cleaning, Node
  <2>6. ASSUME NEW j \in Launches PROVE Held(j)'
    <3>1. Placed(j) /\ Held(j)
      BY <1>j
    <3> QED
      BY <2>1, <2>2, <2>3, <3>1, <1>n, <1>a DEF Placed, Held, Trapped, Running, PortBusy, Node
  <2>7. ASSUME NEW j \in Launches, NEW m \in Launches PROVE Spares(j, m)'
    <3>1. Placed(j) /\ Placed(m)
      BY <1>j
    <3>2. Spares(j, m)
      BY <1>j DEF Spared
    <3>3. lostTo[m] \subseteq lostTo'[m] /\ lostTo'[m] \subseteq lostTo[m] \cup {"outside"}
      BY <2>1, <2>2, <2>3
    <3>4. lostTo'[m] = {} => lostTo[m] = {} /\ box[n].by # m
      BY <2>1, <2>2, <2>3, <1>n DEF Node
    <3>5. j \in lostTo'[m] => remote[j] # "off"
      BY <2>1, <2>2, <2>3, <3>1, <3>2, <3>3, <1>n DEF Spares, Placed, Cleaning
    <3>6. ASSUME m \in upAt[j], why[m] = "-", lostTo'[m] = {} PROVE box'["head"] = [by |-> m, st |-> "up"]
      <4>1. box["head"] = [by |-> m, st |-> "up"]
        BY <3>2, <3>4, <3>6 DEF Spares
      <4>2. box["head"].by = m
        BY <4>1
      <4> QED
        BY <2>1, <2>2, <2>3, <4>1, <4>2, <3>1, <3>4, <3>6 DEF Placed, Cleaning, Node
    <3>7. ASSUME m \in upAt[j], why[m] = "-", pc[j] = "preflight" \/ remote[j] # "off" PROVE \E c \in lostTo'[m] : c # j
      BY <3>2, <3>3, <3>7 DEF Spares
    <3> QED
      BY <2>1, <2>2, <2>3, <3>1, <3>5, <3>6, <3>7 DEF Spares, Placed, Cleaning
  <2>8. Stopped'
    BY <2>1, <2>2, <1>s, <1>a DEF Stopped, StopsWhereItCould, Exists, Node, Running
  <2> QED
    BY <2>4, <2>5, <2>6, <2>7, <2>8 DEF IInv, Boxes, Spared
<1>26. ASSUME StopLocal PROVE IInv'
  <2>1. /\ stop # "remote"
        /\ UNCHANGED <<pc, remote, cut, headStarted, missed, why, upAt>>
    BY <1>26 DEF StopLocal, Remove
  <2>2. box'["head"] = Absent
    BY <1>26 DEF StopLocal, TypeOK, Remove, Node
  <2>3. \A q \in Node \ {"head"} : box'[q] = box[q]
    BY <1>26 DEF StopLocal, TypeOK, Remove, Node
  <2>4. \A m \in Launches : lostTo'[m] = IF box["head"].by = m /\ m # "outside" THEN lostTo[m] \cup {"outside"} ELSE lostTo[m]
    BY <1>26 DEF StopLocal, TypeOK, Remove
  <2>5. stop' = "remote"
    BY <1>26 DEF StopLocal, TypeOK
  <2>6. Boxes'
    BY <2>1, <2>2, <2>3, <1>b, <1>n, <1>a DEF Boxes, Node, Absent, Running
  <2>7. ASSUME NEW j \in Launches PROVE Placed(j)'
    <3>1. Placed(j)
      BY <1>j
    <3> QED
      BY <2>1, <2>2, <2>3, <3>1, <1>n, <1>a DEF Placed, Cleaning, Node
  <2>8. ASSUME NEW j \in Launches PROVE Held(j)'
    <3>1. Placed(j) /\ Held(j)
      BY <1>j
    <3> QED
      BY <2>1, <2>2, <2>3, <2>4, <3>1, <1>n, <1>a DEF Placed, Held, Trapped, Running, PortBusy, Node
  <2>9. ASSUME NEW j \in Launches, NEW m \in Launches PROVE Spares(j, m)'
    <3>1. Placed(j) /\ Placed(m)
      BY <1>j
    <3>2. Spares(j, m)
      BY <1>j DEF Spared
    <3>3. lostTo[m] \subseteq lostTo'[m] /\ lostTo'[m] \subseteq lostTo[m] \cup {"outside"}
      BY <2>1, <2>2, <2>3, <2>4
    <3>4. lostTo'[m] = {} => lostTo[m] = {} /\ box["head"].by # m
      BY <2>1, <2>2, <2>3, <2>4, <1>n DEF Node
    <3>5. j \in lostTo'[m] => remote[j] # "off"
      BY <2>1, <2>2, <2>3, <2>4, <3>1, <3>2, <3>3, <1>n DEF Spares, Placed, Cleaning
    <3>6. ASSUME m \in upAt[j], why[m] = "-", lostTo'[m] = {} PROVE box'["head"] = [by |-> m, st |-> "up"]
      <4>1. box["head"] = [by |-> m, st |-> "up"]
        BY <3>2, <3>4, <3>6 DEF Spares
      <4>2. box["head"].by = m
        BY <4>1
      <4> QED
        BY <2>1, <2>2, <2>3, <2>4, <4>1, <4>2, <3>1, <3>4, <3>6 DEF Placed, Cleaning, Node
    <3>7. ASSUME m \in upAt[j], why[m] = "-", pc[j] = "preflight" \/ remote[j] # "off" PROVE \E c \in lostTo'[m] : c # j
      BY <3>2, <3>3, <3>7 DEF Spares
    <3> QED
      BY <2>1, <2>2, <2>3, <2>4, <3>1, <3>5, <3>6, <3>7 DEF Spares, Placed, Cleaning
  <2>10. Stopped'
    BY <2>1, <2>2, <2>3, <2>5, <1>s, <1>a DEF Stopped, StopsWhereItCould, Exists, Node, Running
  <2> QED
    BY <2>6, <2>7, <2>8, <2>9, <2>10 DEF IInv, Boxes, Spared
<1>27. ASSUME StopRemote PROVE IInv'
  <2>1. /\ stop = "remote"
        /\ UNCHANGED <<pc, remote, cut, headStarted, missed, why, upAt, overlooked, calm>>
    BY <1>27 DEF StopRemote, Remove
  <2>2. box'["worker"] = Absent
    BY <1>27 DEF StopRemote, TypeOK, Remove, Node
  <2>3. \A q \in Node \ {"worker"} : box'[q] = box[q]
    BY <1>27 DEF StopRemote, TypeOK, Remove, Node
  <2>4. \A m \in Launches : lostTo'[m] = IF box["worker"].by = m /\ m # "outside" THEN lostTo[m] \cup {"outside"} ELSE lostTo[m]
    BY <1>27 DEF StopRemote, TypeOK, Remove
  <2>5. stop' = "done"
    BY <1>27 DEF StopRemote, TypeOK
  <2>6. Boxes'
    BY <2>1, <2>2, <2>3, <1>b, <1>n, <1>a DEF Boxes, Node, Absent, Running
  <2>7. ASSUME NEW j \in Launches PROVE Placed(j)'
    <3>1. Placed(j)
      BY <1>j
    <3> QED
      BY <2>1, <2>2, <2>3, <3>1, <1>n, <1>a DEF Placed, Cleaning, Node
  <2>8. ASSUME NEW j \in Launches PROVE Held(j)'
    <3>1. Placed(j) /\ Held(j)
      BY <1>j
    <3> QED
      BY <2>1, <2>2, <2>3, <2>4, <3>1, <1>n, <1>a DEF Placed, Held, Trapped, Running, PortBusy, Node
  <2>9. ASSUME NEW j \in Launches, NEW m \in Launches PROVE Spares(j, m)'
    <3>1. Placed(j) /\ Placed(m)
      BY <1>j
    <3>2. Spares(j, m)
      BY <1>j DEF Spared
    <3>3. lostTo[m] \subseteq lostTo'[m] /\ lostTo'[m] \subseteq lostTo[m] \cup {"outside"}
      BY <2>1, <2>2, <2>3, <2>4
    <3>4. lostTo'[m] = {} => lostTo[m] = {} /\ box'["head"] = box["head"]
      BY <2>1, <2>2, <2>3, <2>4, <1>n DEF Node
    <3>5. j \in lostTo'[m] => remote[j] # "off"
      BY <2>1, <2>2, <2>3, <2>4, <3>1, <3>2, <3>3, <1>n DEF Spares, Placed, Cleaning
    <3>6. ASSUME m \in upAt[j], why[m] = "-", lostTo'[m] = {} PROVE box'["head"] = [by |-> m, st |-> "up"]
      <4>1. box["head"] = [by |-> m, st |-> "up"]
        BY <3>2, <3>4, <3>6 DEF Spares
      <4>2. box["head"].by = m
        BY <4>1
      <4> QED
        BY <2>1, <2>2, <2>3, <2>4, <4>1, <4>2, <3>1, <3>4, <3>6 DEF Placed, Cleaning, Node
    <3>7. ASSUME m \in upAt[j], why[m] = "-", pc[j] = "preflight" \/ remote[j] # "off" PROVE \E c \in lostTo'[m] : c # j
      BY <3>2, <3>3, <3>7 DEF Spares
    <3> QED
      BY <2>1, <2>2, <2>3, <2>4, <3>1, <3>5, <3>6, <3>7 DEF Spares, Placed, Cleaning
  <2>10. Stopped'
    BY <2>1, <2>2, <2>3, <2>5, <1>s, <1>a DEF Stopped, StopsWhereItCould, Exists, Node, Running
  <2> QED
    BY <2>6, <2>7, <2>8, <2>9, <2>10 DEF IInv, Boxes, Spared
<1>28. ASSUME StopUnreached PROVE IInv'
  <2>1. /\ stop = "remote"
        /\ UNCHANGED <<box, pc, remote, cut, headStarted, missed, why, lostTo, upAt, calm>>
    BY <1>28 DEF StopUnreached, history
  <2>2. stop' = "failed"
    BY <1>28 DEF StopUnreached, TypeOK
  <2>3. Boxes'
    BY <2>1, <1>b DEF Boxes, StopsWhereItCould, Exists
  <2>4. ASSUME NEW j \in Launches PROVE Placed(j)'
    BY <2>1, <1>j DEF Placed, Running, PortBusy, Spares
  <2>5. ASSUME NEW j \in Launches PROVE Held(j)'
    BY <2>1, <1>j DEF Held, Running, PortBusy, Spares
  <2>6. ASSUME NEW j \in Launches PROVE Spared(j)'
    BY <2>1, <1>j DEF Spared, Running, PortBusy, Spares
  <2>7. Stopped'
    BY <2>1, <2>2, <1>s, <1>a DEF Stopped, StopsWhereItCould, Exists, Node, Running
  <2> QED
    BY <2>3, <2>4, <2>5, <2>6, <2>7 DEF IInv, Boxes, Spared
<1>30. ASSUME NEW l \in Launches, HeadUnseen(l) PROVE IInv'
  <2>1. /\ pc[l] = "waitReady"
        /\ UNCHANGED <<box, remote, cut, headStarted, missed, lostTo, upAt, stop, overlooked, calm>>
    BY <1>30 DEF HeadUnseen, Fail, Goto
  <2>2. \A q \in Launches : pc'[q] = IF q = l THEN "cleanWorker" ELSE pc[q]
    BY <1>30 DEF HeadUnseen, TypeOK, Fail, Goto
  <2>3. \A q \in Launches : why'[q] = IF q = l THEN "other" ELSE why[q]
    BY <1>30 DEF HeadUnseen, TypeOK, Fail
  <2>4. Boxes'
    BY <2>1, <1>b DEF Boxes, StopsWhereItCould, Exists
  <2>5. ASSUME NEW j \in Launches PROVE Placed(j)'
    <3>1. Placed(j)
      BY <1>j
    <3> QED
      BY <2>1, <2>2, <2>3, <3>1 DEF Placed, Cleaning
  <2>6. ASSUME NEW j \in Launches PROVE Held(j)'
    <3>1. Placed(j) /\ Held(j)
      BY <1>j
    <3> QED
      BY <2>1, <2>2, <2>3, <3>1 DEF Placed, Held, Trapped, Running, PortBusy
  <2>7. ASSUME NEW j \in Launches, NEW m \in Launches PROVE Spares(j, m)'
    <3>1. Placed(j) /\ Placed(m) /\ Placed(l)
      BY <1>j
    <3>2. Spares(j, m)
      BY <1>j DEF Spared
    <3> QED
      BY <2>1, <2>2, <2>3, <3>1, <3>2 DEF Placed, Spares
  <2>8. Stopped'
    BY <2>1, <1>s DEF Stopped, StopsWhereItCould, Exists
  <2> QED
    BY <2>4, <2>5, <2>6, <2>7, <2>8 DEF IInv, Boxes, Spared
<1>31. ASSUME NEW l \in Launches, CleanHeadFails(l) PROVE IInv'
  <2>1. /\ pc[l] = "cleanHead"
        /\ UNCHANGED <<box, remote, cut, headStarted, why, lostTo, upAt, stop, overlooked, calm>>
    BY <1>31 DEF CleanHeadFails, Goto, history
  <2>2. \A q \in Launches : pc'[q] = IF q = l THEN "failed" ELSE pc[q]
    BY <1>31 DEF CleanHeadFails, TypeOK, Goto
  <2>8. missed' = missed \cup {<<l, "head">>}
    BY <1>31 DEF CleanHeadFails
  <2>3. Boxes'
    BY <2>1, <1>b DEF Boxes, StopsWhereItCould, Exists
  <2>4. ASSUME NEW j \in Launches PROVE Placed(j)'
    <3>1. Placed(j)
      BY <1>j
    <3> QED
      BY <2>1, <2>2, <2>8, <3>1 DEF Placed, Cleaning
  <2>5. ASSUME NEW j \in Launches PROVE Held(j)'
    <3>1. Placed(j) /\ Held(j)
      BY <1>j
    <3> QED
      BY <2>1, <2>2, <3>1 DEF Placed, Held, Trapped, Running, PortBusy
  <2>6. ASSUME NEW j \in Launches, NEW m \in Launches PROVE Spares(j, m)'
    <3>1. Placed(j) /\ Placed(m) /\ Placed(l)
      BY <1>j
    <3>2. Spares(j, m)
      BY <1>j DEF Spared
    <3> QED
      BY <2>1, <2>2, <3>1, <3>2 DEF Placed, Spares
  <2>7. Stopped'
    BY <2>1, <1>s DEF Stopped, StopsWhereItCould, Exists
  <2> QED
    BY <2>3, <2>4, <2>5, <2>6, <2>7 DEF IInv, Boxes, Spared
<1>32. ASSUME StopLocalFails PROVE IInv'
  <2>1. /\ stop # "remote"
        /\ UNCHANGED <<box, pc, remote, cut, headStarted, missed, why, lostTo, upAt>>
    BY <1>32 DEF StopLocalFails, history
  <2>2. \/ stop' = "failed"
        \/ stop' = "remote" /\ overlooked' = {"head"}
    BY <1>32 DEF StopLocalFails, TypeOK
  <2>3. Boxes'
    BY <2>1, <1>b DEF Boxes, StopsWhereItCould, Exists
  <2>4. ASSUME NEW j \in Launches PROVE Placed(j)'
    BY <2>1, <1>j DEF Placed, Running, PortBusy, Spares
  <2>5. ASSUME NEW j \in Launches PROVE Held(j)'
    BY <2>1, <1>j DEF Held, Running, PortBusy, Spares
  <2>6. ASSUME NEW j \in Launches PROVE Spared(j)'
    BY <2>1, <1>j DEF Spared, Running, PortBusy, Spares
  <2>7. Stopped'
    BY <2>1, <2>2, <1>s, <1>a DEF Stopped, StopsWhereItCould, Exists, Node, Running
  <2> QED
    BY <2>3, <2>4, <2>5, <2>6, <2>7 DEF IInv, Boxes, Spared
<1>33. ASSUME StopRemoteFails PROVE IInv'
  <2>1. /\ stop = "remote"
        /\ UNCHANGED <<box, pc, remote, cut, headStarted, missed, why, lostTo, upAt, calm>>
    BY <1>33 DEF StopRemoteFails, history
  <2>2. stop' = "done" /\ overlooked' = overlooked \cup {"worker"}
    BY <1>33 DEF StopRemoteFails, TypeOK
  <2>3. Boxes'
    BY <2>1, <1>b DEF Boxes, StopsWhereItCould, Exists
  <2>4. ASSUME NEW j \in Launches PROVE Placed(j)'
    BY <2>1, <1>j DEF Placed, Running, PortBusy, Spares
  <2>5. ASSUME NEW j \in Launches PROVE Held(j)'
    BY <2>1, <1>j DEF Held, Running, PortBusy, Spares
  <2>6. ASSUME NEW j \in Launches PROVE Spared(j)'
    BY <2>1, <1>j DEF Spared, Running, PortBusy, Spares
  <2>7. Stopped'
    BY <2>1, <2>2, <1>s, <1>a DEF Stopped, StopsWhereItCould, Exists, Node, Running
  <2> QED
    BY <2>3, <2>4, <2>5, <2>6, <2>7 DEF IInv, Boxes, Spared
<1>29. CASE UNCHANGED vars
  <2>1. UNCHANGED <<box, pc, remote, cut, headStarted, missed, why, lostTo, upAt, stop, overlooked, calm>>
    BY <1>29 DEF vars
  <2>2. Boxes'
    BY <2>1, <1>b DEF Boxes
  <2>3. Stopped'
    BY <2>1, <1>s DEF Stopped, StopsWhereItCould, Exists
  <2>4. ASSUME NEW j \in Launches PROVE Placed(j)' /\ Held(j)' /\ Spared(j)'
    <3>1. Placed(j)'
      BY <2>1, <1>j DEF Placed
    <3>2. Held(j)'
      BY <2>1, <1>j DEF Held, Running, PortBusy
    <3>3. Spared(j)'
      BY <2>1, <1>j DEF Spared, Spares
    <3> QED
      BY <3>1, <3>2, <3>3
  <2> QED
    BY <2>2, <2>3, <2>4 DEF IInv, Boxes
<1> QED
  BY <1>1, <1>2, <1>3, <1>4, <1>5, <1>6, <1>7, <1>8, <1>9, <1>10, <1>11, <1>12, <1>13, <1>14, <1>15, <1>16, <1>17, <1>18, <1>19, <1>20, <1>21, <1>22, <1>23, <1>24, <1>25, <1>26, <1>27, <1>28, <1>29, <1>30, <1>31, <1>32, <1>33 DEF Next, LaunchStep, RemoteStep

(* The types of Launch's variables, for any number of launches and troubles. *)
THEOREM TypeCorrect == Spec => []TypeOK
<1>1. Init => TypeOK
  BY LaunchAssumption DEF Init, TypeOK, Owner, State, Absent
<1> QED
  BY <1>1, TypeStep, PTL DEF Spec

LEMMA InitInv == Init => IInv
<1> SUFFICES ASSUME Init PROVE IInv
  OBVIOUS
<1>1. \A n \in Node : box[n] = Absent
  BY DEF Init
<1>2. Absent.by = Nobody /\ Absent.st = "none"
  BY DEF Absent
<1>3. \A l \in Launches : l # Nobody
  BY LaunchAssumption
<1>4. "head" \in Node /\ "worker" \in Node
  BY DEF Node
<1>5. ASSUME NEW l \in Launches PROVE Placed(l)
  BY <1>1, <1>2, <1>3, <1>4 DEF Init, Placed, Cleaning
<1>6. ASSUME NEW l \in Launches PROVE Held(l)
  BY DEF Init, Held, Trapped
<1>7. ASSUME NEW l \in Launches, NEW m \in Launches PROVE Spares(l, m)
  BY DEF Init, Spares
<1>8. Stopped
  BY DEF Init, Stopped, StopsWhereItCould
<1> QED
  BY <1>1, <1>2, <1>5, <1>6, <1>7, <1>8 DEF IInv, Spared

(* The inductive invariant holds in every reachable state. *)
THEOREM LaunchInv == Spec => []IInv
<1> QED
  BY TypeCorrect, InitInv, InvStep, PTL DEF Spec

(* A launch that failed leaves no container of its own (run.sh:586-607). *)
THEOREM CleanUp == Spec => []FailureLeavesNothing
<1>1. IInv => FailureLeavesNothing
  BY DEF IInv, Placed, FailureLeavesNothing, Node
<1> QED
  BY <1>1, LaunchInv, PTL

(* Only a container that is lost ends a launch that waits for it (run.sh:553). *)
THEOREM NoFalseTearDown == Spec => []TearDownHasCause
<1>1. IInv => TearDownHasCause
  BY DEF IInv, Held, TearDownHasCause
<1> QED
  BY <1>1, LaunchInv, PTL

(* A launch that is ready, and lost nothing, serves with both its own ranks. *)
THEOREM ReadyIsItsOwn == Spec => []ReadyServesItself
<1>1. TypeOK /\ IInv => ReadyServesItself
  <2> SUFFICES ASSUME TypeOK, IInv, NEW l \in Launches, pc[l] = "ready", lostTo[l] = {}, NEW n \in Node
               PROVE  box[n] = [by |-> l, st |-> "up"]
    BY DEF ReadyServesItself
  <2>1. Placed(l) /\ Held(l)
    BY DEF IInv
  <2>2. box[n].by = l /\ box[n].st = "up"
    BY <2>1 DEF Placed, Held, PortBusy, Node
  <2>3. box[n] \in [by : Owner, st : State]
    BY DEF TypeOK
  <2> QED
    BY <2>2, <2>3
<1> QED
  BY <1>1, TypeCorrect, LaunchInv, PTL

(* A launch takes no container from a serve that was up when it was called,
   before something else has (run.sh:384-390, 706-707). *)
THEOREM ServeSpared == Spec => []UpServeSpared
<1>1. IInv => UpServeSpared
  <2> SUFFICES ASSUME IInv, NEW l \in Launches, NEW m \in Launches, m \in upAt[l], why[m] = "-", lostTo[m] = {l}
               PROVE  FALSE
    BY DEF UpServeSpared
  <2>1. Spares(l, m)
    BY DEF IInv, Spared
  <2> QED
    BY <2>1 DEF Spares
<1> QED
  BY <1>1, LaunchInv, PTL

(* stop.sh that ends well has cleared the nodes whose docker did not fail
   unnoticed (stop.sh:13-43). *)
THEOREM StopWorks == Spec => []StopsWhereItCould
<1>1. IInv => StopsWhereItCould
  BY DEF IInv, Stopped
<1> QED
  BY <1>1, LaunchInv, PTL
==============================================================================
