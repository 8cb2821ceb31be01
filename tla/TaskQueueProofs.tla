--------------------------- MODULE TaskQueueProofs ---------------------------
(***************************************************************************)
(* The task queue for any set of tasks, any bound on the calls of a        *)
(* handler and on the changes of the implementation: where a task is, when *)
(* its handler and its callback run, and what a wait may leave behind.     *)
(***************************************************************************)
EXTENDS TaskQueue, SequenceTheorems, TLAPS

-----------------------------------------------------------------------------
(* Lists.                                                                  *)

\* task_queue_put: the task comes last, and the first stays first.
LEMMA PutFacts ==
  ASSUME NEW q \in Seq(Tasks), IsInjective(q), NEW t \in Tasks, t \notin ToSet(q)
  PROVE  /\ Append(q, t) \in Seq(Tasks) /\ Append(q, t) /= << >>
         /\ ToSet(Append(q, t)) = ToSet(q) \cup {t}
         /\ IsInjective(Append(q, t))
         /\ q /= << >> => Head(Append(q, t)) = Head(q)
<1> DEFINE r == Append(q, t)
<1>1. /\ r \in Seq(Tasks) /\ r /= << >>
      /\ DOMAIN r = 1 .. Len(q) + 1 /\ DOMAIN q = 1 .. Len(q) /\ Len(q) \in Nat
      /\ \A i \in 1 .. Len(q) : r[i] = q[i]
      /\ r[Len(q) + 1] = t
      /\ q /= << >> => Head(r) = Head(q)
  BY SMTT(20)
<1> HIDE DEF r
<1>2. ToSet(r) = ToSet(q) \cup {t}
  BY <1>1 DEF ToSet
<1>3. IsInjective(r)
  BY <1>1 DEF IsInjective, ToSet
<1> QED
  BY <1>1, <1>2, <1>3 DEF r

\* task_queue_get: the first task is taken, and it is there no longer.
LEMMA GetFacts ==
  ASSUME NEW q \in Seq(Tasks), IsInjective(q), q /= << >>
  PROVE  /\ Head(q) \in Tasks /\ Head(q) \in ToSet(q)
         /\ Tail(q) \in Seq(Tasks)
         /\ ToSet(Tail(q)) = ToSet(q) \ {Head(q)}
         /\ IsInjective(Tail(q))
<1> DEFINE r == Tail(q)
<1>1. /\ r \in Seq(Tasks)
      /\ DOMAIN r = 1 .. Len(q) - 1 /\ DOMAIN q = 1 .. Len(q) /\ Len(q) \in Nat /\ Len(q) >= 1
      /\ \A i \in 1 .. Len(q) - 1 : r[i] = q[i + 1]
      /\ Head(q) = q[1] /\ Head(q) \in Tasks
  OBVIOUS
<1> HIDE DEF r
<1>2. ToSet(r) = ToSet(q) \ {Head(q)}
  <2>1. ASSUME NEW x \in ToSet(r)
        PROVE  x \in ToSet(q) /\ x /= Head(q)
    <3>1. PICK i \in 1 .. Len(q) - 1 : x = r[i]
      BY <1>1 DEF ToSet
    <3>2. x = q[i + 1] /\ i + 1 \in DOMAIN q /\ i + 1 /= 1 /\ 1 \in DOMAIN q
      BY <1>1, <3>1
    <3> QED
      BY <1>1, <3>2 DEF ToSet, IsInjective
  <2>2. ASSUME NEW x \in ToSet(q), x /= Head(q)
        PROVE  x \in ToSet(r)
    <3>1. PICK i \in 1 .. Len(q) : x = q[i]
      BY <1>1 DEF ToSet
    <3>2. i - 1 \in 1 .. Len(q) - 1 /\ (i - 1) + 1 = i
      BY <1>1, <2>2, <3>1
    <3>3. r[i - 1] = x /\ i - 1 \in DOMAIN r
      BY <1>1, <3>1, <3>2
    <3> QED
      BY <3>3 DEF ToSet
  <2> QED
    BY <2>1, <2>2
<1>3. IsInjective(r)
  <2> SUFFICES ASSUME NEW i \in 1 .. Len(q) - 1, NEW j \in 1 .. Len(q) - 1, r[i] = r[j]
               PROVE  i = j
    BY <1>1 DEF IsInjective
  <2>1. q[i + 1] = q[j + 1] /\ i + 1 \in DOMAIN q /\ j + 1 \in DOMAIN q
    BY <1>1
  <2>2. i + 1 = j + 1
    BY <2>1 DEF IsInjective
  <2> QED
    BY <2>2
<1>4. Head(q) \in ToSet(q)
  BY <1>1 DEF ToSet
<1> QED
  BY <1>1, <1>2, <1>3, <1>4 DEF r

\* task_queue_remove of the first task only advances the front.
LEMMA WithoutHead ==
  ASSUME NEW q \in Seq(Tasks), IsInjective(q), q /= << >>
  PROVE  Without(q, Head(q)) = Tail(q)
<1>1. 1 \in DOMAIN q /\ q[1] = Head(q)
  OBVIOUS
<1> DEFINE p == CHOOSE i \in DOMAIN q : q[i] = Head(q)
<1>2. p = 1
  BY <1>1 DEF IsInjective
<1>3. Without(q, Head(q)) = RemoveAt(q, 1)
  BY <1>1, <1>2 DEF Without
<1> DEFINE a == SubSeq(q, 1, 1 - 1)
           b == SubSeq(q, 1 + 1, Len(q))
<1>4. a = << >> /\ b = Tail(q) /\ b \in Seq(Tasks)
  OBVIOUS
<1>5. << >> \o Tail(q) = Tail(q)
  OBVIOUS
<1> QED
  BY <1>3, <1>4, <1>5 DEF RemoveAt

\* Turned round, a list holds the same tasks, each once.
LEMMA ReverseFacts ==
  ASSUME NEW q \in Seq(Tasks), IsInjective(q)
  PROVE  /\ Reverse(q) \in Seq(Tasks)
         /\ ToSet(Reverse(q)) = ToSet(q)
         /\ IsInjective(Reverse(q))
<1> DEFINE r == Reverse(q)
<1>1. /\ r \in Seq(Tasks)
      /\ DOMAIN r = 1 .. Len(q) /\ DOMAIN q = 1 .. Len(q) /\ Len(q) \in Nat
      /\ \A i \in 1 .. Len(q) : r[i] = q[(Len(q) - i) + 1]
  BY DEF Reverse
<1> HIDE DEF r
<1>2. \A i \in 1 .. Len(q) : (Len(q) - i) + 1 \in 1 .. Len(q) /\ (Len(q) - ((Len(q) - i) + 1)) + 1 = i
  BY <1>1
<1>3. ToSet(r) = ToSet(q)
  <2>1. ASSUME NEW x \in ToSet(q)
        PROVE  x \in ToSet(r)
    <3>1. PICK i \in 1 .. Len(q) : x = q[i]
      BY <1>1 DEF ToSet
    <3>2. r[(Len(q) - i) + 1] = x
      BY <1>1, <1>2, <3>1
    <3> QED
      BY <1>1, <1>2, <3>2 DEF ToSet
  <2> QED
    BY <1>1, <1>2, <2>1 DEF ToSet
<1>4. IsInjective(r)
  <2> SUFFICES ASSUME NEW i \in 1 .. Len(q), NEW j \in 1 .. Len(q), r[i] = r[j]
               PROVE  i = j
    BY <1>1 DEF IsInjective
  <2>1. (Len(q) - i) + 1 = (Len(q) - j) + 1
    BY <1>1, <1>2 DEF IsInjective
  <2> QED
    BY <1>1, <2>1
<1> QED
  BY <1>1, <1>3, <1>4 DEF r

-----------------------------------------------------------------------------
(* The inductive invariant.                                                *)

Working == {"handle", "finish", "read", "remove"}
Holding == {"putRunning", "putFinished"}

\* There is a worker while the threaded implementation is the current one;
\* only the regular gather has a list of its own; a task is pushed once.
ImplInv ==
  /\ impl = "threaded" <=> wpc /= "none"
  /\ mpc = "start" => impl = "none"
  /\ after = "start" => mpc \in {"join", "start"}
  /\ mpc = "handlers" => impl = "regular"
  /\ gathering /= << >> => mpc = "handlers"
  /\ mpc = "push" => arg \in Tasks \ pushed

\* The task the worker is at is the first of tasks_running, or in its hand.
CurInv ==
  /\ wpc \in Working => running /= << >> /\ Head(running) = cur
  /\ wpc \in Holding => cur \in Tasks
  /\ wpc \notin Working \cup Holding => cur = NoTask

\* A task that has reported its end is on its way to tasks_finished.
EndInv ==
  /\ \A t \in ToSet(running) \cup ToSet(gathering) : isFinished[t] => t = cur /\ wpc \in {"read", "remove"}
  /\ \A t \in ToSet(finished) \cup done : isFinished[t]
  /\ \A t \in Tasks \ pushed : ~isFinished[t]
  /\ wpc = "remove" => (fin <=> isFinished[cur])
  /\ wpc = "putFinished" => isFinished[cur]
  /\ wpc = "putRunning" => ~isFinished[cur]

\* A handler that may be called again has calls left.
CallInv ==
  \A t \in Tasks : isFinished[t] \/ (cur = t /\ wpc = "finish") \/ calls[t] < MaxCalls

Inv == TypeOK /\ ImplInv /\ CurInv /\ OnePlace /\ EndInv /\ CallInv

\* The steps that move no task and run no handler.
Quiet ==
  /\ UNCHANGED <<queueVars, isFinished, calls, pushed, done, cur, fin>>
  /\ wpc' = wpc \/ {wpc, wpc'} \cap (Working \cup Holding) = {}

\* Every other step is quiet.
LEMMA StepKinds ==
  ASSUME Inv, [Next]_vars
  PROVE  \/ WorkerTakes \/ WorkerHandles \/ WorkerFinishes \/ WorkerReadsFinished
         \/ WorkerRemoves \/ WorkerPutsRunning \/ WorkerPutsFinished
         \/ PushRunning \/ Callback \/ RegularTakesAll \/ RegularHandles
         \/ Quiet
<1> USE DEF Working, Holding, queueVars, taskVars, implVars, workerVars, mainVars, lockVars
<1>1. CASE WorkerTop \/ WorkerSleeps \/ SpuriousWakeup
  BY <1>1 DEF WorkerTop, WorkerSleeps, SpuriousWakeup, Quiet
<1>2. ASSUME NEW t \in Tasks, Push(t) \/ Cancel(t)
      PROVE  Quiet
  BY <1>2 DEF Push, Cancel, Quiet
<1>3. CASE Reset \/ Wait \/ WaitTests \/ LockProperty \/ LockFinished \/ EndGather \/ RegularGathered
  BY <1>3 DEF Reset, Wait, WaitTests, LockProperty, LockFinished, EndGather, RegularGathered, Quiet
<1>4. ASSUME NEW then, StopThreaded(then)
      PROVE  Quiet
  BY <1>4 DEF StopThreaded, Signalled, Quiet
<1>5. ASSUME NEW on \in BOOLEAN, Start(on), impl /= "threaded",
             UNCHANGED <<queueVars, taskVars>>
      PROVE  Quiet
  BY <1>5 DEF Start, Quiet, Inv, ImplInv
<1>6. threaded \in BOOLEAN
  BY DEF Inv, TypeOK
<1>7. CASE Deinit
  BY <1>4, <1>7 DEF Deinit, Quiet
<1>8. CASE Check
  BY <1>4, <1>5, <1>6, <1>8 DEF Check, Quiet
<1>9. CASE CheckStarts
  BY <1>5, <1>6, <1>9 DEF CheckStarts, Inv, ImplInv
<1>10. ASSUME NEW on \in BOOLEAN, SetThreaded(on) \/ InitQueue(on)
       PROVE  Quiet
  BY <1>5, <1>10 DEF SetThreaded, InitQueue, Quiet
<1>11. CASE Joined
  BY <1>11 DEF Joined, Quiet
<1>12. CASE UNCHANGED vars
  BY <1>12 DEF vars, Quiet
<1> QED
  BY <1>1, <1>2, <1>3, <1>7, <1>8, <1>9, <1>10, <1>11, <1>12 DEF Next, WorkerStep, MainStep

\* What is in the hand of the worker.
LEMMA HandIs ==
  ASSUME wpc \in Holding => cur \in Tasks
  PROVE  Hand = IF wpc \in Holding THEN {cur} ELSE {}
BY DEF Hand, InHand, Holding

\* The first task of a list, seen from OnePlace.
LEMMA CurIsSomewhere ==
  ASSUME Inv, cur /= NoTask
  PROVE  cur \in Tasks /\ cur \in ToSet(running) \cup Hand
<1>1. wpc \in Working \cup Holding
  BY DEF Inv, CurInv
<1>2. CASE wpc \in Working
  BY <1>2, GetFacts DEF Inv, CurInv, TypeOK, OnePlace
<1>3. CASE wpc \in Holding
  BY <1>3, HandIs DEF Inv, CurInv
<1> QED
  BY <1>1, <1>2, <1>3

\* A task not pushed yet is in no list, and the worker is not at it.
LEMMA NewIsNowhere ==
  ASSUME Inv, NEW t \in Tasks \ pushed
  PROVE  t \notin ToSet(running) \cup ToSet(finished) \cup ToSet(gathering) \cup Hand \cup done /\ t /= cur
<1>1. t \notin ToSet(running) \cup ToSet(finished) \cup ToSet(gathering) \cup Hand
  BY DEF Inv, OnePlace
<1>2. t \notin done
  BY DEF Inv, EndInv
<1> QED
  BY <1>1, <1>2, CurIsSomewhere, TasksAssumption

\* Types and the bound on the calls.
LEMMA TypeStep ==
  ASSUME Inv, [Next]_vars
  PROVE  TypeOK'
<1> USE TasksAssumption, CallsAssumption DEF Inv, TypeOK, queueVars, taskVars, implVars, workerVars, mainVars, lockVars
<1>1. CASE WorkerTop \/ WorkerSleeps \/ SpuriousWakeup
  BY <1>1 DEF WorkerTop, WorkerSleeps, SpuriousWakeup
<1>2. CASE WorkerTakes
  BY <1>2, GetFacts DEF WorkerTakes, OnePlace
<1>3. CASE WorkerHandles
  <2>1. cur \in Tasks /\ calls[cur] < MaxCalls
    <3>1. cur \in ToSet(running) /\ cur \in Tasks
      BY <1>3, GetFacts DEF WorkerHandles, CurInv, Working, OnePlace
    <3>2. ~isFinished[cur]
      BY <1>3, <3>1 DEF WorkerHandles, EndInv
    <3> QED
      BY <1>3, <3>1, <3>2 DEF WorkerHandles, CallInv
  <2>2. calls' \in [Tasks -> 0 .. MaxCalls]
    BY <1>3, <2>1 DEF WorkerHandles
  <2> QED
    BY <1>3, <2>2 DEF WorkerHandles
<1>4. CASE WorkerFinishes \/ WorkerReadsFinished
  <2>1. cur \in Tasks
    BY <1>4, GetFacts DEF WorkerFinishes, WorkerReadsFinished, CurInv, Working, OnePlace
  <2>2. CASE WorkerFinishes
    BY <2>1, <2>2 DEF WorkerFinishes
  <2>3. CASE WorkerReadsFinished
    <3>1. fin' \in BOOLEAN
      BY <2>1, <2>3 DEF WorkerReadsFinished
    <3> QED
      BY <2>3, <3>1 DEF WorkerReadsFinished
  <2> QED
    BY <1>4, <2>2, <2>3
<1>5. CASE WorkerRemoves
  <2>1. running' = Tail(running) /\ running /= << >>
    BY <1>5, WithoutHead DEF WorkerRemoves, CurInv, Working, OnePlace
  <2>2. running' \in Seq(Tasks)
    BY <2>1
  <2> QED
    BY <1>5, <2>2 DEF WorkerRemoves
<1>6. CASE WorkerPutsRunning \/ WorkerPutsFinished
  <2>1. cur \in Tasks
    BY <1>6 DEF WorkerPutsRunning, WorkerPutsFinished, CurInv, Holding
  <2>2. Append(running, cur) \in Seq(Tasks) /\ Append(finished, cur) \in Seq(Tasks)
    BY <2>1
  <2>3. running' \in Seq(Tasks) /\ finished' \in Seq(Tasks) /\ wpc' = "top" /\ cur' = NoTask
    BY <1>6, <2>2 DEF WorkerPutsRunning, WorkerPutsFinished
  <2>4. UNCHANGED <<gathering, taskVars, implVars, workerContinue, fin, mainVars>>
    BY <1>6 DEF WorkerPutsRunning, WorkerPutsFinished
  <2> QED
    BY <2>3, <2>4
<1>7. ASSUME NEW t \in Tasks, Push(t) \/ Cancel(t)
      PROVE  TypeOK'
  <2>1. CASE Push(t)
    BY <2>1 DEF Push
  <2>2. CASE Cancel(t)
    BY <2>2 DEF Cancel
  <2> QED
    BY <1>7, <2>1, <2>2
<1>8. CASE PushRunning
  <2>1. running' \in Seq(Tasks) /\ pushed' \subseteq Tasks
    BY <1>8 DEF PushRunning, ImplInv
  <2> QED
    BY <1>8, <2>1 DEF PushRunning, Signalled
<1>9. CASE Reset
  <2>1. cancelled' \in [Tasks -> BOOLEAN]
    BY <1>9 DEF Reset
  <2> QED
    BY <1>9, <2>1 DEF Reset
<1>21. CASE Wait \/ WaitTests \/ LockProperty \/ LockFinished \/ EndGather \/ RegularGathered
  <2>1. /\ mpc' \in {"gather", "test", "idle", "lockFinished", "callbacks"} \cup {after}
        /\ after' \in {after, "test"}
        /\ propertyHeld' \in {propertyHeld, TRUE, FALSE} /\ finishedHeld' \in {finishedHeld, TRUE, FALSE}
        /\ UNCHANGED <<queueVars, taskVars, implVars, workerVars, arg>>
    BY <1>21 DEF Wait, WaitTests, LockProperty, LockFinished, EndGather, RegularGathered
  <2>2. /\ mpc' \in {"idle", "start", "gather", "test", "lockFinished", "callbacks"}
        /\ after' \in {"idle", "start", "test"}
    BY <2>1
  <2>3. propertyHeld' \in BOOLEAN /\ finishedHeld' \in BOOLEAN
    BY <2>1
  <2> QED
    BY <2>1, <2>2, <2>3
<1>10. CASE Callback
  <2>1. finished' \in Seq(Tasks) /\ done' \subseteq Tasks
    BY <1>10, GetFacts DEF Callback, OnePlace
  <2>2. CASE UNCHANGED <<running, pushed, wpc>>
    BY <1>10, <2>1, <2>2 DEF Callback
  <2>3. ASSUME NEW t \in Tasks, running' = Append(running, t), pushed' = pushed \cup {t}, wpc' = Signalled
        PROVE  TypeOK'
    <3>1. running' \in Seq(Tasks)
      BY <2>3
    <3> QED
      BY <1>10, <2>1, <2>3, <3>1 DEF Callback, Signalled
  <2> QED
    BY <1>10, <2>2, <2>3 DEF Callback
<1>11. CASE RegularTakesAll
  <2>1. gathering' \in Seq(Tasks) /\ running' \in Seq(Tasks)
    BY <1>11, ReverseFacts DEF RegularTakesAll, OnePlace
  <2> QED
    BY <1>11, <2>1 DEF RegularTakesAll
<1>12. CASE RegularHandles
  <2> DEFINE t == Head(gathering)
  <2>1. t \in Tasks /\ t \in ToSet(gathering) /\ gathering' \in Seq(Tasks)
    BY <1>12, GetFacts DEF RegularHandles, OnePlace
  <2>2. calls[t] < MaxCalls
    BY <1>12, <2>1 DEF RegularHandles, ImplInv, EndInv, CallInv
  <2>3. calls' \in [Tasks -> 0 .. MaxCalls] /\ isFinished' \in [Tasks -> BOOLEAN]
    BY <1>12, <2>1, <2>2, SMTT(20) DEF RegularHandles, Ends
  <2>4. running' \in Seq(Tasks) /\ finished' \in Seq(Tasks)
    <3>1. Append(running, t) \in Seq(Tasks) /\ Append(finished, t) \in Seq(Tasks)
      BY <2>1
    <3>2. running' \in {running, Append(running, t)} /\ finished' \in {finished, Append(finished, t)}
      BY <1>12 DEF RegularHandles
    <3> QED
      BY <3>1, <3>2
  <2>5. UNCHANGED <<cancelled, pushed, done, implVars, workerVars, mainVars>>
    BY <1>12 DEF RegularHandles
  <2> QED
    BY <2>1, <2>3, <2>4, <2>5, SMTT(20)
<1>13. ASSUME NEW on \in BOOLEAN, Start(on)
       PROVE  /\ switches' \in 0 .. MaxSwitches /\ impl' \in {"none", "regular", "threaded"}
              /\ workerContinue' \in BOOLEAN /\ (wpc' = wpc \/ wpc' = "top") /\ UNCHANGED <<cur, fin>>
  <2>1. switches' \in 0 .. MaxSwitches
    BY <1>13 DEF Start
  <2>2. CASE on
    BY <1>13, <2>1, <2>2 DEF Start
  <2>3. CASE ~on
    BY <1>13, <2>1, <2>3 DEF Start
  <2> QED
    BY <2>2, <2>3
<1>14. ASSUME NEW then \in {"idle", "start"}, StopThreaded(then)
       PROVE  TypeOK'
  BY <1>14 DEF StopThreaded, Signalled
<1>15. CASE Deinit
  <2>1. CASE StopThreaded("idle")
    BY <1>14, <2>1
  <2>2. CASE StopRegular /\ UNCHANGED <<queueVars, taskVars, workerVars, mainVars>>
    BY <2>2 DEF StopRegular
  <2> QED
    BY <1>15, <2>1, <2>2 DEF Deinit
<1>16. CASE Check
  <2>1. CASE StopThreaded("start")
    BY <1>14, <2>1
  <2>2. CASE /\ mpc' = "gather" /\ after' = "idle"
             /\ UNCHANGED <<queueVars, taskVars, implVars, workerVars, arg, lockVars>>
    BY <2>2
  <2>3. CASE /\ Start(threaded) /\ mpc' = "gather" /\ after' = "idle"
             /\ UNCHANGED <<queueVars, taskVars, threaded, arg, lockVars>>
    BY <1>13, <2>3
  <2> QED
    BY <1>16, <2>1, <2>2, <2>3 DEF Check
<1>17. CASE CheckStarts
  BY <1>13, <1>17 DEF CheckStarts
<1>18. ASSUME NEW on \in BOOLEAN, SetThreaded(on) \/ InitQueue(on)
       PROVE  TypeOK'
  BY <1>13, <1>18 DEF SetThreaded, InitQueue
<1>19. CASE Joined
  BY <1>19 DEF Joined
<1>20. CASE UNCHANGED vars
  BY <1>20 DEF vars
<1> QED
  BY <1>1, <1>2, <1>3, <1>4, <1>5, <1>6, <1>7, <1>8, <1>9, <1>10, <1>11, <1>12, <1>15, <1>16,
     <1>17, <1>18, <1>19, <1>20, <1>21 DEF Next, WorkerStep, MainStep

\* Who works, with which implementation.
LEMMA ImplStep ==
  ASSUME Inv, [Next]_vars
  PROVE  ImplInv'
<1> USE DEF Inv, ImplInv, queueVars, taskVars, implVars, workerVars, mainVars, lockVars
<1>1. CASE WorkerStep \/ SpuriousWakeup
  BY <1>1 DEF WorkerStep, SpuriousWakeup, WorkerTop, WorkerSleeps, WorkerTakes, WorkerHandles, WorkerFinishes,
              WorkerReadsFinished, WorkerRemoves, WorkerPutsRunning, WorkerPutsFinished
<1>2. ASSUME NEW t \in Tasks, Push(t) \/ Cancel(t)
      PROVE  ImplInv'
  BY <1>2 DEF Push, Cancel
<1>3. CASE PushRunning \/ Callback \/ Reset \/ Wait \/ WaitTests \/ LockProperty \/ LockFinished \/ EndGather
  BY <1>3 DEF PushRunning, Callback, Reset, Wait, WaitTests, LockProperty, LockFinished, EndGather, Signalled,
              TypeOK
<1>4. CASE RegularTakesAll \/ RegularHandles \/ RegularGathered
  BY <1>4 DEF RegularTakesAll, RegularHandles, RegularGathered
<1>5. ASSUME NEW on \in BOOLEAN, Start(on), impl /= "threaded"
      PROVE  impl' = "threaded" <=> wpc' /= "none"
  BY <1>5 DEF Start
<1>6. ASSUME NEW then, mpc = "idle", StopThreaded(then)
      PROVE  ImplInv'
  BY <1>6 DEF StopThreaded, Signalled
<1>7. threaded \in BOOLEAN
  BY DEF TypeOK
<1>8. CASE Deinit
  BY <1>6, <1>8 DEF Deinit, StopRegular
<1>9. CASE Check
  BY <1>5, <1>6, <1>7, <1>9 DEF Check
<1>10. CASE CheckStarts
  BY <1>5, <1>7, <1>10 DEF CheckStarts
<1>11. ASSUME NEW on \in BOOLEAN, SetThreaded(on) \/ InitQueue(on)
       PROVE  ImplInv'
  BY <1>5, <1>11 DEF SetThreaded, InitQueue
<1>12. CASE Joined
  BY <1>12 DEF Joined, TypeOK
<1>13. CASE UNCHANGED vars
  BY <1>13 DEF vars
<1> QED
  BY <1>1, <1>2, <1>3, <1>4, <1>8, <1>9, <1>10, <1>11, <1>12, <1>13 DEF Next, MainStep

\* Taking the first task out of tasks_running.
LEMMA RemovesHead ==
  ASSUME Inv, WorkerRemoves
  PROVE  /\ running' \in Seq(Tasks) /\ IsInjective(running')
         /\ ToSet(running') = ToSet(running) \ {cur}
         /\ cur \in Tasks /\ cur \in ToSet(running)
<1>1. wpc = "remove" /\ running' = Without(running, cur)
  BY DEF WorkerRemoves
<1>2. running \in Seq(Tasks) /\ IsInjective(running) /\ running /= << >> /\ Head(running) = cur
  BY <1>1 DEF Inv, TypeOK, OnePlace, CurInv, Working
<1>3. running' = Tail(running)
  BY <1>1, <1>2, WithoutHead
<1> QED
  BY <1>2, <1>3, GetFacts

\* The first task of tasks_running stays the one the worker is at.
LEMMA CurStep ==
  ASSUME Inv, [Next]_vars
  PROVE  CurInv'
<1> USE DEF Inv, CurInv, Working, Holding, queueVars, taskVars, implVars, workerVars, mainVars, lockVars
<1>0. running \in Seq(Tasks)
  BY DEF TypeOK
<1>1. CASE WorkerTakes
  BY <1>1 DEF WorkerTakes
<1>2. CASE WorkerHandles \/ WorkerFinishes \/ WorkerReadsFinished
  BY <1>2 DEF WorkerHandles, WorkerFinishes, WorkerReadsFinished
<1>3. CASE WorkerRemoves
  BY <1>3, RemovesHead DEF WorkerRemoves
<1>4. CASE WorkerPutsRunning \/ WorkerPutsFinished
  BY <1>4 DEF WorkerPutsRunning, WorkerPutsFinished
<1>5. ASSUME NEW t \in Tasks, running' = Append(running, t), wpc' = Signalled, cur' = cur
      PROVE  CurInv'
  <2>1. running' /= << >> /\ (running /= << >> => Head(running') = Head(running))
    BY <1>0, <1>5
  <2> QED
    BY <1>5, <2>1 DEF Signalled
<1>6. CASE PushRunning
  BY <1>5, <1>6 DEF PushRunning, ImplInv
<1>7. CASE Callback
  <2>1. CASE UNCHANGED <<running, wpc>>
    BY <1>7, <2>1 DEF Callback
  <2> QED
    BY <1>5, <1>7, <2>1 DEF Callback
<1>8. CASE RegularTakesAll \/ RegularHandles
  BY <1>8 DEF RegularTakesAll, RegularHandles, ImplInv
<1>9. CASE Quiet
  BY <1>9 DEF Quiet
<1> QED
  BY <1>1, <1>2, <1>3, <1>4, <1>6, <1>7, <1>8, <1>9, StepKinds

\* Every step moves a task from one place to another.
LEMMA PlaceStep ==
  ASSUME Inv, [Next]_vars
  PROVE  OnePlace'
<1> USE TasksAssumption DEF Working, Holding, queueVars, taskVars, implVars, workerVars, mainVars, lockVars
<1>0. /\ running \in Seq(Tasks) /\ finished \in Seq(Tasks) /\ gathering \in Seq(Tasks)
      /\ IsInjective(running) /\ IsInjective(finished) /\ IsInjective(gathering)
      /\ CurInv /\ OnePlace
      /\ Hand = IF wpc \in Holding THEN {cur} ELSE {}
  BY HandIs DEF Inv, TypeOK, OnePlace, CurInv
<1>1. Hand' = IF wpc' \in Holding THEN {cur'} ELSE {}
  BY CurStep DEF CurInv, Hand, InHand
<1>2. CASE WorkerTakes
  <2>1. cur' \in ToSet(running) /\ Hand' = Hand
    BY <1>0, <1>1, <1>2, GetFacts DEF WorkerTakes
  <2> QED
    BY <1>0, <1>2, <2>1 DEF WorkerTakes, OnePlace
<1>3. CASE WorkerHandles \/ WorkerFinishes \/ WorkerReadsFinished
  <2>1. Hand' = Hand /\ UNCHANGED <<running, finished, gathering, pushed, done, cur>>
    BY <1>0, <1>1, <1>3 DEF WorkerHandles, WorkerFinishes, WorkerReadsFinished
  <2> QED
    BY <1>0, <2>1 DEF OnePlace
<1>4. CASE WorkerRemoves
  <2>1. Hand = {} /\ Hand' = {cur} /\ UNCHANGED <<finished, gathering, pushed, done, cur>>
    BY <1>0, <1>1, <1>4 DEF WorkerRemoves
  <2> QED
    BY <1>0, <1>4, <2>1, RemovesHead DEF OnePlace
<1>5. CASE WorkerPutsRunning
  <2>1. Hand = {cur} /\ Hand' = {} /\ cur \in Tasks
        /\ running' = Append(running, cur) /\ UNCHANGED <<finished, gathering, pushed, done>> /\ cur' = NoTask
    BY <1>0, <1>1, <1>5 DEF WorkerPutsRunning, CurInv
  <2>2. IsInjective(running') /\ ToSet(running') = ToSet(running) \cup {cur}
    BY <1>0, <2>1, PutFacts DEF OnePlace
  <2>3. NoTask \notin done
    BY DEF Inv, TypeOK
  <2> QED
    BY <1>0, <2>1, <2>2, <2>3 DEF OnePlace
<1>6. CASE WorkerPutsFinished
  <2>1. Hand = {cur} /\ Hand' = {} /\ cur \in Tasks
        /\ finished' = Append(finished, cur) /\ UNCHANGED <<running, gathering, pushed, done>> /\ cur' = NoTask
    BY <1>0, <1>1, <1>6 DEF WorkerPutsFinished, CurInv
  <2>2. IsInjective(finished') /\ ToSet(finished') = ToSet(finished) \cup {cur}
    BY <1>0, <2>1, PutFacts DEF OnePlace
  <2>3. NoTask \notin done
    BY DEF Inv, TypeOK
  <2> QED
    BY <1>0, <2>1, <2>2, <2>3 DEF OnePlace
<1>7. CASE PushRunning
  <2>1. /\ arg \in Tasks \ pushed /\ Hand' = Hand
        /\ running' = Append(running, arg) /\ pushed' = pushed \cup {arg}
        /\ UNCHANGED <<finished, gathering, done, cur>>
    BY <1>0, <1>1, <1>7 DEF PushRunning, Signalled, Inv, ImplInv
  <2>2. IsInjective(running') /\ ToSet(running') = ToSet(running) \cup {arg}
    BY <1>0, <2>1, PutFacts, NewIsNowhere
  <2> QED
    BY <1>0, <2>1, <2>2, NewIsNowhere DEF OnePlace
<1>8. CASE Callback
  <2> DEFINE h == Head(finished)
  <2>1. /\ Hand' = Hand /\ finished' = Tail(finished) /\ finished /= << >>
        /\ done' = done \cup {h} /\ UNCHANGED <<gathering, cur>>
    BY <1>0, <1>1, <1>8 DEF Callback, Signalled
  <2>2. h \in ToSet(finished) /\ IsInjective(finished') /\ ToSet(finished') = ToSet(finished) \ {h}
    BY <1>0, <2>1, GetFacts
  <2>3. cur /= h
    BY <1>0, <2>2, CurIsSomewhere DEF OnePlace, Inv, TypeOK
  <2> HIDE DEF h
  <2>4. CASE UNCHANGED <<running, pushed>>
    BY <1>0, <2>1, <2>2, <2>3, <2>4 DEF OnePlace
  <2>5. ASSUME NEW t \in Tasks \ pushed, running' = Append(running, t), pushed' = pushed \cup {t}
        PROVE  OnePlace'
    <3>1. IsInjective(running') /\ ToSet(running') = ToSet(running) \cup {t}
      BY <1>0, <2>5, PutFacts, NewIsNowhere
    <3> QED
      BY <1>0, <2>1, <2>2, <2>3, <2>5, <3>1, NewIsNowhere DEF OnePlace
  <2> QED
    BY <1>8, <2>4, <2>5 DEF Callback
<1>9. CASE RegularTakesAll
  <2>1. gathering = << >> /\ ToSet(gathering) = {} /\ running' = << >> /\ ToSet(running') = {}
    BY <1>9 DEF RegularTakesAll, Inv, ImplInv, ToSet
  <2>2. IsInjective(gathering') /\ ToSet(gathering') = ToSet(running) /\ IsInjective(running')
    BY <1>0, <1>9, <2>1, ReverseFacts DEF RegularTakesAll, IsInjective
  <2>3. Hand' = Hand /\ UNCHANGED <<finished, pushed, done, cur>>
    BY <1>0, <1>1, <1>9 DEF RegularTakesAll
  <2> QED
    BY <1>0, <2>1, <2>2, <2>3 DEF OnePlace
<1>10. CASE RegularHandles
  <2> DEFINE h == Head(gathering)
  <2>1. /\ Hand' = Hand /\ gathering' = Tail(gathering) /\ gathering /= << >>
        /\ UNCHANGED <<pushed, done, cur>>
        /\ \/ finished' = Append(finished, h) /\ UNCHANGED running
           \/ running' = Append(running, h) /\ UNCHANGED finished
    BY <1>0, <1>1, <1>10 DEF RegularHandles
  <2>2. h \in Tasks /\ h \in ToSet(gathering) /\ IsInjective(gathering') /\ ToSet(gathering') = ToSet(gathering) \ {h}
    BY <1>0, <2>1, GetFacts
  <2>3. h \notin ToSet(running) \cup ToSet(finished) \cup Hand
    BY <1>0, <2>2 DEF OnePlace
  <2> HIDE DEF h
  <2>4. /\ IsInjective(Append(finished, h)) /\ ToSet(Append(finished, h)) = ToSet(finished) \cup {h}
        /\ IsInjective(Append(running, h)) /\ ToSet(Append(running, h)) = ToSet(running) \cup {h}
    BY <1>0, <2>2, <2>3, PutFacts
  <2>5. CASE finished' = Append(finished, h) /\ UNCHANGED running
    BY <1>0, <2>1, <2>2, <2>3, <2>4, <2>5 DEF OnePlace
  <2>6. CASE running' = Append(running, h) /\ UNCHANGED finished
    BY <1>0, <2>1, <2>2, <2>3, <2>4, <2>6 DEF OnePlace
  <2> QED
    BY <2>1, <2>5, <2>6
<1>11. CASE Quiet
  <2>1. Hand' = Hand /\ UNCHANGED <<running, finished, gathering, pushed, done, cur>>
    BY <1>0, <1>1, <1>11 DEF Quiet
  <2> QED
    BY <1>0, <2>1 DEF OnePlace
<1> QED
  BY <1>2, <1>3, <1>4, <1>5, <1>6, <1>7, <1>8, <1>9, <1>10, <1>11, StepKinds

\* A task that has reported its end is not among those that are called.
LEMMA EndStep ==
  ASSUME Inv, [Next]_vars
  PROVE  EndInv'
<1> USE TasksAssumption DEF Working, Holding, queueVars, taskVars, implVars, workerVars, mainVars, lockVars
<1>0. /\ running \in Seq(Tasks) /\ finished \in Seq(Tasks) /\ gathering \in Seq(Tasks)
      /\ IsInjective(running) /\ IsInjective(finished) /\ IsInjective(gathering)
      /\ isFinished \in [Tasks -> BOOLEAN] /\ done \subseteq Tasks
      /\ ToSet(running) \subseteq Tasks /\ ToSet(finished) \subseteq Tasks /\ ToSet(gathering) \subseteq Tasks
      /\ EndInv
  BY DEF Inv, TypeOK, OnePlace, ToSet
<1>1. wpc \in Working =>
        /\ cur \in ToSet(running) /\ cur \in Tasks
        /\ cur \notin ToSet(finished) \cup done /\ cur \in pushed
  BY <1>0, GetFacts DEF Inv, CurInv, OnePlace
<1>2. CASE WorkerTakes
  BY <1>0, <1>2 DEF WorkerTakes, EndInv, Inv, CurInv
<1>3. CASE WorkerHandles
  BY <1>0, <1>1, <1>3 DEF WorkerHandles, EndInv
<1>4. CASE WorkerFinishes
  BY <1>0, <1>1, <1>4 DEF WorkerFinishes, EndInv
<1>5. CASE WorkerReadsFinished
  BY <1>0, <1>1, <1>5 DEF WorkerReadsFinished, EndInv
<1>6. CASE WorkerRemoves
  <2>1. ToSet(running') = ToSet(running) \ {cur} /\ cur \in ToSet(running)
    BY <1>6, RemovesHead
  <2>2. UNCHANGED <<finished, gathering, isFinished, pushed, done, cur, fin>> /\ wpc = "remove"
        /\ wpc' = IF fin THEN "putFinished" ELSE "putRunning"
    BY <1>6 DEF WorkerRemoves
  <2>3. cur \notin ToSet(gathering)
    BY <2>1 DEF Inv, OnePlace
  <2> QED
    BY <1>0, <2>1, <2>2, <2>3 DEF EndInv
<1>7. CASE WorkerPutsRunning \/ WorkerPutsFinished
  <2>1. cur \in Tasks /\ Hand = {cur}
    BY <1>7, HandIs DEF WorkerPutsRunning, WorkerPutsFinished, Inv, CurInv
  <2>2. cur \notin ToSet(running) \cup ToSet(finished)
    BY <2>1 DEF Inv, OnePlace
  <2>3. /\ ToSet(Append(finished, cur)) = ToSet(finished) \cup {cur}
        /\ ToSet(Append(running, cur)) = ToSet(running) \cup {cur}
    BY <1>0, <2>1, <2>2, PutFacts
  <2>4. UNCHANGED <<gathering, isFinished, pushed, done>> /\ wpc' = "top"
    BY <1>7 DEF WorkerPutsRunning, WorkerPutsFinished
  <2>5. CASE WorkerPutsRunning
    BY <1>0, <2>3, <2>4, <2>5 DEF WorkerPutsRunning, EndInv
  <2>6. CASE WorkerPutsFinished
    BY <1>0, <2>3, <2>4, <2>6 DEF WorkerPutsFinished, EndInv
  <2> QED
    BY <1>7, <2>5, <2>6
<1>8. ASSUME NEW t \in Tasks \ pushed,
             running' = Append(running, t), pushed' = pushed \cup {t}, wpc' = Signalled,
             UNCHANGED <<gathering, isFinished, cur, fin>>,
             \A u \in ToSet(finished') \cup done' : isFinished[u]
      PROVE  EndInv'
  <2>1. ToSet(running') = ToSet(running) \cup {t}
    BY <1>0, <1>8, PutFacts, NewIsNowhere
  <2>2. ~isFinished[t]
    BY <1>0 DEF EndInv
  <2> QED
    BY <1>0, <1>8, <2>1, <2>2 DEF EndInv, Signalled
<1>9. CASE PushRunning
  <2>1. arg \in Tasks \ pushed
    BY <1>9 DEF PushRunning, Inv, ImplInv
  <2> QED
    BY <1>0, <1>8, <1>9, <2>1 DEF PushRunning, EndInv
<1>10. CASE Callback
  <2> DEFINE h == Head(finished)
  <2>1. h \in ToSet(finished) /\ ToSet(finished') = ToSet(finished) \ {h} /\ done' = done \cup {h}
    BY <1>0, <1>10, GetFacts DEF Callback
  <2>2. \A u \in ToSet(finished') \cup done' : isFinished[u]
    BY <1>0, <2>1 DEF EndInv
  <2>3. UNCHANGED <<gathering, isFinished, cur, fin>>
    BY <1>10 DEF Callback
  <2>4. CASE UNCHANGED <<running, pushed, wpc>>
    BY <1>0, <2>2, <2>3, <2>4 DEF EndInv
  <2> QED
    BY <1>8, <1>10, <2>2, <2>3, <2>4 DEF Callback
<1>11. CASE RegularTakesAll
  <2>1. ToSet(gathering') = ToSet(running)
    BY <1>0, <1>11, ReverseFacts DEF RegularTakesAll
  <2>3. ToSet(running') = {}
    BY <1>11 DEF RegularTakesAll, ToSet
  <2>2. UNCHANGED <<finished, isFinished, pushed, done, wpc, cur, fin>>
    BY <1>11 DEF RegularTakesAll
  <2> QED
    BY <1>0, <2>1, <2>2, <2>3 DEF EndInv
<1>12. CASE RegularHandles
  <2> DEFINE h == Head(gathering)
  <2>1. h \in Tasks /\ h \in ToSet(gathering) /\ ToSet(gathering') = ToSet(gathering) \ {h}
    BY <1>0, <1>12, GetFacts DEF RegularHandles
  <2>2. h \notin ToSet(running) \cup ToSet(finished) \cup done /\ h \in pushed
    BY <2>1 DEF Inv, OnePlace
  <2>3. /\ ToSet(Append(finished, h)) = ToSet(finished) \cup {h}
        /\ ToSet(Append(running, h)) = ToSet(running) \cup {h}
    BY <1>0, <2>1, <2>2, PutFacts
  <2>4. wpc = "none"
    BY <1>12 DEF RegularHandles, Inv, ImplInv, TypeOK
  <2>5. UNCHANGED <<pushed, done, wpc, cur, fin>>
    BY <1>12 DEF RegularHandles
  <2>6. \E e \in BOOLEAN : isFinished' = [isFinished EXCEPT ![h] = @ \/ e]
    BY <1>12 DEF RegularHandles, Ends
  <2>7. \A u \in Tasks : u /= h => isFinished'[u] = isFinished[u]
    BY <1>0, <2>1, <2>6
  <2>8. IF isFinished'[h] THEN finished' = Append(finished, h) /\ UNCHANGED running
                          ELSE running' = Append(running, h) /\ UNCHANGED finished
    BY <1>12 DEF RegularHandles
  <2> HIDE DEF h
  <2>9. CASE isFinished'[h]
    BY <1>0, <2>1, <2>2, <2>3, <2>4, <2>5, <2>7, <2>8, <2>9 DEF EndInv
  <2>10. CASE ~isFinished'[h]
    BY <1>0, <2>1, <2>2, <2>3, <2>4, <2>5, <2>7, <2>8, <2>10 DEF EndInv
  <2> QED
    BY <2>9, <2>10
<1>13. CASE Quiet
  <2>1. UNCHANGED <<running, finished, gathering, isFinished, pushed, done, cur, fin>>
    BY <1>13 DEF Quiet
  <2>2. wpc' = wpc \/ {wpc, wpc'} \cap (Working \cup Holding) = {}
    BY <1>13 DEF Quiet
  <2> QED
    BY <1>0, <2>1, <2>2 DEF EndInv
<1> QED
  BY <1>2, <1>3, <1>4, <1>5, <1>6, <1>7, <1>9, <1>10, <1>11, <1>12, <1>13, StepKinds

\* A handler that goes on has calls left.
LEMMA EndsFacts ==
  ASSUME NEW t \in Tasks, NEW e \in Ends(t), calls[t] \in 0 .. MaxCalls, ~e
  PROVE  calls[t] + 1 < MaxCalls
<1>1. ~(calls[t] + 1 >= MaxCalls)
  BY DEF Ends
<1> QED
  BY <1>1, CallsAssumption

\* Every call of a handler is counted, and the last one ends.
LEMMA CallStep ==
  ASSUME Inv, [Next]_vars
  PROVE  CallInv'
<1> USE TasksAssumption, CallsAssumption DEF queueVars, taskVars, implVars, workerVars, mainVars, lockVars
<1>0. /\ isFinished \in [Tasks -> BOOLEAN] /\ calls \in [Tasks -> 0 .. MaxCalls]
      /\ isFinished' \in [Tasks -> BOOLEAN] /\ calls' \in [Tasks -> 0 .. MaxCalls] /\ CallInv
  BY TypeStep DEF Inv, TypeOK
<1>1. CASE WorkerHandles
  <2>1. cur \in Tasks
    BY <1>1, GetFacts DEF WorkerHandles, Inv, TypeOK, CurInv, OnePlace, Working
  <2>2. calls'[cur] < MaxCalls \/ wpc' = "finish"
    <3>1. PICK e \in Ends(cur) : wpc' = IF e THEN "finish" ELSE "read"
      BY <1>1 DEF WorkerHandles
    <3>2. calls'[cur] = calls[cur] + 1
      BY <1>0, <1>1, <2>1 DEF WorkerHandles
    <3> QED
      BY <1>0, <2>1, <3>1, <3>2, EndsFacts
  <2>3. \A t \in Tasks : t /= cur => calls'[t] = calls[t]
    BY <1>0, <1>1, <2>1 DEF WorkerHandles
  <2> QED
    BY <1>0, <1>1, <2>2, <2>3 DEF WorkerHandles, CallInv
<1>2. CASE WorkerFinishes
  <2>1. cur \in Tasks
    BY <1>2, GetFacts DEF WorkerFinishes, Inv, TypeOK, CurInv, OnePlace, Working
  <2> QED
    BY <1>0, <1>2, <2>1 DEF WorkerFinishes, CallInv
<1>3. CASE RegularHandles
  <2> DEFINE h == Head(gathering)
  <2>1. h \in Tasks
    BY <1>3, GetFacts DEF RegularHandles, Inv, TypeOK, OnePlace
  <2>2. PICK e \in Ends(h) : isFinished' = [isFinished EXCEPT ![h] = @ \/ e]
    BY <1>3 DEF RegularHandles
  <2>3. calls' = [calls EXCEPT ![h] = @ + 1] /\ UNCHANGED <<cur, wpc>>
    BY <1>3 DEF RegularHandles
  <2>4. isFinished'[h] \/ calls'[h] < MaxCalls
    <3>1. calls'[h] = calls[h] + 1
      BY <1>0, <2>1, <2>3
    <3>2. CASE e
      BY <1>0, <2>1, <2>2, <3>2
    <3>3. CASE ~e
      BY <1>0, <2>1, <2>2, <3>1, <3>3, EndsFacts
    <3> QED
      BY <3>2, <3>3
  <2>5. \A t \in Tasks : t /= h => calls'[t] = calls[t] /\ isFinished'[t] = isFinished[t]
    BY <1>0, <2>1, <2>2, <2>3
  <2> QED
    BY <1>0, <2>3, <2>4, <2>5 DEF CallInv
<1>4. CASE WorkerTakes \/ WorkerReadsFinished \/ WorkerRemoves \/ WorkerPutsRunning \/ WorkerPutsFinished
  BY <1>0, <1>4 DEF WorkerTakes, WorkerReadsFinished, WorkerRemoves, WorkerPutsRunning, WorkerPutsFinished, CallInv
<1>5. CASE PushRunning \/ Callback \/ RegularTakesAll
  BY <1>0, <1>5 DEF PushRunning, Callback, Signalled, RegularTakesAll, CallInv
<1>6. CASE Quiet
  BY <1>0, <1>6 DEF Quiet, Working, Holding, CallInv
<1> QED
  BY <1>1, <1>2, <1>3, <1>4, <1>5, <1>6, StepKinds

\* The queue starts empty and without an implementation.
LEMMA InvInit ==
  ASSUME Init
  PROVE  Inv
<1> USE TasksAssumption, CallsAssumption DEF Init
<1>1. TypeOK
  <2>1. << >> \in Seq(Tasks)
    OBVIOUS
  <2>2. calls \in [Tasks -> 0 .. MaxCalls] /\ switches \in 0 .. MaxSwitches
    OBVIOUS
  <2> QED
    BY <2>1, <2>2 DEF TypeOK
<1>2. ImplInv /\ CurInv
  BY DEF ImplInv, CurInv, Working, Holding
<1>3. ToSet(running) = {} /\ ToSet(finished) = {} /\ ToSet(gathering) = {} /\ Hand = {}
  BY DEF ToSet, Hand, InHand
<1>4. IsInjective(running) /\ IsInjective(finished) /\ IsInjective(gathering)
  BY DEF IsInjective
<1>5. OnePlace
  BY <1>3, <1>4 DEF OnePlace
<1>6. EndInv /\ CallInv
  BY <1>3 DEF EndInv, CallInv
<1> QED
  BY <1>1, <1>2, <1>5, <1>6 DEF Inv

-----------------------------------------------------------------------------
(* The theorems.                                                           *)

\* Every state reached satisfies the invariant.
THEOREM Invariance == Spec => []Inv
<1>1. Inv /\ [Next]_vars => Inv'
  BY TypeStep, ImplStep, CurStep, PlaceStep, EndStep, CallStep DEF Inv
<1> QED
  BY <1>1, InvInit, PTL DEF Spec

\* The variables keep their types; no handler is called more often than the
\* bound allows.
THEOREM TypeCorrect == Spec => []TypeOK
<1>1. Inv => TypeOK
  BY DEF Inv
<1> QED
  BY <1>1, Invariance, PTL

\* A pushed task is in one of the lists, once, or in the hand of the worker,
\* until its callback has run, through every change of the implementation.
THEOREM OnePlaceHolds == Spec => []OnePlace
<1>1. Inv => OnePlace
  BY DEF Inv
<1> QED
  BY <1>1, Invariance, PTL

\* task_queue_remove always finds the task in front, so the search that reads
\* the list without queue_lock never runs.
THEOREM RemovesFrontHolds == Spec => []RemovesFront
<1>1. Inv => RemovesFront
  BY DEF Inv, CurInv, Working, RemovesFront
<1> QED
  BY <1>1, Invariance, PTL

\* The callback of a task runs after the end of its handler's last call.
THEOREM CallbackAfterEndHolds == Spec => []CallbackAfterEnd
<1>1. ASSUME Inv, NEW t \in ToSet(finished)
      PROVE  cur /= t
  <2>1. t \in Tasks
    BY <1>1 DEF Inv, TypeOK, ToSet
  <2> QED
    BY <1>1, <2>1, CurIsSomewhere, TasksAssumption DEF Inv, OnePlace
<1>2. Inv => CallbackAfterEnd
  BY <1>1 DEF CallbackAfterEnd, Inv, EndInv
<1> QED
  BY <1>2, Invariance, PTL

\* A handler that reported the end is called by neither thread again.
THEOREM NoCallAfterEndHolds == Spec => NoCallAfterEnd
<1> DEFINE A == \A t \in Tasks : calls'[t] > calls[t] => ~isFinished[t] /\ t \notin done
<1>1. ASSUME Inv, [Next]_vars
      PROVE  A
  <2> USE DEF queueVars, taskVars, implVars, workerVars, mainVars, lockVars
  <2>0. calls \in [Tasks -> 0 .. MaxCalls]
    BY <1>1 DEF Inv, TypeOK
  <2>1. CASE WorkerHandles
    <3>1. cur \in ToSet(running)
      BY <1>1, <2>1, GetFacts DEF WorkerHandles, Inv, TypeOK, CurInv, OnePlace, Working
    <3>2. ~isFinished[cur] /\ cur \notin done
      BY <1>1, <2>1, <3>1 DEF WorkerHandles, Inv, EndInv, OnePlace
    <3>3. \A t \in Tasks : t /= cur => calls'[t] = calls[t]
      BY <2>0, <2>1 DEF WorkerHandles
    <3> QED
      BY <2>0, <3>2, <3>3
  <2>2. CASE RegularHandles
    <3> DEFINE h == Head(gathering)
    <3>1. h \in ToSet(gathering)
      BY <1>1, <2>2, GetFacts DEF RegularHandles, Inv, TypeOK, OnePlace
    <3>2. ~isFinished[h] /\ h \notin done
      BY <1>1, <2>2, <3>1 DEF RegularHandles, Inv, EndInv, OnePlace, ImplInv
    <3>3. \A t \in Tasks : t /= h => calls'[t] = calls[t]
      BY <2>0, <2>2 DEF RegularHandles
    <3> QED
      BY <2>0, <3>2, <3>3
  <2>3. CASE UNCHANGED calls
    BY <2>0, <2>3
  <2>4. WorkerHandles \/ RegularHandles \/ UNCHANGED calls
    BY <1>1, StepKinds
    DEF WorkerTakes, WorkerFinishes, WorkerReadsFinished, WorkerRemoves, WorkerPutsRunning,
        WorkerPutsFinished, PushRunning, Callback, RegularTakesAll, Quiet
  <2> QED
    BY <2>1, <2>2, <2>3, <2>4
<1>2. Inv /\ [Next]_vars => [A]_vars
  BY <1>1
<1> QED
  BY <1>2, Invariance, PTL DEF Spec, NoCallAfterEnd

\* task_queue_wait leaves one task at most, the one in the worker's hand.
THEOREM WaitLeavesInHandHolds == Spec => WaitLeavesInHand
<1> DEFINE A == mpc = "test" /\ mpc' = "idle" => \A t \in pushed : isFinished[t] \/ InHand(t)
<1>1. ASSUME Inv, [Next]_vars, mpc = "test", mpc' = "idle", NEW t \in pushed
      PROVE  isFinished[t] \/ InHand(t)
  <2> USE DEF queueVars, taskVars, implVars, workerVars, mainVars, lockVars
  <2>1. ~WorkerStep /\ ~SpuriousWakeup
    BY <1>1 DEF WorkerStep, SpuriousWakeup, WorkerTop, WorkerSleeps, WorkerTakes, WorkerHandles, WorkerFinishes,
                WorkerReadsFinished, WorkerRemoves, WorkerPutsRunning, WorkerPutsFinished
  <2>2. \A u \in Tasks : ~Push(u) /\ ~Cancel(u)
    BY <1>1 DEF Push, Cancel
  <2>3. /\ ~PushRunning /\ ~Joined /\ ~CheckStarts /\ ~LockProperty /\ ~LockFinished /\ ~Callback /\ ~EndGather
        /\ ~RegularTakesAll /\ ~RegularHandles /\ ~RegularGathered
        /\ ~Reset /\ ~Deinit /\ ~Check /\ ~Wait
        /\ \A on \in BOOLEAN : ~SetThreaded(on) /\ ~InitQueue(on)
    BY <1>1 DEF PushRunning, Joined, CheckStarts, LockProperty, LockFinished, Callback, EndGather,
                RegularTakesAll, RegularHandles, RegularGathered, Reset, Deinit, Check, Wait, SetThreaded, InitQueue
  <2>4. WaitTests
    BY <1>1, <2>1, <2>2, <2>3 DEF Next, MainStep, vars
  <2>5. running = << >> /\ gathering = << >>
    BY <1>1, <2>4 DEF WaitTests, Inv, ImplInv
  <2>6. ToSet(running) = {} /\ ToSet(gathering) = {}
    BY <2>5 DEF ToSet
  <2>7. t \in ToSet(finished) \cup Hand \cup done
    BY <1>1, <2>6 DEF Inv, OnePlace
  <2>8. t \in ToSet(finished) \cup done => isFinished[t]
    BY <1>1 DEF Inv, EndInv
  <2> QED
    BY <2>7, <2>8 DEF Hand
<1>2. Inv /\ [Next]_vars => [A]_vars
  BY <1>1
<1> QED
  BY <1>2, Invariance, PTL DEF Spec, WaitLeavesInHand
=============================================================================
