------------------------------ MODULE TaskQueue ------------------------------
(***************************************************************************)
(* The task queue: tasks pushed by the main thread, whose handlers run     *)
(* again and again until they report the end, on a worker thread or, with  *)
(* the regular implementation, in the main thread's task_queue_check; and  *)
(* whose callbacks the main thread runs afterwards.                        *)
(*                                                                         *)
(* running_lock and queue_lock are held for one step at a time.            *)
(* property_lock and finished_lock are held by the main thread across the  *)
(* callbacks: propertyHeld and finishedHeld.                               *)
(***************************************************************************)
EXTENDS Naturals, Sequences, SequencesExt

CONSTANTS
  Tasks,       \* the tasks there are
  Blocking,    \* those of type TASK_TYPE_BLOCKING
  NoTask,
  MaxCalls,    \* bound: calls of a handler until it reports the end
  MaxSwitches  \* bound: how often the implementation is started

ASSUME TasksAssumption == Blocking \subseteq Tasks /\ NoTask \notin Tasks
ASSUME CallsAssumption == MaxCalls \in Nat \ {0} /\ MaxSwitches \in Nat

VARIABLES
  running,         \* tasks_running
  finished,        \* tasks_finished
  gathering,       \* queue of retro_task_regular_gather
  isFinished,      \* task->finished
  cancelled,       \* task->cancelled
  calls,           \* how often a task's handler was called
  pushed,          \* tasks accepted by task_queue_push
  done,            \* tasks whose callback ran; they are freed
  impl,            \* impl_current
  threaded,        \* task_threaded_enable
  switches,        \* how often an implementation was started
  workerContinue,  \* worker_continue
  wpc,             \* where the worker is
  cur,             \* task of threaded_worker
  fin,             \* finished of threaded_worker
  mpc,             \* where the main thread is
  after,           \* what it does after the gather: "idle", "test" of a wait
  arg,             \* the task being pushed
  propertyHeld,    \* the main thread holds property_lock
  finishedHeld     \* the main thread holds finished_lock

queueVars  == <<running, finished, gathering>>
taskVars   == <<isFinished, cancelled, calls, pushed, done>>
implVars   == <<impl, threaded, switches>>
workerVars == <<workerContinue, wpc, cur, fin>>
lockVars   == <<propertyHeld, finishedHeld>>
mainVars   == <<mpc, after, arg, lockVars>>
vars       == <<queueVars, taskVars, implVars, workerVars, mainVars>>

Init ==
  /\ running = << >> /\ finished = << >> /\ gathering = << >>
  /\ isFinished = [t \in Tasks |-> FALSE] /\ cancelled = [t \in Tasks |-> FALSE]
  /\ calls = [t \in Tasks |-> 0]
  /\ pushed = {} /\ done = {}
  /\ impl = "none" /\ threaded \in BOOLEAN /\ switches = 0
  /\ workerContinue = TRUE /\ wpc = "none" /\ cur = NoTask /\ fin = FALSE
  /\ mpc = "idle" /\ after = "idle" /\ arg = NoTask
  /\ propertyHeld = FALSE /\ finishedHeld = FALSE

\* Mutant: a push does not signal.
NotSignalled == wpc

\* scond_signal(worker_cond): without a waiter it is lost.
Signalled == IF wpc = "asleep" THEN "top" ELSE wpc

-----------------------------------------------------------------------------
(* The worker.                                                             *)

\* worker_continue is read before running_lock is taken.
WorkerTop ==
  /\ wpc = "top"
  /\ wpc' = IF workerContinue THEN "front" ELSE "exited"
  /\ UNCHANGED <<queueVars, taskVars, implVars, workerContinue, cur, fin, mainVars>>

WorkerSleeps ==
  /\ wpc = "front" /\ running = << >>
  /\ wpc' = "asleep"
  /\ UNCHANGED <<queueVars, taskVars, implVars, workerContinue, cur, fin, mainVars>>

SpuriousWakeup ==
  /\ wpc = "asleep" /\ wpc' = "top"
  /\ UNCHANGED <<queueVars, taskVars, implVars, workerContinue, cur, fin, mainVars>>

WorkerTakes ==
  /\ wpc = "front" /\ running /= << >>
  /\ cur' = Head(running)
  /\ wpc' = "handle"
  /\ UNCHANGED <<queueVars, taskVars, implVars, workerContinue, fin, mainVars>>

\* May the handler of t report the end now, and may it go on?
Ends(t)  == {TRUE} \cup IF cancelled[t] \/ calls[t] + 1 >= MaxCalls THEN {} ELSE {FALSE}

\* The handler looks whether it was cancelled and does its work.
WorkerHandles ==
  /\ wpc = "handle"
  /\ \E e \in Ends(cur) : wpc' = IF e THEN "finish" ELSE "read"
  /\ calls' = [calls EXCEPT ![cur] = @ + 1]
  /\ UNCHANGED <<queueVars, isFinished, cancelled, pushed, done, implVars, workerContinue, cur, fin, mainVars>>

\* It calls task_set_finished.
WorkerFinishes ==
  /\ wpc = "finish" /\ ~propertyHeld
  /\ isFinished' = [isFinished EXCEPT ![cur] = TRUE]
  /\ wpc' = "read"
  /\ UNCHANGED <<queueVars, cancelled, calls, pushed, done, implVars, workerContinue, cur, fin, mainVars>>

\* Mutant: the flag is read before the handler has run.
WorkerReadsStale ==
  /\ wpc = "read" /\ ~propertyHeld
  /\ fin' = FALSE
  /\ wpc' = "remove"
  /\ UNCHANGED <<queueVars, taskVars, implVars, workerContinue, cur, mainVars>>

WorkerReadsFinished ==
  /\ wpc = "read" /\ ~propertyHeld
  /\ fin' = isFinished[cur]
  /\ wpc' = "remove"
  /\ UNCHANGED <<queueVars, taskVars, implVars, workerContinue, cur, mainVars>>

\* Mutant: the search misses the first task.
WithoutRest(queue, t) ==
  IF \E i \in 2 .. Len(queue) : queue[i] = t
    THEN RemoveAt(queue, CHOOSE i \in 2 .. Len(queue) : queue[i] = t)
    ELSE queue

\* task_queue_remove searches the list for the task, which is there once.
Without(queue, t) ==
  IF \E i \in DOMAIN queue : queue[i] = t
    THEN RemoveAt(queue, CHOOSE i \in DOMAIN queue : queue[i] = t)
    ELSE queue

\* Mutant: the task is taken for finished.
WorkerRemovesForGood ==
  /\ wpc = "remove"
  /\ running' = Without(running, cur)
  /\ wpc' = "putFinished"
  /\ UNCHANGED <<finished, gathering, taskVars, implVars, workerContinue, cur, fin, mainVars>>

WorkerRemoves ==
  /\ wpc = "remove"
  /\ running' = Without(running, cur)
  /\ wpc' = IF fin THEN "putFinished" ELSE "putRunning"
  /\ UNCHANGED <<finished, gathering, taskVars, implVars, workerContinue, cur, fin, mainVars>>

WorkerPutsRunning ==
  /\ wpc = "putRunning"
  /\ running' = Append(running, cur)
  /\ wpc' = "top" /\ cur' = NoTask
  /\ UNCHANGED <<finished, gathering, taskVars, implVars, workerContinue, fin, mainVars>>

WorkerPutsFinished ==
  /\ wpc = "putFinished" /\ ~finishedHeld
  /\ finished' = Append(finished, cur)
  /\ wpc' = "top" /\ cur' = NoTask
  /\ UNCHANGED <<running, gathering, taskVars, implVars, workerContinue, fin, mainVars>>

WorkerStep ==
  \/ WorkerTop \/ WorkerSleeps \/ WorkerTakes
  \/ WorkerHandles \/ WorkerFinishes \/ WorkerReadsFinished
  \/ WorkerRemoves \/ WorkerPutsRunning \/ WorkerPutsFinished

-----------------------------------------------------------------------------
(* Pushing and cancelling, by the main thread.                             *)

\* A blocking task is refused while another one is in tasks_running.
Refused(t) == t \in Blocking /\ \E k \in DOMAIN running : running[k] \in Blocking

Push(t) ==
  /\ mpc = "idle" /\ impl /= "none" /\ t \notin pushed
  /\ ~Refused(t)
  /\ mpc' = "push" /\ arg' = t
  /\ UNCHANGED <<queueVars, taskVars, implVars, workerVars, after, lockVars>>

\* Mutant: the task is put before the others.
PushRunningFirst ==
  /\ mpc = "push" /\ mpc' = "idle" /\ arg' = NoTask
  /\ running' = <<arg>> \o running
  /\ pushed' = pushed \cup {arg}
  /\ wpc' = Signalled
  /\ UNCHANGED <<finished, gathering, isFinished, cancelled, calls, done, implVars, workerContinue,
                 cur, fin, after, lockVars>>

\* push_running of either implementation.
PushRunning ==
  /\ mpc = "push" /\ mpc' = "idle" /\ arg' = NoTask
  /\ running' = Append(running, arg)
  /\ pushed' = pushed \cup {arg}
  /\ wpc' = Signalled
  /\ UNCHANGED <<finished, gathering, isFinished, cancelled, calls, done, implVars, workerContinue,
                 cur, fin, after, lockVars>>

\* The threaded implementation cancels what it finds in tasks_running; the
\* regular one what it is given.
Cancel(t) ==
  /\ mpc = "idle" /\ impl /= "none" /\ t \in pushed \ done
  /\ impl = "threaded" => \E k \in DOMAIN running : running[k] = t
  /\ cancelled' = [cancelled EXCEPT ![t] = TRUE]
  /\ UNCHANGED <<queueVars, isFinished, calls, pushed, done, implVars, workerVars, mainVars>>

Reset ==
  /\ mpc = "idle" /\ impl /= "none"
  /\ cancelled' = [t \in Tasks |-> cancelled[t] \/ \E k \in DOMAIN running : running[k] = t]
  /\ UNCHANGED <<queueVars, isFinished, calls, pushed, done, implVars, workerVars, mainVars>>

SetThreaded(on) ==
  /\ mpc = "idle" /\ switches < MaxSwitches
  /\ threaded /= on /\ threaded' = on
  /\ UNCHANGED <<queueVars, taskVars, impl, switches, workerVars, mainVars>>

-----------------------------------------------------------------------------
(* Starting and stopping an implementation.                                *)

\* The threaded implementation starts a worker.
Start(on) ==
  /\ switches < MaxSwitches /\ switches' = switches + 1
  /\ IF on THEN impl' = "threaded" /\ workerContinue' = TRUE /\ wpc' = "top"
           ELSE impl' = "regular" /\ UNCHANGED <<workerContinue, wpc>>
  /\ UNCHANGED <<cur, fin>>

\* task_queue_init.  (Within the bound, only if task_queue_check may still
\* replace an implementation that is not the wanted one.)
InitQueue(on) ==
  /\ mpc = "idle" /\ impl = "none"
  /\ threaded /\ ~on => switches + 1 < MaxSwitches
  /\ Start(on)
  /\ threaded' = (threaded \/ on)
  /\ UNCHANGED <<queueVars, taskVars, mainVars>>

\* The worker is told to end, and joined.
StopThreaded(then) ==
  /\ impl = "threaded"
  /\ workerContinue' = FALSE /\ wpc' = Signalled
  /\ mpc' = "join" /\ after' = then
  /\ UNCHANGED <<queueVars, taskVars, implVars, cur, fin, arg, lockVars>>

\* The worker has ended; the locks are freed.
Joined ==
  /\ mpc = "join" /\ wpc = "exited"
  /\ wpc' = "none" /\ impl' = "none"
  /\ mpc' = after
  /\ UNCHANGED <<queueVars, taskVars, threaded, switches, workerContinue, cur, fin, after, arg, lockVars>>

StopRegular ==
  /\ impl = "regular" /\ impl' = "none"
  /\ UNCHANGED <<threaded, switches>>

Deinit ==
  /\ mpc = "idle" /\ switches < MaxSwitches
  /\ \/ StopThreaded("idle")
     \/ StopRegular /\ UNCHANGED <<queueVars, taskVars, workerVars, mainVars>>

\* task_queue_check: an implementation that is not the wanted one is stopped
\* first and the wanted one started.
Wanted == IF threaded THEN "threaded" ELSE "regular"

Check ==
  /\ mpc = "idle"
  /\ \/ /\ impl = Wanted
        /\ mpc' = "gather" /\ after' = "idle"
        /\ UNCHANGED <<queueVars, taskVars, implVars, workerVars, arg, lockVars>>
     \/ /\ impl /= Wanted /\ switches < MaxSwitches
        /\ \/ StopThreaded("start")
           \/ /\ impl /= "threaded"
              /\ Start(threaded)
              /\ mpc' = "gather" /\ after' = "idle"
              /\ UNCHANGED <<queueVars, taskVars, threaded, arg, lockVars>>

CheckStarts ==
  /\ mpc = "start" /\ Start(threaded)
  /\ mpc' = "gather" /\ after' = "idle"
  /\ UNCHANGED <<queueVars, taskVars, threaded, arg, lockVars>>

Wait ==
  /\ mpc = "idle" /\ impl /= "none"
  /\ mpc' = IF impl = "threaded" THEN "gather" ELSE "test"
  /\ after' = "test"
  /\ UNCHANGED <<queueVars, taskVars, implVars, workerVars, arg, lockVars>>

\* Mutant: the wrong list is looked at.
WaitTestsFinished ==
  /\ mpc = "test"
  /\ mpc' = IF finished /= << >> THEN "gather" ELSE "idle"
  /\ UNCHANGED <<queueVars, taskVars, implVars, workerVars, after, arg, lockVars>>

\* task_queue_wait without a condition looks at tasks_running only.
WaitTests ==
  /\ mpc = "test"
  /\ mpc' = IF running /= << >> THEN "gather" ELSE "idle"
  /\ UNCHANGED <<queueVars, taskVars, implVars, workerVars, after, arg, lockVars>>

-----------------------------------------------------------------------------
(* Gathering.                                                              *)

\* property_lock is taken and the progress of the running tasks reported.
LockProperty ==
  /\ mpc = "gather" /\ impl = "threaded"
  /\ propertyHeld' = TRUE /\ mpc' = "lockFinished"
  /\ UNCHANGED <<queueVars, taskVars, implVars, workerVars, after, arg, finishedHeld>>

LockFinished ==
  /\ mpc = "lockFinished"
  /\ finishedHeld' = TRUE /\ mpc' = "callbacks"
  /\ UNCHANGED <<queueVars, taskVars, implVars, workerVars, after, arg, propertyHeld>>

\* retro_task_internal_gather takes a task, runs its callback, which may push
\* another task, and frees it.
Callback ==
  /\ mpc = "callbacks" /\ finished /= << >>
  /\ finished' = Tail(finished)
  /\ done' = done \cup {Head(finished)}
  /\ \/ UNCHANGED <<running, pushed, wpc>>
     \/ \E t \in Tasks \ pushed :
          /\ ~Refused(t)
          /\ running' = Append(running, t)
          /\ pushed' = pushed \cup {t}
          /\ wpc' = Signalled
  /\ UNCHANGED <<gathering, isFinished, cancelled, calls, implVars, workerContinue, cur, fin, mainVars>>

\* Mutant: one of the locks is not given back.
EndGatherLocked ==
  /\ mpc = "callbacks" /\ finished = << >>
  /\ propertyHeld' = FALSE /\ UNCHANGED finishedHeld
  /\ mpc' = after
  /\ UNCHANGED <<queueVars, taskVars, implVars, workerVars, after, arg>>

EndGather ==
  /\ mpc = "callbacks" /\ finished = << >>
  /\ propertyHeld' = FALSE /\ finishedHeld' = FALSE
  /\ mpc' = after
  /\ UNCHANGED <<queueVars, taskVars, implVars, workerVars, after, arg>>

\* The regular implementation takes all tasks out of tasks_running, the last
\* in front,
RegularTakesAll ==
  /\ mpc = "gather" /\ impl = "regular"
  /\ gathering' = Reverse(running) /\ running' = << >>
  /\ mpc' = "handlers"
  /\ UNCHANGED <<finished, taskVars, implVars, workerVars, after, arg, lockVars>>

\* calls the handler of each once and puts it into the one list or the other,
RegularHandles ==
  /\ mpc = "handlers" /\ gathering /= << >>
  /\ LET t == Head(gathering) IN
       /\ calls' = [calls EXCEPT ![t] = @ + 1]
       /\ \E e \in Ends(t) : isFinished' = [isFinished EXCEPT ![t] = @ \/ e]
       /\ IF isFinished'[t]
            THEN finished' = Append(finished, t) /\ UNCHANGED running
            ELSE running' = Append(running, t) /\ UNCHANGED finished
  /\ gathering' = Tail(gathering)
  /\ UNCHANGED <<cancelled, pushed, done, implVars, workerVars, mainVars>>

\* and goes on to the callbacks.
RegularGathered ==
  /\ mpc = "handlers" /\ gathering = << >>
  /\ mpc' = "callbacks"
  /\ UNCHANGED <<queueVars, taskVars, implVars, workerVars, after, arg, lockVars>>

MainStep ==
  \/ PushRunning \/ Joined \/ CheckStarts \/ WaitTests
  \/ LockProperty \/ LockFinished \/ Callback \/ EndGather
  \/ RegularTakesAll \/ RegularHandles \/ RegularGathered

Next ==
  \/ WorkerStep \/ SpuriousWakeup
  \/ MainStep
  \/ \E t \in Tasks : Push(t) \/ Cancel(t)
  \/ Reset \/ Deinit \/ Check \/ Wait
  \/ \E on \in BOOLEAN : SetThreaded(on) \/ InitQueue(on)

Spec == Init /\ [][Next]_vars

\* The threads are scheduled, a lock that is free again and again is not kept
\* from the worker for ever, although task_queue_wait spins on it, and the
\* main loop calls task_queue_check again and again.
FairSpec ==
  /\ Spec
  /\ WF_vars(WorkerStep) /\ WF_vars(MainStep)
  /\ SF_vars(WorkerFinishes) /\ SF_vars(WorkerReadsFinished) /\ SF_vars(WorkerPutsFinished)
  /\ SF_vars(Check)

-----------------------------------------------------------------------------
(* Properties.                                                             *)

TypeOK ==
  /\ running \in Seq(Tasks) /\ finished \in Seq(Tasks) /\ gathering \in Seq(Tasks)
  /\ isFinished \in [Tasks -> BOOLEAN] /\ cancelled \in [Tasks -> BOOLEAN]
  /\ calls \in [Tasks -> 0 .. MaxCalls]
  /\ pushed \subseteq Tasks /\ done \subseteq Tasks
  /\ impl \in {"none", "regular", "threaded"} /\ threaded \in BOOLEAN
  /\ switches \in 0 .. MaxSwitches
  /\ workerContinue \in BOOLEAN
  /\ wpc \in {"none", "top", "front", "asleep", "handle", "finish", "read", "remove",
              "putRunning", "putFinished", "exited"}
  /\ cur \in Tasks \cup {NoTask} /\ fin \in BOOLEAN
  /\ mpc \in {"idle", "push", "join", "start", "gather", "test", "lockFinished",
              "handlers", "callbacks"}
  /\ after \in {"idle", "start", "test"} /\ arg \in Tasks \cup {NoTask}
  /\ propertyHeld \in BOOLEAN /\ finishedHeld \in BOOLEAN

\* The worker has taken the task out of tasks_running and not yet put it into
\* either list.
InHand(t) == cur = t /\ wpc \in {"putRunning", "putFinished"}
Hand == {t \in Tasks : InHand(t)}

\* No task is lost, doubled or freed too early, across both lists, the gather's
\* own, the hand of the worker and changes of the implementation with tasks
\* under way: a pushed task is in exactly one place until its callback has run,
\* and the worker has nothing to do with a task that is freed.
OnePlace ==
  /\ IsInjective(running) /\ IsInjective(finished) /\ IsInjective(gathering)
  /\ ToSet(running) \cap ToSet(finished) = {}
  /\ ToSet(gathering) \cap (ToSet(running) \cup ToSet(finished)) = {}
  /\ Hand \cap (ToSet(running) \cup ToSet(finished) \cup ToSet(gathering)) = {}
  /\ ToSet(running) \cup ToSet(finished) \cup ToSet(gathering) \cup Hand = pushed \ done
  /\ cur \notin done

\* task_queue_remove finds the task at the head of tasks_running, although
\* others were pushed since it was taken, so its search through the list,
\* which holds queue_lock no longer, never runs.
RemovesFront == wpc = "remove" => running /= << >> /\ Head(running) = cur

\* The callback of a task runs after its handler reported the end and is over.
CallbackAfterEnd ==
  \A t \in Tasks : (t \in done => isFinished[t]) /\ (t \in ToSet(finished) => isFinished[t] /\ cur /= t)

\* The handler of a task that has reported the end is not called again,
\* whichever thread called it last.
NoCallAfterEnd == [][\A t \in Tasks : calls'[t] > calls[t] => ~isFinished[t] /\ t \notin done]_vars

\* When task_queue_wait returns, every task it may have left unfinished is the
\* one the worker has in its hand, which tasks_running does not show.
WaitLeavesInHand ==
  [][mpc = "test" /\ mpc' = "idle" => \A t \in pushed : isFinished[t] \/ InHand(t)]_vars

\* The worker missed the only signal it would ever get.
Hung == mpc = "join" /\ wpc = "asleep"

\* Every task pushed has its callback run, whatever is pushed, cancelled or
\* switched meanwhile, unless the main thread hangs.
EveryTaskCalledBack == \A t \in Tasks : t \in pushed ~> t \in done \/ Hung

\* Every call of the main thread returns, with the locks it holds across the
\* callbacks and the worker it waits for, unless it hangs.
CallsReturn == mpc /= "idle" ~> mpc = "idle" \/ Hung

\* "Blocks until all tasks have finished", as task_queue.h says of
\* task_queue_wait.
WaitMeansFinished ==
  [][mpc = "test" /\ mpc' = "idle" => \A t \in pushed : isFinished[t]]_vars

\* worker_continue is not missed: "use running_lock when touching it", says its
\* declaration.  A worker told to end does not go to sleep.
ToldIsSeen == ~Hung
=============================================================================
