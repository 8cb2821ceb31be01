------------------------------- MODULE WinCond -------------------------------
(***************************************************************************)
(* The condition variable of rthreads.c for Windows, built from a critical *)
(* section, two auto-reset events and a queue of the waiting threads.  The *)
(* first of the queue waits for `event`; the others toss the hot potato    *)
(* around, to find out when they have become the first.                    *)
(*                                                                         *)
(* What a waiter does inside the critical section is one step.  A signal,  *)
(* which may be sent without the lock, holds it over two; a broadcast does *)
(* not take it at all.                                                     *)
(***************************************************************************)
EXTENDS Naturals, Sequences, SequencesExt

CONSTANTS
  Threads,
  NoThread,
  Racy,        \* may a signal sent without the lock overlap a broadcast
  MaxWakens    \* bound: wakens beyond which nobody signals

ASSUME ThreadsAssumption == NoThread \notin Threads
ASSUME RacyAssumption    == Racy \in BOOLEAN /\ MaxWakens \in Nat

VARIABLES
  lock,        \* who holds the lock of the caller
  cs,          \* who holds cond->cs between two steps
  event,       \* cond->event
  potato,      \* cond->hot_potato
  queue,       \* the list from cond->head
  waiters,     \* cond->waiters
  wakens,      \* cond->wakens
  pc,          \* where each thread is
  timed,       \* does its wait have a timeout
  waitResult,  \* what its wait for an event returned
  seen,        \* the value of wakens a signal increments
  owed         \* history: waiters a signal or broadcast was meant for

condVars   == <<event, potato, queue, waiters, wakens>>
threadVars == <<pc, timed, waitResult, seen>>
vars       == <<lock, cs, condVars, threadVars, owed>>

Init ==
  /\ lock = NoThread /\ cs = NoThread
  /\ event = FALSE /\ potato = FALSE
  /\ queue = << >> /\ waiters = 0 /\ wakens = 0
  /\ pc = [t \in Threads |-> "out"]
  /\ timed = [t \in Threads |-> FALSE]
  /\ waitResult = [t \in Threads |-> TRUE]
  /\ seen = [t \in Threads |-> 0]
  /\ owed = {}

Goto(t, l) == pc' = [pc EXCEPT ![t] = l]

-----------------------------------------------------------------------------
(* The caller's lock.                                                      *)

Enter(t) ==
  /\ pc[t] = "out" /\ lock = NoThread
  /\ lock' = t /\ Goto(t, "in")
  /\ UNCHANGED <<cs, condVars, timed, waitResult, seen, owed>>

Leave(t) ==
  /\ pc[t] = "in"
  /\ lock' = NoThread /\ Goto(t, "out")
  /\ UNCHANGED <<cs, condVars, timed, waitResult, seen, owed>>

-----------------------------------------------------------------------------
(* Waiting.                                                                *)

\* Mutant: the potato is tossed on only by its first catcher.
NoToss == potato

\* Before it lets the others go, a thread whose turn it is not keeps the potato
\* in play as long as somebody is to be woken.
Toss == potato \/ wakens > 0

\* The first thread waits for the event and any other one for the potato.
TakeTurn(t, q) ==
  IF Head(q) = t THEN Goto(t, "event") /\ UNCHANGED potato
                 ELSE Goto(t, "potato") /\ potato' = Toss

\* The thread lines up, and releases the lock.
Wait(t, withTimeout) ==
  /\ pc[t] = "in" /\ cs = NoThread
  /\ queue' = Append(queue, t)
  /\ waiters' = waiters + 1
  /\ timed' = [timed EXCEPT ![t] = withTimeout]
  /\ TakeTurn(t, queue')
  /\ lock' = NoThread
  /\ UNCHANGED <<cs, event, wakens, waitResult, seen, owed>>

CatchPotato(t) ==
  /\ pc[t] = "potato" /\ potato
  /\ potato' = FALSE
  /\ waitResult' = [waitResult EXCEPT ![t] = TRUE]
  /\ Goto(t, "caught")
  /\ UNCHANGED <<lock, cs, event, queue, waiters, wakens, timed, seen, owed>>

PotatoTimeout(t) ==
  /\ pc[t] = "potato" /\ timed[t] /\ ~potato
  /\ waitResult' = [waitResult EXCEPT ![t] = FALSE]
  /\ Goto(t, "caught")
  /\ UNCHANGED <<lock, cs, condVars, timed, seen, owed>>

\* Back from the wait, with the lock; what it was waiting for is forgotten.
BackIn(t) ==
  /\ Goto(t, "in")
  /\ timed' = [timed EXCEPT ![t] = FALSE]
  /\ waitResult' = [waitResult EXCEPT ![t] = TRUE]

\* A thread comes out of its wait for an event with the lock, and then waits for
\* the critical section.
TakeLock(t) ==
  /\ pc[t] \in {"caught", "signalled"} /\ lock = NoThread
  /\ lock' = t
  /\ UNCHANGED <<cs, condVars, threadVars, owed>>

\* The list without t.
After(q, t) == RemoveAt(q, CHOOSE i \in DOMAIN q : q[i] = t)

\* Mutant: whoever holds the potato takes it to be its turn.
HolderIsFirst(t) ==
  /\ pc[t] = "caught" /\ lock = t /\ cs = NoThread
  /\ waitResult[t] \/ Head(queue) = t
  /\ Goto(t, "event")
  /\ lock' = NoThread
  /\ UNCHANGED <<cs, event, potato, queue, waiters, wakens, timed, waitResult, seen, owed>>

\* A thread back from the wait for the potato: out of time, it goes unless it
\* has become the first; otherwise it looks again whose turn it is.  A first
\* thread out of time waits for the event, but not for long.
LookAgain(t) ==
  /\ pc[t] = "caught" /\ lock = t /\ cs = NoThread
  /\ waitResult[t] \/ Head(queue) = t
  /\ TakeTurn(t, queue)
  /\ lock' = NoThread
  /\ UNCHANGED <<cs, event, queue, waiters, wakens, timed, waitResult, seen, owed>>

\* Mutant: the thread that goes is still counted.
GiveUpCounted(t) ==
  /\ pc[t] = "caught" /\ lock = t /\ cs = NoThread
  /\ ~waitResult[t] /\ Head(queue) /= t
  /\ queue' = After(queue, t)
  /\ owed' = owed \ {t}
  /\ BackIn(t)
  /\ UNCHANGED <<lock, cs, event, potato, waiters, wakens, seen>>

GiveUp(t) ==
  /\ pc[t] = "caught" /\ lock = t /\ cs = NoThread
  /\ ~waitResult[t] /\ Head(queue) /= t
  /\ queue' = After(queue, t)
  /\ waiters' = waiters - 1
  /\ owed' = owed \ {t}
  /\ BackIn(t)
  /\ UNCHANGED <<lock, cs, event, potato, wakens, seen>>

CatchEvent(t) ==
  /\ pc[t] = "event" /\ event
  /\ event' = FALSE
  /\ waitResult' = [waitResult EXCEPT ![t] = TRUE]
  /\ Goto(t, "signalled")
  /\ UNCHANGED <<lock, cs, potato, queue, waiters, wakens, timed, seen, owed>>

EventTimeout(t) ==
  /\ pc[t] = "event" /\ timed[t] /\ ~event
  /\ waitResult' = [waitResult EXCEPT ![t] = FALSE]
  /\ Goto(t, "signalled")
  /\ UNCHANGED <<lock, cs, condVars, timed, seen, owed>>

\* Mutant: the next thread finds the event taken.
WokenTakesEvent(t) ==
  /\ pc[t] = "signalled" /\ lock = t /\ cs = NoThread
  /\ waitResult[t]
  /\ queue' = Tail(queue)
  /\ waiters' = waiters - 1
  /\ wakens' = wakens - 1
  /\ potato' = (potato \/ wakens' > 0)
  /\ owed' = owed \ {t}
  /\ BackIn(t)
  /\ UNCHANGED <<lock, cs, event, seen>>

\* The first thread leaves the queue and makes way for the next.
Woken(t) ==
  /\ pc[t] = "signalled" /\ lock = t /\ cs = NoThread
  /\ waitResult[t]
  /\ queue' = Tail(queue)
  /\ waiters' = waiters - 1
  /\ wakens' = wakens - 1
  /\ event' = (event \/ wakens' > 0)
  /\ potato' = (potato \/ wakens' > 0)
  /\ owed' = owed \ {t}
  /\ BackIn(t)
  /\ UNCHANGED <<lock, cs, seen>>

\* Mutant: a thread that ran out of time takes a waken with it.
TimedOutTakesWaken(t) ==
  /\ pc[t] = "signalled" /\ lock = t /\ cs = NoThread
  /\ ~waitResult[t]
  /\ queue' = Tail(queue)
  /\ waiters' = waiters - 1
  /\ wakens' = wakens - 1
  /\ owed' = owed \ {t}
  /\ BackIn(t)
  /\ UNCHANGED <<lock, cs, event, potato, seen>>

TimedOut(t) ==
  /\ pc[t] = "signalled" /\ lock = t /\ cs = NoThread
  /\ ~waitResult[t]
  /\ queue' = Tail(queue)
  /\ waiters' = waiters - 1
  /\ owed' = owed \ {t}
  /\ BackIn(t)
  /\ UNCHANGED <<lock, cs, event, potato, wakens, seen>>

-----------------------------------------------------------------------------
(* Signalling, with the lock or without it.                                *)

Broadcasting == \E t \in Threads : pc[t] = "setWakens"

\* Back to where the thread was.
Return(t) == Goto(t, IF lock = t THEN "in" ELSE "out")

\* scond_signal: without waiters nothing happens.
SignalNobody(t) ==
  /\ pc[t] \in {"in", "out"} /\ cs = NoThread /\ waiters = 0
  /\ UNCHANGED vars

BeginSignal(t) ==
  /\ pc[t] \in {"in", "out"} /\ cs = NoThread
  /\ Racy \/ ~Broadcasting
  /\ waiters /= 0 /\ wakens < MaxWakens
  /\ cs' = t
  /\ event' = (event \/ wakens = 0)
  /\ seen' = [seen EXCEPT ![t] = wakens]
  /\ Goto(t, "count")
  /\ UNCHANGED <<lock, potato, queue, waiters, wakens, timed, waitResult, owed>>

\* The signal is meant for the first waiter that no other one was meant for.
Meant ==
  {queue[i] : i \in {j \in DOMAIN queue :
                      queue[j] \notin owed /\ \A h \in 1 .. j - 1 : queue[h] \in owed}}

\* wakens++, and out of the critical section.
CountSignal(t) ==
  /\ pc[t] = "count"
  /\ wakens' = seen[t] + 1
  /\ cs' = NoThread
  /\ owed' = owed \cup Meant
  /\ seen' = [seen EXCEPT ![t] = 0]
  /\ Goto(t, "signalPotato")
  /\ UNCHANGED <<lock, event, potato, queue, waiters, timed, waitResult>>

\* Mutant: the potato is not put into play.
NoPotato(t) ==
  /\ pc[t] \in {"signalPotato", "broadcastPotato"}
  /\ Return(t)
  /\ UNCHANGED <<lock, cs, condVars, timed, waitResult, seen, owed>>

PutPotato(t) ==
  /\ pc[t] \in {"signalPotato", "broadcastPotato"}
  /\ potato' = TRUE
  /\ Return(t)
  /\ UNCHANGED <<lock, cs, event, queue, waiters, wakens, timed, waitResult, seen, owed>>

\* scond_broadcast, by the holder of the lock.
BeginBroadcast(t) ==
  /\ pc[t] = "in" /\ waiters /= 0 /\ waiters <= MaxWakens
  /\ Racy \/ cs = NoThread
  /\ event' = (event \/ wakens = 0)
  /\ Goto(t, "setWakens")
  /\ UNCHANGED <<lock, cs, potato, queue, waiters, wakens, timed, waitResult, seen, owed>>

\* Mutant: the first waiter is taken to be awake already.
SetWakensRest(t) ==
  /\ pc[t] = "setWakens"
  /\ wakens' = waiters - 1
  /\ owed' = ToSet(queue)
  /\ Goto(t, "broadcastPotato")
  /\ UNCHANGED <<lock, cs, event, potato, queue, waiters, timed, waitResult, seen>>

SetWakens(t) ==
  /\ pc[t] = "setWakens"
  /\ wakens' = waiters
  /\ owed' = ToSet(queue)
  /\ Goto(t, "broadcastPotato")
  /\ UNCHANGED <<lock, cs, event, potato, queue, waiters, timed, waitResult, seen>>

-----------------------------------------------------------------------------

\* The steps of a thread that is in a call.
InCall(t) ==
  \/ PotatoTimeout(t) \/ EventTimeout(t)
  \/ CountSignal(t) \/ PutPotato(t) \/ SetWakens(t)

\* Those for which it needs an event or the lock.
Resume(t) ==
  \/ CatchPotato(t) \/ CatchEvent(t) \/ TakeLock(t)
  \/ LookAgain(t) \/ GiveUp(t) \/ Woken(t) \/ TimedOut(t)

Step(t) ==
  \/ Enter(t) \/ Leave(t)
  \/ \E withTimeout \in BOOLEAN : Wait(t, withTimeout)
  \/ SignalNobody(t) \/ BeginSignal(t) \/ BeginBroadcast(t)
  \/ InCall(t) \/ Resume(t)

Next == \E t \in Threads : Step(t)

Spec == Init /\ [][Next]_vars

\* A thread that holds the lock lets it go in the end, and one that tries
\* again and again for the lock or for an event gets it in the end: Windows
\* lets the threads that wait for an object go in the order they came.
FairSpec ==
  /\ Spec
  /\ \A t \in Threads : WF_vars(InCall(t)) /\ SF_vars(Resume(t)) /\ SF_vars(Leave(t))

-----------------------------------------------------------------------------
(* What must hold of it.                                                   *)

TypeOK ==
  /\ lock \in Threads \cup {NoThread} /\ cs \in Threads \cup {NoThread}
  /\ event \in BOOLEAN /\ potato \in BOOLEAN
  /\ queue \in Seq(Threads) /\ waiters \in Nat /\ wakens \in Nat
  /\ pc \in [Threads -> {"out", "in", "potato", "caught", "event", "signalled",
                         "count", "signalPotato", "setWakens", "broadcastPotato"}]
  /\ timed \in [Threads -> BOOLEAN] /\ waitResult \in [Threads -> BOOLEAN]
  /\ seen \in [Threads -> Nat] /\ owed \subseteq Threads

Waiting(t) == pc[t] \in {"potato", "caught", "event", "signalled"}

\* The list holds the threads that are in a wait, each of them once, and
\* waiters counts them (_scond_wait_win32 links its entry on its own stack, so
\* one left behind would dangle).
QueueHoldsWaiters ==
  /\ ToSet(queue) = {t \in Threads : Waiting(t)}
  /\ IsInjective(queue)
  /\ waiters = Len(queue)

\* Only the head of the queue waits for cond->event ("We're the only waiter
\* waiting on the event right now").
OneAtEvent ==
  \A t \in Threads : pc[t] \in {"event", "signalled"} => Head(queue) = t

\* As long as there are wakens, the event is set or the head has taken it.
EventStandsForWakens ==
  wakens > 0 =>
    \/ event
    \/ queue /= << >> /\ pc[Head(queue)] = "signalled" /\ waitResult[Head(queue)]

\* As long as there are wakens, a head that does not know it is one yet will be
\* told: the potato is in play, somebody holds it, or is about to put it there.
PotatoInPlay ==
  wakens > 0 /\ queue /= << >> /\ pc[Head(queue)] = "potato" =>
    \/ potato
    \/ \E t \in Threads : pc[t] \in {"signalPotato", "broadcastPotato"}
    \/ \E t \in Threads : pc[t] = "caught" /\ waitResult[t]

\* A waiter that a signal or broadcast was meant for is not passed over: with
\* those in front of it there are wakens enough.
OwedAreCovered ==
  \A i \in DOMAIN queue : queue[i] \in owed => i <= wakens

\* It is a condition variable that wakes its waiters in the order they came.
Abstract == INSTANCE CondVar WITH permits <- wakens
ImplementsCondVar == Abstract!Spec

\* A waiter that a signal or broadcast was meant for gets out of its wait.
OwedGetOut == \A t \in Threads : t \in owed ~> t \notin owed
=============================================================================
