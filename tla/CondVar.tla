------------------------------- MODULE CondVar -------------------------------
(***************************************************************************)
(* A condition variable that wakes its waiters in the order they came.  A  *)
(* signal leaves a permit behind when somebody waits, and a broadcast one  *)
(* for everybody; only the first waiter may take one, and what a waiter    *)
(* that gave up did not take is left to the next.                          *)
(***************************************************************************)
EXTENDS Naturals, Sequences, SequencesExt

CONSTANT Threads

VARIABLES
  queue,     \* the threads waiting
  permits    \* how many of them may go

vars == <<queue, permits>>

Init == queue = << >> /\ permits = 0

Wait(t) ==
  /\ t \notin ToSet(queue)
  /\ queue' = Append(queue, t)
  /\ UNCHANGED permits

Signal ==
  /\ queue /= << >>
  /\ permits' = permits + 1
  /\ UNCHANGED queue

\* Whoever waits may go.
Broadcast ==
  /\ queue /= << >>
  /\ permits' = Len(queue)
  /\ UNCHANGED queue

Wake ==
  /\ queue /= << >> /\ permits > 0
  /\ queue' = Tail(queue)
  /\ permits' = permits - 1

GiveUp(t) ==
  /\ \E i \in DOMAIN queue : queue[i] = t /\ queue' = RemoveAt(queue, i)
  /\ UNCHANGED permits

Next == Signal \/ Broadcast \/ Wake \/ \E t \in Threads : Wait(t) \/ GiveUp(t)

\* A permit does not lie unused while somebody waits.
Fairness == WF_vars(permits > 0 /\ (Wake \/ \E t \in Threads : GiveUp(t)))

Spec == Init /\ [][Next]_vars /\ Fairness
=============================================================================
