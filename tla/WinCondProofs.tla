---------------------------- MODULE WinCondProofs ----------------------------
(***************************************************************************)
(* The condition variable of rthreads.c for any number of threads: its     *)
(* list of waiters whatever the callers do, and the order of wakings when  *)
(* a signal without the lock does not meet a broadcast.                    *)
(***************************************************************************)
EXTENDS WinCond, SequenceTheorems, TLAPS

-----------------------------------------------------------------------------
(* The list.                                                               *)

\* A thread that lines up comes last.
LEMMA AppendQueue ==
  ASSUME NEW q \in Seq(Threads), IsInjective(q), NEW t \in Threads, t \notin ToSet(q)
  PROVE  /\ Append(q, t) \in Seq(Threads) /\ Append(q, t) /= << >>
         /\ Len(Append(q, t)) = Len(q) + 1 /\ Len(q) \in Nat
         /\ \A i \in 1 .. Len(q) : Append(q, t)[i] = q[i]
         /\ Append(q, t)[Len(q) + 1] = t
         /\ ToSet(Append(q, t)) = ToSet(q) \cup {t}
         /\ IsInjective(Append(q, t))
         /\ Head(Append(q, t)) = IF q = << >> THEN t ELSE Head(q)
<1> DEFINE r == Append(q, t)
<1>1. /\ r \in Seq(Threads) /\ r /= << >> /\ Len(r) = Len(q) + 1 /\ Len(q) \in Nat
      /\ \A i \in 1 .. Len(q) : r[i] = q[i]
      /\ r[Len(q) + 1] = t
      /\ DOMAIN r = 1 .. Len(q) + 1 /\ DOMAIN q = 1 .. Len(q)
      /\ Head(r) = IF q = << >> THEN t ELSE Head(q)
  OBVIOUS
<1> HIDE DEF r
<1>2. ToSet(r) = ToSet(q) \cup {t}
  BY <1>1 DEF ToSet
<1>3. IsInjective(r)
  BY <1>1 DEF IsInjective, ToSet
<1> QED
  BY <1>1, <1>2, <1>3 DEF r

\* The first thread leaves; no other one is at the front of two.
LEMMA TailQueue ==
  ASSUME NEW q \in Seq(Threads), IsInjective(q), q /= << >>
  PROVE  /\ Tail(q) \in Seq(Threads)
         /\ Len(Tail(q)) = Len(q) - 1 /\ Len(q) \in Nat /\ Len(q) >= 1
         /\ \A i \in 1 .. Len(q) - 1 : Tail(q)[i] = q[i + 1]
         /\ Head(q) = q[1] /\ Head(q) \in Threads
         /\ ToSet(Tail(q)) = ToSet(q) \ {Head(q)}
         /\ IsInjective(Tail(q))
<1> DEFINE r == Tail(q)
<1>1. /\ r \in Seq(Threads)
      /\ Len(r) = Len(q) - 1 /\ Len(q) \in Nat /\ Len(q) >= 1
      /\ \A i \in 1 .. Len(q) - 1 : r[i] = q[i + 1]
      /\ Head(q) = q[1] /\ Head(q) \in Threads
      /\ DOMAIN r = 1 .. Len(q) - 1 /\ DOMAIN q = 1 .. Len(q)
  OBVIOUS
<1> HIDE DEF r
<1>2. ToSet(r) = ToSet(q) \ {Head(q)}
  <2>1. ASSUME NEW x \in ToSet(r)
        PROVE  x \in ToSet(q) /\ x /= Head(q)
    <3>1. PICK i \in 1 .. Len(q) - 1 : x = r[i]
      BY <1>1 DEF ToSet
    <3>2. x = q[i + 1] /\ i + 1 \in DOMAIN q /\ i + 1 /= 1 /\ 1 \in DOMAIN q
      BY <1>1, <3>1
    <3> QED
      BY <1>1, <3>2 DEF ToSet, IsInjective
  <2>2. ASSUME NEW x \in ToSet(q), x /= Head(q)
        PROVE  x \in ToSet(r)
    <3>1. PICK i \in 1 .. Len(q) : x = q[i]
      BY <1>1 DEF ToSet
    <3>2. i - 1 \in 1 .. Len(q) - 1 /\ (i - 1) + 1 = i
      BY <1>1, <2>2, <3>1
    <3>3. r[i - 1] = x /\ i - 1 \in DOMAIN r
      BY <1>1, <3>1, <3>2
    <3> QED
      BY <3>3 DEF ToSet
  <2> QED
    BY <2>1, <2>2
<1>3. IsInjective(r)
  <2> SUFFICES ASSUME NEW i \in 1 .. Len(q) - 1, NEW j \in 1 .. Len(q) - 1, r[i] = r[j]
               PROVE  i = j
    BY <1>1 DEF IsInjective
  <2>1. q[i + 1] = q[j + 1] /\ i + 1 \in DOMAIN q /\ j + 1 \in DOMAIN q
    BY <1>1
  <2>2. i + 1 = j + 1
    BY <2>1 DEF IsInjective
  <2> QED
    BY <2>2
<1> QED
  BY <1>1, <1>2, <1>3 DEF r

\* Removing one position of a list.
LEMMA RemoveAtFacts ==
  ASSUME NEW q \in Seq(Threads), NEW p \in 1 .. Len(q)
  PROVE  /\ RemoveAt(q, p) \in Seq(Threads)
         /\ Len(RemoveAt(q, p)) = Len(q) - 1
         /\ \A i \in 1 .. Len(q) - 1 : RemoveAt(q, p)[i] = q[IF i < p THEN i ELSE i + 1]
<1> DEFINE a == SubSeq(q, 1, p - 1)
           b == SubSeq(q, p + 1, Len(q))
<1>1. a \in Seq(Threads) /\ Len(a) = p - 1 /\ \A i \in 1 .. p - 1 : a[i] = q[i]
  OBVIOUS
<1>2. b \in Seq(Threads) /\ Len(b) = Len(q) - p /\ \A i \in 1 .. Len(q) - p : b[i] = q[p + i]
  OBVIOUS
<1> HIDE DEF a, b
<1>3. /\ a \o b \in Seq(Threads)
      /\ Len(a \o b) = Len(a) + Len(b)
      /\ \A i \in 1 .. Len(a) + Len(b) : (a \o b)[i] = IF i <= Len(a) THEN a[i] ELSE b[i - Len(a)]
  BY <1>1, <1>2, ConcatProperties
<1>4. \A i \in 1 .. Len(q) - 1 : (a \o b)[i] = q[IF i < p THEN i ELSE i + 1]
  BY <1>1, <1>2, <1>3, SMTT(20)
<1>5. Len(a \o b) = Len(q) - 1
  BY <1>1, <1>2, <1>3
<1> QED
  BY <1>3, <1>4, <1>5 DEF RemoveAt, a, b

\* The thread that gives up leaves its place; those behind it move up.
LEMMA AfterQueue ==
  ASSUME NEW q \in Seq(Threads), IsInjective(q), NEW t \in ToSet(q)
  PROVE  /\ After(q, t) \in Seq(Threads)
         /\ Len(After(q, t)) = Len(q) - 1
         /\ ToSet(After(q, t)) = ToSet(q) \ {t}
         /\ IsInjective(After(q, t))
         /\ \E p \in 1 .. Len(q) : /\ q[p] = t /\ After(q, t) = RemoveAt(q, p)
                                   /\ \A i \in 1 .. Len(q) - 1 : After(q, t)[i] = q[IF i < p THEN i ELSE i + 1]
         /\ Head(q) /= t => After(q, t) /= << >> /\ Head(After(q, t)) = Head(q)
<1> DEFINE p == CHOOSE i \in DOMAIN q : q[i] = t
           r == RemoveAt(q, p)
<1>1. \E i \in DOMAIN q : q[i] = t
  BY DEF ToSet
<1>2. p \in 1 .. Len(q) /\ q[p] = t /\ DOMAIN q = 1 .. Len(q) /\ Len(q) \in Nat
  BY <1>1
<1> HIDE DEF p
<1>3. /\ r \in Seq(Threads) /\ Len(r) = Len(q) - 1
      /\ \A i \in 1 .. Len(q) - 1 : r[i] = q[IF i < p THEN i ELSE i + 1]
  BY <1>2, RemoveAtFacts
<1> HIDE DEF r
<1>4. DOMAIN r = 1 .. Len(q) - 1
  BY <1>3
<1>5. ToSet(r) = ToSet(q) \ {t}
  <2>1. ASSUME NEW x \in ToSet(r)
        PROVE  x \in ToSet(q) /\ x /= t
    <3>1. PICK i \in 1 .. Len(q) - 1 : x = r[i]
      BY <1>4 DEF ToSet
    <3> DEFINE j == IF i < p THEN i ELSE i + 1
    <3>2. x = q[j] /\ j \in DOMAIN q /\ j /= p /\ p \in DOMAIN q
      BY <1>2, <1>3, <3>1
    <3> HIDE DEF j
    <3> QED
      BY <1>2, <3>2 DEF ToSet, IsInjective
  <2>2. ASSUME NEW x \in ToSet(q), x /= t
        PROVE  x \in ToSet(r)
    <3>1. PICK i \in 1 .. Len(q) : x = q[i]
      BY <1>2 DEF ToSet
    <3>2. i /= p
      BY <1>2, <2>2, <3>1
    <3> DEFINE j == IF i < p THEN i ELSE i - 1
    <3>3. j \in 1 .. Len(q) - 1 /\ i = IF j < p THEN j ELSE j + 1
      BY <1>2, <3>2
    <3>4. r[j] = x /\ j \in DOMAIN r
      BY <1>3, <1>4, <3>1, <3>3
    <3> QED
      BY <3>4 DEF ToSet
  <2> QED
    BY <2>1, <2>2
<1>6. IsInjective(r)
  <2> SUFFICES ASSUME NEW i \in 1 .. Len(q) - 1, NEW j \in 1 .. Len(q) - 1, r[i] = r[j]
               PROVE  i = j
    BY <1>4 DEF IsInjective
  <2> DEFINE m == IF i < p THEN i ELSE i + 1
             n == IF j < p THEN j ELSE j + 1
  <2>1. q[m] = q[n] /\ m \in DOMAIN q /\ n \in DOMAIN q
    BY <1>2, <1>3
  <2>2. m = n => i = j
    BY <1>2
  <2> HIDE DEF m, n
  <2> QED
    BY <2>1, <2>2 DEF IsInjective
<1>7. ASSUME Head(q) /= t
      PROVE  r /= << >> /\ Head(r) = Head(q)
  <2>1. Head(q) = q[1]
    BY <1>2
  <2>2. 1 < p /\ 1 \in 1 .. Len(q) - 1
    BY <1>2, <1>7, <2>1
  <2>3. r[1] = q[1] /\ Len(r) >= 1
    BY <1>2, <1>3, <2>2
  <2> QED
    BY <1>3, <2>1, <2>3
<1>8. After(q, t) = r
  BY DEF After, r, p
<1> QED
  BY <1>2, <1>3, <1>5, <1>6, <1>7, <1>8 DEF r

-----------------------------------------------------------------------------
(* What holds whatever the callers do.                                     *)

Places == {"out", "in", "potato", "caught", "event", "signalled",
           "count", "signalPotato", "setWakens", "broadcastPotato"}

\* The types of all but the counters of wakens.
BasicTypes ==
  /\ lock \in Threads \cup {NoThread} /\ cs \in Threads \cup {NoThread}
  /\ event \in BOOLEAN /\ potato \in BOOLEAN
  /\ queue \in Seq(Threads) /\ waiters \in Nat
  /\ pc \in [Threads -> Places]
  /\ timed \in [Threads -> BOOLEAN] /\ waitResult \in [Threads -> BOOLEAN]
  /\ owed \subseteq Threads

\* Where a thread may be that holds a lock, and where it must hold one.
LockInv ==
  \A t \in Threads :
    /\ pc[t] \in {"in", "setWakens", "broadcastPotato"} => lock = t
    /\ lock = t => pc[t] \notin {"out", "potato", "event"}
    /\ cs = t <=> pc[t] = "count"

ListInv == BasicTypes /\ LockInv /\ QueueHoldsWaiters /\ OneAtEvent

\* A waiter in the list, and the list it is in.
LEMMA InList ==
  ASSUME ListInv, NEW t \in Threads, Waiting(t)
  PROVE  t \in ToSet(queue) /\ queue /= << >>
BY DEF ListInv, BasicTypes, QueueHoldsWaiters, ToSet

\* Every step keeps the types and the holders of the two locks.
LEMMA BasicStep ==
  ASSUME ListInv, [Next]_vars
  PROVE  BasicTypes' /\ LockInv'
<1> USE ThreadsAssumption DEF ListInv, BasicTypes, LockInv, Places, Goto
<1>1. ASSUME NEW t \in Threads, Enter(t) \/ Leave(t)
      PROVE  BasicTypes' /\ LockInv'
  BY <1>1 DEF Enter, Leave, condVars
<1>2. ASSUME NEW t \in Threads, NEW b \in BOOLEAN, Wait(t, b)
      PROVE  BasicTypes' /\ LockInv'
  <2>1. queue' \in Seq(Threads) /\ waiters' \in Nat
    BY <1>2 DEF Wait
  <2>2. potato' \in BOOLEAN /\ \E l \in {"event", "potato"} : pc' = [pc EXCEPT ![t] = l]
    BY <1>2 DEF Wait, TakeTurn, Toss
  <2> QED
    BY <1>2, <2>1, <2>2 DEF Wait
<1>3. ASSUME NEW t \in Threads, CatchPotato(t) \/ PotatoTimeout(t) \/ CatchEvent(t) \/ EventTimeout(t)
      PROVE  BasicTypes' /\ LockInv'
  <2>1. /\ \E l \in {"caught", "signalled"} : pc' = [pc EXCEPT ![t] = l]
        /\ \E r \in BOOLEAN : waitResult' = [waitResult EXCEPT ![t] = r]
    BY <1>3 DEF CatchPotato, PotatoTimeout, CatchEvent, EventTimeout
  <2>2. potato' \in BOOLEAN /\ event' \in BOOLEAN /\ pc[t] \in {"potato", "event"}
    BY <1>3 DEF CatchPotato, PotatoTimeout, CatchEvent, EventTimeout, condVars
  <2>3. UNCHANGED <<lock, cs, queue, waiters, wakens, timed, seen, owed>>
    BY <1>3 DEF CatchPotato, PotatoTimeout, CatchEvent, EventTimeout, condVars
  <2> QED
    BY <2>1, <2>2, <2>3
<1>4. ASSUME NEW t \in Threads, TakeLock(t)
      PROVE  BasicTypes' /\ LockInv'
  BY <1>4 DEF TakeLock, condVars, threadVars
<1>5. ASSUME NEW t \in Threads, LookAgain(t)
      PROVE  BasicTypes' /\ LockInv'
  <2>1. potato' \in BOOLEAN /\ \E l \in {"event", "potato"} : pc' = [pc EXCEPT ![t] = l]
    BY <1>5 DEF LookAgain, TakeTurn, Toss
  <2> QED
    BY <1>5, <2>1 DEF LookAgain
<1>6. ASSUME NEW t \in Threads, GiveUp(t)
      PROVE  BasicTypes' /\ LockInv'
  <2>1. t \in ToSet(queue) /\ queue /= << >>
    BY <1>6, InList DEF GiveUp, Waiting
  <2>2. queue' \in Seq(Threads) /\ waiters' \in Nat
    BY <1>6, <2>1, AfterQueue DEF GiveUp, QueueHoldsWaiters
  <2> QED
    BY <1>6, <2>2 DEF GiveUp, BackIn
<1>7. ASSUME NEW t \in Threads, Woken(t) \/ TimedOut(t)
      PROVE  BasicTypes' /\ LockInv'
  <2>1. t \in ToSet(queue) /\ queue /= << >>
    BY <1>7, InList DEF Woken, TimedOut, Waiting
  <2>2. /\ queue' = Tail(queue) /\ waiters' = waiters - 1 /\ BackIn(t)
        /\ UNCHANGED <<lock, cs>> /\ lock = t /\ cs = NoThread /\ pc[t] = "signalled"
        /\ owed' = owed \ {t}
    BY <1>7 DEF Woken, TimedOut
  <2>3. queue' \in Seq(Threads)
    BY <2>1, <2>2
  <2>4. waiters' \in Nat
    BY <2>1, <2>2 DEF QueueHoldsWaiters
  <2>5. event' \in BOOLEAN /\ potato' \in BOOLEAN
    BY <1>7 DEF Woken, TimedOut
  <2> QED
    BY <2>2, <2>3, <2>4, <2>5 DEF BackIn
<1>8. ASSUME NEW t \in Threads, BeginSignal(t) \/ BeginBroadcast(t)
      PROVE  BasicTypes' /\ LockInv'
  <2>1. event' \in BOOLEAN
    BY <1>8 DEF BeginSignal, BeginBroadcast
  <2>2. CASE BeginSignal(t)
    BY <2>1, <2>2 DEF BeginSignal
  <2>3. CASE BeginBroadcast(t)
    BY <2>1, <2>3 DEF BeginBroadcast
  <2> QED
    BY <1>8, <2>2, <2>3
<1>9. ASSUME NEW t \in Threads, CountSignal(t)
      PROVE  BasicTypes' /\ LockInv'
  <2>1. Meant \subseteq Threads
    BY DEF Meant
  <2> QED
    BY <1>9, <2>1 DEF CountSignal
<1>10. ASSUME NEW t \in Threads, SetWakens(t)
       PROVE  BasicTypes' /\ LockInv'
  <2>1. ToSet(queue) \subseteq Threads
    BY DEF ToSet
  <2> QED
    BY <1>10, <2>1 DEF SetWakens
<1>11. ASSUME NEW t \in Threads, PutPotato(t)
       PROVE  BasicTypes' /\ LockInv'
  <2>1. \E l \in {"in", "out"} : pc' = [pc EXCEPT ![t] = l] /\ (l = "in" <=> lock = t)
    BY <1>11 DEF PutPotato, Return
  <2> QED
    BY <1>11, <2>1 DEF PutPotato
<1>12. CASE UNCHANGED vars
  BY <1>12 DEF vars, condVars, threadVars
<1> QED
  BY <1>1, <1>2, <1>3, <1>4, <1>5, <1>6, <1>7, <1>8, <1>9, <1>10, <1>11, <1>12
  DEF Next, Step, InCall, Resume, SignalNobody

\* A step that keeps the list and leaves every thread in, or out of, its wait.
LEMMA ListKept ==
  ASSUME ListInv, UNCHANGED <<queue, waiters>>,
         \A t \in Threads : Waiting(t)' <=> Waiting(t)
  PROVE  QueueHoldsWaiters'
BY DEF ListInv, QueueHoldsWaiters

\* Every step keeps the list to the waiters, each there once.
LEMMA QueueStep ==
  ASSUME ListInv, [Next]_vars
  PROVE  QueueHoldsWaiters' /\ OneAtEvent'
<1> USE DEF ListInv, BasicTypes, Goto, Places
<1>1. ASSUME NEW t \in Threads, Enter(t) \/ Leave(t)
      PROVE  QueueHoldsWaiters' /\ OneAtEvent'
  BY <1>1, ListKept DEF Enter, Leave, condVars, Waiting, OneAtEvent
<1>2. ASSUME NEW t \in Threads, NEW b \in BOOLEAN, Wait(t, b)
      PROVE  QueueHoldsWaiters' /\ OneAtEvent'
  <2>1. pc[t] = "in" /\ queue' = Append(queue, t) /\ waiters' = waiters + 1 /\ TakeTurn(t, queue')
    BY <1>2 DEF Wait
  <2>2. t \notin ToSet(queue)
    BY <2>1 DEF QueueHoldsWaiters, Waiting
  <2>3. /\ Len(queue') = Len(queue) + 1 /\ ToSet(queue') = ToSet(queue) \cup {t} /\ IsInjective(queue')
        /\ Head(queue') = IF queue = << >> THEN t ELSE Head(queue)
    BY <2>1, <2>2, AppendQueue DEF QueueHoldsWaiters
  <2>4. \E l \in {"event", "potato"} : pc' = [pc EXCEPT ![t] = l] /\ (l = "event" <=> Head(queue') = t)
    BY <2>1 DEF TakeTurn
  <2>5. \A u \in Threads : Waiting(u)' <=> Waiting(u) \/ u = t
    BY <2>4 DEF Waiting
  <2>6. QueueHoldsWaiters'
    BY <2>1, <2>3, <2>5 DEF QueueHoldsWaiters
  <2>7. OneAtEvent'
    BY <2>3, <2>4, InList DEF OneAtEvent, Waiting
  <2> QED
    BY <2>6, <2>7
<1>3. ASSUME NEW t \in Threads, CatchPotato(t) \/ PotatoTimeout(t) \/ CatchEvent(t) \/ EventTimeout(t)
      PROVE  QueueHoldsWaiters' /\ OneAtEvent'
  <2>1. UNCHANGED <<queue, waiters>> /\ \A u \in Threads : Waiting(u)' <=> Waiting(u)
    BY <1>3 DEF CatchPotato, PotatoTimeout, CatchEvent, EventTimeout, condVars, Waiting
  <2>2. \A u \in Threads : pc'[u] \in {"event", "signalled"} => pc[u] \in {"event", "signalled"}
    BY <1>3 DEF CatchPotato, PotatoTimeout, CatchEvent, EventTimeout
  <2> QED
    BY <2>1, <2>2, ListKept DEF OneAtEvent
<1>4. ASSUME NEW t \in Threads, TakeLock(t)
      PROVE  QueueHoldsWaiters' /\ OneAtEvent'
  BY <1>4, ListKept DEF TakeLock, condVars, threadVars, Waiting, OneAtEvent
<1>5. ASSUME NEW t \in Threads, LookAgain(t)
      PROVE  QueueHoldsWaiters' /\ OneAtEvent'
  <2>1. \E l \in {"event", "potato"} : pc' = [pc EXCEPT ![t] = l] /\ (l = "event" <=> Head(queue) = t)
    BY <1>5 DEF LookAgain, TakeTurn
  <2>2. UNCHANGED <<queue, waiters>> /\ \A u \in Threads : Waiting(u)' <=> Waiting(u)
    BY <1>5, <2>1 DEF LookAgain, Waiting
  <2> QED
    BY <2>1, <2>2, ListKept DEF OneAtEvent
<1>6. ASSUME NEW t \in Threads, GiveUp(t)
      PROVE  QueueHoldsWaiters' /\ OneAtEvent'
  <2>1. /\ t \in ToSet(queue) /\ queue /= << >> /\ Head(queue) /= t
        /\ queue' = After(queue, t) /\ waiters' = waiters - 1 /\ pc' = [pc EXCEPT ![t] = "in"]
    BY <1>6, InList DEF GiveUp, Waiting, BackIn
  <2>2. /\ Len(queue') = Len(queue) - 1 /\ ToSet(queue') = ToSet(queue) \ {t} /\ IsInjective(queue')
        /\ Head(queue') = Head(queue)
    BY <2>1, AfterQueue DEF QueueHoldsWaiters
  <2>3. \A u \in Threads : Waiting(u)' <=> Waiting(u) /\ u /= t
    BY <2>1 DEF Waiting
  <2>4. QueueHoldsWaiters'
    BY <2>1, <2>2, <2>3 DEF QueueHoldsWaiters
  <2> QED
    BY <2>1, <2>2, <2>4 DEF OneAtEvent
<1>7. ASSUME NEW t \in Threads, Woken(t) \/ TimedOut(t)
      PROVE  QueueHoldsWaiters' /\ OneAtEvent'
  <2>1. /\ pc[t] = "signalled" /\ queue' = Tail(queue) /\ waiters' = waiters - 1
        /\ pc' = [pc EXCEPT ![t] = "in"]
    BY <1>7 DEF Woken, TimedOut, BackIn
  <2>2. queue /= << >> /\ Head(queue) = t
    BY <2>1, InList DEF Waiting, OneAtEvent
  <2>3. /\ Len(queue') = Len(queue) - 1 /\ ToSet(queue') = ToSet(queue) \ {t} /\ IsInjective(queue')
    BY <2>1, <2>2, TailQueue DEF QueueHoldsWaiters
  <2>4. \A u \in Threads : Waiting(u)' <=> Waiting(u) /\ u /= t
    BY <2>1 DEF Waiting
  <2>5. QueueHoldsWaiters'
    BY <2>1, <2>3, <2>4 DEF QueueHoldsWaiters
  <2> QED
    BY <2>1, <2>2, <2>5 DEF OneAtEvent
<1>8. ASSUME NEW t \in Threads,
             BeginSignal(t) \/ BeginBroadcast(t) \/ CountSignal(t) \/ SetWakens(t) \/ PutPotato(t)
      PROVE  QueueHoldsWaiters' /\ OneAtEvent'
  <2>1. /\ UNCHANGED <<queue, waiters>> /\ ~Waiting(t)
        /\ \E l \in {"count", "setWakens", "signalPotato", "broadcastPotato", "in", "out"} :
             pc' = [pc EXCEPT ![t] = l]
    BY <1>8 DEF BeginSignal, BeginBroadcast, CountSignal, SetWakens, PutPotato, Return, Waiting
  <2>2. \A u \in Threads : Waiting(u)' <=> Waiting(u)
    BY <2>1 DEF Waiting
  <2> QED
    BY <2>1, <2>2, ListKept DEF OneAtEvent
<1>9. CASE UNCHANGED vars
  BY <1>9, ListKept DEF vars, condVars, threadVars, Waiting, OneAtEvent
<1> QED
  BY <1>1, <1>2, <1>3, <1>4, <1>5, <1>6, <1>7, <1>8, <1>9 DEF Next, Step, InCall, Resume, SignalNobody

\* No thread waits at first.
LEMMA ListInit == Init => ListInv
<1> SUFFICES ASSUME Init PROVE ListInv
  OBVIOUS
<1>1. queue \in Seq(Threads) /\ waiters \in Nat
  BY DEF Init
<1>2. BasicTypes /\ LockInv
  BY <1>1, ThreadsAssumption DEF Init, BasicTypes, LockInv, Places
<1>3. ToSet(queue) = {} /\ IsInjective(queue) /\ Len(queue) = 0
  BY DEF Init, ToSet, IsInjective
<1>4. QueueHoldsWaiters /\ OneAtEvent
  BY <1>3 DEF Init, QueueHoldsWaiters, OneAtEvent, Waiting
<1> QED
  BY <1>2, <1>4 DEF ListInv

\* Whoever signals, with the lock or without it, and whoever runs out of time:
\* the locks, the list and the place at the event stay in order.
THEOREM ListInvariance == Spec => []ListInv
<1>1. ListInv /\ [Next]_vars => ListInv'
  BY BasicStep, QueueStep DEF ListInv
<1> QED
  BY <1>1, ListInit, PTL DEF Spec

\* The list holds the threads that wait, each of them once, and is counted.
THEOREM QueueHoldsWaitersHolds == Spec => []QueueHoldsWaiters
<1>1. ListInv => QueueHoldsWaiters
  BY DEF ListInv
<1> QED
  BY <1>1, ListInvariance, PTL

\* Only the first thread of the list is at the event.
THEOREM OneAtEventHolds == Spec => []OneAtEvent
<1>1. ListInv => OneAtEvent
  BY DEF ListInv
<1> QED
  BY <1>1, ListInvariance, PTL

-----------------------------------------------------------------------------
(* The wakens, when a signal without the lock does not meet a broadcast.   *)

\* The first thread has taken the event.
Taken == \E t \in Threads : pc[t] = "signalled" /\ waitResult[t]

\* A signal or broadcast has looked at the wakens and not written them yet.
Counting(t) == pc[t] \in {"count", "setWakens"}
Pending == \E t \in Threads : Counting(t)

\* The potato is in play, in somebody's hand, or about to be put into play.
Play ==
  \/ potato
  \/ \E t \in Threads : pc[t] \in {"signalPotato", "broadcastPotato"}
  \/ \E t \in Threads : pc[t] = "caught" /\ waitResult[t]

\* One thread writes the wakens at a time, there is somebody it is meant for,
\* and what a signal has read is still true when it writes.
CountInv ==
  /\ wakens \in Nat /\ seen \in [Threads -> Nat]
  /\ \A t \in Threads : Counting(t) => queue /= << >> /\ \A u \in Threads : Counting(u) => u = t
  /\ \A t \in Threads : pc[t] = "count" => seen[t] = wakens

\* The event stands for the wakens, those that are being written included, and
\* is set once: it is not set again while its catcher is on the way out.
EventInv ==
  /\ event \/ Taken <=> wakens > 0 \/ Pending
  /\ ~(event /\ Taken)

\* While there are wakens either the first thread waits for the event or has
\* taken it, or the potato goes round to tell it.
PotatoInv == wakens > 0 => Play \/ Taken \/ \E t \in Threads : pc[t] = "event"

OwedInv == owed \subseteq ToSet(queue) /\ OwedAreCovered

WakenInv == CountInv /\ EventInv /\ PotatoInv /\ OwedInv

\* A thread in the critical section for good is alone in writing the wakens.
LEMMA Alone ==
  ASSUME ListInv, NEW t \in Threads, cs = NoThread, lock = t, pc[t] /= "setWakens"
  PROVE  ~Pending
BY ThreadsAssumption DEF ListInv, BasicTypes, LockInv, Pending, Counting

\* The first thread, on its way out with the event, finds a waken.
LEMMA WokenFinds ==
  ASSUME ListInv, WakenInv, NEW t \in Threads, Woken(t)
  PROVE  /\ wakens \in Nat /\ wakens > 0 /\ ~Pending /\ ~event
         /\ queue /= << >> /\ Head(queue) = t
<1>1. Taken /\ cs = NoThread /\ lock = t /\ pc[t] = "signalled"
  BY DEF Woken, Taken
<1>2. ~Pending
  BY <1>1, Alone
<1>3. wakens \in Nat /\ wakens > 0 /\ ~event
  BY <1>1, <1>2 DEF WakenInv, EventInv, CountInv
<1>4. queue /= << >> /\ Head(queue) = t
  BY <1>1, InList DEF ListInv, OneAtEvent, Waiting
<1> QED
  BY <1>2, <1>3, <1>4

\* Every step keeps the count of those with a waken due.
LEMMA CountStep ==
  ASSUME ListInv, WakenInv, [Next]_vars, ~Racy
  PROVE  CountInv'
<1> USE DEF ListInv, BasicTypes, CountInv, WakenInv, Goto, Places, Counting
<1>1. ASSUME NEW t \in Threads,
             Enter(t) \/ Leave(t) \/ CatchPotato(t) \/ PotatoTimeout(t) \/ CatchEvent(t) \/ EventTimeout(t)
      PROVE  CountInv'
  BY <1>1 DEF Enter, Leave, CatchPotato, PotatoTimeout, CatchEvent, EventTimeout, condVars
<1>2. ASSUME NEW t \in Threads, NEW b \in BOOLEAN, Wait(t, b)
      PROVE  CountInv'
  <2>1. queue' /= << >> /\ UNCHANGED <<wakens, seen>>
    BY <1>2 DEF Wait
  <2>2. \E l \in {"event", "potato"} : pc' = [pc EXCEPT ![t] = l]
    BY <1>2 DEF Wait, TakeTurn
  <2> QED
    BY <2>1, <2>2
<1>3. ASSUME NEW t \in Threads, LookAgain(t)
      PROVE  CountInv'
  <2>1. \E l \in {"event", "potato"} : pc' = [pc EXCEPT ![t] = l]
    BY <1>3 DEF LookAgain, TakeTurn
  <2> QED
    BY <1>3, <2>1 DEF LookAgain
<1>4. ASSUME NEW t \in Threads, GiveUp(t) \/ TimedOut(t)
      PROVE  CountInv'
  <2>1. ~Pending
    BY <1>4, Alone DEF GiveUp, TimedOut
  <2> QED
    BY <1>4, <2>1 DEF GiveUp, TimedOut, BackIn, Pending
<1>5. ASSUME NEW t \in Threads, Woken(t)
      PROVE  CountInv'
  <2>1. ~Pending /\ wakens \in Nat /\ wakens > 0
    BY <1>5, WokenFinds
  <2> QED
    BY <1>5, <2>1 DEF Woken, BackIn, Pending
<1>6. ASSUME NEW t \in Threads, BeginSignal(t)
      PROVE  CountInv'
  <2>1. ~Pending
    BY <1>6, ThreadsAssumption DEF BeginSignal, Broadcasting, LockInv, Pending
  <2>2. queue /= << >>
    BY <1>6 DEF BeginSignal, QueueHoldsWaiters
  <2> QED
    BY <1>6, <2>1, <2>2 DEF BeginSignal, Pending
<1>7. ASSUME NEW t \in Threads, BeginBroadcast(t)
      PROVE  CountInv'
  <2>1. ~Pending
    BY <1>7, Alone DEF BeginBroadcast, LockInv
  <2>2. queue /= << >>
    BY <1>7 DEF BeginBroadcast, QueueHoldsWaiters
  <2> QED
    BY <1>7, <2>1, <2>2 DEF BeginBroadcast, Pending
<1>8. ASSUME NEW t \in Threads, CountSignal(t)
      PROVE  CountInv'
  BY <1>8 DEF CountSignal
<1>9. ASSUME NEW t \in Threads, SetWakens(t)
      PROVE  CountInv'
  BY <1>9 DEF SetWakens
<1>10. ASSUME NEW t \in Threads, PutPotato(t)
       PROVE  CountInv'
  <2>1. \E l \in {"in", "out"} : pc' = [pc EXCEPT ![t] = l]
    BY <1>10 DEF PutPotato, Return
  <2> QED
    BY <1>10, <2>1 DEF PutPotato
<1>11. ASSUME NEW t \in Threads, TakeLock(t)
       PROVE  CountInv'
  BY <1>11 DEF TakeLock, condVars, threadVars
<1>12. CASE UNCHANGED vars
  BY <1>12 DEF vars, condVars, threadVars
<1> QED
  BY <1>1, <1>2, <1>3, <1>4, <1>5, <1>6, <1>7, <1>8, <1>9, <1>10, <1>11, <1>12
  DEF Next, Step, InCall, Resume, SignalNobody

\* Every step keeps the event standing for wakens that are due.
LEMMA EventStep ==
  ASSUME ListInv, WakenInv, [Next]_vars, ~Racy
  PROVE  EventInv'
<1> USE DEF ListInv, BasicTypes, WakenInv, Goto, Places
<1>1. ASSUME NEW t \in Threads, Enter(t) \/ Leave(t) \/ CatchPotato(t) \/ PotatoTimeout(t)
      PROVE  EventInv'
  BY <1>1 DEF Enter, Leave, CatchPotato, PotatoTimeout, condVars, EventInv, Taken, Pending, Counting
<1>2. ASSUME NEW t \in Threads, NEW b \in BOOLEAN, Wait(t, b)
      PROVE  EventInv'
  <2>1. \E l \in {"event", "potato"} : pc' = [pc EXCEPT ![t] = l]
    BY <1>2 DEF Wait, TakeTurn
  <2>2. (Taken' <=> Taken) /\ (Pending' <=> Pending) /\ UNCHANGED <<event, wakens>>
    BY <1>2, <2>1 DEF Wait, Taken, Pending, Counting
  <2> QED
    BY <2>2 DEF EventInv
<1>3. ASSUME NEW t \in Threads, LookAgain(t)
      PROVE  EventInv'
  <2>1. \E l \in {"event", "potato"} : pc' = [pc EXCEPT ![t] = l]
    BY <1>3 DEF LookAgain, TakeTurn
  <2>2. (Taken' <=> Taken) /\ (Pending' <=> Pending) /\ UNCHANGED <<event, wakens>>
    BY <1>3, <2>1 DEF LookAgain, Taken, Pending, Counting
  <2> QED
    BY <2>2 DEF EventInv
<1>4. ASSUME NEW t \in Threads, GiveUp(t) \/ TimedOut(t)
      PROVE  EventInv'
  <2>1. (Taken' <=> Taken) /\ (Pending' <=> Pending) /\ UNCHANGED <<event, wakens>>
    BY <1>4 DEF GiveUp, TimedOut, BackIn, Taken, Pending, Counting
  <2> QED
    BY <2>1 DEF EventInv
<1>5. ASSUME NEW t \in Threads, Woken(t)
      PROVE  EventInv'
  <2>1. ~Pending /\ wakens \in Nat /\ wakens > 0 /\ ~event /\ Head(queue) = t
    BY <1>5, WokenFinds
  <2>2. ~Taken' /\ ~Pending'
    BY <1>5, <2>1 DEF Woken, BackIn, Taken, Pending, Counting, OneAtEvent
  <2> QED
    BY <1>5, <2>1, <2>2 DEF Woken, EventInv
<1>6. ASSUME NEW t \in Threads, BeginSignal(t) \/ BeginBroadcast(t)
      PROVE  EventInv'
  <2>1. /\ ~Pending
    <3>1. CASE BeginSignal(t)
      BY <3>1, ThreadsAssumption DEF BeginSignal, Broadcasting, LockInv, Pending, Counting
    <3>2. CASE BeginBroadcast(t)
      BY <3>2, Alone DEF BeginBroadcast, LockInv
    <3> QED
      BY <1>6, <3>1, <3>2
  <2>2. (event' <=> event \/ wakens = 0) /\ wakens \in Nat
    BY <1>6 DEF BeginSignal, BeginBroadcast, CountInv
  <2>3. Taken' <=> Taken
    BY <1>6 DEF BeginSignal, BeginBroadcast, Taken
  <2>4. Pending'
    BY <1>6 DEF BeginSignal, BeginBroadcast, Pending, Counting
  <2>5. wakens = 0 => ~event /\ ~Taken
    BY <2>1 DEF EventInv
  <2>6. wakens /= 0 => event \/ Taken
    BY <2>2 DEF EventInv
  <2> QED
    BY <2>2, <2>3, <2>4, <2>5, <2>6 DEF EventInv
<1>7. ASSUME NEW t \in Threads, CountSignal(t) \/ SetWakens(t)
      PROVE  EventInv'
  <2>1. Pending /\ event' = event
    BY <1>7 DEF CountSignal, SetWakens, Pending, Counting
  <2>2. Taken' <=> Taken
    BY <1>7 DEF CountSignal, SetWakens, Taken
  <2>3. wakens' > 0
    <3>1. CASE CountSignal(t)
      BY <3>1 DEF CountSignal, CountInv
    <3>2. CASE SetWakens(t)
      BY <3>2 DEF SetWakens, CountInv, Counting, QueueHoldsWaiters
    <3> QED
      BY <1>7, <3>1, <3>2
  <2> QED
    BY <2>1, <2>2, <2>3 DEF EventInv
<1>8. ASSUME NEW t \in Threads, CatchEvent(t)
      PROVE  EventInv'
  <2>1. event /\ ~event' /\ wakens' = wakens
    BY <1>8 DEF CatchEvent
  <2>2. Taken' /\ (Pending' <=> Pending)
    BY <1>8 DEF CatchEvent, Taken, Pending, Counting
  <2> QED
    BY <2>1, <2>2 DEF EventInv
<1>9. ASSUME NEW t \in Threads, EventTimeout(t)
      PROVE  EventInv'
  <2>1. (Taken' <=> Taken) /\ (Pending' <=> Pending) /\ UNCHANGED <<event, wakens>>
    BY <1>9 DEF EventTimeout, condVars, Taken, Pending, Counting
  <2> QED
    BY <2>1 DEF EventInv
<1>10. ASSUME NEW t \in Threads, PutPotato(t)
       PROVE  EventInv'
  <2>1. \E l \in {"in", "out"} : pc' = [pc EXCEPT ![t] = l]
    BY <1>10 DEF PutPotato, Return
  <2>2. (Taken' <=> Taken) /\ (Pending' <=> Pending) /\ UNCHANGED <<event, wakens>>
    BY <1>10, <2>1 DEF PutPotato, Taken, Pending, Counting
  <2> QED
    BY <2>2 DEF EventInv
<1>11. CASE UNCHANGED <<pc, waitResult, event, wakens>>
  BY <1>11 DEF EventInv, Taken, Pending, Counting
<1> QED
  BY <1>1, <1>2, <1>3, <1>4, <1>5, <1>6, <1>7, <1>8, <1>9, <1>10, <1>11
  DEF Next, Step, InCall, Resume, SignalNobody, TakeLock, vars, condVars, threadVars

\* Every step passes the potato on, or leaves the head at the event.
LEMMA PotatoStep ==
  ASSUME ListInv, WakenInv, [Next]_vars, ~Racy
  PROVE  PotatoInv'
<1> USE DEF ListInv, BasicTypes, WakenInv, Goto, Places
<1>1. ASSUME NEW t \in Threads, Enter(t) \/ Leave(t) \/ CatchPotato(t) \/ PotatoTimeout(t)
      PROVE  PotatoInv'
  BY <1>1 DEF Enter, Leave, CatchPotato, PotatoTimeout, condVars, PotatoInv, Play, Taken
<1>2. ASSUME NEW t \in Threads, NEW b \in BOOLEAN, Wait(t, b)
      PROVE  PotatoInv'
  <2>1. pc[t] = "in" /\ UNCHANGED <<wakens, waitResult>> /\ potato' \in {potato, Toss}
    BY <1>2 DEF Wait, TakeTurn
  <2>2. \E l \in {"event", "potato"} : pc' = [pc EXCEPT ![t] = l]
    BY <1>2 DEF Wait, TakeTurn
  <2> QED
    BY <2>1, <2>2 DEF PotatoInv, Play, Taken, Toss
<1>3. ASSUME NEW t \in Threads, LookAgain(t)
      PROVE  PotatoInv'
  <2>1. pc[t] = "caught" /\ UNCHANGED <<wakens, waitResult>>
    BY <1>3 DEF LookAgain
  <2>2. CASE Head(queue) = t
    BY <1>3, <2>1, <2>2 DEF LookAgain, TakeTurn, PotatoInv
  <2>3. CASE Head(queue) /= t
    BY <1>3, <2>1, <2>3 DEF LookAgain, TakeTurn, PotatoInv, Play, Toss
  <2> QED
    BY <2>2, <2>3
<1>4. ASSUME NEW t \in Threads, GiveUp(t) \/ TimedOut(t)
      PROVE  PotatoInv'
  <2>1. /\ pc[t] \in {"caught", "signalled"} /\ ~waitResult[t]
        /\ pc' = [pc EXCEPT ![t] = "in"] /\ waitResult' = [waitResult EXCEPT ![t] = TRUE]
        /\ UNCHANGED <<wakens, potato>>
    BY <1>4 DEF GiveUp, TimedOut, BackIn
  <2> QED
    BY <2>1 DEF PotatoInv, Play, Taken
<1>5. ASSUME NEW t \in Threads, Woken(t)
      PROVE  PotatoInv'
  BY <1>5 DEF Woken, PotatoInv, Play
<1>6. ASSUME NEW t \in Threads, BeginSignal(t) \/ BeginBroadcast(t)
      PROVE  PotatoInv'
  <2>1. /\ pc[t] \in {"in", "out"} /\ UNCHANGED <<wakens, potato, waitResult>>
        /\ \E l \in {"count", "setWakens"} : pc' = [pc EXCEPT ![t] = l]
    BY <1>6 DEF BeginSignal, BeginBroadcast
  <2> QED
    BY <2>1 DEF PotatoInv, Play, Taken
<1>7. ASSUME NEW t \in Threads, CountSignal(t) \/ SetWakens(t)
      PROVE  PotatoInv'
  <2>1. Play'
    BY <1>7 DEF CountSignal, SetWakens, Play
  <2> QED
    BY <2>1 DEF PotatoInv
<1>8. ASSUME NEW t \in Threads, PutPotato(t)
      PROVE  PotatoInv'
  BY <1>8 DEF PutPotato, PotatoInv, Play
<1>9. ASSUME NEW t \in Threads, CatchEvent(t)
      PROVE  PotatoInv'
  BY <1>9 DEF CatchEvent, PotatoInv, Taken
<1>10. ASSUME NEW t \in Threads, EventTimeout(t)
       PROVE  PotatoInv'
  <2>1. ~Taken
    BY <1>10 DEF EventTimeout, Taken, OneAtEvent
  <2>2. ~(wakens > 0)
    BY <1>10, <2>1 DEF EventTimeout, EventInv
  <2> QED
    BY <1>10, <2>2 DEF EventTimeout, condVars, PotatoInv
<1>11. CASE UNCHANGED <<pc, waitResult, potato, wakens>>
  BY <1>11 DEF PotatoInv, Play, Taken
<1> QED
  BY <1>1, <1>2, <1>3, <1>4, <1>5, <1>6, <1>7, <1>8, <1>9, <1>10, <1>11
  DEF Next, Step, InCall, Resume, SignalNobody, TakeLock, vars, condVars, threadVars

\* A waiter may leave the list if those behind it are still covered: when it
\* takes a waken with it from the front, or none.
LEMMA OwedStep ==
  ASSUME ListInv, WakenInv, [Next]_vars, ~Racy
  PROVE  OwedInv'
<1> USE DEF ListInv, BasicTypes, WakenInv
<1>1. DOMAIN queue = 1 .. Len(queue) /\ Len(queue) \in Nat /\ wakens \in Nat
  BY DEF CountInv
<1>2. ASSUME NEW t \in Threads, NEW b \in BOOLEAN, Wait(t, b)
      PROVE  OwedInv'
  <2>1. pc[t] = "in" /\ queue' = Append(queue, t) /\ UNCHANGED <<wakens, owed>>
    BY <1>2 DEF Wait
  <2>2. t \notin ToSet(queue)
    BY <2>1 DEF QueueHoldsWaiters, Waiting
  <2>3. /\ \A i \in 1 .. Len(queue) : queue'[i] = queue[i]
        /\ queue'[Len(queue) + 1] = t /\ Len(queue') = Len(queue) + 1
        /\ ToSet(queue') = ToSet(queue) \cup {t} /\ queue' \in Seq(Threads)
    BY <2>1, <2>2, AppendQueue DEF QueueHoldsWaiters
  <2>4. DOMAIN queue' = 1 .. Len(queue) + 1
    BY <2>3
  <2>5. \A i \in 1 .. Len(queue) + 1 : i \in 1 .. Len(queue) \/ i = Len(queue) + 1
    BY <1>1
  <2> QED
    BY <1>1, <2>1, <2>2, <2>3, <2>4, <2>5 DEF OwedInv, OwedAreCovered
<1>3. ASSUME NEW t \in Threads, GiveUp(t)
      PROVE  OwedInv'
  <2>1. /\ t \in ToSet(queue)
        /\ queue' = After(queue, t) /\ owed' = owed \ {t} /\ wakens' = wakens
    BY <1>3, InList DEF GiveUp, Waiting
  <2>2. /\ ToSet(queue') = ToSet(queue) \ {t} /\ queue' \in Seq(Threads) /\ Len(queue') = Len(queue) - 1
        /\ \A i \in 1 .. Len(queue) - 1 : queue'[i] = queue[i] \/ queue'[i] = queue[i + 1]
    <3>1. IsInjective(queue)
      BY DEF QueueHoldsWaiters
    <3>0. queue \in Seq(Threads)
      OBVIOUS
    <3>2. PICK p \in 1 .. Len(queue) :
            \A i \in 1 .. Len(queue) - 1 : After(queue, t)[i] = queue[IF i < p THEN i ELSE i + 1]
      <4>1. \E p \in 1 .. Len(queue) :
              /\ queue[p] = t /\ After(queue, t) = RemoveAt(queue, p)
              /\ \A i \in 1 .. Len(queue) - 1 : After(queue, t)[i] = queue[IF i < p THEN i ELSE i + 1]
        BY <2>1, <3>0, <3>1, AfterQueue, Zenon
      <4> QED
        BY <4>1, Zenon
    <3>3. \A i \in 1 .. Len(queue) - 1 : queue'[i] = queue[i] \/ queue'[i] = queue[i + 1]
      BY <2>1, <3>2
    <3> QED
      BY <2>1, <3>1, <3>3, AfterQueue
  <2>3. ASSUME NEW i \in DOMAIN queue', queue'[i] \in owed'
        PROVE  i <= wakens'
    <3>1. i \in 1 .. Len(queue) - 1
      BY <2>2, <2>3
    <3>2. PICK j \in {i, i + 1} : queue'[i] = queue[j]
      BY <2>2, <3>1
    <3>3. j \in DOMAIN queue /\ queue[j] \in owed /\ i <= j
      BY <1>1, <2>1, <2>3, <3>1, <3>2
    <3> QED
      BY <1>1, <2>1, <3>1, <3>3 DEF OwedInv, OwedAreCovered
  <2> QED
    BY <2>1, <2>2, <2>3 DEF OwedInv, OwedAreCovered
<1>4. ASSUME NEW t \in Threads, Woken(t) \/ TimedOut(t)
      PROVE  OwedInv'
  <2>1. /\ pc[t] = "signalled" /\ queue' = Tail(queue) /\ owed' = owed \ {t}
        /\ wakens' \in {wakens - 1, wakens}
    BY <1>4 DEF Woken, TimedOut
  <2>2. queue /= << >> /\ Head(queue) = t
    BY <2>1, InList DEF Waiting, OneAtEvent
  <2>3. /\ ToSet(queue') = ToSet(queue) \ {t} /\ queue' \in Seq(Threads) /\ Len(queue') = Len(queue) - 1
        /\ \A i \in 1 .. Len(queue) - 1 : queue'[i] = queue[i + 1]
    BY <2>1, <2>2, TailQueue DEF QueueHoldsWaiters
  <2>4. ASSUME NEW i \in DOMAIN queue', queue'[i] \in owed'
        PROVE  i <= wakens'
    <3>1. i \in 1 .. Len(queue) - 1 /\ queue[i + 1] \in owed
      BY <2>1, <2>3, <2>4
    <3>2. i + 1 \in DOMAIN queue
      BY <1>1, <3>1
    <3>3. i + 1 <= wakens
      BY <3>1, <3>2 DEF OwedInv, OwedAreCovered
    <3> QED
      BY <1>1, <2>1, <3>1, <3>3
  <2> QED
    BY <2>1, <2>3, <2>4 DEF OwedInv, OwedAreCovered
<1>5. ASSUME NEW t \in Threads, CountSignal(t)
      PROVE  OwedInv'
  <2>1. queue' = queue /\ owed' = owed \cup Meant /\ wakens' = wakens + 1
    BY <1>5 DEF CountSignal, CountInv
  <2>2. Meant \subseteq ToSet(queue)
    BY DEF Meant, ToSet
  <2>3. ASSUME NEW i \in DOMAIN queue, queue[i] \in Meant
        PROVE  i <= wakens + 1
    <3>1. PICK j \in DOMAIN queue : queue[j] = queue[i] /\ \A h \in 1 .. j - 1 : queue[h] \in owed
      BY <2>3 DEF Meant
    <3>2. j = i
      BY <3>1 DEF QueueHoldsWaiters, IsInjective
    <3>3. CASE i = 1
      BY <1>1, <3>3
    <3>4. CASE i /= 1
      <4>1. i - 1 \in 1 .. i - 1 /\ i - 1 \in DOMAIN queue
        BY <1>1, <3>4
      <4>2. i - 1 <= wakens
        BY <3>1, <3>2, <4>1 DEF OwedInv, OwedAreCovered
      <4> QED
        BY <1>1, <4>2
    <3> QED
      BY <3>3, <3>4
  <2>4. ASSUME NEW i \in DOMAIN queue, queue[i] \in owed
        PROVE  i <= wakens + 1
    BY <1>1, <2>4 DEF OwedInv, OwedAreCovered
  <2> QED
    BY <2>1, <2>2, <2>3, <2>4 DEF OwedInv, OwedAreCovered
<1>6. ASSUME NEW t \in Threads, SetWakens(t)
      PROVE  OwedInv'
  <2>1. queue' = queue /\ wakens' = Len(queue) /\ owed' = ToSet(queue)
    BY <1>6 DEF SetWakens, QueueHoldsWaiters
  <2> QED
    BY <1>1, <2>1 DEF OwedInv, OwedAreCovered
<1>7. CASE UNCHANGED <<queue, owed, wakens>>
  BY <1>7 DEF OwedInv, OwedAreCovered
<1> QED
  BY <1>2, <1>3, <1>4, <1>5, <1>6, <1>7
  DEF Next, Step, InCall, Resume, SignalNobody, TakeLock, vars, condVars, threadVars, Enter, Leave, LookAgain,
      CatchPotato, PotatoTimeout, CatchEvent, EventTimeout, BeginSignal, BeginBroadcast, PutPotato

\* No waken is due at first.
LEMMA WakenInit == Init => WakenInv
<1> SUFFICES ASSUME Init PROVE WakenInv
  OBVIOUS
<1>1. ToSet(queue) = {} /\ DOMAIN queue = {}
  BY DEF Init, ToSet
<1>2. CountInv /\ EventInv /\ PotatoInv
  BY DEF Init, CountInv, EventInv, PotatoInv, Pending, Counting, Taken
<1>3. OwedInv
  BY <1>1 DEF Init, OwedInv, OwedAreCovered
<1> QED
  BY <1>2, <1>3 DEF WakenInv

\* Unless signals without the lock meet broadcasts, the wakens are what the
\* event, the potato and those who were meant to go say they are.
THEOREM WakenInvariance == ~Racy => (Spec => [](ListInv /\ WakenInv))
<1> SUFFICES ASSUME ~Racy PROVE Spec => [](ListInv /\ WakenInv)
  OBVIOUS
<1>1. ListInv /\ WakenInv /\ [Next]_vars => WakenInv'
  BY CountStep, EventStep, PotatoStep, OwedStep DEF WakenInv
<1> QED
  BY <1>1, WakenInit, ListInvariance, PTL DEF Spec

\* Every variable keeps its type; neither counter of the condition variable is
\* ever decremented below zero, where the unsigned field would wrap.
THEOREM TypeCorrect == ~Racy => (Spec => []TypeOK)
<1> SUFFICES ASSUME ~Racy PROVE Spec => []TypeOK
  OBVIOUS
<1>1. ListInv /\ WakenInv => TypeOK
  BY DEF ListInv, BasicTypes, Places, WakenInv, CountInv, TypeOK
<1> QED
  BY <1>1, WakenInvariance, PTL

\* As long as there are wakens the event is set, or the head has taken it and is
\* on its way to spend one (the converse is not claimed: a signal sets the event
\* before it counts).
THEOREM EventStandsForWakensHolds == ~Racy => (Spec => []EventStandsForWakens)
<1> SUFFICES ASSUME ~Racy PROVE Spec => []EventStandsForWakens
  OBVIOUS
<1>1. ListInv /\ WakenInv => EventStandsForWakens
  BY InList DEF ListInv, WakenInv, EventInv, EventStandsForWakens, Taken, OneAtEvent, Waiting
<1> QED
  BY <1>1, WakenInvariance, PTL

\* A first thread that still waits for the potato is going to get it.
THEOREM PotatoInPlayHolds == ~Racy => (Spec => []PotatoInPlay)
<1> SUFFICES ASSUME ~Racy PROVE Spec => []PotatoInPlay
  OBVIOUS
<1>1. ListInv /\ WakenInv => PotatoInPlay
  BY InList DEF ListInv, WakenInv, PotatoInv, PotatoInPlay, Play, Taken, OneAtEvent, Waiting
<1> QED
  BY <1>1, WakenInvariance, PTL

\* Nobody whom a signal or broadcast was meant for is passed over.
THEOREM OwedAreCoveredHolds == ~Racy => (Spec => []OwedAreCovered)
<1> SUFFICES ASSUME ~Racy PROVE Spec => []OwedAreCovered
  OBVIOUS
<1>1. WakenInv => OwedAreCovered
  BY DEF WakenInv, OwedInv
<1> QED
  BY <1>1, WakenInvariance, PTL

-----------------------------------------------------------------------------
(* It wakes in the order of the list.                                      *)

\* The first of a list, and no other, is removed by Tail.
LEMMA TailRemoves ==
  ASSUME NEW q \in Seq(Threads), q /= << >>
  PROVE  Tail(q) = RemoveAt(q, 1) /\ 1 \in DOMAIN q /\ q[1] = Head(q)
<1>1. 1 \in 1 .. Len(q) /\ Len(q) \in Nat /\ DOMAIN q = 1 .. Len(q) /\ q[1] = Head(q)
  OBVIOUS
<1>2. /\ RemoveAt(q, 1) \in Seq(Threads) /\ Len(RemoveAt(q, 1)) = Len(q) - 1
      /\ \A i \in 1 .. Len(q) - 1 : RemoveAt(q, 1)[i] = q[IF i < 1 THEN i ELSE i + 1]
  BY <1>1, RemoveAtFacts
<1> DEFINE r == RemoveAt(q, 1)
           u == Tail(q)
<1>3. /\ u \in Seq(Threads) /\ Len(u) = Len(q) - 1
      /\ \A i \in 1 .. Len(q) - 1 : u[i] = q[i + 1]
  OBVIOUS
<1>4. r \in Seq(Threads) /\ Len(r) = Len(q) - 1 /\ \A i \in 1 .. Len(q) - 1 : r[i] = q[i + 1]
  BY <1>2
<1> HIDE DEF r, u
<1>5. r = u
  BY <1>1, <1>3, <1>4
<1> QED
  BY <1>1, <1>5 DEF r, u

\* CondVar removes from a list what WinCond does.
LEMMA AbstractGiveUp ==
  ASSUME NEW t \in Threads, NEW i \in DOMAIN queue, queue[i] = t,
         queue' = RemoveAt(queue, i), wakens' = wakens
  PROVE  Abstract!Next
BY DEF Abstract!Next, Abstract!GiveUp, Abstract!RemoveAt, RemoveAt

\* Every step is one of CondVar, or leaves its variables alone.
LEMMA AbstractStep ==
  ASSUME ListInv, WakenInv, [Next]_vars, ~Racy
  PROVE  [Abstract!Next]_(Abstract!vars)
<1> USE DEF ListInv, BasicTypes, WakenInv
<1>1. ASSUME NEW t \in Threads, NEW b \in BOOLEAN, Wait(t, b)
      PROVE  [Abstract!Next]_(Abstract!vars)
  <2>1. t \notin ToSet(queue)
    BY <1>1 DEF Wait, QueueHoldsWaiters, Waiting
  <2> QED
    BY <1>1, <2>1 DEF Wait, Abstract!Next, Abstract!Wait, Abstract!ToSet, ToSet
<1>2. ASSUME NEW t \in Threads, GiveUp(t)
      PROVE  [Abstract!Next]_(Abstract!vars)
  <2>1. t \in ToSet(queue) /\ IsInjective(queue) /\ queue' = After(queue, t) /\ wakens' = wakens
    BY <1>2, InList DEF GiveUp, Waiting, QueueHoldsWaiters
  <2>2. PICK p \in 1 .. Len(queue) : queue[p] = t /\ After(queue, t) = RemoveAt(queue, p)
    BY <2>1, AfterQueue
  <2>3. p \in DOMAIN queue
    OBVIOUS
  <2> QED
    BY <2>1, <2>2, <2>3, AbstractGiveUp
<1>3. ASSUME NEW t \in Threads, TimedOut(t)
      PROVE  [Abstract!Next]_(Abstract!vars)
  <2>1. queue /= << >> /\ Head(queue) = t /\ queue' = Tail(queue) /\ wakens' = wakens
    BY <1>3, InList DEF TimedOut, Waiting, OneAtEvent
  <2> QED
    BY <2>1, TailRemoves, AbstractGiveUp
<1>4. ASSUME NEW t \in Threads, Woken(t)
      PROVE  [Abstract!Next]_(Abstract!vars)
  <2>1. wakens > 0 /\ queue /= << >>
    BY <1>4, WokenFinds
  <2> QED
    BY <1>4, <2>1 DEF Woken, Abstract!Next, Abstract!Wake
<1>5. ASSUME NEW t \in Threads, CountSignal(t)
      PROVE  [Abstract!Next]_(Abstract!vars)
  <2>1. queue /= << >> /\ queue' = queue /\ wakens' = wakens + 1
    BY <1>5 DEF CountSignal, CountInv, Counting
  <2> QED
    BY <2>1 DEF Abstract!Next, Abstract!Signal
<1>6. ASSUME NEW t \in Threads, SetWakens(t)
      PROVE  [Abstract!Next]_(Abstract!vars)
  <2>1. queue /= << >> /\ queue' = queue /\ wakens' = Len(queue)
    BY <1>6 DEF SetWakens, CountInv, Counting, QueueHoldsWaiters
  <2> QED
    BY <2>1 DEF Abstract!Next, Abstract!Broadcast
<1>7. CASE UNCHANGED <<queue, wakens>>
  BY <1>7 DEF Abstract!vars
<1> QED
  BY <1>1, <1>2, <1>3, <1>4, <1>5, <1>6, <1>7
  DEF Next, Step, InCall, Resume, SignalNobody, TakeLock, vars, condVars, threadVars, Enter, Leave, LookAgain,
      CatchPotato, PotatoTimeout, CatchEvent, EventTimeout, BeginSignal, BeginBroadcast, PutPotato

\* Every step of WinCond is one of CondVar or none: a signal lets the next
\* waiter go and a broadcast all, and they go in the order they came.
THEOREM StepsImplement == ~Racy => (Spec => Abstract!Init /\ [][Abstract!Next]_(Abstract!vars))
<1> SUFFICES ASSUME ~Racy PROVE Spec => Abstract!Init /\ [][Abstract!Next]_(Abstract!vars)
  OBVIOUS
<1>1. Init => Abstract!Init
  BY DEF Init, Abstract!Init
<1>2. ListInv /\ WakenInv /\ [Next]_vars => [Abstract!Next]_(Abstract!vars)
  BY AbstractStep
<1> QED
  BY <1>1, <1>2, WakenInvariance, PTL DEF Spec
=============================================================================
