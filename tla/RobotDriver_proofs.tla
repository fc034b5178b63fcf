------------------------- MODULE RobotDriver_proofs -------------------------
(***************************************************************************)
(* Proofs about RobotDriver, for any finite set of callers and any         *)
(* setting of the breaker: the inductive invariant, that calls are         *)
(* serialised, that the breaker opens only on a run of failures, and that  *)
(* an outage costs at most the callers who already waited.                 *)
(***************************************************************************)
EXTENDS RobotDriver, FiniteSetTheorems, TLAPS

\* What the history becomes when a dial ends: its last entry is the new one,
\* and the others move up by one place once it is full.
LEMMA RememberShift ==
  ASSUME NEW e \in Ending, TypeOK, Remember(e)
  PROVE  /\ recent' \in Seq(Ending)
         /\ Len(recent') = Capped(Len(recent) + 1, OfflineAfter)
         /\ \A i \in 1..Len(recent') :
               recent'[i] = IF i = Len(recent') THEN e
                            ELSE recent[i + (Len(recent) + 1 - Len(recent'))]
  <1> DEFINE all == Append(recent, e)
  <1>1. /\ recent \in Seq(Ending) /\ Len(recent) \in Nat /\ Len(recent) <= OfflineAfter
        /\ OfflineAfter \in Nat
    BY BreakerAssumption DEF TypeOK
  <1>2. /\ all \in Seq(Ending) /\ Len(all) = Len(recent) + 1
        /\ \A i \in 1..Len(all) : all[i] = IF i = Len(all) THEN e ELSE recent[i]
    BY <1>1
  <1>3. recent' = IF Len(all) > OfflineAfter THEN Tail(all) ELSE all
    BY DEF Remember
  <1> HIDE DEF all
  <1>4. CASE Len(all) > OfflineAfter
    <2>1. recent' = Tail(all)
      BY <1>3, <1>4
    <2>2. /\ recent' \in Seq(Ending) /\ Len(recent') = Len(all) - 1
          /\ \A i \in 1..Len(recent') : recent'[i] = all[i + 1]
      BY <2>1, <1>1, <1>2
    <2>3. Len(recent') = OfflineAfter /\ Capped(Len(recent) + 1, OfflineAfter) = OfflineAfter
      BY <2>2, <1>1, <1>2, <1>4 DEF Capped
    <2>4. QED
      BY <2>2, <2>3, <1>1, <1>2
  <1>5. CASE ~(Len(all) > OfflineAfter)
    <2>1. recent' = all
      BY <1>3, <1>5
    <2>2. Len(recent') = Len(recent) + 1
          /\ Capped(Len(recent) + 1, OfflineAfter) = Len(recent) + 1
      BY <2>1, <1>1, <1>2, <1>5 DEF Capped
    <2>3. QED
      BY <2>1, <2>2, <1>1, <1>2
  <1>6. QED
    BY <1>4, <1>5

LEMMA CallerCount == Cardinality(Caller) \in Nat
  BY BreakerAssumption, FS_CardinalityType

LEMMA InitInv == Init => DriverInv
  <1> SUFFICES ASSUME Init PROVE DriverInv
    OBVIOUS
  <1>1. TypeOK
    BY BreakerAssumption, CallerCount DEF Init, TypeOK, Method, Mode, Ending
  <1>2. OneOnTheWire /\ NotingSound
    BY NoneAssumption DEF Init, OneOnTheWire, NotingSound
  <1>3. RunSound
    BY BreakerAssumption DEF Init, RunSound, EndsInRun, Run, Capped
  <1>4. QueueSound
    BY DEF Init, QueueSound
  <1>5. QED
    BY <1>1, <1>2, <1>3, <1>4 DEF DriverInv

-----------------------------------------------------------------------------
(* Each conjunct of the invariant over the steps.                          *)

LEMMA TypingStep == TypeOK /\ NotingSound /\ [Next]_vars => TypeOK'
  <1> SUFFICES ASSUME TypeOK, NotingSound, [Next]_vars PROVE TypeOK'
    OBVIOUS
  <1> USE BreakerAssumption, CallerCount
      DEF TypeOK, callVars, breakerVars, historyVars
  <1>1. CASE UNCHANGED vars
    BY <1>1 DEF vars
  <1>2. CASE Tick
    BY <1>2 DEF Tick, Capped
  <1>3. CASE Reachability
    BY <1>3 DEF Reachability
  <1>4. ASSUME NEW c \in Caller, NEW m \in Method, Enter(c, m) PROVE TypeOK'
    BY <1>4 DEF Enter
  <1>5. ASSUME NEW c \in Caller, Refuse(c) PROVE TypeOK'
    BY <1>5 DEF Refuse, vars
  <1>6. ASSUME NEW c \in Caller, TakeLock(c) PROVE TypeOK'
    BY <1>6 DEF TakeLock, Capped
  <1>7. ASSUME NEW c \in Caller, NEW where \in {"idle", "noting"}, Leave(c, where)
        PROVE  lock' \in Caller \cup {None}
               /\ pc' \in [Caller -> {"idle", "queued", "dialing", "noting"}]
    BY <1>7 DEF Leave
  <1>8. ASSUME NEW e \in Ending, Remember(e)
        PROVE  recent' \in Seq(Ending) /\ Len(recent') <= OfflineAfter
    BY <1>8, RememberShift DEF Capped
  <1>9. \A c \in Caller : Executed(c) \in Mode
    BY DEF Executed
  <1>10. ASSUME NEW c \in Caller, Answered(c) PROVE TypeOK'
    BY <1>10, <1>7, <1>8, <1>9 DEF Answered, Ending
  <1>11. ASSUME NEW c \in Caller, Faulted(c) PROVE TypeOK'
    BY <1>11, <1>7, <1>8 DEF Faulted, Ending
  <1>12. ASSUME NEW c \in Caller, Garbled(c) PROVE TypeOK'
    BY <1>12, <1>7, <1>9 DEF Garbled
  <1>13. ASSUME NEW c \in Caller, Lost(c) PROVE TypeOK'
    <2>1. failures' \in 0..(OfflineAfter + 1)
      BY <1>13 DEF Lost, Capped
    <2>2. sinceFailure' \in 0..(Window + 1) /\ offlineFor' \in 0..Cooldown /\ mode' \in Mode
      BY <1>13, <1>9 DEF Lost
    <2>3. recent' \in Seq(Ending) /\ Len(recent') <= OfflineAfter
      BY <1>13, <1>8 DEF Lost, Ending
    <2>4. lock' \in Caller \cup {None}
          /\ pc' \in [Caller -> {"idle", "queued", "dialing", "noting"}]
      BY <1>13, <1>7 DEF Lost
    <2>5. QED
      BY <1>13, <2>1, <2>2, <2>3, <2>4 DEF Lost
  <1>14. ASSUME NEW c \in Caller, NoteMode(c) PROVE TypeOK'
    BY <1>14 DEF NoteMode, NotingSound
  <1>15. QED
    BY <1>1, <1>2, <1>3, <1>4, <1>5, <1>6, <1>10, <1>11, <1>12, <1>13, <1>14
       DEF Next, EndDial

LEMMA WireStep ==
  TypeOK /\ OneOnTheWire /\ NotingSound /\ [Next]_vars => OneOnTheWire' /\ NotingSound'
  <1> SUFFICES ASSUME TypeOK, OneOnTheWire, NotingSound, [Next]_vars
               PROVE  OneOnTheWire' /\ NotingSound'
    OBVIOUS
  <1> USE NoneAssumption DEF TypeOK, OneOnTheWire, NotingSound, callVars
  <1>1. CASE UNCHANGED callVars
    BY <1>1
  <1>2. ASSUME NEW c \in Caller, NEW m \in Method, Enter(c, m)
        PROVE  OneOnTheWire' /\ NotingSound'
    BY <1>2 DEF Enter
  <1>3. ASSUME NEW c \in Caller, TakeLock(c) PROVE OneOnTheWire' /\ NotingSound'
    BY <1>3 DEF TakeLock
  <1>4. ASSUME NEW c \in Caller, NEW where \in {"idle", "noting"}, Leave(c, where),
               method' = method, where = "noting" => method[c] \in Mode
        PROVE  OneOnTheWire' /\ NotingSound'
    BY <1>4 DEF Leave
  <1>5. ASSUME NEW c \in Caller, EndDial(c) PROVE OneOnTheWire' /\ NotingSound'
    <2>1. CASE Answered(c)
      BY <2>1, <1>4 DEF Answered
    <2>2. CASE Faulted(c)
      BY <2>2, <1>4 DEF Faulted
    <2>3. CASE Garbled(c)
      BY <2>3, <1>4 DEF Garbled
    <2>4. CASE Lost(c)
      BY <2>4, <1>4 DEF Lost
    <2>5. QED
      BY <1>5, <2>1, <2>2, <2>3, <2>4 DEF EndDial
  <1>6. ASSUME NEW c \in Caller, NoteMode(c) PROVE OneOnTheWire' /\ NotingSound'
    BY <1>6 DEF NoteMode
  <1>7. Tick \/ Reachability \/ (\E c \in Caller : Refuse(c)) \/ UNCHANGED vars
          => UNCHANGED callVars
    BY DEF Tick, Reachability, Refuse, vars
  <1>8. QED
    BY <1>1, <1>2, <1>3, <1>5, <1>6, <1>7 DEF Next

\* g is the history h with e behind it, less its first entry once it is full.
Shifts(h, e, g) ==
    /\ Len(g) = Capped(Len(h) + 1, OfflineAfter)
    /\ \A i \in 1..Len(g) : g[i] = IF i = Len(g) THEN e ELSE h[i + (Len(h) + 1 - Len(g))]

\* A lost dial starts a run ...
LEMMA RunStarts ==
  ASSUME NEW g \in Seq(Ending), NEW n \in {0, 1}, n <= Len(g),
         n = 1 => g[Len(g)] # "answered"
  PROVE  EndsInRun(g, n)
  <1>1. Len(g) \in Nat
    OBVIOUS
  <1>2. ASSUME NEW i \in 1..Len(g), i > Len(g) - n PROVE n = 1 /\ i = Len(g)
    BY <1>1, <1>2
  <1>3. ASSUME NEW i \in 1..Len(g) PROVE ~(i > Len(g) - n + 1)
    BY <1>1, <1>3
  <1>4. QED
    BY <1>2, <1>3 DEF EndsInRun

\* ... or makes one longer.
LEMMA RunGrows ==
  ASSUME NEW h \in Seq(Ending), NEW g \in Seq(Ending), Len(h) <= OfflineAfter,
         Shifts(h, "lost", g),
         NEW n \in Nat, n <= OfflineAfter, EndsInRun(h, n)
  PROVE  EndsInRun(g, Capped(n + 1, OfflineAfter))
  <1> DEFINE L == Len(h)
             M == Len(g)
             m == Capped(n + 1, OfflineAfter)
  <1>1. /\ L \in Nat /\ M \in Nat /\ m \in Nat /\ n <= L /\ m <= M
        /\ \/ M = L + 1 /\ m = n + 1
           \/ M = L /\ L = OfflineAfter /\ m = n + 1
           \/ M = L /\ L = OfflineAfter /\ m = n /\ n = L
    BY BreakerAssumption DEF Shifts, EndsInRun, Capped
  <1>2. \A i \in 1..M : g[i] = IF i = M THEN "lost" ELSE h[i + (L + 1 - M)]
    BY DEF Shifts
  <1>3. \A i \in 1..L : /\ i > L - n => h[i] # "answered"
                        /\ i > L - n + 1 => h[i] = "lost"
    BY DEF EndsInRun
  <1>4. SUFFICES ASSUME NEW i \in 1..M
                 PROVE  /\ i > M - m => g[i] # "answered"
                        /\ i > M - m + 1 => g[i] = "lost"
    BY <1>1 DEF EndsInRun
  <1> HIDE DEF L, M, m
  <1>5. CASE i = M
    BY <1>2, <1>5
  <1>6. CASE i # M
    <2> DEFINE j == i + (L + 1 - M)
    <2>1. g[i] = h[j] /\ j \in 1..L
      BY <1>1, <1>2, <1>6
    <2>2. /\ i > M - m => j > L - n
          /\ i > M - m + 1 => j > L - n + 1
      BY <1>1
    <2>3. QED
      BY <2>1, <2>2, <1>3
  <1>7. QED
    BY <1>5, <1>6

\* A dial that got an answer ends the run; one that got none prolongs it by
\* one, or starts a new one.
LEMMA RunStep == TypeOK /\ RunSound /\ [Next]_vars => RunSound'
  <1> SUFFICES ASSUME TypeOK, RunSound, [Next]_vars PROVE RunSound'
    OBVIOUS
  <1> USE BreakerAssumption
  <1>1. CASE UNCHANGED <<failures, recent>>
    BY <1>1 DEF RunSound, Run
  <1>2. /\ failures \in 0..(OfflineAfter + 1)
        /\ recent \in Seq(Ending) /\ Len(recent) <= OfflineAfter
    BY DEF TypeOK
  <1>3. ASSUME NEW e \in Ending, Remember(e)
        PROVE  recent' \in Seq(Ending) /\ Shifts(recent, e, recent')
    BY <1>3, RememberShift DEF Shifts
  <1>4. ASSUME failures' = 0, Remember("answered") PROVE RunSound'
    <2>1. recent' \in Seq(Ending) /\ Run' = 0
      BY <1>3, <1>4 DEF Ending, Run, Capped
    <2>2. QED
      BY <2>1 DEF RunSound, EndsInRun
  <1>5. ASSUME NEW c \in Caller, Lost(c), sinceFailure > Window PROVE RunSound'
    <2>1. recent' \in Seq(Ending) /\ Shifts(recent, "lostLate", recent')
      BY <1>3, <1>5 DEF Lost, Ending
    <2>2. Run' = Capped(1, OfflineAfter)
      BY <1>5 DEF Lost, Run, Capped
    <2>3. /\ Run' \in {0, 1} /\ Run' <= Len(recent')
          /\ Run' = 1 => Len(recent') \in 1..Len(recent')
      BY <2>1, <2>2, <1>2 DEF Shifts, Capped
    <2>4. Run' = 1 => recent'[Len(recent')] # "answered"
      BY <2>1, <2>3 DEF Shifts
    <2>5. EndsInRun(recent', Run')
      BY <2>1, <2>3, <2>4, RunStarts
    <2>6. QED
      BY <2>5 DEF RunSound
  <1>6. ASSUME NEW c \in Caller, Lost(c), ~(sinceFailure > Window) PROVE RunSound'
    <2>1. recent' \in Seq(Ending) /\ Shifts(recent, "lost", recent')
      BY <1>3, <1>6 DEF Lost, Ending
    <2>2. Run \in Nat /\ Run <= OfflineAfter /\ Run' = Capped(Run + 1, OfflineAfter)
      BY <1>2, <1>6 DEF Lost, Run, Capped
    <2>3. EndsInRun(recent', Capped(Run + 1, OfflineAfter))
      BY <2>1, <2>2, <1>2, RunGrows DEF RunSound
    <2>4. QED
      BY <2>2, <2>3 DEF RunSound
  <1>7. ASSUME NEW c \in Caller, EndDial(c) PROVE RunSound'
    BY <1>7, <1>1, <1>4, <1>5, <1>6
       DEF EndDial, Answered, Faulted, Garbled, historyVars, breakerVars
  <1>8. QED
    BY <1>1, <1>7
       DEF Next, vars, Tick, Reachability, Enter, Refuse, TakeLock, NoteMode,
           breakerVars, historyVars

-----------------------------------------------------------------------------
(* Who waits for the wire.                                                 *)

LEMMA QueueFinite ==
  IsFiniteSet(Queue) /\ Cardinality(Queue) \in Nat
  <1>1. IsFiniteSet(Queue)
    BY BreakerAssumption, FS_Subset DEF Queue
  <1>2. QED
    BY <1>1, FS_CardinalityType

\* While a caller is not in the queue, the queue is not everyone.
LEMMA QueueIsNotAll ==
  ASSUME NEW c \in Caller, c \notin Queue
  PROVE  Cardinality(Queue) < Cardinality(Caller)
  <1>1. Queue \subseteq Caller /\ Queue # Caller
    BY DEF Queue
  <1>2. QED
    BY <1>1, BreakerAssumption, FS_Subset, FS_CardinalityType

LEMMA QueueStep ==
  TypeOK /\ OneOnTheWire /\ QueueSound /\ [Next]_vars => QueueSound'
  <1> SUFFICES ASSUME TypeOK, OneOnTheWire, QueueSound, [Next]_vars PROVE QueueSound'
    OBVIOUS
  <1> USE BreakerAssumption DEF QueueSound
  <1>1. /\ drained \in Nat /\ offlineFor \in Nat /\ Cardinality(Caller) \in Nat
        /\ IsFiniteSet(Queue) /\ Cardinality(Queue) \in Nat
        /\ pc \in [Caller -> {"idle", "queued", "dialing", "noting"}]
    BY CallerCount, QueueFinite DEF TypeOK
  <1>2. ASSUME UNCHANGED <<drained, offlineFor>>, Queue' = Queue PROVE QueueSound'
    BY <1>2
  <1>3. CASE Tick
    <2>1. Queue' = Queue
      BY <1>3 DEF Tick, Queue, callVars
    <2>2. QED
      BY <2>1, <1>1, <1>3 DEF Tick
  <1>4. ASSUME NEW c \in Caller, NEW m \in Method, Enter(c, m) PROVE QueueSound'
    BY <1>4 DEF Enter, breakerVars, historyVars
  <1>5. ASSUME NEW c \in Caller, TakeLock(c) PROVE QueueSound'
    <2>1. Queue' = Queue \ {c} /\ c \in Queue
      BY <1>1, <1>5 DEF TakeLock, Queue
    <2>2. Cardinality(Queue') = Cardinality(Queue) - 1
      BY <2>1, <1>1, FS_RemoveElement
    <2>3. QED
      BY <2>2, <1>1, <1>5 DEF TakeLock, breakerVars, Capped
  <1>6. ASSUME NEW c \in Caller, NEW where \in {"idle", "noting"}, Leave(c, where)
        PROVE  Queue' = Queue /\ c \notin Queue
    BY <1>1, <1>6 DEF Leave, Queue
  <1>7. ASSUME NEW c \in Caller, Lost(c) PROVE QueueSound'
    <2>1. Queue' = Queue /\ c \notin Queue
      BY <1>7, <1>6 DEF Lost
    <2>2. Cardinality(Queue) < Cardinality(Caller)
      BY <2>1, QueueIsNotAll
    <2>3. drained' = drained /\ (offlineFor' = 0 => offlineFor = 0)
      BY <1>7, <1>1 DEF Lost
    <2>4. QED
      BY <2>1, <2>2, <2>3, <1>1
  <1>8. ASSUME NEW c \in Caller, Answered(c) \/ Faulted(c) \/ Garbled(c) PROVE QueueSound'
    <2>1. Queue' = Queue
      BY <1>8, <1>6 DEF Answered, Faulted, Garbled
    <2>2. UNCHANGED <<drained, offlineFor>>
      BY <1>8 DEF Answered, Faulted, Garbled, breakerVars, historyVars
    <2>3. QED
      BY <2>1, <2>2, <1>2
  <1>9. ASSUME NEW c \in Caller, NoteMode(c) PROVE QueueSound'
    <2>1. Queue' = Queue
      BY <1>1, <1>9 DEF NoteMode, Queue
    <2>2. QED
      BY <2>1, <1>2, <1>9 DEF NoteMode, breakerVars, historyVars
  <1>10. CASE Reachability \/ (\E c \in Caller : Refuse(c)) \/ UNCHANGED vars
    <2>1. Queue' = Queue /\ UNCHANGED <<drained, offlineFor>>
      BY <1>10 DEF Reachability, Refuse, vars, callVars, breakerVars, historyVars, Queue
    <2>2. QED
      BY <2>1, <1>2
  <1>11. QED
    BY <1>3, <1>4, <1>5, <1>7, <1>8, <1>9, <1>10 DEF Next, EndDial

-----------------------------------------------------------------------------
(* Theorems.                                                               *)

\* The invariant of the driver is one of every behaviour.
THEOREM DriverInvariant == Spec => []DriverInv
  <1>1. Init => DriverInv
    BY InitInv
  <1>2. DriverInv /\ [Next]_vars => DriverInv'
    BY TypingStep, WireStep, RunStep, QueueStep DEF DriverInv
  <1>3. QED
    BY <1>1, <1>2, PTL DEF Spec

\* Type correctness.
THEOREM Typing == Spec => []TypeOK
  <1>1. DriverInv => TypeOK
    BY DEF DriverInv
  <1>2. QED
    BY <1>1, DriverInvariant, PTL

\* Calls are serialised through the lock, which every ending of a call frees.
THEOREM Serialised == Spec => []OneOnTheWire
  <1>1. DriverInv => OneOnTheWire
    BY DEF DriverInv
  <1>2. QED
    BY <1>1, DriverInvariant, PTL

\* While the breaker is open, fewer dials begin than there are callers.
THEOREM OutageIsCheap == Spec => []OutageCostsOneQueue
  <1>1. DriverInv => OutageCostsOneQueue
    <2> SUFFICES ASSUME DriverInv, offlineFor > 0 PROVE drained < Cardinality(Caller)
      BY DEF OutageCostsOneQueue
    <2>1. drained + Cardinality(Queue) < Cardinality(Caller)
      BY DEF DriverInv, QueueSound
    <2>2. drained \in Nat
      BY CallerCount DEF DriverInv, TypeOK
    <2>3. QED
      BY <2>1, <2>2, QueueFinite, CallerCount
  <1>2. QED
    BY <1>1, DriverInvariant, PTL

\* The breaker opens only at the end of a run of OfflineAfter lost calls.
THEOREM OpensOnARun == Spec => OpensOnlyOnARun
  <1> DEFINE Opening == offlineFor' > offlineFor =>
                /\ Len(recent') = OfflineAfter
                /\ \A i \in 1..OfflineAfter : recent'[i] # "answered"
                /\ \A i \in 2..OfflineAfter : recent'[i] = "lost"
  <1>1. DriverInv /\ [Next]_vars /\ DriverInv' => Opening
    <2> SUFFICES ASSUME DriverInv, [Next]_vars, DriverInv', offlineFor' > offlineFor
                 PROVE  /\ Len(recent') = OfflineAfter
                        /\ \A i \in 1..OfflineAfter : recent'[i] # "answered"
                        /\ \A i \in 2..OfflineAfter : recent'[i] = "lost"
      OBVIOUS
    <2> USE BreakerAssumption
    <2>1. offlineFor \in 0..Cooldown
      BY DEF DriverInv, TypeOK
    <2>2. ~Tick /\ offlineFor' # offlineFor
      BY <2>1 DEF Tick
    <2>3. PICK c \in Caller : Lost(c)
      BY <2>2 DEF Next, EndDial, vars, breakerVars, Reachability, Enter, Refuse,
                  TakeLock, Answered, Faulted, Garbled, NoteMode
    <2>4. OfflineAfter > 0 /\ failures' >= OfflineAfter
      BY <2>3, <2>2 DEF Lost
    <2>5. /\ Len(recent') \in Nat /\ Len(recent') <= OfflineAfter
          /\ failures' \in 0..(OfflineAfter + 1)
      BY DEF DriverInv, TypeOK
    <2>6. Run' = OfflineAfter
      BY <2>4, <2>5 DEF Run, Capped
    <2>7. QED
      BY <2>5, <2>6 DEF DriverInv, RunSound, EndsInRun
  <1>2. QED
    BY <1>1, DriverInvariant, PTL DEF Spec, OpensOnlyOnARun
=============================================================================
