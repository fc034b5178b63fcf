--------------------------- MODULE Gateway_proofs ---------------------------
(***************************************************************************)
(* Proofs about ControlLock, for any number of clients, domains, tokens    *)
(* and any lifetimes: the inductive invariant, the safety properties that  *)
(* follow from it, and that the lock implements DomainOwnership. Then of   *)
(* Gateway, for any number of handlers: the gateway drives the lock as     *)
(* ControlLock specifies, so that what is proved of the lock holds of the  *)
(* gateway, and a stop or a lapse reaches whatever was under way when it   *)
(* began.                                                                  *)
(***************************************************************************)
EXTENDS Gateway, SequenceTheorems, TLAPS

-----------------------------------------------------------------------------
(* The control lock.                                                       *)

\* The lifetime a lease gets is within the configured bounds (control.py:171).
LEMMA ClampRange == ASSUME NEW ttl \in AskedTtl PROVE Clamp(ttl) \in MinTtl..MaxTtl
  BY TtlAssumption DEF Clamp

\* Only tokens of leases are in the table.
LEMMA TableTyping ==
  ASSUME TypeOK, NEW d \in Domain, table[d] # None
  PROVE  table[d] \in Token /\ table[d] \in Held
  BY DEF TypeOK, Held

LEMMA InitInv == Init => IInv
  <1> SUFFICES ASSUME Init PROVE IInv
    OBVIOUS
  <1> USE TtlAssumption DEF Init
  <1>1. TypeOK
    <2>1. now \in Time /\ reapNow \in Time
      BY DEF Time
    <2>2. fate \in [Token -> Fate]
      BY DEF Fate
    <2>3. QED
      BY <2>1, <2>2 DEF TypeOK
  <1>2. TableSound /\ LapsedSound /\ FateSound /\ EveryLeaseAccountedFor
    BY DEF TableSound, LapsedSound, FateSound, EveryLeaseAccountedFor
  <1>3. ClockSound
    BY DEF ClockSound
  <1>4. QED
    BY <1>1, <1>2, <1>3 DEF IInv

LEMMA TickInv == IInv /\ Tick => IInv'
  <1> SUFFICES ASSUME IInv, Tick PROVE IInv'
    OBVIOUS
  <1> USE TtlAssumption DEF Tick, lockVars, reapVars, IInv, LiveAt, Held
  <1>1. TypeOK'
    BY DEF TypeOK, Time
  <1>2. TableSound' /\ FateSound' /\ EveryLeaseAccountedFor'
    BY DEF TypeOK, TableSound, FateSound, EveryLeaseAccountedFor
  <1>3. LapsedSound'
    BY DEF LapsedSound, TypeOK, Time, Lease
  <1>4. ClockSound'
    BY DEF ClockSound, TypeOK, Time, Lease, Acquire
  <1>5. QED
    BY <1>1, <1>2, <1>3, <1>4

LEMMA AcquireStartInv ==
  ASSUME NEW c \in Client, NEW ds \in SUBSET Domain, NEW ttl \in AskedTtl
  PROVE  IInv /\ AcquireStart(c, ds, ttl) => IInv'
  <1> SUFFICES ASSUME IInv, AcquireStart(c, ds, ttl) PROVE IInv'
    OBVIOUS
  <1> USE TtlAssumption DEF AcquireStart, lockVars, reapVars, IInv, LiveAt, Held
  <1>1. Clamp(ttl) \in MinTtl..MaxTtl
    BY ClampRange
  <1>2. acq' \in [Client -> Acquire \cup {None}]
    <2>1. [domains |-> ds, ttl |-> Clamp(ttl), at |-> now] \in Acquire
      BY <1>1 DEF TypeOK, Acquire
    <2>2. QED
      BY <2>1 DEF TypeOK
  <1>3. TypeOK'
    BY <1>2 DEF TypeOK
  <1>4. TableSound' /\ FateSound' /\ EveryLeaseAccountedFor' /\ LapsedSound'
    BY DEF TypeOK, TableSound, FateSound, EveryLeaseAccountedFor, LapsedSound
  <1>5. ASSUME NEW k \in Client, acq'[k] # None PROVE acq'[k].at <= now
    <2>1. CASE k = c
      BY <2>1 DEF TypeOK, Time
    <2>2. CASE k # c
      BY <2>2, <1>5 DEF TypeOK, ClockSound
    <2>3. QED
      BY <2>1, <2>2
  <1>6. ClockSound'
    BY <1>5 DEF ClockSound
  <1>7. QED
    BY <1>3, <1>4, <1>6

LEMMA AcquireConflictInv ==
  ASSUME NEW c \in Client
  PROVE  IInv /\ AcquireConflict(c) => IInv'
  <1> SUFFICES ASSUME IInv, AcquireConflict(c) PROVE IInv'
    OBVIOUS
  <1> USE DEF AcquireConflict, lockVars, reapVars, IInv, LiveAt, Held
  <1>1. TypeOK'
    BY DEF TypeOK
  <1>2. TableSound' /\ FateSound' /\ EveryLeaseAccountedFor' /\ LapsedSound'
    BY DEF TypeOK, TableSound, FateSound, EveryLeaseAccountedFor, LapsedSound
  <1>3. ClockSound'
    BY DEF ClockSound, TypeOK
  <1>4. QED
    BY <1>1, <1>2, <1>3

LEMMA AcquireGrantInv ==
  ASSUME NEW c \in Client, NEW t \in Token
  PROVE  IInv /\ AcquireGrant(c, t) => IInv'
  <1> SUFFICES ASSUME IInv, AcquireGrant(c, t) PROVE IInv'
    OBVIOUS
  <1> DEFINE new == [client |-> c, domains |-> acq[c].domains,
                     expires |-> acq[c].at + acq[c].ttl]
  <1> USE TtlAssumption DEF IInv
  <1>1. /\ acq[c] \in Acquire /\ acq[c].at <= now /\ acq[c].ttl <= MaxTtl
        /\ lease[t] = None /\ fate[t] = "unissued" /\ t \notin Held /\ t \notin lapsed
    <2>1. acq[c] \in Acquire /\ acq[c].at <= now
      BY DEF AcquireGrant, TypeOK, ClockSound
    <2>2. acq[c].ttl <= MaxTtl
      BY <2>1 DEF Acquire
    <2>3. lease[t] = None /\ fate[t] = "unissued"
      BY DEF AcquireGrant, FateSound
    <2>4. t \notin Held /\ t \notin lapsed
      BY <2>3, NoneAssumption DEF TableSound, LapsedSound, Held
    <2>5. QED
      BY <2>1, <2>2, <2>3, <2>4
  <1>2. new \in Lease /\ new # None /\ new.expires <= now + MaxTtl
    BY <1>1, NoneAssumption DEF Lease, Acquire, TypeOK, Time
  <1>3. lease' = [lease EXCEPT ![t] = new] /\ lease' \in [Token -> Lease \cup {None}]
    BY <1>2 DEF AcquireGrant, TypeOK
  <1>4. table' \in [Domain -> Token \cup {None}]
    BY DEF AcquireGrant, TypeOK
  <1>5. fate' \in [Token -> Fate] /\ acq' \in [Client -> Acquire \cup {None}]
    BY DEF AcquireGrant, TypeOK, Fate
  <1>6. TypeOK'
    BY <1>3, <1>4, <1>5 DEF AcquireGrant, reapVars, TypeOK
  <1>7. \A d \in Domain : table'[d] # None =>
           \/ table'[d] = t /\ d \in acq[c].domains
           \/ table'[d] = table[d] /\ table[d] # t
    BY <1>1 DEF AcquireGrant, TypeOK, Held
  <1>8. \A u \in Token : fate'[u] =
           IF u = t THEN "open"
           ELSE IF u \notin Dropped THEN fate[u]
           ELSE IF LiveAt(u, now) THEN "goodbye" ELSE "overtaken"
    BY DEF AcquireGrant
  <1>9. TableSound'
    <2> SUFFICES ASSUME NEW d \in Domain, table'[d] # None
                 PROVE  /\ lease'[table'[d]] # None
                        /\ d \in lease'[table'[d]].domains
                        /\ fate'[table'[d]] = "open"
                        /\ table'[d] \notin lapsed'
      BY DEF TableSound
    <2>1. CASE table'[d] = t /\ d \in acq[c].domains
      BY <2>1, <1>1, <1>2, <1>3, <1>8 DEF AcquireGrant, reapVars, TypeOK
    <2>2. CASE table'[d] = table[d] /\ table[d] # t
      <3>1. table[d] \in Token /\ table[d] \in Held /\ table[d] \in Held'
        BY <2>2, TableTyping DEF Held
      <3>2. fate'[table[d]] = fate[table[d]]
        BY <3>1, <2>2, <1>8 DEF Dropped
      <3>3. QED
        BY <2>2, <3>1, <3>2, <1>3 DEF TableSound, AcquireGrant, reapVars, TypeOK
    <2>3. QED
      BY <1>7, <2>1, <2>2
  <1>10. LapsedSound'
    <2> SUFFICES ASSUME NEW u \in lapsed
                 PROVE  lease'[u] # None /\ ~(lease'[u].expires > now) /\ fate'[u] = "open"
      BY DEF LapsedSound, AcquireGrant, reapVars, LiveAt
    <2>1. u \in Token /\ u # t /\ u \notin Held
      <3>1. u \in Token /\ u # t
        BY <1>1 DEF TypeOK
      <3>2. u \notin Held
        BY NoneAssumption DEF TableSound, Held, TypeOK
      <3>3. QED
        BY <3>1, <3>2
    <2>2. QED
      BY <2>1, <1>3, <1>8 DEF LapsedSound, Dropped, LiveAt, TypeOK
  <1>11. FateSound'
    <2>1. \A u \in Dropped : u # t /\ lease[u] # None
      BY <1>1, NoneAssumption DEF Dropped, Held, TableSound
    <2>2. \A u \in Token : fate'[u] = "unissued" <=> lease'[u] = None
      BY <2>1, <1>2, <1>3, <1>8 DEF FateSound, TypeOK
    <2>3. QED
      BY <2>2 DEF FateSound
  <1>12. ClockSound'
    BY <1>2, <1>3 DEF ClockSound, AcquireGrant, reapVars, TypeOK
  <1>13. EveryLeaseAccountedFor'
    <2> SUFFICES ASSUME NEW u \in Token, fate'[u] = "open"
                 PROVE  u \in Held' \cup lapsed'
      BY DEF EveryLeaseAccountedFor
    <2>1. CASE u = t
      <3>1. PICK d \in Domain : d \in acq[c].domains
        <4>1. acq[c].domains \in (SUBSET Domain) \ {{}}
          BY <1>1 DEF Acquire
        <4>2. QED
          BY <4>1
      <3>2. table'[d] = t
        BY <3>1 DEF AcquireGrant
      <3>3. QED
        BY <2>1, <3>1, <3>2 DEF Held
    <2>2. CASE u # t
      BY <2>2, <1>8 DEF EveryLeaseAccountedFor, Dropped, AcquireGrant, reapVars
    <2>3. QED
      BY <2>1, <2>2
  <1>14. QED
    BY <1>6, <1>9, <1>10, <1>11, <1>12, <1>13

LEMMA RenewInv ==
  ASSUME NEW t \in Token, NEW ttl \in AskedTtl
  PROVE  IInv /\ Renew(t, ttl) => IInv'
  <1> SUFFICES ASSUME IInv, Renew(t, ttl) PROVE IInv'
    OBVIOUS
  <1> USE TtlAssumption DEF IInv
  <1>1. Clamp(ttl) \in MinTtl..MaxTtl
    BY ClampRange
  <1>2. lease[t] \in Lease /\ lease[t] # None /\ t \notin lapsed
    BY NoneAssumption DEF Renew, Held, TableSound, TypeOK
  <1> DEFINE renewed == [lease[t] EXCEPT !.expires = now + Clamp(ttl)]
  <1>3. /\ renewed \in Lease
        /\ renewed.expires <= now + MaxTtl
        /\ renewed.domains = lease[t].domains
    BY <1>1, <1>2 DEF Lease, TypeOK, Time
  <1>4. renewed # None
    BY <1>3, NoneAssumption
  <1>5. /\ lease' \in [Token -> Lease \cup {None}]
        /\ lease'[t] = renewed
        /\ \A u \in Token : u # t => lease'[u] = lease[u]
    BY <1>3 DEF Renew, TypeOK
  <1>6. TypeOK'
    BY <1>5 DEF TypeOK, Renew, reapVars
  <1>7. TableSound'
    BY <1>3, <1>4, <1>5, TableTyping DEF TableSound, Renew, reapVars
  <1>8. LapsedSound'
    BY <1>2, <1>5 DEF LapsedSound, LiveAt, TypeOK, Renew, reapVars
  <1>9. FateSound'
    BY <1>2, <1>4, <1>5 DEF FateSound, Renew
  <1>10. ClockSound'
    BY <1>3, <1>5 DEF ClockSound, Renew, reapVars
  <1>11. EveryLeaseAccountedFor'
    BY DEF EveryLeaseAccountedFor, Held, Renew, reapVars
  <1>12. QED
    BY <1>6, <1>7, <1>8, <1>9, <1>10, <1>11

\* What release() and break_lock() have in common: they only take entries out
\* of the table, and end the leases that lose their last one.
LEMMA GoodbyeInv ==
  ASSUME IInv, SayGoodbye, UNCHANGED <<now, lease, acq, reapVars, stopping>>,
         table' \in [Domain -> Token \cup {None}],
         \A d \in Domain : table'[d] \in {None, table[d]}
  PROVE  IInv'
  <1> USE NoneAssumption DEF IInv, reapVars
  <1>1. \A u \in Token : fate'[u] = IF u \in Dropped THEN "goodbye" ELSE fate[u]
    BY DEF SayGoodbye
  <1>2. TypeOK'
    <2>1. fate' \in [Token -> Fate]
      BY DEF SayGoodbye, TypeOK, Fate
    <2>2. QED
      BY <2>1 DEF TypeOK
  <1>3. TableSound'
    <2> SUFFICES ASSUME NEW d \in Domain, table'[d] # None
                 PROVE  /\ lease[table[d]] # None
                        /\ d \in lease[table[d]].domains
                        /\ fate'[table[d]] = "open"
                        /\ table[d] \notin lapsed
                        /\ table'[d] = table[d]
      BY DEF TableSound
    <2>1. table'[d] = table[d] /\ table[d] \in Token /\ table[d] \in Held'
      BY TableTyping DEF Held
    <2>2. QED
      BY <2>1, <1>1 DEF TableSound, Dropped
  <1>4. LapsedSound'
    <2>1. \A u \in lapsed : u \in Token /\ u \notin Held
      BY DEF TypeOK, Held, TableSound
    <2>2. QED
      BY <2>1, <1>1 DEF LapsedSound, LiveAt, Dropped
  <1>5. FateSound'
    <2>1. \A u \in Dropped : u \in Token /\ lease[u] # None
      BY DEF Dropped, Held, TableSound
    <2>2. QED
      BY <2>1, <1>1 DEF FateSound
  <1>6. ClockSound'
    BY DEF ClockSound
  <1>7. EveryLeaseAccountedFor'
    BY <1>1 DEF EveryLeaseAccountedFor, Dropped
  <1>8. QED
    BY <1>2, <1>3, <1>4, <1>5, <1>6, <1>7

LEMMA ReleaseInv == ASSUME NEW t \in Token PROVE IInv /\ Release(t) => IInv'
  <1> SUFFICES ASSUME IInv, Release(t) PROVE IInv'
    OBVIOUS
  <1>1. table' \in [Domain -> Token \cup {None}]
    BY DEF Release, IInv, TypeOK
  <1>2. \A d \in Domain : table'[d] \in {None, table[d]}
    BY DEF Release
  <1>3. QED
    BY <1>1, <1>2, GoodbyeInv DEF Release

LEMMA BreakLockInv == ASSUME NEW d \in Domain PROVE IInv /\ BreakLock(d) => IInv'
  <1> SUFFICES ASSUME IInv, BreakLock(d) PROVE IInv'
    OBVIOUS
  <1>1. table' \in [Domain -> Token \cup {None}]
    BY DEF BreakLock, IInv, TypeOK
  <1>2. \A k \in Domain : table'[k] \in {None, table[k]}
    BY DEF BreakLock, IInv, TypeOK
  <1>3. QED
    BY <1>1, <1>2, GoodbyeInv DEF BreakLock

LEMMA ReapRemoveInv == IInv /\ ReapRemove => IInv'
  <1> SUFFICES ASSUME IInv, ReapRemove PROVE IInv'
    OBVIOUS
  <1> USE NoneAssumption DEF IInv
  <1>1. \A d \in Domain :
           \/ table'[d] = None
           \/ table'[d] = table[d] /\ table[d] \notin RunOut
    BY DEF ReapRemove
  <1>2. lapsed = {} /\ lapsed' = RunOut /\ RunOut \subseteq Held
    BY DEF ReapRemove, LapsedSound, RunOut
  <1>3. TypeOK'
    <2>1. table' \in [Domain -> Token \cup {None}]
      BY DEF TypeOK, ReapRemove
    <2>2. lapsed' \in SUBSET Token /\ reaper' \in {"wait", "scan", "fire", "exited"}
      BY DEF ReapRemove, RunOut, Held
    <2>3. QED
      BY <2>1, <2>2 DEF TypeOK, ReapRemove
  <1>4. TableSound'
    BY <1>1, <1>2 DEF TableSound, ReapRemove
  <1>5. LapsedSound'
    <2>1. ASSUME NEW t \in RunOut
          PROVE  lease[t] # None /\ ~LiveAt(t, now) /\ fate[t] = "open"
      <3>1. t \in Token /\ lease[t] # None /\ fate[t] = "open"
        BY DEF RunOut, Held, TableSound
      <3>2. lease[t].expires \in Int /\ ~(lease[t].expires > reapNow)
        BY <3>1, TtlAssumption DEF TypeOK, Lease, RunOut, LiveAt
      <3>3. reapNow <= now /\ reapNow \in Int /\ now \in Int
        BY TtlAssumption DEF ClockSound, TypeOK, Time
      <3>4. QED
        BY <3>1, <3>2, <3>3 DEF LiveAt
    <2>2. QED
      BY <2>1, <1>2 DEF LapsedSound, ReapRemove, LiveAt
  <1>6. FateSound' /\ ClockSound'
    BY DEF FateSound, ClockSound, ReapRemove
  <1>7. EveryLeaseAccountedFor'
    <2> SUFFICES ASSUME NEW t \in Token, t \in Held, t \notin RunOut
                 PROVE  t \in Held'
      BY <1>2 DEF EveryLeaseAccountedFor, ReapRemove
    <2>1. PICK d \in Domain : table[d] = t
      BY DEF Held
    <2>2. table'[d] = t
      BY <2>1 DEF ReapRemove
    <2>3. QED
      BY <2>2 DEF Held
  <1>8. QED
    BY <1>3, <1>4, <1>5, <1>6, <1>7

LEMMA FireInv ==
  ASSUME NEW t \in Token, NEW raises \in BOOLEAN
  PROVE  IInv /\ Fire(t, raises) => IInv'
  <1> SUFFICES ASSUME IInv, Fire(t, raises) PROVE IInv'
    OBVIOUS
  <1> USE NoneAssumption DEF IInv
  <1>1. \A u \in Token : fate'[u] = IF u = t THEN "fired" ELSE fate[u]
    BY DEF Fire, TypeOK
  <1>2. \A d \in Domain : table[d] # t
    BY DEF Fire, TableSound
  <1>3. TypeOK'
    <2>1. fate' \in [Token -> Fate]
      BY DEF Fire, TypeOK, Fate
    <2>2. lapsed' \in SUBSET Token /\ lapseErrors' \in BOOLEAN
      BY DEF Fire, TypeOK
    <2>3. reaper' \in {"wait", "scan", "fire", "exited"}
      BY DEF Fire
    <2>4. QED
      BY <2>1, <2>2, <2>3 DEF Fire, TypeOK
  <1>4. TableSound'
    BY <1>1, <1>2, TableTyping DEF TableSound, Fire
  <1>5. LapsedSound'
    <2>1. \A u \in lapsed' : u # t /\ u \in lapsed /\ u \in Token
      BY DEF Fire, TypeOK
    <2>2. reaper' # "fire" => lapsed' = {}
      BY DEF Fire
    <2>3. QED
      BY <2>1, <2>2, <1>1 DEF LapsedSound, Fire, LiveAt
  <1>6. FateSound'
    <2>1. lease[t] # None
      BY DEF LapsedSound, Fire
    <2>2. \A u \in Token : fate'[u] = "unissued" <=> lease[u] = None
      BY <2>1, <1>1 DEF FateSound
    <2>3. QED
      BY <2>2 DEF FateSound, Fire
  <1>7. ClockSound'
    BY DEF ClockSound, Fire
  <1>8. EveryLeaseAccountedFor'
    <2>1. \A u \in Token : u # t /\ u \in lapsed => u \in lapsed'
      BY DEF Fire
    <2>2. Held' = Held
      BY DEF Held, Fire
    <2>3. QED
      BY <2>1, <2>2, <1>1 DEF EveryLeaseAccountedFor
  <1>9. QED
    BY <1>3, <1>4, <1>5, <1>6, <1>7, <1>8

\* The steps that touch neither the leases nor the table.
LEMMA ReaperIdleInv == IInv /\ (ReapRead \/ ReaperExit \/ Close) => IInv'
  <1> SUFFICES ASSUME IInv, ReapRead \/ ReaperExit \/ Close PROVE IInv'
    OBVIOUS
  <1> USE TtlAssumption DEF IInv, ReapRead, ReaperExit, Close, lockVars, reapVars, LiveAt, Held
  <1>1. TypeOK'
    BY DEF TypeOK
  <1>2. TableSound' /\ FateSound' /\ EveryLeaseAccountedFor' /\ LapsedSound'
    BY DEF TableSound, FateSound, EveryLeaseAccountedFor, LapsedSound
  <1>3. ClockSound'
    BY DEF ClockSound, TypeOK, Time
  <1>4. QED
    BY <1>1, <1>2, <1>3

LEMMA StutterInv == IInv /\ UNCHANGED vars => IInv'
  BY DEF vars, IInv, TypeOK, TableSound, FateSound, EveryLeaseAccountedFor,
     LapsedSound, ClockSound, LiveAt, Held

LEMMA NextInv == IInv /\ [Next]_vars => IInv'
  <1> SUFFICES ASSUME IInv, [Next]_vars PROVE IInv'
    OBVIOUS
  <1>1. CASE Tick
    BY <1>1, TickInv
  <1>2. CASE Request
    BY <1>2, AcquireStartInv, AcquireConflictInv, AcquireGrantInv, RenewInv,
       ReleaseInv, BreakLockInv DEF Request, AcquireFinish
  <1>3. CASE Reap
    BY <1>3, ReaperIdleInv, ReapRemoveInv, FireInv DEF Reap
  <1>4. CASE Close
    BY <1>4, ReaperIdleInv
  <1>5. CASE UNCHANGED vars
    BY <1>5, StutterInv
  <1>6. QED
    BY <1>1, <1>2, <1>3, <1>4, <1>5 DEF Next

-----------------------------------------------------------------------------
\* The strengthened invariant of the lock holds in every reachable state
\* (control.py:86-230).
THEOREM LockInvariant == Spec => []IInv
  <1>1. QED
    BY InitInv, NextInv, PTL DEF Spec

\* Every variable of the lock keeps its type.
THEOREM LockTyping == Spec => []TypeOK
  <1>1. IInv => TypeOK
    BY DEF IInv
  <1>2. QED
    BY <1>1, LockInvariant, PTL

\* on_lapse is only ever called for a lease that has run out and that no
\* request can bring back (control.py:86-112).
THEOREM WatchdogFiresOnlyTheDead == Spec => []FiresOnlyTheDead
  <1>1. IInv => FiresOnlyTheDead
    BY NoneAssumption DEF IInv, FiresOnlyTheDead, LapsedSound, TableSound, Held, TypeOK
  <1>2. QED
    BY <1>1, LockInvariant, PTL

\* An ended lease is never in the table nor reported again
\* (control.py:95-100, 216-230).
THEOREM EndedLeasesStayEnded == Spec => []GoneForGood
  <1>1. IInv => GoneForGood
    BY NoneAssumption DEF IInv, GoneForGood, LapsedSound, TableSound, Held, TypeOK
  <1>2. QED
    BY <1>1, LockInvariant, PTL

\* Until it has ended, a lease is in the table or its lapse is due
\* (control.py:86-114).
THEOREM NoLeaseIsLost == Spec => []EveryLeaseAccountedFor
  <1>1. IInv => EveryLeaseAccountedFor
    BY DEF IInv
  <1>2. QED
    BY <1>1, LockInvariant, PTL

\* No lease in the table runs for more than MAX_TTL_S from now
\* (control.py:171, 199).
THEOREM LeasesAreShort == Spec => []VanishedHolderBlocksBriefly
  <1>1. IInv => VanishedHolderBlocksBriefly
    BY NoneAssumption DEF IInv, VanishedHolderBlocksBriefly, ClockSound, TableSound, Held
  <1>2. QED
    BY <1>1, LockInvariant, PTL

\* A scan frees no domain whose lease is live at that moment, although it uses
\* a clock reading from before the mutex (control.py:88-94).
THEOREM ReaperSparesTheLiving == Spec => ReapSparesTheLiving
  <1>1. ASSUME IInv, ReapRemove, NEW d \in Domain, HeldBy(d) # None
        PROVE  table'[d] = table[d]
    <2>1. table[d] \in Token /\ lease[table[d]] \in Lease /\ LiveAt(table[d], now)
      BY <1>1 DEF IInv, TypeOK, TableSound, HeldBy
    <2>2. lease[table[d]].expires \in Int /\ reapNow \in Int /\ now \in Int /\ reapNow <= now
      BY <1>1, <2>1, TtlAssumption DEF IInv, TypeOK, ClockSound, Lease, Time
    <2>3. table[d] \notin RunOut
      BY <2>1, <2>2 DEF RunOut, LiveAt
    <2>4. QED
      BY <1>1, <2>3 DEF ReapRemove
  <1>2. IInv /\ [Next]_vars =>
           [ReapRemove => \A d \in Domain : HeldBy(d) # None => table'[d] = table[d]]_vars
    BY <1>1
  <1>3. QED
    BY <1>2, LockInvariant, PTL DEF Spec, ReapSparesTheLiving

-----------------------------------------------------------------------------
(* The lock implements DomainOwnership.                                    *)

\* An owner is the client of the live lease in the table.
LEMMA OwnerIsClient ==
  ASSUME IInv, NEW d \in Domain, Owner(d) # None
  PROVE  /\ table[d] \in Token /\ lease[table[d]] \in Lease
         /\ lease[table[d]].expires > now
         /\ Owner(d) = lease[table[d]].client
  BY DEF IInv, TypeOK, TableSound, Owner, HeldBy, LiveAt

\* A step that only ends ownership is a Free step.
LEMMA LossIsFree ==
  ASSUME \A d \in Domain : Owner(d)' \in {None, Owner(d)}
  PROVE  Ownership!Next
  <1>1. Ownership!Free({d \in Domain : Owner(d)' = None})
    BY DEF Ownership!Free
  <1>2. QED
    BY <1>1 DEF Ownership!Next

\* A step by which c gains ds it may have, and otherwise only loses domains of
\* its own, is a Take step.
LEMMA GainIsTake ==
  ASSUME NEW c \in Client, NEW ds \in SUBSET Domain,
         \A d \in ds : Owner(d) \in {None, c} /\ Owner(d)' = c,
         \A d \in Domain \ ds :
            Owner(d)' = Owner(d) \/ (Owner(d) = c /\ Owner(d)' = None)
  PROVE  Ownership!Next
  <1> DEFINE lost == {d \in Domain \ ds : Owner(d) = c /\ Owner(d)' = None}
  <1>1. Ownership!Take(c, ds, lost)
    BY DEF Ownership!Take
  <1>2. lost \in SUBSET Domain
    OBVIOUS
  <1>3. QED
    BY <1>1, <1>2 DEF Ownership!Next

LEMMA TickRefines == IInv /\ Tick => Ownership!Next
  <1> SUFFICES ASSUME IInv, Tick, NEW d \in Domain
               PROVE  Owner(d)' \in {None, Owner(d)}
    BY LossIsFree
  <1>1. CASE table[d] = None
    BY <1>1 DEF Tick, lockVars, Owner, HeldBy
  <1>2. CASE table[d] # None
    <2>1. lease[table[d]] \in Lease /\ lease[table[d]].client # None
      BY <1>2, NoneAssumption DEF IInv, TypeOK, TableSound, Lease
    <2>2. lease[table[d]].expires \in Int /\ now \in Int
      BY <2>1, TtlAssumption DEF Lease, IInv, TypeOK, Time
    <2>3. QED
      BY <1>2, <2>1, <2>2, NoneAssumption DEF Tick, lockVars, Owner, HeldBy, LiveAt, IInv, TypeOK
  <1>3. QED
    BY <1>1, <1>2

\* Taking entries out of the table only ends ownership.
LEMMA RemovalRefines ==
  ASSUME IInv, UNCHANGED <<now, lease>>,
         \A d \in Domain : table'[d] \in {None, table[d]}
  PROVE  Ownership!Next
  <1> SUFFICES ASSUME NEW d \in Domain PROVE Owner(d)' \in {None, Owner(d)}
    BY LossIsFree
  <1>1. QED
    BY DEF Owner, HeldBy, LiveAt

LEMMA RenewRefines ==
  ASSUME NEW t \in Token, NEW ttl \in AskedTtl
  PROVE  IInv /\ Renew(t, ttl) => Ownership!Next
  <1> SUFFICES ASSUME IInv, Renew(t, ttl) PROVE Ownership!Next
    OBVIOUS
  <1> DEFINE ds == {d \in Domain : table[d] = t}
             c == lease[t].client
  <1>1. t # None /\ lease[t] \in Lease /\ c \in Client /\ c # None
    BY NoneAssumption DEF Renew, Held, IInv, TableSound, TypeOK, Lease
  <1>2. /\ lease'[t].client = c
        /\ lease'[t].expires = now + Clamp(ttl)
        /\ \A u \in Token : u # t => lease'[u] = lease[u]
    BY <1>1 DEF Renew, IInv, TypeOK, Lease
  <1>3. now + Clamp(ttl) > now
    <2>1. Clamp(ttl) \in MinTtl..MaxTtl
      BY ClampRange
    <2>2. QED
      BY <2>1, TtlAssumption DEF IInv, TypeOK, Time
  <1>4. \A d \in ds : Owner(d) \in {None, c} /\ Owner(d)' = c
    BY <1>1, <1>2, <1>3 DEF Owner, HeldBy, LiveAt, Renew
  <1>5. \A d \in Domain \ ds : Owner(d)' = Owner(d)
    BY <1>2, TableTyping DEF Owner, HeldBy, LiveAt, Renew, IInv
  <1>6. ds \in SUBSET Domain
    OBVIOUS
  <1>7. QED
    BY <1>1, <1>4, <1>5, <1>6, GainIsTake

LEMMA AcquireGrantRefines ==
  ASSUME NEW c \in Client, NEW t \in Token
  PROVE  IInv /\ AcquireGrant(c, t) => Ownership!Next
  <1> SUFFICES ASSUME IInv, AcquireGrant(c, t) PROVE Ownership!Next
    OBVIOUS
  <1> DEFINE asked == acq[c].domains
             ends == acq[c].at + acq[c].ttl
             ds == IF ends > now THEN asked ELSE {}
  <1>1. /\ asked \in SUBSET Domain /\ acq[c].at <= now
        /\ acq[c].at \in Int /\ now \in Int /\ c # None /\ t # None
    BY NoneAssumption, TtlAssumption
       DEF AcquireGrant, IInv, TypeOK, ClockSound, Acquire, Time
  <1>2. /\ lease'[t].client = c /\ lease'[t].expires = ends
        /\ \A u \in Token : u # t => lease'[u] = lease[u]
    BY DEF AcquireGrant, IInv, TypeOK
  <1>3. ASSUME NEW d \in asked PROVE Owner(d) \in {None, c}
    <2> SUFFICES ASSUME Owner(d) # None PROVE Owner(d) = c
      OBVIOUS
    <2>1. /\ table[d] \in Token /\ lease[table[d]] \in Lease
          /\ lease[table[d]].expires > now /\ Owner(d) = lease[table[d]].client
      BY <1>1, OwnerIsClient
    <2>2. lease[table[d]].expires \in Int
      BY <2>1, TtlAssumption DEF Lease
    <2>3. LiveAt(table[d], acq[c].at) /\ table[d] # None
      BY <1>1, <2>1, <2>2, NoneAssumption DEF LiveAt
    <2>4. ~ConflictOn(c, d)
      BY DEF AcquireGrant
    <2>5. QED
      BY <2>1, <2>3, <2>4 DEF ConflictOn
  <1>4. ASSUME NEW d \in asked PROVE Owner(d)' = IF ends > now THEN c ELSE None
    BY SMTT(30), <1>1, <1>2 DEF AcquireGrant, Owner, HeldBy, LiveAt
  <1>5. ASSUME NEW d \in Domain \ asked
        PROVE  Owner(d)' = Owner(d) \/ (Owner(d) = c /\ Owner(d)' = None)
    <2>1. CASE table[d] = None
      BY <2>1, <1>5 DEF AcquireGrant, Owner, HeldBy
    <2>2. CASE table[d] # None /\ table[d] \in Replaced(c)
      <3>1. table'[d] = None /\ lease[table[d]].client = c
        BY <2>2, <1>5 DEF AcquireGrant, Replaced
      <3>2. Owner(d)' = None /\ Owner(d) \in {None, c}
        BY <3>1, OwnerIsClient DEF Owner, HeldBy
      <3>3. QED
        BY <3>2
    <2>3. CASE table[d] # None /\ table[d] \notin Replaced(c)
      <3>1. table'[d] = table[d]
        BY <2>3, <1>5 DEF AcquireGrant
      <3>2. table[d] \in Token /\ table[d] # t
        BY <2>3, TableTyping DEF AcquireGrant, IInv, TableSound
      <3>3. QED
        BY <3>1, <3>2, <1>2 DEF Owner, HeldBy, LiveAt, AcquireGrant
    <2>4. QED
      BY <2>1, <2>2, <2>3
  <1>6. ds \in SUBSET Domain
    BY <1>1
  <1>7. \A d \in ds : Owner(d) \in {None, c} /\ Owner(d)' = c
    BY <1>3, <1>4
  <1>8. \A d \in Domain \ ds :
           Owner(d)' = Owner(d) \/ (Owner(d) = c /\ Owner(d)' = None)
    <2> SUFFICES ASSUME NEW d \in Domain \ ds
                 PROVE  Owner(d)' = Owner(d) \/ (Owner(d) = c /\ Owner(d)' = None)
      OBVIOUS
    <2>1. CASE d \in asked
      BY <2>1, <1>3, <1>4
    <2>2. CASE d \notin asked
      BY <2>2, <1>5
    <2>3. QED
      BY <2>1, <2>2
  <1>9. QED
    BY <1>6, <1>7, <1>8, GainIsTake

LEMMA UnchangedRefines ==
  ASSUME UNCHANGED <<now, lease, table>>
  PROVE  UNCHANGED [d \in Domain |-> Owner(d)]
  BY DEF Owner, HeldBy, LiveAt

\* Every step of the lock is a step of DomainOwnership or none at all: no
\* domain passes from one client to another while the first one's lease is
\* live, with stale clock readings, overlapping leases, renewals of leases
\* that had run out, breaks and the reaper in between (control.py:86-230).
THEOREM LockImplementsOwnership == Spec => ImplementsOwnership
  <1>1. Init => Ownership!Init
    BY DEF Init, Ownership!Init, Owner, HeldBy
  <1>2. IInv /\ [Next]_vars => [Ownership!Next]_([d \in Domain |-> Owner(d)])
    <2> SUFFICES ASSUME IInv, [Next]_vars
                 PROVE  Ownership!Next \/ UNCHANGED [d \in Domain |-> Owner(d)]
      OBVIOUS
    <2>1. CASE Tick
      BY <2>1, TickRefines
    <2>2. ASSUME NEW c \in Client, NEW ds \in SUBSET Domain, NEW ttl \in AskedTtl,
                 AcquireStart(c, ds, ttl)
          PROVE  UNCHANGED [d \in Domain |-> Owner(d)]
      BY <2>2, UnchangedRefines DEF AcquireStart, lockVars
    <2>3. ASSUME NEW c \in Client, AcquireConflict(c)
          PROVE  UNCHANGED [d \in Domain |-> Owner(d)]
      BY <2>3, UnchangedRefines DEF AcquireConflict, lockVars
    <2>4. ASSUME NEW t \in Token, Release(t) PROVE Ownership!Next
      <3>1. \A d \in Domain : table'[d] \in {None, table[d]}
        BY <2>4 DEF Release
      <3>2. QED
        BY <2>4, <3>1, RemovalRefines DEF Release
    <2>5. ASSUME NEW k \in Domain, BreakLock(k) PROVE Ownership!Next
      <3>1. \A d \in Domain : table'[d] \in {None, table[d]}
        BY <2>5 DEF BreakLock, IInv, TypeOK
      <3>2. QED
        BY <2>5, <3>1, RemovalRefines DEF BreakLock
    <2>6. CASE Request
      BY <2>6, <2>2, <2>3, <2>4, <2>5, AcquireGrantRefines, RenewRefines
         DEF Request, AcquireFinish
    <2>7. CASE ReapRemove
      <3>1. \A d \in Domain : table'[d] \in {None, table[d]}
        BY <2>7 DEF ReapRemove
      <3>2. QED
        BY <2>7, <3>1, RemovalRefines DEF ReapRemove
    <2>8. CASE Reap \/ Close
      BY <2>7, <2>8, UnchangedRefines
         DEF Reap, ReapRead, Fire, ReaperExit, Close, lockVars
    <2>9. CASE UNCHANGED vars
      BY <2>9, UnchangedRefines DEF vars
    <2>10. QED
      BY <2>1, <2>6, <2>8, <2>9 DEF Next
  <1>3. QED
    BY <1>1, <1>2, LockInvariant, PTL DEF Spec, ImplementsOwnership, Ownership!Spec

-----------------------------------------------------------------------------
(* The gateway, which drives it.                                           *)

Elements(s) == {s[i] : i \in DOMAIN s}

\* A queue of stops without its first, and with another in front.
LEMMA TailOfQueue ==
  ASSUME NEW s \in Seq(StopRPC), s # <<>>
  PROVE  /\ Head(s) \in StopRPC
         /\ Tail(s) \in Seq(StopRPC)
         /\ Len(Tail(s)) = Len(s) - 1
         /\ Elements(s) = {Head(s)} \cup Elements(Tail(s))
  <1>1. /\ Head(s) \in StopRPC /\ Head(s) = s[1]
        /\ Tail(s) \in Seq(StopRPC)
        /\ Len(Tail(s)) = Len(s) - 1
        /\ \A i \in 1..Len(Tail(s)) : Tail(s)[i] = s[i + 1]
        /\ Len(s) \in Nat \ {0} /\ DOMAIN s = 1..Len(s)
        /\ DOMAIN Tail(s) = 1..Len(Tail(s))
    BY HeadTailProperties, EmptySeq, LenProperties
  <1>2. ASSUME NEW e \in Elements(s) PROVE e \in {Head(s)} \cup Elements(Tail(s))
    <2>1. PICK i \in 1..Len(s) : e = s[i]
      BY <1>1 DEF Elements
    <2>2. CASE i = 1
      BY <2>1, <2>2, <1>1
    <2>3. CASE i # 1
      <3>1. i - 1 \in 1..Len(Tail(s)) /\ (i - 1) + 1 = i
        BY <1>1, <2>1, <2>3
      <3>2. Tail(s)[i - 1] = e
        BY <3>1, <1>1, <2>1
      <3>3. QED
        BY <3>1, <3>2, <1>1 DEF Elements
    <2>4. QED
      BY <2>2, <2>3
  <1>3. ASSUME NEW e \in Elements(Tail(s)) PROVE e \in Elements(s)
    <2>1. PICK i \in 1..Len(Tail(s)) : e = Tail(s)[i]
      BY <1>1 DEF Elements
    <2>2. i + 1 \in 1..Len(s) /\ e = s[i + 1]
      BY <2>1, <1>1
    <2>3. QED
      BY <2>2, <1>1 DEF Elements
  <1>4. Head(s) \in Elements(s)
    BY <1>1 DEF Elements
  <1>5. QED
    BY <1>1, <1>2, <1>3, <1>4

LEMMA QueueInFront ==
  ASSUME NEW s \in Seq(StopRPC), NEW e \in StopRPC
  PROVE  /\ <<e>> \o s \in Seq(StopRPC)
         /\ Len(<<e>> \o s) = Len(s) + 1
         /\ e \in Elements(<<e>> \o s)
         /\ Elements(s) \subseteq Elements(<<e>> \o s)
  <1> DEFINE q == <<e>> \o s
  <1>1. /\ <<e>> \in Seq(StopRPC) /\ Len(<<e>>) = 1
        /\ q \in Seq(StopRPC) /\ Len(q) = 1 + Len(s)
        /\ \A i \in 1..Len(q) : q[i] = IF i <= 1 THEN e ELSE s[i - 1]
        /\ Len(s) \in Nat /\ DOMAIN s = 1..Len(s) /\ DOMAIN q = 1..Len(q)
    <2>1. <<e>> \in Seq(StopRPC) /\ Len(<<e>>) = 1 /\ <<e>>[1] = e
      OBVIOUS
    <2>2. QED
      BY <2>1, ConcatProperties, LenProperties
  <1>2. e \in Elements(q)
    <2>1. 1 \in 1..Len(q) /\ q[1] = e
      BY <1>1
    <2>2. QED
      BY <2>1, <1>1 DEF Elements
  <1>3. ASSUME NEW x \in Elements(s) PROVE x \in Elements(q)
    <2>1. PICK i \in 1..Len(s) : x = s[i]
      BY <1>1 DEF Elements
    <2>2. i + 1 \in 1..Len(q) /\ q[i + 1] = x
      BY <2>1, <1>1
    <2>3. QED
      BY <2>2, <1>1 DEF Elements
  <1>4. QED
    BY <1>1, <1>2, <1>3

LEMMA ElementsAreQueued == \A a \in Agent : Queued(a) = Elements(todo[a])
  BY DEF Queued, Elements

\* The cascades a stop route and a lapse begin with.
LEMMA Cascades ==
  /\ \A r \in Stops :
       /\ StopsOf(r) \in Seq(StopRPC) /\ Len(StopsOf(r)) <= 3
       /\ \A x \in RouteEndsWhat(r) : Against(x) \cap Elements(StopsOf(r)) # {}
  /\ \A ds \in SUBSET Domain :
       /\ LapseStops(ds) \in Seq(StopRPC) /\ Len(LapseStops(ds)) <= 3
       /\ Motion \in ds => {"ImmStopJOG", "StopMotion"} \subseteq Elements(LapseStops(ds))
       /\ Program \in ds => "ReadProgram" \in Elements(LapseStops(ds))
  <1>1. ASSUME NEW p \in StopRPC, NEW q \in StopRPC
        PROVE  /\ <<p, q>> \in Seq(StopRPC) /\ Len(<<p, q>>) = 2
               /\ Elements(<<p, q>>) = {p, q}
    <2>1. DOMAIN <<p, q>> = 1..2 /\ <<p, q>>[1] = p /\ <<p, q>>[2] = q
      OBVIOUS
    <2>2. Elements(<<p, q>>) = {<<p, q>>[1], <<p, q>>[2]}
      BY <2>1 DEF Elements
    <2>3. QED
      BY <2>1, <2>2
  <1>2. <<>> \in Seq(StopRPC) /\ Len(<<>>) = 0 /\ Elements(<<>>) = {}
    BY DEF Elements
  <1>3. ASSUME NEW s \in Seq(StopRPC) PROVE <<>> \o s = s /\ s \o <<>> = s
    BY ConcatEmptySeq
  <1>4. ASSUME NEW r \in Stops
        PROVE  /\ StopsOf(r) \in Seq(StopRPC) /\ Len(StopsOf(r)) <= 3
               /\ \A x \in RouteEndsWhat(r) : Against(x) \cap Elements(StopsOf(r)) # {}
    <2>1. CASE r = "stop"
      <3>1. /\ StopsOf(r) = <<"ImmStopJOG", "StopMotion">>
            /\ RouteEndsWhat(r) = {"jog", "move"}
        BY <2>1 DEF StopsOf, RouteEndsWhat
      <3>2. Against("jog") = {"ImmStopJOG"} /\ Against("move") = {"StopMotion"}
        BY DEF Against
      <3>3. QED
        BY <3>1, <3>2, <1>1 DEF StopRPC
    <2>2. CASE r = "stopProgram"
      <3>1. /\ StopsOf(r) = <<"ProgramStop", "StopMotion">>
            /\ RouteEndsWhat(r) = {"move", "program"}
        BY <2>2 DEF StopsOf, RouteEndsWhat
      <3>2. /\ Against("program") = {"ReadProgram", "ProgramStop"}
            /\ Against("move") = {"StopMotion"}
        BY DEF Against
      <3>3. QED
        BY <3>1, <3>2, <1>1 DEF StopRPC
    <2>3. CASE r = "safetyStop"
      <3>1. /\ StopsOf(r) = <<"ProgramStop", "StopMotion", "ImmStopJOG">>
            /\ RouteEndsWhat(r) = {"jog", "move", "program"}
        BY <2>3 DEF StopsOf, RouteEndsWhat, Activity
      <3>2. /\ Against("program") = {"ReadProgram", "ProgramStop"}
            /\ Against("move") = {"StopMotion"} /\ Against("jog") = {"ImmStopJOG"}
        BY DEF Against
      <3> DEFINE s == <<"ProgramStop", "StopMotion", "ImmStopJOG">>
      <3>3. /\ s \in Seq(StopRPC) /\ Len(s) = 3 /\ DOMAIN s = 1..3
            /\ s[1] = "ProgramStop" /\ s[2] = "StopMotion" /\ s[3] = "ImmStopJOG"
        BY DEF StopRPC
      <3>4. {s[1], s[2], s[3]} \subseteq Elements(s)
        BY <3>3 DEF Elements
      <3> HIDE DEF s
      <3>5. QED
        BY <3>1, <3>2, <3>3, <3>4 DEF s
    <2>4. QED
      BY <2>1, <2>2, <2>3 DEF Stops
  <1>5. ASSUME NEW ds \in SUBSET Domain
        PROVE  /\ LapseStops(ds) \in Seq(StopRPC) /\ Len(LapseStops(ds)) <= 3
               /\ Motion \in ds => {"ImmStopJOG", "StopMotion"} \subseteq Elements(LapseStops(ds))
               /\ Program \in ds => "ReadProgram" \in Elements(LapseStops(ds))
    <2> DEFINE m == IF Motion \in ds THEN <<"ImmStopJOG", "StopMotion">> ELSE <<>>
    <2>1. /\ m \in Seq(StopRPC) /\ Len(m) <= 2 /\ Len(m) \in Nat
          /\ Motion \in ds => {"ImmStopJOG", "StopMotion"} \subseteq Elements(m)
      <3>1. CASE Motion \in ds
        BY <3>1, <1>1 DEF StopRPC
      <3>2. CASE Motion \notin ds
        BY <3>2, <1>2
      <3>3. QED
        BY <3>1, <3>2
    <2>2. CASE Program \in ds
      <3>1. LapseStops(ds) = <<"ReadProgram">> \o m
        BY <2>2 DEF LapseStops
      <3>2. "ReadProgram" \in StopRPC
        BY DEF StopRPC
      <3> HIDE DEF m
      <3>3. QED
        BY <3>1, <3>2, <2>1, QueueInFront
    <2>3. CASE Program \notin ds
      <3>1. LapseStops(ds) = <<>> \o m
        BY <2>3 DEF LapseStops
      <3> HIDE DEF m
      <3>2. QED
        BY <3>1, <2>1, <2>3, <1>3
    <2>4. QED
      BY <2>2, <2>3
  <1>6. QED
    BY <1>4, <1>5

-----------------------------------------------------------------------------
(* The gateway and the lock.                                               *)

LEMMA StepDrivesTheLock ==
  ASSUME GatewayInv, [GatewayNext]_allVars
  PROVE  [Next]_vars
  <1>1. ASSUME NEW h \in Handler, Move(h) \/ StopRoute(h) PROVE UNCHANGED vars
    BY <1>1 DEF Move, StopRoute, Arrive, RequireLook, RequireMotionLook, Check,
        PreflightFails, Send, SendJog, SendMove, SendRun, SendPause, SendResume,
        Transmit, ArriveStop, StopStep, StopAnswered, StopRefused, StopEscapes,
        ProgramMisread, StopResponds, vars
  <1>2. ASSUME OnLapse PROVE Next \/ UNCHANGED vars
    <2>1. ASSUME NEW t \in Token, LapseBegins(t) PROVE UNCHANGED vars
      BY <2>1 DEF LapseBegins, vars
    <2>2. ASSUME StopStep(Reaper) PROVE UNCHANGED vars
      BY <2>2 DEF StopStep, StopAnswered, StopRefused, StopEscapes, ProgramMisread, vars
    <2>3. ASSUME LapseEnds PROVE Next
      <3>1. serving \in Token
        BY <2>3 DEF LapseEnds, GatewayInv, GatewayTypeOK
      <3>2. Fire(serving, Reaper \in escaped) /\ (Reaper \in escaped) \in BOOLEAN
        BY <2>3 DEF LapseEnds
      <3>3. QED
        BY <3>1, <3>2 DEF Next, Reap
    <2>4. QED
      BY <1>2, <2>1, <2>2, <2>3 DEF OnLapse
  <1>3. ASSUME ActivityEnds PROVE UNCHANGED vars
    BY <1>3 DEF ActivityEnds, vars
  <1>4. ASSUME LockReaps \/ TimePasses \/ LeaseRoute \/ Shutdown PROVE Next
    BY <1>4 DEF LockReaps, TimePasses, LeaseRoute, Shutdown, Next, Reap
  <1>5. ASSUME UNCHANGED allVars PROVE UNCHANGED vars
    BY <1>5 DEF allVars
  <1>6. QED
    BY <1>1, <1>2, <1>3, <1>4, <1>5 DEF GatewayNext

\* A lease on its way to on_lapse keeps its domains.
LEMMA LapsedLeaseKept ==
  ASSUME IInv, [Next]_vars, NEW t \in lapsed
  PROVE  lease'[t].domains = lease[t].domains
  <1> USE DEF IInv
  <1>1. t \in Token /\ lease[t] # None /\ t \notin Held /\ lease \in [Token -> Lease \cup {None}]
    BY NoneAssumption DEF TypeOK, LapsedSound, TableSound, Held
  <1>2. ASSUME NEW c \in Client, NEW u \in Token, AcquireGrant(c, u)
        PROVE  lease'[t] = lease[t]
    BY <1>1, <1>2 DEF AcquireGrant
  <1>3. ASSUME NEW u \in Token, NEW ttl \in AskedTtl, Renew(u, ttl)
        PROVE  lease'[t] = lease[t]
    BY <1>1, <1>3 DEF Renew
  <1>4. ASSUME Request PROVE lease'[t] = lease[t]
    <2>1. ASSUME NEW c \in Client, NEW ds \in SUBSET Domain, NEW ttl \in AskedTtl,
                 AcquireStart(c, ds, ttl)
          PROVE  lease' = lease
      BY <2>1 DEF AcquireStart, lockVars
    <2>2. ASSUME NEW c \in Client, AcquireConflict(c) PROVE lease' = lease
      BY <2>2 DEF AcquireConflict, lockVars
    <2>3. ASSUME NEW u \in Token, Release(u) PROVE lease' = lease
      BY <2>3 DEF Release
    <2>4. ASSUME NEW d \in Domain, BreakLock(d) PROVE lease' = lease
      BY <2>4 DEF BreakLock
    <2>5. QED
      BY <1>2, <1>3, <1>4, <2>1, <2>2, <2>3, <2>4 DEF Request, AcquireFinish
  <1>5. ASSUME Tick \/ Reap \/ Close \/ UNCHANGED vars PROVE lease' = lease
    BY <1>5 DEF Tick, Reap, Close, vars, lockVars, ReapRead, ReapRemove, Fire, ReaperExit
  <1>6. QED
    BY <1>4, <1>5 DEF Next

-----------------------------------------------------------------------------
(* The invariant.                                                          *)

LEMMA GatewayInitInv == GatewayInit => GatewayInv
  <1> SUFFICES ASSUME GatewayInit PROVE GatewayInv
    OBVIOUS
  <1>1. IInv
    BY InitInv DEF GatewayInit
  <1>2. GatewayTypeOK
    <2>1. <<>> \in Seq(StopRPC) /\ Len(<<>>) = 0
      OBVIOUS
    <2>2. todo \in [Agent -> Seq(StopRPC)] /\ \A a \in Agent : Len(todo[a]) <= 3
      <3> DEFINE empty == <<>>
      <3>1. empty \in Seq(StopRPC) /\ Len(empty) <= 3 /\ todo = [a \in Agent |-> empty]
        BY <2>1 DEF GatewayInit
      <3> HIDE DEF empty
      <3>2. QED
        BY <3>1
    <2>3. QED
      BY <2>2 DEF GatewayInit, GatewayTypeOK
  <1>3. ServingSound /\ StopsReachTheArm
    BY DEF GatewayInit, ServingSound, StopsReachTheArm
  <1>4. QED
    BY <1>1, <1>2, <1>3 DEF GatewayInv

LEMMA StillGoingTyping ==
  ASSUME GatewayTypeOK, StillGoing
  PROVE  /\ before' \in [Agent -> SUBSET Activity]
         /\ \A a \in Agent : before'[a] \subseteq before[a] /\ before'[a] \subseteq Going'
         /\ misread' \in SUBSET Agent
  BY DEF GatewayTypeOK, StillGoing

\* A step that leaves the cascades alone, and neither starts nor lengthens one.
LEMMA QuietStep ==
  ASSUME GatewayInv, [Next]_vars,
         UNCHANGED <<cascadeVars, misread>>,
         \A a \in Agent : before'[a] \subseteq before[a],
         \A h \in Handler : req'[h] = req[h] \/ req'[h] = None \/ req'[h].at # "stopping"
  PROVE  StopsReachTheArm'
  <1> SUFFICES ASSUME NEW a \in Agent \ escaped', NEW x \in Promised(a)' \cap before'[a]
               PROVE  \/ Against(x) \cap (Queued(a)' \cup failed'[a]) # {}
                      \/ x = "program" /\ a \in misread'
    BY DEF StopsReachTheArm
  <1>1. Promised(a)' \subseteq Promised(a)
    <2>1. CASE a = Reaper
      <3>1. CASE serving = None
        BY <2>1, <3>1 DEF Promised, cascadeVars
      <3>2. CASE serving # None
        <4>1. lease'[serving].domains = lease[serving].domains
          BY <3>2, LapsedLeaseKept DEF GatewayInv, ServingSound
        <4>2. QED
          BY <2>1, <3>2, <4>1 DEF Promised, LapseEndsWhat, cascadeVars
      <3>3. QED
        BY <3>1, <3>2
    <2>2. CASE a # Reaper
      <3>1. a \in Handler
        BY <2>2 DEF Agent
      <3>2. QED
        BY <2>2, <3>1 DEF Promised
    <2>3. QED
      BY <2>1, <2>2
  <1>2. Queued(a)' = Queued(a) /\ failed' = failed /\ escaped' = escaped
    BY DEF Queued, cascadeVars
  <1>3. x \in Promised(a) \cap before[a]
    BY <1>1
  <1>4. QED
    BY <1>2, <1>3 DEF GatewayInv, StopsReachTheArm

\* Requests that ask for a move, up to and including their transmission.
LEMMA MoveInv ==
  ASSUME GatewayInv, [Next]_vars, IInv', NEW h \in Handler, Move(h)
  PROVE  GatewayInv'
  <1> USE DEF GatewayInv
  <1>1. UNCHANGED <<vars, cascadeVars>>
    BY DEF Move, Arrive, RequireLook, RequireMotionLook, Check, PreflightFails, Send,
        SendJog, SendMove, SendRun, SendPause, SendResume, Transmit
  <1>2. /\ before' \in [Agent -> SUBSET Activity]
        /\ \A a \in Agent : before'[a] \subseteq before[a]
        /\ misread' = misread
    <2>1. CASE StillGoing
      BY <2>1, StillGoingTyping DEF StillGoing
    <2>2. CASE UNCHANGED historyVars
      BY <2>2 DEF historyVars, GatewayTypeOK
    <2>3. QED
      BY <2>1, <2>2 DEF Move, Arrive, RequireLook, RequireMotionLook, Check,
          PreflightFails, Send, SendJog, SendMove, SendRun, SendPause, SendResume, Transmit
  <1>3. HeldBy(Motion) \in Token \cup {None}
    BY GatewayAssumption DEF HeldBy, IInv, TypeOK
  <1> DEFINE ReqStep ==
        /\ req' \in [Handler -> Pending \cup {None}]
        /\ \A k \in Handler : req'[k] = req[k] \/ req'[k] = None \/ req'[k].at # "stopping"
  <1>4. ReqStep
    <2>1. CASE \E r \in Gated, t \in Token \cup {None} : Arrive(h, r, t)
      BY <2>1 DEF Arrive, GatewayTypeOK, Pending, Route
    <2>2. ASSUME NEW t \in Token \cup {None}, req[h] # None, Clear(h, t)
          PROVE  ReqStep
      BY <2>2 DEF Clear, GatewayTypeOK, Pending
    <2>3. ASSUME req[h] # None, To(h, "check")
          PROVE  ReqStep
      BY <2>3 DEF To, GatewayTypeOK, Pending
    <2>4. ASSUME Finish(h) PROVE ReqStep
      BY <2>4 DEF Finish, GatewayTypeOK
    <2>5. CASE RequireLook(h)
      BY <2>5, <2>2, <2>3 DEF RequireLook
    <2>6. CASE RequireMotionLook(h)
      BY <2>6, <2>3, <2>4 DEF RequireMotionLook
    <2>7. CASE Check(h)
      BY <2>7, <2>2, <2>4, <1>3 DEF Check
    <2>8. CASE PreflightFails(h) \/ Send(h)
      BY <2>8, <2>4 DEF PreflightFails, Send, SendJog, SendMove, SendRun, SendPause,
          SendResume, Transmit
    <2>9. QED
      BY <2>1, <2>5, <2>6, <2>7, <2>8 DEF Move
  <1>5. /\ jogging' \in BOOLEAN /\ moving' \in BOOLEAN
        /\ program' \in {"stopped", "running", "paused", "halfStopped"}
    BY DEF Move, Arrive, RequireLook, RequireMotionLook, Check, PreflightFails, Send,
        SendJog, SendMove, SendRun, SendPause, SendResume, armVars, GatewayTypeOK
  <1>6. GatewayTypeOK'
    BY <1>1, <1>2, <1>4, <1>5 DEF GatewayTypeOK, cascadeVars
  <1>7. ServingSound'
    BY <1>1 DEF ServingSound, cascadeVars, vars
  <1>8. StopsReachTheArm'
    BY <1>1, <1>2, <1>4, QuietStep
  <1>9. QED
    BY <1>6, <1>7, <1>8

\* The steps of the lock that have no part in a cascade, and the arm's own.
LEMMA LockStepInv ==
  ASSUME GatewayInv, [Next]_vars, IInv',
         LockReaps \/ TimePasses \/ LeaseRoute \/ Shutdown \/ ActivityEnds \/ UNCHANGED allVars
  PROVE  GatewayInv'
  <1> USE DEF GatewayInv
  <1>1. UNCHANGED <<cascadeVars, misread, req>>
    BY DEF LockReaps, TimePasses, LeaseRoute, Shutdown, ActivityEnds, allVars, gatewayVars,
        historyVars, StillGoing
  <1>2. /\ before' \in [Agent -> SUBSET Activity]
        /\ \A a \in Agent : before'[a] \subseteq before[a]
    <2>1. CASE ActivityEnds
      BY <2>1, StillGoingTyping DEF ActivityEnds
    <2>2. CASE UNCHANGED gatewayVars
      BY <2>2 DEF gatewayVars, historyVars, GatewayTypeOK
    <2>3. QED
      BY <2>1, <2>2 DEF LockReaps, TimePasses, LeaseRoute, Shutdown, allVars
  <1>3. /\ jogging' \in BOOLEAN /\ moving' \in BOOLEAN
        /\ program' \in {"stopped", "running", "paused", "halfStopped"}
    BY DEF LockReaps, TimePasses, LeaseRoute, Shutdown, ActivityEnds, allVars, gatewayVars,
        armVars, GatewayTypeOK
  <1>4. GatewayTypeOK'
    BY <1>1, <1>2, <1>3 DEF GatewayTypeOK, cascadeVars
  <1>5. ServingSound'
    <2>1. CASE serving = None
      BY <2>1, <1>1 DEF ServingSound, cascadeVars
    <2>2. CASE serving # None
      <3>1. reaper = "fire" /\ serving \in lapsed
        BY <2>2 DEF ServingSound, IInv, LapsedSound
      <3>2. lapsed' = lapsed
        BY <3>1 DEF LockReaps, TimePasses, LeaseRoute, Shutdown, ActivityEnds, allVars,
            vars, ReapRead, ReapRemove, ReaperExit, Tick, Close, Request, AcquireFinish,
            AcquireStart, AcquireConflict, AcquireGrant, Renew, Release, BreakLock, reapVars
      <3>3. QED
        BY <3>1, <3>2, <1>1 DEF ServingSound, cascadeVars
    <2>3. QED
      BY <2>1, <2>2
  <1>6. StopsReachTheArm'
    BY <1>1, <1>2, QuietStep
  <1>7. QED
    BY <1>4, <1>5, <1>6

\* A cascade begins, with a stop for everything it is to end.
LEMMA BeginInv ==
  ASSUME GatewayTypeOK, NEW a \in Agent, NEW stops \in Seq(StopRPC), Len(stops) <= 3,
         Begin(a, stops)
  PROVE  /\ todo' \in [Agent -> Seq(StopRPC)] /\ \A b \in Agent : Len(todo'[b]) <= 3
         /\ failed' \in [Agent -> SUBSET StopRPC] /\ escaped' \in SUBSET Agent
         /\ before' \in [Agent -> SUBSET Activity] /\ misread' \in SUBSET Agent
  <1>1. Going \in SUBSET Activity
    BY DEF Going
  <1>2. QED
    BY <1>1 DEF Begin, GatewayTypeOK

LEMMA ArriveStopInv ==
  ASSUME GatewayInv, IInv', NEW h \in Handler, NEW r \in Stops, ArriveStop(h, r)
  PROVE  GatewayInv'
  <1> USE DEF GatewayInv
  <1>1. h \in Agent /\ h # Reaper
    BY GatewayAssumption DEF Agent
  <1>2. StopsOf(r) \in Seq(StopRPC) /\ Len(StopsOf(r)) <= 3
    BY Cascades
  <1>3. Begin(h, StopsOf(r))
    BY DEF ArriveStop
  <1>4. /\ todo' \in [Agent -> Seq(StopRPC)] /\ \A b \in Agent : Len(todo'[b]) <= 3
        /\ failed' \in [Agent -> SUBSET StopRPC] /\ escaped' \in SUBSET Agent
        /\ before' \in [Agent -> SUBSET Activity] /\ misread' \in SUBSET Agent
    BY <1>1, <1>2, <1>3, BeginInv
  <1>5. req' \in [Handler -> Pending \cup {None}]
    BY DEF ArriveStop, GatewayTypeOK, Pending, Route
  <1>6. GatewayTypeOK' /\ ServingSound'
    BY <1>4, <1>5 DEF ArriveStop, GatewayTypeOK, ServingSound, armVars, vars
  <1>7. ASSUME NEW a \in Agent \ escaped', NEW x \in Promised(a)' \cap before'[a]
        PROVE  \/ Against(x) \cap (Queued(a)' \cup failed'[a]) # {}
               \/ x = "program" /\ a \in misread'
    <2>1. CASE a = h
      <3>1. Promised(a)' = RouteEndsWhat(r)
        BY <2>1, <1>1 , NoneAssumption DEF ArriveStop, Promised, GatewayTypeOK
      <3>2. todo'[a] = StopsOf(r)
        BY <2>1, <1>1, <1>3 DEF Begin, GatewayTypeOK
      <3>3. Queued(a)' = Elements(StopsOf(r))
        BY <3>2 DEF Queued, Elements
      <3>4. QED
        BY <3>1, <3>3, Cascades
    <2>2. CASE a # h
      <3>1. /\ todo'[a] = todo[a] /\ failed'[a] = failed[a] /\ before'[a] = before[a]
            /\ a \in escaped <=> a \in escaped'
            /\ a \in misread <=> a \in misread'
        BY <2>2, <1>3 DEF Begin, GatewayTypeOK
      <3>2. Promised(a)' = Promised(a)
        BY <2>2 DEF Promised, ArriveStop, LapseEndsWhat, vars, GatewayTypeOK, Agent
      <3>3. Queued(a)' = Queued(a)
        BY <3>1 DEF Queued
      <3>4. QED
        BY <3>1, <3>2, <3>3 DEF StopsReachTheArm
    <2>3. QED
      BY <2>1, <2>2
  <1>8. QED
    BY <1>6, <1>7 DEF StopsReachTheArm

LEMMA LapseBeginsInv ==
  ASSUME GatewayInv, IInv', NEW t \in Token, LapseBegins(t)
  PROVE  GatewayInv'
  <1> USE DEF GatewayInv
  <1> DEFINE ds == lease[t].domains
  <1>1. Reaper \in Agent
    BY DEF Agent
  <1>2. ds \in SUBSET Domain
    BY DEF LapseBegins, IInv, TypeOK, LapsedSound, Lease
  <1>3. /\ LapseStops(ds) \in Seq(StopRPC) /\ Len(LapseStops(ds)) <= 3
        /\ Motion \in ds => {"ImmStopJOG", "StopMotion"} \subseteq Elements(LapseStops(ds))
        /\ Program \in ds => "ReadProgram" \in Elements(LapseStops(ds))
    BY <1>2, Cascades
  <1>4. Begin(Reaper, LapseStops(ds))
    BY DEF LapseBegins
  <1>5. /\ todo' \in [Agent -> Seq(StopRPC)] /\ \A b \in Agent : Len(todo'[b]) <= 3
        /\ failed' \in [Agent -> SUBSET StopRPC] /\ escaped' \in SUBSET Agent
        /\ before' \in [Agent -> SUBSET Activity] /\ misread' \in SUBSET Agent
    BY <1>1, <1>3, <1>4, BeginInv
  <1>6. GatewayTypeOK' /\ ServingSound'
    BY <1>5 DEF LapseBegins, GatewayTypeOK, ServingSound, armVars, vars
  <1>7. ASSUME NEW a \in Agent \ escaped', NEW x \in Promised(a)' \cap before'[a]
        PROVE  \/ Against(x) \cap (Queued(a)' \cup failed'[a]) # {}
               \/ x = "program" /\ a \in misread'
    <2>1. CASE a = Reaper
      <3>1. Promised(a)' = LapseEndsWhat(t)
        BY <2>1, NoneAssumption DEF LapseBegins, Promised, LapseEndsWhat, vars
      <3>2. todo'[a] = LapseStops(ds)
        BY <2>1, <1>1, <1>4 DEF Begin, GatewayTypeOK
      <3>3. Queued(a)' = Elements(LapseStops(ds))
        BY <3>2 DEF Queued, Elements
      <3>4. CASE Motion \in ds /\ x \in {"jog", "move"}
        BY <3>3, <3>4, <1>3 DEF Against
      <3>5. CASE Program \in ds /\ x = "program"
        BY <3>3, <3>5, <1>3 DEF Against
      <3>6. QED
        BY <3>1, <3>4, <3>5 DEF LapseEndsWhat
    <2>2. CASE a # Reaper
      <3>1. /\ todo'[a] = todo[a] /\ failed'[a] = failed[a] /\ before'[a] = before[a]
            /\ a \in escaped <=> a \in escaped'
            /\ a \in misread <=> a \in misread'
        BY <2>2, <1>4 DEF Begin, GatewayTypeOK
      <3>2. Promised(a)' = Promised(a)
        BY <2>2 DEF Promised, LapseBegins
      <3>3. Queued(a)' = Queued(a)
        BY <3>1 DEF Queued
      <3>4. QED
        BY <3>1, <3>2, <3>3 DEF StopsReachTheArm
    <2>3. QED
      BY <2>1, <2>2
  <1>8. QED
    BY <1>6, <1>7 DEF StopsReachTheArm

\* A stop that took effect leaves nothing of what it is against.
LEMMA StopTakesEffect ==
  ASSUME NEW rpc \in StopRPC, Effect(rpc), NEW x \in Activity, x \in Going',
         rpc \in Against(x)
  PROVE  rpc = "ReadProgram" /\ x = "program" /\ program = "running"
  <1>1. x = "jog" => jogging' /\ rpc = "ImmStopJOG"
    BY DEF Going, Against
  <1>2. x = "move" => moving' /\ rpc = "StopMotion"
    BY DEF Going, Against
  <1>3. x = "program" => program' = "running" /\ rpc \in {"ReadProgram", "ProgramStop"}
    BY DEF Going, Against
  <1>4. x # "jog" /\ x # "move"
    BY <1>1, <1>2 DEF Effect
  <1>5. x = "program" /\ program' = "running"
    BY <1>3, <1>4 DEF Activity
  <1>6. program = "running" /\ rpc # "ProgramStop"
    BY <1>5 DEF Effect
  <1>7. QED
    BY <1>3, <1>5, <1>6

LEMMA StopStepInv ==
  ASSUME GatewayInv, IInv', NEW a \in Agent, StopStep(a)
  PROVE  GatewayInv'
  <1> USE DEF GatewayInv
  <1> DEFINE s == todo[a]
             rpc == Head(s)
  <1>1. /\ s \in Seq(StopRPC) /\ s # <<>> /\ Len(s) <= 3
        /\ UNCHANGED <<vars, req, serving>>
    BY DEF StopStep, StopAnswered, StopRefused, StopEscapes, ProgramMisread, GatewayTypeOK
  <1>2. /\ rpc \in StopRPC
        /\ Tail(s) \in Seq(StopRPC) /\ Len(Tail(s)) = Len(s) - 1 /\ Len(s) \in Nat
        /\ Elements(s) = {rpc} \cup Elements(Tail(s))
    BY <1>1, TailOfQueue, LenProperties
  <1> DEFINE again == <<"ProgramStop">> \o Tail(s)
  <1>3. /\ again \in Seq(StopRPC) /\ Len(again) = Len(s)
        /\ "ProgramStop" \in Elements(again) /\ Elements(Tail(s)) \subseteq Elements(again)
    <2>1. "ProgramStop" \in StopRPC /\ Tail(s) \in Seq(StopRPC)
      BY <1>2 DEF StopRPC
    <2>2. /\ again \in Seq(StopRPC) /\ Len(again) = Len(Tail(s)) + 1
          /\ "ProgramStop" \in Elements(again) /\ Elements(Tail(s)) \subseteq Elements(again)
      BY <2>1, QueueInFront
    <2> HIDE DEF again, s
    <2>3. QED
      BY <1>2, <2>2
  <1>4. /\ before' \in [Agent -> SUBSET Activity] /\ misread' \in SUBSET Agent
        /\ \A b \in Agent : before'[b] \subseteq before[b]
        /\ \A b \in Agent \ {a} : b \in misread' <=> b \in misread
        /\ misread \subseteq misread'
    <2>1. CASE StillGoing
      BY <2>1, StillGoingTyping DEF StillGoing
    <2>2. CASE ProgramMisread(a)
      BY <2>2 DEF ProgramMisread, GatewayTypeOK
    <2>3. QED
      BY <2>1, <2>2 DEF StopStep, StopAnswered, StopRefused, StopEscapes
  <1>5. PICK q \in {Tail(s), again, <<>>} : todo' = [todo EXCEPT ![a] = q]
    <2>1. CASE StopAnswered(a)
      <3>1. todo' = [todo EXCEPT ![a] =
                 IF rpc = "ReadProgram" /\ program \in {"running", "paused"}
                 THEN again ELSE Tail(s)]
        BY <2>1 DEF StopAnswered
      <3> HIDE DEF again
      <3>2. QED
        BY <3>1
    <2>2. CASE StopRefused(a) \/ StopEscapes(a) \/ ProgramMisread(a)
      BY <2>2 DEF StopRefused, StopEscapes, ProgramMisread
    <2>3. QED
      BY <2>1, <2>2 DEF StopStep
  <1>6. q \in Seq(StopRPC) /\ Len(q) <= 3
    <2>1. CASE q = <<>>
      BY <2>1
    <2>2. CASE q = Tail(s) \/ q = again
      <3> HIDE DEF again, s
      <3>1. QED
        BY <2>2, <1>1, <1>2, <1>3
    <2>3. QED
      BY <2>1, <2>2, <1>5
  <1>7. todo' \in [Agent -> Seq(StopRPC)] /\ \A b \in Agent : Len(todo'[b]) <= 3
    BY <1>5, <1>6 DEF GatewayTypeOK
  <1>8. /\ failed' \in [Agent -> SUBSET StopRPC] /\ escaped' \in SUBSET Agent
        /\ \A b \in Agent : failed[b] \subseteq failed'[b]
        /\ \A b \in Agent \ {a} : b \in escaped' <=> b \in escaped
        /\ escaped \subseteq escaped'
    <2>1. CASE UNCHANGED <<failed, escaped>>
      BY <2>1 DEF GatewayTypeOK
    <2>2. CASE UNCHANGED failed /\ escaped' = escaped \cup {a}
      BY <2>2 DEF GatewayTypeOK
    <2>3. CASE UNCHANGED escaped /\ failed' = [failed EXCEPT ![a] = @ \cup {rpc}]
      <3> HIDE DEF rpc
      <3>1. QED
        BY <2>3, <1>2 DEF GatewayTypeOK
    <2>4. QED
      BY <2>1, <2>2, <2>3 DEF StopStep, StopAnswered, StopRefused, StopEscapes, ProgramMisread
  <1>9. /\ jogging' \in BOOLEAN /\ moving' \in BOOLEAN
        /\ program' \in {"stopped", "running", "paused", "halfStopped"}
    BY DEF StopStep, StopAnswered, StopRefused, StopEscapes, ProgramMisread, Effect,
        NoEffect, armVars, GatewayTypeOK
  <1>10. GatewayTypeOK'
    BY <1>1, <1>4, <1>7, <1>8, <1>9 DEF GatewayTypeOK
  <1>11. ServingSound'
    BY <1>1 DEF ServingSound, vars
  <1>12. ASSUME NEW b \in Agent \ escaped', NEW x \in Promised(b)' \cap before'[b]
         PROVE  \/ Against(x) \cap (Queued(b)' \cup failed'[b]) # {}
                \/ x = "program" /\ b \in misread'
    <2>1. Promised(b)' = Promised(b)
      BY <1>1 DEF Promised, LapseEndsWhat, vars
    <2>2. b \notin escaped /\ x \in Promised(b) \cap before[b]
      BY <2>1, <1>4, <1>8
    <2>3. \/ Against(x) \cap (Queued(b) \cup failed[b]) # {}
          \/ x = "program" /\ b \in misread
      BY <2>2 DEF StopsReachTheArm
    <2>4. CASE b # a
      <3>1. Queued(b)' = Queued(b)
        BY <2>4, <1>5 DEF Queued, GatewayTypeOK
      <3>2. QED
        BY <2>3, <2>4, <3>1, <1>4, <1>8
    <2>5. CASE b = a
      <3>1. Queued(a) = Elements(s) /\ Queued(a)' = Elements(q)
        BY <1>5 DEF Queued, Elements, GatewayTypeOK
      <3>2. CASE x = "program" /\ a \in misread
        BY <3>2, <2>5, <1>4
      <3>3. CASE Against(x) \cap failed[a] # {}
        BY <3>3, <2>5, <1>8
      <3>4. ASSUME NEW w \in Against(x) \cap Elements(s)
            PROVE  \/ Against(x) \cap (Queued(a)' \cup failed'[a]) # {}
                   \/ x = "program" /\ a \in misread'
        <4>1. CASE StopEscapes(a)
          <5>1. a \in escaped'
            BY <4>1 DEF StopEscapes
          <5>2. QED
            BY <5>1, <2>5
        <4>2. CASE StopRefused(a)
          <5>1. todo' = [todo EXCEPT ![a] = Tail(s)] /\ rpc \in failed'[a]
            BY <4>2 DEF StopRefused, GatewayTypeOK
          <5>2. Queued(a)' = Elements(Tail(s))
            BY <5>1 DEF Queued, Elements, GatewayTypeOK
          <5>3. QED
            BY <5>1, <5>2, <3>4, <1>2
        <4>3. CASE ProgramMisread(a)
          <5>1. /\ todo' = [todo EXCEPT ![a] = Tail(s)] /\ rpc = "ReadProgram"
                /\ a \in misread'
            BY <4>3 DEF ProgramMisread
          <5>2. Queued(a)' = Elements(Tail(s))
            BY <5>1 DEF Queued, Elements, GatewayTypeOK
          <5>3. CASE w = rpc
            <6>1. x = "program"
              BY <5>1, <5>3, <3>4, <2>2 DEF Against, GatewayTypeOK, Activity
            <6>2. QED
              BY <6>1, <5>1
          <5>4. CASE w # rpc
            BY <5>4, <5>2, <3>4, <1>2
          <5>5. QED
            BY <5>3, <5>4
        <4>4. CASE StopAnswered(a)
          <5>1. todo' = [todo EXCEPT ![a] =
                     IF rpc = "ReadProgram" /\ program \in {"running", "paused"}
                     THEN again ELSE Tail(s)]
            BY <4>4 DEF StopAnswered
          <5>2. Queued(a)' = Elements(IF rpc = "ReadProgram" /\ program \in {"running", "paused"}
                                      THEN again ELSE Tail(s))
            <6> HIDE DEF again
            <6>1. QED
              BY <5>1 DEF Queued, Elements, GatewayTypeOK
          <5>3. Elements(Tail(s)) \subseteq Queued(a)'
            BY <5>2, <1>3
          <5>4. CASE w # rpc
            BY <5>4, <5>3, <3>4, <1>2
          <5>5. CASE w = rpc
            <6>1. x \in Activity /\ x \in Going'
              BY <4>4, <2>5, <1>4, StillGoingTyping DEF StopAnswered
            <6>2. Effect(rpc)
              BY <4>4 DEF StopAnswered
            <6>3. rpc = "ReadProgram" /\ x = "program" /\ program = "running"
              BY <6>1, <6>2, <5>5, <3>4, <1>2, StopTakesEffect
            <6>4. "ProgramStop" \in Queued(a)'
              BY <6>3, <5>2, <1>3
            <6>5. QED
              BY <6>3, <6>4 DEF Against
          <5>6. QED
            BY <5>4, <5>5
        <4>5. QED
          BY <4>1, <4>2, <4>3, <4>4 DEF StopStep
      <3>5. QED
        BY <2>3, <2>5, <3>1, <3>2, <3>3, <3>4
    <2>6. QED
      BY <2>4, <2>5
  <1>13. QED
    BY <1>10, <1>11, <1>12 DEF StopsReachTheArm

\* A cascade's results go out of scope, its agent having nothing left to end.
LEMMA ForgetInv ==
  ASSUME GatewayInv, [Next]_vars, NEW a \in Agent, Forget(a),
         UNCHANGED todo, Promised(a)' = {},
         \A b \in Agent \ {a} : Promised(b)' = Promised(b)
  PROVE  /\ failed' \in [Agent -> SUBSET StopRPC] /\ escaped' \in SUBSET Agent
         /\ before' \in [Agent -> SUBSET Activity] /\ misread' \in SUBSET Agent
         /\ StopsReachTheArm'
  <1> USE DEF GatewayInv
  <1>1. /\ failed' \in [Agent -> SUBSET StopRPC] /\ escaped' \in SUBSET Agent
        /\ before' \in [Agent -> SUBSET Activity] /\ misread' \in SUBSET Agent
    BY DEF Forget, GatewayTypeOK
  <1>2. ASSUME NEW b \in Agent \ escaped', NEW x \in Promised(b)' \cap before'[b]
        PROVE  \/ Against(x) \cap (Queued(b)' \cup failed'[b]) # {}
               \/ x = "program" /\ b \in misread'
    <2>1. b # a
      BY <1>2
    <2>2. /\ failed'[b] = failed[b] /\ before'[b] = before[b] /\ b \notin escaped
          /\ b \in misread => b \in misread'
      BY <2>1 DEF Forget, GatewayTypeOK
    <2>3. Queued(b)' = Queued(b)
      BY DEF Queued
    <2>4. x \in Promised(b) \cap before[b]
      BY <2>1, <2>2
    <2>5. \/ Against(x) \cap (Queued(b) \cup failed[b]) # {}
          \/ x = "program" /\ b \in misread
      BY <2>2, <2>4 DEF StopsReachTheArm
    <2>6. QED
      BY <2>2, <2>3, <2>5
  <1>3. QED
    BY <1>1, <1>2 DEF StopsReachTheArm

LEMMA StopRespondsInv ==
  ASSUME GatewayInv, [Next]_vars, IInv', NEW h \in Handler, StopResponds(h)
  PROVE  GatewayInv'
  <1> USE DEF GatewayInv
  <1>1. h \in Agent /\ h # Reaper
    BY GatewayAssumption DEF Agent
  <1>2. Promised(h)' = {}
    BY <1>1 DEF StopResponds, Finish, Promised, GatewayTypeOK
  <1>3. \A b \in Agent \ {h} : Promised(b)' = Promised(b)
    BY DEF StopResponds, Finish, Promised, LapseEndsWhat, vars, GatewayTypeOK, Agent
  <1>4. /\ failed' \in [Agent -> SUBSET StopRPC] /\ escaped' \in SUBSET Agent
        /\ before' \in [Agent -> SUBSET Activity] /\ misread' \in SUBSET Agent
        /\ StopsReachTheArm'
    BY <1>1, <1>2, <1>3, ForgetInv DEF StopResponds
  <1>5. GatewayTypeOK' /\ ServingSound'
    BY <1>4 DEF StopResponds, Finish, GatewayTypeOK, ServingSound, armVars, vars
  <1>6. QED
    BY <1>4, <1>5

LEMMA LapseEndsInv ==
  ASSUME GatewayInv, [Next]_vars, IInv', LapseEnds
  PROVE  GatewayInv'
  <1> USE DEF GatewayInv
  <1>1. Reaper \in Agent
    BY DEF Agent
  <1>2. Promised(Reaper)' = {}
    BY DEF LapseEnds, Promised
  <1>3. \A b \in Agent \ {Reaper} : Promised(b)' = Promised(b)
    BY DEF LapseEnds, Promised
  <1>4. /\ failed' \in [Agent -> SUBSET StopRPC] /\ escaped' \in SUBSET Agent
        /\ before' \in [Agent -> SUBSET Activity] /\ misread' \in SUBSET Agent
        /\ StopsReachTheArm'
    BY <1>1, <1>2, <1>3, ForgetInv DEF LapseEnds
  <1>5. GatewayTypeOK' /\ ServingSound'
    BY <1>4 DEF LapseEnds, GatewayTypeOK, ServingSound, armVars
  <1>6. QED
    BY <1>4, <1>5

LEMMA GatewayNextInv == GatewayInv /\ [GatewayNext]_allVars => GatewayInv'
  <1> SUFFICES ASSUME GatewayInv, [GatewayNext]_allVars PROVE GatewayInv'
    OBVIOUS
  <1>1. [Next]_vars
    BY StepDrivesTheLock
  <1>2. IInv'
    BY <1>1, NextInv DEF GatewayInv
  <1>3. ASSUME NEW h \in Handler, Move(h) PROVE GatewayInv'
    BY <1>1, <1>2, <1>3, MoveInv
  <1>4. ASSUME NEW h \in Handler, StopRoute(h) PROVE GatewayInv'
    <2>1. h \in Agent
      BY DEF Agent
    <2>2. QED
      BY <1>1, <1>2, <1>4, <2>1, ArriveStopInv, StopStepInv, StopRespondsInv DEF StopRoute
  <1>5. ASSUME OnLapse PROVE GatewayInv'
    <2>1. Reaper \in Agent
      BY DEF Agent
    <2>2. QED
      BY <1>1, <1>2, <1>5, <2>1, LapseBeginsInv, StopStepInv, LapseEndsInv DEF OnLapse
  <1>6. ASSUME LockReaps \/ TimePasses \/ LeaseRoute \/ Shutdown \/ ActivityEnds
                \/ UNCHANGED allVars
        PROVE  GatewayInv'
    BY <1>1, <1>2, <1>6, LockStepInv
  <1>7. QED
    BY <1>3, <1>4, <1>5, <1>6 DEF GatewayNext

\* The inductive invariant of the gateway, whatever its constants.
THEOREM GatewayInvariant == GatewaySpec => []GatewayInv
  BY GatewayInitInv, GatewayNextInv, PTL DEF GatewaySpec

\* The gateway's state is what its declarations say.
THEOREM GatewayTyping == GatewaySpec => []GatewayTypeOK
  <1>1. GatewayInv => GatewayTypeOK
    BY DEF GatewayInv
  <1>2. QED
    BY <1>1, GatewayInvariant, PTL

\* Whatever is under way when a stop or a lapse begins is ended, or its stop is
\* still to be sent or reported as failed (app.py:148-188, 755-776).
THEOREM StopsReach == GatewaySpec => []StopsReachTheArm
  <1>1. GatewayInv => StopsReachTheArm
    BY DEF GatewayInv
  <1>2. QED
    BY <1>1, GatewayInvariant, PTL

\* The gateway is a correct user of the lock: all that ControlLock_proofs shows
\* of the lock holds in the gateway, with on_lapse calls of many steps.
THEOREM GatewayDrivesTheLock == GatewaySpec => DrivesTheLock
  <1>1. GatewayInit => Init
    BY DEF GatewayInit
  <1>2. GatewayInv /\ [GatewayNext]_allVars => [Next]_vars
    BY StepDrivesTheLock
  <1>3. QED
    BY <1>1, <1>2, GatewayInvariant, PTL DEF GatewaySpec, DrivesTheLock, Spec

-----------------------------------------------------------------------------
(* The order of the stops.                                                 *)

\* In every queue what stops the program is ahead of StopMotion, and a cascade
\* that an exception ended has an empty queue.
StopsProgram == {"ReadProgram", "ProgramStop"}

ProgramAhead(s) ==
    \A i, j \in DOMAIN s : i < j /\ s[i] = "StopMotion" => s[j] \notin StopsProgram

QueuesSound ==
    \A a \in Agent : ProgramAhead(todo[a]) /\ (a \in escaped => todo[a] = <<>>)

LEMMA ProgramAheadOfParts ==
  ASSUME NEW s \in Seq(StopRPC), ProgramAhead(s)
  PROVE  /\ s # <<>> => ProgramAhead(Tail(s))
         /\ \A e \in StopRPC \ {"StopMotion"} : ProgramAhead(<<e>> \o s)
         /\ s # <<>> /\ Head(s) = "StopMotion" => Elements(s) \cap StopsProgram = {}
  <1>1. Len(s) \in Nat /\ DOMAIN s = 1..Len(s)
    BY LenProperties
  <1>2. ASSUME s # <<>>
        PROVE  /\ Tail(s) \in Seq(StopRPC) /\ Len(Tail(s)) = Len(s) - 1
               /\ \A i \in 1..Len(Tail(s)) : Tail(s)[i] = s[i + 1]
               /\ DOMAIN Tail(s) = 1..Len(Tail(s))
               /\ Head(s) = s[1] /\ 1 \in DOMAIN s
    <2>1. Len(s) # 0
      BY <1>2, EmptySeq
    <2>2. QED
      BY <1>1, <1>2, <2>1, HeadTailProperties, LenProperties
  <1>3. ASSUME s # <<>> PROVE ProgramAhead(Tail(s))
    <2> SUFFICES ASSUME NEW i \in DOMAIN Tail(s), NEW j \in DOMAIN Tail(s),
                        i < j, Tail(s)[i] = "StopMotion"
                 PROVE  Tail(s)[j] \notin StopsProgram
      BY DEF ProgramAhead
    <2>1. /\ i + 1 \in DOMAIN s /\ s[i + 1] = "StopMotion"
          /\ j + 1 \in DOMAIN s /\ s[j + 1] = Tail(s)[j]
          /\ i + 1 < j + 1
      BY <1>1, <1>2, <1>3
    <2>2. QED
      BY <2>1 DEF ProgramAhead
  <1>4. ASSUME NEW e \in StopRPC \ {"StopMotion"} PROVE ProgramAhead(<<e>> \o s)
    <2> DEFINE q == <<e>> \o s
    <2>1. /\ Len(q) = 1 + Len(s) /\ DOMAIN q = 1..Len(q)
          /\ \A i \in 1..Len(q) : q[i] = IF i <= 1 THEN e ELSE s[i - 1]
      <3>1. <<e>> \in Seq(StopRPC) /\ Len(<<e>>) = 1 /\ <<e>>[1] = e
        OBVIOUS
      <3>2. QED
        BY <3>1, ConcatProperties, LenProperties
    <2> SUFFICES ASSUME NEW i \in DOMAIN q, NEW j \in DOMAIN q, i < j, q[i] = "StopMotion"
                 PROVE  q[j] \notin StopsProgram
      BY DEF ProgramAhead
    <2> HIDE DEF q
    <2>2. /\ i - 1 \in DOMAIN s /\ s[i - 1] = "StopMotion"
          /\ j - 1 \in DOMAIN s /\ s[j - 1] = q[j]
          /\ i - 1 < j - 1
      BY <1>1, <2>1
    <2>3. QED
      BY <2>2 DEF ProgramAhead
  <1>5. ASSUME s # <<>>, Head(s) = "StopMotion" PROVE Elements(s) \cap StopsProgram = {}
    <2>1. s[1] = "StopMotion" /\ 1 \in DOMAIN s
      BY <1>2, <1>5
    <2>2. ASSUME NEW i \in DOMAIN s PROVE s[i] \notin StopsProgram
      <3>1. i = 1 \/ 1 < i
        BY <1>1
      <3>2. QED
        BY <2>1, <3>1 DEF ProgramAhead, StopsProgram
    <2>3. QED
      BY <2>2 DEF Elements
  <1>6. QED
    BY <1>3, <1>4, <1>5

LEMMA CascadesStopProgramFirst ==
  /\ \A r \in Stops : ProgramAhead(StopsOf(r))
  /\ \A ds \in SUBSET Domain : ProgramAhead(LapseStops(ds))
  <1>1. ASSUME NEW p \in StopRPC PROVE ProgramAhead(<<p, "StopMotion">>)
    BY <1>1 DEF ProgramAhead, StopsProgram
  <1>2. ProgramAhead(<<>>)
    BY DEF ProgramAhead
  <1>3. ASSUME NEW r \in Stops PROVE ProgramAhead(StopsOf(r))
    <2>1. ProgramAhead(<<"ProgramStop", "StopMotion", "ImmStopJOG">>)
      BY DEF ProgramAhead, StopsProgram
    <2>2. QED
      BY <1>1, <2>1 DEF StopsOf, Stops, StopRPC
  <1>4. ASSUME NEW ds \in SUBSET Domain PROVE ProgramAhead(LapseStops(ds))
    <2> DEFINE m == IF Motion \in ds THEN <<"ImmStopJOG", "StopMotion">> ELSE <<>>
    <2>1. m \in Seq(StopRPC) /\ ProgramAhead(m)
      <3>1. CASE Motion \in ds
        BY <3>1, <1>1 DEF StopRPC
      <3>2. CASE Motion \notin ds
        BY <3>2, <1>2
      <3>3. QED
        BY <3>1, <3>2
    <2>2. LapseStops(ds) = (IF Program \in ds THEN <<"ReadProgram">> ELSE <<>>) \o m
      BY DEF LapseStops
    <2>3. "ReadProgram" \in StopRPC \ {"StopMotion"}
      BY DEF StopRPC
    <2> HIDE DEF m
    <2>4. CASE Program \in ds
      BY <2>1, <2>2, <2>3, <2>4, ProgramAheadOfParts
    <2>5. CASE Program \notin ds
      BY <2>1, <2>2, <2>5, ConcatEmptySeq
    <2>6. QED
      BY <2>4, <2>5
  <1>5. QED
    BY <1>3, <1>4

LEMMA QueuesSoundInductive ==
  /\ GatewayInit => QueuesSound
  /\ GatewayInv /\ QueuesSound /\ [GatewayNext]_allVars => QueuesSound'
  <1>1. ASSUME GatewayInit PROVE QueuesSound
    BY <1>1 DEF GatewayInit, QueuesSound, ProgramAhead
  <1>2. ASSUME GatewayInv, QueuesSound, [GatewayNext]_allVars PROVE QueuesSound'
    <2> USE DEF GatewayInv
    <2>1. ASSUME UNCHANGED <<todo, escaped>> PROVE QueuesSound'
      BY <2>1, <1>2 DEF QueuesSound
    <2>2. ASSUME NEW a \in Agent, NEW stops, ProgramAhead(stops), Begin(a, stops)
          PROVE  QueuesSound'
      BY <2>2, <1>2 DEF QueuesSound, Begin, GatewayTypeOK
    <2>3. ASSUME NEW a \in Agent, Forget(a), UNCHANGED todo PROVE QueuesSound'
      BY <2>3, <1>2 DEF QueuesSound, Forget
    <2>4. ASSUME NEW a \in Agent, StopStep(a) PROVE QueuesSound'
      <3> DEFINE again == <<"ProgramStop">> \o Tail(todo[a])
      <3>1. todo[a] \in Seq(StopRPC) /\ todo[a] # <<>> /\ ProgramAhead(todo[a])
        BY <2>4, <1>2 DEF StopStep, StopAnswered, StopRefused, StopEscapes,
            ProgramMisread, GatewayTypeOK, QueuesSound
      <3>2. Tail(todo[a]) \in Seq(StopRPC) /\ ProgramAhead(Tail(todo[a]))
        BY <3>1, ProgramAheadOfParts, TailOfQueue
      <3>3. ProgramAhead(again)
        BY <3>2, ProgramAheadOfParts DEF StopRPC
      <3>4. ProgramAhead(<<>>)
        BY DEF ProgramAhead
      <3>5. a \notin escaped
        BY <3>1, <1>2 DEF QueuesSound
      <3>6. \/ /\ todo' \in {[todo EXCEPT ![a] = Tail(todo[a])], [todo EXCEPT ![a] = again]}
               /\ escaped' = escaped
            \/ todo' = [todo EXCEPT ![a] = <<>>] /\ escaped' = escaped \cup {a}
        <4>1. CASE StopAnswered(a)
          <5>1. todo' = [todo EXCEPT ![a] =
                     IF Head(todo[a]) = "ReadProgram" /\ program \in {"running", "paused"}
                     THEN again ELSE Tail(todo[a])]
            BY <4>1 DEF StopAnswered
          <5>2. escaped' = escaped
            BY <4>1 DEF StopAnswered
          <5> HIDE DEF again
          <5>3. QED
            BY <5>1, <5>2
        <4>2. CASE StopRefused(a) \/ StopEscapes(a) \/ ProgramMisread(a)
          BY <4>2 DEF StopRefused, StopEscapes, ProgramMisread
        <4>3. QED
          BY <2>4, <4>1, <4>2 DEF StopStep
      <3> HIDE DEF again
      <3>7. ASSUME NEW b \in Agent \ {a}
            PROVE  todo'[b] = todo[b] /\ (b \in escaped' <=> b \in escaped)
        BY <1>2, <3>6 DEF GatewayTypeOK
      <3>8. ProgramAhead(todo'[a]) /\ (a \in escaped' => todo'[a] = <<>>)
        <4>1. CASE /\ todo' \in {[todo EXCEPT ![a] = Tail(todo[a])], [todo EXCEPT ![a] = again]}
                   /\ escaped' = escaped
          <5>1. todo'[a] \in {Tail(todo[a]), again}
            BY <4>1, <1>2 DEF GatewayTypeOK
          <5>2. QED
            BY <4>1, <5>1, <3>2, <3>3, <3>5
        <4>2. CASE todo' = [todo EXCEPT ![a] = <<>>]
          <5>1. todo'[a] = <<>>
            BY <4>2, <1>2 DEF GatewayTypeOK
          <5>2. QED
            BY <5>1, <3>4
        <4>3. QED
          BY <3>6, <4>1, <4>2
      <3>9. ASSUME NEW b \in Agent
            PROVE  ProgramAhead(todo'[b]) /\ (b \in escaped' => todo'[b] = <<>>)
        <4>1. CASE b = a
          BY <4>1, <3>8
        <4>2. CASE b # a
          <5>1. ProgramAhead(todo[b]) /\ (b \in escaped => todo[b] = <<>>)
            BY <1>2 DEF QueuesSound
          <5>2. QED
            BY <4>2, <5>1, <3>7
        <4>3. QED
          BY <4>1, <4>2
      <3>10. \A b \in Agent : ProgramAhead(todo'[b]) /\ (b \in escaped' => todo'[b] = <<>>)
        BY <3>9
      <3>11. QED
        BY <3>10 DEF QueuesSound, ProgramAhead
    <2>5. ASSUME NEW h \in Handler, Move(h) PROVE UNCHANGED <<todo, escaped>>
      BY <2>5 DEF Move, Arrive, RequireLook, RequireMotionLook, Check, PreflightFails,
          Send, SendJog, SendMove, SendRun, SendPause, SendResume, Transmit, cascadeVars
    <2>6. ASSUME NEW h \in Handler, StopRoute(h) PROVE QueuesSound'
      <3>1. h \in Agent
        BY DEF Agent
      <3>2. ASSUME NEW r \in Stops, ArriveStop(h, r) PROVE QueuesSound'
        BY <3>1, <3>2, <2>2, CascadesStopProgramFirst DEF ArriveStop
      <3>3. ASSUME StopResponds(h) PROVE QueuesSound'
        BY <3>1, <3>3, <2>3 DEF StopResponds
      <3>4. QED
        BY <2>6, <3>1, <3>2, <3>3, <2>4 DEF StopRoute
    <2>7. ASSUME OnLapse PROVE QueuesSound'
      <3>1. Reaper \in Agent
        BY DEF Agent
      <3>2. ASSUME NEW t \in Token, LapseBegins(t) PROVE QueuesSound'
        <4>1. lease[t].domains \in SUBSET Domain
          BY <1>2, <3>2 DEF LapseBegins, IInv, TypeOK, LapsedSound, Lease
        <4>2. QED
          BY <3>1, <3>2, <4>1, <2>2, CascadesStopProgramFirst DEF LapseBegins
      <3>3. ASSUME LapseEnds PROVE QueuesSound'
        BY <3>1, <3>3, <2>3 DEF LapseEnds
      <3>4. QED
        BY <2>7, <3>1, <3>2, <3>3, <2>4 DEF OnLapse
    <2>8. ASSUME LockReaps \/ TimePasses \/ LeaseRoute \/ Shutdown \/ ActivityEnds
                 \/ UNCHANGED allVars
          PROVE  UNCHANGED <<todo, escaped>>
      BY <2>8 DEF LockReaps, TimePasses, LeaseRoute, Shutdown, ActivityEnds, allVars,
          gatewayVars, cascadeVars
    <2>9. QED
      BY <1>2, <2>1, <2>5, <2>6, <2>7, <2>8 DEF GatewayNext
  <1>3. QED
    BY <1>1, <1>2

\* The lapse of a lease on the program never cuts into a program that was
\* running when the lapse was noticed and could be stopped (app.py:167-178).
THEOREM ProgramStopsFirst == GatewaySpec => ProgramStoppedFirst
  <1>1. ASSUME GatewayInv, QueuesSound, CutsProgram
        PROVE  Program \notin lease[serving].domains
    <2> SUFFICES ASSUME Program \in lease[serving].domains PROVE FALSE
      OBVIOUS
    <2>1. /\ Reaper \in Agent /\ todo[Reaper] \in Seq(StopRPC) /\ todo[Reaper] # <<>>
          /\ Head(todo[Reaper]) = "StopMotion"
      BY <1>1 DEF Agent, CutsProgram, GatewayInv, GatewayTypeOK
    <2>2. Queued(Reaper) \cap StopsProgram = {} /\ Reaper \notin escaped
      <3>1. ProgramAhead(todo[Reaper]) /\ Reaper \notin escaped
        BY <1>1, <2>1 DEF QueuesSound
      <3>2. Queued(Reaper) = Elements(todo[Reaper])
        BY <2>1, ElementsAreQueued
      <3>3. QED
        BY <2>1, <3>1, <3>2, ProgramAheadOfParts
    <2>3. "program" \in Promised(Reaper) \cap before[Reaper]
      BY <1>1 DEF Promised, LapseEndsWhat, CutsProgram
    <2>4. Against("program") = StopsProgram
      BY DEF Against, StopsProgram
    <2>5. QED
      BY <1>1, <2>1, <2>2, <2>3, <2>4 DEF GatewayInv, StopsReachTheArm, CutsProgram
  <1>2. GatewaySpec => []QueuesSound
    BY QueuesSoundInductive, GatewayInvariant, PTL DEF GatewaySpec
  <1>3. GatewayInv /\ QueuesSound /\ [GatewayNext]_allVars =>
            [CutsProgram => Program \notin lease[serving].domains]_allVars
    BY <1>1
  <1>4. QED
    BY <1>2, <1>3, GatewayInvariant, PTL DEF GatewaySpec, ProgramStoppedFirst
=============================================================================
