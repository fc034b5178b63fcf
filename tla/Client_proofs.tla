---------------------------- MODULE Client_proofs ----------------------------
(***************************************************************************)
(* What either side believes of the other, and for how long it is true.    *)
(*                                                                         *)
(* Client, for every lifetime, timeout and period: while the alarm is      *)
(* silent the lease outlasts what may still be waited for. How long it     *)
(* lasts is known from where the heartbeat is: since the last renewal      *)
(* while it waits, and a period more while it posts.                       *)
(*                                                                         *)
(* Capabilities, for any number of threads and features: a verdict of      *)
(* absence that rests on a fault that was read and stayed is true. The two *)
(* share no state, and are proved side by side.                            *)
(***************************************************************************)
EXTENDS Client, Capabilities, TLAPS

\* What a lease leaves over once a period has passed and a renewal has timed out.
Headroom == Period + Timeout < Clamp(Ttl)

InBlock == main \in {"in", "calling"}

\* A block has its own lease, and is not told to stop before it is left.
BlockIsOurs == InBlock => block \in Block /\ token = block /\ ~stopping

\* Nothing is waited for beyond its time.
Prompt ==
    \A b \in Block :
        /\ beat[b].since <= now
        /\ beat[b].at = "wait" => now <= beat[b].since + Period
        /\ beat[b].at = "post" => now <= beat[b].since + Timeout

\* The heartbeat of a block goes on until it fails, for the block's lease, and
\* the lease is as long as the last renewal made it.
LeaseLasts ==
    InBlock /\ ~missed /\ ~broken =>
        /\ expires[token] # Gone
        /\ \/ /\ beat[block].at = "wait"
              /\ beat[block].since + Clamp(Ttl) <= expires[token]
           \/ /\ beat[block].at = "post" /\ beat[block].with = block
              /\ beat[block].since + Clamp(Ttl) <= expires[token] + Period

\* A failure raises the alarm, and only entering a block takes it back.
MissRaises == missed => alarm

\* A thread of another block that runs is one that outlived the join.
OthersOutlived == \A b \in Block \ {block} : Running(b) => outlived

\* The alarm has a reason.
AlarmHasCause == alarm => missed \/ outlived

ClientInv == ClientTypeOK /\ BlockIsOurs /\ Prompt /\ MissRaises /\ OthersOutlived /\ AlarmHasCause

\* What needs the headroom.
HeldInv == ClientInv /\ LeaseLasts /\ CommandsAreHeld

-----------------------------------------------------------------------------
(* The operators.                                                          *)

LEMMA ConstantTypes ==
    /\ Ttl \in Nat \ {0} /\ MinTtl \in Nat \ {0} /\ MaxTtl \in Nat \ {0} /\ MinTtl <= MaxTtl
    /\ Timeout \in Nat \ {0} /\ MaxBlocks \in Nat \ {0}
    /\ JoinTimeout \in Nat /\ MaxTime \in Nat
  BY ClientAssumption DEF ClientAssumption

LEMMA ClampType == Clamp(Ttl) \in Nat \ {0} /\ Clamp(Ttl) <= MaxTtl
  BY ConstantTypes DEF Clamp

LEMMA PeriodType == Period \in Nat \ {0}
  BY ConstantTypes DEF Period

\* A lifetime within the gateway's limits and a timeout of less than two thirds
\* of it, as the client's own 30 s and 15 s are, leave headroom.
LEMMA UsualHeadroom ==
  ASSUME Ttl >= 3, MinTtl <= Ttl, Ttl <= MaxTtl, 3 * Timeout < 2 * Ttl
  PROVE  Headroom
<1>1. Clamp(Ttl) = Ttl /\ Period = Ttl \div 3
  BY ConstantTypes DEF Clamp, Period
<1>2. 3 * (Ttl \div 3) <= Ttl
  BY ConstantTypes
<1>3. QED
  BY <1>1, <1>2, ConstantTypes DEF Headroom

LEMMA Start == Init => HeldInv
<1> SUFFICES ASSUME Init
             PROVE  HeldInv
  OBVIOUS
<1> USE ConstantTypes, PeriodType DEF Init
<1>1. beat \in [Block -> Beat]
  BY DEF Beat, Block, Time
<1>2. ClientTypeOK
  <2>1. now \in Time /\ expires \in [Block -> {Gone} \cup 0..(MaxTime + MaxTtl)]
    BY DEF Time
  <2>2. token \in 0..MaxBlocks /\ block \in 0..MaxBlocks /\ joinBy \in 0..(MaxTime + JoinTimeout)
    OBVIOUS
  <2>3. \A flag \in {alarm, stopping, broken, outlived, missed} : flag \in BOOLEAN
    OBVIOUS
  <2>4. call \in [left : 0..2, since : Time]
    BY DEF Time
  <2>5. QED
    BY <1>1, <2>1, <2>2, <2>3, <2>4 DEF ClientTypeOK
<1>3. BlockIsOurs /\ LeaseLasts
  BY DEF BlockIsOurs, LeaseLasts, InBlock
<1>4. Prompt
  BY DEF Prompt, Block
<1>5. MissRaises /\ OthersOutlived /\ AlarmHasCause /\ CommandsAreHeld
  BY DEF MissRaises, OthersOutlived, Running, AlarmHasCause, CommandsAreHeld
<1>6. QED
  BY <1>2, <1>3, <1>4, <1>5 DEF HeldInv, ClientInv

-----------------------------------------------------------------------------
(* Types.                                                                  *)

LEMMA TypesStay == ClientTypeOK /\ [Next]_vars => ClientTypeOK'
<1> SUFFICES ASSUME ClientTypeOK, [Next]_vars
             PROVE  ClientTypeOK'
  OBVIOUS
<1> USE ConstantTypes, ClampType DEF ClientTypeOK, Time, Block, calls
<1>1. CASE Tick
  BY <1>1 DEF Tick
<1>2. CASE Leave
  BY <1>2 DEF Leave
<1>3. CASE Joined
  BY <1>3 DEF Joined
<1>4. CASE Goodbye
  BY <1>4 DEF Goodbye
<1>5. CASE Answered
  BY SMTT(30), <1>5 DEF Answered
<1>6. ASSUME NEW n \in 1..2, Command(n)
      PROVE  ClientTypeOK'
  BY <1>6 DEF Command
<1>7. ASSUME NEW b \in Block, Enter(b)
      PROVE  ClientTypeOK'
  <2>1. /\ now' = now /\ joinBy' = joinBy /\ call' = call /\ bare' = bare
        /\ block' = b /\ token' = b /\ main' = "in" /\ ~alarm' /\ ~stopping'
        /\ ~broken' /\ ~missed' /\ outlived' \in BOOLEAN
    BY <1>7 DEF Enter, Entered
  <2>2. expires' \in [Block -> {Gone} \cup 0..(MaxTime + MaxTtl)]
    BY <1>7 DEF Enter, Entered
  <2>3. beat' \in [Block -> Beat]
    BY SMTT(30), <1>7 DEF Enter, Entered, Beat
  <2>4. alarm' \in BOOLEAN /\ stopping' \in BOOLEAN /\ broken' \in BOOLEAN /\ missed' \in BOOLEAN
    BY <1>7 DEF Enter, Entered
  <2>5. QED
    BY <2>1, <2>2, <2>3, <2>4
<1>8. ASSUME NEW b \in Block, Wake(b)
      PROVE  ClientTypeOK'
  <2>1. beat' \in [Block -> Beat]
    BY ZenonT(40), <1>8 DEF Wake, Beat
  <2>2. UNCHANGED <<now, expires, token, alarm, stopping, main, joinBy, block, broken, outlived,
                    missed, call, bare>>
    BY <1>8, Zenon DEF Wake, calls
  <2>3. QED
    BY <2>1, <2>2
<1>9. ASSUME NEW b \in Block, Renews(b)
      PROVE  ClientTypeOK'
  <2>1. expires' \in [Block -> {Gone} \cup 0..(MaxTime + MaxTtl)]
    <3>1. Live(beat[b].with) /\ expires' = Renewed(beat[b].with)
      BY <1>9, Zenon DEF Renews
    <3>2. now + Clamp(Ttl) \in 0..(MaxTime + MaxTtl)
      OBVIOUS
    <3>3. QED
      BY <3>1, <3>2 DEF Renewed
  <2>2. beat' \in [Block -> Beat]
    BY <1>9 DEF Renews, Beat
  <2>3. UNCHANGED <<now, token, alarm, stopping, main, joinBy, block, broken, outlived, missed,
                    call, bare>>
    BY <1>9, Zenon DEF Renews, calls
  <2>4. QED
    BY <2>1, <2>2, <2>3
<1>10. ASSUME NEW b \in Block, Fails(b)
       PROVE  ClientTypeOK'
  <2>1. expires' \in [Block -> {Gone} \cup 0..(MaxTime + MaxTtl)]
    <3>1. expires' = expires \/ (Live(beat[b].with) /\ expires' = Renewed(beat[b].with))
      BY <1>10 DEF Fails
    <3>2. now + Clamp(Ttl) \in 0..(MaxTime + MaxTtl)
      OBVIOUS
    <3>3. QED
      BY <3>1, <3>2 DEF Renewed
  <2>2. beat' \in [Block -> Beat]
    BY ZenonT(40), <1>10 DEF Fails, Beat
  <2>3. alarm' \in BOOLEAN /\ missed' \in BOOLEAN
    BY <1>10, Zenon DEF Fails
  <2>4. QED
    BY <1>10, <2>1, <2>2, <2>3 DEF Fails
<1>11. ASSUME NEW b \in Block, Lapse(b) \/ Break(b)
       PROVE  ClientTypeOK'
  BY <1>11 DEF Lapse, Break
<1>12. CASE UNCHANGED vars
  BY <1>12 DEF vars
<1>13. QED
  BY <1>1, <1>2, <1>3, <1>4, <1>5, <1>6, <1>7, <1>8, <1>9, <1>10, <1>11, <1>12 DEF Next

-----------------------------------------------------------------------------
(* What does not need the headroom.                                        *)

LEMMA InvariantStays == ClientInv /\ [Next]_vars => ClientInv'
<1> SUFFICES ASSUME ClientInv, [Next]_vars
             PROVE  ClientInv'
  OBVIOUS
<1>t. ClientTypeOK'
  BY TypesStay DEF ClientInv
<1> USE ConstantTypes, PeriodType, <1>t DEF ClientInv, ClientTypeOK, Time, Block, calls
<1> HIDE DEF ClientTypeOK
<1>1. CASE Tick
  <2>1. Prompt'
    BY SMTT(30), <1>1 DEF Tick, Prompt, Due, ClientTypeOK, Beat
  <2>2. QED
    BY <1>1, <2>1 DEF Tick, BlockIsOurs, InBlock, MissRaises, OthersOutlived, Running, AlarmHasCause
<1>2. CASE Leave
  BY <1>2 DEF Leave, BlockIsOurs, InBlock, Prompt, MissRaises, OthersOutlived, Running, AlarmHasCause
<1>3. CASE Joined \/ Goodbye
  BY <1>3 DEF Joined, Goodbye, BlockIsOurs, InBlock, Prompt, MissRaises, OthersOutlived, Running,
              AlarmHasCause
<1>4. CASE Answered \/ \E n \in 1..2 : Command(n)
  BY <1>4 DEF Answered, Command, BlockIsOurs, InBlock, Prompt, MissRaises, OthersOutlived, Running,
              AlarmHasCause
<1>5. ASSUME NEW b \in Block, Enter(b)
      PROVE  ClientInv'
  <2>1. BlockIsOurs' /\ MissRaises' /\ AlarmHasCause'
    BY <1>5 DEF Enter, Entered, BlockIsOurs, InBlock, MissRaises, AlarmHasCause
  <2>2. Prompt'
    BY <1>5 DEF Enter, Entered, Prompt, ClientTypeOK, Beat
  <2>3. OthersOutlived'
    BY <1>5 DEF Enter, Entered, OthersOutlived, Running, ClientTypeOK
  <2>4. QED
    BY <2>1, <2>2, <2>3
<1>6. ASSUME NEW b \in Block, Wake(b)
      PROVE  ClientInv'
  <2>1. Prompt'
    BY SMTT(30), <1>6 DEF Wake, Due, Prompt, ClientTypeOK, Beat
  <2>2. OthersOutlived'
    BY <1>6 DEF Wake, Due, OthersOutlived, Running, ClientTypeOK
  <2>3. QED
    BY <1>6, <2>1, <2>2 DEF Wake, BlockIsOurs, InBlock, MissRaises, AlarmHasCause
<1>7. ASSUME NEW b \in Block, Renews(b)
      PROVE  ClientInv'
  <2>1. Prompt'
    BY <1>7 DEF Renews, Prompt, ClientTypeOK, Beat
  <2>2. OthersOutlived'
    BY <1>7 DEF Renews, OthersOutlived, Running, ClientTypeOK
  <2>3. QED
    BY <1>7, <2>1, <2>2 DEF Renews, BlockIsOurs, InBlock, MissRaises, AlarmHasCause
<1>8. ASSUME NEW b \in Block, Fails(b)
      PROVE  ClientInv'
  <2>1. Prompt'
    BY <1>8 DEF Fails, Prompt, ClientTypeOK, Beat
  <2>2. OthersOutlived'
    BY <1>8 DEF Fails, OthersOutlived, Running, ClientTypeOK, Beat
  <2>3. MissRaises' /\ AlarmHasCause'
    <3>1. b = block \/ outlived
      BY <1>8 DEF Fails, OthersOutlived, Running
    <3>2. QED
      BY <1>8, <3>1 DEF Fails, MissRaises, AlarmHasCause
  <2>4. QED
    BY <1>8, <2>1, <2>2, <2>3 DEF Fails, BlockIsOurs, InBlock
<1>9. ASSUME NEW b \in Block, Lapse(b) \/ Break(b)
      PROVE  ClientInv'
  BY <1>9 DEF Lapse, Break, BlockIsOurs, InBlock, Prompt, MissRaises, OthersOutlived, Running,
              AlarmHasCause
<1>10. CASE UNCHANGED vars
  BY <1>10 DEF vars, BlockIsOurs, InBlock, Prompt, MissRaises, OthersOutlived, Running, AlarmHasCause
<1>11. QED
  BY <1>1, <1>2, <1>3, <1>4, <1>5, <1>6, <1>7, <1>8, <1>9, <1>10 DEF Next

\* The alarm is about this block, or about a thread that outlived the join of
\* one before (client.py control, _check_lease), whatever the lifetimes are.
THEOREM ClientInvariant == Spec => []ClientInv
<1>1. Init => ClientInv
  BY Start DEF HeldInv
<1>2. QED
  BY <1>1, InvariantStays, PTL DEF Spec

-----------------------------------------------------------------------------
(* What does.                                                              *)

\* While a block is in control and nothing has failed, its lease has not run out.
LEMMA LeaseIsLive ==
  ASSUME Headroom, ClientInv, LeaseLasts, InBlock, ~missed, ~broken
  PROVE  Live(token) /\ expires[token] > now
<1> USE ConstantTypes, ClampType, PeriodType
<1>1. block \in Block /\ token = block /\ beat[block].since <= now
  BY DEF ClientInv, BlockIsOurs, Prompt
<1>2. expires[token] \in Nat /\ now \in Nat /\ beat[block].since \in Nat
  BY <1>1 DEF ClientInv, ClientTypeOK, LeaseLasts, Block, Beat, Time
<1>3. CASE beat[block].at = "wait"
  <2>1. now <= beat[block].since + Period
    BY <1>1, <1>3 DEF ClientInv, Prompt
  <2>2. beat[block].since + Clamp(Ttl) <= expires[token]
    BY <1>3 DEF LeaseLasts
  <2>3. QED
    BY <1>1, <1>2, <2>1, <2>2 DEF Headroom, Live, Block, Gone
<1>4. CASE beat[block].at = "post"
  <2>1. now <= beat[block].since + Timeout
    BY <1>1, <1>4 DEF ClientInv, Prompt
  <2>2. beat[block].since + Clamp(Ttl) <= expires[token] + Period
    BY <1>4 DEF LeaseLasts
  <2>3. QED
    BY <1>1, <1>2, <2>1, <2>2 DEF Headroom, Live, Block, Gone
<1>5. QED
  BY <1>3, <1>4 DEF LeaseLasts

LEMMA LeaseKeeps ==
  ASSUME Headroom, HeldInv, [Next]_vars, InBlock', ~missed', ~broken'
  PROVE  LeaseLasts'
<1> USE ConstantTypes, ClampType, PeriodType DEF HeldInv, calls
<1>t. ClientTypeOK
  BY DEF ClientInv
<1>0. CASE ~\E b \in Block : Enter(b)
  <2>1. InBlock /\ ~missed /\ ~broken /\ token' = token /\ block' = block
    <3>1. InBlock /\ token' = token /\ block' = block
      BY <1>0 DEF Next, vars, InBlock, Tick, Leave, Joined, Goodbye, Answered, Command, Wake, Renews,
                  Fails, Lapse, Break
    <3>2. ~missed
      <4>1. missed' = missed \/ \E b \in Block : missed' = (missed \/ b = block)
        BY <1>0 DEF Next, vars, Tick, Leave, Joined, Goodbye, Answered, Command, Wake, Renews,
                    Fails, Lapse, Break
      <4>2. QED
        BY <4>1, Zenon
    <3>3. ~broken
      BY <1>0 DEF Next, vars, Tick, Leave, Joined, Goodbye, Answered, Command, Wake, Renews,
                  Fails, Lapse, Break
    <3>4. QED
      BY <3>1, <3>2, <3>3
  <2>2. /\ Live(token) /\ expires[token] > now /\ token = block /\ block \in Block /\ ~stopping
        /\ expires[token] \in Nat /\ now \in Nat /\ beat[block].since \in Nat
    BY <2>1, <1>t, LeaseIsLive DEF ClientInv, BlockIsOurs, ClientTypeOK, Live, Block, Beat, Time
  <2> USE <2>1, <2>2
  <2>3. CASE UNCHANGED <<expires, beat>>
    BY <2>3 DEF LeaseLasts
  <2>4. ASSUME NEW b \in Block, Wake(b)
        PROVE  LeaseLasts'
    <3>1. CASE b = block
      <4>1. now <= beat[block].since + Period
        BY <2>4, <3>1 DEF ClientInv, Prompt, Wake, Due
      <4>2. beat[block].since + Clamp(Ttl) <= expires[token]
        BY <2>4, <3>1 DEF LeaseLasts, Wake, Due
      <4>3. /\ beat'[block] = [at |-> "post", since |-> now, with |-> token]
            /\ expires' = expires
        BY <1>t, <2>4, <3>1 DEF Wake, ClientTypeOK
      <4>4. QED
        BY <4>1, <4>2, <4>3 DEF LeaseLasts
    <3>2. CASE b # block
      BY <1>t, <2>4, <3>2 DEF Wake, LeaseLasts, ClientTypeOK
    <3>3. QED
      BY <3>1, <3>2
  <2>5. ASSUME NEW b \in Block, Renews(b)
        PROVE  LeaseLasts'
    <3>1. expires' = [expires EXCEPT ![beat[b].with] = now + Clamp(Ttl)]
      BY <2>5 DEF Renews, Renewed
    <3>2. CASE b = block
      <4>1. beat[block].with = token
        BY <2>5, <3>2 DEF LeaseLasts, Renews
      <4>2. /\ beat'[block] = [at |-> "wait", since |-> now, with |-> 0]
            /\ expires'[token] = now + Clamp(Ttl)
        BY <1>t, <2>5, <3>1, <3>2, <4>1 DEF Renews, ClientTypeOK
      <4>3. QED
        BY <4>2 DEF LeaseLasts, Gone
    <3>3. CASE b # block
      <4>1. beat'[block] = beat[block]
        BY <1>t, <2>5, <3>3 DEF Renews, ClientTypeOK
      <4>2. expires'[token] = expires[token] \/ expires'[token] = now + Clamp(Ttl)
        BY <1>t, <3>1 DEF ClientTypeOK
      <4>3. beat[block].since <= now
        BY DEF ClientInv, Prompt
      <4>4. QED
        BY <4>1, <4>2, <4>3 DEF LeaseLasts, Gone
    <3>4. QED
      BY <3>2, <3>3
  <2>6. ASSUME NEW b \in Block, Fails(b)
        PROVE  LeaseLasts'
    <3>1. b # block
      BY <2>6 DEF Fails
    <3>2. beat'[block] = beat[block]
      BY <1>t, <2>6, <3>1 DEF Fails, ClientTypeOK
    <3>3. expires'[token] = expires[token] \/ expires'[token] = now + Clamp(Ttl)
      BY <1>t, <2>6 DEF Fails, Renewed, ClientTypeOK
    <3>4. beat[block].since <= now
      BY DEF ClientInv, Prompt
    <3>5. QED
      BY <3>2, <3>3, <3>4 DEF LeaseLasts, Gone
  <2>7. ASSUME NEW b \in Block, Lapse(b)
        PROVE  LeaseLasts'
    <3>1. b # token
      BY <2>7 DEF Lapse
    <3>2. expires'[token] = expires[token] /\ beat' = beat
      BY <1>t, <2>7, <3>1 DEF Lapse, ClientTypeOK
    <3>3. QED
      BY <3>2 DEF LeaseLasts
  <2>8. ASSUME NEW b \in Block, Break(b)
        PROVE  FALSE
    BY <2>8 DEF Break
  <2>9. UNCHANGED <<expires, beat>> \/ \E b \in Block : Wake(b) \/ Renews(b) \/ Fails(b) \/ Lapse(b) \/ Break(b)
    BY <1>0 DEF Next, vars, InBlock, Tick, Leave, Joined, Goodbye, Answered, Command
  <2>10. QED
    BY <2>3, <2>4, <2>5, <2>6, <2>7, <2>8, <2>9
<1>1. ASSUME NEW b \in Block, Enter(b)
      PROVE  LeaseLasts'
  <2>1. /\ block' = b /\ token' = b /\ expires'[b] = now + Clamp(Ttl) /\ now \in Nat
        /\ beat'[b] = [at |-> "wait", since |-> now, with |-> 0]
    BY <1>t, <1>1 DEF Enter, Entered, ClientTypeOK, Time
  <2>2. QED
    BY <2>1 DEF LeaseLasts, Gone
<1>2. QED
  BY <1>0, <1>1

\* The alarm has not been raised when a command looks: nothing has failed.
LEMMA HeldStays == Headroom /\ HeldInv /\ [Next]_vars => HeldInv'
<1> SUFFICES ASSUME Headroom, HeldInv, [Next]_vars
             PROVE  HeldInv'
  OBVIOUS
<1>1. ClientInv'
  BY InvariantStays DEF HeldInv
<1>2. LeaseLasts'
  <2>1. CASE InBlock' /\ ~missed' /\ ~broken'
    BY <2>1, LeaseKeeps
  <2>2. CASE ~(InBlock' /\ ~missed' /\ ~broken')
    BY <2>2 DEF LeaseLasts
  <2>3. QED
    BY <2>1, <2>2
<1>3. CommandsAreHeld'
  <2>1. ASSUME NEW n \in 1..2, Command(n)
        PROVE  CommandsAreHeld'
    <3>1. InBlock /\ ~missed
      BY <2>1 DEF Command, InBlock, HeldInv, ClientInv, MissRaises
    <3>2. ~Bare
      BY <3>1, LeaseIsLive DEF Bare, HeldInv
    <3>3. QED
      BY <2>1, <3>2 DEF Command, CommandsAreHeld, HeldInv
  <2>2. CASE Answered
    BY <2>2 DEF Answered, CommandsAreHeld, HeldInv
  <2>3. CASE bare' = bare
    BY <2>3 DEF CommandsAreHeld, HeldInv
  <2>4. QED
    BY <2>1, <2>2, <2>3
    DEF Next, vars, calls, Tick, Leave, Joined, Goodbye, Enter, Entered, Wake, Renews, Fails, Lapse, Break
<1>4. QED
  BY <1>1, <1>2, <1>3 DEF HeldInv

\* A command of control() goes out under a lease that has not run out, unless an
\* administrator broke it (client.py control, _check_lease), if a third of the
\* lifetime and a timeout are less than what the gateway grants.
THEOREM CommandsUnderLease ==
  ASSUME Headroom
  PROVE  Spec => []CommandsAreHeld
<1>1. Init => HeldInv
  BY Start
<1>2. HeldInv /\ [Next]_vars => HeldInv'
  BY HeldStays
<1>3. HeldInv => CommandsAreHeld
  BY DEF HeldInv
<1>4. QED
  BY <1>1, <1>2, <1>3, PTL DEF Spec

\* The alarm of a block has its cause in that block, unless a thread outlived the
\* join of the one before.
THEOREM AlarmsAreOurs == Spec => []AlarmIsOurs
<1>1. ClientInv => AlarmIsOurs
  BY DEF ClientInv, AlarmHasCause, AlarmIsOurs
<1>2. QED
  BY <1>1, ClientInvariant, PTL

-----------------------------------------------------------------------------
(* What the gateway believes of the controller (Capabilities). A verdict   *)
(* that is said to be sure is true, because no thread holds one that is    *)
(* not: what a thread has read of the fault is how things are, as long as  *)
(* nothing has moved since.                                                *)

\* There is something to ask until it is stored; a single probe is about one
\* feature, and a sweep passes no gate.
Asking ==
    \A h \in Thread :
        job[h] # None /\ job[h].at # "store" =>
            /\ job[h].todo # {}
            /\ job[h].kind = "single" => \E f \in Feature : job[h].todo = {f}
            /\ job[h].at \in {"gate", "judge"} => job[h].kind = "single"

\* What was read stays true: of a sweep, the fault; of a probe that got an error
\* code, that the controller is faulted if it has the feature.
ReadingHolds ==
    \A h \in Thread :
        /\ At(h, "ask") /\ job[h].kind = "sweep" /\ job[h].clean => job[h].fault = faulted
        /\ At(h, "judge") /\ job[h].clean =>
              \A f \in job[h].todo : f \in Supported => faulted

\* A verdict that is not stored yet is as true as one that is.
FoundIsTrue ==
    \A h \in Thread, f \in Feature :
        job[h] # None /\ job[h].found[f] # None
            => (job[h].found[f].state = "absent" /\ job[h].found[f].sure => f \notin Supported)

CapabilitiesInv ==
    CapabilitiesTypeOK /\ Asking /\ ReadingHolds /\ FoundIsTrue /\ AbsentIsTrue

LEMMA CapabilitiesStart == CapabilitiesInit => CapabilitiesInv
<1> SUFFICES ASSUME CapabilitiesInit
             PROVE  CapabilitiesInv
  OBVIOUS
<1> USE CapabilitiesAssumption DEF CapabilitiesAssumption, CapabilitiesInit
<1>1. CapabilitiesTypeOK
  BY DEF CapabilitiesTypeOK, Unknown, Verdict, State
<1>2. Asking /\ ReadingHolds /\ FoundIsTrue
  BY DEF Asking, ReadingHolds, FoundIsTrue, At
<1>3. AbsentIsTrue
  BY DEF AbsentIsTrue, Unknown
<1>4. QED
  BY <1>1, <1>2, <1>3 DEF CapabilitiesInv

LEMMA NewJobType ==
  ASSUME NEW kind \in {"sweep", "single"}, NEW place \in {"gate", "readFault", "ask"},
         NEW features \in SUBSET Feature
  PROVE  /\ NewJob(kind, place, features) \in Job
         /\ \A f \in Feature : NewJob(kind, place, features).found[f] = None
  BY DEF NewJob, Job, Nothing

LEMMA JudgedType ==
  ASSUME NEW answer \in {"noMethod", "code", "value", "lost", "odd"}, NEW fault \in BOOLEAN,
         NEW clean \in BOOLEAN
  PROVE  Judged(answer, fault, clean) \in Verdict
<1>1. CASE answer = "value"
  BY <1>1 DEF Judged, Verdict, State
<1>2. CASE answer = "noMethod"
  BY <1>2 DEF Judged, Verdict, State
<1>3. CASE answer \in {"lost", "odd"}
  BY <1>3 DEF Judged, Verdict, State
<1>4. CASE answer = "code" /\ fault
  BY <1>4 DEF Judged, Verdict, State
<1>5. CASE answer = "code" /\ ~fault
  BY <1>5 DEF Judged, Verdict, State
<1>6. QED
  BY <1>1, <1>2, <1>3, <1>4, <1>5

\* When a verdict is sure, the answer was proof of absence.
LEMMA JudgedSure ==
  ASSUME NEW answer, NEW fault, NEW clean, Judged(answer, fault, clean).sure
  PROVE  clean /\ (answer = "noMethod" \/ (answer = "code" /\ ~fault))
  BY DEF Judged

Filled(j, todo, found, at) == [j EXCEPT !.todo = todo, !.found = found, !.at = at]

LEMMA FilledJob ==
  ASSUME NEW j \in Job, NEW todo \in SUBSET Feature,
         NEW found \in [Feature -> Verdict \cup {None}], NEW at \in {"ask", "store"}
  PROVE  /\ Filled(j, todo, found, at) \in Job
         /\ Filled(j, todo, found, at).todo = todo /\ Filled(j, todo, found, at).found = found
         /\ Filled(j, todo, found, at).at = at /\ Filled(j, todo, found, at).kind = j.kind
         /\ Filled(j, todo, found, at).clean = j.clean /\ Filled(j, todo, found, at).fault = j.fault
<1> DEFINE k == [j EXCEPT !.todo = todo, !.found = found, !.at = at]
<1>1. /\ k.todo = todo /\ k.found = found /\ k.at = at
      /\ k.kind = j.kind /\ k.clean = j.clean /\ k.fault = j.fault
  BY DEF Job
<1>2. [j EXCEPT !.todo = todo] \in Job
  BY DEF Job
<1>3. [j EXCEPT !.todo = todo, !.found = found] \in Job
  BY <1>2 DEF Job
<1>4. k \in Job
  BY <1>3 DEF Job
<1>5. QED
  BY <1>1, <1>4 DEF Filled

LEMMA JobMoved ==
  ASSUME NEW j \in Job, NEW clean \in BOOLEAN
  PROVE  LET k == [j EXCEPT !.clean = clean] IN
         /\ k \in Job
         /\ k.todo = j.todo /\ k.found = j.found /\ k.at = j.at
         /\ k.kind = j.kind /\ k.clean = clean /\ k.fault = j.fault
  BY DEF Job

LEMMA FoundKeeps ==
  ASSUME CapabilitiesTypeOK, NEW h \in Thread, job[h] # None, NEW f \in job[h].todo,
         NEW verdict \in Verdict, Found(h, f, verdict)
  PROVE  /\ job' \in [Thread -> Job \cup {None}]
         /\ \A g \in Thread \ {h} : job'[g] = job[g]
         /\ job'[h].kind = job[h].kind /\ job'[h].clean = job[h].clean
         /\ job'[h].fault = job[h].fault /\ job'[h].at \in {"ask", "store"}
         /\ job'[h].todo = job[h].todo \ {f} /\ (job'[h].at = "ask" => job'[h].todo # {})
         /\ \A x \in Feature : job'[h].found[x] = IF x = f THEN verdict ELSE job[h].found[x]
<1> DEFINE rest == job[h].todo \ {f}
           found == [job[h].found EXCEPT ![f] = verdict]
           place == IF rest = {} THEN "store" ELSE "ask"
           j == Filled(job[h], rest, found, place)
<1>1. job[h] \in Job /\ job \in [Thread -> Job \cup {None}]
  BY DEF CapabilitiesTypeOK
<1>2. f \in Feature /\ rest \in SUBSET Feature
  BY <1>1 DEF Job
<1>3. found \in [Feature -> Verdict \cup {None}]
  BY <1>1 DEF Job
<1>4. /\ j \in Job
      /\ j.todo = rest /\ j.found = found /\ j.at = place
      /\ j.kind = job[h].kind /\ j.clean = job[h].clean /\ j.fault = job[h].fault
  <2>1. job[h] \in Job
    BY <1>1
  <2>2. rest \in SUBSET Feature
    BY <1>2
  <2>3. place \in {"ask", "store"}
    OBVIOUS
  <2> HIDE DEF found, rest, place
  <2>4. QED
    BY <1>3, <2>1, <2>2, <2>3, FilledJob
<1>6. job' = [job EXCEPT ![h] = j]
  BY DEF Found, Becomes, Filled
<1>7. job'[h] = j /\ \A g \in Thread \ {h} : job'[g] = job[g]
  BY <1>1, <1>6
<1>8. job' \in [Thread -> Job \cup {None}]
  BY <1>1, <1>4, <1>6
<1>9. \A x \in Feature : found[x] = IF x = f THEN verdict ELSE job[h].found[x]
  BY <1>1 DEF Job
<1>10. place \in {"ask", "store"} /\ (place = "ask" => rest # {})
  OBVIOUS
<1>11. QED
  <2> HIDE DEF j, found, place
  <2>1. QED
    BY <1>4, <1>7, <1>8, <1>9, <1>10

\* A step that takes a verdict in keeps the invariant if the verdict is true.
LEMMA FindingKeeps ==
  ASSUME CapabilitiesInv, NEW h \in Thread, At(h, "ask") \/ At(h, "judge"), NEW f \in job[h].todo,
         NEW verdict \in Verdict, Found(h, f, verdict),
         UNCHANGED <<external, map, cooling, sweeps>>,
         verdict.state = "absent" /\ verdict.sure => f \notin Supported,
         job[h].kind = "sweep" /\ job[h].clean => job[h].fault = faulted
  PROVE  CapabilitiesInv'
<1> USE DEF external
<1>0. CapabilitiesTypeOK
  BY DEF CapabilitiesInv
<1>a. job[h] # None /\ job[h].at # "store"
  BY DEF At
<1>f. /\ job' \in [Thread -> Job \cup {None}]
      /\ \A g \in Thread \ {h} : job'[g] = job[g]
      /\ job'[h].kind = job[h].kind /\ job'[h].clean = job[h].clean
      /\ job'[h].fault = job[h].fault /\ job'[h].at \in {"ask", "store"}
      /\ job'[h].todo = job[h].todo \ {f} /\ (job'[h].at = "ask" => job'[h].todo # {})
      /\ \A x \in Feature : job'[h].found[x] = IF x = f THEN verdict ELSE job[h].found[x]
  BY <1>0, <1>a, FoundKeeps
<1>1. CapabilitiesTypeOK'
  BY <1>0, <1>f DEF CapabilitiesTypeOK
<1>2. Asking'
  BY <1>a, <1>f DEF CapabilitiesInv, Asking
<1>3. ReadingHolds'
  BY <1>f DEF CapabilitiesInv, ReadingHolds, At
<1>4. FoundIsTrue'
  <2>1. \A x \in Feature : job'[h].found[x] # None
          => (job'[h].found[x].state = "absent" /\ job'[h].found[x].sure => x \notin Supported)
    BY <1>a, <1>f DEF CapabilitiesInv, FoundIsTrue
  <2>2. \A g \in Thread \ {h}, x \in Feature : job'[g] # None /\ job'[g].found[x] # None
          => (job'[g].found[x].state = "absent" /\ job'[g].found[x].sure => x \notin Supported)
    BY <1>f DEF CapabilitiesInv, FoundIsTrue
  <2>3. QED
    BY <2>1, <2>2, Zenon DEF FoundIsTrue
<1>5. AbsentIsTrue'
  BY DEF CapabilitiesInv, AbsentIsTrue
<1>6. QED
  BY <1>1, <1>2, <1>3, <1>4, <1>5 DEF CapabilitiesInv

LEMMA CapabilitiesStays == CapabilitiesInv /\ [CapabilitiesNext]_capabilitiesVars => CapabilitiesInv'
<1> SUFFICES ASSUME CapabilitiesInv, [CapabilitiesNext]_capabilitiesVars
             PROVE  CapabilitiesInv'
  OBVIOUS
<1> USE DEF external
<1>0. /\ CapabilitiesTypeOK /\ Asking /\ ReadingHolds /\ FoundIsTrue /\ AbsentIsTrue
      /\ job \in [Thread -> Job \cup {None}]
  BY DEF CapabilitiesInv, CapabilitiesTypeOK
<1>1. CASE Moves
  <2> DEFINE still == faulted' = faulted
             moved(h) == [job[h] EXCEPT !.clean = @ /\ still]
  <2>1. /\ UNCHANGED <<map, cooling, sweeps>>
        /\ job' = [h \in Thread |-> IF job[h] = None THEN None ELSE moved(h)]
    BY <1>1, Zenon DEF Moves
  <2>b. up' \in BOOLEAN /\ faulted' \in BOOLEAN
    BY <1>0, <1>1, Zenon DEF Moves, CapabilitiesTypeOK
  <2>m. moves' \in 0..MaxMoves
    BY <1>0, <1>1, CapabilitiesAssumption DEF Moves, CapabilitiesTypeOK, CapabilitiesAssumption
  <2>2. \A h \in Thread : job[h] # None =>
          /\ moved(h) \in Job
          /\ moved(h).todo = job[h].todo /\ moved(h).found = job[h].found
          /\ moved(h).at = job[h].at /\ moved(h).kind = job[h].kind
          /\ moved(h).clean = (job[h].clean /\ still) /\ moved(h).fault = job[h].fault
    <3> SUFFICES ASSUME NEW h \in Thread, job[h] # None
                 PROVE  /\ moved(h) \in Job
                        /\ moved(h).todo = job[h].todo /\ moved(h).found = job[h].found
                        /\ moved(h).at = job[h].at /\ moved(h).kind = job[h].kind
                        /\ moved(h).clean = (job[h].clean /\ still)
                        /\ moved(h).fault = job[h].fault
      BY Zenon
    <3>1. job[h] \in Job
      BY <1>0
    <3>2. (job[h].clean /\ still) \in BOOLEAN
      BY Zenon
    <3>3. QED
      BY <3>1, <3>2, JobMoved, Zenon
  <2>4. job' \in [Thread -> Job \cup {None}]
    <3> HIDE DEF moved
    <3>1. QED
      BY <1>0, <2>1, <2>2
  <2>5. \A h \in Thread :
          /\ job[h] = None => job'[h] = None
          /\ job[h] # None =>
               /\ job'[h].kind = job[h].kind /\ job'[h].at = job[h].at
               /\ job'[h].todo = job[h].todo /\ job'[h].fault = job[h].fault
               /\ job'[h].found = job[h].found /\ (job'[h].clean => job[h].clean /\ still)
    <3> SUFFICES ASSUME NEW h \in Thread
                 PROVE  /\ job[h] = None => job'[h] = None
                        /\ job[h] # None =>
                             /\ job'[h].kind = job[h].kind /\ job'[h].at = job[h].at
                             /\ job'[h].todo = job[h].todo /\ job'[h].fault = job[h].fault
                             /\ job'[h].found = job[h].found
                             /\ (job'[h].clean => job[h].clean /\ still)
      OBVIOUS
    <3>1. job'[h] = IF job[h] = None THEN None ELSE moved(h)
      BY <2>1, Zenon
    <3>2. CASE job[h] = None
      BY <3>1, <3>2, Zenon
    <3>3. CASE job[h] # None
      <4> HIDE DEF moved
      <4>1. job'[h] = moved(h)
        BY <3>1, <3>3, Zenon
      <4>2. QED
        BY <3>3, <4>1, <2>2, Zenon
    <3>4. QED
      BY <3>2, <3>3, Zenon
  <2>6. CapabilitiesTypeOK'
    BY <1>0, <2>1, <2>b, <2>m, <2>4 DEF CapabilitiesTypeOK
  <2> HIDE DEF moved
  <2>7. Asking'
    BY <1>0, <2>5 DEF Asking
  <2>8. ReadingHolds'
    BY <1>0, <2>5 DEF ReadingHolds, At
  <2>9. FoundIsTrue'
    BY <1>0, <2>5 DEF FoundIsTrue
  <2>10. AbsentIsTrue'
    BY <1>0, <2>1 DEF AbsentIsTrue
  <2>11. QED
    BY <2>6, <2>7, <2>8, <2>9, <2>10 DEF CapabilitiesInv
<1>2. ASSUME NEW f \in Feature, CoolDown(f)
      PROVE  CapabilitiesInv'
  BY <1>0, <1>2 DEF CoolDown, CapabilitiesInv, CapabilitiesTypeOK, Asking, ReadingHolds,
     FoundIsTrue, AbsentIsTrue, At
\* The steps that give a thread another job, or the same at another place.
<1>3. ASSUME NEW h \in Thread, NEW j \in Job \cup {None}, Becomes(h, j),
             UNCHANGED <<external, map>>, cooling' \subseteq Feature, sweeps' \in 0..MaxSweeps,
             j # None =>
                 /\ j.todo # {}
                 /\ j.kind = "single" => \E f \in Feature : j.todo = {f}
                 /\ j.at \in {"gate", "judge"} => j.kind = "single"
                 /\ j.at = "ask" /\ j.kind = "sweep" /\ j.clean => j.fault = faulted
                 /\ j.at = "judge" /\ j.clean => \A f \in j.todo : f \in Supported => faulted
                 /\ \A f \in Feature : j.found[f] = None \/ (job[h] # None /\ j.found = job[h].found)
      PROVE  CapabilitiesInv'
  <2>1. job' \in [Thread -> Job \cup {None}] /\ job'[h] = j
        /\ \A g \in Thread \ {h} : job'[g] = job[g]
    BY <1>0, <1>3 DEF Becomes
  <2>2. CapabilitiesTypeOK'
    BY <1>0, <1>3, <2>1 DEF CapabilitiesTypeOK
  <2>3. Asking'
    BY <1>0, <1>3, <2>1 DEF Asking
  <2>4. ReadingHolds'
    BY <1>0, <1>3, <2>1 DEF ReadingHolds, At
  <2>5. FoundIsTrue'
    BY <1>0, <1>3, <2>1 DEF FoundIsTrue
  <2>6. AbsentIsTrue'
    BY <1>0, <1>3 DEF AbsentIsTrue
  <2>7. QED
    BY <2>2, <2>3, <2>4, <2>5, <2>6 DEF CapabilitiesInv
<1>4. ASSUME NEW h \in Thread, StartSweep(h)
      PROVE  CapabilitiesInv'
  <2> DEFINE j == NewJob("sweep", "readFault", Feature)
  <2>1. j \in Job /\ \A f \in Feature : j.found[f] = None
    BY NewJobType
  <2>2. Becomes(h, j) /\ UNCHANGED <<external, map>> /\ cooling' = cooling
    BY <1>4 DEF StartSweep
  <2>3. sweeps' \in 0..MaxSweeps /\ cooling' \subseteq Feature
    BY <1>0, <1>4, CapabilitiesAssumption
       DEF StartSweep, CapabilitiesTypeOK, CapabilitiesAssumption
  <2>4. j.kind = "sweep" /\ j.at = "readFault" /\ j.todo # {}
    BY CapabilitiesAssumption DEF NewJob, CapabilitiesAssumption
  <2> HIDE DEF j
  <2>5. QED
    BY <1>3, <2>1, <2>2, <2>3, <2>4
<1>5. ASSUME NEW h \in Thread, NEW f \in Feature, Has(h, f) \/ Require(h, f)
      PROVE  CapabilitiesInv'
  <2>1. PICK place \in {"gate", "ask"} : Becomes(h, NewJob("single", place, {f}))
    BY <1>5 DEF Has, Require
  <2> DEFINE j == NewJob("single", place, {f})
  <2>2. j \in Job /\ \A g \in Feature : j.found[g] = None
    BY NewJobType
  <2>3. UNCHANGED <<external, map>> /\ cooling' = cooling /\ sweeps' = sweeps
    BY <1>5 DEF Has, Require
  <2>4. sweeps' \in 0..MaxSweeps /\ cooling' \subseteq Feature
    BY <1>0, <2>3 DEF CapabilitiesTypeOK
  <2>5. j.kind = "single" /\ j.at = place /\ j.todo = {f}
    BY DEF NewJob
  <2>6. Becomes(h, j)
    BY <2>1
  <2> HIDE DEF j
  <2>7. QED
    BY <1>3, <2>2, <2>3, <2>4, <2>5, <2>6
<1>6. ASSUME NEW h \in Thread, Gate(h)
      PROVE  CapabilitiesInv'
  <2>1. job[h] # None /\ job[h] \in Job /\ job[h].at = "gate" /\ job[h].kind = "single"
    BY <1>0, <1>6 DEF Gate, At, Asking
  <2>2. PICK f \in Feature : job[h].todo = {f}
    BY <1>0, <2>1 DEF Asking
  <2>3. \/ Becomes(h, None) /\ cooling' = cooling
        \/ Becomes(h, [job[h] EXCEPT !.at = "ask"]) /\ cooling' = cooling \cup {f}
    BY <1>6, <2>2 DEF Gate
  <2>4. /\ UNCHANGED <<external, map>> /\ cooling' \subseteq Feature /\ sweeps' \in 0..MaxSweeps
    BY <1>0, <1>6, <2>3 DEF Gate, CapabilitiesTypeOK
  <2>5. CASE Becomes(h, None)
    BY <1>3, <2>4, <2>5
  <2>6. CASE Becomes(h, [job[h] EXCEPT !.at = "ask"])
    <3> DEFINE j == [job[h] EXCEPT !.at = "ask"]
    <3>1. /\ j \in Job /\ j.kind = "single" /\ j.at = "ask" /\ j.todo = {f}
          /\ j.found = job[h].found
      BY <2>1, <2>2 DEF Job
    <3>2. Becomes(h, j)
      BY <2>6
    <3> HIDE DEF j
    <3>3. QED
      BY <1>3, <2>1, <2>4, <3>1, <3>2
  <2>7. QED
    BY <2>3, <2>5, <2>6
<1>7. ASSUME NEW h \in Thread, ReadFault(h)
      PROVE  CapabilitiesInv'
  <2> DEFINE read == FaultRead
             j == [job[h] EXCEPT !.at = "ask", !.fault = read, !.clean = up]
  <2>1. job[h] # None /\ job[h] \in Job /\ job[h].at = "readFault"
    BY <1>0, <1>7 DEF ReadFault, At
  <2>2. up \in BOOLEAN /\ faulted \in BOOLEAN /\ read \in BOOLEAN
    BY <1>0 DEF CapabilitiesTypeOK, FaultRead
  <2>3. (up => read = faulted)
    BY <2>2, Zenon DEF FaultRead
  <2> HIDE DEF read
  <2>4. /\ j.kind = job[h].kind /\ j.at = "ask" /\ j.todo = job[h].todo
        /\ j.found = job[h].found /\ j.fault = read /\ j.clean = up
    BY <2>1 DEF Job
  <2>5. j \in Job
    <3>1. [job[h] EXCEPT !.at = "ask"] \in Job
      BY <2>1 DEF Job
    <3>2. [job[h] EXCEPT !.at = "ask", !.fault = read] \in Job
      BY <2>2, <3>1 DEF Job
    <3>3. QED
      BY <2>2, <3>2 DEF Job
  <2>6. Becomes(h, j) /\ UNCHANGED <<external, map>> /\ cooling' = cooling /\ sweeps' = sweeps
    BY <1>7 DEF ReadFault, read
  <2>7. cooling' \subseteq Feature /\ sweeps' \in 0..MaxSweeps
    BY <1>0, <2>6 DEF CapabilitiesTypeOK
  <2>8. j.todo # {} /\ (j.kind = "single" => \E f \in Feature : j.todo = {f})
    BY <1>0, <2>1, <2>4 DEF Asking
  <2> HIDE DEF j
  <2>9. j.clean => j.fault = faulted
    BY <2>3, <2>4, Zenon
  <2>10. QED
    BY <1>3, <2>1, <2>4, <2>5, <2>6, <2>7, <2>8, <2>9
<1>8. ASSUME NEW h \in Thread, Ask(h)
      PROVE  CapabilitiesInv'
  <2> DEFINE f == CHOOSE x \in job[h].todo : TRUE
  <2>1. /\ job[h] # None /\ job[h] \in Job /\ job[h].at = "ask"
        /\ job[h].kind \in {"sweep", "single"} /\ job[h].clean \in BOOLEAN
        /\ job[h].fault \in BOOLEAN
    BY <1>0, <1>8 DEF Ask, At, Job
  <2>2. /\ UNCHANGED <<external, map>> /\ cooling' = cooling /\ sweeps' = sweeps
        /\ cooling' \subseteq Feature /\ sweeps' \in 0..MaxSweeps
    BY <1>0, <1>8 DEF Ask, CapabilitiesTypeOK
  <2>3. PICK answer \in Answers(f) :
           IF answer = "noReply" THEN Becomes(h, None)
           ELSE IF job[h].kind # "sweep" /\ answer = "code"
           THEN Becomes(h, [job[h] EXCEPT !.at = "judge"])
           ELSE Found(h, f, Judged(answer, job[h].fault, job[h].clean))
    BY <1>8, Zenon DEF Ask
  <2>4. /\ answer \in {"noMethod", "code", "value", "lost", "odd", "noReply"}
        /\ answer = "noMethod" => f \notin Supported
        /\ answer = "code" => f \notin Supported \/ faulted
    BY <2>3 DEF Answers
  <2>5. job[h].kind = "sweep" /\ job[h].clean => job[h].fault = faulted
    BY <1>0, <2>1 DEF ReadingHolds, At
  <2>6. job[h].todo # {} /\ f \in job[h].todo
    BY <1>0, <2>1 DEF Asking
  <2> HIDE DEF f
  <2>7. CASE answer # "noReply" /\ job[h].kind # "sweep" /\ answer = "code"
    <3> DEFINE j == [job[h] EXCEPT !.at = "judge"]
    <3>1. /\ j \in Job /\ j.kind = "single" /\ j.at = "judge" /\ j.todo = job[h].todo
          /\ j.found = job[h].found /\ j.todo # {}
      BY <2>1, <2>6, <2>7 DEF Job
    <3>2. Becomes(h, j)
      BY <2>3, <2>7
    <3>3. PICK g \in Feature : job[h].todo = {g}
      BY <1>0, <2>1, <2>7 DEF Asking
    <3>4. \A x \in job[h].todo : x \in Supported => faulted
      BY <2>4, <2>6, <2>7, <3>3
    <3> HIDE DEF j
    <3>5. QED
      BY <1>3, <2>1, <2>2, <3>1, <3>2, <3>3, <3>4
  <2>8. CASE answer # "noReply" /\ ~(job[h].kind # "sweep" /\ answer = "code")
    <3> DEFINE verdict == Judged(answer, job[h].fault, job[h].clean)
    <3>1. verdict \in Verdict
      <4>1. answer \in {"noMethod", "code", "value", "lost", "odd"}
        BY <2>4, <2>8
      <4>2. QED
        BY <2>1, <4>1, JudgedType
    <3>2. Found(h, f, verdict)
      BY <2>3, <2>8, Zenon
    <3>3. verdict.sure => f \notin Supported
      <4> SUFFICES ASSUME verdict.sure
                   PROVE  f \notin Supported
        OBVIOUS
      <4>1. job[h].clean /\ (answer = "noMethod" \/ (answer = "code" /\ ~job[h].fault))
        BY JudgedSure
      <4>2. CASE answer = "noMethod"
        BY <2>4, <4>2
      <4>3. CASE answer = "code" /\ ~job[h].fault
        BY <2>1, <2>4, <2>5, <2>8, <4>1, <4>3, Zenon
      <4>4. QED
        BY <4>1, <4>2, <4>3
    <3> HIDE DEF verdict
    <3>4. At(h, "ask")
      BY <2>1 DEF At
    <3>5. QED
      BY <2>2, <2>5, <2>6, <3>1, <3>2, <3>3, <3>4, FindingKeeps
  <2>9. CASE answer = "noReply"
    <3>1. Becomes(h, None)
      BY <2>3, <2>9
    <3>2. QED
      BY <1>3, <2>2, <3>1
  <2>10. QED
    BY <2>7, <2>8, <2>9
<1>9. ASSUME NEW h \in Thread, Judge(h)
      PROVE  CapabilitiesInv'
  <2>1. /\ job[h] # None /\ job[h] \in Job /\ job[h].at = "judge" /\ job[h].kind = "single"
        /\ At(h, "judge")
    BY <1>0, <1>9 DEF Judge, At, Asking
  <2>2. PICK f \in Feature : job[h].todo = {f}
    BY <1>0, <2>1 DEF Asking
  <2> DEFINE read == FaultRead
             still == job[h].clean /\ up
             verdict == Judged("code", read, still)
  <2>3. Found(h, f, verdict) /\ UNCHANGED <<external, map, cooling, sweeps>>
    BY <1>9, <2>2 DEF Judge
  <2>4. read \in BOOLEAN /\ still \in BOOLEAN
    BY Zenon DEF FaultRead
  <2>r. (still => job[h].clean /\ up) /\ (up /\ faulted => read)
    BY Zenon DEF FaultRead
  <2> HIDE DEF read, still
  <2>5. verdict \in Verdict
    BY <2>4, JudgedType
  <2>6. verdict.sure => f \notin Supported
    <3> SUFFICES ASSUME verdict.sure
                 PROVE  f \notin Supported
      OBVIOUS
    <3>1. still /\ ~read
      BY JudgedSure
    <3>2. f \in Supported => faulted
      BY <1>0, <2>1, <2>2, <2>r, <3>1 DEF ReadingHolds
    <3>3. QED
      BY <2>r, <3>1, <3>2, Zenon
  <2>7. f \in job[h].todo /\ job[h].kind # "sweep"
    BY <2>1, <2>2
  <2> HIDE DEF verdict
  <2>8. QED
    BY <2>1, <2>3, <2>5, <2>6, <2>7, FindingKeeps
<1>10. ASSUME NEW h \in Thread, Store(h)
       PROVE  CapabilitiesInv'
  <2>1. /\ job[h] # None /\ job[h] \in Job /\ At(h, "store")
        /\ job[h].found \in [Feature -> Verdict \cup {None}]
    BY <1>0, <1>10 DEF Store, At, Job
  <2>2. map' = [f \in Feature |-> IF job[h].found[f] = None THEN map[f] ELSE job[h].found[f]]
    BY <1>10, Zenon DEF Store
  <2>3. job' = [job EXCEPT ![h] = None] /\ UNCHANGED <<external, cooling, sweeps>>
    BY <1>10 DEF Store, Becomes
  <2>4. job'[h] = None /\ \A g \in Thread \ {h} : job'[g] = job[g]
    BY <1>0, <2>3
  <2>5. CapabilitiesTypeOK'
    <3>1. map \in [Feature -> Verdict]
      BY <1>0 DEF CapabilitiesTypeOK
    <3>2. map' \in [Feature -> Verdict]
      BY <2>1, <2>2, <3>1
    <3>3. QED
      BY <1>0, <2>3, <3>2 DEF CapabilitiesTypeOK
  <2>6. Asking'
    BY <1>0, <2>4 DEF Asking
  <2>7. ReadingHolds'
    BY <1>0, <2>3, <2>4 DEF ReadingHolds, At
  <2>8. FoundIsTrue'
    BY <1>0, <2>4 DEF FoundIsTrue
  <2>9. AbsentIsTrue'
    BY <1>0, <2>1, <2>2 DEF AbsentIsTrue, FoundIsTrue
  <2>10. QED
    BY <2>5, <2>6, <2>7, <2>8, <2>9 DEF CapabilitiesInv
<1>11. CASE UNCHANGED capabilitiesVars
  BY <1>0, <1>11 DEF capabilitiesVars, CapabilitiesInv, CapabilitiesTypeOK, Asking, ReadingHolds,
     FoundIsTrue, AbsentIsTrue, At
<1>12. QED
  BY <1>1, <1>2, <1>4, <1>5, <1>6, <1>7, <1>8, <1>9, <1>10, <1>11 DEF CapabilitiesNext, GoOn

THEOREM CapabilitiesInvariant == CapabilitiesSpec => []CapabilitiesInv
<1>1. QED
  BY CapabilitiesStart, CapabilitiesStays, PTL DEF CapabilitiesSpec

\* What the gateway takes for a fact about the firmware is one, for any number
\* of threads, features and sweeps.
THEOREM AbsenceIsTrue == CapabilitiesSpec => []AbsentIsTrue
<1>1. CapabilitiesInv => AbsentIsTrue
  BY DEF CapabilitiesInv
<1>2. QED
  BY <1>1, CapabilitiesInvariant, PTL
=============================================================================
