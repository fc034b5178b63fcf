------------------------------- MODULE Client -------------------------------
(***************************************************************************)
(* The Python client's lease (src/fws/client.py control): a block that     *)
(* acquires, a thread that renews at a third of the lifetime, a goodbye on *)
(* the way out, and the alarm that a failed renewal raises on the next     *)
(* command. The gateway's side is what control.py does for one client (see *)
(* ControlLock): a lease is renewed while it is in the table, and lapses   *)
(* when the reaper finds that it has run out.                              *)
(*                                                                         *)
(* Time is discrete. A thread that is due wakes before the next tick, and  *)
(* no request outlasts its timeout; nothing else is prompt.                *)
(***************************************************************************)
EXTENDS Integers

CONSTANTS
    Ttl,            \* the lifetime that control() is asked for
    MinTtl, MaxTtl, \* what the gateway clamps it to
    Default,        \* what the heartbeat route takes when it is not told
    Timeout,        \* of a request
    JoinTimeout,    \* how long the way out waits for the thread
    MaxBlocks,      \* bound: how often control() is entered
    MaxTime         \* bound: the clock

ASSUME ClientAssumption ==
    /\ \A n \in {Ttl, MinTtl, MaxTtl, Default, Timeout, MaxBlocks} : n \in Nat \ {0}
    /\ JoinTimeout \in Nat /\ MaxTime \in Nat
    /\ MinTtl <= MaxTtl

VARIABLES
    now,
    expires,  \* the gateway's lease of each block: when it runs out, or Gone
    token,    \* FwsClient.token: the block it is from, 0 for none
    alarm,    \* _lease_error is set
    stopping, \* _hb_stop is set
    main,     \* where the caller's thread is
    call,     \* the command under way: its requests left, and when the last was sent
    joinBy,   \* until when it waits
    beat,     \* block -> its heartbeat thread
    block,    \* how many blocks were entered
    broken,   \* history: an administrator broke this block's lease
    outlived, \* history: a thread of a block before it goes on
    missed,   \* history: a beat of this block has failed
    bare      \* history: the first, or a later, request of a command went out with no lease

vars == <<now, expires, token, alarm, stopping, main, joinBy, beat, block,
          broken, outlived, missed, call, bare>>
calls == <<call, bare>>

Gone == -1
Block == 1..MaxBlocks
Time == 0..MaxTime

\* since: when it last began to wait, or sent; with: the token it sent.
Beat == [at : {"none", "wait", "post", "ended"}, since : Time, with : 0..MaxBlocks]

ClientTypeOK ==
    /\ now \in Time
    /\ expires \in [Block -> {Gone} \cup 0..(MaxTime + MaxTtl)]
    /\ token \in 0..MaxBlocks /\ block \in 0..MaxBlocks
    /\ \A flag \in {alarm, stopping, broken, outlived, missed} : flag \in BOOLEAN
    /\ main \in {"out", "in", "calling", "join", "goodbye"}
    /\ call \in [left : 0..2, since : Time] /\ bare \subseteq {"first", "later"}
    /\ joinBy \in 0..(MaxTime + JoinTimeout)
    /\ beat \in [Block -> Beat]

Clamp(ttl) == IF ttl < MinTtl THEN MinTtl ELSE IF ttl > MaxTtl THEN MaxTtl ELSE ttl

\* max(1, ttl / 3), from the lifetime that was asked for.
Period == IF Ttl < 3 THEN 1 ELSE Ttl \div 3

Init ==
    /\ now = 0
    /\ expires = [b \in Block |-> Gone]
    /\ token = 0 /\ alarm = FALSE /\ stopping = FALSE
    /\ main = "out" /\ joinBy = 0
    /\ beat = [b \in Block |-> [at |-> "none", since |-> 0, with |-> 0]]
    /\ block = 0
    /\ broken = FALSE /\ outlived = FALSE /\ missed = FALSE
    /\ call = [left |-> 0, since |-> 0] /\ bare = {}

Due(b) == beat[b].at = "wait" /\ (stopping \/ now >= beat[b].since + Period)

Tick ==
    /\ now < MaxTime
    /\ \A b \in Block : ~Due(b) /\ (beat[b].at = "post" => now < beat[b].since + Timeout)
    /\ ~(main = "join" /\ now >= joinBy) /\ ~(main = "calling" /\ now >= call.since + Timeout)
    /\ now' = now + 1
    /\ UNCHANGED <<expires, token, alarm, stopping, main, joinBy, beat, block,
                   broken, outlived, missed, calls>>

-----------------------------------------------------------------------------
(* control().                                                              *)

Running(b) == beat[b].at \in {"wait", "post"}

Entered(b) ==
    /\ main = "out" /\ block < MaxBlocks /\ b = block + 1
    /\ block' = b
    /\ expires' = [c \in Block |-> IF c = b THEN now + Clamp(Ttl) ELSE Gone]
    /\ token' = b
    /\ main' = "in"
    /\ beat' = [beat EXCEPT ![b] = [at |-> "wait", since |-> now, with |-> 0]]
    /\ broken' = FALSE /\ missed' = FALSE
    /\ outlived' = \E c \in Block : Running(c)
    /\ UNCHANGED <<now, joinBy, calls>>

\* Mutant: the alarm of the block before is left on.
EnterAlarmed(b) == Entered(b) /\ stopping' = FALSE /\ UNCHANGED alarm

\* The same client takes its lease anew: an old one that was not released is
\* replaced. The stop event is cleared for whoever waits on it.
Enter(b) == Entered(b) /\ alarm' = FALSE /\ stopping' = FALSE

Leave ==
    /\ main = "in"
    /\ stopping' = TRUE /\ main' = "join" /\ joinBy' = now + JoinTimeout
    /\ UNCHANGED <<now, expires, token, alarm, beat, block, broken, outlived, missed, calls>>

Joined ==
    /\ main = "join" /\ (~Running(block) \/ now >= joinBy)
    /\ main' = "goodbye"
    /\ UNCHANGED <<now, expires, token, alarm, stopping, joinBy, beat, block,
                   broken, outlived, missed, calls>>

\* The lease is released, or the release fails and nothing is said of it; but an answer that does
\* not come in time is no FwsError, and leaves the token where it is.
Goodbye ==
    /\ main = "goodbye"
    /\ \/ expires' = [expires EXCEPT ![token] = Gone]
       \/ expires' = expires
    /\ token' \in {0, token} /\ main' = "out"
    /\ UNCHANGED <<now, alarm, stopping, joinBy, beat, block, broken, outlived, missed, calls>>

-----------------------------------------------------------------------------
(* Commands. Each looks for the alarm once, and makes its request; those   *)
(* of run_program() are two. stop() does not look.                         *)

Live(t) == t # 0 /\ expires[t] # Gone

Bare == ~broken /\ ~(Live(token) /\ expires[token] > now)

Command(n) ==
    /\ main = "in" /\ ~alarm
    /\ main' = "calling" /\ call' = [left |-> n, since |-> now]
    /\ bare' = IF Bare THEN bare \cup {"first"} ELSE bare
    /\ UNCHANGED <<now, expires, token, alarm, stopping, joinBy, beat, block, broken, outlived, missed>>

\* The request is answered, or fails and the command with it.
Answered ==
    /\ main = "calling"
    /\ \/ main' = "in" /\ call' = [call EXCEPT !.left = 0] /\ UNCHANGED bare
       \/ call.left = 2 /\ call' = [left |-> 1, since |-> now] /\ UNCHANGED main
          /\ bare' = IF Bare THEN bare \cup {"later"} ELSE bare
    /\ UNCHANGED <<now, expires, token, alarm, stopping, joinBy, beat, block, broken, outlived, missed>>

-----------------------------------------------------------------------------
(* beat().                                                                 *)

Wake(b) ==
    /\ Due(b)
    /\ beat' = [beat EXCEPT ![b] =
                  IF stopping THEN [@ EXCEPT !.at = "ended"]
                  ELSE [at |-> "post", since |-> now, with |-> token]]
    /\ UNCHANGED <<now, expires, token, alarm, stopping, main, joinBy, block,
                   broken, outlived, missed, calls>>

\* Mutant: the heartbeat leaves the lifetime to the route's default.
RenewedDefault(t) == [expires EXCEPT ![t] = now + Clamp(Default)]

Renewed(t) == [expires EXCEPT ![t] = now + Clamp(Ttl)]

Renews(b) ==
    /\ beat[b].at = "post" /\ Live(beat[b].with)
    /\ expires' = Renewed(beat[b].with)
    /\ beat' = [beat EXCEPT ![b] = [at |-> "wait", since |-> now, with |-> 0]]
    /\ UNCHANGED <<now, token, alarm, stopping, main, joinBy, block,
                   broken, outlived, missed, calls>>

\* 404 for a lease that is gone, a refusal, or no answer in time, with or
\* without a renewal: the thread notes it and ends.
Fails(b) ==
    /\ beat[b].at = "post"
    /\ \/ expires' = expires
       \/ Live(beat[b].with) /\ expires' = Renewed(beat[b].with)
    /\ alarm' = TRUE
    /\ beat' = [beat EXCEPT ![b].at = "ended"]
    /\ missed' = (missed \/ b = block)
    /\ UNCHANGED <<now, token, stopping, main, joinBy, block, broken, outlived, calls>>

-----------------------------------------------------------------------------
(* The gateway, by itself.                                                 *)

Lapse(t) ==
    /\ Live(t) /\ expires[t] <= now
    /\ expires' = [expires EXCEPT ![t] = Gone]
    /\ UNCHANGED <<now, token, alarm, stopping, main, joinBy, beat, block,
                   broken, outlived, missed, calls>>

Break(t) ==
    /\ Live(t)
    /\ expires' = [expires EXCEPT ![t] = Gone]
    /\ broken' = TRUE
    /\ UNCHANGED <<now, token, alarm, stopping, main, joinBy, beat, block, outlived, missed, calls>>

Next ==
    \/ Tick \/ Leave \/ Joined \/ Goodbye \/ Answered
    \/ \E n \in 1..2 : Command(n)
    \/ \E b \in Block : Enter(b) \/ Wake(b) \/ Renews(b) \/ Fails(b) \/ Lapse(b) \/ Break(b)

Spec == Init /\ [][Next]_vars

-----------------------------------------------------------------------------
(* Properties.                                                             *)

\* A command goes out under the client's lease, unless an administrator broke it: the alarm is raised
\* before a lease that is not renewed runs out (client.py: "silence there would be the worst possible
\* failure"). It takes a third of the lifetime and a timeout to be less than the whole.
CommandsAreHeld == "first" \notin bare

\* The same of the second request of run_program(), which starts the program: the lease may run out
\* while the first one is waited for, and nothing looks for the alarm in between.
RunIsHeld == bare = {}

\* The alarm is about this block: a renewal of it has failed, unless a thread
\* outlived the join of the block before (client.py control, _check_lease).
AlarmIsOurs == main \in {"in", "calling"} /\ alarm => missed \/ outlived

\* The comment over the heartbeat's period: two failures in a row leave
\* headroom. The thread ends at the first.
FailuresLeaveHeadroom == main = "in" /\ missed => Running(block)

\* wait_until_idle(): a move begins at begin and ends at end, in units of the polls; the queue is asked
\* from the grace on, until the timeout, and is idle whenever the arm does not move.
WaitUntilIdle(begin, end, grace, timeout) ==
    {t \in grace..timeout : (t < begin \/ t >= end) /\ t < timeout}

\* When it says that the arm is idle, the move is over: the grace has outlasted the start latency.
ASSUME IdleIsAfterTheMove ==
    \A begin, grace \in 0..3, length \in 1..4, timeout \in 0..8 :
        begin <= grace => \A t \in WaitUntilIdle(begin, begin + length, grace, timeout) : t >= begin + length

=============================================================================
