--------------------------- MODULE Programs_proofs ---------------------------
(***************************************************************************)
(* Proofs about Programs, for any requests, names and contents and any     *)
(* number of threads. The routes are annotated step by step with what the  *)
(* request may rely on before it takes the step; each assertion speaks     *)
(* only of what nobody else has changed since the request looked, so that  *)
(* no other request's step can make it false.                              *)
(***************************************************************************)
EXTENDS Programs, SequenceTheorems, TLAPS

\* Nobody has changed any of these since h looked.
Knows(h, aspects) == unseen[h] \cap aspects = {}

\* What a request may rely on.
Idle(h) == Knows(h, {"engine"}) => engine = "stopped"
Spared(h) == Knows(h, {"loaded"}) => loaded # req[h].name
Named(h) == Knows(h, {"loaded"}) => loaded = req[h].name
PortOpen(h) == Knows(h, {"up"}) => upSlot = req[h].name
Offered(h) == Knows(h, {"files", "down"}) => downSlot = file[req[h].name] /\ downSlot # None
HasRead(h) == Knows(h, {"files", "down"}) => got[h] = file[req[h].name] /\ got[h] # None
Matched(h) == req[h].match # None /\ Knows(h, {"files", "down"}) => file[req[h].name] = req[h].match
Stored(h) == Knows(h, {"files", "up"}) => file[req[h].name] = req[h].body
Compiled(h) == Knows(h, {"files", "up"}) /\ req[h].name \in Lua => req[h].body \in Builds
Cleared(h) == Knows(h, {"files", "loaded", "down"}) => loaded # None /\ file[loaded] \in Safe
Gone(h) == Knows(h, {"files"}) => file[req[h].name] = None

\* The routes, annotated: what is left of them, and what holds then.
Putting(h) ==
    /\ req[h].op = "putProgram"
    /\ \/ /\ "engine" \in unseen[h]
          /\ \/ todo[h] = <<"absent", "seeEngine", "openUp", "send", "commit", "record">>
             \/ todo[h] = <<"seeEngine", "openUp", "send", "commit", "record">>
       \/ todo[h] = <<"openUp", "send", "commit", "record">> /\ Idle(h)
       \/ todo[h] = <<"send", "commit", "record">> /\ Idle(h) /\ PortOpen(h)
       \/ todo[h] = <<"commit", "record">> /\ Stored(h)
       \/ todo[h] = <<"record">> /\ Stored(h) /\ Compiled(h)

\* What an edit has yet to do once its bytes have arrived.
ToCommit == {<<"commit", "openDown", "fetch", "same", "record">>, <<"commit", "record">>}
Committed == {<<"openDown", "fetch", "same", "record">>, <<"record">>}
ReadingBack == {<<"fetch", "same", "record">>, <<"same", "record">>}

Editing(h) ==
    /\ req[h].op = "putFile"
    /\ \E c \in ToCommit \cup Committed :
         /\ req[h].name \in Lua => c \in ToCommit
         /\ \/ todo[h] = <<"openDown", "fetch", "match", "openUp", "send">> \o c
            \/ todo[h] = <<"fetch", "match", "openUp", "send">> \o c /\ Offered(h)
            \/ todo[h] = <<"match", "openUp", "send">> \o c /\ HasRead(h)
            \/ todo[h] = <<"absent", "openUp", "send">> \o c /\ req[h].match = None
            \/ todo[h] = <<"openUp", "send">> \o c /\ Matched(h)
            \/ todo[h] = <<"send">> \o c /\ Matched(h) /\ PortOpen(h)

Edited(h) ==
    /\ req[h].op = "putFile"
    /\ Stored(h)
    /\ \/ todo[h] \in ToCommit
       \/ todo[h] \in Committed \cup ReadingBack /\ Compiled(h)

Reading(h) ==
    \/ /\ req[h].op \in {"getProgram", "validate"}
       /\ todo[h] \in {<<"openDown", "fetch">>, <<"fetch">>}
    \/ /\ req[h].op = "getFile"
       /\ \/ todo[h] = <<"openDown", "fetch", "note">>
          \/ todo[h] = <<"fetch", "note">> /\ Offered(h)
          \/ todo[h] = <<"note">> /\ HasRead(h)

Deleting(h) ==
    /\ req[h].op = "delete"
    /\ \/ todo[h] = <<"guardLoaded", "erase", "forget">> /\ "loaded" \in unseen[h]
       \/ todo[h] = <<"erase", "forget">> /\ Spared(h)
       \/ todo[h] = <<"forget">> /\ Gone(h)

Running(h) ==
    /\ req[h].op = "run"
    /\ \/ todo[h] = <<"clear", "findLoaded", "openDown", "fetch", "fit", "start">>
       \/ todo[h] = <<"findLoaded", "openDown", "fetch", "fit", "start">>
       \/ /\ req[h].name \in Name /\ Named(h)
          /\ \/ todo[h] = <<"openDown", "fetch", "fit", "start">>
             \/ todo[h] = <<"fetch", "fit", "start">> /\ Offered(h)
             \/ todo[h] = <<"fit", "start">> /\ HasRead(h)
       \/ todo[h] = <<"start">> /\ Cleared(h)

RunningBlind(h) ==
    /\ req[h].op = "run" /\ "skip" \in req[h].flags
    /\ todo[h] \in {<<"clear", "findLoaded", "start">>, <<"findLoaded", "start">>, <<"start">>}

\* The rest rely on nothing.
Others(h) ==
    \/ /\ req[h].op \in {"load", "select"}
       /\ todo[h] \in {<<"load">>, <<"load", "clear", "start">>, <<"clear", "start">>, <<"start">>}
    \/ /\ req[h].op = "restore"
       /\ todo[h] \in {<<"openUp", "send", "openDown", "fetch", "same">>,
                       <<"send", "openDown", "fetch", "same">>, <<"openDown", "fetch", "same">>,
                       <<"fetch", "same">>, <<"same">>}
    \/ req[h].op = "switch" /\ todo[h] = <<"switch">>

Outline(h) ==
    \/ Putting(h) \/ Editing(h) \/ Edited(h) \/ Reading(h) \/ Deleting(h)
    \/ Running(h) \/ RunningBlind(h) \/ Others(h)

ProgramsIInv ==
    /\ ProgramsTypeOK
    /\ \A h \in Handler : req[h] # None => Sendable(req[h]) /\ Outline(h)

-----------------------------------------------------------------------------
(* Sequences of steps.                                                     *)

LEMMA ConcatIsSeq ==
  ASSUME NEW s \in Seq(Step), NEW t \in Seq(Step)
  PROVE  s \o t \in Seq(Step)
  BY ConcatProperties

LEMMA ConcatAssociates ==
  ASSUME NEW s \in Seq(Step), NEW t \in Seq(Step), NEW u \in Seq(Step)
  PROVE  (s \o t) \o u = s \o (t \o u)
  BY ConcatAssociative

LEMMA NothingInFront ==
  ASSUME NEW s \in Seq(Step)
  PROVE  <<>> \o s = s
  BY ConcatEmptySeq

\* What comes first of two sequences, one after the other, and what is left then.
LEMMA Prefix ==
  ASSUME NEW p \in Seq(Step), p # <<>>, NEW s \in Seq(Step)
  PROVE  /\ Head(p \o s) = Head(p) /\ Tail(p \o s) = Tail(p) \o s
         /\ p \o s # <<>> /\ p \o s \in Seq(Step)
  BY HeadTailProperties, ConcatProperties

\* Two sequences that begin with the same step and go on alike are the same.
LEMMA SameHeadAndTail ==
  ASSUME NEW s \in Seq(Step), s # <<>>, NEW t \in Seq(Step), t # <<>>,
         Head(s) = Head(t), Tail(s) = Tail(t)
  PROVE  s = t
<1>1. Len(s) \in Nat \ {0} /\ Len(t) \in Nat \ {0}
  OBVIOUS
<1>2. Len(s) = Len(t)
  <2>1. Len(Tail(s)) = Len(s) - 1 /\ Len(Tail(t)) = Len(t) - 1
    BY HeadTailProperties
  <2>2. Len(s) - 1 = Len(t) - 1
    BY <2>1, Zenon
  <2>3. QED
    BY <1>1, <2>2
<1>3. ASSUME NEW i \in 1..Len(s)
      PROVE  s[i] = t[i]
  <2>1. CASE i = 1
    BY <1>1, <2>1, HeadTailProperties
  <2>2. CASE i # 1
    <3>1. i - 1 \in 1..Len(Tail(s)) /\ i - 1 \in 1..Len(Tail(t)) /\ (i - 1) + 1 = i
      BY <1>1, <1>2, <1>3, <2>2, HeadTailProperties
    <3>2. \A j \in 1..Len(Tail(s)) : Tail(s)[j] = s[j + 1]
      BY HeadTailProperties
    <3>3. \A j \in 1..Len(Tail(t)) : Tail(t)[j] = t[j + 1]
      BY HeadTailProperties
    <3>4. Tail(s)[i - 1] = s[i] /\ Tail(t)[i - 1] = t[i]
      BY <3>1, <3>2, <3>3
    <3>5. QED
      BY <3>4
  <2>3. QED
    BY <2>1, <2>2
<1>4. QED
  BY <1>2, <1>3, SeqEqual

\* A step in front of a sequence.
LEMMA InFront ==
  ASSUME NEW a \in Step, NEW s \in Seq(Step), NEW u \in Seq(Step), u # <<>>,
         Head(u) = a, Tail(u) = s
  PROVE  <<a>> \o s = u
<1>1. <<a>> \in Seq(Step)
  OBVIOUS
<1>2. <<a>> \o s \in Seq(Step)
  BY <1>1, ConcatIsSeq
<1>3. <<a>> \o s # <<>> /\ Head(<<a>> \o s) = a /\ Tail(<<a>> \o s) = s
  BY SMTT(30)
<1>4. QED
  BY <1>2, <1>3, SameHeadAndTail, Zenon

\* Two steps in front of a sequence.
LEMMA TwoInFront ==
  ASSUME NEW a \in Step, NEW b \in Step, NEW s \in Seq(Step)
  PROVE  <<a, b>> \o s = <<a>> \o (<<b>> \o s)
<1>1. <<a, b>> \in Seq(Step) /\ <<a>> \in Seq(Step) /\ <<b>> \in Seq(Step)
  OBVIOUS
<1>2. <<a, b>> \o s \in Seq(Step) /\ <<b>> \o s \in Seq(Step)
  BY <1>1, ConcatIsSeq
<1>3. <<a, b>> \o s # <<>> /\ Head(<<a, b>> \o s) = a /\ Tail(<<a, b>> \o s) = <<b>> \o s
  OBVIOUS
<1>4. QED
  BY <1>2, <1>3, InFront, Zenon

LEMMA TwoSpelled ==
  ASSUME NEW a \in Step, NEW b \in Step, NEW s \in Seq(Step), NEW u \in Seq(Step),
         u # <<>>, Head(u) = a, Tail(u) # <<>>, Head(Tail(u)) = b, Tail(Tail(u)) = s
  PROVE  <<a, b>> \o s = u
<1>1. Tail(u) \in Seq(Step)
  BY SMTT(30), HeadTailProperties
<1>2. <<b>> \o s = Tail(u)
  BY <1>1, InFront, Zenon
<1>3. <<a>> \o Tail(u) = u
  BY <1>1, InFront, Zenon
<1>4. <<a, b>> \o s = <<a>> \o (<<b>> \o s)
  BY TwoInFront, Zenon
<1>5. QED
  BY <1>2, <1>3, <1>4, Zenon

-----------------------------------------------------------------------------
(* The scripts of the routes, written out.                                 *)

LEMMA Spelled ==
  /\ Upload \o <<"commit", "record">> = <<"openUp", "send", "commit", "record">>
  /\ <<"seeEngine">> \o <<"openUp", "send", "commit", "record">>
        = <<"seeEngine", "openUp", "send", "commit", "record">>
  /\ <<"absent">> \o <<"seeEngine", "openUp", "send", "commit", "record">>
        = <<"absent", "seeEngine", "openUp", "send", "commit", "record">>
  /\ <<"absent">> \o Upload = <<"absent", "openUp", "send">>
  /\ <<"match">> \o Upload = <<"match", "openUp", "send">>
  /\ Download \o <<"match", "openUp", "send">> = <<"openDown", "fetch", "match", "openUp", "send">>
  /\ <<"same">> \o <<"record">> = <<"same", "record">>
  /\ Download \o <<"same", "record">> = <<"openDown", "fetch", "same", "record">>
  /\ <<"commit">> \o <<"openDown", "fetch", "same", "record">>
        = <<"commit", "openDown", "fetch", "same", "record">>
  /\ <<"commit">> \o <<"record">> = <<"commit", "record">>
  /\ Download \o <<"note">> = <<"openDown", "fetch", "note">>
  /\ <<"load">> \o <<"clear", "start">> = <<"load", "clear", "start">>
  /\ <<"fit">> \o <<"start">> = <<"fit", "start">>
  /\ Download \o <<"fit", "start">> = <<"openDown", "fetch", "fit", "start">>
  /\ <<"clear", "findLoaded">> \o <<"openDown", "fetch", "fit", "start">>
        = <<"clear", "findLoaded", "openDown", "fetch", "fit", "start">>
  /\ <<"clear", "findLoaded">> \o <<"start">> = <<"clear", "findLoaded", "start">>
  /\ Download \o <<"same">> = <<"openDown", "fetch", "same">>
  /\ Upload \o <<"openDown", "fetch", "same">> = <<"openUp", "send", "openDown", "fetch", "same">>
<1> USE DEF Upload, Download
<1>1. Upload \o <<"commit", "record">> = <<"openUp", "send", "commit", "record">>
  <2>1. /\ "openUp" \in Step /\ "send" \in Step
        /\ <<"commit", "record">> \in Seq(Step)
        /\ <<"openUp", "send", "commit", "record">> \in Seq(Step)
    BY DEF Step
  <2>2. /\ <<"openUp", "send", "commit", "record">> # <<>>
        /\ Head(<<"openUp", "send", "commit", "record">>) = "openUp"
        /\ Tail(<<"openUp", "send", "commit", "record">>) # <<>>
        /\ Head(Tail(<<"openUp", "send", "commit", "record">>)) = "send"
        /\ Tail(Tail(<<"openUp", "send", "commit", "record">>)) = <<"commit", "record">>
    OBVIOUS
  <2>3. QED
    BY <2>1, <2>2, TwoSpelled, Zenon
<1>2. <<"seeEngine">> \o <<"openUp", "send", "commit", "record">>
        = <<"seeEngine", "openUp", "send", "commit", "record">>
  <2>1. /\ "seeEngine" \in Step
        /\ <<"openUp", "send", "commit", "record">> \in Seq(Step)
        /\ <<"seeEngine", "openUp", "send", "commit", "record">> \in Seq(Step)
    BY DEF Step
  <2>2. /\ <<"seeEngine", "openUp", "send", "commit", "record">> # <<>>
        /\ Head(<<"seeEngine", "openUp", "send", "commit", "record">>) = "seeEngine"
        /\ Tail(<<"seeEngine", "openUp", "send", "commit", "record">>) = <<"openUp", "send", "commit", "record">>
    OBVIOUS
  <2>3. QED
    BY <2>1, <2>2, InFront, Zenon
<1>3. <<"absent">> \o <<"seeEngine", "openUp", "send", "commit", "record">>
        = <<"absent", "seeEngine", "openUp", "send", "commit", "record">>
  <2>1. /\ "absent" \in Step
        /\ <<"seeEngine", "openUp", "send", "commit", "record">> \in Seq(Step)
        /\ <<"absent", "seeEngine", "openUp", "send", "commit", "record">> \in Seq(Step)
    BY DEF Step
  <2>2. /\ <<"absent", "seeEngine", "openUp", "send", "commit", "record">> # <<>>
        /\ Head(<<"absent", "seeEngine", "openUp", "send", "commit", "record">>) = "absent"
        /\ Tail(<<"absent", "seeEngine", "openUp", "send", "commit", "record">>) = <<"seeEngine", "openUp", "send", "commit", "record">>
    OBVIOUS
  <2>3. QED
    BY <2>1, <2>2, InFront, Zenon
<1>4. <<"absent">> \o Upload = <<"absent", "openUp", "send">>
  <2>1. /\ "absent" \in Step
        /\ <<"openUp", "send">> \in Seq(Step)
        /\ <<"absent", "openUp", "send">> \in Seq(Step)
    BY DEF Step
  <2>2. /\ <<"absent", "openUp", "send">> # <<>>
        /\ Head(<<"absent", "openUp", "send">>) = "absent"
        /\ Tail(<<"absent", "openUp", "send">>) = <<"openUp", "send">>
    OBVIOUS
  <2>3. QED
    BY <2>1, <2>2, InFront, Zenon
<1>5. <<"match">> \o Upload = <<"match", "openUp", "send">>
  <2>1. /\ "match" \in Step
        /\ <<"openUp", "send">> \in Seq(Step)
        /\ <<"match", "openUp", "send">> \in Seq(Step)
    BY DEF Step
  <2>2. /\ <<"match", "openUp", "send">> # <<>>
        /\ Head(<<"match", "openUp", "send">>) = "match"
        /\ Tail(<<"match", "openUp", "send">>) = <<"openUp", "send">>
    OBVIOUS
  <2>3. QED
    BY <2>1, <2>2, InFront, Zenon
<1>6. Download \o <<"match", "openUp", "send">> = <<"openDown", "fetch", "match", "openUp", "send">>
  <2>1. /\ "openDown" \in Step /\ "fetch" \in Step
        /\ <<"match", "openUp", "send">> \in Seq(Step)
        /\ <<"openDown", "fetch", "match", "openUp", "send">> \in Seq(Step)
    BY DEF Step
  <2>2. /\ <<"openDown", "fetch", "match", "openUp", "send">> # <<>>
        /\ Head(<<"openDown", "fetch", "match", "openUp", "send">>) = "openDown"
        /\ Tail(<<"openDown", "fetch", "match", "openUp", "send">>) # <<>>
        /\ Head(Tail(<<"openDown", "fetch", "match", "openUp", "send">>)) = "fetch"
        /\ Tail(Tail(<<"openDown", "fetch", "match", "openUp", "send">>)) = <<"match", "openUp", "send">>
    OBVIOUS
  <2>3. QED
    BY <2>1, <2>2, TwoSpelled, Zenon
<1>7. <<"same">> \o <<"record">> = <<"same", "record">>
  <2>1. /\ "same" \in Step
        /\ <<"record">> \in Seq(Step)
        /\ <<"same", "record">> \in Seq(Step)
    BY DEF Step
  <2>2. /\ <<"same", "record">> # <<>>
        /\ Head(<<"same", "record">>) = "same"
        /\ Tail(<<"same", "record">>) = <<"record">>
    OBVIOUS
  <2>3. QED
    BY <2>1, <2>2, InFront, Zenon
<1>8. Download \o <<"same", "record">> = <<"openDown", "fetch", "same", "record">>
  <2>1. /\ "openDown" \in Step /\ "fetch" \in Step
        /\ <<"same", "record">> \in Seq(Step)
        /\ <<"openDown", "fetch", "same", "record">> \in Seq(Step)
    BY DEF Step
  <2>2. /\ <<"openDown", "fetch", "same", "record">> # <<>>
        /\ Head(<<"openDown", "fetch", "same", "record">>) = "openDown"
        /\ Tail(<<"openDown", "fetch", "same", "record">>) # <<>>
        /\ Head(Tail(<<"openDown", "fetch", "same", "record">>)) = "fetch"
        /\ Tail(Tail(<<"openDown", "fetch", "same", "record">>)) = <<"same", "record">>
    OBVIOUS
  <2>3. QED
    BY <2>1, <2>2, TwoSpelled, Zenon
<1>9. <<"commit">> \o <<"openDown", "fetch", "same", "record">>
        = <<"commit", "openDown", "fetch", "same", "record">>
  <2>1. /\ "commit" \in Step
        /\ <<"openDown", "fetch", "same", "record">> \in Seq(Step)
        /\ <<"commit", "openDown", "fetch", "same", "record">> \in Seq(Step)
    BY DEF Step
  <2>2. /\ <<"commit", "openDown", "fetch", "same", "record">> # <<>>
        /\ Head(<<"commit", "openDown", "fetch", "same", "record">>) = "commit"
        /\ Tail(<<"commit", "openDown", "fetch", "same", "record">>) = <<"openDown", "fetch", "same", "record">>
    OBVIOUS
  <2>3. QED
    BY <2>1, <2>2, InFront, Zenon
<1>10. <<"commit">> \o <<"record">> = <<"commit", "record">>
  <2>1. /\ "commit" \in Step
        /\ <<"record">> \in Seq(Step)
        /\ <<"commit", "record">> \in Seq(Step)
    BY DEF Step
  <2>2. /\ <<"commit", "record">> # <<>>
        /\ Head(<<"commit", "record">>) = "commit"
        /\ Tail(<<"commit", "record">>) = <<"record">>
    OBVIOUS
  <2>3. QED
    BY <2>1, <2>2, InFront, Zenon
<1>11. Download \o <<"note">> = <<"openDown", "fetch", "note">>
  <2>1. /\ "openDown" \in Step /\ "fetch" \in Step
        /\ <<"note">> \in Seq(Step)
        /\ <<"openDown", "fetch", "note">> \in Seq(Step)
    BY DEF Step
  <2>2. /\ <<"openDown", "fetch", "note">> # <<>>
        /\ Head(<<"openDown", "fetch", "note">>) = "openDown"
        /\ Tail(<<"openDown", "fetch", "note">>) # <<>>
        /\ Head(Tail(<<"openDown", "fetch", "note">>)) = "fetch"
        /\ Tail(Tail(<<"openDown", "fetch", "note">>)) = <<"note">>
    OBVIOUS
  <2>3. QED
    BY <2>1, <2>2, TwoSpelled, Zenon
<1>12. <<"load">> \o <<"clear", "start">> = <<"load", "clear", "start">>
  <2>1. /\ "load" \in Step
        /\ <<"clear", "start">> \in Seq(Step)
        /\ <<"load", "clear", "start">> \in Seq(Step)
    BY DEF Step
  <2>2. /\ <<"load", "clear", "start">> # <<>>
        /\ Head(<<"load", "clear", "start">>) = "load"
        /\ Tail(<<"load", "clear", "start">>) = <<"clear", "start">>
    OBVIOUS
  <2>3. QED
    BY <2>1, <2>2, InFront, Zenon
<1>13. <<"fit">> \o <<"start">> = <<"fit", "start">>
  <2>1. /\ "fit" \in Step
        /\ <<"start">> \in Seq(Step)
        /\ <<"fit", "start">> \in Seq(Step)
    BY DEF Step
  <2>2. /\ <<"fit", "start">> # <<>>
        /\ Head(<<"fit", "start">>) = "fit"
        /\ Tail(<<"fit", "start">>) = <<"start">>
    OBVIOUS
  <2>3. QED
    BY <2>1, <2>2, InFront, Zenon
<1>14. Download \o <<"fit", "start">> = <<"openDown", "fetch", "fit", "start">>
  <2>1. /\ "openDown" \in Step /\ "fetch" \in Step
        /\ <<"fit", "start">> \in Seq(Step)
        /\ <<"openDown", "fetch", "fit", "start">> \in Seq(Step)
    BY DEF Step
  <2>2. /\ <<"openDown", "fetch", "fit", "start">> # <<>>
        /\ Head(<<"openDown", "fetch", "fit", "start">>) = "openDown"
        /\ Tail(<<"openDown", "fetch", "fit", "start">>) # <<>>
        /\ Head(Tail(<<"openDown", "fetch", "fit", "start">>)) = "fetch"
        /\ Tail(Tail(<<"openDown", "fetch", "fit", "start">>)) = <<"fit", "start">>
    OBVIOUS
  <2>3. QED
    BY <2>1, <2>2, TwoSpelled, Zenon
<1>15. <<"clear", "findLoaded">> \o <<"openDown", "fetch", "fit", "start">>
        = <<"clear", "findLoaded", "openDown", "fetch", "fit", "start">>
  <2>1. /\ "clear" \in Step /\ "findLoaded" \in Step
        /\ <<"openDown", "fetch", "fit", "start">> \in Seq(Step)
        /\ <<"clear", "findLoaded", "openDown", "fetch", "fit", "start">> \in Seq(Step)
    BY DEF Step
  <2>2. /\ <<"clear", "findLoaded", "openDown", "fetch", "fit", "start">> # <<>>
        /\ Head(<<"clear", "findLoaded", "openDown", "fetch", "fit", "start">>) = "clear"
        /\ Tail(<<"clear", "findLoaded", "openDown", "fetch", "fit", "start">>) # <<>>
        /\ Head(Tail(<<"clear", "findLoaded", "openDown", "fetch", "fit", "start">>)) = "findLoaded"
        /\ Tail(Tail(<<"clear", "findLoaded", "openDown", "fetch", "fit", "start">>)) = <<"openDown", "fetch", "fit", "start">>
    OBVIOUS
  <2>3. QED
    BY <2>1, <2>2, TwoSpelled, Zenon
<1>16. <<"clear", "findLoaded">> \o <<"start">> = <<"clear", "findLoaded", "start">>
  <2>1. /\ "clear" \in Step /\ "findLoaded" \in Step
        /\ <<"start">> \in Seq(Step)
        /\ <<"clear", "findLoaded", "start">> \in Seq(Step)
    BY DEF Step
  <2>2. /\ <<"clear", "findLoaded", "start">> # <<>>
        /\ Head(<<"clear", "findLoaded", "start">>) = "clear"
        /\ Tail(<<"clear", "findLoaded", "start">>) # <<>>
        /\ Head(Tail(<<"clear", "findLoaded", "start">>)) = "findLoaded"
        /\ Tail(Tail(<<"clear", "findLoaded", "start">>)) = <<"start">>
    OBVIOUS
  <2>3. QED
    BY <2>1, <2>2, TwoSpelled, Zenon
<1>17. Download \o <<"same">> = <<"openDown", "fetch", "same">>
  <2>1. /\ "openDown" \in Step /\ "fetch" \in Step
        /\ <<"same">> \in Seq(Step)
        /\ <<"openDown", "fetch", "same">> \in Seq(Step)
    BY DEF Step
  <2>2. /\ <<"openDown", "fetch", "same">> # <<>>
        /\ Head(<<"openDown", "fetch", "same">>) = "openDown"
        /\ Tail(<<"openDown", "fetch", "same">>) # <<>>
        /\ Head(Tail(<<"openDown", "fetch", "same">>)) = "fetch"
        /\ Tail(Tail(<<"openDown", "fetch", "same">>)) = <<"same">>
    OBVIOUS
  <2>3. QED
    BY <2>1, <2>2, TwoSpelled, Zenon
<1>18. Upload \o <<"openDown", "fetch", "same">> = <<"openUp", "send", "openDown", "fetch", "same">>
  <2>1. /\ "openUp" \in Step /\ "send" \in Step
        /\ <<"openDown", "fetch", "same">> \in Seq(Step)
        /\ <<"openUp", "send", "openDown", "fetch", "same">> \in Seq(Step)
    BY DEF Step
  <2>2. /\ <<"openUp", "send", "openDown", "fetch", "same">> # <<>>
        /\ Head(<<"openUp", "send", "openDown", "fetch", "same">>) = "openUp"
        /\ Tail(<<"openUp", "send", "openDown", "fetch", "same">>) # <<>>
        /\ Head(Tail(<<"openUp", "send", "openDown", "fetch", "same">>)) = "send"
        /\ Tail(Tail(<<"openUp", "send", "openDown", "fetch", "same">>)) = <<"openDown", "fetch", "same">>
    OBVIOUS
  <2>3. QED
    BY <2>1, <2>2, TwoSpelled, Zenon
<1>19. QED
  BY <1>1, <1>2, <1>3, <1>4, <1>5, <1>6, <1>7, <1>8, <1>9, <1>10, <1>11, <1>12, <1>13, <1>14, <1>15, <1>16, <1>17, <1>18, Zenon

\* What an edit has to do once its bytes have arrived, written out.
LEMMA ClosingIs ==
  ASSUME NEW n, NEW v \in BOOLEAN
  PROVE  \E c \in ToCommit \cup Committed :
            /\ n \in Lua => c \in ToCommit
            /\ (Commit(n) \o (IF v THEN Download \o <<"same">> ELSE <<>>)) \o <<"record">> = c
            /\ Commit(n) \in Seq(Step) /\ (IF v THEN Download \o <<"same">> ELSE <<>>) \in Seq(Step)
<1> DEFINE V == IF v THEN Download \o <<"same">> ELSE <<>>
<1>0. (v => V = Download \o <<"same">>) /\ (~v => V = <<>>)
  OBVIOUS
<1> HIDE DEF V
<1>1. /\ <<"record">> \in Seq(Step) /\ <<"commit">> \in Seq(Step) /\ <<>> \in Seq(Step)
      /\ <<"openDown", "fetch", "same">> \in Seq(Step) /\ Download \in Seq(Step)
      /\ <<"same">> \in Seq(Step) /\ <<"openDown", "fetch", "same", "record">> \in Seq(Step)
  BY DEF Step, Download
<1>2. Commit(n) \in Seq(Step) /\ V \in Seq(Step)
  <2>1. Download \o <<"same">> \in Seq(Step)
    BY <1>1, Spelled
  <2>2. QED
    BY <1>0, <1>1, <2>1 DEF Commit
<1>3. (Commit(n) \o V) \o <<"record">> = Commit(n) \o (V \o <<"record">>)
  BY SMTT(30), <1>1, <1>2, ConcatAssociates
<1>4. /\ v => V \o <<"record">> = <<"openDown", "fetch", "same", "record">>
      /\ ~v => V \o <<"record">> = <<"record">>
  <2>1. (Download \o <<"same">>) \o <<"record">> = Download \o (<<"same">> \o <<"record">>)
    BY <1>1, ConcatAssociates
  <2>2. (Download \o <<"same">>) \o <<"record">> = <<"openDown", "fetch", "same", "record">>
    BY <2>1, Spelled, Zenon
  <2>3. <<>> \o <<"record">> = <<"record">>
    BY <1>1, NothingInFront, Zenon
  <2>4. QED
    BY <1>0, <2>2, <2>3, Zenon
<1>5. Commit(n) \o (V \o <<"record">>) \in IF n \in Lua THEN ToCommit ELSE Committed
  <2>1. CASE n \in Lua
    <3>1. Commit(n) = <<"commit">>
      BY <2>1 DEF Commit
    <3>2. <<"commit">> \o (V \o <<"record">>) \in ToCommit
      <4>1. CASE v
        BY <1>4, <4>1, Spelled, Zenon DEF ToCommit
      <4>2. CASE ~v
        BY <1>4, <4>2, Spelled, Zenon DEF ToCommit
      <4>3. QED
        BY <4>1, <4>2
    <3>3. QED
      BY <2>1, <3>1, <3>2, Zenon
  <2>2. CASE n \notin Lua
    <3>1. Commit(n) = <<>>
      BY <2>2 DEF Commit
    <3>2. V \o <<"record">> \in Committed /\ V \o <<"record">> \in Seq(Step)
      <4>1. CASE v
        BY <1>1, <1>4, <4>1, Zenon DEF Committed
      <4>2. CASE ~v
        BY <1>1, <1>4, <4>2, Zenon DEF Committed
      <4>3. QED
        BY <4>1, <4>2
    <3>3. <<>> \o (V \o <<"record">>) = V \o <<"record">>
      BY <3>2, NothingInFront, Zenon
    <3>4. QED
      BY <2>2, <3>1, <3>2, <3>3, Zenon
  <2>3. QED
    BY <2>1, <2>2
<1>6. QED
  <2>1. PICK c \in ToCommit \cup Committed : c = Commit(n) \o (V \o <<"record">>) /\ (n \in Lua => c \in ToCommit)
    BY <1>5, Zenon
  <2>2. (Commit(n) \o V) \o <<"record">> = c
    BY <1>3, <2>1, Zenon
  <2>3. QED
    BY <1>2, <2>1, <2>2, Zenon DEF V

\* Every route begins with one of the scripts of its outline.
LEMMA PutProgramScript ==
  ASSUME NEW r \in Request, r.op = "putProgram"
  PROVE  Script(r) \in {<<"absent", "seeEngine", "openUp", "send", "commit", "record">>,
                        <<"seeEngine", "openUp", "send", "commit", "record">>}
<1>1. Script(r) = ((NewName(r) \o <<"seeEngine">>) \o Upload) \o <<"commit", "record">>
  BY DEF Script
<1>a. NewName(r) = <<>> \/ NewName(r) = <<"absent">>
  BY DEF NewName
<1>2. /\ <<>> \in Seq(Step) /\ <<"absent">> \in Seq(Step)
      /\ <<"seeEngine">> \in Seq(Step) /\ Upload \in Seq(Step) /\ <<"commit", "record">> \in Seq(Step)
      /\ <<"openUp", "send", "commit", "record">> \in Seq(Step)
      /\ <<"seeEngine", "openUp", "send", "commit", "record">> \in Seq(Step)
  BY DEF Step, Upload
<1>b. NewName(r) \in Seq(Step)
  BY <1>a, <1>2, Zenon
<1>3. NewName(r) \o <<"seeEngine">> \in Seq(Step)
  BY SMTT(30), <1>b, <1>2, ConcatIsSeq
<1>4. Script(r) = (NewName(r) \o <<"seeEngine">>) \o (Upload \o <<"commit", "record">>)
  BY SMTT(30), <1>1, <1>2, <1>3, ConcatAssociates
<1>5. Script(r) = (NewName(r) \o <<"seeEngine">>) \o <<"openUp", "send", "commit", "record">>
  BY <1>4, Spelled, Zenon
<1>6. Script(r) = NewName(r) \o (<<"seeEngine">> \o <<"openUp", "send", "commit", "record">>)
  BY <1>b, <1>2, <1>5, ConcatAssociates
<1>7. Script(r) = NewName(r) \o <<"seeEngine", "openUp", "send", "commit", "record">>
  BY <1>6, Spelled, Zenon
<1>8. CASE NewName(r) = <<>>
  <2>1. <<>> \o <<"seeEngine", "openUp", "send", "commit", "record">>
           = <<"seeEngine", "openUp", "send", "commit", "record">>
    BY <1>2, NothingInFront
  <2>2. QED
    BY <1>7, <1>8, <2>1, Zenon
<1>9. CASE NewName(r) = <<"absent">>
  BY <1>7, <1>9, Spelled, Zenon
<1>10. QED
  BY <1>a, <1>8, <1>9

LEMMA PutFileScript ==
  ASSUME NEW r \in Request, r.op = "putFile"
  PROVE  \E c \in ToCommit \cup Committed :
            /\ r.name \in Lua => c \in ToCommit
            /\ \/ Script(r) = <<"openDown", "fetch", "match", "openUp", "send">> \o c
               \/ Script(r) = <<"absent", "openUp", "send">> \o c /\ r.match = None
               \/ Script(r) = <<"openUp", "send">> \o c /\ r.match = None
<1> DEFINE M == IF r.match # None THEN Download \o <<"match">> ELSE NewName(r)
           V == IF "verify" \in r.flags THEN Download \o <<"same">> ELSE <<>>
<1>1. Script(r) = (((M \o Upload) \o Commit(r.name)) \o V) \o <<"record">>
  BY DEF Script
<1>2. PICK c \in ToCommit \cup Committed :
         /\ r.name \in Lua => c \in ToCommit
         /\ (Commit(r.name) \o V) \o <<"record">> = c
         /\ Commit(r.name) \in Seq(Step) /\ V \in Seq(Step)
  BY ClosingIs
<1>3. /\ r.match # None => M = Download \o <<"match">>
      /\ r.match = None => M = <<>> \/ M = <<"absent">>
  BY DEF NewName
<1> HIDE DEF M, V
<1>4. /\ <<>> \in Seq(Step) /\ <<"absent">> \in Seq(Step) /\ <<"match">> \in Seq(Step)
      /\ Download \in Seq(Step) /\ Upload \in Seq(Step) /\ <<"record">> \in Seq(Step)
  BY DEF Step, Download, Upload
<1>5. M \in Seq(Step)
  BY <1>3, <1>4, ConcatIsSeq
<1>6. /\ r.match # None => M \o Upload = <<"openDown", "fetch", "match", "openUp", "send">>
      /\ r.match = None => \/ M \o Upload = <<"absent", "openUp", "send">>
                           \/ M \o Upload = <<"openUp", "send">>
  <2>1. (Download \o <<"match">>) \o Upload = Download \o (<<"match">> \o Upload)
    BY <1>4, ConcatAssociates
  <2>2. (Download \o <<"match">>) \o Upload = <<"openDown", "fetch", "match", "openUp", "send">>
    BY <2>1, Spelled, Zenon
  <2>3. <<>> \o Upload = <<"openUp", "send">>
    BY <1>4, NothingInFront DEF Upload
  <2>4. QED
    BY <1>3, <2>2, <2>3, Spelled, Zenon
<1>7. M \o Upload \in Seq(Step)
  BY <1>4, <1>5, ConcatIsSeq
<1>8. Script(r) = (M \o Upload) \o c
  <2>1. Commit(r.name) \o V \in Seq(Step)
    BY <1>2, ConcatIsSeq
  <2>2. ((M \o Upload) \o Commit(r.name)) \o V = (M \o Upload) \o (Commit(r.name) \o V)
    BY <1>2, <1>7, ConcatAssociates
  <2>3. ((M \o Upload) \o (Commit(r.name) \o V)) \o <<"record">>
           = (M \o Upload) \o ((Commit(r.name) \o V) \o <<"record">>)
    <3> DEFINE A == M \o Upload
               B == Commit(r.name) \o V
               R == <<"record">>
    <3>1. A \in Seq(Step) /\ B \in Seq(Step) /\ R \in Seq(Step)
      BY <1>4, <1>7, <2>1, Zenon
    <3> HIDE DEF A, B, R
    <3>2. (A \o B) \o R = A \o (B \o R)
      BY <3>1, ConcatAssociates
    <3>3. QED
      BY <3>2, Zenon DEF A, B, R
  <2>4. (((M \o Upload) \o Commit(r.name)) \o V) \o <<"record">>
           = ((M \o Upload) \o (Commit(r.name) \o V)) \o <<"record">>
    BY <2>2
  <2>5. QED
    BY <1>1, <1>2, <2>3, <2>4, Zenon
<1>9. QED
  BY <1>2, <1>6, <1>8, Zenon

LEMMA OtherScripts ==
  ASSUME NEW r \in Request
  PROVE  /\ r.op \in {"getProgram", "validate"} => Script(r) = <<"openDown", "fetch">>
         /\ r.op = "getFile" => Script(r) = <<"openDown", "fetch", "note">>
         /\ r.op = "delete" => Script(r) = <<"guardLoaded", "erase", "forget">>
         /\ r.op = "load" => Script(r) = <<"load">>
         /\ r.op = "select" => Script(r) \in {<<"load">>, <<"load", "clear", "start">>}
         /\ r.op = "run" =>
              \/ Script(r) = <<"clear", "findLoaded", "openDown", "fetch", "fit", "start">>
              \/ "skip" \in r.flags /\ Script(r) = <<"clear", "findLoaded", "start">>
         /\ r.op = "restore" => Script(r) = <<"openUp", "send", "openDown", "fetch", "same">>
         /\ r.op = "switch" => Script(r) = <<"switch">>
<1>0. /\ <<>> \in Seq(Step) /\ <<"load">> \in Seq(Step) /\ <<"clear", "findLoaded">> \in Seq(Step)
      /\ Download \in Seq(Step) /\ Upload \in Seq(Step) /\ <<"fit">> \in Seq(Step)
      /\ <<"start">> \in Seq(Step) /\ <<"same">> \in Seq(Step)
      /\ <<"openDown", "fetch", "fit", "start">> \in Seq(Step)
  BY DEF Step, Download, Upload
<1>1. ASSUME r.op \in {"getProgram", "validate"} PROVE Script(r) = <<"openDown", "fetch">>
  BY <1>1 DEF Script, Download
<1>2. ASSUME r.op = "getFile" PROVE Script(r) = <<"openDown", "fetch", "note">>
  <2>1. Script(r) = Download \o <<"note">>
    BY <1>2 DEF Script
  <2>2. QED
    BY <2>1, Spelled, Zenon
<1>3. ASSUME r.op = "delete" PROVE Script(r) = <<"guardLoaded", "erase", "forget">>
  BY <1>3 DEF Script
<1>4. ASSUME r.op = "load" PROVE Script(r) = <<"load">>
  BY <1>4 DEF Script
<1>5. ASSUME r.op = "select" PROVE Script(r) \in {<<"load">>, <<"load", "clear", "start">>}
  <2> DEFINE S == IF "start" \in r.flags THEN <<"clear", "start">> ELSE <<>>
  <2>1. Script(r) = <<"load">> \o S
    BY <1>5 DEF Script
  <2>2. S = <<"clear", "start">> \/ S = <<>>
    OBVIOUS
  <2> HIDE DEF S
  <2>3. <<"load">> \o <<>> = <<"load">>
    BY <1>0, ConcatEmptySeq
  <2>4. QED
    BY <2>1, <2>2, <2>3, Spelled, Zenon
<1>6. ASSUME r.op = "run"
      PROVE  \/ Script(r) = <<"clear", "findLoaded", "openDown", "fetch", "fit", "start">>
             \/ "skip" \in r.flags /\ Script(r) = <<"clear", "findLoaded", "start">>
  <2> DEFINE S == IF "skip" \in r.flags THEN <<>> ELSE Download \o <<"fit">>
  <2>1. Script(r) = (<<"clear", "findLoaded">> \o S) \o <<"start">>
    BY <1>6 DEF Script
  <2>2. /\ "skip" \in r.flags => S = <<>>
        /\ "skip" \notin r.flags => S = Download \o <<"fit">>
    OBVIOUS
  <2> HIDE DEF S
  <2>3. S \in Seq(Step)
    BY <1>0, <2>2, ConcatIsSeq
  <2>4. Script(r) = <<"clear", "findLoaded">> \o (S \o <<"start">>)
    BY <1>0, <2>1, <2>3, ConcatAssociates
  <2>5. <<>> \o <<"start">> = <<"start">>
    BY <1>0, NothingInFront
  <2>6. (Download \o <<"fit">>) \o <<"start">> = Download \o (<<"fit">> \o <<"start">>)
    BY <1>0, ConcatAssociates
  <2>7. CASE "skip" \in r.flags
    <3>1. Script(r) = <<"clear", "findLoaded">> \o <<"start">>
      BY <2>2, <2>4, <2>5, <2>7, Zenon
    <3>2. QED
      BY <2>7, <3>1, Spelled, Zenon
  <2>8. CASE "skip" \notin r.flags
    <3>1. S \o <<"start">> = <<"openDown", "fetch", "fit", "start">>
      BY <2>2, <2>6, <2>8, Spelled, Zenon
    <3>2. Script(r) = <<"clear", "findLoaded">> \o <<"openDown", "fetch", "fit", "start">>
      BY <2>4, <3>1, Zenon
    <3>3. QED
      BY <3>2, Spelled, Zenon
  <2>9. QED
    BY <2>7, <2>8
<1>7. ASSUME r.op = "restore" PROVE Script(r) = <<"openUp", "send", "openDown", "fetch", "same">>
  <2>1. Script(r) = (Upload \o Download) \o <<"same">>
    BY <1>7 DEF Script
  <2>2. Script(r) = Upload \o (Download \o <<"same">>)
    BY <1>0, <2>1, ConcatAssociates
  <2>3. QED
    BY <2>2, Spelled, Zenon
<1>8. ASSUME r.op = "switch" PROVE Script(r) = <<"switch">>
  BY <1>8 DEF Script
<1>9. QED
  BY <1>1, <1>2, <1>3, <1>4, <1>5, <1>6, <1>7, <1>8

-----------------------------------------------------------------------------
(* The steps of the scripts, one by one.                                   *)

Begins(s, step, rest) ==
    s \in Seq(Step) /\ s # <<>> /\ Head(s) = step /\ Tail(s) = rest

LEMMA PuttingSteps ==
  /\ Begins(<<"absent", "seeEngine", "openUp", "send", "commit", "record">>,
            "absent", <<"seeEngine", "openUp", "send", "commit", "record">>)
  /\ Begins(<<"seeEngine", "openUp", "send", "commit", "record">>,
            "seeEngine", <<"openUp", "send", "commit", "record">>)
  /\ Begins(<<"openUp", "send", "commit", "record">>, "openUp", <<"send", "commit", "record">>)
  /\ Begins(<<"send", "commit", "record">>, "send", <<"commit", "record">>)
  /\ Begins(<<"commit", "record">>, "commit", <<"record">>)
  /\ Begins(<<"record">>, "record", <<>>)
  BY DEF Begins, Step

LEMMA EditedSteps ==
  /\ Begins(<<"commit", "openDown", "fetch", "same", "record">>,
            "commit", <<"openDown", "fetch", "same", "record">>)
  /\ Begins(<<"openDown", "fetch", "same", "record">>, "openDown", <<"fetch", "same", "record">>)
  /\ Begins(<<"fetch", "same", "record">>, "fetch", <<"same", "record">>)
  /\ Begins(<<"same", "record">>, "same", <<"record">>)
  /\ Begins(<<"record">>, "record", <<>>)
  /\ Begins(<<"commit", "record">>, "commit", <<"record">>)
  BY DEF Begins, Step

LEMMA ReadingSteps ==
  /\ Begins(<<"openDown", "fetch", "note">>, "openDown", <<"fetch", "note">>)
  /\ Begins(<<"fetch", "note">>, "fetch", <<"note">>)
  /\ Begins(<<"note">>, "note", <<>>)
  /\ Begins(<<"openDown", "fetch">>, "openDown", <<"fetch">>)
  /\ Begins(<<"fetch">>, "fetch", <<>>)
  BY DEF Begins, Step

LEMMA DeletingSteps ==
  /\ Begins(<<"guardLoaded", "erase", "forget">>, "guardLoaded", <<"erase", "forget">>)
  /\ Begins(<<"erase", "forget">>, "erase", <<"forget">>)
  /\ Begins(<<"forget">>, "forget", <<>>)
  BY DEF Begins, Step

LEMMA RunningSteps ==
  /\ Begins(<<"clear", "findLoaded", "openDown", "fetch", "fit", "start">>,
            "clear", <<"findLoaded", "openDown", "fetch", "fit", "start">>)
  /\ Begins(<<"findLoaded", "openDown", "fetch", "fit", "start">>,
            "findLoaded", <<"openDown", "fetch", "fit", "start">>)
  /\ Begins(<<"openDown", "fetch", "fit", "start">>, "openDown", <<"fetch", "fit", "start">>)
  /\ Begins(<<"fetch", "fit", "start">>, "fetch", <<"fit", "start">>)
  /\ Begins(<<"fit", "start">>, "fit", <<"start">>)
  /\ Begins(<<"start">>, "start", <<>>)
  BY DEF Begins, Step

LEMMA BlindSteps ==
  /\ Begins(<<"clear", "findLoaded", "start">>, "clear", <<"findLoaded", "start">>)
  /\ Begins(<<"findLoaded", "start">>, "findLoaded", <<"start">>)
  /\ Begins(<<"start">>, "start", <<>>)
  BY DEF Begins, Step

LEMMA LoadingSteps ==
  /\ Begins(<<"load", "clear", "start">>, "load", <<"clear", "start">>)
  /\ Begins(<<"clear", "start">>, "clear", <<"start">>)
  /\ Begins(<<"start">>, "start", <<>>)
  /\ Begins(<<"load">>, "load", <<>>)
  BY DEF Begins, Step

LEMMA RestoringSteps ==
  /\ Begins(<<"openUp", "send", "openDown", "fetch", "same">>,
            "openUp", <<"send", "openDown", "fetch", "same">>)
  /\ Begins(<<"send", "openDown", "fetch", "same">>, "send", <<"openDown", "fetch", "same">>)
  /\ Begins(<<"openDown", "fetch", "same">>, "openDown", <<"fetch", "same">>)
  /\ Begins(<<"fetch", "same">>, "fetch", <<"same">>)
  /\ Begins(<<"same">>, "same", <<>>)
  BY DEF Begins, Step

LEMMA SwitchingSteps ==
  /\ Begins(<<"switch">>, "switch", <<>>)
  BY DEF Begins, Step

\* What closes an edit, and the steps in front of it.
LEMMA EditingSteps ==
  ASSUME NEW c \in ToCommit \cup Committed
  PROVE  /\ c \in Seq(Step) /\ c # <<>>
         /\ Begins(<<"openDown", "fetch", "match", "openUp", "send">> \o c,
                   "openDown", <<"fetch", "match", "openUp", "send">> \o c)
         /\ Begins(<<"fetch", "match", "openUp", "send">> \o c,
                   "fetch", <<"match", "openUp", "send">> \o c)
         /\ Begins(<<"match", "openUp", "send">> \o c, "match", <<"openUp", "send">> \o c)
         /\ Begins(<<"absent", "openUp", "send">> \o c, "absent", <<"openUp", "send">> \o c)
         /\ Begins(<<"openUp", "send">> \o c, "openUp", <<"send">> \o c)
         /\ Begins(<<"send">> \o c, "send", c)
<1>1. c \in Seq(Step) /\ c # <<>>
  <2>1. \/ c = <<"commit", "openDown", "fetch", "same", "record">>
        \/ c = <<"openDown", "fetch", "same", "record">>
        \/ c = <<"commit", "record">>
        \/ c = <<"record">>
    BY Zenon DEF ToCommit, Committed
  <2>2. QED
    BY <2>1, EditedSteps, Zenon DEF Begins
<1>2. Begins(<<"openDown", "fetch", "match", "openUp", "send">> \o c,
             "openDown", <<"fetch", "match", "openUp", "send">> \o c)
  <2>1. <<"openDown", "fetch", "match", "openUp", "send">> \in Seq(Step)
    BY DEF Step
  <2>2. /\ <<"openDown", "fetch", "match", "openUp", "send">> # <<>>
        /\ Head(<<"openDown", "fetch", "match", "openUp", "send">>) = "openDown"
        /\ Tail(<<"openDown", "fetch", "match", "openUp", "send">>)
              = <<"fetch", "match", "openUp", "send">>
    OBVIOUS
  <2>3. QED
    BY <1>1, <2>1, <2>2, Prefix, ZenonT(40) DEF Begins
<1>3. Begins(<<"fetch", "match", "openUp", "send">> \o c,
             "fetch", <<"match", "openUp", "send">> \o c)
  <2>1. <<"fetch", "match", "openUp", "send">> \in Seq(Step)
    BY DEF Step
  <2>2. /\ <<"fetch", "match", "openUp", "send">> # <<>>
        /\ Head(<<"fetch", "match", "openUp", "send">>) = "fetch"
        /\ Tail(<<"fetch", "match", "openUp", "send">>) = <<"match", "openUp", "send">>
    BY SMTT(30)
  <2>3. QED
    BY <1>1, <2>1, <2>2, Prefix, ZenonT(40) DEF Begins
<1>4. Begins(<<"match", "openUp", "send">> \o c, "match", <<"openUp", "send">> \o c)
  <2>1. <<"match", "openUp", "send">> \in Seq(Step)
    BY DEF Step
  <2>2. /\ <<"match", "openUp", "send">> # <<>>
        /\ Head(<<"match", "openUp", "send">>) = "match"
        /\ Tail(<<"match", "openUp", "send">>) = <<"openUp", "send">>
    OBVIOUS
  <2>3. QED
    BY <1>1, <2>1, <2>2, Prefix, ZenonT(40) DEF Begins
<1>5. Begins(<<"absent", "openUp", "send">> \o c, "absent", <<"openUp", "send">> \o c)
  <2>1. <<"absent", "openUp", "send">> \in Seq(Step)
    BY DEF Step
  <2>2. /\ <<"absent", "openUp", "send">> # <<>>
        /\ Head(<<"absent", "openUp", "send">>) = "absent"
        /\ Tail(<<"absent", "openUp", "send">>) = <<"openUp", "send">>
    BY SMTT(30)
  <2>3. QED
    BY <1>1, <2>1, <2>2, Prefix, ZenonT(40) DEF Begins
<1>6. Begins(<<"openUp", "send">> \o c, "openUp", <<"send">> \o c)
  <2>1. <<"openUp", "send">> \in Seq(Step)
    BY DEF Step
  <2>2. /\ <<"openUp", "send">> # <<>> /\ Head(<<"openUp", "send">>) = "openUp"
        /\ Tail(<<"openUp", "send">>) = <<"send">>
    OBVIOUS
  <2>3. QED
    BY <1>1, <2>1, <2>2, Prefix, ZenonT(40) DEF Begins
<1>7. Begins(<<"send">> \o c, "send", c)
  <2>1. <<"send">> \in Seq(Step)
    BY DEF Step
  <2>2. <<"send">> # <<>> /\ Head(<<"send">>) = "send" /\ Tail(<<"send">>) = <<>>
    OBVIOUS
  <2>3. <<>> \o c = c
    BY <1>1, NothingInFront
  <2>4. QED
    BY <1>1, <2>1, <2>2, <2>3, Prefix, Zenon DEF Begins
<1>8. QED
  BY <1>1, <1>2, <1>3, <1>4, <1>5, <1>6, <1>7, Zenon

LEMMA OutlineBegins ==
  ASSUME NEW h \in Handler, NEW r \in Request, req'[h] = r, todo'[h] = Script(r),
         unseen'[h] = Aspect
  PROVE  Outline(h)' /\ todo'[h] \in Seq(Step) /\ todo'[h] # <<>>
<1>1. ASSUME r.op = "putProgram"
      PROVE  Putting(h)' /\ todo'[h] \in Seq(Step) /\ todo'[h] # <<>>
  <2>1. \/ todo'[h] = <<"absent", "seeEngine", "openUp", "send", "commit", "record">>
        \/ todo'[h] = <<"seeEngine", "openUp", "send", "commit", "record">>
    BY <1>1, PutProgramScript
  <2>2. Putting(h)'
    BY <1>1, <2>1 DEF Putting, Aspect
  <2>3. todo'[h] \in Seq(Step) /\ todo'[h] # <<>>
    BY <2>1, PuttingSteps, Zenon DEF Begins
  <2>4. QED
    BY <2>2, <2>3
<1>2. ASSUME r.op = "putFile"
      PROVE  Editing(h)' /\ todo'[h] \in Seq(Step) /\ todo'[h] # <<>>
  <2>1. PICK c \in ToCommit \cup Committed :
            /\ r.name \in Lua => c \in ToCommit
            /\ \/ todo'[h] = <<"openDown", "fetch", "match", "openUp", "send">> \o c
               \/ todo'[h] = <<"absent", "openUp", "send">> \o c /\ r.match = None
               \/ todo'[h] = <<"openUp", "send">> \o c /\ r.match = None
    BY <1>2, PutFileScript
  <2>2. Editing(h)'
    <3>1. r.match # None \/ Matched(h)'
      BY DEF Matched
    <3>2. QED
      BY <1>2, <2>1, <3>1 DEF Editing
  <2>3. todo'[h] \in Seq(Step) /\ todo'[h] # <<>>
    BY <2>1, EditingSteps, ZenonT(40) DEF Begins
  <2>4. QED
    BY <2>2, <2>3
<1>3. ASSUME r.op \in {"getProgram", "validate", "getFile"}
      PROVE  Reading(h)' /\ todo'[h] \in Seq(Step) /\ todo'[h] # <<>>
  <2>1. \/ r.op = "getFile" /\ todo'[h] = <<"openDown", "fetch", "note">>
        \/ r.op \in {"getProgram", "validate"} /\ todo'[h] = <<"openDown", "fetch">>
    BY <1>3, OtherScripts
  <2>2. Reading(h)'
    BY <2>1 DEF Reading
  <2>3. todo'[h] \in Seq(Step) /\ todo'[h] # <<>>
    BY <2>1, ReadingSteps, Zenon DEF Begins
  <2>4. QED
    BY <2>2, <2>3
<1>4. ASSUME r.op = "delete"
      PROVE  Deleting(h)' /\ todo'[h] \in Seq(Step) /\ todo'[h] # <<>>
  <2>1. todo'[h] = <<"guardLoaded", "erase", "forget">>
    BY <1>4, OtherScripts
  <2>2. Deleting(h)'
    BY <1>4, <2>1 DEF Deleting, Aspect
  <2>3. todo'[h] \in Seq(Step) /\ todo'[h] # <<>>
    BY <2>1, DeletingSteps, Zenon DEF Begins
  <2>4. QED
    BY <2>2, <2>3
<1>5. ASSUME r.op = "run"
      PROVE  (Running(h)' \/ RunningBlind(h)') /\ todo'[h] \in Seq(Step) /\ todo'[h] # <<>>
  <2>1. \/ todo'[h] = <<"clear", "findLoaded", "openDown", "fetch", "fit", "start">>
        \/ "skip" \in r.flags /\ todo'[h] = <<"clear", "findLoaded", "start">>
    BY <1>5, OtherScripts
  <2>2. Running(h)' \/ RunningBlind(h)'
    BY <1>5, <2>1 DEF Running, RunningBlind
  <2>3. todo'[h] \in Seq(Step) /\ todo'[h] # <<>>
    BY <2>1, RunningSteps, BlindSteps, Zenon DEF Begins
  <2>4. QED
    BY <2>2, <2>3
<1>6. ASSUME r.op \in {"load", "select", "restore", "switch"}
      PROVE  Others(h)' /\ todo'[h] \in Seq(Step) /\ todo'[h] # <<>>
  <2>1. \/ r.op \in {"load", "select"}
           /\ (todo'[h] = <<"load">> \/ todo'[h] = <<"load", "clear", "start">>)
        \/ r.op = "restore" /\ todo'[h] = <<"openUp", "send", "openDown", "fetch", "same">>
        \/ r.op = "switch" /\ todo'[h] = <<"switch">>
    BY <1>6, OtherScripts
  <2>2. Others(h)'
    BY <2>1 DEF Others
  <2>3. todo'[h] \in Seq(Step) /\ todo'[h] # <<>>
    BY <2>1, LoadingSteps, RestoringSteps, SwitchingSteps, Zenon DEF Begins
  <2>4. QED
    BY <2>2, <2>3
<1>7. r.op \in {"putProgram", "putFile", "getProgram", "getFile", "delete", "load",
               "select", "run", "validate", "restore", "switch"}
  BY DEF Request
<1>8. QED
  BY <1>1, <1>2, <1>3, <1>4, <1>5, <1>6, <1>7, Zenon DEF Outline

-----------------------------------------------------------------------------
(* Interference. A step of anyone else leaves a request alone, and what it *)
(* changes is new to the request.                                          *)

Undisturbed(g) ==
    /\ req'[g] = req[g] /\ todo'[g] = todo[g] /\ got'[g] = got[g]
    /\ unseen[g] \subseteq unseen'[g]
    /\ "files" \in unseen'[g] \/ file' = file
    /\ "loaded" \in unseen'[g] \/ loaded' = loaded
    /\ "engine" \in unseen'[g] \/ engine' = engine
    /\ "up" \in unseen'[g] \/ upSlot' = upSlot
    /\ "down" \in unseen'[g] \/ downSlot' = downSlot

\* No assertion of an undisturbed request is lost.
LEMMA AssertionsStay ==
  ASSUME NEW g \in Handler, Undisturbed(g)
  PROVE  /\ Idle(g) => Idle(g)'
         /\ Spared(g) => Spared(g)'
         /\ Named(g) => Named(g)'
         /\ PortOpen(g) => PortOpen(g)'
         /\ Offered(g) => Offered(g)'
         /\ HasRead(g) => HasRead(g)'
         /\ Matched(g) => Matched(g)'
         /\ Stored(g) => Stored(g)'
         /\ Compiled(g) => Compiled(g)'
         /\ Cleared(g) => Cleared(g)'
         /\ Gone(g) => Gone(g)'
<1>1. /\ req'[g] = req[g] /\ got'[g] = got[g]
      /\ \A a : a \in unseen[g] => a \in unseen'[g]
      /\ "files" \in unseen'[g] \/ file' = file
      /\ "loaded" \in unseen'[g] \/ loaded' = loaded
      /\ "engine" \in unseen'[g] \/ engine' = engine
      /\ "up" \in unseen'[g] \/ upSlot' = upSlot
      /\ "down" \in unseen'[g] \/ downSlot' = downSlot
  BY DEF Undisturbed
<1>2. Idle(g) => Idle(g)'
  BY <1>1 DEF Idle, Knows
<1>3. Spared(g) => Spared(g)'
  BY <1>1 DEF Spared, Knows
<1>4. Named(g) => Named(g)'
  BY <1>1 DEF Named, Knows
<1>5. PortOpen(g) => PortOpen(g)'
  BY <1>1 DEF PortOpen, Knows
<1>6. Offered(g) => Offered(g)'
  BY <1>1 DEF Offered, Knows
<1>7. HasRead(g) => HasRead(g)'
  BY <1>1 DEF HasRead, Knows
<1>8. Matched(g) => Matched(g)'
  BY <1>1 DEF Matched, Knows
<1>9. Stored(g) => Stored(g)'
  BY <1>1 DEF Stored, Knows
<1>10. Compiled(g) => Compiled(g)'
  BY <1>1 DEF Compiled, Knows
<1>11. Cleared(g) => Cleared(g)'
  BY <1>1 DEF Cleared, Knows
<1>12. Gone(g) => Gone(g)'
  BY <1>1 DEF Gone, Knows
<1>13. QED
  BY <1>2, <1>3, <1>4, <1>5, <1>6, <1>7, <1>8, <1>9, <1>10, <1>11, <1>12, Zenon

\* An undisturbed request stays where it is in its outline.
LEMMA OutlineStays ==
  ASSUME NEW g \in Handler, Undisturbed(g), Outline(g)
  PROVE  Outline(g)'
<1>0. \A a : a \in unseen[g] => a \in unseen'[g]
  BY DEF Undisturbed
<1>1. req'[g] = req[g] /\ todo'[g] = todo[g]
  BY DEF Undisturbed
<1>2. Putting(g) => Putting(g)'
  BY <1>1, <1>0, AssertionsStay, Zenon DEF Putting
<1>3. ASSUME Editing(g) PROVE Editing(g)'
  <2>1. PICK c \in ToCommit \cup Committed :
         /\ req[g].name \in Lua => c \in ToCommit
         /\ \/ todo[g] = <<"openDown", "fetch", "match", "openUp", "send">> \o c
            \/ todo[g] = <<"fetch", "match", "openUp", "send">> \o c /\ Offered(g)
            \/ todo[g] = <<"match", "openUp", "send">> \o c /\ HasRead(g)
            \/ todo[g] = <<"absent", "openUp", "send">> \o c /\ req[g].match = None
            \/ todo[g] = <<"openUp", "send">> \o c /\ Matched(g)
            \/ todo[g] = <<"send">> \o c /\ Matched(g) /\ PortOpen(g)
    BY <1>3, Zenon DEF Editing
  <2>2. /\ req'[g].name \in Lua => c \in ToCommit
        /\ \/ todo'[g] = <<"openDown", "fetch", "match", "openUp", "send">> \o c
           \/ todo'[g] = <<"fetch", "match", "openUp", "send">> \o c /\ Offered(g)'
           \/ todo'[g] = <<"match", "openUp", "send">> \o c /\ HasRead(g)'
           \/ todo'[g] = <<"absent", "openUp", "send">> \o c /\ req'[g].match = None
           \/ todo'[g] = <<"openUp", "send">> \o c /\ Matched(g)'
           \/ todo'[g] = <<"send">> \o c /\ Matched(g)' /\ PortOpen(g)'
    BY <1>1, <2>1, AssertionsStay, Zenon
  <2>3. req'[g].op = "putFile"
    BY <1>1, <1>3 DEF Editing
  <2>4. QED
    BY <2>2, <2>3, Zenon DEF Editing
<1>4. Edited(g) => Edited(g)'
  BY <1>1, AssertionsStay, Zenon DEF Edited
<1>5. Reading(g) => Reading(g)'
  BY <1>1, AssertionsStay, Zenon DEF Reading
<1>6. Deleting(g) => Deleting(g)'
  BY <1>1, <1>0, AssertionsStay, Zenon DEF Deleting
<1>7. Running(g) => Running(g)'
  BY <1>1, AssertionsStay, Zenon DEF Running
<1>8. RunningBlind(g) => RunningBlind(g)'
  BY <1>1, Zenon DEF RunningBlind
<1>9. Others(g) => Others(g)'
  BY <1>1, Zenon DEF Others
<1>10. QED
  BY <1>2, <1>3, <1>4, <1>5, <1>6, <1>7, <1>8, <1>9, Zenon DEF Outline

-----------------------------------------------------------------------------
(* What a step is, and what it leaves alone.                               *)

\* The first of the steps that are left tells which action a request takes,
\* unless it fails.
LEMMA HeadTells ==
  ASSUME NEW h \in Handler, GatewayStep(h)
  PROVE  \/ Fails(h)
         \/ Head(todo[h]) = "absent" /\ Absent(h)
         \/ Head(todo[h]) = "match" /\ Match(h)
         \/ Head(todo[h]) = "same" /\ Same(h)
         \/ Head(todo[h]) = "fit" /\ Fit(h)
         \/ Head(todo[h]) = "record" /\ Record(h)
         \/ Head(todo[h]) = "note" /\ Note(h)
         \/ Head(todo[h]) = "forget" /\ Forget(h)
         \/ Head(todo[h]) = "seeEngine" /\ SeeEngine(h)
         \/ Head(todo[h]) = "guardLoaded" /\ GuardLoaded(h)
         \/ Head(todo[h]) = "findLoaded" /\ FindLoaded(h)
         \/ Head(todo[h]) = "clear" /\ ClearOfFault(h)
         \/ Head(todo[h]) = "openDown" /\ OpenDown(h)
         \/ Head(todo[h]) = "fetch" /\ Fetch(h)
         \/ Head(todo[h]) = "openUp" /\ OpenUp(h)
         \/ Head(todo[h]) = "send" /\ Send(h)
         \/ Head(todo[h]) = "commit" /\ CommitFile(h)
         \/ Head(todo[h]) = "erase" /\ Erase(h)
         \/ Head(todo[h]) = "load" /\ Load(h)
         \/ Head(todo[h]) = "start" /\ Start(h)
         \/ Head(todo[h]) = "switch" /\ Switch(h)
<1>1. /\ Absent(h) => Head(todo[h]) = "absent"
      /\ Match(h) => Head(todo[h]) = "match"
      /\ Same(h) => Head(todo[h]) = "same"
      /\ Fit(h) => Head(todo[h]) = "fit"
      /\ Record(h) => Head(todo[h]) = "record"
      /\ Note(h) => Head(todo[h]) = "note"
      /\ Forget(h) => Head(todo[h]) = "forget"
  BY Zenon DEF Absent, Match, Same, Fit, Record, Note, Forget, Local, Doing
<1>2. /\ SeeEngine(h) => Head(todo[h]) = "seeEngine"
      /\ GuardLoaded(h) => Head(todo[h]) = "guardLoaded"
      /\ FindLoaded(h) => Head(todo[h]) = "findLoaded"
      /\ ClearOfFault(h) => Head(todo[h]) = "clear"
      /\ Fetch(h) => Head(todo[h]) = "fetch"
      /\ CommitFile(h) => Head(todo[h]) = "commit"
  BY Zenon DEF SeeEngine, GuardLoaded, FindLoaded, ClearOfFault, Fetch, CommitFile, Reads, Doing
<1>3. /\ OpenDown(h) => Head(todo[h]) = "openDown"
      /\ OpenUp(h) => Head(todo[h]) = "openUp"
      /\ Send(h) => Head(todo[h]) = "send"
      /\ Erase(h) => Head(todo[h]) = "erase"
      /\ Load(h) => Head(todo[h]) = "load"
      /\ Start(h) => Head(todo[h]) = "start"
      /\ Switch(h) => Head(todo[h]) = "switch"
  BY Zenon DEF OpenDown, OpenUp, Send, Erase, Load, Start, Switch, Doing
<1>4. QED
  BY <1>1, <1>2, <1>3, Zenon DEF GatewayStep

\* Every step of a request ends it, or goes on to the rest of its steps with the
\* request it has; run() alone goes on with the name it has found.
LEMMA StepGoes ==
  ASSUME NEW h \in Handler, GatewayStep(h)
  PROVE  todo[h] # <<>> /\ (On(h) \/ End(h) \/ FindLoaded(h))
  BY Zenon DEF GatewayStep, Absent, Match, Same, Fit, Record, Note, Forget, SeeEngine,
       GuardLoaded, FindLoaded, ClearOfFault, OpenDown, Fetch, OpenUp, Send, CommitFile, Erase,
       Load, Start, Switch, Fails, Local, Reads, Doing, Answered

\* Every step learns something, and tells the others what it has changed.
LEMMA StepSees ==
  ASSUME NEW h \in Handler, GatewayStep(h)
  PROVE  \E learnt \in SUBSET Aspect : Sees(h, learnt)
<1>1. /\ {} \in SUBSET Aspect /\ {"files"} \in SUBSET Aspect /\ {"loaded"} \in SUBSET Aspect
      /\ {"engine"} \in SUBSET Aspect /\ {"up"} \in SUBSET Aspect /\ {"down"} \in SUBSET Aspect
      /\ {"files", "down"} \in SUBSET Aspect
  BY DEF Aspect
<1>2. Absent(h) \/ Match(h) \/ Same(h) \/ Fit(h) \/ Record(h) \/ Note(h) \/ Forget(h)
        => Sees(h, {})
  BY Zenon DEF Absent, Match, Same, Fit, Record, Note, Forget, Local
<1>3. ClearOfFault(h) \/ Fetch(h) \/ CommitFile(h) \/ Switch(h) \/ Fails(h) => Sees(h, {})
  BY Zenon DEF ClearOfFault, Fetch, CommitFile, Switch, Fails
<1>4. SeeEngine(h) => Sees(h, {"engine"}) \/ Sees(h, {})
  BY Zenon DEF SeeEngine
<1>5. GuardLoaded(h) => Sees(h, {"loaded"}) \/ Sees(h, {})
  BY Zenon DEF GuardLoaded
<1>6. OpenDown(h) => Sees(h, {"down"}) \/ Sees(h, {"files", "down"})
  BY Zenon DEF OpenDown
<1>7. /\ FindLoaded(h) \/ Load(h) => Sees(h, {"loaded"})
      /\ OpenUp(h) => Sees(h, {"up"})
      /\ Send(h) \/ Erase(h) => Sees(h, {"files"})
      /\ Start(h) => Sees(h, {"engine"})
  BY Zenon DEF FindLoaded, Load, OpenUp, Send, Erase, Start
<1>8. QED
  BY <1>1, <1>2, <1>3, <1>4, <1>5, <1>6, <1>7, Zenon DEF GatewayStep

\* What a request itself has not learnt stays as new to it as it was; what others
\* have not seen is what the step has changed.
LEMMA SeenBy ==
  ASSUME ProgramsTypeOK, NEW h \in Handler, NEW learnt \in SUBSET Aspect, Sees(h, learnt)
  PROVE  /\ unseen'[h] = unseen[h] \ learnt
         /\ \A g \in Handler : g # h /\ req[g] # None =>
              /\ unseen[g] \subseteq unseen'[g]
              /\ "files" \in unseen'[g] \/ file' = file
              /\ "loaded" \in unseen'[g] \/ loaded' = loaded
              /\ "engine" \in unseen'[g] \/ engine' = engine
              /\ "up" \in unseen'[g] \/ upSlot' = upSlot
              /\ "down" \in unseen'[g] \/ downSlot' = downSlot
         /\ unseen' \in [Handler -> SUBSET Aspect]
<1> DEFINE changed == {a \in Aspect : \/ a = "files" /\ file' # file
                                      \/ a = "loaded" /\ loaded' # loaded
                                      \/ a = "engine" /\ engine' # engine
                                      \/ a = "up" /\ upSlot' # upSlot
                                      \/ a = "down" /\ downSlot' # downSlot}
<1>1. unseen' = [g \in Handler |->
            IF g = h THEN unseen[g] \ learnt
            ELSE IF req[g] = None THEN unseen[g] ELSE unseen[g] \cup changed]
  BY DEF Sees
<1>2. /\ "files" \in changed \/ file' = file
      /\ "loaded" \in changed \/ loaded' = loaded
      /\ "engine" \in changed \/ engine' = engine
      /\ "up" \in changed \/ upSlot' = upSlot
      /\ "down" \in changed \/ downSlot' = downSlot
  BY DEF Aspect
<1>3. changed \in SUBSET Aspect
  OBVIOUS
<1> HIDE DEF changed
<1>4. unseen \in [Handler -> SUBSET Aspect]
  BY DEF ProgramsTypeOK
<1>5. unseen'[h] = unseen[h] \ learnt
  BY <1>1
<1>6. unseen' \in [Handler -> SUBSET Aspect]
  <2>1. \A g \in Handler : /\ unseen[g] \ learnt \in SUBSET Aspect
                           /\ unseen[g] \in SUBSET Aspect
                           /\ unseen[g] \cup changed \in SUBSET Aspect
    BY <1>3, <1>4
  <2>2. QED
    BY <1>1, <2>1
<1>7. ASSUME NEW g \in Handler, g # h, req[g] # None
      PROVE  unseen'[g] = unseen[g] \cup changed
  BY <1>1, <1>7
<1>8. QED
  BY <1>2, <1>5, <1>6, <1>7

\* A step of one request leaves the others' requests, and what they have read.
LEMMA OthersKeepTheirs ==
  ASSUME ProgramsTypeOK, NEW h \in Handler, GatewayStep(h), NEW g \in Handler, g # h
  PROVE  req'[g] = req[g] /\ todo'[g] = todo[g] /\ got'[g] = got[g]
<1>0. /\ DOMAIN req = Handler /\ DOMAIN todo = Handler /\ DOMAIN got = Handler
      /\ req = [x \in Handler |-> req[x]] /\ todo = [x \in Handler |-> todo[x]]
      /\ got = [x \in Handler |-> got[x]]
  BY DEF ProgramsTypeOK
<1>1. On(h) \/ End(h) \/ FindLoaded(h)
  BY StepGoes
<1>2. On(h) \/ End(h) => req'[g] = req[g] /\ todo'[g] = todo[g]
  BY <1>0 DEF On, End, Go
<1>3. FindLoaded(h) => req'[g] = req[g] /\ todo'[g] = todo[g]
  BY <1>0, <1>2 DEF FindLoaded
<1>4. UNCHANGED got \/ Fetch(h)
  BY Zenon DEF GatewayStep, Absent, Match, Same, Fit, Record, Note, Forget, SeeEngine,
       GuardLoaded, FindLoaded, ClearOfFault, OpenDown, OpenUp, Send, CommitFile, Erase,
       Load, Start, Switch, Fails, Local
<1>5. got'[g] = got[g]
  BY <1>0, <1>4 DEF Fetch
<1>6. QED
  BY <1>1, <1>2, <1>3, <1>5

LEMMA OthersUndisturbed ==
  ASSUME ProgramsTypeOK, NEW h \in Handler, GatewayStep(h),
         NEW g \in Handler, g # h, req[g] # None
  PROVE  Undisturbed(g)
<1>1. PICK learnt \in SUBSET Aspect : Sees(h, learnt)
  BY StepSees
<1>2. req'[g] = req[g] /\ todo'[g] = todo[g] /\ got'[g] = got[g]
  BY OthersKeepTheirs
<1>3. QED
  BY <1>1, <1>2, SeenBy, Zenon DEF Undisturbed

LEMMA EngineDisturbsNobody ==
  ASSUME ProgramsTypeOK, EngineMoves, NEW g \in Handler, req[g] # None
  PROVE  Undisturbed(g)
<1>1. unseen'[g] = unseen[g] \cup {"engine"}
  BY DEF EngineMoves
<1>2. /\ req' = req /\ todo' = todo /\ got' = got /\ file' = file /\ loaded' = loaded
      /\ upSlot' = upSlot /\ downSlot' = downSlot
  BY DEF EngineMoves
<1>3. QED
  BY <1>1, <1>2 DEF Undisturbed

LEMMA BeginDisturbsNobody ==
  ASSUME ProgramsTypeOK, NEW h \in Handler, NEW r \in Asked, Begin(h, r),
         NEW g \in Handler, g # h
  PROVE  Undisturbed(g)
<1>1. req'[g] = req[g] /\ todo'[g] = todo[g] /\ unseen'[g] = unseen[g]
  BY DEF ProgramsTypeOK, Begin
<1>2. /\ got' = got /\ file' = file /\ loaded' = loaded /\ engine' = engine
      /\ upSlot' = upSlot /\ downSlot' = downSlot
  BY DEF Begin, controller
<1>3. QED
  BY <1>1, <1>2 DEF Undisturbed

-----------------------------------------------------------------------------
(* What a request relies on when it takes a step, by the step.             *)

Relies(h) ==
    /\ todo[h] # <<>>
    /\ Head(todo[h]) = "send" =>
         /\ req[h].op = "putProgram" => Idle(h)
         /\ req[h].op = "putFile" => Matched(h) /\ PortOpen(h)
    /\ Head(todo[h]) = "erase" => Spared(h)
    /\ Head(todo[h]) = "record" => Stored(h) /\ Compiled(h)
    /\ Head(todo[h]) = "forget" => Gone(h)
    /\ Head(todo[h]) = "note" => HasRead(h) /\ req[h].op = "getFile"
    /\ Head(todo[h]) = "start" /\ req[h].op = "run" => "skip" \in req[h].flags \/ Cleared(h)
    /\ Head(todo[h]) = "openDown" => req[h].op # "run" \/ req[h].name \in Name
    /\ Head(todo[h]) = "openDown" => req[h].op # "switch"
    /\ Head(todo[h]) = "load" => req[h].op \in {"load", "select"}
    /\ Head(todo[h]) = "switch" => req[h].op = "switch"
    /\ Head(todo[h]) = "findLoaded" => req[h].op = "run" /\ Tail(todo[h]) # <<>>

LEMMA PuttingRelies ==
  ASSUME NEW h \in Handler, Putting(h)
  PROVE  Relies(h)
<1>1. req[h].op = "putProgram"
  BY DEF Putting
<1>2. \/ todo[h] # <<>> /\ Head(todo[h]) \in {"absent", "seeEngine", "openUp", "commit"}
      \/ todo[h] # <<>> /\ Head(todo[h]) = "send" /\ Idle(h)
      \/ todo[h] # <<>> /\ Head(todo[h]) = "record" /\ Stored(h) /\ Compiled(h)
  BY PuttingSteps, Zenon DEF Putting, Begins
<1>3. QED
  BY <1>1, <1>2 DEF Relies

LEMMA EditingRelies ==
  ASSUME NEW h \in Handler, Editing(h)
  PROVE  Relies(h)
<1>1. req[h].op = "putFile"
  BY DEF Editing
<1>2. \/ todo[h] # <<>> /\ Head(todo[h]) \in {"openDown", "fetch", "match", "absent", "openUp"}
      \/ todo[h] # <<>> /\ Head(todo[h]) = "send" /\ Matched(h) /\ PortOpen(h)
  BY EditingSteps, Zenon DEF Editing, Begins
<1>3. QED
  BY <1>1, <1>2 DEF Relies

LEMMA EditedRelies ==
  ASSUME NEW h \in Handler, Edited(h)
  PROVE  Relies(h)
<1>1. req[h].op = "putFile" /\ Stored(h)
  BY DEF Edited
<1>2. \/ todo[h] # <<>> /\ Head(todo[h]) \in {"commit", "openDown", "fetch", "same"}
      \/ todo[h] # <<>> /\ Head(todo[h]) = "record" /\ Compiled(h)
  BY EditedSteps, Zenon DEF Edited, ToCommit, Committed, ReadingBack, Begins
<1>3. QED
  BY <1>1, <1>2 DEF Relies

LEMMA ReadingRelies ==
  ASSUME NEW h \in Handler, Reading(h)
  PROVE  Relies(h)
<1>1. req[h].op \in {"getProgram", "validate", "getFile"}
  BY DEF Reading
<1>2. \/ todo[h] # <<>> /\ Head(todo[h]) \in {"openDown", "fetch"}
      \/ todo[h] # <<>> /\ Head(todo[h]) = "note" /\ HasRead(h) /\ req[h].op = "getFile"
  BY ReadingSteps, Zenon DEF Reading, Begins
<1>3. QED
  BY <1>1, <1>2 DEF Relies

LEMMA DeletingRelies ==
  ASSUME NEW h \in Handler, Deleting(h)
  PROVE  Relies(h)
<1>1. \/ todo[h] # <<>> /\ Head(todo[h]) = "guardLoaded"
      \/ todo[h] # <<>> /\ Head(todo[h]) = "erase" /\ Spared(h)
      \/ todo[h] # <<>> /\ Head(todo[h]) = "forget" /\ Gone(h)
  BY DeletingSteps, Zenon DEF Deleting, Begins
<1>2. QED
  BY <1>1 DEF Relies

LEMMA RunningRelies ==
  ASSUME NEW h \in Handler, Running(h)
  PROVE  Relies(h)
<1>1. req[h].op = "run"
  BY DEF Running
<1>2. <<"openDown", "fetch", "fit", "start">> # <<>>
  OBVIOUS
<1>3. \/ todo[h] # <<>> /\ Head(todo[h]) \in {"clear", "fetch", "fit"}
      \/ todo[h] # <<>> /\ Head(todo[h]) = "findLoaded" /\ Tail(todo[h]) # <<>>
      \/ todo[h] # <<>> /\ Head(todo[h]) = "openDown" /\ req[h].name \in Name
      \/ todo[h] # <<>> /\ Head(todo[h]) = "start" /\ Cleared(h)
  BY <1>2, RunningSteps, Zenon DEF Running, Begins
<1>4. QED
  BY <1>1, <1>3 DEF Relies

LEMMA RunningBlindRelies ==
  ASSUME NEW h \in Handler, RunningBlind(h)
  PROVE  Relies(h)
<1>1. req[h].op = "run" /\ "skip" \in req[h].flags
  BY DEF RunningBlind
<1>2. <<"start">> # <<>>
  OBVIOUS
<1>3. \/ todo[h] # <<>> /\ Head(todo[h]) \in {"clear", "start"}
      \/ todo[h] # <<>> /\ Head(todo[h]) = "findLoaded" /\ Tail(todo[h]) # <<>>
  BY <1>2, BlindSteps, Zenon DEF RunningBlind, Begins
<1>4. QED
  BY <1>1, <1>3 DEF Relies

LEMMA OthersRely ==
  ASSUME NEW h \in Handler, Others(h)
  PROVE  Relies(h)
<1>1. \/ /\ req[h].op \in {"load", "select"}
         /\ todo[h] # <<>> /\ Head(todo[h]) \in {"load", "clear", "start"}
      \/ /\ req[h].op = "restore"
         /\ todo[h] # <<>> /\ Head(todo[h]) \in {"openUp", "send", "openDown", "fetch", "same"}
      \/ /\ req[h].op = "switch"
         /\ todo[h] # <<>> /\ Head(todo[h]) = "switch"
  BY LoadingSteps, RestoringSteps, SwitchingSteps, Zenon DEF Others, Begins
<1>2. QED
  BY <1>1 DEF Relies

LEMMA OutlineRelies ==
  ASSUME NEW h \in Handler, Outline(h)
  PROVE  Relies(h)
  BY PuttingRelies, EditingRelies, EditedRelies, ReadingRelies, DeletingRelies, RunningRelies,
     RunningBlindRelies, OthersRely, Zenon DEF Outline

-----------------------------------------------------------------------------
(* What a step does that does not end its request.                         *)

\* The step leaves the controller, what was read, and what is known.
Calm(h) == UNCHANGED <<controller, got>> /\ unseen'[h] = unseen[h]

LEMMA EndEnds ==
  ASSUME ProgramsTypeOK, NEW h \in Handler, End(h)
  PROVE  req'[h] = None
  BY DEF ProgramsTypeOK, End, Go

LEMMA GoesOn ==
  ASSUME ProgramsTypeOK, NEW h \in Handler, On(h), Tail(todo[h]) # <<>>
  PROVE  todo'[h] = Tail(todo[h]) /\ req'[h] = req[h]
  BY DEF ProgramsTypeOK, On, Go

LEMMA LastStepEnds ==
  ASSUME ProgramsTypeOK, NEW h \in Handler, On(h), Tail(todo[h]) = <<>>
  PROVE  req'[h] = None
  BY DEF ProgramsTypeOK, On, Go

LEMMA LocalStepDoes ==
  ASSUME ProgramsTypeOK, NEW h \in Handler, GatewayStep(h), ~End(h),
         Head(todo[h]) \in {"absent", "match", "same", "fit", "clear", "commit"}
  PROVE  /\ On(h) /\ Calm(h)
         /\ Head(todo[h]) = "match" => got[h] = req[h].match
         /\ Head(todo[h]) = "fit" => got[h] \in Safe
         /\ Head(todo[h]) = "commit" => file[req[h].name] \in Builds \cup {None}
<1>1. \/ Head(todo[h]) = "absent" /\ Absent(h)
      \/ Head(todo[h]) = "match" /\ Match(h)
      \/ Head(todo[h]) = "same" /\ Same(h)
      \/ Head(todo[h]) = "fit" /\ Fit(h)
      \/ Head(todo[h]) = "clear" /\ ClearOfFault(h)
      \/ Head(todo[h]) = "commit" /\ CommitFile(h)
  BY HeadTells DEF Fails
<1>2. ASSUME Sees(h, {}) PROVE unseen'[h] = unseen[h]
  <2>1. {} \in SUBSET Aspect
    OBVIOUS
  <2>2. unseen'[h] = unseen[h] \ {}
    BY <1>2, <2>1, SeenBy, Zenon
  <2>3. QED
    BY <2>2 DEF ProgramsTypeOK
<1>3. Absent(h) => On(h) /\ UNCHANGED <<controller, got>> /\ Sees(h, {})
  BY DEF Absent, Local
<1>4. Match(h) => On(h) /\ UNCHANGED <<controller, got>> /\ Sees(h, {}) /\ got[h] = req[h].match
  BY DEF Match, Local
<1>5. Same(h) => On(h) /\ UNCHANGED <<controller, got>> /\ Sees(h, {})
  BY DEF Same, Local
<1>6. Fit(h) => On(h) /\ UNCHANGED <<controller, got>> /\ Sees(h, {}) /\ got[h] \in Safe
  BY DEF Fit, Local
<1>7. ClearOfFault(h) => On(h) /\ UNCHANGED <<controller, got>> /\ Sees(h, {})
  BY DEF ClearOfFault, Reads, Answered
<1>8. CommitFile(h) => /\ On(h) /\ UNCHANGED <<controller, got>> /\ Sees(h, {})
                       /\ file[req[h].name] \in Builds \cup {None}
  BY DEF CommitFile, Reads, Answered
<1>9. QED
  BY <1>1, <1>2, <1>3, <1>4, <1>5, <1>6, <1>7, <1>8 DEF Calm

LEMMA CheckDoes ==
  ASSUME ProgramsTypeOK, NEW h \in Handler, GatewayStep(h), ~End(h),
         Head(todo[h]) \in {"seeEngine", "guardLoaded"}
  PROVE  /\ On(h) /\ UNCHANGED <<controller, got>>
         /\ Head(todo[h]) = "seeEngine" => engine = "stopped" \/ unseen'[h] = unseen[h]
         /\ Head(todo[h]) = "guardLoaded" => loaded # req[h].name \/ unseen'[h] = unseen[h]
<1>1. \/ Head(todo[h]) = "seeEngine" /\ SeeEngine(h)
      \/ Head(todo[h]) = "guardLoaded" /\ GuardLoaded(h)
  BY HeadTells DEF Fails
<1>2. ASSUME Sees(h, {}) PROVE unseen'[h] = unseen[h]
  <2>1. {} \in SUBSET Aspect
    OBVIOUS
  <2>2. unseen'[h] = unseen[h] \ {}
    BY <1>2, <2>1, SeenBy, Zenon
  <2>3. QED
    BY <2>2 DEF ProgramsTypeOK
<1>3. SeeEngine(h) => On(h) /\ UNCHANGED <<controller, got>> /\ (engine = "stopped" \/ Sees(h, {}))
  BY DEF SeeEngine, Reads
<1>4. GuardLoaded(h) =>
        On(h) /\ UNCHANGED <<controller, got>> /\ (loaded # req[h].name \/ Sees(h, {}))
  BY DEF GuardLoaded, Reads
<1>5. QED
  BY <1>1, <1>2, <1>3, <1>4

LEMMA DownloadDoes ==
  ASSUME ProgramsTypeOK, NEW h \in Handler, GatewayStep(h), ~End(h)
  PROVE  /\ Head(todo[h]) = "openDown" =>
              /\ On(h)
              /\ downSlot' = file[req[h].name] /\ downSlot' # None
              /\ UNCHANGED <<file, loaded, engine, upSlot, got>>
              /\ unseen'[h] = unseen[h] \ (IF ForReadback(h) THEN {"down"} ELSE {"files", "down"})
         /\ Head(todo[h]) = "fetch" =>
              /\ On(h)
              /\ got'[h] = downSlot
              /\ UNCHANGED controller /\ unseen'[h] = unseen[h]
<1>0. {} \in SUBSET Aspect /\ {"down"} \in SUBSET Aspect /\ {"files", "down"} \in SUBSET Aspect
  BY DEF Aspect
<1>1. ASSUME Head(todo[h]) = "openDown"
      PROVE  /\ On(h)
             /\ downSlot' = file[req[h].name] /\ downSlot' # None
             /\ UNCHANGED <<file, loaded, engine, upSlot, got>>
             /\ unseen'[h] = unseen[h] \ (IF ForReadback(h) THEN {"down"} ELSE {"files", "down"})
  <2>1. OpenDown(h)
    BY <1>1, HeadTells DEF Fails
  <2>2. Sees(h, IF ForReadback(h) THEN {"down"} ELSE {"files", "down"})
    BY <2>1 DEF OpenDown
  <2>3. unseen'[h] = unseen[h] \ (IF ForReadback(h) THEN {"down"} ELSE {"files", "down"})
    BY <1>0, <2>2, SeenBy
  <2>4. QED
    BY <2>1, <2>3 DEF OpenDown, Answered
<1>2. ASSUME Head(todo[h]) = "fetch"
      PROVE  /\ On(h)
             /\ got'[h] = downSlot
             /\ UNCHANGED controller /\ unseen'[h] = unseen[h]
  <2>1. Fetch(h)
    BY <1>2, HeadTells DEF Fails
  <2>2. unseen'[h] = unseen[h] \ {}
    BY <1>0, <2>1, SeenBy, Zenon DEF Fetch
  <2>3. QED
    BY <2>1, <2>2 DEF Fetch, Reads, ProgramsTypeOK
<1>3. QED
  BY <1>1, <1>2

LEMMA UploadDoes ==
  ASSUME ProgramsTypeOK, NEW h \in Handler, GatewayStep(h), ~End(h)
  PROVE  /\ Head(todo[h]) = "openUp" =>
              /\ On(h)
              /\ upSlot' = req[h].name
              /\ UNCHANGED <<file, loaded, engine, downSlot, got>>
              /\ unseen'[h] = unseen[h] \ {"up"}
         /\ Head(todo[h]) = "send" =>
              /\ On(h)
              /\ file' = [file EXCEPT ![upSlot] = req[h].body]
              /\ UNCHANGED <<loaded, upSlot, downSlot, got>>
              /\ unseen'[h] = unseen[h] \ {"files"}
         /\ Head(todo[h]) = "erase" =>
              /\ On(h)
              /\ file' = [file EXCEPT ![req[h].name] = None]
              /\ UNCHANGED <<loaded, upSlot, downSlot, got>>
              /\ unseen'[h] = unseen[h] \ {"files"}
<1>0. {"up"} \in SUBSET Aspect /\ {"files"} \in SUBSET Aspect
  BY DEF Aspect
<1>1. Head(todo[h]) = "openUp" => OpenUp(h)
  BY HeadTells DEF Fails
<1>2. Head(todo[h]) = "send" => Send(h)
  BY HeadTells DEF Fails
<1>3. Head(todo[h]) = "erase" => Erase(h)
  BY HeadTells DEF Fails
<1>4. OpenUp(h) => unseen'[h] = unseen[h] \ {"up"}
  BY <1>0, SeenBy, Zenon DEF OpenUp
<1>5. Send(h) => unseen'[h] = unseen[h] \ {"files"}
  BY <1>0, SeenBy, Zenon DEF Send
<1>6. Erase(h) => unseen'[h] = unseen[h] \ {"files"}
  BY <1>0, SeenBy, Zenon DEF Erase
<1>7. QED
  BY <1>1, <1>2, <1>3, <1>4, <1>5, <1>6 DEF OpenUp, Send, Erase, Answered

LEMMA FindLoadedDoes ==
  ASSUME ProgramsTypeOK, NEW h \in Handler, GatewayStep(h), ~End(h),
         Head(todo[h]) = "findLoaded", req[h] \in Request
  PROVE  /\ todo'[h] = Tail(todo[h])
         /\ req' = [req EXCEPT ![h].name = loaded]
         /\ loaded \in Name
         /\ req'[h] \in Request
         /\ req'[h].name = loaded /\ req'[h].op = req[h].op /\ req'[h].flags = req[h].flags
         /\ req'[h].body = req[h].body /\ req'[h].match = req[h].match
         /\ UNCHANGED <<controller, got>>
<1>1. FindLoaded(h)
  BY HeadTells DEF Fails
<1>2. loaded \in Lua
  BY <1>1 DEF FindLoaded, ProgramsTypeOK
<1>3. /\ todo' = [todo EXCEPT ![h] = Tail(@)] /\ req' = [req EXCEPT ![h].name = loaded]
      /\ UNCHANGED <<controller, got>>
  BY <1>1, <1>2, ProgramsAssumption DEF FindLoaded, Reads, Name
<1>4. todo'[h] = Tail(todo[h]) /\ req'[h] = [req[h] EXCEPT !.name = loaded]
  BY <1>3 DEF ProgramsTypeOK
<1>5. QED
  BY <1>2, <1>3, <1>4 DEF Request, Name

LEMMA CallDoes ==
  ASSUME ProgramsTypeOK, NEW h \in Handler, GatewayStep(h), ~End(h),
         Head(todo[h]) \in {"record", "note", "forget", "load", "start", "switch"}
  PROVE  On(h)
<1>1. Record(h) \/ Note(h) \/ Forget(h) \/ Load(h) \/ Start(h) \/ Switch(h)
  BY HeadTells DEF Fails
<1>2. QED
  BY <1>1 DEF Record, Note, Forget, Load, Start, Switch, Answered

-----------------------------------------------------------------------------
(* A request's own steps take it along its outline.                        *)

LEMMA PuttingGoesOn ==
  ASSUME ProgramsTypeOK, NEW h \in Handler, GatewayStep(h), Putting(h), Sendable(req[h])
  PROVE  req'[h] = None \/ Outline(h)'
<1>0. SUFFICES ASSUME ~End(h), req'[h] # None PROVE Putting(h)'
  BY EndEnds, Zenon DEF Outline
<1>1. req[h].op = "putProgram"
  BY DEF Putting
<1>a. req[h].name \in Name /\ req[h].body \in Content
  BY <1>1 DEF Sendable
<1>2. CASE /\ todo[h] = <<"absent", "seeEngine", "openUp", "send", "commit", "record">>
           /\ "engine" \in unseen[h]
  <2>1. /\ Head(todo[h]) = "absent"
        /\ Tail(todo[h]) = <<"seeEngine", "openUp", "send", "commit", "record">>
        /\ Tail(todo[h]) # <<>>
    BY <1>2, PuttingSteps, Zenon DEF Begins
  <2>2. On(h) /\ Calm(h)
    BY <1>0, <2>1, LocalStepDoes
  <2>3. /\ todo'[h] = <<"seeEngine", "openUp", "send", "commit", "record">> /\ req'[h] = req[h]
        /\ "engine" \in unseen'[h]
    BY <1>2, <2>1, <2>2, GoesOn, Zenon DEF Calm
  <2>4. QED
    BY <1>1, <2>3, Zenon DEF Putting
<1>3. CASE /\ todo[h] = <<"seeEngine", "openUp", "send", "commit", "record">>
           /\ "engine" \in unseen[h]
  <2>1. /\ Head(todo[h]) = "seeEngine"
        /\ Tail(todo[h]) = <<"openUp", "send", "commit", "record">>
        /\ Tail(todo[h]) # <<>>
    BY <1>3, PuttingSteps, Zenon DEF Begins
  <2>2. On(h) /\ engine' = engine /\ (engine = "stopped" \/ unseen'[h] = unseen[h])
    BY <1>0, <2>1, CheckDoes DEF controller
  <2>3. Idle(h)'
    BY <1>3, <2>2 DEF Idle, Knows
  <2>4. todo'[h] = <<"openUp", "send", "commit", "record">> /\ req'[h] = req[h]
    BY <2>1, <2>2, GoesOn, Zenon
  <2>5. QED
    BY <1>1, <2>3, <2>4, Zenon DEF Putting
<1>4. CASE todo[h] = <<"openUp", "send", "commit", "record">> /\ Idle(h)
  <2>1. /\ Head(todo[h]) = "openUp" /\ Tail(todo[h]) = <<"send", "commit", "record">>
        /\ Tail(todo[h]) # <<>>
    BY <1>4, PuttingSteps, Zenon DEF Begins
  <2>2. On(h) /\ upSlot' = req[h].name /\ engine' = engine /\ unseen'[h] = unseen[h] \ {"up"}
    BY <1>0, <2>1, UploadDoes
  <2>3. todo'[h] = <<"send", "commit", "record">> /\ req'[h] = req[h]
    BY <2>1, <2>2, GoesOn, Zenon
  <2>4. Idle(h)' /\ PortOpen(h)'
    BY <1>4, <2>2, <2>3 DEF Idle, PortOpen, Knows
  <2>5. QED
    BY <1>1, <2>3, <2>4, Zenon DEF Putting
<1>5. CASE todo[h] = <<"send", "commit", "record">> /\ PortOpen(h)
  <2>1. Head(todo[h]) = "send" /\ Tail(todo[h]) = <<"commit", "record">> /\ Tail(todo[h]) # <<>>
    BY <1>5, PuttingSteps, Zenon DEF Begins
  <2>2. /\ On(h) /\ file' = [file EXCEPT ![upSlot] = req[h].body] /\ upSlot' = upSlot
        /\ unseen'[h] = unseen[h] \ {"files"}
    BY <1>0, <2>1, UploadDoes
  <2>3. todo'[h] = <<"commit", "record">> /\ req'[h] = req[h]
    BY <2>1, <2>2, GoesOn, Zenon
  <2>4. Stored(h)'
    BY <1>5, <1>a, <2>2, <2>3 DEF Stored, PortOpen, Knows, ProgramsTypeOK
  <2>5. QED
    BY <1>1, <2>3, <2>4, Zenon DEF Putting
<1>6. CASE todo[h] = <<"commit", "record">> /\ Stored(h)
  <2>1. Head(todo[h]) = "commit" /\ Tail(todo[h]) = <<"record">> /\ Tail(todo[h]) # <<>>
    BY <1>6, PuttingSteps, Zenon DEF Begins
  <2>2. On(h) /\ Calm(h) /\ file[req[h].name] \in Builds \cup {None}
    BY <1>0, <2>1, LocalStepDoes
  <2>3. todo'[h] = <<"record">> /\ req'[h] = req[h]
    BY <2>1, <2>2, GoesOn, Zenon
  <2>4. Stored(h)' /\ Compiled(h)'
    BY <1>6, <1>a, <2>2, <2>3, ProgramsAssumption DEF Stored, Compiled, Knows, Calm, controller
  <2>5. QED
    BY <1>1, <2>3, <2>4, Zenon DEF Putting
<1>7. CASE todo[h] = <<"record">>
  <2>1. Head(todo[h]) = "record" /\ Tail(todo[h]) = <<>>
    BY <1>7, PuttingSteps, Zenon DEF Begins
  <2>2. On(h)
    BY <1>0, <2>1, CallDoes
  <2>3. QED
    BY <1>0, <2>1, <2>2, LastStepEnds, Zenon
<1>8. QED
  BY <1>2, <1>3, <1>4, <1>5, <1>6, <1>7, Zenon DEF Putting

LEMMA EditingGoesOn ==
  ASSUME ProgramsTypeOK, NEW h \in Handler, GatewayStep(h), Editing(h), Sendable(req[h])
  PROVE  req'[h] = None \/ Outline(h)'
<1>0. SUFFICES ASSUME ~End(h), req'[h] # None PROVE Editing(h)' \/ Edited(h)'
  BY EndEnds, Zenon DEF Outline
<1>1. req[h].op = "putFile"
  BY DEF Editing
<1>a. req[h].name \in Name /\ req[h].body \in Content
  BY <1>1 DEF Sendable
<1>b. PICK c \in ToCommit \cup Committed :
         /\ req[h].name \in Lua => c \in ToCommit
         /\ \/ todo[h] = <<"openDown", "fetch", "match", "openUp", "send">> \o c
            \/ todo[h] = <<"fetch", "match", "openUp", "send">> \o c /\ Offered(h)
            \/ todo[h] = <<"match", "openUp", "send">> \o c /\ HasRead(h)
            \/ todo[h] = <<"absent", "openUp", "send">> \o c /\ req[h].match = None
            \/ todo[h] = <<"openUp", "send">> \o c /\ Matched(h)
            \/ todo[h] = <<"send">> \o c /\ Matched(h) /\ PortOpen(h)
  BY Zenon DEF Editing
<1>c. c \in ToCommit \cup Committed
  BY <1>b
<1>2. CASE todo[h] = <<"openDown", "fetch", "match", "openUp", "send">> \o c
  <2>1. /\ Head(todo[h]) = "openDown"
        /\ Tail(todo[h]) = <<"fetch", "match", "openUp", "send">> \o c
        /\ Tail(todo[h]) # <<>>
    <3>1. Begins(todo[h], "openDown", <<"fetch", "match", "openUp", "send">> \o c)
      BY <1>2, <1>c, EditingSteps
    <3>2. <<"fetch", "match", "openUp", "send">> \o c # <<>>
      BY <1>c, EditingSteps DEF Begins
    <3>3. QED
      BY <3>1, <3>2, Zenon DEF Begins
  <2>2. On(h) /\ downSlot' = file[req[h].name] /\ downSlot' # None /\ file' = file
    BY <1>0, <2>1, DownloadDoes
  <2>3. todo'[h] = <<"fetch", "match", "openUp", "send">> \o c /\ req'[h] = req[h]
    BY <2>1, <2>2, GoesOn, Zenon
  <2>4. Offered(h)'
    BY <2>2, <2>3 DEF Offered
  <2>5. QED
    BY <1>1, <1>b, <2>3, <2>4, Zenon DEF Editing
<1>3. CASE todo[h] = <<"fetch", "match", "openUp", "send">> \o c /\ Offered(h)
  <2>1. /\ Head(todo[h]) = "fetch" /\ Tail(todo[h]) = <<"match", "openUp", "send">> \o c
        /\ Tail(todo[h]) # <<>>
    <3>1. Begins(todo[h], "fetch", <<"match", "openUp", "send">> \o c)
      BY <1>3, <1>c, EditingSteps
    <3>2. <<"match", "openUp", "send">> \o c # <<>>
      BY <1>c, EditingSteps DEF Begins
    <3>3. QED
      BY <3>1, <3>2, Zenon DEF Begins
  <2>2. On(h) /\ got'[h] = downSlot /\ file' = file /\ unseen'[h] = unseen[h]
    BY <1>0, <2>1, DownloadDoes DEF controller
  <2>3. todo'[h] = <<"match", "openUp", "send">> \o c /\ req'[h] = req[h]
    BY <2>1, <2>2, GoesOn, Zenon
  <2>4. HasRead(h)'
    BY <1>3, <2>2, <2>3 DEF Offered, HasRead, Knows
  <2>5. QED
    BY <1>1, <1>b, <2>3, <2>4, Zenon DEF Editing
<1>4. CASE todo[h] = <<"match", "openUp", "send">> \o c /\ HasRead(h)
  <2>1. /\ Head(todo[h]) = "match" /\ Tail(todo[h]) = <<"openUp", "send">> \o c
        /\ Tail(todo[h]) # <<>>
    <3>1. Begins(todo[h], "match", <<"openUp", "send">> \o c)
      BY <1>4, <1>c, EditingSteps
    <3>2. <<"openUp", "send">> \o c # <<>>
      BY <1>c, EditingSteps DEF Begins
    <3>3. QED
      BY <3>1, <3>2, Zenon DEF Begins
  <2>2. On(h) /\ Calm(h) /\ got[h] = req[h].match
    BY <1>0, <2>1, LocalStepDoes
  <2>3. todo'[h] = <<"openUp", "send">> \o c /\ req'[h] = req[h]
    BY <2>1, <2>2, GoesOn, Zenon
  <2>4. Matched(h)'
    BY <1>4, <2>2, <2>3 DEF Matched, HasRead, Knows, Calm, controller
  <2>5. QED
    BY <1>1, <1>b, <2>3, <2>4, Zenon DEF Editing
<1>5. CASE todo[h] = <<"absent", "openUp", "send">> \o c /\ req[h].match = None
  <2>1. /\ Head(todo[h]) = "absent" /\ Tail(todo[h]) = <<"openUp", "send">> \o c
        /\ Tail(todo[h]) # <<>>
    <3>1. Begins(todo[h], "absent", <<"openUp", "send">> \o c)
      BY <1>5, <1>c, EditingSteps
    <3>2. <<"openUp", "send">> \o c # <<>>
      BY <1>c, EditingSteps DEF Begins
    <3>3. QED
      BY <3>1, <3>2, Zenon DEF Begins
  <2>2. On(h)
    BY <1>0, <2>1, LocalStepDoes
  <2>3. todo'[h] = <<"openUp", "send">> \o c /\ req'[h] = req[h]
    BY <2>1, <2>2, GoesOn, Zenon
  <2>4. Matched(h)'
    BY <1>5, <2>3 DEF Matched
  <2>5. QED
    BY <1>1, <1>b, <2>3, <2>4, Zenon DEF Editing
<1>6. CASE todo[h] = <<"openUp", "send">> \o c /\ Matched(h)
  <2>1. Head(todo[h]) = "openUp" /\ Tail(todo[h]) = <<"send">> \o c /\ Tail(todo[h]) # <<>>
    <3>1. Begins(todo[h], "openUp", <<"send">> \o c)
      BY <1>6, <1>c, EditingSteps
    <3>2. <<"send">> \o c # <<>>
      BY <1>c, EditingSteps DEF Begins
    <3>3. QED
      BY <3>1, <3>2, Zenon DEF Begins
  <2>2. On(h) /\ upSlot' = req[h].name /\ file' = file /\ unseen'[h] = unseen[h] \ {"up"}
    BY <1>0, <2>1, UploadDoes
  <2>3. todo'[h] = <<"send">> \o c /\ req'[h] = req[h]
    BY <2>1, <2>2, GoesOn, Zenon
  <2>4. Matched(h)' /\ PortOpen(h)'
    BY <1>6, <2>2, <2>3 DEF Matched, PortOpen, Knows
  <2>5. QED
    BY <1>1, <1>b, <2>3, <2>4, Zenon DEF Editing
<1>7. CASE todo[h] = <<"send">> \o c /\ PortOpen(h)
  <2>1. Head(todo[h]) = "send" /\ Tail(todo[h]) = c /\ Tail(todo[h]) # <<>>
    <3>1. Begins(todo[h], "send", c)
      BY <1>7, <1>c, EditingSteps
    <3>2. c # <<>>
      BY <1>c, EditingSteps DEF Begins
    <3>3. QED
      BY <3>1, <3>2, Zenon DEF Begins
  <2>2. /\ On(h) /\ file' = [file EXCEPT ![upSlot] = req[h].body] /\ upSlot' = upSlot
        /\ unseen'[h] = unseen[h] \ {"files"}
    BY <1>0, <2>1, UploadDoes
  <2>3. todo'[h] = c /\ req'[h] = req[h]
    BY <2>1, <2>2, GoesOn, Zenon
  <2>4. Stored(h)'
    BY <1>7, <1>a, <2>2, <2>3 DEF Stored, PortOpen, Knows, ProgramsTypeOK
  <2>5. c \in ToCommit \/ Compiled(h)'
    BY <1>b, <2>3 DEF Compiled
  <2>6. c \in ToCommit \/ c \in Committed \cup ReadingBack
    BY <1>b
  <2>7. QED
    BY <1>1, <2>3, <2>4, <2>5, <2>6, Zenon DEF Edited
<1>8. QED
  BY <1>b, <1>2, <1>3, <1>4, <1>5, <1>6, <1>7, Zenon

LEMMA EditedGoesOn ==
  ASSUME ProgramsTypeOK, NEW h \in Handler, GatewayStep(h), Edited(h), Sendable(req[h])
  PROVE  req'[h] = None \/ Outline(h)'
<1>0. SUFFICES ASSUME ~End(h), req'[h] # None PROVE Edited(h)'
  BY EndEnds, Zenon DEF Outline
<1>1. req[h].op = "putFile" /\ Stored(h)
  BY DEF Edited
<1>a. req[h].name \in Name /\ req[h].body \in Content
  BY <1>1 DEF Sendable
<1>2. CASE todo[h] \in ToCommit
  <2>1. /\ Head(todo[h]) = "commit" /\ Tail(todo[h]) \in Committed
        /\ Tail(todo[h]) # <<>>
    BY <1>2, EditedSteps, Zenon DEF Begins, ToCommit, Committed
  <2>2. On(h) /\ Calm(h) /\ file[req[h].name] \in Builds \cup {None}
    BY <1>0, <2>1, LocalStepDoes
  <2>3. todo'[h] \in Committed \cup ReadingBack /\ req'[h] = req[h]
    BY <2>1, <2>2, GoesOn, Zenon
  <2>4. Stored(h)' /\ Compiled(h)'
    BY <1>1, <1>a, <2>2, <2>3, ProgramsAssumption DEF Stored, Compiled, Knows, Calm, controller
  <2>5. QED
    BY <1>1, <2>3, <2>4, Zenon DEF Edited
<1>3. CASE todo[h] = <<"openDown", "fetch", "same", "record">> /\ Compiled(h)
  <2>1. /\ Head(todo[h]) = "openDown" /\ Tail(todo[h]) = <<"fetch", "same", "record">>
        /\ Tail(todo[h]) # <<>>
    BY <1>3, EditedSteps, Zenon DEF Begins
  <2>2. ForReadback(h)
    BY <1>3 DEF ForReadback
  <2>3. On(h) /\ file' = file /\ unseen'[h] = unseen[h] \ {"down"}
    BY <1>0, <2>1, <2>2, DownloadDoes
  <2>4. todo'[h] \in Committed \cup ReadingBack /\ req'[h] = req[h]
    BY <2>1, <2>3, GoesOn, Zenon DEF ReadingBack
  <2>5. Stored(h)' /\ Compiled(h)'
    BY <1>1, <1>3, <2>3, <2>4 DEF Stored, Compiled, Knows
  <2>6. QED
    BY <1>1, <2>4, <2>5, Zenon DEF Edited
<1>4. CASE todo[h] = <<"fetch", "same", "record">> /\ Compiled(h)
  <2>1. Head(todo[h]) = "fetch" /\ Tail(todo[h]) = <<"same", "record">> /\ Tail(todo[h]) # <<>>
    BY <1>4, EditedSteps, Zenon DEF Begins
  <2>2. On(h) /\ file' = file /\ unseen'[h] = unseen[h]
    BY <1>0, <2>1, DownloadDoes DEF controller
  <2>3. todo'[h] \in Committed \cup ReadingBack /\ req'[h] = req[h]
    BY <2>1, <2>2, GoesOn, Zenon DEF ReadingBack
  <2>4. Stored(h)' /\ Compiled(h)'
    BY <1>1, <1>4, <2>2, <2>3 DEF Stored, Compiled, Knows
  <2>5. QED
    BY <1>1, <2>3, <2>4, Zenon DEF Edited
<1>5. CASE todo[h] = <<"same", "record">> /\ Compiled(h)
  <2>1. Head(todo[h]) = "same" /\ Tail(todo[h]) = <<"record">> /\ Tail(todo[h]) # <<>>
    BY <1>5, EditedSteps, Zenon DEF Begins
  <2>2. On(h) /\ Calm(h)
    BY <1>0, <2>1, LocalStepDoes
  <2>3. todo'[h] \in Committed \cup ReadingBack /\ req'[h] = req[h]
    BY <2>1, <2>2, GoesOn, Zenon DEF Committed
  <2>4. Stored(h)' /\ Compiled(h)'
    BY <1>1, <1>5, <2>2, <2>3 DEF Stored, Compiled, Knows, Calm, controller
  <2>5. QED
    BY <1>1, <2>3, <2>4, Zenon DEF Edited
<1>6. CASE todo[h] = <<"record">>
  <2>1. Head(todo[h]) = "record" /\ Tail(todo[h]) = <<>>
    BY <1>6, EditedSteps, Zenon DEF Begins
  <2>2. On(h)
    BY <1>0, <2>1, CallDoes
  <2>3. QED
    BY <1>0, <2>1, <2>2, LastStepEnds, Zenon
<1>7. QED
  BY <1>2, <1>3, <1>4, <1>5, <1>6, Zenon DEF Edited, Committed, ReadingBack

LEMMA ReadingGoesOn ==
  ASSUME ProgramsTypeOK, NEW h \in Handler, GatewayStep(h), Reading(h)
  PROVE  req'[h] = None \/ Outline(h)'
<1>0. SUFFICES ASSUME ~End(h), req'[h] # None PROVE Reading(h)'
  BY EndEnds, Zenon DEF Outline
<1>1. CASE req[h].op \in {"getProgram", "validate"} /\ todo[h] = <<"openDown", "fetch">>
  <2>1. Head(todo[h]) = "openDown" /\ Tail(todo[h]) = <<"fetch">> /\ Tail(todo[h]) # <<>>
    BY <1>1, ReadingSteps, Zenon DEF Begins
  <2>2. On(h)
    BY <1>0, <2>1, DownloadDoes
  <2>3. QED
    BY <1>1, <2>1, <2>2, GoesOn, Zenon DEF Reading
<1>2. CASE todo[h] = <<"fetch">> \/ todo[h] = <<"note">>
  <2>1. (Head(todo[h]) = "fetch" \/ Head(todo[h]) = "note") /\ Tail(todo[h]) = <<>>
    BY <1>2, ReadingSteps, Zenon DEF Begins
  <2>2. On(h)
    BY <1>0, <2>1, DownloadDoes, CallDoes
  <2>3. QED
    BY <1>0, <2>1, <2>2, LastStepEnds, Zenon
<1>3. CASE req[h].op = "getFile" /\ todo[h] = <<"openDown", "fetch", "note">>
  <2>1. Head(todo[h]) = "openDown" /\ Tail(todo[h]) = <<"fetch", "note">> /\ Tail(todo[h]) # <<>>
    BY <1>3, ReadingSteps, Zenon DEF Begins
  <2>2. On(h) /\ downSlot' = file[req[h].name] /\ downSlot' # None /\ file' = file
    BY <1>0, <2>1, DownloadDoes
  <2>3. todo'[h] = <<"fetch", "note">> /\ req'[h] = req[h]
    BY <2>1, <2>2, GoesOn, Zenon
  <2>4. Offered(h)'
    BY <2>2, <2>3 DEF Offered
  <2>5. QED
    BY <1>3, <2>3, <2>4, Zenon DEF Reading
<1>4. CASE req[h].op = "getFile" /\ todo[h] = <<"fetch", "note">> /\ Offered(h)
  <2>1. Head(todo[h]) = "fetch" /\ Tail(todo[h]) = <<"note">> /\ Tail(todo[h]) # <<>>
    BY <1>4, ReadingSteps, Zenon DEF Begins
  <2>2. On(h) /\ got'[h] = downSlot /\ file' = file /\ unseen'[h] = unseen[h]
    BY <1>0, <2>1, DownloadDoes DEF controller
  <2>3. todo'[h] = <<"note">> /\ req'[h] = req[h]
    BY <2>1, <2>2, GoesOn, Zenon
  <2>4. HasRead(h)'
    BY <1>4, <2>2, <2>3 DEF Offered, HasRead, Knows
  <2>5. QED
    BY <1>4, <2>3, <2>4, Zenon DEF Reading
<1>5. QED
  BY <1>1, <1>2, <1>3, <1>4, Zenon DEF Reading

LEMMA DeletingGoesOn ==
  ASSUME ProgramsTypeOK, NEW h \in Handler, GatewayStep(h), Deleting(h), Sendable(req[h])
  PROVE  req'[h] = None \/ Outline(h)'
<1>0. SUFFICES ASSUME ~End(h), req'[h] # None PROVE Deleting(h)'
  BY EndEnds, Zenon DEF Outline
<1>1. req[h].op = "delete"
  BY DEF Deleting
<1>a. req[h].name \in Name
  BY <1>1 DEF Sendable
<1>2. CASE todo[h] = <<"guardLoaded", "erase", "forget">> /\ "loaded" \in unseen[h]
  <2>1. /\ Head(todo[h]) = "guardLoaded" /\ Tail(todo[h]) = <<"erase", "forget">>
        /\ Tail(todo[h]) # <<>>
    BY <1>2, DeletingSteps, Zenon DEF Begins
  <2>2. On(h) /\ loaded' = loaded /\ (loaded # req[h].name \/ unseen'[h] = unseen[h])
    BY <1>0, <2>1, CheckDoes DEF controller
  <2>3. todo'[h] = <<"erase", "forget">> /\ req'[h] = req[h]
    BY <2>1, <2>2, GoesOn, Zenon
  <2>4. Spared(h)'
    BY <1>2, <2>2, <2>3 DEF Spared, Knows
  <2>5. QED
    BY <1>1, <2>3, <2>4, Zenon DEF Deleting
<1>3. CASE todo[h] = <<"erase", "forget">>
  <2>1. Head(todo[h]) = "erase" /\ Tail(todo[h]) = <<"forget">> /\ Tail(todo[h]) # <<>>
    BY <1>3, DeletingSteps, Zenon DEF Begins
  <2>2. On(h) /\ file' = [file EXCEPT ![req[h].name] = None]
    BY <1>0, <2>1, UploadDoes
  <2>3. todo'[h] = <<"forget">> /\ req'[h] = req[h]
    BY <2>1, <2>2, GoesOn, Zenon
  <2>4. Gone(h)'
    BY <1>a, <2>2, <2>3 DEF Gone, ProgramsTypeOK
  <2>5. QED
    BY <1>1, <2>3, <2>4, Zenon DEF Deleting
<1>4. CASE todo[h] = <<"forget">>
  <2>1. Head(todo[h]) = "forget" /\ Tail(todo[h]) = <<>>
    BY <1>4, DeletingSteps, Zenon DEF Begins
  <2>2. On(h)
    BY <1>0, <2>1, CallDoes
  <2>3. QED
    BY <1>0, <2>1, <2>2, LastStepEnds, Zenon
<1>5. QED
  BY <1>2, <1>3, <1>4, Zenon DEF Deleting

LEMMA RunningGoesOn ==
  ASSUME ProgramsTypeOK, NEW h \in Handler, GatewayStep(h), Running(h), req[h] \in Request
  PROVE  req'[h] = None \/ Outline(h)'
<1>0. SUFFICES ASSUME ~End(h), req'[h] # None PROVE Running(h)'
  BY EndEnds, Zenon DEF Outline
<1>1. req[h].op = "run"
  BY DEF Running
<1>2. CASE todo[h] = <<"clear", "findLoaded", "openDown", "fetch", "fit", "start">>
  <2>1. /\ Head(todo[h]) = "clear"
        /\ Tail(todo[h]) = <<"findLoaded", "openDown", "fetch", "fit", "start">>
        /\ Tail(todo[h]) # <<>>
    BY <1>2, RunningSteps, Zenon DEF Begins
  <2>2. On(h)
    BY <1>0, <2>1, LocalStepDoes
  <2>3. QED
    BY <1>1, <2>1, <2>2, GoesOn, Zenon DEF Running
<1>3. CASE todo[h] = <<"findLoaded", "openDown", "fetch", "fit", "start">>
  <2>1. /\ Head(todo[h]) = "findLoaded"
        /\ Tail(todo[h]) = <<"openDown", "fetch", "fit", "start">>
    BY <1>3, RunningSteps, Zenon DEF Begins
  <2>2. /\ todo'[h] = Tail(todo[h])
        /\ req'[h].op = req[h].op /\ req'[h].name = loaded /\ loaded \in Name
        /\ loaded' = loaded
    BY <1>0, <2>1, FindLoadedDoes DEF controller
  <2>3. Named(h)'
    BY <2>2 DEF Named
  <2>4. QED
    BY <1>1, <2>1, <2>2, <2>3, Zenon DEF Running
<1>4. CASE todo[h] = <<"openDown", "fetch", "fit", "start">> /\ req[h].name \in Name /\ Named(h)
  <2>1. /\ Head(todo[h]) = "openDown" /\ Tail(todo[h]) = <<"fetch", "fit", "start">>
        /\ Tail(todo[h]) # <<>>
    BY <1>4, RunningSteps, Zenon DEF Begins
  <2>2. /\ On(h) /\ downSlot' = file[req[h].name] /\ downSlot' # None
        /\ file' = file /\ loaded' = loaded
        /\ unseen'[h] = unseen[h] \ (IF ForReadback(h) THEN {"down"} ELSE {"files", "down"})
    BY <1>0, <2>1, DownloadDoes
  <2>3. todo'[h] = <<"fetch", "fit", "start">> /\ req'[h] = req[h]
    BY <2>1, <2>2, GoesOn, Zenon
  <2>4. Offered(h)' /\ Named(h)'
    BY <1>4, <2>2, <2>3 DEF Offered, Named, Knows
  <2>5. QED
    BY <1>1, <1>4, <2>3, <2>4, Zenon DEF Running
<1>5. CASE todo[h] = <<"fetch", "fit", "start">> /\ req[h].name \in Name /\ Named(h) /\ Offered(h)
  <2>1. Head(todo[h]) = "fetch" /\ Tail(todo[h]) = <<"fit", "start">> /\ Tail(todo[h]) # <<>>
    BY <1>5, RunningSteps, Zenon DEF Begins
  <2>2. /\ On(h) /\ got'[h] = downSlot /\ file' = file /\ loaded' = loaded
        /\ unseen'[h] = unseen[h]
    BY <1>0, <2>1, DownloadDoes DEF controller
  <2>3. todo'[h] = <<"fit", "start">> /\ req'[h] = req[h]
    BY <2>1, <2>2, GoesOn, Zenon
  <2>4. HasRead(h)' /\ Named(h)'
    BY <1>5, <2>2, <2>3 DEF Offered, HasRead, Named, Knows
  <2>5. QED
    BY <1>1, <1>5, <2>3, <2>4, Zenon DEF Running
<1>6. CASE todo[h] = <<"fit", "start">> /\ req[h].name \in Name /\ Named(h) /\ HasRead(h)
  <2>1. Head(todo[h]) = "fit" /\ Tail(todo[h]) = <<"start">> /\ Tail(todo[h]) # <<>>
    BY <1>6, RunningSteps, Zenon DEF Begins
  <2>2. On(h) /\ Calm(h) /\ got[h] \in Safe
    BY <1>0, <2>1, LocalStepDoes
  <2>3. todo'[h] = <<"start">> /\ req'[h] = req[h]
    BY <2>1, <2>2, GoesOn, Zenon
  <2>4. req[h].name # None
    BY <1>6, ProgramsAssumption
  <2>5. Cleared(h)'
    BY <1>6, <2>2, <2>4 DEF Cleared, HasRead, Named, Knows, Calm, controller
  <2>6. QED
    BY <1>1, <2>3, <2>5, Zenon DEF Running
<1>7. CASE todo[h] = <<"start">>
  <2>1. Head(todo[h]) = "start" /\ Tail(todo[h]) = <<>>
    BY <1>7, RunningSteps, Zenon DEF Begins
  <2>2. On(h)
    BY <1>0, <2>1, CallDoes
  <2>3. QED
    BY <1>0, <2>1, <2>2, LastStepEnds, Zenon
<1>8. QED
  BY <1>2, <1>3, <1>4, <1>5, <1>6, <1>7, Zenon DEF Running

LEMMA RunningBlindGoesOn ==
  ASSUME ProgramsTypeOK, NEW h \in Handler, GatewayStep(h), RunningBlind(h), req[h] \in Request
  PROVE  req'[h] = None \/ Outline(h)'
<1>0. SUFFICES ASSUME ~End(h), req'[h] # None PROVE RunningBlind(h)'
  BY EndEnds, Zenon DEF Outline
<1>1. req[h].op = "run" /\ "skip" \in req[h].flags
  BY DEF RunningBlind
<1>2. CASE todo[h] = <<"clear", "findLoaded", "start">>
  <2>1. /\ Head(todo[h]) = "clear" /\ Tail(todo[h]) = <<"findLoaded", "start">>
        /\ Tail(todo[h]) # <<>>
    BY <1>2, BlindSteps, Zenon DEF Begins
  <2>2. On(h)
    BY <1>0, <2>1, LocalStepDoes
  <2>3. QED
    BY <1>1, <2>1, <2>2, GoesOn, Zenon DEF RunningBlind
<1>3. CASE todo[h] = <<"findLoaded", "start">>
  <2>1. Head(todo[h]) = "findLoaded" /\ Tail(todo[h]) = <<"start">>
    BY <1>3, BlindSteps, Zenon DEF Begins
  <2>2. todo'[h] = Tail(todo[h]) /\ req'[h].op = req[h].op /\ req'[h].flags = req[h].flags
    BY <1>0, <2>1, FindLoadedDoes
  <2>3. QED
    BY <1>1, <2>1, <2>2, Zenon DEF RunningBlind
<1>4. CASE todo[h] = <<"start">>
  <2>1. Head(todo[h]) = "start" /\ Tail(todo[h]) = <<>>
    BY <1>4, BlindSteps, Zenon DEF Begins
  <2>2. On(h)
    BY <1>0, <2>1, CallDoes
  <2>3. QED
    BY <1>0, <2>1, <2>2, LastStepEnds, Zenon
<1>5. QED
  BY <1>2, <1>3, <1>4, Zenon DEF RunningBlind

LEMMA OthersGoOn ==
  ASSUME ProgramsTypeOK, NEW h \in Handler, GatewayStep(h), Others(h)
  PROVE  req'[h] = None \/ Outline(h)'
<1>0. SUFFICES ASSUME ~End(h), req'[h] # None PROVE Others(h)'
  BY EndEnds, Zenon DEF Outline
<1>1. todo[h] # <<>> /\ Head(todo[h]) \in {"load", "clear", "start", "openUp", "send",
                                           "openDown", "fetch", "same", "switch"}
  BY LoadingSteps, RestoringSteps, SwitchingSteps, Zenon DEF Others, Begins
<1>2. On(h)
  BY <1>0, <1>1, LocalStepDoes, DownloadDoes, UploadDoes, CallDoes, Zenon
<1>3. Tail(todo[h]) # <<>>
  BY <1>0, <1>2, LastStepEnds, Zenon
<1>4. todo'[h] = Tail(todo[h]) /\ req'[h] = req[h]
  BY <1>2, <1>3, GoesOn, Zenon
<1>5. CASE req[h].op \in {"load", "select"}
  <2>1. Tail(todo[h]) \in {<<"clear", "start">>, <<"start">>}
    BY <1>3, <1>5, LoadingSteps, Zenon DEF Others, Begins
  <2>2. QED
    BY <1>4, <1>5, <2>1, Zenon DEF Others
<1>6. CASE req[h].op = "restore"
  <2>1. Tail(todo[h]) \in {<<"send", "openDown", "fetch", "same">>,
                           <<"openDown", "fetch", "same">>, <<"fetch", "same">>, <<"same">>}
    BY <1>3, <1>6, RestoringSteps, Zenon DEF Others, Begins
  <2>2. QED
    BY <1>4, <1>6, <2>1, Zenon DEF Others
<1>7. CASE req[h].op = "switch"
  BY <1>3, <1>7, SwitchingSteps, Zenon DEF Others, Begins
<1>8. QED
  BY <1>5, <1>6, <1>7, Zenon DEF Others

LEMMA OutlineGoesOn ==
  ASSUME ProgramsTypeOK, NEW h \in Handler, GatewayStep(h), Outline(h), Sendable(req[h]),
         req[h] \in Request
  PROVE  req'[h] = None \/ Outline(h)'
  BY PuttingGoesOn, EditingGoesOn, EditedGoesOn, ReadingGoesOn, DeletingGoesOn, RunningGoesOn,
     RunningBlindGoesOn, OthersGoOn, Zenon DEF Outline

-----------------------------------------------------------------------------
(* Types.                                                                  *)

\* What the controller holds, and the index, keep their types.
LEMMA DataStays ==
  ASSUME ProgramsIInv, NEW h \in Handler, GatewayStep(h)
  PROVE  /\ file' \in [Name -> Content \cup {None}]
         /\ loaded' \in Lua \cup {None}
         /\ engine' \in {"stopped", "running", "paused"}
         /\ runs' \in Content \cup {None}
         /\ upSlot' \in Name \cup {None} /\ downSlot' \in Content \cup {None}
         /\ active' \in Table \cup {None}
         /\ index' \in [Name -> Content \cup {None}]
         /\ got' \in [Handler -> Content \cup {None}]
<1>1. /\ file \in [Name -> Content \cup {None}]
      /\ loaded \in Lua \cup {None}
      /\ engine \in {"stopped", "running", "paused"}
      /\ runs \in Content \cup {None}
      /\ upSlot \in Name \cup {None} /\ downSlot \in Content \cup {None}
      /\ active \in Table \cup {None}
      /\ index \in [Name -> Content \cup {None}]
      /\ got \in [Handler -> Content \cup {None}]
  BY DEF ProgramsIInv, ProgramsTypeOK
<1>2. todo[h] # <<>>
  BY StepGoes, Zenon
<1>3. req[h] # None /\ req[h] \in Request
  BY <1>2 DEF ProgramsIInv, ProgramsTypeOK
<1>4. Sendable(req[h]) /\ Outline(h)
  BY <1>3 DEF ProgramsIInv
<1>5. Relies(h)
  BY <1>4, OutlineRelies, Zenon
<1>6. req[h].name \in Name \cup {None} /\ req[h].body \in Content \cup {None}
  BY <1>3 DEF Request
<1>7. ASSUME Absent(h) \/ Match(h) \/ Same(h) \/ Fit(h) \/ SeeEngine(h) \/ GuardLoaded(h)
             \/ FindLoaded(h) \/ ClearOfFault(h) \/ CommitFile(h) \/ Fails(h)
      PROVE  UNCHANGED <<controller, index, got>>
  BY <1>7, Zenon DEF Absent, Match, Same, Fit, SeeEngine, GuardLoaded, FindLoaded, ClearOfFault,
       CommitFile, Fails, Local, Reads
<1>8. CASE UNCHANGED <<controller, index, got>>
  BY <1>1, <1>8 DEF controller
<1>9. CASE Record(h)
  BY <1>1, <1>6, <1>9 DEF Record, Local, controller
<1>10. CASE Note(h)
  <2>1. index' = [index EXCEPT ![req[h].name] = IF @ = None THEN got[h] ELSE @]
    BY <1>10 DEF Note
  <2>2. \A n \in Name : index'[n] \in Content \cup {None}
    BY <1>1, <2>1
  <2>3. index' \in [Name -> Content \cup {None}]
    BY <1>1, <2>1, <2>2
  <2>4. QED
    BY <1>1, <1>10, <2>3 DEF Note, Local, controller
<1>11. CASE Forget(h)
  BY <1>1, <1>11 DEF Forget, Local, controller
<1>12. CASE OpenDown(h)
  <2>1. req[h].op # "run" /\ req[h].op # "switch" => req[h].name \in Name
    BY <1>4 DEF Sendable
  <2>2. req[h].name \in Name
    BY <1>5, <1>12, <2>1 DEF Relies, OpenDown, Doing
  <2>3. downSlot' \in Content \cup {None}
    BY <1>1, <1>12, <2>2 DEF OpenDown
  <2>4. QED
    BY <1>1, <1>12, <2>3 DEF OpenDown
<1>13. CASE Fetch(h)
  BY <1>1, <1>13 DEF Fetch, Reads, controller
<1>14. CASE OpenUp(h)
  BY <1>1, <1>6, <1>14 DEF OpenUp
<1>15. CASE Send(h)
  BY <1>1, <1>6, <1>15 DEF Send
<1>16. CASE Erase(h)
  BY <1>1, <1>16 DEF Erase
<1>17. CASE Load(h)
  <2>1. req[h].name \in Lua
    BY <1>4, <1>5, <1>17 DEF Relies, Load, Doing, Sendable
  <2>2. QED
    BY <1>1, <1>17, <2>1 DEF Load
<1>18. CASE Start(h)
  <2>1. runs' \in Content \cup {None}
    BY <1>1, <1>18 DEF Start, Name
  <2>2. QED
    BY <1>1, <1>18, <2>1 DEF Start
<1>19. CASE Switch(h)
  <2>1. req[h].name \in Table \cup {None}
    BY <1>4, <1>5, <1>19 DEF Relies, Switch, Doing, Sendable
  <2>2. QED
    BY <1>1, <1>19, <2>1 DEF Switch
<1>20. QED
  BY <1>7, <1>8, <1>9, <1>10, <1>11, <1>12, <1>13, <1>14, <1>15, <1>16, <1>17, <1>18, <1>19,
     Zenon DEF GatewayStep

\* The requests keep theirs, and one that has no steps left is answered.
LEMMA RequestsStay ==
  ASSUME ProgramsIInv, NEW h \in Handler, GatewayStep(h)
  PROVE  /\ req' \in [Handler -> Request \cup {None}]
         /\ todo' \in [Handler -> Seq(Step)]
         /\ \A g \in Handler : req'[g] = None <=> todo'[g] = <<>>
         /\ left' \in 0..MaxRequests
         /\ unseen' \in [Handler -> SUBSET Aspect]
         /\ req'[h] # None => Sendable(req'[h])
<1>1. /\ ProgramsTypeOK
      /\ req \in [Handler -> Request \cup {None}]
      /\ todo \in [Handler -> Seq(Step)]
      /\ \A g \in Handler : req[g] = None <=> todo[g] = <<>>
      /\ left \in 0..MaxRequests
  BY DEF ProgramsIInv, ProgramsTypeOK
<1>2. todo[h] # <<>> /\ (On(h) \/ End(h) \/ FindLoaded(h))
  BY StepGoes
<1>3. req[h] \in Request /\ req[h] # None
  BY <1>1, <1>2
<1>4. Sendable(req[h]) /\ Outline(h)
  BY <1>3 DEF ProgramsIInv
<1>5. unseen' \in [Handler -> SUBSET Aspect]
  BY <1>1, StepSees, SeenBy
<1>6. <<>> \in Seq(Step) /\ Tail(todo[h]) \in Seq(Step)
  BY <1>1, <1>2
<1>7. ASSUME NEW rest \in Seq(Step), Go(h, rest)
      PROVE  /\ req' \in [Handler -> Request \cup {None}]
             /\ todo' \in [Handler -> Seq(Step)]
             /\ \A g \in Handler : req'[g] = None <=> todo'[g] = <<>>
             /\ left' = left
             /\ req'[h] # None => req'[h] = req[h]
  <2>1. /\ todo' = [todo EXCEPT ![h] = rest]
        /\ req' = [req EXCEPT ![h] = IF rest = <<>> THEN None ELSE @]
        /\ left' = left
    BY <1>7 DEF Go
  <2>2. /\ todo'[h] = rest
        /\ rest = <<>> => req'[h] = None
        /\ rest # <<>> => req'[h] = req[h]
    BY <1>1, <2>1
  <2>3. req' \in [Handler -> Request \cup {None}] /\ todo' \in [Handler -> Seq(Step)]
    BY <1>1, <1>7, <2>1
  <2>4. \A g \in Handler : g # h => req'[g] = req[g] /\ todo'[g] = todo[g]
    BY <1>1, <2>1
  <2>5. \A g \in Handler : req'[g] = None <=> todo'[g] = <<>>
    BY <1>1, <1>3, <2>2, <2>4, Zenon
  <2>6. QED
    BY <2>1, <2>2, <2>3, <2>5, Zenon
<1>8. CASE On(h) \/ End(h)
  <2>1. PICK rest \in Seq(Step) : Go(h, rest)
    BY <1>6, <1>8 DEF On, End
  <2>2. QED
    BY <1>1, <1>4, <1>5, <1>7, <2>1
<1>9. CASE FindLoaded(h) /\ ~End(h)
  <2>1. Head(todo[h]) = "findLoaded"
    BY <1>9 DEF FindLoaded, Reads, Doing
  <2>2. req[h].op = "run" /\ Tail(todo[h]) # <<>>
    BY <1>4, <2>1, OutlineRelies DEF Relies
  <2>3. /\ todo' = [todo EXCEPT ![h] = Tail(@)] /\ req' = [req EXCEPT ![h].name = loaded]
        /\ left' = left
    BY <1>9 DEF FindLoaded
  <2>4. /\ req'[h] \in Request
        /\ req'[h].op = req[h].op /\ req'[h].flags = req[h].flags
        /\ req'[h].body = req[h].body /\ req'[h].match = req[h].match
    BY <1>1, <1>3, <1>9, <2>1, FindLoadedDoes
  <2>5. \A g \in Handler : g # h => req'[g] = req[g] /\ todo'[g] = todo[g]
    BY <1>1, <2>3
  <2>6. todo'[h] = Tail(todo[h]) /\ todo' \in [Handler -> Seq(Step)]
    BY <1>1, <1>6, <2>3
  <2>7. req'[h] # None
    BY <2>4, ProgramsAssumption
  <2>8. req' \in [Handler -> Request \cup {None}]
    <3>1. \A g \in Handler : req'[g] \in Request \cup {None}
      BY <1>1, <2>4, <2>5
    <3>2. req' = [g \in Handler |-> req'[g]]
      BY <1>1, <2>3
    <3>3. QED
      BY <3>1, <3>2
  <2>9. \A g \in Handler : req'[g] = None <=> todo'[g] = <<>>
    BY <1>1, <2>2, <2>5, <2>6, <2>7, Zenon
  <2>10. Sendable(req'[h])
    BY <1>4, <2>2, <2>4 DEF Sendable
  <2>11. QED
    BY <1>1, <1>5, <2>3, <2>6, <2>8, <2>9, <2>10
<1>10. QED
  BY <1>2, <1>8, <1>9

-----------------------------------------------------------------------------
(* The invariant.                                                          *)

LEMMA ProgramsStarts ==
  ASSUME Init
  PROVE  ProgramsIInv
<1>1. /\ \A h \in Handler : req[h] = None /\ todo[h] = <<>>
      /\ req \in [Handler -> Request \cup {None}] /\ todo \in [Handler -> Seq(Step)]
      /\ got \in [Handler -> Content \cup {None}] /\ unseen \in [Handler -> SUBSET Aspect]
      /\ index \in [Name -> Content \cup {None}]
      /\ left \in 0..MaxRequests
  BY ProgramsAssumption DEF Init
<1>2. QED
  BY <1>1 DEF Init, ProgramsIInv, ProgramsTypeOK

LEMMA StepKeeps ==
  ASSUME ProgramsIInv, NEW h \in Handler, GatewayStep(h)
  PROVE  ProgramsIInv'
<1>1. ProgramsTypeOK'
  BY DataStays, RequestsStay DEF ProgramsTypeOK
<1>2. ProgramsTypeOK /\ req \in [Handler -> Request \cup {None}]
  BY DEF ProgramsIInv, ProgramsTypeOK
<1>3. ASSUME NEW g \in Handler, req'[g] # None
      PROVE  Sendable(req'[g]) /\ Outline(g)'
  <2>1. CASE g = h
    <3>1. todo[h] # <<>>
      BY StepGoes, Zenon
    <3>2. req[h] # None /\ req[h] \in Request
      BY <1>2, <3>1 DEF ProgramsTypeOK
    <3>3. Sendable(req[h]) /\ Outline(h)
      BY <3>2 DEF ProgramsIInv
    <3>4. Outline(h)'
      BY <1>2, <1>3, <2>1, <3>2, <3>3, OutlineGoesOn, Zenon
    <3>5. QED
      BY <1>3, <2>1, <3>4, RequestsStay, Zenon
  <2>2. CASE g # h
    <3>1. req'[g] = req[g]
      BY <1>2, <2>2, OthersKeepTheirs
    <3>2. Sendable(req[g]) /\ Outline(g)
      BY <1>3, <3>1 DEF ProgramsIInv
    <3>3. Undisturbed(g)
      BY <1>2, <1>3, <2>2, <3>1, OthersUndisturbed
    <3>4. Outline(g)'
      BY <3>2, <3>3, OutlineStays, Zenon
    <3>5. QED
      BY <3>1, <3>2, <3>4, Zenon
  <2>3. QED
    BY <2>1, <2>2, Zenon
<1>4. QED
  BY <1>1, <1>3, Zenon DEF ProgramsIInv

LEMMA BeginKeeps ==
  ASSUME ProgramsIInv, NEW h \in Handler, NEW r \in Asked, Begin(h, r)
  PROVE  ProgramsIInv'
<1>1. /\ ProgramsTypeOK
      /\ req \in [Handler -> Request \cup {None}]
      /\ todo \in [Handler -> Seq(Step)]
      /\ \A g \in Handler : req[g] = None <=> todo[g] = <<>>
      /\ left \in 0..MaxRequests /\ MaxRequests \in Nat
      /\ unseen \in [Handler -> SUBSET Aspect]
  BY ProgramsAssumption DEF ProgramsIInv, ProgramsTypeOK
<1>2. r \in Request /\ Sendable(r) /\ r # None
  BY ProgramsAssumption
<1>3. /\ req[h] = None /\ left > 0
      /\ req' = [req EXCEPT ![h] = r]
      /\ todo' = [todo EXCEPT ![h] = Script(r)]
      /\ left' = left - 1
      /\ unseen' = [unseen EXCEPT ![h] = Aspect]
      /\ UNCHANGED <<controller, index, got>>
  BY DEF Begin
<1>4. req'[h] = r /\ todo'[h] = Script(r) /\ unseen'[h] = Aspect
  BY <1>1, <1>3
<1>5. Outline(h)' /\ todo'[h] \in Seq(Step) /\ todo'[h] # <<>>
  BY <1>2, <1>4, OutlineBegins, Zenon
<1>6. \A g \in Handler : g # h => req'[g] = req[g] /\ todo'[g] = todo[g]
  BY <1>1, <1>3
<1>7. ProgramsTypeOK'
  <2>1. req' \in [Handler -> Request \cup {None}]
    BY <1>1, <1>2, <1>3
  <2>2. todo' \in [Handler -> Seq(Step)]
    BY <1>1, <1>3, <1>4, <1>5
  <2>3. \A g \in Handler : req'[g] = None <=> todo'[g] = <<>>
    BY <1>1, <1>2, <1>4, <1>5, <1>6, Zenon
  <2>4. left' \in 0..MaxRequests
    BY <1>1, <1>3
  <2>5. unseen' \in [Handler -> SUBSET Aspect]
    BY <1>1, <1>3
  <2>6. /\ file' = file /\ loaded' = loaded /\ engine' = engine /\ runs' = runs
        /\ upSlot' = upSlot /\ downSlot' = downSlot /\ active' = active /\ index' = index
        /\ got' = got
    BY <1>3 DEF controller
  <2>7. QED
    BY <1>1, <2>1, <2>2, <2>3, <2>4, <2>5, <2>6 DEF ProgramsTypeOK
<1>8. ASSUME NEW g \in Handler, req'[g] # None
      PROVE  Sendable(req'[g]) /\ Outline(g)'
  <2>1. CASE g = h
    BY <1>2, <1>4, <1>5, <2>1, Zenon
  <2>2. CASE g # h
    <3>1. req'[g] = req[g]
      BY <1>6, <2>2
    <3>2. Sendable(req[g]) /\ Outline(g)
      BY <1>8, <3>1 DEF ProgramsIInv
    <3>3. Undisturbed(g)
      BY <1>1, <2>2, BeginDisturbsNobody
    <3>4. QED
      BY <3>1, <3>2, <3>3, OutlineStays, Zenon
  <2>3. QED
    BY <2>1, <2>2, Zenon
<1>9. QED
  BY <1>7, <1>8, Zenon DEF ProgramsIInv

LEMMA EngineKeeps ==
  ASSUME ProgramsIInv, EngineMoves
  PROVE  ProgramsIInv'
<1>1. ProgramsTypeOK
  BY DEF ProgramsIInv
<1>2. /\ engine' \in {"stopped", "running", "paused"}
      /\ UNCHANGED <<file, loaded, runs, upSlot, downSlot, active, index, req, todo, got, left>>
      /\ unseen' = [g \in Handler |->
                      IF req[g] = None THEN unseen[g] ELSE unseen[g] \cup {"engine"}]
  BY DEF EngineMoves
<1>3. unseen' \in [Handler -> SUBSET Aspect]
  BY <1>1, <1>2 DEF ProgramsTypeOK, Aspect
<1>4. ProgramsTypeOK'
  BY <1>1, <1>2, <1>3 DEF ProgramsTypeOK
<1>5. ASSUME NEW g \in Handler, req'[g] # None
      PROVE  Sendable(req'[g]) /\ Outline(g)'
  <2>1. req'[g] = req[g]
    BY <1>2
  <2>2. Sendable(req[g]) /\ Outline(g)
    BY <1>5, <2>1 DEF ProgramsIInv
  <2>3. Undisturbed(g)
    BY <1>1, <1>5, <2>1, EngineDisturbsNobody
  <2>4. QED
    BY <2>1, <2>2, <2>3, OutlineStays, Zenon
<1>6. QED
  BY <1>4, <1>5, Zenon DEF ProgramsIInv

LEMMA ProgramsStutters ==
  ASSUME ProgramsIInv, UNCHANGED vars
  PROVE  ProgramsIInv'
<1>1. /\ file' = file /\ loaded' = loaded /\ engine' = engine /\ runs' = runs
      /\ upSlot' = upSlot /\ downSlot' = downSlot /\ active' = active /\ index' = index
      /\ req' = req /\ todo' = todo /\ got' = got /\ left' = left /\ unseen' = unseen
  BY DEF vars, controller
<1>2. ProgramsTypeOK'
  BY <1>1 DEF ProgramsIInv, ProgramsTypeOK
<1>3. ASSUME NEW g \in Handler, req'[g] # None
      PROVE  Sendable(req'[g]) /\ Outline(g)'
  <2>1. Sendable(req[g]) /\ Outline(g)
    BY <1>1, <1>3 DEF ProgramsIInv
  <2>2. Undisturbed(g)
    BY <1>1 DEF Undisturbed
  <2>3. QED
    BY <1>1, <2>1, <2>2, OutlineStays, Zenon
<1>4. QED
  BY <1>2, <1>3, Zenon DEF ProgramsIInv

\* Every request that is under way is where its outline has it, and what the outline
\* says there holds (programs_api.py, files_api.py, backup_api.py: the order of the
\* calls in each route, and the checks between them).
THEOREM ProgramsInvariant == Spec => []ProgramsIInv
<1>1. Init => ProgramsIInv
  BY ProgramsStarts
<1>2. ProgramsIInv /\ [Next]_vars => ProgramsIInv'
  BY StepKeeps, BeginKeeps, EngineKeeps, ProgramsStutters, Zenon DEF Next
<1>3. QED
  BY <1>1, <1>2, PTL DEF Spec

\* The controller, the index and the requests have their types, and a thread has steps
\* to take exactly while it serves a request.
THEOREM ProgramsTyping == Spec => []ProgramsTypeOK
<1>1. ProgramsIInv => ProgramsTypeOK
  BY DEF ProgramsIInv
<1>2. QED
  BY <1>1, ProgramsInvariant, PTL

-----------------------------------------------------------------------------
(* What the routes promise.                                                *)

\* A request that takes a step is under way, and relies on what its outline says.
LEMMA StepRelies ==
  ASSUME ProgramsIInv, NEW h \in Handler, NEW step, Doing(h, step)
  PROVE  Relies(h) /\ Sendable(req[h]) /\ Head(todo[h]) = step /\ ProgramsTypeOK
<1>1. todo[h] # <<>> /\ Head(todo[h]) = step
  BY DEF Doing
<1>2. req[h] # None /\ ProgramsTypeOK
  BY <1>1 DEF ProgramsIInv, ProgramsTypeOK
<1>3. QED
  BY <1>1, <1>2, OutlineRelies, Zenon DEF ProgramsIInv

\* run() starts only what it validated, unless another request loaded or wrote a
\* program or took the download port in between (programs_api.py run, _check_path).
THEOREM RunsWhatItPassed == Spec => RunsWhatItValidated
<1>1. ASSUME ProgramsIInv, NEW h \in Handler, Start(h), req[h].op = "run",
             "skip" \notin req[h].flags, unseen[h] \cap {"files", "loaded", "down"} = {}
      PROVE  runs' \in Safe
  <2>1. Doing(h, "start") /\ runs' = IF loaded = None THEN None ELSE file[loaded]
    BY <1>1 DEF Start
  <2>2. Relies(h) /\ Head(todo[h]) = "start"
    BY <1>1, <2>1, StepRelies
  <2>3. Cleared(h)
    BY <1>1, <2>2 DEF Relies
  <2>4. QED
    BY <1>1, <2>1, <2>3 DEF Cleared, Knows
<1>2. ProgramsIInv => [\A h \in Handler :
        /\ Start(h) /\ req[h].op = "run" /\ "skip" \notin req[h].flags
        /\ unseen[h] \cap {"files", "loaded", "down"} = {}
        => runs' \in Safe]_vars
  BY <1>1, Zenon
<1>3. QED
  BY <1>2, ProgramsInvariant, PTL DEF RunsWhatItValidated

\* An edit on condition of a version replaces that version, unless another request
\* wrote or took a port in between (files_api.py upload_file).
THEOREM EditsReplaceTheirs == Spec => EditReplacesItsVersion
<1>1. ASSUME ProgramsIInv, NEW h \in Handler, Send(h), req[h].match # None,
             unseen[h] \cap {"files", "up", "down"} = {}
      PROVE  file[upSlot] = req[h].match
  <2>1. Doing(h, "send")
    BY <1>1 DEF Send
  <2>2. Relies(h) /\ Sendable(req[h]) /\ Head(todo[h]) = "send"
    BY <1>1, <2>1, StepRelies
  <2>3. req[h].op = "putFile"
    BY <1>1, <2>2 DEF Sendable
  <2>4. Matched(h) /\ PortOpen(h)
    BY <2>2, <2>3 DEF Relies
  <2>5. Knows(h, {"files", "down"}) /\ Knows(h, {"up"})
    BY <1>1 DEF Knows
  <2>6. QED
    BY <1>1, <2>4, <2>5 DEF Matched, PortOpen
<1>2. ProgramsIInv => [\A h \in Handler :
        /\ Send(h) /\ req[h].match # None
        /\ unseen[h] \cap {"files", "up", "down"} = {}
        => file[upSlot] = req[h].match]_vars
  BY <1>1, Zenon
<1>3. QED
  BY <1>2, ProgramsInvariant, PTL DEF EditReplacesItsVersion

\* PUT /programs uploads into no program that runs or pauses, unless that began after
\* the check or the state could not be read (programs_api.py upload_program).
THEOREM UploadsSpare == Spec => UploadSparesPrograms
<1>1. ASSUME ProgramsIInv, NEW h \in Handler, Send(h), req[h].op = "putProgram"
      PROVE  engine = "stopped" \/ "engine" \in unseen[h]
  <2>1. Doing(h, "send")
    BY <1>1 DEF Send
  <2>2. Relies(h) /\ Head(todo[h]) = "send"
    BY <1>1, <2>1, StepRelies
  <2>3. Idle(h)
    BY <1>1, <2>2 DEF Relies
  <2>4. QED
    BY <2>3 DEF Idle, Knows
<1>2. ProgramsIInv => [\A h \in Handler :
        Send(h) /\ req[h].op = "putProgram" => engine = "stopped" \/ "engine" \in unseen[h]]_vars
  BY <1>1, Zenon
<1>3. QED
  BY <1>2, ProgramsInvariant, PTL DEF UploadSparesPrograms

\* The loaded program is not deleted, unless it was loaded after the check or the check
\* could not be made (programs_api.py delete_program, files_api.py delete_file).
THEOREM LoadedStays == Spec => LoadedProgramStays
<1>1. ASSUME ProgramsIInv, NEW h \in Handler, Erase(h)
      PROVE  req[h].name # loaded \/ "loaded" \in unseen[h]
  <2>1. Doing(h, "erase")
    BY <1>1 DEF Erase
  <2>2. Relies(h) /\ Head(todo[h]) = "erase"
    BY <1>1, <2>1, StepRelies
  <2>3. Spared(h)
    BY <2>2 DEF Relies
  <2>4. QED
    BY <2>3 DEF Spared, Knows
<1>2. ProgramsIInv => [\A h \in Handler :
        Erase(h) => req[h].name # loaded \/ "loaded" \in unseen[h]]_vars
  BY <1>1, Zenon
<1>3. QED
  BY <1>2, ProgramsInvariant, PTL DEF LoadedProgramStays

\* The index is changed to what is on the controller: a name is entered for bytes that
\* are there and compile, and dropped once the file is gone, but for what others did in
\* between (programs_api.py ProgramIndex, files_api.py FileIndex).
THEOREM IndexFollows == Spec => IndexFollowsTheController
<1>1. ASSUME ProgramsIInv, NEW h \in Handler, Record(h), unseen[h] \cap {"files", "up"} = {}
      PROVE  file[req[h].name] = req[h].body /\ (req[h].name \in Lua => req[h].body \in Builds)
  <2>1. Doing(h, "record")
    BY <1>1 DEF Record, Local
  <2>2. Relies(h) /\ Head(todo[h]) = "record"
    BY <1>1, <2>1, StepRelies
  <2>3. Stored(h) /\ Compiled(h)
    BY <2>2 DEF Relies
  <2>4. QED
    BY <1>1, <2>3 DEF Stored, Compiled, Knows
<1>2. ASSUME ProgramsIInv, NEW h \in Handler, Forget(h), "files" \notin unseen[h]
      PROVE  file[req[h].name] = None
  <2>1. Doing(h, "forget")
    BY <1>2 DEF Forget, Local
  <2>2. Relies(h) /\ Head(todo[h]) = "forget"
    BY <1>2, <2>1, StepRelies
  <2>3. Gone(h)
    BY <2>2 DEF Relies
  <2>4. QED
    BY <1>2, <2>3 DEF Gone, Knows
<1>3. ASSUME ProgramsIInv, NEW h \in Handler, Note(h), unseen[h] \cap {"files", "down"} = {}
      PROVE  /\ file[req[h].name] # None
             /\ index[req[h].name] = None => index'[req[h].name] = file[req[h].name]
  <2>1. /\ Doing(h, "note")
        /\ index' = [index EXCEPT ![req[h].name] = IF @ = None THEN got[h] ELSE @]
    BY <1>3 DEF Note, Local
  <2>2. Relies(h) /\ Head(todo[h]) = "note" /\ Sendable(req[h]) /\ ProgramsTypeOK
    BY <1>3, <2>1, StepRelies
  <2>3. HasRead(h) /\ req[h].name \in Name
    BY <2>2 DEF Relies, Sendable
  <2>4. got[h] = file[req[h].name] /\ got[h] # None
    BY <1>3, <2>3 DEF HasRead, Knows
  <2>5. index[req[h].name] = None => index'[req[h].name] = got[h]
    BY <2>1, <2>2, <2>3 DEF ProgramsTypeOK
  <2>6. QED
    BY <2>4, <2>5
<1>4. ProgramsIInv => [\A h \in Handler : LET n == req[h].name IN
        /\ Record(h) /\ unseen[h] \cap {"files", "up"} = {}
               => file[n] = req[h].body /\ (n \in Lua => req[h].body \in Builds)
        /\ Forget(h) /\ "files" \notin unseen[h] => file[n] = None
        /\ Note(h) /\ unseen[h] \cap {"files", "down"} = {}
               => file[n] # None /\ (index[n] = None => index'[n] = file[n])]_vars
  BY <1>1, <1>2, <1>3
<1>5. QED
  BY <1>4, ProgramsInvariant, PTL DEF IndexFollowsTheController
=============================================================================
