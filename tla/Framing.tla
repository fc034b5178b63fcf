------------------------------ MODULE Framing ------------------------------
(***************************************************************************)
(* Reading from a TCP stream, which comes in chunks that are cut anywhere: *)
(* the status stream (src/fws/telemetry.py), a telnet session              *)
(* (src/fws/services/shell.py), and the transfers of files (files_wire.py, *)
(* backup.py, files.py). Each reader is a fold over the chunks. The        *)
(* assumptions say what must not depend on the cuts, and are checked for   *)
(* every short stream and every cut of it.                                 *)
(*                                                                         *)
(* Lengths are scaled down: a status frame has 4 bytes for 433, a transfer *)
(* header 6 or 5 for 46 or 44, its size field 3 or 2 digits for 10 or 8,   *)
(* its md5 2 symbols for 32, the trailer 1 for 4.                          *)
(***************************************************************************)
EXTENDS Integers, SequencesExt

Minimum(S) == CHOOSE m \in S : \A n \in S : m <= n
Maximum(S) == CHOOSE m \in S : \A n \in S : m >= n
From(s, i) == SubSeq(s, i, Len(s))
Slice(s, i, j) == SubSeq(s, i, IF j > Len(s) THEN Len(s) ELSE j)

\* A stream in chunks, cut behind each of these places.
Chunks(s, cuts) ==
    LET Add(chunks, i) == IF i - 1 \in cuts THEN Append(chunks, <<s[i]>>)
                          ELSE [chunks EXCEPT ![Len(chunks)] = Append(@, s[i])]
    IN  FoldLeft(Add, <<<<>>>>, [i \in 1..Len(s) |-> i])

AnyCuts(s) == SUBSET (1..(Len(s) - 1))
OneCut(s) == {{}} \cup {{i} : i \in 1..(Len(s) - 1)}

-----------------------------------------------------------------------------
(* Status frames: header, a payload, its checksum.                         *)

Z == 7                  \* a byte of the header, which may occur elsewhere too
FrameLen == 4
StatusFrame(p, sum) == <<Z, Z, p, sum>>
ChecksumFits(frame) == frame[3] = frame[4]

RECURSIVE TakeFrames(_, _)
TakeFrames(buf, seen) ==
    LET heads == {i \in 1..(Len(buf) - 1) : buf[i] = Z /\ buf[i + 1] = Z}
        i == Minimum(heads)
    IN  IF heads = {} \/ Len(buf) - i + 1 < FrameLen
        THEN [buf |-> buf, seen |-> seen]
        ELSE TakeFrames(From(buf, i + FrameLen), Append(seen, SubSeq(buf, i, i + FrameLen - 1)))

\* Telemetry._run(): what is left of a chunk waits for the next, unless it is too much.
ReadStatus(chunks) ==
    LET Next1(s, chunk) ==
            LET t == TakeFrames(s.buf \o chunk, s.seen)
            IN  IF Len(t.buf) > 4 * FrameLen
                THEN [t EXCEPT !.buf = From(@, Len(@) - FrameLen + 1)] ELSE t
    IN  FoldLeft(Next1, [buf |-> <<>>, seen |-> <<>>], chunks).seen

\* _parse(): a frame whose checksum does not fit is counted and dropped.
Snapshots(chunks) == SelectSeq(ReadStatus(chunks), ChecksumFits)

\* Frame by frame, whatever a payload looks like: the good ones are taken, the bad ones counted.
ASSUME StatusFramesArrive ==
    \A f, g \in {StatusFrame(p, sum) : p, sum \in {0, 1, Z}} : \A cuts \in AnyCuts(f \o g) :
        /\ ReadStatus(Chunks(f \o g, cuts)) = <<f, g>>
        /\ Snapshots(Chunks(f \o g, cuts)) = SelectSeq(<<f, g>>, ChecksumFits)

\* From the middle of a stream too, as long as nothing in it looks like a header.
ASSUME StatusIsPickedUp ==
    \A noise \in 0..20 : LET s == [i \in 1..noise |-> 0] \o StatusFrame(1, 1)
                         IN \A cuts \in OneCut(s) : Snapshots(Chunks(s, cuts)) = <<StatusFrame(1, 1)>>

-----------------------------------------------------------------------------
(* Telnet commands.                                                        *)

TelnetSymbol == {"IAC", "DO", "WONT", "SB", "SE", "text"}

RECURSIVE Strip(_, _)
Strip(raw, s) ==
    IF raw = <<>> THEN s
    ELSE IF raw[1] # "IAC" THEN Strip(Tail(raw), [s EXCEPT !.out = Append(@, raw[1])])
    ELSE LET ends == {j \in 3..(Len(raw) - 1) : raw[j] = "IAC" /\ raw[j + 1] = "SE"}
             cmd == raw[2]
         IN  IF \/ Len(raw) = 1
                \/ cmd \in {"DO", "WONT"} /\ Len(raw) = 2
                \/ cmd = "SB" /\ ends = {}
             THEN [s EXCEPT !.pending = raw]
             ELSE CASE cmd = "DO" -> Strip(From(raw, 4), [s EXCEPT !.replies = Append(@, raw[3])])
                    [] cmd = "WONT" -> Strip(From(raw, 4), s)
                    [] cmd = "SB" -> Strip(From(raw, Minimum(ends) + 2), s)
                    [] cmd = "IAC" -> Strip(From(raw, 3), [s EXCEPT !.out = Append(@, "IAC")])
                    [] OTHER -> Strip(From(raw, 3), s)

\* _recv_filtered(): an incomplete command waits for the next chunk.
Filter(chunks) ==
    FoldLeft(LAMBDA s, chunk : Strip(s.pending \o chunk, [s EXCEPT !.pending = <<>>]),
             [out |-> <<>>, replies |-> <<>>, pending |-> <<>>], chunks)

\* The reference reads one byte at a time and remembers where in a command it is.
TelnetReference(s) ==
    LET Byte(r, b) ==
            CASE r.at = "text" /\ b = "IAC" -> [r EXCEPT !.at = "command"]
              [] r.at = "text" -> [r EXCEPT !.out = Append(@, b)]
              [] r.at = "command" /\ b = "IAC" -> [r EXCEPT !.at = "text", !.out = Append(@, "IAC")]
              [] r.at = "command" /\ b \in {"DO", "WONT", "SB"} -> [r EXCEPT !.at = b]
              [] r.at = "DO" -> [r EXCEPT !.at = "text", !.replies = Append(@, b)]
              [] r.at = "SB" -> [r EXCEPT !.at = IF b = "IAC" THEN "SB IAC" ELSE "SB"]
              [] r.at = "SB IAC" /\ b = "IAC" -> r
              [] r.at = "SB IAC" /\ b # "SE" -> [r EXCEPT !.at = "SB"]
              [] OTHER -> [r EXCEPT !.at = "text"]
    IN  FoldLeft(Byte, [at |-> "text", out |-> <<>>, replies |-> <<>>], s)

\* No command is lost, repeated or taken for text because a segment ends in it.
ASSUME TelnetIsStripped ==
    \A n \in 0..5 : \A s \in [1..n -> TelnetSymbol] :
        \A cuts \in OneCut(s) \cup {1..(n - 1)} :
            LET f == Filter(Chunks(s, cuts)) r == TelnetReference(s)
            IN  f.out = r.out /\ f.replies = r.replies

-----------------------------------------------------------------------------
(* File transfers: head, size of the whole, md5, body, trailer.            *)

GenericHeader == 6
PointHeader == 5
DownloadCap == 300

Digits == <<"0", "1", "2", "3", "4", "5", "6", "7", "8", "9">>
Hex(c) == c \notin {" ", "head", "tail"}

\* Two hex digits that no other body has.
Digest(body) == <<"a" \o ToString(body), "b" \o ToString(body)>>

\* Padded with spaces in the wide header, with zeros in the narrow one.
SizeField(n, digits) ==
    LET Digit(i) == n \div (10^(digits - i))
    IN  [i \in 1..digits |-> IF digits = 3 /\ Digit(i) = 0 THEN " " ELSE Digits[(Digit(i) % 10) + 1]]

Framed(body, width) ==
    <<"head">> \o SizeField(width + Len(body) + 1, width - 3) \o Digest(body) \o body \o <<"tail">>

\* int(), which takes leading spaces; -1 for no number.
Number(field) ==
    LET figures == SelectSeq(field, LAMBDA c : c # " ")
        start == Len(field) - Len(figures)
        Shift(n, c) == 10 * n + (CHOOSE d \in 0..9 : Digits[d + 1] = c)
    IN  IF figures = <<>> \/ ToSet(field) \subseteq {" "} \/ ToSet(figures) \ ToSet(Digits) # {}
           \/ \E i \in DOMAIN field : (i > start) # (field[i] # " ")
        THEN -1 ELSE FoldLeft(Shift, 0, figures)

\* _header_at(): the declared size, or -1.
HeaderAt(buf, width) ==
    LET size == Number(SubSeq(buf, 2, width - 2)) IN
    IF \/ Len(buf) < width \/ buf[1] # "head"
       \/ \E i \in (width - 1)..width : ~Hex(buf[i])
       \/ size < width + 1
    THEN -1 ELSE size

\* The body behind a header of this width, if its md5 fits.
Fits(buf, width) ==
    LET size == HeaderAt(buf, width)
        body == Slice(buf, width + 1, size - 1)
    IN  size # -1 /\ Digest(body) = SubSeq(buf, width - 1, width)

Failed == <<"failed">>

\* _receive() of files_wire: sizes are read off once, from the first bytes that hold a header.
Receive1(s, chunk) ==
    LET buf == s.buf \o chunk
        widths == {w \in {GenericHeader, PointHeader} : HeaderAt(buf, w) # -1}
        declared == IF s.declared = {} THEN {<<w, HeaderAt(buf, w)>> : w \in widths} ELSE s.declared
    IN  IF s.done THEN s
        ELSE [buf |-> buf, declared |-> declared,
              done |-> declared # {} /\ Len(buf) >= Maximum({d[2] : d \in declared})]

ReceiveFile(kindWidth, chunks) ==
    LET s == FoldLeft(Receive1, [buf |-> <<>>, declared |-> {}, done |-> FALSE], chunks)
        other == IF kindWidth = GenericHeader THEN PointHeader ELSE GenericHeader
        arrived == {d \in s.declared : Len(s.buf) >= d[2]}
        width == IF \E d \in arrived : d[1] = kindWidth THEN kindWidth ELSE other
        Body(w) == Slice(s.buf, w + 1, HeaderAt(s.buf, w) - 1)
    IN  IF arrived = {} \/ \E d \in s.declared : d[2] > DownloadCap THEN Failed
        ELSE IF Fits(s.buf, width) THEN Body(width)
        ELSE IF Fits(s.buf, other) THEN Body(other)
        ELSE Failed

\* _receive() of backup.py and download_lua(): up to a trailer at the end of a chunk.
ReceiveBundle(chunks) ==
    LET Add(s, chunk) ==
            LET buf == s.buf \o chunk IN
            IF s.done THEN s
            ELSE [buf |-> buf, done |-> Len(buf) > GenericHeader /\ Last(buf) = "tail"]
        buf == FoldLeft(Add, [buf |-> <<>>, done |-> FALSE], chunks).buf
        size == Number(SubSeq(buf, 2, 4))
        body == SubSeq(buf, 7, (IF size <= Len(buf) THEN size ELSE Len(buf)) - 1)
    IN  IF Len(buf) >= 6 /\ size # -1 /\ Digest(body) = SubSeq(buf, 5, 6) THEN body ELSE Failed

Fill(n) == [i \in 1..n |-> "x"]
Bodies == {Fill(n) : n \in {1, 93, 105}} \cup {<<>>, <<"x", "tail", "x">>, <<"tail">>}

\* Near the ends of a stream, where the cuts matter.
Edges(s) == {i \in 1..(Len(s) - 1) : i <= 12 \/ i >= Len(s) - 2}

\* What is delivered is the file, byte for byte, or nothing: also when the connection breaks off.
\* An intact file arrives, at either width and whichever was expected, however it is cut: unless a
\* chunk ends within the two headers' difference while the shorter one happens to parse.
ASSUME FilesArrive ==
    \A body \in Bodies, width, expected \in {GenericHeader, PointHeader} :
        LET s == Framed(body, width) IN
        width = GenericHeader \/ Len(s) < 100 =>
            /\ \A cuts \in {{}} \cup {{i} : i \in Edges(s)} :
                  \/ ReceiveFile(expected, Chunks(s, cuts)) = body
                  \/ /\ width = GenericHeader /\ cuts = {PointHeader} /\ Len(s) >= 100
                     /\ ReceiveFile(expected, Chunks(s, cuts)) \in {body, Failed}
            /\ \A n \in Edges(s) : ReceiveFile(expected, <<SubSeq(s, 1, n)>>) \in {body, Failed}

\* The same of bundles, which are given up when a chunk ends in a trailer that is not the last.
ASSUME BundlesArrive ==
    \A body \in Bodies : LET s == Framed(body, GenericHeader) IN
        \A cuts \in {{}} \cup {{i} : i \in Edges(s)} :
            LET got == ReceiveBundle(Chunks(s, cuts))
            IN  IF \E i \in cuts : s[i] = "tail" THEN got \in {body, Failed} ELSE got = body

=============================================================================
