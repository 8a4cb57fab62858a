----------------------------- MODULE StompFrame -----------------------------
(***************************************************************************)
(* The text form of STOMP frames in stomp.js: Frame.marshall writes one,   *)
(* Frame.unmarshall reads all that one message of the socket holds, and    *)
(* _transmit cuts the text into pieces the server's socket accepts.        *)
(*                                                                         *)
(* A text is a sequence of tokens: the control characters, the colon, a    *)
(* blank, and a token for each command, name, number or letter.  Only      *)
(* MultiByte letters take two bytes of UTF-8.                              *)
(***************************************************************************)
EXTENDS Naturals, SequencesExt

CONSTANTS MultiByte,      \* letters that UTF-8 writes with two bytes
          MaxPiece        \* maxWebSocketFrameSize, in tokens

ASSUME PieceAssumption == MaxPiece \in Nat \ {0}

LF == "\n"
NULL == "NUL"
Blank == " "

\* Frame.sizeOfUTF8: the bytes of a body, which content-length announces.
SizeOfUTF8(s) == FoldLeft(LAMBDA n, c: n + (IF c \in MultiByte THEN 2 ELSE 1), 0, s)

\* Frame.toString and Frame.marshall.  The headers are in the order in which
\* they were set; content-length is written only for a frame with a body.
Marshall(f) ==
    LET line(h) == <<h[1], ":">> \o h[2] \o <<LF>>
        length == IF f.body = <<>> THEN <<>>
                  ELSE <<"content-length", ":", ToString(SizeOfUTF8(f.body)), LF>>
    IN  <<f.command, LF>> \o FoldLeft(LAMBDA t, h: t \o line(h), <<>>, f.headers)
            \o length \o <<LF>> \o f.body \o <<NULL>>

\* The pieces between the occurrences of a separator, as String.split.
Split(s, sep) ==
    FoldLeft(LAMBDA parts, c: IF c = sep THEN Append(parts, <<>>)
                              ELSE [parts EXCEPT ![Len(parts)] = Append(@, c)],
             << <<>> >>, s)

DropWhile(s, c) == LET i == SelectInSeq(s, LAMBDA x: x # c)
                   IN  IF i = 0 THEN <<>> ELSE SubSeq(s, i, Len(s))

Trim(s) == Reverse(DropWhile(Reverse(DropWhile(s, Blank)), Blank))

\* unmarshallSingle: the header lines are read from the last to the first, so
\* that the first of two lines with one name wins.
UnmarshallSingle(data) ==
    LET ends    == {i \in 1..Len(data) - 1: data[i] = LF /\ data[i + 1] = LF}
        divider == Min(ends)
        lines   == Split(SubSeq(data, 1, divider - 1), LF)
        colon(l) == SelectInSeq(l, LAMBDA c: c = ":")
        name(l)  == Trim(SubSeq(l, 1, colon(l) - 1))
        value(l) == Trim(SubSeq(l, colon(l) + 1, Len(l)))
        header == FoldLeft(LAMBDA hs, l: (name(l) :> value(l)) @@ hs, <<>>, Reverse(Tail(lines)))
        rest   == SubSeq(data, divider + 2, Len(data))
        size   == CHOOSE n \in 0..2 * Len(data): header[<<"content-length">>] = <<ToString(n)>>
    IN  IF ends = {} THEN [command |-> <<>>, header |-> <<>>, body |-> Tail(data)]
        ELSE [command |-> Head(lines), header |-> header,
              body |-> IF <<"content-length">> \in DOMAIN header
                       THEN SubSeq(rest, 1, IF size < Len(rest) THEN size ELSE Len(rest))
                       ELSE rest]

\* Frame.unmarshall: frames end with a NUL that line feeds may follow.
Unmarshall(datas) ==
    LET parts == Split(datas, NULL)
        frames == <<Head(parts)>> \o [i \in 1..Len(parts) - 1 |-> DropWhile(parts[i + 1], LF)]
        full  == SelectSeq(frames, LAMBDA d: d # <<>>)
    IN  [i \in DOMAIN full |-> UnmarshallSingle(full[i])]

\* Mutant of Pieces: what is left over after the full pieces is forgotten.
PiecesWithoutRest(out) ==
    [i \in 1..Len(out) \div MaxPiece |-> SubSeq(out, (i - 1) * MaxPiece + 1, i * MaxPiece)]

\* The loop of _transmit: all pieces but the last have the largest size.
Pieces(out) ==
    LET n == (Len(out) + MaxPiece - 1) \div MaxPiece
    IN  [i \in 1..n |-> SubSeq(out, (i - 1) * MaxPiece + 1, IF i < n THEN i * MaxPiece ELSE Len(out))]

(***************************************************************************)
(* What the conversions promise each other: the frames read are those      *)
(* written, with the headers and the body unchanged, when they are sent    *)
(* in pieces and put together again, and every piece fits.                 *)
(***************************************************************************)
SameFrame(g, f) ==
    /\ g.command = <<f.command>>
    /\ g.body = f.body
    /\ \A h \in ToSet(f.headers): <<h[1]>> \in DOMAIN g.header /\ g.header[<<h[1]>>] = h[2]

Survives(frames) ==
    LET texts  == [i \in DOMAIN frames |-> Marshall(frames[i])]
        pieces == FlattenSeq([i \in DOMAIN texts |-> Pieces(texts[i])])
        read   == Unmarshall(FlattenSeq(pieces))
    IN  /\ \A p \in ToSet(pieces): Len(p) \in 1..MaxPiece
        /\ Len(read) = Len(frames)
        /\ \A i \in DOMAIN frames: SameFrame(read[i], frames[i])
=============================================================================
