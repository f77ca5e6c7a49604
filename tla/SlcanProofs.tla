------------------------------ MODULE SlcanProofs ------------------------------
(***************************************************************************)
(* Theorems about the SLCAN driver of a port that was named: the bitrate   *)
(* it takes as measured, and the frames and timestamps it makes of the     *)
(* stream of bytes, for every cut of that stream into reads.  They hold of *)
(* every behaviour of Edges.                                               *)
(***************************************************************************)
EXTENDS Edges, SequenceLemmas

-----------------------------------------------------------------------------
(* The measured bitrate of SLCAN, of a port that was named *)

Said  == {"t", "T", "J", "CR", "version", "rate"}
Token == [kind : Said, n : Nat, low : Nat, half : {1, 2}]

\* What get_version has taken and what it may still take.
Stream == rdbuf \o wire

\* The adapter has not answered the version request; once it has, nothing
\* follows the answer.
NoAnswer(s)   == \A i \in 1 .. Len(s) : s[i].kind # "version"
AnswerEnds(s) == \A i \in 1 .. Len(s) : s[i] = Half("version", 0, 0, 2) => Len(s) = i + 1

LinkType ==
  /\ rdbuf \in Seq(Token) /\ wire \in Seq(Token) /\ got \in Seq(Token)
  /\ stamps \in Seq(Nat) /\ now \in Nat
  /\ step \notin {"probe", "probing"}

\* The close that comes first leaves the channel closed before the version
\* request is answered.
VersionAt ==
  /\ step = "close0" => toDev = <<>> /\ rdbuf = <<>> /\ NoAnswer(wire)
  /\ step = "version" =>
       /\ toDev = <<"C">> \/ (toDev = <<>> /\ ~ open)
       /\ rdbuf = <<>> /\ NoAnswer(wire)
  /\ step = "versioning" =>
       \/ toDev = <<"C", "V">> /\ NoAnswer(Stream)
       \/ toDev = <<"V">> /\ ~ open /\ NoAnswer(Stream)
       \/ toDev = <<>> /\ ~ open /\ AnswerEnds(Stream)

\* The bitrate is requested of an adapter that has nothing more to say.
MeasureAt ==
  /\ step = "measure" => toDev = <<>> /\ wire = <<>> /\ ~ open
  /\ step = "measuring" =>
       /\ ~ open
       /\ \/ toDev = <<"B">> /\ wire = <<>> /\ got = <<>>
          \/ toDev = <<>> /\ got \o wire \in {<<>>, Text("rate", 0, 0)}

MeasureInv == LinkType /\ VersionAt /\ MeasureAt /\ MeasuredIsAnswer

-----------------------------------------------------------------------------
LEMMA LineTokens ==
  ASSUME NEW k \in Said, NEW n \in Nat, NEW low \in Nat
  PROVE  /\ Text(k, n, low) \in Seq(Token) /\ Len(Text(k, n, low)) = 2
         /\ Text(k, n, low)[2] = Half(k, n, low, 2)
         /\ Line(k, n, low) \in Seq(Token) /\ Len(Line(k, n, low)) = 3
         /\ Line(k, n, low)[1] = Half(k, n, low, 1)
         /\ Line(k, n, low)[2] = Half(k, n, low, 2)
         /\ Line(k, n, low)[3] = CR
<1>1. Half(k, n, low, 1) \in Token /\ Half(k, n, low, 2) \in Token
  BY DEF Half, Token
<1>2. CR \in Token
  BY DEF Half, Token, CR, Said
<1>. DEFINE t == Text(k, n, low)
<1>3. /\ t \in Seq(Token) /\ Len(t) = 2
      /\ t[1] = Half(k, n, low, 1) /\ t[2] = Half(k, n, low, 2)
  BY <1>1, TwoElements DEF Text
<1>4. Line(k, n, low) = Append(t, CR)
  BY DEF Line
<1>. HIDE DEF t
<1>5. /\ Append(t, CR) \in Seq(Token) /\ Len(Append(t, CR)) = Len(t) + 1
      /\ \A i \in 1 .. Len(t) : Append(t, CR)[i] = t[i]
      /\ Append(t, CR)[Len(t) + 1] = CR
  <2>1. t \in Seq(Token)
    BY <1>3
  <2>2. ASSUME NEW c \in Token
        PROVE  /\ Append(t, c) \in Seq(Token) /\ Len(Append(t, c)) = Len(t) + 1
               /\ \A i \in 1 .. Len(t) : Append(t, c)[i] = t[i]
               /\ Append(t, c)[Len(t) + 1] = c
    BY <2>1, AppendProperties
  <2>. QED  BY <1>2, <2>2, Zenon
<1>6. 2 + 1 = 3 /\ 1 \in 1 .. 2 /\ 2 \in 1 .. 2
  OBVIOUS
<1>. QED  BY <1>3, <1>4, <1>5, <1>6, Zenon DEF t

\* No line but the answer to "V" is one.
LEMMA MoreLines ==
  ASSUME NEW s \in Seq(Token), NoAnswer(s),
         NEW k \in Said, NEW n \in Nat, NEW low \in Nat
  PROVE  /\ s \o Line(k, n, low) \in Seq(Token)
         /\ k # "version" => NoAnswer(s \o Line(k, n, low))
         /\ k = "version" => AnswerEnds(s \o Line(k, n, low))
<1>. DEFINE l == Line(k, n, low)  t == s \o l
<1>1. /\ l \in Seq(Token) /\ Len(l) = 3 /\ Len(s) \in Nat
      /\ l[1] = Half(k, n, low, 1) /\ l[2] = Half(k, n, low, 2) /\ l[3] = CR
  BY LineTokens, LenProperties
<1>. HIDE DEF l
<1>2. /\ t \in Seq(Token) /\ Len(t) = Len(s) + 3
      /\ \A i \in 1 .. Len(s) + 3 : t[i] = IF i <= Len(s) THEN s[i] ELSE l[i - Len(s)]
  <2>1. /\ t \in Seq(Token) /\ Len(t) = Len(s) + Len(l)
        /\ \A i \in 1 .. Len(s) + Len(l) : t[i] = IF i <= Len(s) THEN s[i] ELSE l[i - Len(s)]
    BY <1>1, ConcatProperties
  <2>. QED  BY <1>1, <2>1
<1>. HIDE DEF t
<1>3. \A i \in 1 .. Len(t) : \/ i \in 1 .. Len(s) /\ t[i] = s[i]
                             \/ i = Len(s) + 1 /\ t[i] = Half(k, n, low, 1)
                             \/ i = Len(s) + 2 /\ t[i] = Half(k, n, low, 2)
                             \/ i = Len(s) + 3 /\ t[i] = CR
  <2>. SUFFICES ASSUME NEW i \in 1 .. Len(s) + 3
                PROVE  \/ i \in 1 .. Len(s) /\ t[i] = s[i]
                       \/ i = Len(s) + 1 /\ t[i] = l[1]
                       \/ i = Len(s) + 2 /\ t[i] = l[2]
                       \/ i = Len(s) + 3 /\ t[i] = l[3]
    BY <1>1, <1>2
  <2>1. i \in 1 .. Len(s) \/ i = Len(s) + 1 \/ i = Len(s) + 2 \/ i = Len(s) + 3
    BY <1>1
  <2>2. i \in 1 .. Len(s) => t[i] = s[i]
    BY <1>1, <1>2
  <2>3. ASSUME NEW j \in {1, 2, 3}, i = Len(s) + j PROVE t[i] = l[j]
    <3>1. i - Len(s) = j /\ ~ (i <= Len(s))
      BY <1>1, <2>3
    <3>. QED  BY <1>2, <3>1
  <2>. QED  BY <2>1, <2>2, <2>3
<1>4. ASSUME k # "version" PROVE NoAnswer(t)
  BY <1>3, <1>4 DEF NoAnswer, Half, CR
<1>5. ASSUME NEW i \in 1 .. Len(t), t[i] = Half("version", 0, 0, 2) PROVE Len(t) = i + 1
  <2>1. t[i].kind = "version" /\ t[i].half = 2
    BY <1>5 DEF Half
  <2>2. ~ (i \in 1 .. Len(s) /\ t[i] = s[i])
    BY <2>1 DEF NoAnswer
  <2>3. i = Len(s) + 2
    BY <1>3, <2>1, <2>2 DEF Half, CR
  <2>. QED  BY <1>1, <1>2, <2>3
<1>. QED  BY <1>2, <1>4, <1>5 DEF AnswerEnds, t, l

\* A read takes the first tokens and leaves the others.
LEMMA CutAt ==
  ASSUME NEW s \in Seq(Token), NEW k \in 1 .. Len(s)
  PROVE  /\ SubSeq(s, 1, k) \in Seq(Token) /\ SubSeq(s, k + 1, Len(s)) \in Seq(Token)
         /\ Len(SubSeq(s, 1, k)) = k /\ Len(SubSeq(s, k + 1, Len(s))) = Len(s) - k
         /\ SubSeq(s, 1, k) \o SubSeq(s, k + 1, Len(s)) = s
         /\ \A i \in 1 .. k : SubSeq(s, 1, k)[i] = s[i]
BY CutSeq

\* Nothing is added to what follows the tokens that are dropped.
LEMMA DropFront ==
  ASSUME NEW a \in Seq(Token), NEW b \in Seq(Token)
  PROVE  /\ NoAnswer(a \o b) => NoAnswer(b)
         /\ AnswerEnds(a \o b) => AnswerEnds(b)
<1>1. /\ Len(a) \in Nat /\ Len(b) \in Nat /\ Len(a \o b) = Len(a) + Len(b)
      /\ \A i \in 1 .. Len(a) + Len(b) :
           (a \o b)[i] = IF i <= Len(a) THEN a[i] ELSE b[i - Len(a)]
  BY ConcatProperties, LenProperties
<1>2. ASSUME NEW i \in 1 .. Len(b)
      PROVE  Len(a) + i \in 1 .. Len(a \o b) /\ (a \o b)[Len(a) + i] = b[i]
  BY <1>1
<1>3. ASSUME NoAnswer(a \o b) PROVE NoAnswer(b)
  BY <1>2, <1>3 DEF NoAnswer
<1>4. ASSUME AnswerEnds(a \o b) PROVE AnswerEnds(b)
  <2>. SUFFICES ASSUME NEW i \in 1 .. Len(b), b[i] = Half("version", 0, 0, 2)
                PROVE  Len(b) = i + 1
    BY DEF AnswerEnds
  <2>1. Len(a \o b) = Len(a) + i + 1
    BY <1>2, <1>4 DEF AnswerEnds
  <2>. QED  BY <1>1, <2>1
<1>. QED  BY <1>3, <1>4

\* The first CR of a line that has one.
LEMMA FirstCRAt ==
  ASSUME NEW s \in Seq(Token), FirstCR(s) > 0
  PROVE  FirstCR(s) \in 1 .. Len(s)
<1>. DEFINE C == {i \in 1 .. Len(s) : s[i] = CR}
<1>1. FirstCR(s) = IF C # {} THEN Min(C) ELSE 0
  BY DEF FirstCR, SelectInSeq
<1>2. C # {} /\ C \subseteq Nat
  BY <1>1
<1>. HIDE DEF C
<1>3. PICK x \in C : \A y \in C : ~ (<<y, x>> \in OpToRel(<, Nat))
  BY <1>2, NatLessThanWellFounded, WFMin
<1>4. ASSUME NEW y \in C PROVE x <= y
  <2>1. x \in Nat /\ y \in Nat /\ <<y, x>> \in Nat \X Nat
    BY <1>2
  <2>2. y < x => <<y, x>> \in OpToRel(<, Nat)
    BY <2>1 DEF OpToRel
  <2>3. ~ (y < x)
    BY <1>3, <2>2
  <2>. QED  BY <2>1, <2>3
<1>5. Min(C) \in C
  BY <1>4 DEF Min
<1>. QED  BY <1>1, <1>2, <1>5 DEF C

\* Reads move the place at which the stream is cut.
LEMMA Regroup ==
  ASSUME NEW r \in Seq(Token), NEW a \in Seq(Token), NEW b \in Seq(Token)
  PROVE  (r \o a) \o b = r \o (a \o b)
BY ConcatAssociative

LEMMA Closed ==
  ASSUME NEW a \in Seq(Token), NEW b \in Seq(Token)
  PROVE  a \o b \in Seq(Token)
BY ConcatProperties

\* The commands queued while the version is asked for.
LEMMA Queued ==
  /\ Append(<<"C">>, "V") = <<"C", "V">> /\ Append(<<>>, "V") = <<"V">>
  /\ Append(<<>>, "C") = <<"C">> /\ Append(<<>>, "B") = <<"B">>
  /\ Head(<<"C", "V">>) = "C" /\ Tail(<<"C", "V">>) = <<"V">>
  /\ Head(<<"C">>) = "C" /\ Head(<<"V">>) = "V" /\ Head(<<"B">>) = "B"
  /\ Tail(<<"C">>) = <<>> /\ Tail(<<"V">>) = <<>> /\ Tail(<<"B">>) = <<>>
<1>1. Append(<<>>, "V") = <<"V">> /\ Append(<<>>, "C") = <<"C">> /\ Append(<<>>, "B") = <<"B">>
  OBVIOUS
<1>2. /\ Head(<<"C", "V">>) = "C" /\ Head(<<"C">>) = "C" /\ Head(<<"V">>) = "V"
      /\ Head(<<"B">>) = "B"
  OBVIOUS
<1>3. Tail(<<"C">>) = <<>> /\ Tail(<<"V">>) = <<>> /\ Tail(<<"B">>) = <<>>
  OBVIOUS
<1>4. Append(<<"C">>, "V") = <<"C", "V">>
  <2>. DEFINE t == Append(<<"C">>, "V")  u == <<"C", "V">>
  <2>1. <<"C">> \in Seq({"C", "V"}) /\ Len(<<"C">>) = 1 /\ <<"C">>[1] = "C"
    OBVIOUS
  <2>2. t \in Seq({"C", "V"}) /\ Len(t) = 2 /\ t[1] = "C" /\ t[2] = "V"
    BY <2>1, AppendProperties
  <2>3. u \in Seq({"C", "V"}) /\ Len(u) = 2 /\ u[1] = "C" /\ u[2] = "V"
    OBVIOUS
  <2>. HIDE DEF t, u
  <2>4. \A i \in 1 .. 2 : t[i] = u[i]
    BY <2>2, <2>3
  <2>5. t = u
    BY <2>2, <2>3, <2>4, SeqEqual
  <2>. QED  BY <2>5 DEF t, u
<1>5. Tail(<<"C", "V">>) = <<"V">>
  OBVIOUS
<1>. QED  BY <1>1, <1>2, <1>3, <1>4, <1>5, Zenon

-----------------------------------------------------------------------------
(* The parser *)

\* A frame returned, and what the parser knows.
Rx      == [n : Nat, ts : Nat]
Parsing == [line : Seq(Token), frames : Seq(Rx), high : Nat]

LEMMA KnownFields ==
  ASSUME NEW l, NEW fs, NEW h
  PROVE  Known(l, fs, h).line = l /\ Known(l, fs, h).frames = fs /\ Known(l, fs, h).high = h
BY DEF Known

LEMMA KnownType ==
  ASSUME NEW l \in Seq(Token), NEW fs \in Seq(Rx), NEW h \in Nat
  PROVE  Known(l, fs, h) \in Parsing
BY DEF Known, Parsing

LEMMA ParsingFields ==
  ASSUME NEW p \in Parsing
  PROVE  /\ p.line \in Seq(Token) /\ p.frames \in Seq(Rx) /\ p.high \in Nat
         /\ p = Known(p.line, p.frames, p.high)
BY DEF Known, Parsing

LEMMA FrameType ==
  ASSUME NEW p \in Parsing, Len(p.line) = 2
  PROVE  FrameOf(p) \in Rx
<1>1. p.line[1] \in Token
  BY ParsingFields, ElementOfSeq
<1>2. p.line[1].n \in Nat /\ p.line[1].low \in Nat
  BY <1>1 DEF Token
<1>3. p.high \in Nat
  BY ParsingFields
<1>4. p.high * Wrap \in Nat
  BY <1>3, NumberAssumption
<1>5. p.high * Wrap + p.line[1].low \in Nat
  BY <1>2, <1>4
<1>. QED  BY <1>2, <1>5 DEF FrameOf, Rx

LEMMA StartType ==
  ASSUME NEW h \in Nat
  PROVE  Start(h) \in Parsing /\ Start(h).line = <<>> /\ Start(h).frames = <<>>
<1>1. <<>> \in Seq(Token) /\ <<>> \in Seq(Rx)
  BY EmptySeq
<1>2. Start(h) \in Parsing
  BY <1>1, KnownType DEF Start
<1>3. Start(h).line = <<>> /\ Start(h).frames = <<>>
  BY Zenon DEF Start, Known
<1>. QED  BY <1>2, <1>3

\* A complete line is a frame, an overflow or neither.
LEMMA EndOfLineCases ==
  ASSUME NEW p
  PROVE  /\ IsText(p.line, {"t", "T"})
              => EndOfLine(p) = Known(<<>>, Append(p.frames, FrameOf(p)), p.high)
         /\ IsText(p.line, {"J"}) => EndOfLine(p) = Known(<<>>, p.frames, p.high + 1)
         /\ ~ IsText(p.line, {"t", "T"}) /\ ~ IsText(p.line, {"J"})
              => EndOfLine(p) = Known(<<>>, p.frames, p.high)
<1>1. ~ (IsText(p.line, {"t", "T"}) /\ IsText(p.line, {"J"}))
  BY DEF IsText
<1>. QED  BY <1>1, Zenon DEF EndOfLine

LEMMA ParseTokenType ==
  ASSUME NEW p \in Parsing, NEW x \in Token
  PROVE  ParseToken(p, x) \in Parsing
<1>1. p.line \in Seq(Token) /\ p.frames \in Seq(Rx) /\ p.high \in Nat /\ p.high + 1 \in Nat
  BY ParsingFields
<1>2. <<>> \in Seq(Token) /\ Append(p.line, x) \in Seq(Token)
  BY <1>1, EmptySeq, AppendProperties
<1>3. Len(p.line) = 2 => Append(p.frames, FrameOf(p)) \in Seq(Rx)
  BY <1>1, FrameType, AppendProperties
<1>4. EndOfLine(p) \in Parsing
  BY <1>1, <1>2, <1>3, KnownType, EndOfLineCases DEF IsText
<1>. QED  BY <1>1, <1>2, <1>4, KnownType DEF ParseToken

\* The tokens, each as the step that the parser makes.
Steps(s) == [i \in 1 .. Len(s) |-> [p \in Parsing |-> ParseToken(p, s[i])]]

\* The recursion of ParseFrom passes through states of the parser.
LEMMA ParsePasses ==
  ASSUME NEW p \in Parsing, NEW s \in Seq(Token)
  PROVE  \E g \in [0 .. Len(s) -> Parsing] :
           Passes(g, p, Steps(s), Len(s)) /\ ParseFrom(p, s) = g[Len(s)]
<1>. DEFINE n == Len(s)
<1>1. n \in Nat /\ \A i \in 1 .. n : s[i] \in Token
  BY LenProperties, ElementOfSeq
<1>2. Steps(s) \in [1 .. n -> [Parsing -> Parsing]]
  BY <1>1, ParseTokenType DEF Steps
<1>3. PICK g \in [0 .. n -> Parsing] : Passes(g, p, Steps(s), n)
  BY <1>1, <1>2, RecursionExists
<1>4. ASSUME NEW i \in 1 .. n PROVE g[i] = ParseToken(g[i - 1], s[i])
  <2>1. g[i - 1] \in Parsing /\ g[i] = Steps(s)[i][g[i - 1]]
    BY <1>1, <1>3 DEF Passes
  <2>. QED  BY <2>1 DEF Steps
<1>5. g = [i \in 0 .. n |-> IF i = 0 THEN p ELSE ParseToken(g[i - 1], s[i])]
  <2>1. \A i \in 0 .. n : g[i] = IF i = 0 THEN p ELSE ParseToken(g[i - 1], s[i])
    BY <1>1, <1>3, <1>4 DEF Passes
  <2>. QED  BY <1>3, <2>1
<1>6. PICK h : /\ h = [i \in 0 .. n |-> IF i = 0 THEN p ELSE ParseToken(h[i - 1], s[i])]
               /\ ParseFrom(p, s) = h[n]
  BY <1>5, Zenon DEF ParseFrom
<1>7. h[n] = g[n]
  <2>. DEFINE S == {m \in Nat : m <= n => h[m] = g[m]}
  <2>1. 0 \in S
    BY <1>1, <1>3, <1>6 DEF Passes
  <2>2. ASSUME NEW m \in S PROVE m + 1 \in S
    <3>. SUFFICES ASSUME m + 1 <= n PROVE h[m + 1] = g[m + 1]
      OBVIOUS
    <3>1. m + 1 \in 1 .. n /\ (m + 1) - 1 = m /\ h[m] = g[m]
      BY <1>1
    <3>2. h[m + 1] = ParseToken(h[m], s[m + 1])
      BY <1>6, <3>1
    <3>. QED  BY <1>4, <3>1, <3>2
  <2>. HIDE DEF S
  <2>3. S = Nat
    BY <2>1, <2>2, NumberInduction DEF S
  <2>. QED  BY <1>1, <2>3 DEF S
<1>. QED  BY <1>3, <1>6, <1>7

LEMMA ParseNone ==
  ASSUME NEW p \in Parsing
  PROVE  ParseFrom(p, <<>>) = p
<1>1. <<>> \in Seq(Token) /\ Len(<<>>) = 0
  BY EmptySeq
<1>2. \E g : Passes(g, p, Steps(<<>>), 0) /\ ParseFrom(p, <<>>) = g[0]
  BY <1>1, ParsePasses, Zenon
<1>. QED  BY <1>2, Zenon DEF Passes

LEMMA ParseType ==
  ASSUME NEW p \in Parsing, NEW s \in Seq(Token)
  PROVE  ParseFrom(p, s) \in Parsing
<1>1. Len(s) \in 0 .. Len(s)
  BY LenProperties
<1>. QED  BY <1>1, ParsePasses

LEMMA ParseOne ==
  ASSUME NEW p \in Parsing, NEW s \in Seq(Token), NEW x \in Token
  PROVE  ParseFrom(p, Append(s, x)) = ParseToken(ParseFrom(p, s), x)
<1>. DEFINE t == Append(s, x)  n == Len(s)
<1>1. /\ t \in Seq(Token) /\ n \in Nat /\ Len(t) = n + 1
      /\ t[n + 1] = x /\ \A i \in 1 .. n : t[i] = s[i]
  BY AppendProperties, LenProperties
<1>. HIDE DEF t, n
<1>2. PICK g \in [0 .. n -> Parsing] : Passes(g, p, Steps(s), n) /\ ParseFrom(p, s) = g[n]
  BY ParsePasses DEF n
<1>3. PICK h \in [0 .. n + 1 -> Parsing] :
        Passes(h, p, Steps(t), n + 1) /\ ParseFrom(p, t) = h[n + 1]
  BY <1>1, ParsePasses
<1>4. h[n] = g[n]
  <2>1. \A i \in 1 .. n : Steps(t)[i] = Steps(s)[i]
    BY <1>1 DEF Steps, n
  <2>2. n \in 0 .. n + 1 /\ n + 1 \in Nat /\ n \in 0 .. n
    BY <1>1
  <2>3. \A i \in 0 .. n : h[i] = g[i]
    BY <1>2, <1>3, <2>1, <2>2, RecursionUnique
  <2>. QED  BY <2>2, <2>3
<1>5. h[n + 1] = ParseToken(h[n], x)
  <2>1. n + 1 \in 1 .. n + 1 /\ (n + 1) - 1 = n /\ n \in 0 .. n + 1
    BY <1>1
  <2>2. h[n + 1] = Steps(t)[n + 1][h[n]] /\ h[n] \in Parsing
    BY <1>3, <2>1 DEF Passes
  <2>. QED  BY <1>1, <2>1, <2>2 DEF Steps
<1>. QED  BY <1>2, <1>3, <1>4, <1>5 DEF t

\* The stream may be cut anywhere.
LEMMA ParseConcat ==
  ASSUME NEW p \in Parsing, NEW a \in Seq(Token), NEW b \in Seq(Token)
  PROVE  ParseFrom(p, a \o b) = ParseFrom(ParseFrom(p, a), b)
<1>. DEFINE G == {c \in Seq(Token) : ParseFrom(p, a \o c) = ParseFrom(ParseFrom(p, a), c)}
<1>1. <<>> \in G
  <2>1. a \o <<>> = a /\ ParseFrom(p, a) \in Parsing /\ <<>> \in Seq(Token)
    BY ConcatEmptySeq, ParseType, EmptySeq
  <2>. QED  BY <2>1, ParseNone
<1>2. ASSUME NEW c \in G, NEW x \in Token PROVE Append(c, x) \in G
  <2>1. /\ c \in Seq(Token) /\ a \o c \in Seq(Token) /\ Append(c, x) \in Seq(Token)
        /\ a \o Append(c, x) = Append(a \o c, x)
    BY Closed, AppendProperties, ConcatAppend
  <2>2. ParseFrom(p, a) \in Parsing
    BY ParseType
  <2>3. ParseFrom(p, a \o Append(c, x)) = ParseToken(ParseFrom(p, a \o c), x)
    BY <2>1, ParseOne
  <2>4. ParseFrom(ParseFrom(p, a), Append(c, x))
          = ParseToken(ParseFrom(ParseFrom(p, a), c), x)
    BY <2>1, <2>2, ParseOne
  <2>. QED  BY <2>1, <2>3, <2>4
<1>. HIDE DEF G
<1>3. G = Seq(Token)
  BY <1>1, <1>2, SequenceInduction DEF G
<1>. QED  BY <1>3 DEF G

\* What is known with frames found earlier.
With(fs, p) == Known(p.line, fs \o p.frames, p.high)

LEMMA WithType ==
  ASSUME NEW p \in Parsing, NEW fs \in Seq(Rx)
  PROVE  /\ With(fs, p) \in Parsing /\ With(fs, p).frames = fs \o p.frames
         /\ With(fs, p).line = p.line /\ With(fs, p).high = p.high
<1>1. fs \o p.frames \in Seq(Rx)
  BY ParsingFields, ConcatProperties
<1>2. With(fs, p) \in Parsing
  BY <1>1, ParsingFields, KnownType DEF With
<1>3. /\ With(fs, p).frames = fs \o p.frames /\ With(fs, p).line = p.line
      /\ With(fs, p).high = p.high
  BY Zenon DEF With, Known
<1>. QED  BY <1>2, <1>3

\* The frames found earlier do not matter to the parser.
LEMMA WithToken ==
  ASSUME NEW p \in Parsing, NEW fs \in Seq(Rx), NEW x \in Token
  PROVE  ParseToken(With(fs, p), x) = With(fs, ParseToken(p, x))
<1>. DEFINE q == With(fs, p)
<1>1. q.line = p.line /\ q.frames = fs \o p.frames /\ q.high = p.high
  BY WithType
<1>2. ASSUME NEW l, NEW gs, NEW h PROVE With(fs, Known(l, gs, h)) = Known(l, fs \o gs, h)
  BY KnownFields DEF With
<1>. HIDE DEF q
<1>3. FrameOf(q) = FrameOf(p)
  BY <1>1 DEF FrameOf
<1>4. Len(p.line) = 2 => fs \o Append(p.frames, FrameOf(p)) = Append(fs \o p.frames, FrameOf(p))
  BY ParsingFields, FrameType, ConcatAppend
<1>5. EndOfLine(q) = With(fs, EndOfLine(p))
  <2>1. CASE IsText(p.line, {"t", "T"})
    <3>1. /\ EndOfLine(p) = Known(<<>>, Append(p.frames, FrameOf(p)), p.high)
          /\ EndOfLine(q) = Known(<<>>, Append(fs \o p.frames, FrameOf(p)), p.high)
      BY <1>1, <1>3, <2>1, EndOfLineCases, Zenon
    <3>2. Len(p.line) = 2
      BY <2>1 DEF IsText
    <3>3. With(fs, EndOfLine(p)) = Known(<<>>, fs \o Append(p.frames, FrameOf(p)), p.high)
      BY <1>2, <3>1, Zenon
    <3>. QED  BY <1>4, <3>1, <3>2, <3>3, Zenon
  <2>2. CASE IsText(p.line, {"J"})
    <3>1. /\ EndOfLine(p) = Known(<<>>, p.frames, p.high + 1)
          /\ EndOfLine(q) = Known(<<>>, fs \o p.frames, p.high + 1)
      BY <1>1, <2>2, EndOfLineCases, Zenon
    <3>. QED  BY <1>2, <3>1, Zenon
  <2>3. CASE ~ IsText(p.line, {"t", "T"}) /\ ~ IsText(p.line, {"J"})
    <3>1. /\ EndOfLine(p) = Known(<<>>, p.frames, p.high)
          /\ EndOfLine(q) = Known(<<>>, fs \o p.frames, p.high)
      BY <1>1, <2>3, EndOfLineCases, Zenon
    <3>. QED  BY <1>2, <3>1, Zenon
  <2>. QED  BY <2>1, <2>2, <2>3
<1>6. x # CR => ParseToken(q, x) = With(fs, ParseToken(p, x))
  BY <1>1, <1>2 DEF ParseToken
<1>7. x = CR => ParseToken(q, x) = With(fs, ParseToken(p, x))
  BY <1>5, Zenon DEF ParseToken
<1>. QED  BY <1>6, <1>7, Zenon DEF q

LEMMA WithFrom ==
  ASSUME NEW p \in Parsing, NEW fs \in Seq(Rx), NEW s \in Seq(Token)
  PROVE  ParseFrom(With(fs, p), s) = With(fs, ParseFrom(p, s))
<1>. DEFINE q == With(fs, p)
            G == {c \in Seq(Token) : ParseFrom(q, c) = With(fs, ParseFrom(p, c))}
<1>1. q \in Parsing
  BY WithType
<1>2. <<>> \in G
  BY <1>1, ParseNone, EmptySeq
<1>3. ASSUME NEW c \in G, NEW x \in Token PROVE Append(c, x) \in G
  <2>1. c \in Seq(Token) /\ Append(c, x) \in Seq(Token)
    BY AppendProperties
  <2>2. /\ ParseFrom(q, Append(c, x)) = ParseToken(ParseFrom(q, c), x)
        /\ ParseFrom(p, Append(c, x)) = ParseToken(ParseFrom(p, c), x)
    BY <1>1, <2>1, ParseOne
  <2>3. ParseFrom(p, c) \in Parsing
    BY <2>1, ParseType
  <2>4. ParseToken(With(fs, ParseFrom(p, c)), x) = With(fs, ParseToken(ParseFrom(p, c), x))
    BY <2>3, WithToken
  <2>5. ParseFrom(q, c) = With(fs, ParseFrom(p, c))
    OBVIOUS
  <2>. HIDE DEF q
  <2>. QED  BY <2>1, <2>2, <2>4, <2>5, Zenon
<1>. HIDE DEF G
<1>4. G = Seq(Token)
  BY <1>2, <1>3, SequenceInduction DEF G
<1>. QED  BY <1>4 DEF G

\* What is left over has no CR and is parsed again to the same.
NoCR(s) == \A i \in 1 .. Len(s) : s[i] # CR

LEMMA LineHasNoCR ==
  ASSUME NEW p \in Parsing, NoCR(p.line), NEW s \in Seq(Token)
  PROVE  NoCR(ParseFrom(p, s).line)
<1>. DEFINE G == {c \in Seq(Token) : NoCR(ParseFrom(p, c).line)}
<1>1. <<>> \in G
  BY ParseNone, EmptySeq
<1>2. ASSUME NEW c \in G, NEW x \in Token PROVE Append(c, x) \in G
  <2>. DEFINE q == ParseFrom(p, c)
  <2>1. c \in Seq(Token) /\ Append(c, x) \in Seq(Token)
    BY AppendProperties
  <2>2. ParseFrom(p, Append(c, x)) = ParseToken(q, x) /\ q \in Parsing /\ NoCR(q.line)
    BY <2>1, ParseOne, ParseType
  <2>. HIDE DEF q
  <2>3. NoCR(<<>>)
    BY EmptySeq DEF NoCR
  <2>4. CASE x = CR
    <3>1. EndOfLine(q).line = <<>>
      BY EndOfLineCases, KnownFields
    <3>. QED  BY <2>1, <2>2, <2>3, <2>4, <3>1 DEF ParseToken
  <2>5. CASE x # CR
    <3>1. ParseToken(q, x).line = Append(q.line, x)
      BY <2>5, Zenon DEF ParseToken, Known
    <3>2. q.line \in Seq(Token)
      BY <2>2 DEF Parsing
    <3>3. NoCR(Append(q.line, x))
      <4>1. /\ Len(Append(q.line, x)) = Len(q.line) + 1 /\ Len(q.line) \in Nat
            /\ \A i \in 1 .. Len(q.line) : Append(q.line, x)[i] = q.line[i]
            /\ Append(q.line, x)[Len(q.line) + 1] = x
        BY <3>2, AppendProperties, LenProperties
      <4>. QED  BY <2>2, <2>5, <4>1 DEF NoCR
    <3>. QED  BY <2>1, <2>2, <3>1, <3>3
  <2>. QED  BY <2>4, <2>5
<1>. HIDE DEF G
<1>3. G = Seq(Token)
  BY <1>1, <1>2, SequenceInduction DEF G
<1>. QED  BY <1>3 DEF G

LEMMA LineAgain ==
  ASSUME NEW h \in Nat, NEW s \in Seq(Token), NoCR(s)
  PROVE  Parse(s, h) = Known(s, <<>>, h)
<1>. DEFINE G == {c \in Seq(Token) :
                    NoCR(c) => Parse(c, h) = Known(c, <<>>, h)}
<1>1. Start(h) \in Parsing
  BY StartType
<1>2. <<>> \in G
  BY <1>1, ParseNone, EmptySeq DEF Parse, Start
<1>3. ASSUME NEW c \in G, NEW x \in Token PROVE Append(c, x) \in G
  <2>. SUFFICES ASSUME NoCR(Append(c, x))
                PROVE  Parse(Append(c, x), h)
                         = Known(Append(c, x), <<>>, h)
    BY AppendProperties
  <2>1. /\ c \in Seq(Token) /\ Len(c) \in Nat /\ Len(Append(c, x)) = Len(c) + 1
        /\ \A i \in 1 .. Len(c) : Append(c, x)[i] = c[i]
        /\ Append(c, x)[Len(c) + 1] = x
    BY AppendProperties, LenProperties
  <2>2. NoCR(c) /\ x # CR
    BY <2>1 DEF NoCR
  <2>3. Parse(Append(c, x), h) = ParseToken(Parse(c, h), x)
    BY <1>1, <2>1, ParseOne DEF Parse
  <2>4. Parse(c, h) = Known(c, <<>>, h)
    BY <2>2
  <2>. QED  BY <2>2, <2>3, <2>4, KnownFields DEF ParseToken
<1>. HIDE DEF G
<1>4. G = Seq(Token)
  BY <1>2, <1>3, SequenceInduction DEF G
<1>. QED  BY <1>4 DEF G

\* A call of read_frames takes some tokens and keeps the line begun and the
\* count; the next begins with them and finds what one call would have found.
LEMMA ParseInTwo ==
  ASSUME NEW h \in Nat, NEW a \in Seq(Token), NEW b \in Seq(Token)
  PROVE  LET p == Parse(a, h)
         IN  /\ p \in Parsing
             /\ Parse(a \o b, h) = With(p.frames, Parse(p.line \o b, p.high))
<1>. DEFINE p == Parse(a, h)
<1>1. Start(h) \in Parsing /\ NoCR(Start(h).line)
  BY StartType, EmptySeq DEF NoCR
<1>2. p \in Parsing /\ NoCR(p.line) /\ Parse(a \o b, h) = ParseFrom(p, b)
  BY <1>1, ParseType, LineHasNoCR, ParseConcat DEF Parse
<1>. HIDE DEF p
<1>3. /\ p.line \in Seq(Token) /\ p.frames \in Seq(Rx) /\ p.high \in Nat
      /\ p = Known(p.line, p.frames, p.high)
  BY <1>2, ParsingFields, Zenon
<1>. DEFINE q == Known(p.line, <<>>, p.high)
<1>4. q \in Parsing /\ With(p.frames, q) = p
  <2>1. <<>> \in Seq(Rx) /\ p.frames \o <<>> = p.frames
    BY <1>3, ConcatEmptySeq, EmptySeq
  <2>2. q \in Parsing
    BY <1>3, <2>1, EmptySeq, KnownType
  <2>3. With(p.frames, q) = Known(p.line, p.frames \o <<>>, p.high)
    BY Zenon DEF With, Known
  <2>. QED  BY <1>3, <2>1, <2>2, <2>3, Zenon
<1>5. Parse(p.line \o b, p.high) = ParseFrom(q, b)
  <2>1. Start(p.high) \in Parsing
    BY <1>3, StartType
  <2>2. ParseFrom(Start(p.high), p.line) = q
    BY <1>2, <1>3, LineAgain DEF Parse
  <2>. HIDE DEF q
  <2>. QED  BY <1>3, <2>1, <2>2, ParseConcat DEF Parse
<1>. HIDE DEF q
<1>6. ParseFrom(p, b) = With(p.frames, ParseFrom(q, b))
  BY <1>3, <1>4, WithFrom
<1>. QED  BY <1>2, <1>5, <1>6 DEF p

LEMMA TwoAppended ==
  ASSUME NEW X, NEW a \in X, NEW b \in X
  PROVE  /\ Append(<<>>, a) = <<a>> /\ <<a>> \in Seq(X)
         /\ Append(Append(<<>>, a), b) = <<a, b>> /\ <<a, b>> \in Seq(X)
<1>1. /\ <<a>> \in Seq(X) /\ Len(<<a>>) = 1 /\ <<a>>[1] = a
      /\ Append(<<>>, a) = <<a>>
  OBVIOUS
<1>. DEFINE t == Append(<<a>>, b)  u == <<a, b>>
<1>2. t \in Seq(X) /\ Len(t) = 2 /\ t[1] = a /\ t[2] = b
  BY <1>1, AppendProperties
<1>3. u \in Seq(X) /\ Len(u) = 2 /\ u[1] = a /\ u[2] = b
  BY TwoElements
<1>. HIDE DEF t, u
<1>4. \A i \in 1 .. 2 : t[i] = u[i]
  BY <1>2, <1>3
<1>5. t = u
  BY <1>2, <1>3, <1>4, SeqEqual
<1>. QED  BY <1>1, <1>3, <1>5, Zenon DEF t, u

\* A whole line is a frame with the time counted so far, an overflow, or an
\* answer that read_frames skips.
LEMMA ParseLine ==
  ASSUME NEW p \in Parsing, p.line = <<>>,
         NEW k \in Said \ {"CR"}, NEW n \in Nat, NEW low \in Nat
  PROVE  LET q == ParseFrom(p, Line(k, n, low))
             f == [n |-> n, ts |-> p.high * Wrap + low]
         IN  /\ k \in {"t", "T"} => q = Known(<<>>, Append(p.frames, f), p.high)
             /\ k = "J" => q = Known(<<>>, p.frames, p.high + 1)
             /\ k \notin {"t", "T", "J"} => q = Known(<<>>, p.frames, p.high)
<1>. DEFINE x == Half(k, n, low, 1)  y == Half(k, n, low, 2)
<1>1. /\ x \in Token /\ y \in Token /\ CR \in Token /\ x # CR /\ y # CR
      /\ x.kind = k /\ x.half = 1 /\ x.n = n /\ x.low = low
  BY DEF Half, Token, CR, Said
<1>2. [x EXCEPT !.half = 2] = y
  BY DEF Half
<1>3. Text(k, n, low) = <<x, y>>
  BY DEF Text
<1>. HIDE DEF x, y
<1>4. /\ Append(<<>>, x) = <<x>> /\ Append(<<x>>, y) = <<x, y>>
      /\ <<>> \in Seq(Token) /\ <<x>> \in Seq(Token) /\ <<x, y>> \in Seq(Token)
  BY <1>1, TwoAppended, EmptySeq
<1>5. Line(k, n, low) = Append(<<x, y>>, CR)
  BY <1>3 DEF Line
<1>. DEFINE r == Known(<<x, y>>, p.frames, p.high)
<1>6. ParseFrom(p, <<x, y>>) = r
  <2>1. ParseFrom(p, <<>>) = p
    BY ParseNone
  <2>2. ParseFrom(p, <<x>>) = ParseToken(p, x)
    BY <1>1, <1>4, <2>1, ParseOne
  <2>3. ParseToken(p, x) = Known(<<x>>, p.frames, p.high)
    BY <1>1, <1>4 DEF ParseToken
  <2>4. ParseFrom(p, <<x, y>>) = ParseToken(Known(<<x>>, p.frames, p.high), y)
    <3>1. ParseFrom(p, Append(<<x>>, y)) = ParseToken(ParseFrom(p, <<x>>), y)
      BY <1>1, <1>4, ParseOne
    <3>. QED  BY <1>4, <2>2, <2>3, <3>1, Zenon
  <2>5. /\ Known(<<x>>, p.frames, p.high).line = <<x>>
        /\ Known(<<x>>, p.frames, p.high).frames = p.frames
        /\ Known(<<x>>, p.frames, p.high).high = p.high
    BY Zenon DEF Known
  <2>6. ParseToken(Known(<<x>>, p.frames, p.high), y) = Known(<<x, y>>, p.frames, p.high)
    BY <1>1, <1>4, <2>5, Zenon DEF ParseToken
  <2>. QED  BY <2>4, <2>6, Zenon
<1>7. ParseFrom(p, Line(k, n, low)) = EndOfLine(r)
  <2>1. ParseFrom(p, Append(<<x, y>>, CR)) = ParseToken(r, CR)
    <3>1. ParseFrom(p, Append(<<x, y>>, CR)) = ParseToken(ParseFrom(p, <<x, y>>), CR)
      BY <1>1, <1>4, ParseOne
    <3>. QED  BY <1>6, <3>1, Zenon
  <2>. QED  BY <1>5, <2>1, Zenon DEF ParseToken
<1>8. r.line = <<x, y>> /\ r.frames = p.frames /\ r.high = p.high
  BY Zenon DEF Known
<1>9. Len(<<x, y>>) = 2 /\ <<x, y>>[1] = x /\ <<x, y>>[2] = y
  BY <1>1, TwoElements, Zenon
<1>. HIDE DEF r
<1>10. ASSUME NEW ks PROVE IsText(r.line, ks) <=> k \in ks
  BY <1>1, <1>2, <1>8, <1>9, Zenon DEF IsText
<1>11. FrameOf(r) = [n |-> n, ts |-> p.high * Wrap + low]
  BY <1>1, <1>8, <1>9, Zenon DEF FrameOf
<1>12. /\ k \in {"t", "T"} => EndOfLine(r) = Known(<<>>, Append(p.frames, FrameOf(r)), p.high)
       /\ k \in {"J"} => EndOfLine(r) = Known(<<>>, p.frames, p.high + 1)
       /\ k \notin {"t", "T"} /\ k \notin {"J"} => EndOfLine(r) = Known(<<>>, p.frames, p.high)
  BY <1>8, <1>10, EndOfLineCases, Zenon
<1>. QED  BY <1>7, <1>11, <1>12, Zenon

\* The end of a line.
Ending(s) == s = <<>> \/ s = <<CR>> \/ \E x \in Token : x # CR /\ s = <<x, CR>>

LEMMA ParseEnding ==
  ASSUME NEW h \in Nat, NEW s, Ending(s)
  PROVE  s \in Seq(Token) /\ Parse(s, h) = Start(h)
<1>. DEFINE p == Start(h)
<1>1. /\ p \in Parsing /\ p.line = <<>> /\ p.frames = <<>> /\ p.high = h
      /\ <<>> \in Seq(Token) /\ CR \in Token
  <2>1. CR \in Token
    BY DEF CR, Half, Token, Said
  <2>2. p.high = h
    BY Zenon DEF Start, Known
  <2>. HIDE DEF CR
  <2>. QED  BY <2>1, <2>2, StartType, EmptySeq
<1>2. p = Known(<<>>, <<>>, h)
  BY DEF Start
<1>. HIDE DEF p
<1>3. ParseFrom(p, <<>>) = p
  BY <1>1, ParseNone
<1>4. ASSUME NEW q \in Parsing, q.frames = <<>>, q.high = h, ~ IsText(q.line, {"t", "T", "J"})
      PROVE  ParseToken(q, CR) = p
  <2>1. ~ IsText(q.line, {"t", "T"}) /\ ~ IsText(q.line, {"J"})
    BY <1>4 DEF IsText
  <2>2. EndOfLine(q) = Known(<<>>, q.frames, q.high)
    BY <2>1, EndOfLineCases, Zenon
  <2>. QED  BY <1>2, <1>4, <2>2, Zenon DEF ParseToken
<1>5. CASE s = <<>>
  BY <1>1, <1>3, <1>5 DEF Parse, p
<1>6. CASE s = <<CR>>
  <2>1. Append(<<>>, CR) = <<CR>> /\ <<CR>> \in Seq(Token)
    BY <1>1, TwoAppended, Zenon
  <2>2. ParseFrom(p, <<CR>>) = ParseToken(p, CR)
    BY <1>1, <1>3, <2>1, ParseOne, Zenon
  <2>3. ~ IsText(p.line, {"t", "T", "J"})
    BY <1>1, EmptySeq DEF IsText
  <2>4. ParseToken(p, CR) = p
    BY <1>1, <1>4, <2>3
  <2>. QED  BY <1>6, <2>1, <2>2, <2>4, Zenon DEF Parse, p
<1>7. CASE \E x \in Token : x # CR /\ s = <<x, CR>>
  <2>1. PICK x \in Token : x # CR /\ s = <<x, CR>>
    BY <1>7
  <2>2. /\ Append(<<>>, x) = <<x>> /\ <<x>> \in Seq(Token)
        /\ Append(<<x>>, CR) = <<x, CR>> /\ <<x, CR>> \in Seq(Token)
    BY <1>1, TwoAppended, Zenon
  <2>. DEFINE q == Known(<<x>>, <<>>, h)
  <2>3. ParseFrom(p, <<x>>) = ParseToken(p, x)
    <3>1. ParseFrom(p, Append(<<>>, x)) = ParseToken(ParseFrom(p, <<>>), x)
      BY <1>1, ParseOne
    <3>. QED  BY <1>3, <2>2, <3>1, Zenon
  <2>4. ParseToken(p, x) = q
    BY <1>1, <2>1, <2>2, Zenon DEF ParseToken
  <2>5. q \in Parsing
    BY <2>2, EmptySeq, KnownType
  <2>6. q.line = <<x>> /\ q.frames = <<>> /\ q.high = h
    BY Zenon DEF Known
  <2>7. Len(<<x>>) = 1
    OBVIOUS
  <2>. HIDE DEF q
  <2>8. ~ IsText(q.line, {"t", "T", "J"})
    BY <2>6, <2>7 DEF IsText
  <2>9. ParseToken(q, CR) = p
    BY <1>4, <2>5, <2>6, <2>8
  <2>10. ParseFrom(p, <<x, CR>>) = ParseToken(ParseFrom(p, <<x>>), CR)
    BY <1>1, <2>2, ParseOne, Zenon
  <2>. QED  BY <2>1, <2>2, <2>3, <2>4, <2>9, <2>10, Zenon DEF Parse, p
<1>. QED  BY <1>5, <1>6, <1>7 DEF Ending

\* A part of the stream that ends with a whole line either begins before that
\* line or is the end of it.
Splits(l, s, a, b) == (\E c \in Seq(Token) : s = a \o c /\ b = c \o l) \/ Ending(b)

LEMMA SplitLine ==
  ASSUME NEW l \in Seq(Token), Len(l) = 3, l[2] # CR, l[3] = CR,
         NEW s \in Seq(Token), NEW a \in Seq(Token), NEW b \in Seq(Token), s \o l = a \o b
  PROVE  Splits(l, s, a, b)
<1>. SUFFICES (\E c \in Seq(Token) : s = a \o c /\ b = c \o l) \/ Ending(b)
  BY DEF Splits
<1>. DEFINE t == s \o l
<1>1. l \in Seq(Token) /\ Len(l) = 3 /\ l[2] \in Token /\ l[2] # CR /\ l[3] = CR
  <2>1. 2 \in 1 .. Len(l)
    OBVIOUS
  <2>. QED  BY <2>1, ElementOfSeq
<1>3. /\ Len(s) \in Nat /\ Len(a) \in Nat /\ Len(b) \in Nat
      /\ t \in Seq(Token) /\ Len(t) = Len(s) + 3
      /\ \A i \in 1 .. Len(t) : t[i] = IF i <= Len(s) THEN s[i] ELSE l[i - Len(s)]
  <2>1. /\ t \in Seq(Token) /\ Len(t) = Len(s) + Len(l)
        /\ \A i \in 1 .. Len(s) + Len(l) : t[i] = IF i <= Len(s) THEN s[i] ELSE l[i - Len(s)]
    BY <1>1, ConcatProperties
  <2>2. Len(s) \in Nat /\ Len(a) \in Nat /\ Len(b) \in Nat
    BY LenProperties
  <2>. HIDE DEF t
  <2>. QED  BY <1>1, <2>1, <2>2
<1>4. /\ Len(t) = Len(a) + Len(b)
      /\ \A i \in 1 .. Len(t) : t[i] = IF i <= Len(a) THEN a[i] ELSE b[i - Len(a)]
  <2>1. /\ Len(a \o b) = Len(a) + Len(b)
        /\ \A i \in 1 .. Len(a) + Len(b) :
             (a \o b)[i] = IF i <= Len(a) THEN a[i] ELSE b[i - Len(a)]
    BY ConcatProperties
  <2>2. t = a \o b
    OBVIOUS
  <2>. HIDE DEF t
  <2>. QED  BY <2>1, <2>2
<1>5. CASE Len(a) <= Len(s)
  <2>. DEFINE c == SubSeq(s, Len(a) + 1, Len(s))
  <2>1. /\ c \in Seq(Token) /\ Len(c) = Len(s) - Len(a)
        /\ \A i \in 1 .. Len(s) - Len(a) : c[i] = s[Len(a) + i]
    <3>1. \A i \in Len(a) + 1 .. Len(s) : s[i] \in Token
      BY <1>3, ElementOfSeq
    <3>2. /\ c \in Seq(Token)
          /\ Len(c) = IF Len(a) + 1 <= Len(s) THEN Len(s) - (Len(a) + 1) + 1 ELSE 0
          /\ \A i \in 1 .. Len(s) - (Len(a) + 1) + 1 : c[i] = s[Len(a) + 1 + i - 1]
      BY <1>3, <3>1, SubSeqProperties
    <3>3. \A i \in 1 .. Len(s) - Len(a) :
            Len(a) + 1 + i - 1 = Len(a) + i /\ i \in 1 .. Len(s) - (Len(a) + 1) + 1
      BY <1>3
    <3>. HIDE DEF c
    <3>. QED  BY <1>3, <1>5, <3>2, <3>3
  <2>. HIDE DEF c
  <2>2. s = a \o c
    <3>. DEFINE u == a \o c
    <3>1. /\ u \in Seq(Token) /\ Len(u) = Len(s)
          /\ \A i \in 1 .. Len(s) : u[i] = IF i <= Len(a) THEN a[i] ELSE c[i - Len(a)]
      <4>1. /\ u \in Seq(Token) /\ Len(u) = Len(a) + Len(c)
            /\ \A i \in 1 .. Len(a) + Len(c) :
                 u[i] = IF i <= Len(a) THEN a[i] ELSE c[i - Len(a)]
        BY <2>1, ConcatProperties
      <4>. QED  BY <1>3, <2>1, <4>1
    <3>. HIDE DEF u, t
    <3>2. ASSUME NEW i \in 1 .. Len(s) PROVE u[i] = s[i]
      <4>1. i \in 1 .. Len(t) /\ t[i] = s[i]
        BY <1>3
      <4>2. CASE i <= Len(a)
        BY <1>4, <3>1, <4>1, <4>2
      <4>3. CASE ~ (i <= Len(a))
        <5>1. i - Len(a) \in 1 .. Len(s) - Len(a) /\ Len(a) + (i - Len(a)) = i
          BY <1>3, <4>3
        <5>. QED  BY <2>1, <3>1, <4>3, <5>1
      <4>. QED  BY <4>2, <4>3
    <3>. QED  BY <3>1, <3>2, SeqEqual DEF u
  <2>3. b = c \o l
    <3>. DEFINE u == c \o l
    <3>1. /\ u \in Seq(Token) /\ Len(u) = Len(c) + 3
          /\ \A i \in 1 .. Len(c) + 3 : u[i] = IF i <= Len(c) THEN c[i] ELSE l[i - Len(c)]
      <4>1. /\ u \in Seq(Token) /\ Len(u) = Len(c) + Len(l)
            /\ \A i \in 1 .. Len(c) + Len(l) :
                 u[i] = IF i <= Len(c) THEN c[i] ELSE l[i - Len(c)]
        BY <1>1, <2>1, ConcatProperties
      <4>. QED  BY <1>1, <4>1
    <3>. HIDE DEF u, t
    <3>2. Len(u) = Len(b)
      BY <1>3, <1>4, <2>1, <3>1
    <3>3. ASSUME NEW i \in 1 .. Len(b) PROVE b[i] = u[i]
      <4>1. /\ Len(a) + i \in 1 .. Len(t) /\ ~ (Len(a) + i <= Len(a))
            /\ (Len(a) + i) - Len(a) = i
        BY <1>3, <1>4
      <4>2. b[i] = t[Len(a) + i]
        BY <1>4, <4>1
      <4>3. CASE i <= Len(c)
        <5>1. Len(a) + i <= Len(s) /\ i \in 1 .. Len(s) - Len(a) /\ i \in 1 .. Len(c) + 3
          BY <1>3, <2>1, <4>3
        <5>2. t[Len(a) + i] = s[Len(a) + i]
          BY <1>3, <4>1, <5>1
        <5>. QED  BY <2>1, <3>1, <4>2, <4>3, <5>1, <5>2
      <4>4. CASE ~ (i <= Len(c))
        <5>1. /\ ~ (Len(a) + i <= Len(s)) /\ (Len(a) + i) - Len(s) = i - Len(c)
              /\ i \in 1 .. Len(c) + 3
          BY <1>3, <2>1, <3>1, <3>2, <4>4
        <5>2. t[Len(a) + i] = l[i - Len(c)]
          BY <1>3, <4>1, <5>1
        <5>. QED  BY <3>1, <4>2, <4>4, <5>1, <5>2
      <4>. QED  BY <4>3, <4>4
    <3>. QED  BY <3>1, <3>2, <3>3, SeqEqual DEF u
  <2>. QED  BY <2>1, <2>2, <2>3
<1>6. CASE Len(a) > Len(s)
  <2>. HIDE DEF t
  <2>1. Len(b) = 0 \/ Len(b) = 1 \/ Len(b) = 2
    <3>1. /\ Len(s) + 3 = Len(a) + Len(b)
          /\ Len(s) \in Nat /\ Len(a) \in Nat /\ Len(b) \in Nat
      BY <1>3, <1>4, Zenon
    <3>2. \A x, y, z \in Nat : x + 3 = y + z /\ y > x => z = 0 \/ z = 1 \/ z = 2
      OBVIOUS
    <3>. QED  BY <1>6, <3>1, <3>2, Zenon
  <2>2. ASSUME NEW i \in 1 .. Len(b) PROVE b[i] = l[3 - Len(b) + i]
    <3>1. /\ Len(a) + i \in 1 .. Len(t) /\ ~ (Len(a) + i <= Len(a)) /\ ~ (Len(a) + i <= Len(s))
          /\ (Len(a) + i) - Len(a) = i /\ (Len(a) + i) - Len(s) = 3 - Len(b) + i
      BY <1>3, <1>4, <1>6
    <3>2. t[Len(a) + i] = b[i]
      BY <1>4, <3>1
    <3>3. t[Len(a) + i] = l[3 - Len(b) + i]
      BY <1>3, <3>1
    <3>. QED  BY <3>2, <3>3
  <2>3. CASE Len(b) = 0
    BY <2>3, EmptySeq DEF Ending
  <2>4. CASE Len(b) = 1
    <3>1. b[1] = CR
      BY <1>1, <2>2, <2>4
    <3>2. b = <<CR>>
      <4>1. CR \in Token
        BY DEF CR, Half, Token, Said
      <4>. HIDE DEF CR
      <4>2. <<CR>> \in Seq(Token) /\ Len(<<CR>>) = 1 /\ <<CR>>[1] = CR
        BY <4>1
      <4>3. \A i \in 1 .. 1 : b[i] = <<CR>>[i]
        BY <3>1, <4>2
      <4>. QED  BY <2>4, <4>2, <4>3, SeqEqual
    <3>. QED  BY <3>2 DEF Ending
  <2>5. CASE Len(b) = 2
    <3>. DEFINE x == l[2]
    <3>1. b[1] = x /\ b[2] = CR /\ x \in Token /\ x # CR
      BY <1>1, <2>2, <2>5
    <3>2. CR \in Token
      BY DEF CR, Half, Token, Said
    <3>. HIDE DEF x, CR
    <3>3. b = <<x, CR>>
      <4>1. <<x, CR>> \in Seq(Token) /\ Len(<<x, CR>>) = 2 /\ <<x, CR>>[1] = x /\ <<x, CR>>[2] = CR
        BY <3>1, <3>2, TwoElements
      <4>2. \A i \in 1 .. 2 : b[i] = <<x, CR>>[i]
        BY <3>1, <4>1
      <4>. QED  BY <2>5, <4>1, <4>2, SeqEqual
    <3>. QED  BY <3>1, <3>3 DEF Ending
  <2>. QED  BY <2>1, <2>3, <2>4, <2>5
<1>7. Len(a) <= Len(s) \/ Len(a) > Len(s)
  BY <1>3
<1>. QED  BY <1>5, <1>6, <1>7

-----------------------------------------------------------------------------
(* Frames and times *)

\* The frames found are the last heard, and their timestamps are off by what
\* the overflows that were not seen amount to.
Right(p, moments, t) ==
  /\ p.line = <<>>
  /\ Len(p.frames) <= Len(moments)
  /\ \A i \in 1 .. Len(p.frames) :
       LET n == Len(moments) - Len(p.frames) + i
       IN  /\ p.frames[i].n = n
           /\ p.frames[i].ts + (t \div Wrap) * Wrap = moments[n] + p.high * Wrap

LEMMA RightNone ==
  ASSUME NEW p, p.line = <<>>, p.frames = <<>>, NEW s \in Seq(Nat), NEW t
  PROVE  Right(p, s, t)
<1>1. Len(<<>>) = 0 /\ Len(s) \in Nat
  BY EmptySeq, LenProperties
<1>. QED  BY <1>1 DEF Right

\* A frame is heard.
LEMMA RightHear ==
  ASSUME NEW p \in Parsing, NEW s \in Seq(Nat), NEW t \in Nat, Right(p, s, t),
         NEW k \in {"t", "T"}
  PROVE  LET q == ParseFrom(p, Line(k, Len(s) + 1, t % Wrap))
         IN  Right(q, Append(s, t), t) /\ Len(q.frames) = Len(p.frames) + 1
<1>. DEFINE m == Len(p.frames)  L == Len(s)
            f == [n |-> L + 1, ts |-> p.high * Wrap + (t % Wrap)]
            q == Known(<<>>, Append(p.frames, f), p.high)
<1>1. /\ p.frames \in Seq(Rx) /\ p.high \in Nat /\ m \in Nat /\ L \in Nat
      /\ p.line = <<>> /\ m <= L
  BY ParsingFields, LenProperties DEF Right
<1>2. /\ t % Wrap \in Nat /\ t \div Wrap \in Nat
      /\ (t \div Wrap) * Wrap + (t % Wrap) = t
  BY NumberAssumption, DivMod
<1>3. p.high * Wrap \in Nat /\ (t \div Wrap) * Wrap \in Nat
  <2>1. Wrap \in Nat /\ \A x, y \in Nat : x * y \in Nat
    BY NumberAssumption
  <2>. QED  BY <1>1, <1>2, <2>1, Zenon
<1>4. ParseFrom(p, Line(k, L + 1, t % Wrap)) = q
  <2>1. k \in Said \ {"CR"} /\ L + 1 \in Nat
    BY <1>1 DEF Said
  <2>. HIDE DEF m
  <2>2. k \in {"t", "T"} => ParseFrom(p, Line(k, L + 1, t % Wrap)) = q
    BY <1>1, <1>2, <2>1, ParseLine
  <2>. QED  BY <2>2, Zenon
<1>5. f \in Rx /\ f.n = L + 1 /\ f.ts = p.high * Wrap + (t % Wrap)
  BY <1>1, <1>2, <1>3 DEF Rx
<1>6. q.line = <<>> /\ q.frames = Append(p.frames, f) /\ q.high = p.high
  BY Zenon DEF Known
<1>. HIDE DEF f, q
<1>7. /\ Len(q.frames) = m + 1 /\ q.frames[m + 1] = f
      /\ \A i \in 1 .. m : q.frames[i] = p.frames[i]
  BY <1>1, <1>5, <1>6, AppendProperties
<1>8. /\ Len(Append(s, t)) = L + 1 /\ Append(s, t)[L + 1] = t
      /\ \A i \in 1 .. L : Append(s, t)[i] = s[i]
  BY AppendProperties
<1>9. ASSUME NEW i \in 1 .. m + 1
      PROVE  LET n == (L + 1) - (m + 1) + i
             IN  /\ q.frames[i].n = n
                 /\ q.frames[i].ts + (t \div Wrap) * Wrap = Append(s, t)[n] + q.high * Wrap
  <2>1. CASE i \in 1 .. m
    <3>1. (L + 1) - (m + 1) + i = L - m + i /\ L - m + i \in 1 .. L
      BY <1>1, <2>1
    <3>2. /\ p.frames[i].n = L - m + i
          /\ p.frames[i].ts + (t \div Wrap) * Wrap = s[L - m + i] + p.high * Wrap
      BY <2>1 DEF Right
    <3>. QED  BY <1>6, <1>7, <1>8, <2>1, <3>1, <3>2, Zenon
  <2>2. CASE i = m + 1
    <3>1. (L + 1) - (m + 1) + i = L + 1
      <4>1. \A x, y \in Nat : (x + 1) - (y + 1) + (y + 1) = x + 1
        OBVIOUS
      <4>. QED  BY <1>1, <2>2, <4>1, Zenon
    <3>2. f.ts + (t \div Wrap) * Wrap = t + p.high * Wrap
      BY <1>2, <1>3, <1>5
    <3>3. q.frames[i] = f
      BY <1>7, <2>2, Zenon
    <3>4. Append(s, t)[(L + 1) - (m + 1) + i] = t
      BY <1>8, <3>1, Zenon
    <3>5. q.frames[i].n = (L + 1) - (m + 1) + i
      BY <1>5, <3>1, <3>3, Zenon
    <3>6. q.frames[i].ts + (t \div Wrap) * Wrap
            = Append(s, t)[(L + 1) - (m + 1) + i] + q.high * Wrap
      BY <1>6, <3>2, <3>3, <3>4, Zenon
    <3>. QED  BY <3>5, <3>6, Zenon
  <2>3. i \in 1 .. m \/ i = m + 1
    BY <1>1
  <2>. QED  BY <2>1, <2>2, <2>3, Zenon
<1>10. m + 1 <= L + 1
  BY <1>1
<1>. QED  BY <1>4, <1>6, <1>7, <1>8, <1>9, <1>10, Zenon DEF Right

\* The clock ticks; when it wraps, a line says so.
LEMMA RightTick ==
  ASSUME NEW p \in Parsing, NEW s \in Seq(Nat), NEW t \in Nat, Right(p, s, t)
  PROVE  /\ (t + 1) % Wrap # 0 => Right(p, s, t + 1)
         /\ (t + 1) % Wrap = 0
              => LET q == ParseFrom(p, Line("J", 0, 0))
                 IN  Right(q, s, t + 1) /\ q.frames = p.frames
<1>1. /\ p.frames \in Seq(Rx) /\ p.high \in Nat /\ Len(p.frames) \in Nat /\ Len(s) \in Nat
      /\ p.line = <<>> /\ Len(p.frames) <= Len(s)
  BY ParsingFields, LenProperties DEF Right
<1>. DEFINE d == t \div Wrap  r == t % Wrap  e == (t + 1) \div Wrap  u == (t + 1) % Wrap
<1>2. /\ d \in Nat /\ r \in Nat /\ d * Wrap + r = t /\ r < Wrap
      /\ e \in Nat /\ u \in Nat /\ e * Wrap + u = t + 1 /\ u < Wrap
  BY NumberAssumption, DivMod
<1>3. Wrap \in Nat /\ Wrap > 0
  BY NumberAssumption
<1>. HIDE DEF d, r, e, u
<1>4. /\ u # 0 => e = d
      /\ u = 0 => e = d + 1
  <2>1. e < d \/ e = d \/ e = d + 1 \/ e > d + 1
    BY <1>2
  <2>2. ASSUME NEW x \in Nat, NEW y \in Nat, x > y PROVE x * Wrap >= y * Wrap + Wrap
    <3>1. PICK z \in Nat : x = y + 1 + z
      BY <2>2
    <3>2. x * Wrap = y * Wrap + Wrap + z * Wrap
      BY <1>3, <3>1
    <3>3. z * Wrap >= 0 /\ z * Wrap \in Nat /\ y * Wrap \in Nat
      BY <1>3
    <3>. QED  BY <1>3, <3>2, <3>3
  <2>3. d * Wrap \in Nat /\ e * Wrap \in Nat /\ (d + 1) * Wrap = d * Wrap + Wrap
    BY <1>2, <1>3
  <2>4. ~ (e < d)
    <3>1. ASSUME e < d PROVE d * Wrap >= e * Wrap + Wrap
      BY <1>2, <2>2, <3>1
    <3>. QED  BY <1>2, <1>3, <2>3, <3>1
  <2>5. ~ (e > d + 1)
    <3>1. ASSUME e > d + 1 PROVE e * Wrap >= (d + 1) * Wrap + Wrap
      BY <1>2, <2>2, <3>1
    <3>. QED  BY <1>2, <1>3, <2>3, <3>1
  <2>6. e = d => u # 0
    BY <1>2, <2>3
  <2>7. e = d + 1 => u = 0
    BY <1>2, <1>3, <2>3
  <2>. QED  BY <2>1, <2>4, <2>5, <2>6, <2>7
<1>5. ASSUME u # 0 PROVE Right(p, s, t + 1)
  BY <1>4, <1>5, Zenon DEF Right, d, e
<1>6. ASSUME u = 0
      PROVE  LET q == ParseFrom(p, Line("J", 0, 0))
             IN  Right(q, s, t + 1) /\ q.frames = p.frames
  <2>. DEFINE q == Known(<<>>, p.frames, p.high + 1)
  <2>1. ParseFrom(p, Line("J", 0, 0)) = q
    <3>1. "J" \in Said \ {"CR"} /\ 0 \in Nat
      BY DEF Said
    <3>. QED  BY <1>1, <3>1, ParseLine, Zenon
  <2>2. q.line = <<>> /\ q.frames = p.frames /\ q.high = p.high + 1
    BY Zenon DEF Known
  <2>. HIDE DEF q
  <2>3. ASSUME NEW i \in 1 .. Len(p.frames)
        PROVE  LET n == Len(s) - Len(p.frames) + i
               IN  /\ p.frames[i].n = n
                   /\ p.frames[i].ts + e * Wrap = s[n] + q.high * Wrap
    <3>. DEFINE n == Len(s) - Len(p.frames) + i
    <3>1. p.frames[i].n = n /\ p.frames[i].ts + d * Wrap = s[n] + p.high * Wrap
      BY DEF Right, d
    <3>2. n \in 1 .. Len(s)
      <4>1. \A x, y \in Nat : y <= x => \A z \in 1 .. y : x - y + z \in 1 .. x
        OBVIOUS
      <4>. QED  BY <1>1, <4>1, Zenon
    <3>3. s[n] \in Nat /\ p.frames[i].ts \in Nat
      <4>1. p.frames[i] \in Rx
        BY <1>1, ElementOfSeq
      <4>. QED  BY <3>2, <4>1, ElementOfSeq DEF Rx
    <3>. HIDE DEF n
    <3>4. e * Wrap = d * Wrap + Wrap /\ q.high * Wrap = p.high * Wrap + Wrap
      BY <1>1, <1>2, <1>3, <1>4, <1>6, <2>2
    <3>5. d * Wrap \in Nat /\ p.high * Wrap \in Nat
      BY <1>1, <1>2, <1>3
    <3>6. p.frames[i].ts + e * Wrap = s[n] + q.high * Wrap
      <4>. DEFINE A == d * Wrap  B == e * Wrap  C == p.high * Wrap  D == q.high * Wrap
                  F == p.frames[i].ts  X == s[n]
      <4>1. /\ A \in Nat /\ C \in Nat /\ F \in Nat /\ X \in Nat /\ Wrap \in Nat
            /\ B = A + Wrap /\ D = C + Wrap /\ F + A = X + C
        BY <1>3, <3>1, <3>3, <3>4, <3>5
      <4>. HIDE DEF A, B, C, D, F, X
      <4>2. F + B = X + D
        BY <4>1
      <4>. QED  BY <4>2 DEF B, D, F, X
    <3>. QED  BY <3>1, <3>6, Zenon DEF n
  <2>. QED  BY <1>1, <2>1, <2>2, <2>3, Zenon DEF Right, e
<1>. QED  BY <1>5, <1>6 DEF u

\* The answer to "V" changes nothing.
LEMMA AnswerSkipped ==
  ASSUME NEW p \in Parsing, p.line = <<>>
  PROVE  ParseFrom(p, Line("version", 0, 0)) = p
<1>1. "version" \in Said \ {"CR"} /\ "version" \notin {"t", "T", "J"} /\ 0 \in Nat
  BY DEF Said
<1>2. ParseFrom(p, Line("version", 0, 0)) = Known(<<>>, p.frames, p.high)
  BY <1>1, ParseLine, Zenon
<1>3. p = Known(<<>>, p.frames, p.high)
  BY ParsingFields
<1>. QED  BY <1>2, <1>3, Zenon

LEMMA InitMeasure == ~ AutoDetect /\ (Init \/ Unused) => MeasureInv
<1>. SUFFICES ASSUME ~ AutoDetect, Init \/ Unused PROVE MeasureInv
  OBVIOUS
<1>1. /\ step \in {"close0", "exited"} /\ rdbuf = <<>> /\ got = <<>> /\ toDev = <<>>
      /\ stamps = <<>> /\ now = 0
      /\ wire = <<>> \/ wire = <<Half("t", 0, 0, 2), CR>>
  BY DEF Init, Unused, Fresh
<1>2. Half("t", 0, 0, 2) \in Token /\ CR \in Token
  BY DEF Half, CR, Token, Said
<1>3. <<Half("t", 0, 0, 2), CR>> \in Seq(Token) /\ NoAnswer(<<Half("t", 0, 0, 2), CR>>)
  <2>1. /\ <<Half("t", 0, 0, 2), CR>> \in Seq(Token)
        /\ Len(<<Half("t", 0, 0, 2), CR>>) = 2
        /\ <<Half("t", 0, 0, 2), CR>>[1] = Half("t", 0, 0, 2)
        /\ <<Half("t", 0, 0, 2), CR>>[2] = CR
    BY <1>2, TwoElements
  <2>2. Half("t", 0, 0, 2).kind = "t" /\ CR.kind = "CR"
    BY DEF Half, CR
  <2>3. \A i \in 1 .. 2 : i = 1 \/ i = 2
    OBVIOUS
  <2>. HIDE DEF CR, Half
  <2>. QED  BY <2>1, <2>2, <2>3 DEF NoAnswer
<1>4. <<>> \in Seq(Token) /\ <<>> \in Seq(Nat) /\ NoAnswer(<<>>)
  BY EmptySeq DEF NoAnswer
<1>5. wire \in Seq(Token) /\ NoAnswer(wire)
  BY <1>1, <1>3, <1>4
<1>. QED  BY <1>1, <1>4, <1>5
          DEF MeasureInv, LinkType, VersionAt, MeasureAt, MeasuredIsAnswer

-----------------------------------------------------------------------------
\* What the invariant reads.
LEMMA MeasureFrame ==
  ASSUME MeasureInv,
         UNCHANGED <<step, given, rdbuf, got, toDev, wire, open, stamps, now>>
  PROVE  MeasureInv'
BY DEF MeasureInv, LinkType, VersionAt, MeasureAt, MeasuredIsAnswer, Stream

\* Past the version and the bitrate nothing is read by either.
LEMMA PastMeasure ==
  ASSUME MeasureInv, UNCHANGED <<rdbuf, got, stamps, now, given>>, wire' \in Seq(Token),
         \/ step' \in {"closing", "exited", "failed"}
         \/ step \in {"set", "ts", "open", "serve"} /\ step' \in {"set", "ts", "open", "serve"}
  PROVE  MeasureInv'
BY DEF MeasureInv, LinkType, VersionAt, MeasureAt, MeasuredIsAnswer

LEMMA WriteMeasure ==
  ASSUME MeasureInv, WriteCommand
  PROVE  MeasureInv'
<1>1. /\ step \in {"close0", "set", "ts", "open", "closing"}
      /\ toDev' = Append(toDev, Writes[step]) /\ step' = After[step]
      /\ UNCHANGED <<given, rdbuf, got, wire, open, stamps, now>>
  BY DEF WriteCommand, Writes, devVars
<1>2. CASE step = "close0"
  <2>1. step' = "version" /\ toDev' = <<"C">>
    BY <1>1, <1>2 DEF Writes, After, MeasureInv, VersionAt
  <2>. QED  BY <1>1, <1>2, <2>1
            DEF MeasureInv, LinkType, VersionAt, MeasureAt, MeasuredIsAnswer
<1>3. CASE step # "close0"
  <2>1. \/ step' \in {"closing", "exited", "failed"}
        \/ step \in {"set", "ts", "open"} /\ step' \in {"ts", "open", "serve"}
    BY <1>1, <1>3 DEF After
  <2>. QED  BY <1>1, <2>1, PastMeasure DEF MeasureInv, LinkType
<1>. QED  BY <1>2, <1>3

\* get_version discards what its BufReader held.
LEMMA AskVersionMeasure ==
  ASSUME MeasureInv, AskVersion
  PROVE  MeasureInv'
<1>1. /\ step = "version" /\ step' = "versioning" /\ toDev' = Append(toDev, "V")
      /\ rdbuf' = <<>> /\ UNCHANGED <<given, got, wire, open, stamps, now>>
  BY DEF AskVersion, devVars, MeasureInv, LinkType
<1>2. /\ wire \in Seq(Token) /\ NoAnswer(wire)
      /\ toDev = <<"C">> \/ (toDev = <<>> /\ ~ open)
  BY <1>1 DEF MeasureInv, LinkType, VersionAt
<1>3. Stream' = wire /\ <<>> \in Seq(Token)
  BY <1>1, <1>2, ConcatEmptySeq, EmptySeq DEF Stream
<1>4. toDev' = <<"C", "V">> \/ (toDev' = <<"V">> /\ ~ open)
  BY <1>1, <1>2, Queued, Zenon
<1>5. VersionAt'
  BY <1>1, <1>2, <1>3, <1>4 DEF VersionAt
<1>. QED  BY <1>1, <1>3, <1>5 DEF MeasureInv, LinkType, MeasureAt, MeasuredIsAnswer

\* The BufReader takes tokens and leaves the others.
LEMMA FillVersionSame ==
  ASSUME MeasureInv, FillVersion
  PROVE  rdbuf' \in Seq(Token) /\ wire' \in Seq(Token) /\ Stream' = Stream
<1>1. PICK k \in 1 .. Len(wire) :
        /\ rdbuf' = rdbuf \o SubSeq(wire, 1, k)
        /\ wire' = SubSeq(wire, k + 1, Len(wire))
  BY DEF FillVersion
<1>2. rdbuf \in Seq(Token) /\ wire \in Seq(Token)
  BY DEF MeasureInv, LinkType
<1>. DEFINE a == SubSeq(wire, 1, k)  b == SubSeq(wire, k + 1, Len(wire))
<1>3. a \in Seq(Token) /\ b \in Seq(Token) /\ a \o b = wire
  BY <1>2, CutAt
<1>4. rdbuf' = rdbuf \o a /\ wire' = b
  BY <1>1
<1>. HIDE DEF a, b
<1>5. (rdbuf \o a) \o b = rdbuf \o (a \o b)
  BY <1>2, <1>3, Regroup
<1>6. rdbuf \o a \in Seq(Token)
  BY <1>2, <1>3, Closed, Zenon
<1>7. Stream' = Stream
  BY <1>3, <1>4, <1>5, Zenon DEF Stream
<1>. QED  BY <1>3, <1>4, <1>6, <1>7, Zenon

LEMMA FillVersionMeasure ==
  ASSUME MeasureInv, FillVersion
  PROVE  MeasureInv'
<1>1. /\ step = "versioning" /\ UNCHANGED <<step, given, got, toDev, open, stamps, now>>
  BY DEF FillVersion, Asking, MeasureInv, LinkType
<1>2. rdbuf' \in Seq(Token) /\ wire' \in Seq(Token) /\ Stream' = Stream
  BY FillVersionSame
<1>3. VersionAt'
  BY <1>1, <1>2 DEF MeasureInv, VersionAt
<1>. QED  BY <1>1, <1>2, <1>3 DEF MeasureInv, LinkType, MeasureAt, MeasuredIsAnswer

\* A line taken for the version, or skipped, is the front of the stream.
LEMMA TakeVersionRest ==
  ASSUME MeasureInv, TakeVersion
  PROVE  /\ step = "versioning"
         /\ UNCHANGED <<leftover, high, returned, toDev, now, stamps, nOpen>>
         /\ step' \in {"versioning", "set", "measure", "failed"}
         /\ step' # "versioning" => rdbuf' = <<>>
         /\ \E a, r \in Seq(Token) : Stream = a \o r /\ Stream' = r
<1>. DEFINE i == FirstCR(rdbuf)  line0 == SubSeq(rdbuf, 1, i - 1)
<1>1. /\ step = "versioning" /\ i > 0
      /\ UNCHANGED <<leftover, high, returned, toDev, wire, now, stamps, nOpen>>
      /\ \/ rdbuf' = SubSeq(rdbuf, i + 1, Len(rdbuf)) /\ UNCHANGED step
         \/ rdbuf' = <<>> /\ step' = AfterVersion(line0)
  BY DEF TakeVersion, Asking, devVars, MeasureInv, LinkType
<1>2. AfterVersion(line0) \in {"set", "measure", "failed"}
  BY <1>1 DEF AfterVersion
<1>3. rdbuf \in Seq(Token) /\ wire \in Seq(Token)
  BY DEF MeasureInv, LinkType
<1>4. i \in 1 .. Len(rdbuf) /\ wire' = wire
  BY <1>1, <1>3, FirstCRAt
<1>. HIDE DEF i, line0
<1>5. ASSUME rdbuf' = SubSeq(rdbuf, i + 1, Len(rdbuf))
      PROVE  \E a, r \in Seq(Token) : Stream = a \o r /\ Stream' = r
  <2>. DEFINE a == SubSeq(rdbuf, 1, i)  b == SubSeq(rdbuf, i + 1, Len(rdbuf))
  <2>1. a \in Seq(Token) /\ b \in Seq(Token) /\ a \o b = rdbuf
    BY <1>3, <1>4, CutAt
  <2>2. rdbuf' = b
    BY <1>5
  <2>. HIDE DEF a, b
  <2>3. (a \o b) \o wire = a \o (b \o wire)
    <3>1. a \in Seq(Token) /\ b \in Seq(Token) /\ wire \in Seq(Token)
      BY <1>3, <2>1
    <3>. QED  BY <3>1, Regroup
  <2>4. b \o wire \in Seq(Token)
    BY <1>3, <2>1, Closed, Zenon
  <2>5. Stream = a \o (b \o wire) /\ Stream' = b \o wire
    BY <1>4, <2>1, <2>2, <2>3, Zenon DEF Stream
  <2>. QED  BY <2>1, <2>4, <2>5, Zenon
<1>6. ASSUME rdbuf' = <<>>
      PROVE  \E a, r \in Seq(Token) : Stream = a \o r /\ Stream' = r
  <2>1. <<>> \o wire = wire
    BY <1>3, ConcatEmptySeq
  <2>2. Stream = rdbuf \o wire /\ Stream' = wire
    BY <1>4, <1>6, <2>1, Zenon DEF Stream
  <2>. QED  BY <1>3, <2>2, Zenon
<1>7. \E a, r \in Seq(Token) : Stream = a \o r /\ Stream' = r
  BY <1>1, <1>5, <1>6, Zenon
<1>8. step' \in {"versioning", "set", "measure", "failed"}
  BY <1>1, <1>2
<1>9. step' # "versioning" => rdbuf' = <<>>
  BY <1>1
<1>. QED  BY <1>1, <1>7, <1>8, <1>9, Zenon

\* Without a bitrate given, only a version answered to the last byte leads on.
LEMMA TakeVersionMeasure ==
  ASSUME MeasureInv, TakeVersion
  PROVE  MeasureInv'
<1>. DEFINE i == FirstCR(rdbuf)  line0 == SubSeq(rdbuf, 1, i - 1)
<1>1. /\ step = "versioning" /\ i > 0
      /\ UNCHANGED <<given, got, toDev, wire, open, stamps, now>>
      /\ \/ rdbuf' = SubSeq(rdbuf, i + 1, Len(rdbuf)) /\ UNCHANGED step
         \/ rdbuf' = <<>> /\ step' = AfterVersion(line0)
  BY DEF TakeVersion, Asking, devVars, MeasureInv, LinkType
<1>2. rdbuf \in Seq(Token) /\ wire \in Seq(Token) /\ Len(rdbuf) \in Nat /\ Len(wire) \in Nat
  BY LenProperties DEF MeasureInv, LinkType
<1>3. i \in 1 .. Len(rdbuf)
  BY <1>1, <1>2, FirstCRAt
<1>. HIDE DEF i
<1>4. CASE rdbuf' = SubSeq(rdbuf, i + 1, Len(rdbuf)) /\ UNCHANGED step
  <2>1. PICK a \in Seq(Token), r \in Seq(Token) : Stream = a \o r /\ Stream' = r
    BY TakeVersionRest, Zenon
  <2>2. /\ NoAnswer(Stream) => NoAnswer(Stream')
        /\ AnswerEnds(Stream) => AnswerEnds(Stream')
    BY <2>1, DropFront
  <2>3. VersionAt'
    BY <1>1, <1>4, <2>2 DEF MeasureInv, VersionAt
  <2>4. rdbuf' \in Seq(Token)
    BY <1>2, <1>3, <1>4, CutAt
  <2>. QED  BY <1>1, <1>4, <2>3, <2>4
            DEF MeasureInv, LinkType, MeasureAt, MeasuredIsAnswer
<1>5. CASE rdbuf' = <<>> /\ step' = AfterVersion(line0)
  <2>1. /\ step' \in {"set", "measure", "failed"}
        /\ step' = "set" => given
        /\ step' = "measure" => line0 = Text("version", 0, 0)
    BY <1>1, <1>5 DEF AfterVersion
  <2>2. <<>> \in Seq(Token)
    BY EmptySeq
  <2>3. ASSUME step' = "measure" PROVE toDev = <<>> /\ wire = <<>> /\ ~ open
    <3>1. Len(line0) = 2 /\ line0[2] = Half("version", 0, 0, 2)
      <4>1. line0 = Text("version", 0, 0)
        BY <2>1, <2>3
      <4>2. "version" \in Said /\ 0 \in Nat
        BY DEF Said
      <4>. HIDE DEF line0
      <4>. QED  BY <4>1, <4>2, LineTokens
    <3>2. i = 3 /\ rdbuf[2] = Half("version", 0, 0, 2)
      <4>1. i - 1 \in 1 .. Len(rdbuf)
        <5>1. CASE i = 1
          <6>1. line0 = <<>> /\ Len(<<>>) = 0
            BY <5>1, SubSeqEmpty, EmptySeq
          <6>. HIDE DEF line0
          <6>. QED  BY <3>1, <6>1
        <5>. QED  BY <1>2, <1>3, <5>1
      <4>2. Len(line0) = i - 1 /\ \A j \in 1 .. i - 1 : line0[j] = rdbuf[j]
        BY <1>2, <4>1, CutAt
      <4>. HIDE DEF line0
      <4>3. i = 3 /\ 2 \in 1 .. i - 1
        <5>1. i - 1 = 2
          BY <3>1, <4>2, Zenon
        <5>2. i \in Nat /\ i = 3
          BY <1>2, <1>3, <5>1
        <5>. QED  BY <5>2
      <4>. QED  BY <3>1, <4>2, <4>3
    <3>3. /\ Len(Stream) = Len(rdbuf) + Len(wire) /\ 2 \in 1 .. Len(Stream)
          /\ Stream[2] = rdbuf[2]
      <4>1. /\ Len(Stream) = Len(rdbuf) + Len(wire)
            /\ \A j \in 1 .. Len(rdbuf) + Len(wire) :
                 Stream[j] = IF j <= Len(rdbuf) THEN rdbuf[j] ELSE wire[j - Len(rdbuf)]
        BY <1>2, ConcatProperties DEF Stream
      <4>2. 2 <= Len(rdbuf) /\ 2 \in 1 .. Len(rdbuf) + Len(wire)
        BY <1>2, <1>3, <3>2
      <4>. QED  BY <4>1, <4>2
    <3>4. ~ NoAnswer(Stream)
      <4>1. Stream[2].kind = "version"
        BY <3>2, <3>3 DEF Half
      <4>. QED  BY <3>3, <4>1 DEF NoAnswer
    <3>5. toDev = <<>> /\ ~ open /\ AnswerEnds(Stream)
      BY <1>1, <3>4 DEF MeasureInv, VersionAt
    <3>6. Len(Stream) = 3
      BY <3>2, <3>3, <3>5 DEF AnswerEnds
    <3>7. Len(wire) = 0
      <4>1. Len(rdbuf) + Len(wire) = 3 /\ 3 <= Len(rdbuf)
        <5>1. 3 \in 1 .. Len(rdbuf)
          BY <1>3, <3>2, Zenon
        <5>2. Len(rdbuf) + Len(wire) = 3
          BY <3>3, <3>6, Zenon
        <5>. QED  BY <1>2, <5>1, <5>2
      <4>. QED  BY <1>2, <4>1
    <3>. QED  BY <1>2, <3>5, <3>7, EmptySeq
  <2>4. LinkType'
    BY <1>1, <1>5, <2>1, <2>2 DEF MeasureInv, LinkType
  <2>5. VersionAt'
    BY <2>1 DEF VersionAt
  <2>6. MeasureAt'
    BY <1>1, <2>1, <2>3 DEF MeasureAt
  <2>7. MeasuredIsAnswer'
    BY <1>1, <2>1 DEF MeasuredIsAnswer
  <2>. QED  BY <2>4, <2>5, <2>6, <2>7 DEF MeasureInv
<1>. QED  BY <1>1, <1>4, <1>5

LEMMA AskBitrateMeasure ==
  ASSUME MeasureInv, AskBitrate
  PROVE  MeasureInv'
<1>1. /\ step = "measure" /\ step' = "measuring" /\ got' = <<>>
      /\ toDev' = Append(toDev, "B") /\ UNCHANGED <<given, rdbuf, wire, open, stamps, now>>
  BY DEF AskBitrate, devVars
<1>2. toDev' = <<"B">> /\ wire = <<>> /\ ~ open /\ <<>> \in Seq(Token)
  BY <1>1, EmptySeq DEF MeasureInv, MeasureAt
<1>. QED  BY <1>1, <1>2
          DEF MeasureInv, LinkType, VersionAt, MeasureAt, MeasuredIsAnswer

\* The bytes read and those to come are the answer, or there is none.
LEMMA MeasureReadBytes ==
  ASSUME MeasureInv, MeasureRead
  PROVE  /\ got' \in Seq(Token) /\ wire' \in Seq(Token)
         /\ toDev = <<>> /\ ~ open /\ got' \o wire' \in {<<>>, Text("rate", 0, 0)}
         /\ Len(got') = 2 => got' = Text("rate", 0, 0) /\ wire' = <<>>
<1>1. /\ step = "measuring" /\ UNCHANGED <<given, rdbuf, toDev, open, stamps, now>>
      /\ step' \in {"failed", "set", "measuring"}
      /\ step' = "set" => Len(got') = 2
  BY DEF MeasureRead
<1>2. PICK k \in 1 .. Len(wire) :
        got' = got \o SubSeq(wire, 1, k) /\ wire' = SubSeq(wire, k + 1, Len(wire))
  <2>1. PICK k \in 1 .. (2 - Len(got)) :
          /\ k <= Len(wire)
          /\ got' = got \o SubSeq(wire, 1, k) /\ wire' = SubSeq(wire, k + 1, Len(wire))
    BY DEF MeasureRead
  <2>2. k \in 1 .. Len(wire)
    BY <2>1, LenProperties DEF MeasureInv, LinkType
  <2>. QED  BY <2>1, <2>2
<1>3. got \in Seq(Token) /\ wire \in Seq(Token)
  BY DEF MeasureInv, LinkType
<1>. DEFINE a == SubSeq(wire, 1, k)  b == SubSeq(wire, k + 1, Len(wire))
<1>4. a \in Seq(Token) /\ b \in Seq(Token) /\ a \o b = wire
  BY <1>3, CutAt
<1>5. got' = got \o a /\ wire' = b
  BY <1>2
<1>6. wire # <<>>
  BY <1>2, EmptySeq
<1>. HIDE DEF a, b
<1>7. got' \in Seq(Token) /\ wire' \in Seq(Token) /\ got' \o wire' = got \o wire
  <2>1. (got \o a) \o b = got \o (a \o b) /\ got \o a \in Seq(Token)
    <3>1. a \in Seq(Token) /\ b \in Seq(Token) /\ got \in Seq(Token)
      BY <1>3, <1>4
    <3>2. (got \o a) \o b = got \o (a \o b)
      BY <3>1, Regroup
    <3>3. got \o a \in Seq(Token)
      BY <3>1, Closed, Zenon
    <3>. QED  BY <3>2, <3>3, Zenon
  <2>. QED  BY <1>4, <1>5, <2>1
<1>8. toDev = <<>> /\ ~ open /\ got \o wire \in {<<>>, Text("rate", 0, 0)}
  BY <1>1, <1>6 DEF MeasureInv, MeasureAt
<1>9. ASSUME Len(got') = 2 PROVE got' = Text("rate", 0, 0) /\ wire' = <<>>
  <2>1. /\ Len(got' \o wire') = 2 + Len(wire') /\ Len(wire') \in Nat
        /\ got' \o <<>> = got'
    <3>1. ASSUME NEW g \in Seq(Token), NEW w \in Seq(Token)
          PROVE  Len(g \o w) = Len(g) + Len(w) /\ Len(w) \in Nat /\ g \o <<>> = g
      BY ConcatProperties, LenProperties, ConcatEmptySeq
    <3>. QED  BY <1>7, <1>9, <3>1
  <2>2. Len(<<>>) = 0 /\ Len(Text("rate", 0, 0)) = 2
    BY EmptySeq, LineTokens DEF Said
  <2>3. got' \o wire' = Text("rate", 0, 0)
    <3>1. got' \o wire' # <<>>
      BY <2>1, <2>2
    <3>. QED  BY <1>7, <1>8, <3>1
  <2>4. Len(wire') = 0
    <3>1. Len(got' \o wire') = 2
      BY <2>2, <2>3
    <3>. QED  BY <2>1, <3>1
  <2>5. wire' = <<>>
    BY <1>7, <2>4, EmptySeq
  <2>. QED  BY <2>1, <2>3, <2>5
<1>. QED  BY <1>7, <1>8, <1>9

LEMMA MeasureReadMeasure ==
  ASSUME MeasureInv, MeasureRead
  PROVE  MeasureInv'
<1>1. /\ step = "measuring" /\ UNCHANGED <<given, rdbuf, toDev, open, stamps, now>>
      /\ step' \in {"failed", "set", "measuring"}
      /\ step' = "set" => Len(got') = 2
  BY DEF MeasureRead
<1>2. MeasureAt'
  BY <1>1, MeasureReadBytes DEF MeasureAt
<1>3. MeasuredIsAnswer'
  BY <1>1, MeasureReadBytes DEF MeasuredIsAnswer
<1>4. LinkType' /\ VersionAt'
  BY <1>1, MeasureReadBytes DEF MeasureInv, LinkType, VersionAt
<1>. QED  BY <1>2, <1>3, <1>4 DEF MeasureInv

\* A line that an open channel sends comes before the answer to "V".
LEMMA SendMeasure ==
  ASSUME MeasureInv, open, UNCHANGED <<step, given, rdbuf, got, toDev, open>>,
         stamps' \in Seq(Nat), now' \in Nat,
         NEW k \in Said \ {"version"}, NEW n \in Nat, NEW low \in Nat,
         wire' = wire \o Line(k, n, low)
  PROVE  MeasureInv'
<1>1. rdbuf \in Seq(Token) /\ wire \in Seq(Token)
  BY DEF MeasureInv, LinkType
<1>2. /\ step \notin {"measure", "measuring"}
      /\ step = "close0" => NoAnswer(wire)
      /\ step = "version" => toDev = <<"C">> /\ NoAnswer(wire)
      /\ step = "versioning" => toDev = <<"C", "V">> /\ NoAnswer(Stream)
  BY DEF MeasureInv, VersionAt, MeasureAt
<1>3. wire' \in Seq(Token)
  BY <1>1, LineTokens, ConcatProperties
<1>4. NoAnswer(Stream) => NoAnswer(Stream')
  <2>. DEFINE l == Line(k, n, low)
  <2>1. l \in Seq(Token)
    BY LineTokens
  <2>2. wire' = wire \o l
    OBVIOUS
  <2>. HIDE DEF l
  <2>3. (rdbuf \o wire) \o l = rdbuf \o (wire \o l) /\ rdbuf \o wire \in Seq(Token)
    <3>1. rdbuf \in Seq(Token) /\ wire \in Seq(Token) /\ l \in Seq(Token)
      BY <1>1, <2>1
    <3>2. (rdbuf \o wire) \o l = rdbuf \o (wire \o l)
      BY <3>1, Regroup
    <3>3. rdbuf \o wire \in Seq(Token)
      BY <3>1, Closed, Zenon
    <3>. QED  BY <3>2, <3>3, Zenon
  <2>4. Stream' = Stream \o l /\ Stream \in Seq(Token)
    BY <2>2, <2>3 DEF Stream
  <2>. QED  BY <2>4, MoreLines DEF l
<1>5. LinkType'
  BY <1>3 DEF MeasureInv, LinkType
<1>6. NoAnswer(wire) => NoAnswer(wire')
  BY <1>1, MoreLines
<1>7. VersionAt'
  BY <1>2, <1>4, <1>6 DEF MeasureInv, VersionAt
<1>8. MeasureAt' /\ MeasuredIsAnswer'
  BY <1>2 DEF MeasureInv, MeasureAt, MeasuredIsAnswer
<1>. QED  BY <1>5, <1>7, <1>8 DEF MeasureInv

LEMMA HearMeasure ==
  ASSUME MeasureInv, Hear
  PROVE  MeasureInv'
<1>1. /\ open /\ UNCHANGED <<step, given, rdbuf, got, toDev, open, now>>
      /\ stamps' = Append(stamps, now)
  BY DEF Hear, driverVars
<1>2. PICK k \in Kinds : wire' = wire \o Line(k, Len(stamps) + 1, now % Wrap)
  BY DEF Hear
<1>3. k \in Said \ {"version"}
  BY SwitchAssumption DEF Said
<1>4. stamps \in Seq(Nat) /\ now \in Nat
  BY DEF MeasureInv, LinkType
<1>5. Len(stamps) + 1 \in Nat /\ now % Wrap \in Nat
  BY <1>4, LenProperties, NumberAssumption
<1>6. stamps' \in Seq(Nat) /\ now' \in Nat
  BY <1>1, <1>4, AppendProperties
<1>. QED  BY <1>1, <1>2, <1>3, <1>5, <1>6, SendMeasure

LEMMA TickMeasure ==
  ASSUME MeasureInv, Tick
  PROVE  MeasureInv'
<1>1. /\ open /\ UNCHANGED <<step, given, rdbuf, got, toDev, open, stamps>>
      /\ now' = now + 1
      /\ wire' = wire \o Line("J", 0, 0) \/ wire' = wire
  BY DEF Tick, driverVars
<1>2. stamps' \in Seq(Nat) /\ now' \in Nat
  BY <1>1 DEF MeasureInv, LinkType
<1>3. CASE wire' = wire
  BY <1>1, <1>2, <1>3
     DEF MeasureInv, LinkType, VersionAt, MeasureAt, MeasuredIsAnswer, Stream
<1>4. CASE wire' = wire \o Line("J", 0, 0)
  <2>1. "J" \in Said \ {"version"} /\ 0 \in Nat
    BY DEF Said
  <2>. QED  BY <1>1, <1>2, <1>4, <2>1, SendMeasure
<1>. QED  BY <1>1, <1>3, <1>4, Zenon

\* The close is handled before the version is asked for, and the answer is the
\* last that a closed channel sends.
LEMMA HandleMeasure ==
  ASSUME MeasureInv, Handle
  PROVE  MeasureInv'
<1>. DEFINE c == Head(toDev)
<1>1. /\ toDev # <<>> /\ toDev' = Tail(toDev)
      /\ UNCHANGED <<step, given, rdbuf, got, stamps, now>>
      /\ c = "C" => ~ open'
      /\ c \notin {"C", "O"} => open' = open
      /\ \/ c = "V" /\ wire' = wire \o Line("version", 0, 0)
         \/ c = "B" /\ wire' = wire \o Text("rate", 0, 0)
         \/ UNCHANGED wire
      /\ c = "V" => wire' = wire \o Line("version", 0, 0) \/ wire' = wire
  BY DEF Handle, driverVars
<1>2. /\ rdbuf \in Seq(Token) /\ wire \in Seq(Token)
      /\ Line("version", 0, 0) \in Seq(Token) /\ Text("rate", 0, 0) \in Seq(Token)
  BY LineTokens DEF MeasureInv, LinkType, Said
<1>3. wire' \in Seq(Token)
  BY <1>1, <1>2, ConcatProperties
<1>4. LinkType' /\ MeasuredIsAnswer'
  BY <1>1, <1>3 DEF MeasureInv, LinkType, MeasuredIsAnswer
<1>5. CASE step \notin {"close0", "version", "versioning", "measure", "measuring"}
  BY <1>1, <1>4, <1>5 DEF MeasureInv, VersionAt, MeasureAt
<1>6. CASE step \in {"close0", "measure"}
  BY <1>1, <1>6 DEF MeasureInv, VersionAt, MeasureAt
<1>7. CASE step = "version"
  <2>1. toDev = <<"C">> /\ rdbuf = <<>> /\ NoAnswer(wire)
    BY <1>1, <1>7 DEF MeasureInv, VersionAt
  <2>2. c = "C" /\ toDev' = <<>>
    BY <1>1, <2>1, Queued
  <2>. HIDE DEF c
  <2>. QED  BY <1>1, <1>4, <1>7, <2>1, <2>2 DEF MeasureInv, VersionAt, MeasureAt
<1>8. CASE step = "versioning"
  <2>1. CASE toDev = <<"C", "V">> /\ NoAnswer(Stream)
    <3>1. c = "C" /\ toDev' = <<"V">>
      BY <1>1, <2>1, Queued
    <3>. HIDE DEF c
    <3>2. wire' = wire /\ ~ open' /\ Stream' = Stream
      BY <1>1, <3>1 DEF Stream
    <3>. QED  BY <1>1, <1>4, <1>8, <2>1, <3>1, <3>2 DEF MeasureInv, VersionAt, MeasureAt
  <2>2. CASE toDev = <<"V">> /\ ~ open /\ NoAnswer(Stream)
    <3>1. c = "V" /\ toDev' = <<>>
      BY <1>1, <2>2, Queued
    <3>. HIDE DEF c
    <3>2. ~ open' /\ (wire' = wire \o Line("version", 0, 0) \/ wire' = wire)
      BY <1>1, <2>2, <3>1
    <3>3. CASE wire' = wire \o Line("version", 0, 0)
      <4>. DEFINE l == Line("version", 0, 0)
      <4>1. l \in Seq(Token) /\ wire' = wire \o l
        BY <1>2, <3>3
      <4>. HIDE DEF l
      <4>2. (rdbuf \o wire) \o l = rdbuf \o (wire \o l) /\ rdbuf \o wire \in Seq(Token)
        <5>1. rdbuf \in Seq(Token) /\ wire \in Seq(Token) /\ l \in Seq(Token)
          BY <1>2, <4>1
        <5>2. (rdbuf \o wire) \o l = rdbuf \o (wire \o l)
          BY <5>1, Regroup
        <5>3. rdbuf \o wire \in Seq(Token)
          BY <5>1, Closed, Zenon
        <5>. QED  BY <5>2, <5>3, Zenon
      <4>3. Stream' = Stream \o l /\ Stream \in Seq(Token)
        BY <1>1, <4>1, <4>2 DEF Stream
      <4>4. AnswerEnds(Stream')
        BY <2>2, <4>3, MoreLines DEF l, Said
      <4>. QED  BY <1>1, <1>4, <1>8, <3>1, <3>2, <4>4 DEF MeasureInv, VersionAt, MeasureAt
    <3>4. CASE wire' = wire
      <4>1. Stream' = Stream /\ AnswerEnds(Stream)
        <5>1. Half("version", 0, 0, 2).kind = "version"
          BY DEF Half
        <5>. QED  BY <1>1, <2>2, <3>4, <5>1 DEF Stream, NoAnswer, AnswerEnds
      <4>. QED  BY <1>1, <1>4, <1>8, <3>1, <3>2, <4>1 DEF MeasureInv, VersionAt, MeasureAt
    <3>. QED  BY <3>2, <3>3, <3>4
  <2>. QED  BY <1>1, <1>8, <2>1, <2>2 DEF MeasureInv, VersionAt
<1>9. CASE step = "measuring"
  <2>1. toDev = <<"B">> /\ wire = <<>> /\ got = <<>> /\ ~ open
    BY <1>1, <1>9 DEF MeasureInv, MeasureAt
  <2>2. c = "B" /\ toDev' = <<>>
    BY <1>1, <2>1, Queued
  <2>. HIDE DEF c
  <2>3. ~ open' /\ (wire' = wire \o Text("rate", 0, 0) \/ wire' = wire)
    BY <1>1, <2>1, <2>2
  <2>4. got' \o wire' \in {<<>>, Text("rate", 0, 0)}
    <3>1. <<>> \o <<>> = <<>> /\ <<>> \o Text("rate", 0, 0) = Text("rate", 0, 0)
      BY <1>2, ConcatEmptySeq, EmptySeq
    <3>. QED  BY <1>1, <2>1, <2>3, <3>1
  <2>. QED  BY <1>1, <1>4, <1>9, <2>2, <2>3, <2>4 DEF MeasureInv, VersionAt, MeasureAt
<1>. QED  BY <1>5, <1>6, <1>7, <1>8, <1>9

-----------------------------------------------------------------------------
LEMMA NextMeasure ==
  ASSUME MeasureInv, [Next]_vars
  PROVE  MeasureInv'
<1>1. CASE WriteCommand \/ AskVersion \/ FillVersion \/ TakeVersion \/ AskBitrate \/ MeasureRead
  BY <1>1, WriteMeasure, AskVersionMeasure, FillVersionMeasure, TakeVersionMeasure,
     AskBitrateMeasure, MeasureReadMeasure
<1>2. CASE Handle \/ Hear \/ Tick
  BY <1>2, HandleMeasure, HearMeasure, TickMeasure
<1>3. CASE BadBitrate \/ Shutdown
  BY <1>3, PastMeasure DEF BadBitrate, Shutdown, devVars, MeasureInv, LinkType
<1>4. CASE VersionTimeout
  <2>1. /\ step' = "failed" /\ rdbuf' = <<>> /\ UNCHANGED <<got, wire, stamps, now>>
    BY <1>4 DEF VersionTimeout, devVars
  <2>. QED  BY <2>1, EmptySeq
            DEF MeasureInv, LinkType, VersionAt, MeasureAt, MeasuredIsAnswer
<1>5. CASE ReadFrames
  <2>1. step = "serve" /\ UNCHANGED <<given, step, rdbuf, got, toDev, open, now, stamps>>
    BY <1>5 DEF ReadFrames
  <2>2. PICK k \in 1 .. Len(wire) : wire' = SubSeq(wire, k + 1, Len(wire))
    BY <1>5 DEF ReadFrames
  <2>3. wire' \in Seq(Token)
    BY <2>2, CutAt DEF MeasureInv, LinkType
  <2>. QED  BY <2>1, <2>3, PastMeasure
<1>6. CASE Gone \/ UNCHANGED vars
  BY <1>6, MeasureFrame DEF Gone, vars, driverVars, devVars
<1>. QED  BY <1>1, <1>2, <1>3, <1>4, <1>5, <1>6 DEF Next, SetUp

(***************************************************************************)
(* A server that names its port and gives no bitrate starts to receive     *)
(* only with the bitrate the adapter has measured, whatever a previous     *)
(* session left in the port and however the bytes are cut into reads.      *)
(* With auto-detection this is false: the answer to the probe may come     *)
(* late and be taken for the version while the channel is still open, and  *)
(* a frame for the bitrate.                                                *)
(***************************************************************************)
THEOREM MeasuredBitrate ==
  ASSUME ~ AutoDetect
  PROVE  EdgesSpec => []MeasuredIsAnswer
<1>1. EdgesInit => MeasureInv
  BY InitMeasure DEF EdgesInit, InitializeDriver, NoDriver
<1>2. MeasureInv /\ [DriverStep \/ InStep \/ OutStep]_edgeVars => MeasureInv'
  <2>. SUFFICES ASSUME MeasureInv, [DriverStep \/ InStep \/ OutStep]_edgeVars
                PROVE  [Next]_vars
    BY NextMeasure
  <2>1. CASE DriverStep
    BY <2>1 DEF DriverStep, DriversNext, SlcanStep, PcanStep, GsUsbStep
  <2>2. CASE InStep \/ OutStep \/ UNCHANGED edgeVars
    BY <2>2 DEF InStep, OutStep, edgeVars, allVars
  <2>. QED  BY <2>1, <2>2
<1>3. MeasureInv => MeasuredIsAnswer
  BY DEF MeasureInv
<1>. QED  BY <1>1, <1>2, <1>3, PTL DEF EdgesSpec
-----------------------------------------------------------------------------
(* What is in the stream *)

Commands == {"C", "V", "S", "Z", "O", "B"}

\* The calls before read_frames that leave the stream to it.
Ahead == {"close0", "version", "versioning", "measure", "set", "ts", "open"}

\* Whatever get_version takes of the stream, what is left is right.
FromHere(s, moments, t) ==
  \A a, b \in Seq(Token) : s = a \o b => Right(Parse(b, 0), moments, t)

\* The frames returned, with those that the tokens to come still hold.
AllOf(fs, l, w, h) == With(fs, Parse(l \o w, h))
AllFrames == AllOf(returned, leftover, wire, high)

\* The open command is still to be handled, or nothing heard since is missing.
LastOpens(q) == q # <<>> /\ q[Len(q)] = "O"
Complete     == LastOpens(toDev) \/ Len(AllFrames.frames) + nOpen >= Len(stamps)

\* Frames are as far apart in the timestamps as they were heard.
Law(fs, moments) ==
  /\ \A i \in 1 .. Len(fs) : fs[i].n \in 1 .. Len(moments)
  /\ \A i, j \in 1 .. Len(fs) : fs[j].ts + moments[fs[i].n] = fs[i].ts + moments[fs[j].n]

ReadType ==
  /\ leftover \in Seq(Token) /\ high \in Nat /\ returned \in Seq(Rx) /\ nOpen \in Nat
  /\ toDev \in Seq(Commands)
  /\ step \in Ahead \cup {"measuring", "serve", "closing", "exited", "failed"}

SetUpAt ==
  /\ step \in Ahead => FromHere(Stream, stamps, now)
  /\ step \in Ahead \cup {"measuring"} => leftover = <<>> /\ high = 0 /\ returned = <<>>
  /\ step \in {"measure", "measuring", "set", "ts", "open"} => rdbuf = <<>>

\* The bitrate is not asked for when lines are read.
NoRequest == step \in Ahead \cup {"serve"} => toDev \in Seq(Commands \ {"B"})

ServeAt == step = "serve" => Right(AllFrames, stamps, now) /\ Complete

StreamInv == ReadType /\ SetUpAt /\ NoRequest /\ ServeAt /\ Law(returned, stamps)

-----------------------------------------------------------------------------
LEMMA FromHereTail ==
  ASSUME NEW s, NEW moments, NEW t, FromHere(s, moments, t),
         NEW a \in Seq(Token), NEW r \in Seq(Token), s = a \o r
  PROVE  FromHere(r, moments, t)
<1>. SUFFICES ASSUME NEW c \in Seq(Token), NEW b \in Seq(Token), r = c \o b
              PROVE  Right(Parse(b, 0), moments, t)
  BY DEF FromHere
<1>1. (a \o c) \o b = a \o (c \o b)
  BY Regroup
<1>2. a \o c \in Seq(Token)
  BY Closed
<1>3. s = (a \o c) \o b
  BY <1>1, Zenon
<1>. QED  BY <1>2, <1>3, Zenon DEF FromHere

LEMMA FromEnding ==
  ASSUME NEW s, Ending(s), NEW moments \in Seq(Nat), NEW t
  PROVE  Right(Parse(s, 0), moments, t)
<1>1. Parse(s, 0) = Start(0)
  BY ParseEnding
<1>2. Start(0).line = <<>> /\ Start(0).frames = <<>>
  BY StartType
<1>. QED  BY <1>1, <1>2, RightNone

LEMMA FromNothing ==
  ASSUME NEW moments \in Seq(Nat), NEW t
  PROVE  FromHere(<<>>, moments, t)
<1>. SUFFICES ASSUME NEW a \in Seq(Token), NEW b \in Seq(Token), <<>> = a \o b
              PROVE  Right(Parse(b, 0), moments, t)
  BY DEF FromHere
<1>1. b = <<>>
  <2>1. Len(a \o b) = Len(a) + Len(b) /\ Len(<<>>) = 0
        /\ Len(a) \in Nat /\ Len(b) \in Nat
    BY ConcatProperties, LenProperties, EmptySeq
  <2>2. Len(a) + Len(b) = 0
    BY <2>1, Zenon
  <2>3. Len(b) = 0
    BY <2>1, <2>2
  <2>. QED  BY <2>3, EmptySeq
<1>. QED  BY <1>1, FromEnding DEF Ending

\* A previous session may have left the end of a line.
LEMMA FromTail ==
  ASSUME NEW moments \in Seq(Nat), NEW t
  PROVE  FromHere(<<Half("t", 0, 0, 2), CR>>, moments, t)
<1>. DEFINE x == Half("t", 0, 0, 1)  y == Half("t", 0, 0, 2)  l == Line("t", 0, 0)
<1>1. /\ x \in Token /\ y \in Token /\ CR \in Token /\ y # CR /\ "t" \in Said \ {"CR"}
      /\ l \in Seq(Token) /\ Len(l) = 3 /\ l[1] = x /\ l[2] = y /\ l[3] = CR
  <2>1. "t" \in Said \ {"CR"}
    BY DEF Said
  <2>2. x \in Token /\ y \in Token /\ CR \in Token /\ y # CR
    BY DEF Half, CR, Token, Said
  <2>. HIDE DEF x, y, l
  <2>3. l \in Seq(Token) /\ Len(l) = 3 /\ l[1] = x /\ l[2] = y /\ l[3] = CR
    BY <2>1, LineTokens DEF l, x, y
  <2>. QED  BY <2>1, <2>2, <2>3
<1>. HIDE DEF x, y, l, CR
<1>. SUFFICES ASSUME NEW a \in Seq(Token), NEW b \in Seq(Token), <<y, CR>> = a \o b
              PROVE  Right(Parse(b, 0), moments, t)
  BY DEF FromHere, y
<1>2. <<x>> \o <<y, CR>> = l
  <2>1. /\ <<x>> \in Seq(Token) /\ Len(<<x>>) = 1 /\ <<x>>[1] = x
        /\ <<y, CR>> \in Seq(Token) /\ Len(<<y, CR>>) = 2
        /\ <<y, CR>>[1] = y /\ <<y, CR>>[2] = CR
    BY <1>1, TwoElements
  <2>. DEFINE u == <<x>> \o <<y, CR>>
  <2>2. /\ u \in Seq(Token) /\ Len(u) = Len(<<x>>) + Len(<<y, CR>>)
        /\ \A i \in 1 .. Len(<<x>>) + Len(<<y, CR>>) :
             u[i] = IF i <= Len(<<x>>) THEN <<x>>[i] ELSE <<y, CR>>[i - Len(<<x>>)]
    BY <2>1, ConcatProperties
  <2>. HIDE DEF u
  <2>3. Len(u) = 3 /\ u[1] = x /\ u[2] = y /\ u[3] = CR
    BY <2>1, <2>2
  <2>4. \A i \in 1 .. 3 : u[i] = l[i]
    <3>1. \A i \in 1 .. 3 : i = 1 \/ i = 2 \/ i = 3
      OBVIOUS
    <3>. QED  BY <1>1, <2>3, <3>1, Zenon
  <2>. QED  BY <1>1, <2>2, <2>3, <2>4, SeqEqual DEF u
<1>3. <<>> \o l = (<<x>> \o a) \o b /\ <<x>> \o a \in Seq(Token) /\ Len(<<x>> \o a) >= 1
  <2>1. <<x>> \in Seq(Token) /\ Len(<<x>>) = 1
    BY <1>1
  <2>2. (<<x>> \o a) \o b = <<x>> \o (a \o b)
    BY <2>1, Regroup
  <2>3. <<>> \o l = l
    BY <1>1, ConcatEmptySeq
  <2>4. Len(<<x>> \o a) = 1 + Len(a) /\ Len(a) \in Nat /\ <<x>> \o a \in Seq(Token)
    BY <2>1, ConcatProperties, LenProperties
  <2>5. Len(<<x>> \o a) >= 1
    BY <2>4
  <2>6. (<<x>> \o a) \o b = l
    BY <1>2, <2>2, Zenon
  <2>. QED  BY <2>3, <2>4, <2>5, <2>6, Zenon
<1>4. (\E c \in Seq(Token) : <<>> = (<<x>> \o a) \o c /\ b = c \o l) \/ Ending(b)
  <2>. DEFINE a1 == <<x>> \o a
  <2>1. <<>> \in Seq(Token) /\ <<>> \o l = a1 \o b /\ a1 \in Seq(Token)
    BY <1>3, EmptySeq
  <2>. HIDE DEF a1
  <2>2. Splits(l, <<>>, a1, b)
    BY <1>1, <2>1, SplitLine, Zenon
  <2>. QED  BY <2>2, Zenon DEF a1, Splits
<1>5. ASSUME NEW c \in Seq(Token), <<>> = (<<x>> \o a) \o c PROVE FALSE
  <2>1. /\ Len((<<x>> \o a) \o c) = Len(<<x>> \o a) + Len(c) /\ Len(c) \in Nat
        /\ Len(<<>>) = 0
    BY <1>3, ConcatProperties, LenProperties, EmptySeq
  <2>2. Len(<<x>> \o a) \in Nat
    BY <1>3, LenProperties
  <2>3. Len(<<x>> \o a) + Len(c) = 0
    BY <1>5, <2>1, Zenon
  <2>. QED  BY <1>3, <2>1, <2>2, <2>3
<1>. QED  BY <1>4, <1>5, FromEnding

\* A line joins what is right, from wherever it is read.
LEMMA FromHereLine ==
  ASSUME NEW s \in Seq(Token), NEW moments, NEW t, FromHere(s, moments, t),
         NEW k \in Said \ {"CR"}, NEW n \in Nat, NEW low \in Nat,
         NEW moments2 \in Seq(Nat), NEW t2,
         \A p \in Parsing :
           Right(p, moments, t) => Right(ParseFrom(p, Line(k, n, low)), moments2, t2)
  PROVE  FromHere(s \o Line(k, n, low), moments2, t2)
<1>. DEFINE l == Line(k, n, low)
<1>1. l \in Seq(Token)
  BY LineTokens
<1>. SUFFICES ASSUME NEW a \in Seq(Token), NEW b \in Seq(Token), s \o l = a \o b
              PROVE  Right(Parse(b, 0), moments2, t2)
  BY Zenon DEF FromHere
<1>2. CASE Ending(b)
  BY <1>2, FromEnding
<1>3. CASE \E c \in Seq(Token) : s = a \o c /\ b = c \o l
  <2>1. PICK c \in Seq(Token) : s = a \o c /\ b = c \o l
    BY <1>3
  <2>2. Start(0) \in Parsing
    BY StartType
  <2>3. Parse(c, 0) \in Parsing /\ Parse(b, 0) = ParseFrom(Parse(c, 0), l)
    BY <1>1, <2>1, <2>2, ParseType, ParseConcat DEF Parse
  <2>4. Right(Parse(c, 0), moments, t)
    BY <2>1, Zenon DEF FromHere
  <2>. HIDE DEF l
  <2>. QED  BY <2>3, <2>4, Zenon DEF l
<1>. HIDE DEF l
<1>4. Len(l) = 3 /\ l[2] # CR /\ l[3] = CR
  <2>1. Half(k, n, low, 2) # CR
    BY DEF Half, CR
  <2>. QED  BY <2>1, LineTokens DEF l
<1>5. (\E c \in Seq(Token) : s = a \o c /\ b = c \o l) \/ Ending(b)
  <2>1. Splits(l, s, a, b)
    BY <1>1, <1>4, SplitLine, Zenon
  <2>. QED  BY <2>1, Zenon DEF Splits
<1>. QED  BY <1>2, <1>3, <1>5

LEMMA AllType ==
  ASSUME NEW fs \in Seq(Rx), NEW l \in Seq(Token), NEW w \in Seq(Token), NEW h \in Nat
  PROVE  AllOf(fs, l, w, h) \in Parsing /\ Parse(l \o w, h) \in Parsing
<1>1. Start(h) \in Parsing /\ l \o w \in Seq(Token)
  BY StartType, Closed
<1>. QED  BY <1>1, ParseType, WithType DEF AllOf, Parse

LEMMA AllLine ==
  ASSUME NEW fs \in Seq(Rx), NEW l \in Seq(Token), NEW w \in Seq(Token), NEW h \in Nat,
         NEW x \in Seq(Token)
  PROVE  AllOf(fs, l, w \o x, h) = ParseFrom(AllOf(fs, l, w, h), x)
<1>. DEFINE p == Parse(l \o w, h)
<1>1. Start(h) \in Parsing /\ l \o w \in Seq(Token) /\ p \in Parsing
  BY StartType, Closed, AllType
<1>2. l \o (w \o x) = (l \o w) \o x
  BY Regroup
<1>3. Parse((l \o w) \o x, h) = ParseFrom(p, x)
  BY <1>1, ParseConcat DEF Parse
<1>. HIDE DEF p
<1>4. ParseFrom(With(fs, p), x) = With(fs, ParseFrom(p, x))
  BY <1>1, WithFrom
<1>. QED  BY <1>2, <1>3, <1>4, Zenon DEF AllOf, p

LEMMA RegroupFrames ==
  ASSUME NEW a \in Seq(Rx), NEW b \in Seq(Rx), NEW c \in Seq(Rx)
  PROVE  (a \o b) \o c = a \o (b \o c)
BY ConcatAssociative

\* Reading moves frames from what is to come to what is returned.
LEMMA AllRead ==
  ASSUME NEW fs \in Seq(Rx), NEW l \in Seq(Token), NEW a \in Seq(Token), NEW b \in Seq(Token),
         NEW h \in Nat
  PROVE  LET p == Parse(l \o a, h)
         IN  AllOf(fs \o p.frames, p.line, b, p.high) = AllOf(fs, l, a \o b, h)
<1>. DEFINE p == Parse(l \o a, h)  q == Parse(p.line \o b, p.high)
<1>1. l \o a \in Seq(Token) /\ (l \o a) \o b = l \o (a \o b)
  <2>1. l \o a \in Seq(Token)
    BY Closed
  <2>2. (l \o a) \o b = l \o (a \o b)
    BY Regroup
  <2>. QED  BY <2>1, <2>2
<1>2. p \in Parsing /\ Parse(l \o (a \o b), h) = With(p.frames, q)
  BY <1>1, ParseInTwo
<1>. HIDE DEF p
<1>3. p.line \in Seq(Token) /\ p.frames \in Seq(Rx) /\ p.high \in Nat
  BY <1>2, ParsingFields
<1>4. q \in Parsing
  BY <1>3, AllType
<1>. HIDE DEF q
<1>5. With(fs, With(p.frames, q)) = With(fs \o p.frames, q)
  <2>1. q.frames \in Seq(Rx)
    BY <1>4, ParsingFields
  <2>2. (fs \o p.frames) \o q.frames = fs \o (p.frames \o q.frames)
    BY <1>3, <2>1, RegroupFrames, Zenon
  <2>3. With(fs, With(p.frames, q)) = Known(q.line, fs \o (p.frames \o q.frames), q.high)
    BY Zenon DEF With, Known
  <2>. QED  BY <2>2, <2>3, Zenon DEF With
<1>. QED  BY <1>2, <1>5, Zenon DEF AllOf, p, q

-----------------------------------------------------------------------------
LEMMA InitStream == ~ AutoDetect /\ (Init \/ Unused) => StreamInv
<1>. SUFFICES ASSUME ~ AutoDetect, Init \/ Unused PROVE StreamInv
  OBVIOUS
<1>1. /\ step \in {"close0", "exited"} /\ rdbuf = <<>> /\ toDev = <<>> /\ leftover = <<>>
      /\ high = 0 /\ returned = <<>> /\ stamps = <<>> /\ nOpen = 0
      /\ wire = <<>> \/ wire = <<Half("t", 0, 0, 2), CR>>
  BY DEF Init, Unused, Fresh
<1>2. /\ <<>> \in Seq(Token) /\ <<>> \in Seq(Rx) /\ <<>> \in Seq(Nat) /\ Len(<<>>) = 0
      /\ <<>> \in Seq(Commands) /\ <<>> \in Seq(Commands \ {"B"})
  BY EmptySeq
<1>3. ReadType /\ NoRequest /\ ServeAt
  BY <1>1, <1>2 DEF ReadType, NoRequest, ServeAt, Ahead
<1>4. Law(returned, stamps)
  BY <1>1, <1>2 DEF Law
<1>5. wire \in Seq(Token)
  <2>1. MeasureInv
    BY InitMeasure
  <2>. QED  BY <2>1 DEF MeasureInv, LinkType
<1>6. Stream = wire
  BY <1>1, <1>5, ConcatEmptySeq DEF Stream
<1>7. FromHere(Stream, stamps, now)
  BY <1>1, <1>2, <1>6, FromNothing, FromTail, Zenon
<1>8. SetUpAt
  BY <1>1, <1>7 DEF SetUpAt
<1>. QED  BY <1>3, <1>4, <1>8 DEF StreamInv

\* What the invariant reads.
LEMMA StreamFrame ==
  ASSUME StreamInv,
         UNCHANGED <<step, rdbuf, leftover, high, returned, toDev, wire, now, stamps, nOpen>>
  PROVE  StreamInv'
<1>1. ReadType' /\ NoRequest'
  BY DEF StreamInv, ReadType, NoRequest
<1>2. Stream' = Stream /\ AllFrames' = AllFrames /\ Complete' = Complete
  BY DEF Stream, AllFrames, Complete
<1>3. SetUpAt' /\ ServeAt'
  BY <1>2 DEF StreamInv, SetUpAt, ServeAt
<1>. QED  BY <1>1, <1>3 DEF StreamInv

\* Nothing more is read.
LEMMA PastStream ==
  ASSUME StreamInv, step' \in {"closing", "exited", "failed"}, UNCHANGED <<returned, stamps>>,
         leftover' \in Seq(Token), high' \in Nat, nOpen' \in Nat, toDev' \in Seq(Commands)
  PROVE  StreamInv'
BY DEF StreamInv, ReadType, SetUpAt, NoRequest, ServeAt, Ahead

LEMMA CommandAppended ==
  ASSUME NEW C, NEW q \in Seq(C), NEW c \in C
  PROVE  /\ Append(q, c) \in Seq(C)
         /\ c = "O" => LastOpens(Append(q, c))
BY AppendProperties, LenProperties DEF LastOpens

\* The first part of the invariant, as long as no command is sent that asks for
\* the bitrate.
LEMMA SetUpStream ==
  ASSUME StreamInv, step' \in Ahead, FromHere(Stream', stamps', now'),
         leftover' = <<>>, high' = 0, returned' = <<>>,
         step' \in {"measure", "set", "ts", "open"} => rdbuf' = <<>>,
         toDev' \in Seq(Commands), toDev' \in Seq(Commands \ {"B"}), nOpen' \in Nat
  PROVE  StreamInv'
<1>1. <<>> \in Seq(Token) /\ <<>> \in Seq(Rx) /\ Len(<<>>) = 0
  BY EmptySeq
<1>2. ReadType' /\ NoRequest'
  BY <1>1 DEF ReadType, NoRequest
<1>3. SetUpAt' /\ ServeAt'
  BY DEF SetUpAt, ServeAt, Ahead
<1>4. Law(returned', stamps')
  BY <1>1 DEF Law
<1>. QED  BY <1>2, <1>3, <1>4 DEF StreamInv

LEMMA WriteStream ==
  ASSUME MeasureInv, StreamInv, WriteCommand
  PROVE  StreamInv'
<1>1. /\ step \in {"close0", "set", "ts", "open", "closing"}
      /\ toDev' = Append(toDev, Writes[step]) /\ step' = After[step]
      /\ UNCHANGED <<rdbuf, leftover, high, returned, wire, stamps, now, nOpen>>
  BY DEF WriteCommand, Writes, devVars
<1>2. /\ Writes[step] \in Commands \ {"B"} /\ toDev \in Seq(Commands)
      /\ step = "open" => Writes[step] = "O"
  BY <1>1 DEF Writes, Commands, StreamInv, ReadType
<1>3. toDev' \in Seq(Commands)
  BY <1>1, <1>2, CommandAppended
<1>4. CASE step = "closing"
  BY <1>1, <1>3, <1>4, PastStream DEF After, StreamInv, ReadType
<1>5. CASE step # "closing"
  <2>1. /\ step \in Ahead /\ toDev \in Seq(Commands \ {"B"}) /\ FromHere(Stream, stamps, now)
        /\ leftover = <<>> /\ high = 0 /\ returned = <<>> /\ nOpen \in Nat
        /\ step \in {"set", "ts", "open"} => rdbuf = <<>>
    BY <1>1, <1>5 DEF Ahead, StreamInv, SetUpAt, NoRequest, ReadType
  <2>2. /\ toDev' \in Seq(Commands \ {"B"})
        /\ step = "open" => LastOpens(toDev')
    BY <1>1, <1>2, <2>1, CommandAppended
  <2>3. Stream' = Stream
    BY <1>1 DEF Stream
  <2>4. CASE step # "open"
    <3>1. step' \in Ahead /\ (step' \in {"measure", "set", "ts", "open"} => rdbuf' = <<>>)
      BY <1>1, <1>5, <2>1, <2>4 DEF After, Ahead
    <3>2. FromHere(Stream', stamps', now')
      BY <1>1, <2>1, <2>3
    <3>. QED  BY <1>1, <1>3, <2>1, <2>2, <3>1, <3>2, SetUpStream
  <2>5. CASE step = "open"
    <3>1. step' = "serve"
      BY <1>1, <2>5 DEF After
    <3>2. wire \in Seq(Token) /\ Stream = wire
      <4>1. wire \in Seq(Token)
        BY DEF MeasureInv, LinkType
      <4>2. <<>> \o wire = wire
        BY <4>1, ConcatEmptySeq
      <4>. QED  BY <2>1, <2>5, <4>1, <4>2, Zenon DEF Stream
    <3>3. <<>> \o wire = wire /\ <<>> \in Seq(Token) /\ <<>> \in Seq(Rx) /\ 0 \in Nat
      BY <3>2, ConcatEmptySeq, EmptySeq
    <3>4. Right(Parse(wire, 0), stamps, now)
      BY <2>1, <3>2, <3>3, Zenon DEF FromHere
    <3>5. AllFrames' = Parse(wire, 0)
      <4>. DEFINE q == Parse(wire, 0)
      <4>1. q \in Parsing
        BY <3>2, <3>3, AllType
      <4>. HIDE DEF q
      <4>2. <<>> \o q.frames = q.frames /\ q = Known(q.line, q.frames, q.high)
        BY <4>1, ParsingFields, ConcatEmptySeq
      <4>3. AllFrames' = With(<<>>, q)
        BY <1>1, <2>1, <3>3, Zenon DEF AllFrames, AllOf, q
      <4>. QED  BY <4>2, <4>3, Zenon DEF With, q
    <3>6. ServeAt'
      BY <1>1, <2>2, <2>5, <3>4, <3>5 DEF ServeAt, Complete
    <3>7. ReadType' /\ NoRequest' /\ SetUpAt'
      BY <1>1, <1>3, <2>1, <2>2, <3>1, <3>3 DEF ReadType, NoRequest, SetUpAt, Ahead
    <3>8. Law(returned', stamps')
      BY <1>1 DEF StreamInv
    <3>. QED  BY <3>6, <3>7, <3>8 DEF StreamInv
  <2>. QED  BY <2>4, <2>5
<1>. QED  BY <1>4, <1>5

LEMMA AskVersionStream ==
  ASSUME MeasureInv, StreamInv, AskVersion
  PROVE  StreamInv'
<1>1. /\ step = "version" /\ step' = "versioning" /\ toDev' = Append(toDev, "V")
      /\ leftover' = <<>> /\ rdbuf' = <<>>
      /\ UNCHANGED <<high, returned, wire, stamps, now, nOpen>>
  BY DEF AskVersion, devVars, MeasureInv, LinkType
<1>2. /\ FromHere(Stream, stamps, now) /\ high = 0 /\ returned = <<>> /\ rdbuf = <<>>
      /\ toDev \in Seq(Commands) /\ toDev \in Seq(Commands \ {"B"}) /\ nOpen \in Nat
  BY <1>1 DEF Ahead, MeasureInv, VersionAt, StreamInv, SetUpAt, NoRequest, ReadType
<1>3. toDev' \in Seq(Commands) /\ toDev' \in Seq(Commands \ {"B"})
  <2>1. "V" \in Commands /\ "V" \in Commands \ {"B"}
    BY DEF Commands
  <2>. QED  BY <1>1, <1>2, <2>1, CommandAppended
<1>4. FromHere(Stream', stamps', now')
  BY <1>1, <1>2 DEF Stream
<1>5. step' \in Ahead
  BY <1>1 DEF Ahead
<1>. QED  BY <1>1, <1>2, <1>3, <1>4, <1>5, SetUpStream

LEMMA FillVersionStream ==
  ASSUME MeasureInv, StreamInv, FillVersion
  PROVE  StreamInv'
<1>1. /\ step = "versioning" /\ UNCHANGED <<step, leftover, high, returned, toDev, now, stamps, nOpen>>
  BY DEF FillVersion, Asking, MeasureInv, LinkType
<1>2. Stream' = Stream
  BY FillVersionSame
<1>3. /\ FromHere(Stream, stamps, now) /\ leftover = <<>> /\ high = 0 /\ returned = <<>>
      /\ toDev \in Seq(Commands) /\ toDev \in Seq(Commands \ {"B"}) /\ nOpen \in Nat
      /\ step' \in Ahead
  BY <1>1 DEF Ahead, StreamInv, SetUpAt, NoRequest, ReadType
<1>4. FromHere(Stream', stamps', now')
  BY <1>1, <1>2, <1>3
<1>. QED  BY <1>1, <1>3, <1>4, SetUpStream

LEMMA TakeVersionStream ==
  ASSUME MeasureInv, StreamInv, TakeVersion
  PROVE  StreamInv'
<1>1. /\ step = "versioning"
      /\ UNCHANGED <<leftover, high, returned, toDev, now, stamps, nOpen>>
      /\ step' \in {"versioning", "set", "measure", "failed"}
      /\ step' # "versioning" => rdbuf' = <<>>
  BY TakeVersionRest
<1>2. PICK a \in Seq(Token), r \in Seq(Token) : Stream = a \o r /\ Stream' = r
  BY TakeVersionRest
<1>3. /\ FromHere(Stream, stamps, now) /\ leftover = <<>> /\ high = 0 /\ returned = <<>>
      /\ toDev \in Seq(Commands) /\ toDev \in Seq(Commands \ {"B"}) /\ nOpen \in Nat
  BY <1>1 DEF Ahead, StreamInv, SetUpAt, NoRequest, ReadType
<1>4. FromHere(Stream', stamps', now')
  BY <1>1, <1>2, <1>3, FromHereTail, Zenon
<1>5. CASE step' = "failed"
  <2>1. leftover' \in Seq(Token) /\ high' \in Nat
    BY <1>1 DEF StreamInv, ReadType
  <2>. QED  BY <1>1, <1>3, <1>5, <2>1, PastStream
<1>6. CASE step' # "failed"
  <2>1. step' \in Ahead /\ (step' \in {"measure", "set", "ts", "open"} => rdbuf' = <<>>)
    BY <1>1, <1>6 DEF Ahead
  <2>. QED  BY <1>1, <1>3, <1>4, <2>1, SetUpStream
<1>. QED  BY <1>5, <1>6

LEMMA AskBitrateStream ==
  ASSUME MeasureInv, StreamInv, AskBitrate
  PROVE  StreamInv'
<1>1. /\ step = "measure" /\ step' = "measuring" /\ leftover' = <<>>
      /\ toDev' = Append(toDev, "B")
      /\ UNCHANGED <<rdbuf, high, returned, stamps, nOpen>>
  BY DEF AskBitrate, devVars
<1>2. "B" \in Commands /\ toDev \in Seq(Commands) /\ <<>> \in Seq(Token)
  BY EmptySeq DEF Commands, StreamInv, ReadType
<1>3. toDev' \in Seq(Commands)
  BY <1>1, <1>2, CommandAppended
<1>4. ReadType'
  BY <1>1, <1>2, <1>3 DEF StreamInv, ReadType
<1>5. SetUpAt'
  BY <1>1 DEF StreamInv, SetUpAt, Ahead
<1>6. NoRequest' /\ ServeAt'
  BY <1>1 DEF NoRequest, ServeAt, Ahead
<1>. QED  BY <1>1, <1>4, <1>5, <1>6 DEF StreamInv

\* After the last byte of the answer nothing is left.
LEMMA MeasureReadStream ==
  ASSUME MeasureInv, StreamInv, MeasureRead
  PROVE  StreamInv'
<1>1. /\ step = "measuring" /\ step' \in {"failed", "set", "measuring"}
      /\ step' = "set" => Len(got') = 2
      /\ UNCHANGED <<rdbuf, leftover, high, returned, toDev, now, stamps, nOpen>>
  BY DEF MeasureRead
<1>2. /\ leftover = <<>> /\ high = 0 /\ returned = <<>> /\ rdbuf = <<>>
      /\ toDev \in Seq(Commands) /\ nOpen \in Nat
  BY <1>1 DEF StreamInv, SetUpAt, ReadType
<1>3. /\ <<>> \in Seq(Token) /\ <<>> \in Seq(Commands \ {"B"}) /\ 0 \in Nat
      /\ <<>> \in Seq(Commands)
  BY EmptySeq
<1>4. CASE step' = "failed"
  BY <1>1, <1>2, <1>3, <1>4, PastStream
<1>5. CASE step' = "set"
  <2>1. toDev' = <<>> /\ rdbuf' = <<>> /\ wire' = <<>>
    BY <1>1, <1>2, <1>5, MeasureReadBytes
  <2>2. Stream' = <<>>
    BY <1>3, <2>1, ConcatEmptySeq DEF Stream
  <2>3. stamps' \in Seq(Nat)
    BY <1>1 DEF MeasureInv, LinkType
  <2>4. FromHere(Stream', stamps', now')
    BY <2>2, <2>3, FromNothing, Zenon
  <2>5. step' \in Ahead
    BY <1>5 DEF Ahead
  <2>. QED  BY <1>1, <1>2, <1>3, <2>1, <2>4, <2>5, SetUpStream
<1>6. CASE step' = "measuring"
  <2>1. ReadType'
    BY <1>1, <1>6 DEF StreamInv, ReadType
  <2>2. SetUpAt'
    BY <1>1, <1>2, <1>6 DEF SetUpAt, Ahead
  <2>3. NoRequest' /\ ServeAt'
    BY <1>6 DEF NoRequest, ServeAt, Ahead
  <2>. QED  BY <1>1, <2>1, <2>2, <2>3 DEF StreamInv
<1>. QED  BY <1>1, <1>4, <1>5, <1>6

-----------------------------------------------------------------------------
\* What is returned is the front of what is right.
LEMMA RightLaw ==
  ASSUME NEW p \in Parsing, NEW moments \in Seq(Nat), NEW t \in Nat, Right(p, moments, t),
         NEW fs \in Seq(Rx), NEW r \in Seq(Rx), p.frames = fs \o r
  PROVE  Law(fs, moments)
<1>. DEFINE m == Len(p.frames)  L == Len(moments)  K == (t \div Wrap) * Wrap  H == p.high * Wrap
            at(i) == L - m + i
<1>1. /\ Len(fs) \in Nat /\ m \in Nat /\ L \in Nat /\ m <= L /\ Len(fs) <= m
      /\ \A i \in 1 .. Len(fs) : p.frames[i] = fs[i]
  <2>1. /\ Len(fs \o r) = Len(fs) + Len(r)
        /\ \A i \in 1 .. Len(fs) + Len(r) :
             (fs \o r)[i] = IF i <= Len(fs) THEN fs[i] ELSE r[i - Len(fs)]
        /\ Len(fs) \in Nat /\ Len(r) \in Nat /\ L \in Nat
    BY ConcatProperties, LenProperties
  <2>2. m = Len(fs) + Len(r) /\ m <= L
    BY <2>1, Zenon DEF Right
  <2>3. \A i \in 1 .. Len(fs) : i \in 1 .. Len(fs) + Len(r) /\ i <= Len(fs)
    BY <2>1
  <2>4. \A i \in 1 .. Len(fs) : p.frames[i] = fs[i]
    BY <2>1, <2>3, Zenon
  <2>. HIDE DEF m, L
  <2>. QED  BY <2>1, <2>2, <2>4
<1>2. K \in Nat /\ H \in Nat
  <2>1. p.high \in Nat /\ Wrap \in Nat /\ t \div Wrap \in Nat
    BY ParsingFields, NumberAssumption, DivMod
  <2>2. \A x, y \in Nat : x * y \in Nat
    OBVIOUS
  <2>. QED  BY <2>1, <2>2, Zenon
<1>3. ASSUME NEW i \in 1 .. Len(fs)
      PROVE  /\ at(i) \in 1 .. L /\ fs[i].n = at(i) /\ fs[i].ts + K = moments[at(i)] + H
             /\ fs[i].ts \in Nat /\ moments[at(i)] \in Nat
  <2>1. i \in 1 .. m /\ fs[i] = p.frames[i]
    BY <1>1
  <2>2. fs[i].n = at(i) /\ fs[i].ts + K = moments[at(i)] + H
    BY <2>1, Zenon DEF Right
  <2>3. at(i) \in 1 .. L
    <3>1. \A x, y \in Nat : y <= x => \A z \in 1 .. y : x - y + z \in 1 .. x
      OBVIOUS
    <3>. HIDE DEF m, L
    <3>. QED  BY <1>1, <2>1, <3>1, Zenon
  <2>4. fs[i].ts \in Nat
    <3>1. fs[i] \in Rx
      BY ElementOfSeq
    <3>. QED  BY <3>1 DEF Rx
  <2>5. moments[at(i)] \in Nat
    BY <2>3, ElementOfSeq
  <2>. QED  BY <2>2, <2>3, <2>4, <2>5
<1>. HIDE DEF K, H, at, L
<1>4. ASSUME NEW i \in 1 .. Len(fs), NEW j \in 1 .. Len(fs)
      PROVE  fs[j].ts + moments[fs[i].n] = fs[i].ts + moments[fs[j].n]
  <2>1. \A a, b, x, y \in Nat : a + K = x + H /\ b + K = y + H => b + x = a + y
    BY <1>2
  <2>2. fs[j].ts + moments[at(i)] = fs[i].ts + moments[at(j)]
    <3>1. fs[i].ts \in Nat /\ moments[at(i)] \in Nat /\ fs[i].ts + K = moments[at(i)] + H
      BY <1>3, Zenon
    <3>2. fs[j].ts \in Nat /\ moments[at(j)] \in Nat /\ fs[j].ts + K = moments[at(j)] + H
      BY <1>3, Zenon
    <3>. DEFINE A == fs[i].ts  X == moments[at(i)]  B == fs[j].ts  Y == moments[at(j)]
    <3>3. /\ A \in Nat /\ X \in Nat /\ A + K = X + H
          /\ B \in Nat /\ Y \in Nat /\ B + K = Y + H
      BY <3>1, <3>2, Zenon
    <3>. HIDE DEF A, X, B, Y
    <3>4. B + X = A + Y
      BY <2>1, <3>3
    <3>. QED  BY <3>4, Zenon DEF A, X, B, Y
  <2>. QED  BY <1>3, <2>2, Zenon
<1>5. \A i \in 1 .. Len(fs) : fs[i].n \in 1 .. Len(moments)
  BY <1>3, Zenon DEF L
<1>. QED  BY <1>4, <1>5 DEF Law

LEMMA LawHear ==
  ASSUME NEW fs, NEW moments \in Seq(Nat), NEW t \in Nat, Law(fs, moments)
  PROVE  Law(fs, Append(moments, t))
<1>1. /\ Len(Append(moments, t)) = Len(moments) + 1 /\ Len(moments) \in Nat
      /\ \A i \in 1 .. Len(moments) : Append(moments, t)[i] = moments[i]
  BY AppendProperties, LenProperties
<1>2. \A i \in 1 .. Len(fs) :
        fs[i].n \in 1 .. Len(moments) + 1 /\ Append(moments, t)[fs[i].n] = moments[fs[i].n]
  BY <1>1 DEF Law
<1>. QED  BY <1>1, <1>2 DEF Law

\* The adapter sends a line of an open channel.
LEMMA SendStream ==
  ASSUME MeasureInv, StreamInv,
         UNCHANGED <<step, rdbuf, leftover, high, returned, toDev, nOpen>>,
         NEW k \in Said \ {"CR"}, NEW n \in Nat, NEW low \in Nat,
         wire' = wire \o Line(k, n, low), stamps' \in Seq(Nat), Law(returned, stamps'),
         \A p \in Parsing :
           Right(p, stamps, now) =>
             LET q == ParseFrom(p, Line(k, n, low))
             IN  /\ Right(q, stamps', now')
                 /\ Len(q.frames) + Len(stamps) = Len(p.frames) + Len(stamps')
  PROVE  StreamInv'
<1>. DEFINE l == Line(k, n, low)
<1>1. rdbuf \in Seq(Token) /\ wire \in Seq(Token) /\ l \in Seq(Token)
  BY LineTokens DEF MeasureInv, LinkType
<1>2. ReadType' /\ NoRequest'
  BY DEF StreamInv, ReadType, NoRequest
<1>3. ASSUME step \in Ahead PROVE FromHere(Stream', stamps', now')
  <2>1. FromHere(Stream, stamps, now)
    BY <1>3 DEF StreamInv, SetUpAt
  <2>2. Stream \in Seq(Token)
    BY <1>1, Closed DEF Stream
  <2>3. \A p \in Parsing : Right(p, stamps, now) => Right(ParseFrom(p, l), stamps', now')
    BY Zenon
  <2>4. FromHere(Stream \o l, stamps', now')
    BY <2>1, <2>2, <2>3, FromHereLine
  <2>5. (rdbuf \o wire) \o l = rdbuf \o (wire \o l)
    <3>. HIDE DEF l
    <3>. QED  BY <1>1, Regroup
  <2>6. Stream' = Stream \o l
    BY <2>5, Zenon DEF Stream
  <2>. QED  BY <2>4, <2>6, Zenon
<1>4. SetUpAt'
  BY <1>3 DEF StreamInv, SetUpAt
<1>5. ASSUME step = "serve" PROVE Right(AllFrames', stamps', now') /\ Complete'
  <2>1. Right(AllFrames, stamps, now) /\ Complete /\ nOpen \in Nat
    BY <1>5 DEF StreamInv, ServeAt, ReadType
  <2>2. leftover \in Seq(Token) /\ high \in Nat /\ returned \in Seq(Rx)
    BY DEF StreamInv, ReadType
  <2>3. AllFrames \in Parsing
    BY <1>1, <2>2, AllType DEF AllFrames
  <2>4. AllFrames' = ParseFrom(AllFrames, l)
    <3>. HIDE DEF l
    <3>1. AllOf(returned, leftover, wire \o l, high) = ParseFrom(AllFrames, l)
      BY <1>1, <2>2, AllLine DEF AllFrames
    <3>. QED  BY <3>1, Zenon DEF AllFrames, l
  <2>5. /\ Right(AllFrames', stamps', now')
        /\ Len(AllFrames'.frames) + Len(stamps) = Len(AllFrames.frames) + Len(stamps')
    BY <2>1, <2>3, <2>4, Zenon
  <2>6. AllFrames' \in Parsing
    BY <1>1, <2>3, <2>4, ParseType
  <2>7. /\ Len(AllFrames'.frames) \in Nat /\ Len(AllFrames.frames) \in Nat
        /\ Len(stamps) \in Nat /\ Len(stamps') \in Nat
    BY <2>3, <2>6, ParsingFields, LenProperties DEF MeasureInv, LinkType
  <2>8. Len(AllFrames.frames) + nOpen >= Len(stamps)
          => Len(AllFrames'.frames) + nOpen >= Len(stamps')
    BY <2>1, <2>5, <2>7
  <2>. QED  BY <2>1, <2>5, <2>8 DEF Complete
<1>6. ServeAt'
  BY <1>5, Zenon DEF ServeAt
<1>. QED  BY <1>2, <1>4, <1>6 DEF StreamInv

LEMMA HearStream ==
  ASSUME MeasureInv, StreamInv, Hear
  PROVE  StreamInv'
<1>1. /\ UNCHANGED <<step, rdbuf, leftover, high, returned, toDev, nOpen, now>>
      /\ stamps' = Append(stamps, now)
  BY DEF Hear, driverVars
<1>2. PICK k \in Kinds : wire' = wire \o Line(k, Len(stamps) + 1, now % Wrap)
  BY DEF Hear
<1>3. k \in {"t", "T"} /\ k \in Said \ {"CR"}
  BY SwitchAssumption DEF Said
<1>4. stamps \in Seq(Nat) /\ now \in Nat /\ Len(stamps) \in Nat
  BY LenProperties DEF MeasureInv, LinkType
<1>5. Len(stamps) + 1 \in Nat /\ now % Wrap \in Nat
  BY <1>4, NumberAssumption
<1>6. stamps' \in Seq(Nat) /\ Len(stamps') = Len(stamps) + 1
  BY <1>1, <1>4, AppendProperties
<1>7. Law(returned, stamps')
  BY <1>1, <1>4, LawHear DEF StreamInv
<1>8. ASSUME NEW p \in Parsing, Right(p, stamps, now)
      PROVE  LET q == ParseFrom(p, Line(k, Len(stamps) + 1, now % Wrap))
             IN  /\ Right(q, stamps', now')
                 /\ Len(q.frames) + Len(stamps) = Len(p.frames) + Len(stamps')
  <2>. DEFINE q == ParseFrom(p, Line(k, Len(stamps) + 1, now % Wrap))
  <2>1. Right(q, Append(stamps, now), now) /\ Len(q.frames) = Len(p.frames) + 1
    BY <1>3, <1>4, <1>8, RightHear
  <2>2. Len(p.frames) \in Nat
    BY ParsingFields, LenProperties
  <2>. HIDE DEF q
  <2>3. Len(q.frames) + Len(stamps) = Len(p.frames) + Len(stamps')
    <3>1. \A x, y \in Nat : (x + 1) + y = x + (y + 1)
      OBVIOUS
    <3>. QED  BY <1>4, <1>6, <2>1, <2>2, <3>1, Zenon
  <2>. QED  BY <1>1, <2>1, <2>3 DEF q
<1>. QED  BY <1>1, <1>2, <1>3, <1>5, <1>6, <1>7, <1>8, SendStream

LEMMA TickStream ==
  ASSUME MeasureInv, StreamInv, Tick
  PROVE  StreamInv'
<1>1. /\ UNCHANGED <<step, rdbuf, leftover, high, returned, toDev, nOpen, stamps>>
      /\ now' = now + 1
      /\ (now + 1) % Wrap = 0 => wire' = wire \o Line("J", 0, 0)
      /\ (now + 1) % Wrap # 0 => wire' = wire
  BY DEF Tick, driverVars
<1>2. stamps \in Seq(Nat) /\ now \in Nat /\ Law(returned, stamps)
  BY DEF MeasureInv, LinkType, StreamInv
<1>3. CASE (now + 1) % Wrap = 0
  <2>1. "J" \in Said \ {"CR"} /\ 0 \in Nat
    BY DEF Said
  <2>2. ASSUME NEW p \in Parsing, Right(p, stamps, now)
        PROVE  LET q == ParseFrom(p, Line("J", 0, 0))
               IN  /\ Right(q, stamps', now')
                   /\ Len(q.frames) + Len(stamps) = Len(p.frames) + Len(stamps')
    <3>1. LET q == ParseFrom(p, Line("J", 0, 0))
          IN  Right(q, stamps, now + 1) /\ q.frames = p.frames
      BY <1>2, <1>3, <2>2, RightTick
    <3>. QED  BY <1>1, <3>1
  <2>. QED  BY <1>1, <1>2, <1>3, <2>1, <2>2, SendStream
<1>4. CASE (now + 1) % Wrap # 0
  <2>1. \A p \in Parsing : Right(p, stamps, now) => Right(p, stamps', now')
    BY <1>1, <1>2, <1>4, RightTick
  <2>2. Stream' = Stream /\ AllFrames' = AllFrames /\ Complete' = Complete
    BY <1>1, <1>4 DEF Stream, AllFrames, Complete
  <2>3. step \in Ahead => FromHere(Stream', stamps', now')
    <3>. SUFFICES ASSUME step \in Ahead, NEW a \in Seq(Token), NEW b \in Seq(Token),
                         Stream = a \o b
                  PROVE  Right(Parse(b, 0), stamps', now')
      BY <2>2 DEF FromHere
    <3>1. Right(Parse(b, 0), stamps, now)
      BY Zenon DEF StreamInv, SetUpAt, FromHere
    <3>2. Parse(b, 0) \in Parsing
      BY StartType, ParseType DEF Parse
    <3>. QED  BY <2>1, <3>1, <3>2
  <2>4. step = "serve" => Right(AllFrames', stamps', now') /\ Complete'
    <3>. SUFFICES ASSUME step = "serve" PROVE Right(AllFrames, stamps', now') /\ Complete
      BY <2>2
    <3>1. leftover \in Seq(Token) /\ high \in Nat /\ returned \in Seq(Rx) /\ wire \in Seq(Token)
      BY DEF StreamInv, ReadType, MeasureInv, LinkType
    <3>2. AllFrames \in Parsing
      BY <3>1, AllType DEF AllFrames
    <3>. QED  BY <2>1, <3>2 DEF StreamInv, ServeAt
  <2>5. ReadType' /\ NoRequest'
    BY <1>1 DEF StreamInv, ReadType, NoRequest
  <2>6. SetUpAt'
    BY <1>1, <2>3 DEF StreamInv, SetUpAt
  <2>7. ServeAt'
    BY <1>1, <2>4 DEF ServeAt
  <2>. QED  BY <1>1, <1>2, <2>5, <2>6, <2>7 DEF StreamInv
<1>. QED  BY <1>3, <1>4

\* The first command is handled.
LEMMA CommandTaken ==
  ASSUME NEW C, NEW q \in Seq(C), q # <<>>
  PROVE  /\ Head(q) \in C /\ Tail(q) \in Seq(C)
         /\ LastOpens(q) => Head(q) = "O" \/ LastOpens(Tail(q))
<1>1. /\ Head(q) \in C /\ Tail(q) \in Seq(C) /\ Len(Tail(q)) = Len(q) - 1
      /\ \A i \in 1 .. Len(Tail(q)) : Tail(q)[i] = q[i + 1]
  BY HeadTailProperties
<1>2. Len(q) \in Nat /\ Len(q) # 0
  BY LenProperties, EmptySeq
<1>3. Head(q) = q[1]
  OBVIOUS
<1>4. CASE Len(q) = 1
  BY <1>1, <1>3, <1>4 DEF LastOpens
<1>5. CASE Len(q) # 1
  <2>1. Len(Tail(q)) \in 1 .. Len(Tail(q)) /\ Len(Tail(q)) + 1 = Len(q)
    BY <1>1, <1>2, <1>5
  <2>2. Tail(q)[Len(Tail(q))] = q[Len(q)]
    BY <1>1, <2>1
  <2>3. Tail(q) # <<>>
    <3>1. Len(Tail(q)) # 0
      BY <1>1, <1>2, <1>5
    <3>. QED  BY <1>1, <3>1, EmptySeq
  <2>. QED  BY <1>1, <2>2, <2>3 DEF LastOpens
<1>. QED  BY <1>4, <1>5

\* The answer to "V" adds nothing, whenever it comes.
LEMMA HandleStream ==
  ASSUME MeasureInv, StreamInv, Handle
  PROVE  StreamInv'
<1>. DEFINE c == Head(toDev)  l == Line("version", 0, 0)
<1>1. /\ toDev # <<>> /\ toDev' = Tail(toDev)
      /\ UNCHANGED <<step, rdbuf, leftover, high, returned, now, stamps>>
      /\ nOpen' = IF c = "O" THEN Len(stamps) ELSE nOpen
      /\ c # "B" => wire' = wire \o l \/ wire' = wire
  BY DEF Handle, driverVars
<1>2. /\ toDev \in Seq(Commands) /\ nOpen \in Nat /\ leftover \in Seq(Token) /\ high \in Nat
      /\ returned \in Seq(Rx) /\ Law(returned, stamps)
      /\ step \in Ahead \cup {"measuring", "serve", "closing", "exited", "failed"}
  BY DEF StreamInv, ReadType
<1>3. rdbuf \in Seq(Token) /\ wire \in Seq(Token) /\ stamps \in Seq(Nat) /\ Len(stamps) \in Nat
  BY LenProperties DEF MeasureInv, LinkType
<1>4. toDev' \in Seq(Commands) /\ nOpen' \in Nat
  BY <1>1, <1>2, <1>3, CommandTaken
<1>5. LastOpens(toDev) => c = "O" \/ LastOpens(toDev')
  BY <1>1, <1>2, CommandTaken
<1>6. ASSUME step \in Ahead \cup {"serve"}
      PROVE  toDev' \in Seq(Commands \ {"B"}) /\ c # "B"
  <2>1. toDev \in Seq(Commands \ {"B"})
    BY <1>6 DEF StreamInv, NoRequest
  <2>2. c \in Commands \ {"B"} /\ toDev' \in Seq(Commands \ {"B"})
    BY <1>1, <2>1, CommandTaken
  <2>. QED  BY <2>2
<1>7. l \in Seq(Token) /\ "version" \in Said \ {"CR"} /\ 0 \in Nat
  BY LineTokens DEF Said
<1>. HIDE DEF c, l
<1>8. ASSUME step \in Ahead PROVE FromHere(Stream', stamps', now')
  <2>1. FromHere(Stream, stamps, now)
    BY <1>8 DEF StreamInv, SetUpAt
  <2>2. CASE wire' = wire
    BY <1>1, <2>1, <2>2 DEF Stream
  <2>3. CASE wire' = wire \o l
    <3>1. (rdbuf \o wire) \o l = rdbuf \o (wire \o l)
      BY <1>3, <1>7, Regroup
    <3>2. Stream' = Stream \o l
      BY <1>1, <2>3, <3>1, Zenon DEF Stream
    <3>3. Stream \in Seq(Token)
      BY <1>3, Closed DEF Stream
    <3>4. \A p \in Parsing : Right(p, stamps, now)
            => Right(ParseFrom(p, Line("version", 0, 0)), stamps, now)
      BY AnswerSkipped, Zenon DEF Right
    <3>5. FromHere(Stream \o Line("version", 0, 0), stamps, now)
      BY <1>3, <1>7, <2>1, <3>3, <3>4, FromHereLine
    <3>. QED  BY <1>1, <3>2, <3>5, Zenon DEF l
  <2>. QED  BY <1>1, <1>6, <1>8, <2>2, <2>3
<1>9. ASSUME step = "serve" PROVE Right(AllFrames', stamps', now') /\ Complete'
  <2>1. Right(AllFrames, stamps, now) /\ Complete
    BY <1>9 DEF StreamInv, ServeAt
  <2>2. AllFrames \in Parsing /\ AllFrames.line = <<>>
    BY <1>2, <1>3, <2>1, AllType DEF AllFrames, Right
  <2>3. AllFrames' = AllFrames
    <3>1. CASE wire' = wire
      BY <1>1, <3>1 DEF AllFrames
    <3>2. CASE wire' = wire \o l
      <4>1. AllOf(returned, leftover, wire \o l, high) = ParseFrom(AllFrames, l)
        BY <1>2, <1>3, <1>7, AllLine DEF AllFrames
      <4>2. ParseFrom(AllFrames, l) = AllFrames
        BY <2>2, AnswerSkipped DEF l
      <4>3. AllFrames' = AllOf(returned, leftover, wire \o l, high)
        BY <1>1, <3>2 DEF AllFrames
      <4>. QED  BY <4>1, <4>2, <4>3, Zenon
    <3>. QED  BY <1>1, <1>6, <1>9, <3>1, <3>2
  <2>4. Len(AllFrames.frames) \in Nat
    BY <2>2, ParsingFields, LenProperties
  <2>5. Complete'
    <3>1. CASE c = "O"
      <4>1. Len(AllFrames.frames) + nOpen' >= Len(stamps)
        BY <1>1, <1>3, <2>4, <3>1
      <4>. QED  BY <1>1, <2>3, <4>1 DEF Complete
    <3>2. CASE c # "O"
      BY <1>1, <1>5, <2>1, <2>3, <3>2 DEF Complete
    <3>. QED  BY <3>1, <3>2
  <2>. QED  BY <1>1, <2>1, <2>3, <2>5
<1>10. ReadType' /\ NoRequest'
  BY <1>1, <1>2, <1>4, <1>6 DEF ReadType, NoRequest
<1>11. SetUpAt'
  BY <1>1, <1>8 DEF StreamInv, SetUpAt
<1>12. ServeAt'
  BY <1>1, <1>9, Zenon DEF ServeAt
<1>. QED  BY <1>1, <1>2, <1>10, <1>11, <1>12 DEF StreamInv

\* A read takes any part of the stream.
LEMMA ReadFramesStream ==
  ASSUME MeasureInv, StreamInv, ReadFrames
  PROVE  StreamInv'
<1>1. step = "serve" /\ UNCHANGED <<step, rdbuf, toDev, now, stamps, nOpen>>
  BY DEF ReadFrames
<1>2. PICK k \in 1 .. Len(wire) :
        LET p == Parse(leftover \o SubSeq(wire, 1, k), high)
        IN  /\ leftover' = p.line
            /\ high' = p.high /\ returned' = returned \o p.frames
            /\ wire' = SubSeq(wire, k + 1, Len(wire))
  BY DEF ReadFrames
<1>. DEFINE a == SubSeq(wire, 1, k)  b == SubSeq(wire, k + 1, Len(wire))
            p == Parse(leftover \o a, high)
<1>3. /\ leftover \in Seq(Token) /\ high \in Nat /\ returned \in Seq(Rx)
      /\ wire \in Seq(Token) /\ stamps \in Seq(Nat) /\ now \in Nat
      /\ Right(AllFrames, stamps, now) /\ Complete
  BY <1>1 DEF StreamInv, ReadType, ServeAt, MeasureInv, LinkType
<1>4. a \in Seq(Token) /\ b \in Seq(Token) /\ a \o b = wire
  BY <1>3, CutAt
<1>5. leftover' = p.line /\ high' = p.high /\ returned' = returned \o p.frames /\ wire' = b
  BY <1>2
<1>. HIDE DEF a, b
<1>6. p \in Parsing
  BY <1>3, <1>4, AllType
<1>7. AllOf(returned \o p.frames, p.line, b, p.high) = AllOf(returned, leftover, a \o b, high)
  <2>1. /\ a \in Seq(Token) /\ b \in Seq(Token)
        /\ leftover \in Seq(Token) /\ high \in Nat /\ returned \in Seq(Rx)
    BY <1>3, <1>4
  <2>. QED  BY <2>1, AllRead
<1>. HIDE DEF p
<1>8. leftover' \in Seq(Token) /\ high' \in Nat /\ returned' \in Seq(Rx) /\ wire' \in Seq(Token)
  <2>1. p.line \in Seq(Token) /\ p.frames \in Seq(Rx) /\ p.high \in Nat
    BY <1>6, ParsingFields
  <2>2. returned \o p.frames \in Seq(Rx)
    BY <1>3, <2>1, ConcatProperties
  <2>. QED  BY <1>4, <1>5, <2>1, <2>2
<1>9. AllFrames' = AllFrames
  BY <1>4, <1>5, <1>7, Zenon DEF AllFrames
<1>10. Law(returned', stamps)
  <2>. DEFINE r == Parse(leftover' \o wire', high')
  <2>1. r \in Parsing
    BY <1>8, AllType
  <2>2. AllFrames' = With(returned', r)
    BY Zenon DEF AllFrames, AllOf
  <2>. HIDE DEF r
  <2>3. /\ AllFrames' \in Parsing /\ AllFrames'.frames = returned' \o r.frames
        /\ r.frames \in Seq(Rx)
    BY <1>8, <2>1, <2>2, WithType, ParsingFields
  <2>4. Right(AllFrames', stamps, now)
    BY <1>3, <1>9, Zenon
  <2>. QED  BY <1>3, <1>8, <2>3, <2>4, RightLaw
<1>11. ReadType' /\ NoRequest'
  BY <1>1, <1>8 DEF StreamInv, ReadType, NoRequest
<1>12. SetUpAt'
  BY <1>1 DEF SetUpAt, Ahead
<1>13. ServeAt'
  BY <1>1, <1>3, <1>9 DEF ServeAt, Complete
<1>. QED  BY <1>1, <1>10, <1>11, <1>12, <1>13 DEF StreamInv

LEMMA NextStream ==
  ASSUME MeasureInv, StreamInv, [Next]_vars
  PROVE  StreamInv'
<1>1. CASE WriteCommand \/ AskVersion \/ FillVersion \/ TakeVersion \/ AskBitrate \/ MeasureRead
  BY <1>1, WriteStream, AskVersionStream, FillVersionStream, TakeVersionStream,
     AskBitrateStream, MeasureReadStream
<1>2. CASE Handle \/ Hear \/ Tick
  BY <1>2, HandleStream, HearStream, TickStream
<1>3. CASE ReadFrames
  BY <1>3, ReadFramesStream
<1>4. CASE BadBitrate \/ Shutdown \/ VersionTimeout
  <2>1. /\ step' \in {"closing", "failed"}
        /\ UNCHANGED <<leftover, high, returned, toDev, stamps, nOpen>>
    BY <1>4 DEF BadBitrate, Shutdown, VersionTimeout, devVars
  <2>. QED  BY <2>1, PastStream DEF StreamInv, ReadType
<1>5. CASE Gone \/ UNCHANGED vars
  BY <1>5, StreamFrame DEF Gone, vars, driverVars, devVars
<1>. QED  BY <1>1, <1>2, <1>3, <1>4, <1>5 DEF Next, SetUp

-----------------------------------------------------------------------------
LEMMA NumbersConcat ==
  ASSUME NEW a \in Seq(Rx), NEW b \in Seq(Rx)
  PROVE  Numbers(a) \o Numbers(b) = Numbers(a \o b)
<1>. DEFINE s == Numbers(a) \o Numbers(b)  t == Numbers(a \o b)
<1>1. ASSUME NEW c \in Seq(Rx)
      PROVE  /\ Numbers(c) \in Seq(Nat) /\ Len(Numbers(c)) = Len(c)
             /\ \A i \in 1 .. Len(c) : Numbers(c)[i] = c[i].n
  <2>1. Len(c) \in Nat /\ \A i \in 1 .. Len(c) : c[i].n \in Nat
    <3>1. \A i \in 1 .. Len(c) : c[i] \in Rx
      BY ElementOfSeq
    <3>. QED  BY <3>1, LenProperties DEF Rx
  <2>. QED  BY <2>1 DEF Numbers
<1>2. /\ a \o b \in Seq(Rx) /\ Len(a \o b) = Len(a) + Len(b)
      /\ Len(a) \in Nat /\ Len(b) \in Nat
      /\ \A i \in 1 .. Len(a) + Len(b) :
           (a \o b)[i] = IF i <= Len(a) THEN a[i] ELSE b[i - Len(a)]
  BY ConcatProperties, LenProperties
<1>3. /\ t \in Seq(Nat) /\ Len(t) = Len(a) + Len(b)
      /\ \A i \in 1 .. Len(a) + Len(b) : t[i] = (a \o b)[i].n
  BY <1>1, <1>2
<1>4. /\ s \in Seq(Nat) /\ Len(s) = Len(a) + Len(b)
      /\ \A i \in 1 .. Len(a) + Len(b) :
           s[i] = IF i <= Len(a) THEN Numbers(a)[i] ELSE Numbers(b)[i - Len(a)]
  <2>1. /\ Numbers(a) \in Seq(Nat) /\ Numbers(b) \in Seq(Nat)
        /\ Len(Numbers(a)) = Len(a) /\ Len(Numbers(b)) = Len(b)
    BY <1>1
  <2>2. /\ s \in Seq(Nat) /\ Len(s) = Len(Numbers(a)) + Len(Numbers(b))
        /\ \A i \in 1 .. Len(Numbers(a)) + Len(Numbers(b)) :
             s[i] = IF i <= Len(Numbers(a)) THEN Numbers(a)[i]
                                            ELSE Numbers(b)[i - Len(Numbers(a))]
    BY <2>1, ConcatProperties
  <2>. HIDE DEF s
  <2>. QED  BY <2>1, <2>2
<1>. HIDE DEF s, t
<1>5. ASSUME NEW i \in 1 .. Len(a) + Len(b) PROVE s[i] = t[i]
  <2>1. CASE i <= Len(a)
    <3>1. i \in 1 .. Len(a)
      BY <1>2, <2>1
    <3>. QED  BY <1>1, <1>2, <1>3, <1>4, <2>1, <3>1
  <2>2. CASE ~ (i <= Len(a))
    <3>1. i - Len(a) \in 1 .. Len(b)
      BY <1>2, <2>2
    <3>. QED  BY <1>1, <1>2, <1>3, <1>4, <2>2, <3>1
  <2>. QED  BY <2>1, <2>2
<1>. QED  BY <1>3, <1>4, <1>5, SeqEqual DEF s, t

\* While the server serves, the frames are the last heard, in order.
LEMMA RxExactHolds ==
  ASSUME MeasureInv, StreamInv
  PROVE  RxExact
<1>. SUFFICES ASSUME step = "serve" PROVE RxExact
  BY DEF RxExact
<1>. DEFINE r == Parse(leftover \o wire, high).frames
            s == Numbers(returned) \o Numbers(r)
            d == Len(stamps) - Len(s)
<1>1. /\ leftover \in Seq(Token) /\ high \in Nat /\ returned \in Seq(Rx) /\ nOpen \in Nat
      /\ wire \in Seq(Token) /\ Len(stamps) \in Nat
      /\ Right(AllFrames, stamps, now) /\ Complete
  BY LenProperties DEF StreamInv, ReadType, ServeAt, MeasureInv, LinkType
<1>2. r \in Seq(Rx) /\ AllFrames \in Parsing /\ AllFrames.frames = returned \o r
  <2>1. Parse(leftover \o wire, high) \in Parsing /\ AllFrames \in Parsing
    BY <1>1, AllType DEF AllFrames
  <2>. QED  BY <1>1, <2>1, ParsingFields, WithType DEF AllFrames, AllOf
<1>. DEFINE m == Len(AllFrames.frames)
<1>. HIDE DEF r
<1>3. s = Numbers(AllFrames.frames)
  BY <1>1, <1>2, NumbersConcat
<1>4. AllFrames.frames \in Seq(Rx) /\ m \in Nat
  BY <1>2, ParsingFields, LenProperties
<1>5. s = [i \in 1 .. m |-> AllFrames.frames[i].n]
  BY <1>3, Zenon DEF Numbers
<1>6. Len(s) = m
  <2>. HIDE DEF s, m
  <2>. QED  BY <1>4, <1>5
<1>7. m <= Len(stamps) /\ \A i \in 1 .. m : AllFrames.frames[i].n = Len(stamps) - m + i
  BY <1>1, Zenon DEF Right
<1>. HIDE DEF s, m
<1>8. s = [i \in 1 .. Len(s) |-> d + i]
  BY <1>5, <1>6, <1>7
<1>9. nOpen >= d \/ toDev # <<>>
  <2>1. LastOpens(toDev) => toDev # <<>>
    BY DEF LastOpens
  <2>2. m + nOpen >= Len(stamps) => nOpen >= d
    BY <1>1, <1>4, <1>6
  <2>. QED  BY <1>1, <2>1, <2>2 DEF Complete, m
<1>. QED  BY <1>8, <1>9, Zenon DEF RxExact, s, r

LEMMA TimeExactHolds ==
  ASSUME StreamInv
  PROVE  TimeExact
BY DEF StreamInv, Law, TimeExact

LEMMA StreamAlways ==
  ASSUME ~ AutoDetect
  PROVE  EdgesSpec => [](MeasureInv /\ StreamInv)
<1>1. EdgesInit => MeasureInv /\ StreamInv
  BY InitMeasure, InitStream DEF EdgesInit, InitializeDriver, NoDriver
<1>2. MeasureInv /\ StreamInv /\ [DriverStep \/ InStep \/ OutStep]_edgeVars
        => (MeasureInv /\ StreamInv)'
  <2>. SUFFICES ASSUME MeasureInv, StreamInv, [DriverStep \/ InStep \/ OutStep]_edgeVars
                PROVE  [Next]_vars
    BY NextMeasure, NextStream
  <2>1. CASE DriverStep
    BY <2>1 DEF DriverStep, DriversNext, SlcanStep, PcanStep, GsUsbStep
  <2>2. CASE InStep \/ OutStep \/ UNCHANGED edgeVars
    BY <2>2 DEF InStep, OutStep, edgeVars, allVars
  <2>. QED  BY <2>1, <2>2
<1>. QED  BY <1>1, <1>2, PTL DEF EdgesSpec

(***************************************************************************)
(* A server that named its port loses, repeats and reorders no frame of    *)
(* SLCAN: however the bytes that answer the set-up and those of the lines  *)
(* are cut into reads, wherever get_version left the stream, and although  *)
(* the answer to "V" may still come between two frames.                    *)
(***************************************************************************)
THEOREM SlcanFramesExact ==
  ASSUME ~ AutoDetect
  PROVE  EdgesSpec => []RxExact
<1>1. MeasureInv /\ StreamInv => RxExact
  BY RxExactHolds
<1>. QED  BY <1>1, StreamAlways, PTL

(***************************************************************************)
(* The 64-bit timestamps that the driver makes of the 32 bits of a line    *)
(* and of the overflow lines are as far apart as the times at which the    *)
(* adapter heard the frames, for every width of its clock and every cut    *)
(* of the stream into reads.                                               *)
(***************************************************************************)
THEOREM SlcanTimesExact ==
  ASSUME ~ AutoDetect
  PROVE  EdgesSpec => []TimeExact
<1>1. MeasureInv /\ StreamInv => TimeExact
  BY TimeExactHolds
<1>. QED  BY <1>1, StreamAlways, PTL

=============================================================================
