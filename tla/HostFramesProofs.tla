--------------------------- MODULE HostFramesProofs ---------------------------
(***************************************************************************)
(* Theorems about the stream of gs_usb host frames, for every packet size, *)
(* whatever the adapter supports and an earlier session has left behind.   *)
(***************************************************************************)
EXTENDS HostFrames, SequenceLemmas

-----------------------------------------------------------------------------
(* Types *)

Byte == 0 .. 255

FrameType ==
  /\ phase \in {"open", "updated", "reset", "stamped", "started"}
  /\ flags \subseteq Flags /\ dev \subseteq Flags
  /\ dead \in BOOLEAN /\ started \in BOOLEAN
  /\ now \in Nat /\ early \in Nat /\ echoes \in Nat
  /\ buf \in Seq(Byte) /\ usb \in Seq(Seq(Byte))

LEMMA AlignUpIs ==
  ASSUME NEW n \in Nat, NEW m \in Nat \ {0}
  PROVE  AlignUp(n, m) \in Nat /\ AlignUp(n, m) >= n
<1>. DEFINE x == n + m - 1
<1>1. x \in Nat
  OBVIOUS
<1>2. x \div m \in Nat /\ x % m \in 0 .. m - 1 /\ x = (x \div m) * m + (x % m)
  <2>. HIDE DEF x
  <2>1. x \div m \in Nat /\ x % m \in 0 .. m - 1
    BY <1>1
  <2>2. (x \div m) * m + (x % m) = x
    BY <1>1, DivMod
  <2>. QED  BY <2>1, <2>2
<1>. DEFINE q == x \div m  r == x % m
<1>3. q \in Nat /\ r \in 0 .. m - 1 /\ n + m - 1 = q * m + r
  BY <1>2
<1>4. AlignUp(n, m) = q * m
  BY DEF AlignUp
<1>. HIDE DEF q, r, x
<1>5. q * m \in Nat
  BY <1>3
<1>. QED  BY <1>3, <1>4, <1>5

LEMMA LengthsAre ==
  ASSUME NEW dlc \in 0 .. 15
  PROVE  /\ DlcToLen(dlc) \in Nat /\ BaseLen(DlcToLen(dlc)) \in Nat
         /\ BaseLen(DlcToLen(dlc)) >= 12 + DlcToLen(dlc)
         /\ BaseLen(DlcToLen(dlc)) >= 20
         /\ dlc <= 8 => DlcToLen(dlc) = dlc /\ BaseLen(dlc) = 20
<1>1. DlcToLen(dlc) \in Nat
  <2>1. CASE dlc <= 8
    BY <2>1 DEF DlcToLen
  <2>2. CASE ~ (dlc <= 8)
    <3>1. dlc - 8 \in 1 .. 7
      BY <2>2
    <3>2. \A i \in 1 .. 7 : <<12, 16, 20, 24, 32, 48, 64>>[i] \in Nat
      OBVIOUS
    <3>. QED  BY <2>2, <3>1, <3>2 DEF DlcToLen
  <2>. QED  BY <2>1, <2>2
<1>. DEFINE n == DlcToLen(dlc)
<1>. HIDE DEF n
<1>2. AlignUp(n, 8) \in Nat /\ AlignUp(n, 8) >= n
  BY <1>1, AlignUpIs DEF n
<1>3. BaseLen(n) \in Nat /\ BaseLen(n) >= 12 + n /\ BaseLen(n) >= 20
  BY <1>1, <1>2 DEF BaseLen, n
<1>4. dlc <= 8 => n = dlc /\ BaseLen(dlc) = 20
  BY DEF DlcToLen, BaseLen, n
<1>. QED  BY <1>1, <1>3, <1>4 DEF n

-----------------------------------------------------------------------------
(* The parser *)

\* What it says, and what it says of bytes that the set-up has prepared it for.
LEMMA ParseAtIs ==
  ASSUME FrameType, NEW c \in Seq(Byte), Len(c) >= 12
  PROVE  /\ ParseAt(c).kind \in {"wait", "skip", "panic", "frame"}
         /\ ParseAt(c).n \in Nat
         /\ flags # {} => ParseAt(c).kind # "panic" /\ ParseAt(c).n <= Len(c)
<1>1. Len(c) \in Nat /\ 9 \in 1 .. Len(c)
  BY LenProperties
<1>2. c[9] \in 0 .. 255
  BY <1>1, ElementOfSeq DEF Byte
<1>3. \A n : Skip(n).kind = "skip" /\ Skip(n).n = n
  BY DEF Skip
<1>4. Wait.kind = "wait" /\ Wait.n = 0 /\ Panic.kind = "panic" /\ Panic.n = 0
  BY DEF Wait, Panic
<1>5. \A n, f, at : Accept(n, f, at).kind = "frame" /\ Accept(n, f, at).n = n
  BY DEF Accept
<1>6. CASE c[9] > 15
  <2>1. ParseAt(c) = Skip(1)
    BY <1>6 DEF ParseAt
  <2>. QED  BY <1>1, <1>3, <2>1
<1>7. CASE c[9] <= 15
  <2>. DEFINE len    == DlcToLen(c[9])
              base   == BaseLen(len)
              need   == IF "ts" \in flags THEN base + 4 ELSE base
              padded == IF "pad" \in flags THEN AlignUp(need, Wmax) ELSE need
              at     == IF "ts" \in flags THEN SubSeq(c, base + 1, base + 4) ELSE None
  <2>0. c[9] \in 0 .. 15 /\ ~ (c[9] > 15)
    <3>1. \A d \in 0 .. 255 : d <= 15 => d \in 0 .. 15 /\ ~ (d > 15)
      OBVIOUS
    <3>. QED  BY <1>2, <1>7, <3>1, Zenon
  <2>1. len \in Nat /\ base \in Nat /\ base >= 12 + len
    BY <2>0, LengthsAre
  <2>. HIDE DEF len, base
  <2>2. need \in Nat /\ need >= base
    BY <2>1
  <2>. HIDE DEF need
  <2>3. AlignUp(need, Wmax) \in Nat /\ AlignUp(need, Wmax) >= need
    BY <2>2, AlignUpIs, FormatAssumption
  <2>4. padded \in Nat /\ padded >= need
    BY <2>2, <2>3
  <2>. HIDE DEF padded, at
  <2>5. ParseAt(c) = IF Len(c) < padded /\ (flags # {} \/ len = 0) THEN Wait
                     ELSE Body(c, len, padded, at)
    BY <2>0, Zenon DEF ParseAt, len, base, need, padded, at
  <2>6. CASE Len(c) < padded /\ (flags # {} \/ len = 0)
    BY <1>1, <1>4, <2>5, <2>6
  <2>7. CASE ~ (Len(c) < padded /\ (flags # {} \/ len = 0))
    <3>1. \/ Body(c, len, padded, at) = Skip(1)
          \/ Body(c, len, padded, at) = Skip(padded)
          \/ Body(c, len, padded, at) = Panic /\ Len(c) < 12 + len
          \/ Body(c, len, padded, at) = Wait
          \/ \E f : Body(c, len, padded, at) = Accept(padded, f, at)
      BY DEF Body
    <3>2. flags # {} => padded <= Len(c) /\ ~ (Len(c) < 12 + len)
      BY <1>1, <2>1, <2>2, <2>4, <2>7
    <3>3. ParseAt(c) = Body(c, len, padded, at)
      BY <2>5, <2>7
    <3>. QED  BY <1>1, <1>3, <1>4, <1>5, <2>4, <3>1, <3>2, <3>3
  <2>. QED  BY <2>6, <2>7
<1>8. c[9] > 15 \/ c[9] <= 15
  <2>1. \A d \in 0 .. 255 : d > 15 \/ d <= 15
    OBVIOUS
  <2>. QED  BY <1>2, <2>1, Zenon
<1>. QED  BY <1>6, <1>7, <1>8, Zenon

\* The loop of process_rx_chunk, turn by turn.
LEMMA ParsedIs ==
  ASSUME NEW b, Len(b) \in Nat
  PROVE  \E s : /\ s[0] = Loop(0, last, out, "more")
                /\ \A i \in 1 .. Len(b) : s[i] = Turn(b, s[i - 1])
                /\ Parsed(b) = s[Len(b)]
<1>. DEFINE a == Loop(0, last, out, "more")
            Runs(g, m) == g = [i \in 0 .. m |-> IF i = 0 THEN a ELSE Turn(b, g[i - 1])]
            S == {m \in Nat : \E g : Runs(g, m)}
<1>. HIDE DEF a
<1>1. 0 \in S
  <2>. DEFINE g == [i \in 0 .. 0 |-> a]
  <2>1. g = [i \in 0 .. 0 |-> IF i = 0 THEN a ELSE Turn(b, g[i - 1])]
    OBVIOUS
  <2>. HIDE DEF g
  <2>. QED  BY <2>1
<1>2. ASSUME NEW m \in S PROVE m + 1 \in S
  <2>1. m \in Nat
    OBVIOUS
  <2>2. PICK g : Runs(g, m)
    OBVIOUS
  <2>. DEFINE h == [i \in 0 .. m + 1 |-> IF i = 0 THEN a ELSE Turn(b, g[i - 1])]
  <2>3. \A i \in 0 .. m : h[i] = g[i]
    BY <2>1, <2>2
  <2>4. \A i \in 0 .. m + 1 : i # 0 => i - 1 \in 0 .. m
    BY <2>1
  <2>5. h = [i \in 0 .. m + 1 |-> IF i = 0 THEN a ELSE Turn(b, h[i - 1])]
    BY <2>3, <2>4
  <2>. HIDE DEF h
  <2>6. Runs(h, m + 1) /\ m + 1 \in Nat
    BY <2>1, <2>5
  <2>. QED  BY <2>6
<1>. HIDE DEF S
<1>3. S = Nat
  BY <1>1, <1>2, NumberInduction DEF S
<1>4. PICK g : Runs(g, Len(b))
  BY <1>3 DEF S
<1>5. PICK s : /\ s = [i \in 0 .. Len(b) |-> IF i = 0 THEN a ELSE Turn(b, s[i - 1])]
               /\ Parsed(b) = s[Len(b)]
  BY <1>4, Zenon DEF Parsed, a
<1>6. s[0] = a /\ \A i \in 1 .. Len(b) : s[i] = Turn(b, s[i - 1])
  BY <1>5
<1>. QED  BY <1>5, <1>6 DEF a

\* Once the set-up has told it of padding or time stamps, it does not panic.
Sound(b, s) ==
  /\ s.offset \in Nat /\ s.state \in {"more", "wait", "panic"}
  /\ flags # {} => s.state # "panic" /\ s.offset <= Len(b)

LEMMA LoopIs ==
  ASSUME NEW o, NEW t, NEW f, NEW w
  PROVE  /\ Loop(o, t, f, w).offset = o /\ Loop(o, t, f, w).time = t
         /\ Loop(o, t, f, w).frames = f /\ Loop(o, t, f, w).state = w
BY DEF Loop

LEMMA TurnSound ==
  ASSUME FrameType, NEW b \in Seq(Byte), NEW s, Sound(b, s)
  PROVE  Sound(b, Turn(b, s))
<1>. DEFINE c == SubSeq(b, s.offset + 1, Len(b))  p == ParseAt(c)
<1>1. Len(b) \in Nat /\ s.offset \in Nat
  BY LenProperties DEF Sound
<1>2. \/ Turn(b, s) = s
      \/ \E f, t : Turn(b, s) = Loop(s.offset, t, f, "wait")
      \/ /\ ~ (Len(b) < s.offset + 12)
         /\ \/ \E f, t : Turn(b, s) = Loop(s.offset, t, f, "panic") /\ p.kind = "panic"
            \/ \E f, t : Turn(b, s) = Loop(s.offset + p.n, t, f, "more")
  BY Zenon DEF Turn
<1>3. ASSUME ~ (Len(b) < s.offset + 12)
      PROVE  /\ p.n \in Nat
             /\ flags # {} => p.kind # "panic" /\ s.offset + p.n <= Len(b)
  <2>1. s.offset \in 0 .. Len(b) /\ Len(b) - s.offset >= 12
    BY <1>1, <1>3
  <2>2. c \in Seq(Byte) /\ Len(c) = Len(b) - s.offset
    <3>1. \A i \in s.offset + 1 .. Len(b) : b[i] \in Byte
      BY <1>1, ElementOfSeq
    <3>2. /\ c \in Seq(Byte)
          /\ Len(c) = IF s.offset + 1 <= Len(b) THEN Len(b) - (s.offset + 1) + 1 ELSE 0
      BY <1>1, <3>1, SubSeqProperties
    <3>. HIDE DEF c
    <3>. QED  BY <1>1, <2>1, <3>2
  <2>. HIDE DEF c
  <2>3. p.n \in Nat /\ (flags # {} => p.kind # "panic" /\ p.n <= Len(c))
    BY <1>1, <2>1, <2>2, ParseAtIs
  <2>. HIDE DEF p
  <2>. QED  BY <1>1, <2>2, <2>3
<1>. HIDE DEF p
<1>. QED  BY <1>1, <1>2, <1>3, LoopIs DEF Sound

LEMMA ParsedSound ==
  ASSUME FrameType, NEW b \in Seq(Byte)
  PROVE  Sound(b, Parsed(b))
<1>1. Len(b) \in Nat
  BY LenProperties
<1>2. PICK s : /\ s[0] = Loop(0, last, out, "more")
               /\ \A i \in 1 .. Len(b) : s[i] = Turn(b, s[i - 1])
               /\ Parsed(b) = s[Len(b)]
  BY <1>1, ParsedIs
<1>. DEFINE S == {m \in Nat : m <= Len(b) => Sound(b, s[m])}
<1>3. 0 \in S
  BY <1>1, <1>2, LoopIs DEF Sound
<1>4. ASSUME NEW m \in S PROVE m + 1 \in S
  <2>. SUFFICES ASSUME m + 1 <= Len(b) PROVE Sound(b, s[m + 1])
    OBVIOUS
  <2>1. m + 1 \in 1 .. Len(b) /\ (m + 1) - 1 = m /\ Sound(b, s[m])
    BY <1>1
  <2>2. s[m + 1] = Turn(b, s[m])
    BY <1>2, <2>1
  <2>. QED  BY <2>1, <2>2, TurnSound
<1>. HIDE DEF S
<1>5. S = Nat
  BY <1>3, <1>4, NumberInduction DEF S
<1>. QED  BY <1>1, <1>2, <1>5 DEF S

-----------------------------------------------------------------------------
(* What the adapter sends *)

FrameLen ==
  LET need == IF "ts" \in dev THEN 24 ELSE 20
  IN  IF "pad" \in dev THEN AlignUp(need, Wmax) ELSE need

LEMMA FrameLenIs == FrameLen \in Nat /\ FrameLen >= (IF "ts" \in dev THEN 24 ELSE 20)
<1>. DEFINE need == IF "ts" \in dev THEN 24 ELSE 20
<1>1. need \in Nat
  OBVIOUS
<1>. HIDE DEF need
<1>2. AlignUp(need, Wmax) \in Nat /\ AlignUp(need, Wmax) >= need
  BY <1>1, AlignUpIs, FormatAssumption
<1>3. FrameLen = IF "pad" \in dev THEN AlignUp(need, Wmax) ELSE need
  BY Zenon DEF FrameLen, need
<1>4. FrameLen \in Nat /\ FrameLen >= need
  BY <1>1, <1>2, <1>3
<1>. QED  BY <1>4 DEF need

\* What the bytes of a host frame say.
Carries(b, echo, id, dlc, fill, t) ==
  /\ b \in Seq(Byte) /\ Len(b) = FrameLen
  /\ \A i \in 1 .. 4 : b[i] = echo[i]
  /\ \A i \in 1 .. 4 : b[4 + i] = id[i]
  /\ b[9] = dlc /\ b[10] = 0
  /\ dlc <= 8 => \A i \in 1 .. dlc : b[12 + i] = fill
  /\ "ts" \in dev => b[21] = 0 /\ b[22] = 0 /\ b[23] = 0 /\ b[24] = t % 256

LEMMA HostFrameIs ==
  ASSUME NEW echo \in {Unused, Echo}, NEW id \in Ids, NEW dlc \in Dlcs, NEW fill \in Fills,
         NEW t \in Nat
  PROVE  Carries(HostFrame(echo, id, dlc, fill, t), echo, id, dlc, fill, t)
<1>. DEFINE b == HostFrame(echo, id, dlc, fill, t)
            n == IF dlc <= 8 THEN dlc ELSE 8
            e(i) == CASE i <= 4                -> echo[i]
                      [] i \in 5 .. 8          -> id[i - 4]
                      [] i = 9                 -> dlc
                      [] i \in 13 .. 12 + n    -> fill
                      [] i = 24 /\ "ts" \in dev -> t % 256
                      [] OTHER                 -> 0
<1>1. b = [i \in 1 .. FrameLen |-> e(i)]
  BY Zenon DEF HostFrame, FrameLen
<1>2. /\ FrameLen \in Nat /\ FrameLen >= 20 /\ ("ts" \in dev => FrameLen >= 24)
      /\ n \in 0 .. 8 /\ dlc \in 0 .. 15 /\ fill \in Byte /\ t % 256 \in Byte
      /\ \A i \in 1 .. 4 : id[i] \in Byte /\ echo[i] \in Byte
  <2>1. \A i \in 1 .. 4 : echo[i] \in Byte
    BY DEF Unused, Echo, Byte
  <2>2. \A i \in 1 .. 4 : id[i] \in Byte
    BY FormatAssumption DEF Byte
  <2>3. dlc \in 0 .. 15 /\ fill \in Byte
    BY FormatAssumption DEF Byte
  <2>4. t % 256 \in Byte
    BY DEF Byte
  <2>5. n \in 0 .. 8
    BY <2>3
  <2>. QED  BY <2>1, <2>2, <2>3, <2>4, <2>5, FrameLenIs
<1>. HIDE DEF n, b
<1>3. ASSUME NEW i \in 1 .. FrameLen PROVE e(i) \in Byte
  <2>1. CASE i <= 4
    BY <1>2, <2>1
  <2>2. CASE i \in 5 .. 8
    <3>1. i - 4 \in 1 .. 4 /\ ~ (i <= 4)
      BY <2>2
    <3>. QED  BY <1>2, <2>2, <3>1
  <2>3. CASE i > 8
    BY <1>2, <2>3 DEF Byte
  <2>. QED  BY <1>2, <2>1, <2>2, <2>3
<1>4. \A i \in 1 .. FrameLen : b[i] = e(i)
  BY <1>1
<1>5. b \in Seq(Byte) /\ Len(b) = FrameLen
  <2>. HIDE DEF e
  <2>1. b \in [1 .. FrameLen -> Byte]
    BY <1>1, <1>3
  <2>. QED  BY <1>2, <2>1
<1>6. ASSUME NEW i \in 1 .. 4 PROVE b[i] = echo[i] /\ b[4 + i] = id[i]
  BY <1>2, <1>4
<1>7. b[9] = dlc /\ b[10] = 0
  BY <1>2, <1>4
<1>8. ASSUME dlc <= 8, NEW i \in 1 .. dlc PROVE b[12 + i] = fill
  <2>1. n = dlc /\ 12 + i \in 13 .. 12 + n /\ 12 + i \in 1 .. FrameLen
    BY <1>2, <1>8 DEF n
  <2>. QED  BY <1>2, <1>4, <2>1
<1>9. ASSUME "ts" \in dev PROVE b[21] = 0 /\ b[22] = 0 /\ b[23] = 0 /\ b[24] = t % 256
  <2>1. 21 \in 1 .. FrameLen /\ 22 \in 1 .. FrameLen /\ 23 \in 1 .. FrameLen /\ 24 \in 1 .. FrameLen
    BY <1>2, <1>9
  <2>. QED  BY <1>2, <1>4, <1>9, <2>1
<1>. QED  BY <1>5, <1>6, <1>7, <1>8, <1>9, Zenon DEF Carries, b

\* The packets of a transfer: where each ends.
Upto(s, k) == IF k * Wmax < Len(s) THEN k * Wmax ELSE Len(s)
Count(s)   == (Len(s) + Wmax - 1) \div Wmax

LEMMA PacketsAre ==
  ASSUME NEW s \in Seq(Byte), s # <<>>
  PROVE  /\ Count(s) \in Nat \ {0} /\ Packets(s) \in Seq(Seq(Byte)) /\ Len(Packets(s)) = Count(s)
         /\ Upto(s, 0) = 0 /\ Upto(s, Count(s)) = Len(s)
         /\ \A k \in 1 .. Count(s) :
              /\ Upto(s, k) \in 1 .. Len(s)
              /\ SubSeq(s, 1, Upto(s, k - 1)) \o Packets(s)[k] = SubSeq(s, 1, Upto(s, k))
              /\ k < Count(s) => Upto(s, k) < Len(s)
<1>. DEFINE l == Len(s)  q == Count(s)  r == (l + Wmax - 1) % Wmax
<1>1. l \in Nat \ {0} /\ Wmax \in Nat \ {0}
  BY LenProperties, EmptySeq, FormatAssumption
<1>2. q \in Nat /\ r \in 0 .. Wmax - 1 /\ q * Wmax + r = l + Wmax - 1
  <2>. DEFINE x == l + Wmax - 1
  <2>1. x \in Nat
    BY <1>1
  <2>. HIDE DEF x
  <2>2. x \div Wmax \in Nat /\ x % Wmax \in 0 .. Wmax - 1
    BY <1>1, <2>1
  <2>3. (x \div Wmax) * Wmax + (x % Wmax) = x
    BY <1>1, <2>1, DivMod
  <2>. QED  BY <2>2, <2>3 DEF Count, x
<1>. HIDE DEF q, r, l
<1>3. \A a, c \in Nat : a <= c => a * Wmax <= c * Wmax /\ a * Wmax \in Nat
  BY <1>1
<1>4. q # 0 /\ q * Wmax >= l /\ (q - 1) * Wmax < l
  <2>1. q * Wmax >= l
    BY <1>1, <1>2
  <2>2. (q - 1) * Wmax = q * Wmax - Wmax
    BY <1>1, <1>2
  <2>. QED  BY <1>1, <1>2, <2>1, <2>2
<1>5. ASSUME NEW k \in 0 .. q - 1 PROVE k * Wmax \in Nat /\ k * Wmax < l /\ Upto(s, k) = k * Wmax
  <2>1. k \in Nat /\ q - 1 \in Nat /\ k <= q - 1
    BY <1>2, <1>4
  <2>2. k * Wmax \in Nat /\ k * Wmax <= (q - 1) * Wmax /\ (q - 1) * Wmax \in Nat
    BY <1>3, <2>1
  <2>. HIDE DEF l
  <2>3. k * Wmax < l
    BY <1>1, <1>4, <2>2
  <2>. QED  BY <2>2, <2>3 DEF Upto, l
<1>6. Upto(s, 0) = 0 /\ Upto(s, q) = l
  <2>1. ~ (q * Wmax < l)
    BY <1>1, <1>2, <1>4
  <2>2. 0 * Wmax = 0 /\ 0 < l
    BY <1>1
  <2>. QED  BY <2>1, <2>2 DEF Upto, l
<1>7. ASSUME NEW k \in 1 .. q
      PROVE  /\ k - 1 \in 0 .. q - 1 /\ Upto(s, k) \in 1 .. l /\ Upto(s, k - 1) <= Upto(s, k)
             /\ Packets(s)[k] = SubSeq(s, Upto(s, k - 1) + 1, Upto(s, k))
  <2>1. k - 1 \in 0 .. q - 1 /\ k \in Nat
    BY <1>2
  <2>2. (k - 1) * Wmax \in Nat /\ (k - 1) * Wmax < l /\ Upto(s, k - 1) = (k - 1) * Wmax
    BY <1>5, <2>1
  <2>3. k * Wmax = (k - 1) * Wmax + Wmax
    BY <1>1, <2>1
  <2>4. Upto(s, k) \in 1 .. l /\ Upto(s, k - 1) <= Upto(s, k)
    <3>. DEFINE u == (k - 1) * Wmax  v == k * Wmax
    <3>1. u \in Nat /\ u < l /\ v = u + Wmax /\ Upto(s, k - 1) = u
          /\ Upto(s, k) = IF v < l THEN v ELSE l
      BY <2>2, <2>3 DEF Upto, l
    <3>. HIDE DEF u, v
    <3>. QED  BY <1>1, <3>1
  <2>5. Packets(s)[k] = SubSeq(s, (k - 1) * Wmax + 1, IF k * Wmax < Len(s) THEN k * Wmax ELSE Len(s))
    BY DEF Packets, Count, q
  <2>. QED  BY <2>1, <2>2, <2>4, <2>5 DEF Upto
<1>8. Packets(s) \in Seq(Seq(Byte)) /\ Len(Packets(s)) = q
  <2>1. \A k \in 1 .. q : Packets(s)[k] \in Seq(Byte)
    <3>. SUFFICES ASSUME NEW k \in 1 .. q PROVE Packets(s)[k] \in Seq(Byte)
      OBVIOUS
    <3>. DEFINE m == Upto(s, k - 1) + 1  n == Upto(s, k)
    <3>1. m \in Nat \ {0} /\ n \in 1 .. l /\ Packets(s)[k] = SubSeq(s, m, n)
      BY <1>5, <1>7
    <3>. HIDE DEF m, n
    <3>2. \A i \in m .. n : i \in 1 .. Len(s)
      BY <1>1, <3>1 DEF l
    <3>3. \A i \in m .. n : s[i] \in Byte
      BY <3>2, ElementOfSeq
    <3>4. m \in Int /\ n \in Int
      BY <1>1, <3>1
    <3>. QED  BY <3>1, <3>3, <3>4, SubSeqProperties
  <2>2. Packets(s) = [k \in 1 .. q |-> Packets(s)[k]]
    BY DEF Packets, Count, q
  <2>. QED  BY <1>2, <2>1, <2>2
<1>9. ASSUME NEW k \in 1 .. q
      PROVE  SubSeq(s, 1, Upto(s, k - 1)) \o Packets(s)[k] = SubSeq(s, 1, Upto(s, k))
  <2>. DEFINE m == Upto(s, k - 1)  n == Upto(s, k)
  <2>1. m \in Nat /\ n \in 1 .. l /\ m <= n /\ Packets(s)[k] = SubSeq(s, m + 1, n)
    BY <1>5, <1>7
  <2>. HIDE DEF m, n
  <2>2. 1 \in 1 .. Len(s) + 1 /\ m \in 1 - 1 .. Len(s) /\ n \in m .. Len(s)
    BY <1>1, <2>1 DEF l
  <2>3. SubSeq(s, 1, m) \o SubSeq(s, m + 1, n) = SubSeq(s, 1, n)
    BY <2>2, ConcatAdjacentSubSeq
  <2>. QED  BY <2>1, <2>3 DEF m, n
<1>10. ASSUME NEW k \in 1 .. q, k < q PROVE Upto(s, k) < l
  <2>1. k \in 0 .. q - 1
    BY <1>2, <1>10
  <2>. QED  BY <1>5, <2>1
<1>. QED  BY <1>2, <1>4, <1>6, <1>7, <1>8, <1>9, <1>10 DEF q, l

-----------------------------------------------------------------------------
(* The types hold, and the panic of the parser *)

LEMMA Joined ==
  ASSUME FrameType, usb # <<>>
  PROVE  /\ buf \o Head(usb) \in Seq(Byte) /\ Tail(usb) \in Seq(Seq(Byte))
         /\ Head(usb) \in Seq(Byte)
<1>1. usb \in Seq(Seq(Byte)) /\ buf \in Seq(Byte)
  BY DEF FrameType
<1>2. Head(usb) \in Seq(Byte) /\ Tail(usb) \in Seq(Seq(Byte))
  BY <1>1, HeadTailProperties
<1>. QED  BY <1>1, <1>2, ConcatProperties

LEMMA RestIs ==
  ASSUME NEW b \in Seq(Byte), NEW o \in Nat
  PROVE  SubSeq(b, o + 1, Len(b)) \in Seq(Byte)
<1>1. Len(b) \in Nat /\ o + 1 \in Int /\ Len(b) \in Int
  BY LenProperties
<1>2. \A i \in o + 1 .. Len(b) : i \in 1 .. Len(b)
  BY <1>1
<1>3. \A i \in o + 1 .. Len(b) : b[i] \in Byte
  BY <1>2, ElementOfSeq
<1>. QED  BY <1>1, <1>3, SubSeqProperties

LEMMA EmitType ==
  ASSUME FrameType, NEW echo \in {Unused, Echo}, NEW id \in Ids, NEW dlc \in Dlcs,
         NEW fill \in Fills, NEW t \in Nat
  PROVE  /\ HostFrame(echo, id, dlc, fill, t) \in Seq(Byte)
         /\ HostFrame(echo, id, dlc, fill, t) # <<>>
         /\ usb \o Packets(HostFrame(echo, id, dlc, fill, t)) \in Seq(Seq(Byte))
<1>. DEFINE b == HostFrame(echo, id, dlc, fill, t)
<1>1. Carries(b, echo, id, dlc, fill, t)
  BY HostFrameIs
<1>. HIDE DEF b
<1>4. b \in Seq(Byte) /\ Len(b) = FrameLen
  BY <1>1 DEF Carries
<1>2. b # <<>>
  BY <1>4, FrameLenIs, EmptySeq
<1>3. Packets(b) \in Seq(Seq(Byte)) /\ usb \in Seq(Seq(Byte))
  BY <1>4, <1>2, PacketsAre DEF FrameType
<1>. QED  BY <1>2, <1>3, <1>4, ConcatProperties DEF b

LEMMA InitFrame == Init => FrameType
<1>. SUFFICES ASSUME Init PROVE FrameType
  OBVIOUS
<1>1. <<>> \in Seq(Byte) /\ <<>> \in Seq(Seq(Byte))
  BY EmptySeq
<1>2. \A S \in SUBSET Supports : S \subseteq Flags
  BY FormatAssumption
<1>. QED  BY <1>1, <1>2 DEF Init, FrameType

LEMMA ReceiveFrame ==
  ASSUME FrameType, Receive
  PROVE  FrameType' /\ (dead' # dead => flags = {})
<1>. DEFINE b == buf \o Head(usb)  r == Parsed(b)
<1>1. /\ usb # <<>> /\ ~ dead /\ usb' = Tail(usb)
      /\ dead' = (r.state = "panic" \/ r.offset > Len(b))
      /\ buf' = SubSeq(b, r.offset + 1, Len(b))
      /\ UNCHANGED <<phase, flags, started, dev, now, early, echoes, sent>>
  BY Zenon DEF Receive
<1>2. b \in Seq(Byte) /\ Tail(usb) \in Seq(Seq(Byte))
  BY <1>1, Joined
<1>. HIDE DEF b
<1>3. Sound(b, r)
  BY <1>2, ParsedSound
<1>. HIDE DEF r
<1>4. buf' \in Seq(Byte)
  BY <1>1, <1>2, <1>3, RestIs DEF Sound
<1>5. dead' # dead => flags = {}
  <2>1. Len(b) \in Nat /\ r.offset \in Nat /\ dead = FALSE
    BY <1>1, <1>2, <1>3, LenProperties DEF Sound, FrameType
  <2>2. flags # {} => ~ (r.state = "panic" \/ r.offset > Len(b))
    BY <1>3, <2>1 DEF Sound
  <2>. QED  BY <1>1, <2>1, <2>2
<1>6. dead' \in BOOLEAN
  BY <1>1
<1>. QED  BY <1>1, <1>2, <1>4, <1>5, <1>6 DEF FrameType

LEMMA NextFrame ==
  ASSUME FrameType, [Next]_vars
  PROVE  FrameType' /\ (dead' # dead => flags = {})
<1>1. CASE Receive
  BY <1>1, ReceiveFrame
<1>2. CASE UpdateConfig \/ Reset \/ EnableTimestamp \/ Start
  <2>1. /\ phase' \in {"updated", "reset", "stamped", "started"}
        /\ flags' \subseteq Flags /\ dev' \subseteq Flags /\ started' \in BOOLEAN
        /\ UNCHANGED <<buf, dead, usb, now, early, echoes>>
    BY <1>2, FormatAssumption
       DEF FrameType, UpdateConfig, Reset, EnableTimestamp, Start, loopVars, Flags
  <2>. QED  BY <2>1 DEF FrameType
<1>3. CASE Emit
  <2>1. PICK echo \in {Unused, Echo}, id \in Ids, dlc \in Dlcs, fill \in Fills, j \in Jumps :
          Send(echo, id, dlc, fill, now + j) /\ UNCHANGED <<phase, loopVars, started, dev>>
    BY <1>3 DEF Emit
  <2>5. /\ now' = now + j
        /\ usb' = usb \o Packets(HostFrame(echo, id, dlc, fill, now + j))
    BY <2>1 DEF Send
  <2>4. early' \in {early, early + 1} /\ echoes' \in {echoes, echoes + 1}
    BY <2>1 DEF Send
  <2>2. now + j \in Nat
    BY FormatAssumption DEF FrameType
  <2>3. usb' \in Seq(Seq(Byte))
    BY <2>2, <2>5, EmitType
  <2>. QED  BY <2>1, <2>2, <2>3, <2>4, <2>5 DEF FrameType, loopVars
<1>4. CASE Done \/ UNCHANGED vars
  BY <1>4 DEF Done, vars, loopVars, FrameType
<1>. QED  BY <1>1, <1>2, <1>3, <1>4 DEF Next

LEMMA FrameInvariant == Spec => []FrameType
<1>1. FrameType /\ [Next]_vars => FrameType'
  BY NextFrame
<1>. QED  BY InitFrame, <1>1, PTL DEF Spec

(***************************************************************************)
(* Whatever bytes an earlier session left, and however they are cut: the   *)
(* event loop can panic only before the set-up has told it of padding or   *)
(* time stamps (frames.rs:103-133).                                        *)
(***************************************************************************)
THEOREM PanicOnlyBare == Spec => PanicsOnlyBare
<1>1. FrameType /\ [Next]_vars => [dead' # dead => flags = {}]_vars
  BY NextFrame
<1>. QED  BY <1>1, FrameInvariant, PTL DEF Spec, PanicsOnlyBare

-----------------------------------------------------------------------------
(* The parser on a host frame that arrives in packets *)

\* A host frame of the adapter, its bytes, and what is noted of it.
Emission == [echo : {Unused, Echo}, id : Ids, dlc : Dlcs, fill : Fills, t : Nat]
Bytes(e) == HostFrame(e.echo, e.id, e.dlc, e.fill, e.t)
Recorded(e) ==
  [t |-> e.t, frame |-> CanFrame(e.id, e.dlc, [i \in 1 .. e.dlc |-> e.fill])]

\* The channel is started with time stamps; no frame of the bus says that it has
\* more payload than a frame without FD carries.
Stamping == "ts" \in flags /\ dev = flags
Classic  == MaxData >= 8 /\ \A dlc \in Dlcs : dlc <= 8

LEMMA ClassicLengths ==
  ASSUME NEW dlc \in 0 .. 8
  PROVE  DlcToLen(dlc) = dlc /\ BaseLen(dlc) = 20 /\ ~ (dlc > 15)
<1>1. dlc \in 0 .. 15 /\ dlc <= 8 /\ ~ (dlc > 15)
  OBVIOUS
<1>. QED  BY <1>1, LengthsAre

\* A part of a sequence, by its elements.
LEMMA PartIs ==
  ASSUME NEW b \in Seq(Byte), NEW m \in Nat, NEW k \in Nat, m + k <= Len(b),
         NEW v \in Seq(Byte), Len(v) = k, \A i \in 1 .. k : b[m + i] = v[i]
  PROVE  SubSeq(b, m + 1, m + k) = v
<1>. DEFINE u == SubSeq(b, m + 1, m + k)
<1>1. \A i \in m + 1 .. m + k : i \in 1 .. Len(b)
  BY LenProperties
<1>2. \A i \in m + 1 .. m + k : b[i] \in Byte
  BY <1>1, ElementOfSeq
<1>3. m + 1 \in Int /\ m + k \in Int
  OBVIOUS
<1>4. /\ u \in Seq(Byte) /\ Len(u) = IF m + 1 <= m + k THEN (m + k) - (m + 1) + 1 ELSE 0
      /\ \A i \in 1 .. (m + k) - (m + 1) + 1 : u[i] = b[(m + 1) + i - 1]
  BY <1>2, <1>3, SubSeqProperties
<1>5. /\ (IF m + 1 <= m + k THEN (m + k) - (m + 1) + 1 ELSE 0) = k
      /\ (m + k) - (m + 1) + 1 = k
      /\ \A i \in 1 .. k : (m + 1) + i - 1 = m + i
  OBVIOUS
<1>. HIDE DEF u
<1>6. Len(u) = k /\ \A i \in 1 .. k : u[i] = b[m + i]
  BY <1>4, <1>5
<1>7. \A i \in 1 .. Len(u) : u[i] = v[i]
  BY <1>6
<1>8. u = v
  BY <1>4, <1>6, <1>7, SeqEqual
<1>. QED  BY <1>8 DEF u

LEMMA SomeBytes ==
  ASSUME NEW n \in Nat, NEW f \in [1 .. n -> Byte]
  PROVE  f \in Seq(Byte) /\ Len(f) = n
OBVIOUS

\* The parts of a host frame.
Whole(b, e) ==
  /\ b \in Seq(Byte) /\ b # <<>> /\ Len(b) = FrameLen /\ FrameLen \in Nat /\ FrameLen >= 24
  /\ e.dlc \in 0 .. 8 /\ e.t \in Nat
  /\ b[9] = e.dlc /\ b[10] = 0
  /\ SubSeq(b, 1, 4) = e.echo /\ SubSeq(b, 5, 8) = e.id
  /\ SubSeq(b, 13, 12 + e.dlc) = [i \in 1 .. e.dlc |-> e.fill]
  /\ SubSeq(b, 21, 24) = <<0, 0, 0, e.t % 256>>

LEMMA BytesAre ==
  ASSUME NEW e \in Emission, Stamping, Classic
  PROVE  Whole(Bytes(e), e)
<1>. DEFINE b == Bytes(e)
<1>1. /\ e.echo \in {Unused, Echo} /\ e.id \in Ids /\ e.dlc \in Dlcs /\ e.fill \in Fills
      /\ e.t \in Nat
  BY DEF Emission
<1>2. /\ e.dlc \in 0 .. 8 /\ e.fill \in Byte /\ e.id \in Seq(Byte) /\ Len(e.id) = 4
      /\ e.echo \in Seq(Byte) /\ Len(e.echo) = 4
  <2>1. e.dlc \in 0 .. 15 /\ e.dlc <= 8
    BY <1>1, FormatAssumption DEF Classic
  <2>2. e.fill \in Byte /\ e.id \in [1 .. 4 -> Byte]
    <3>1. \A i \in Ids : i \in [1 .. 4 -> 0 .. 255]
      BY FormatAssumption, Zenon
    <3>2. \A f \in Fills : f \in 0 .. 255
      BY FormatAssumption, Zenon
    <3>. QED  BY <1>1, <3>1, <3>2, Zenon DEF Byte
  <2>4. Unused \in [1 .. 4 -> Byte] /\ Echo \in [1 .. 4 -> Byte]
    BY DEF Unused, Echo, Byte
  <2>5. e.dlc \in 0 .. 8
    BY <2>1
  <2>6. e.echo \in [1 .. 4 -> Byte]
    BY <1>1, <2>4
  <2>7. \A f \in [1 .. 4 -> Byte] : f \in Seq(Byte) /\ Len(f) = 4
    <3>1. 4 \in Nat
      OBVIOUS
    <3>. QED  BY <3>1, SomeBytes, Zenon
  <2>. QED  BY <1>1, <2>2, <2>5, <2>6, <2>7
<1>3. Carries(b, e.echo, e.id, e.dlc, e.fill, e.t)
  BY <1>1, HostFrameIs, Zenon DEF Bytes
<1>4. FrameLen \in Nat /\ FrameLen >= 24 /\ "ts" \in dev
  BY FrameLenIs DEF Stamping
<1>. HIDE DEF b
<1>5. b \in Seq(Byte) /\ Len(b) = FrameLen /\ b # <<>> /\ b[9] = e.dlc /\ b[10] = 0
  BY <1>3, <1>4, EmptySeq DEF Carries
<1>7. SubSeq(b, 1, 4) = e.echo
  <2>1. \A i \in 1 .. 4 : b[0 + i] = e.echo[i]
    BY <1>3 DEF Carries
  <2>2. 0 + 4 <= Len(b) /\ 0 \in Nat /\ 4 \in Nat
    BY <1>4, <1>5
  <2>3. SubSeq(b, 0 + 1, 0 + 4) = e.echo
    BY <1>2, <1>5, <2>1, <2>2, PartIs
  <2>. QED  BY <2>3
<1>8. SubSeq(b, 5, 8) = e.id
  <2>1. \A i \in 1 .. 4 : b[4 + i] = e.id[i]
    BY <1>3 DEF Carries
  <2>2. 4 + 4 <= Len(b) /\ 4 \in Nat
    BY <1>4, <1>5
  <2>3. SubSeq(b, 4 + 1, 4 + 4) = e.id
    BY <1>2, <1>5, <2>1, <2>2, PartIs
  <2>. QED  BY <2>3
<1>9. SubSeq(b, 13, 12 + e.dlc) = [i \in 1 .. e.dlc |-> e.fill]
  <2>. DEFINE k == e.dlc  v == [i \in 1 .. k |-> e.fill]
  <2>1. v \in Seq(Byte) /\ Len(v) = k /\ \A i \in 1 .. k : v[i] = e.fill
    BY <1>2
  <2>. HIDE DEF v
  <2>2. k \in Nat /\ k <= 8
    BY <1>2
  <2>3. \A i \in 1 .. k : b[12 + i] = v[i]
    BY <1>3, <2>1, <2>2 DEF Carries
  <2>. HIDE DEF k
  <2>4. 12 + k <= Len(b) /\ 12 \in Nat
    BY <1>4, <1>5, <2>2
  <2>5. SubSeq(b, 12 + 1, 12 + k) = v
    BY <1>5, <2>1, <2>2, <2>3, <2>4, PartIs
  <2>6. 12 + 1 = 13
    OBVIOUS
  <2>. QED  BY <2>5, <2>6, Zenon DEF k, v
<1>10. SubSeq(b, 21, 24) = <<0, 0, 0, e.t % 256>>
  <2>. DEFINE v == <<0, 0, 0, e.t % 256>>
  <2>1. e.t % 256 \in Byte /\ 0 \in Byte
    BY <1>1 DEF Byte
  <2>2. v \in Seq(Byte) /\ Len(v) = 4
    BY <2>1
  <2>3. v[1] = b[21] /\ v[2] = b[22] /\ v[3] = b[23] /\ v[4] = b[24]
    BY <1>3, <1>4 DEF Carries
  <2>. HIDE DEF v
  <2>4. \A i \in 1 .. 4 : b[20 + i] = v[i]
    BY <2>3
  <2>5. 20 + 4 <= Len(b) /\ 20 \in Nat /\ 4 \in Nat
    BY <1>4, <1>5
  <2>6. SubSeq(b, 20 + 1, 20 + 4) = v
    BY <1>5, <2>2, <2>4, <2>5, PartIs
  <2>. QED  BY <2>6 DEF v
<1>. QED  BY <1>1, <1>2, <1>4, <1>5, <1>7, <1>8, <1>9, <1>10, Zenon DEF Whole, b

\* A frame that is not complete is waited for.
LEMMA WaitsFor ==
  ASSUME FrameType, Stamping, Classic, NEW c \in Seq(Byte), Len(c) >= 12, Len(c) < FrameLen,
         c[9] \in 0 .. 8
  PROVE  ParseAt(c) = Wait
<1>1. /\ DlcToLen(c[9]) = c[9] /\ BaseLen(c[9]) = 20 /\ ~ (c[9] > 15)
  BY ClassicLengths, Zenon
<1>2. FrameLen = IF "pad" \in flags THEN AlignUp(24, Wmax) ELSE 24
  BY DEF FrameLen, Stamping
<1>3. 20 + 4 = 24 /\ flags # {} /\ "ts" \in flags
  BY DEF Stamping
<1>. QED  BY <1>1, <1>2, <1>3, Zenon DEF ParseAt

\* A whole frame is taken at once: skipped if it is an echo.
LEMMA TakesWhole ==
  ASSUME FrameType, Stamping, Classic, NEW e \in Emission
  PROVE  ParseAt(Bytes(e)) = IF e.echo = Unused
                             THEN Accept(FrameLen, Recorded(e).frame, <<0, 0, 0, e.t % 256>>)
                             ELSE Skip(FrameLen)
<1>. DEFINE b == Bytes(e)  d == e.dlc
<1>0. Whole(b, e)
  BY BytesAre
<1>. HIDE DEF b
<1>1. /\ b \in Seq(Byte) /\ Len(b) = FrameLen /\ FrameLen \in Nat /\ FrameLen >= 24
      /\ d \in 0 .. 8 /\ b[9] = d /\ b[10] = 0
      /\ SubSeq(b, 1, 4) = e.echo /\ SubSeq(b, 5, 8) = e.id
      /\ SubSeq(b, 13, 12 + d) = [i \in 1 .. d |-> e.fill]
      /\ SubSeq(b, 21, 24) = <<0, 0, 0, e.t % 256>>
  BY <1>0, Zenon DEF Whole
<1>2. Recorded(e).frame = CanFrame(e.id, d, [i \in 1 .. d |-> e.fill])
  BY DEF Recorded
<1>. HIDE DEF d
<1>3. DlcToLen(d) = d /\ BaseLen(d) = 20 /\ ~ (d > 15)
  BY <1>1, ClassicLengths, Zenon
<1>4. FrameLen = IF "pad" \in flags THEN AlignUp(24, Wmax) ELSE 24
  BY DEF FrameLen, Stamping
<1>5. 20 + 4 = 24 /\ 20 + 1 = 21 /\ "ts" \in flags
  BY DEF Stamping
<1>6. MaxData \in Nat /\ MaxData >= 8
  BY FormatAssumption DEF Classic
<1>7. ~ (Len(b) < FrameLen) /\ ~ (Len(b) < 12 + d) /\ ~ (d > MaxData)
  BY <1>1, <1>6
<1>. DEFINE at == <<0, 0, 0, e.t % 256>>
            len    == DlcToLen(b[9])
            base   == BaseLen(len)
            need   == IF "ts" \in flags THEN base + 4 ELSE base
            padded == IF "pad" \in flags THEN AlignUp(need, Wmax) ELSE need
<1>8. len = d /\ base = 20 /\ need = 24 /\ padded = FrameLen
  BY <1>1, <1>3, <1>4, <1>5, Zenon
<1>9. ParseAt(b) = IF b[9] > 15 THEN Skip(1)
                   ELSE IF Len(b) < padded /\ (flags # {} \/ len = 0) THEN Wait
                   ELSE Body(b, len, padded,
                     IF "ts" \in flags THEN SubSeq(b, base + 1, base + 4) ELSE None)
  BY Zenon DEF ParseAt
<1>. HIDE DEF len, base, need, padded
<1>10. ParseAt(b) = Body(b, d, FrameLen, at)
  BY <1>1, <1>3, <1>5, <1>7, <1>8, <1>9, Zenon
<1>11. CanFrame(SubSeq(b, 5, 8), b[9], SubSeq(b, 13, 12 + d)) = Recorded(e).frame
  BY <1>1, <1>2, Zenon
<1>. HIDE DEF at
<1>12. Body(b, d, FrameLen, at) = IF e.echo = Unused
        THEN Accept(FrameLen, Recorded(e).frame, at) ELSE Skip(FrameLen)
  BY <1>1, <1>7, <1>11, Zenon DEF Body
<1>. QED  BY <1>10, <1>12 DEF at, b

\* The loop of process_rx_chunk keeps the state it ends in.
LEMMA Settles ==
  ASSUME NEW b, Len(b) \in Nat, NEW s, \A i \in 1 .. Len(b) : s[i] = Turn(b, s[i - 1]),
         NEW k \in 0 .. Len(b), s[k].state # "more"
  PROVE  s[Len(b)] = s[k]
<1>. DEFINE S == {m \in Nat : k + m <= Len(b) => s[k + m] = s[k]}
<1>1. 0 \in S
  <2>1. k + 0 = k
    OBVIOUS
  <2>. QED  BY <2>1
<1>2. ASSUME NEW m \in S PROVE m + 1 \in S
  <2>. SUFFICES ASSUME k + (m + 1) <= Len(b) PROVE s[k + (m + 1)] = s[k]
    OBVIOUS
  <2>1. k + (m + 1) \in 1 .. Len(b) /\ (k + (m + 1)) - 1 = k + m /\ k + m <= Len(b)
    OBVIOUS
  <2>2. s[k + (m + 1)] = Turn(b, s[k + m]) /\ s[k + m] = s[k]
    BY <2>1
  <2>. QED  BY <2>2, Zenon DEF Turn
<1>. HIDE DEF S
<1>3. S = Nat
  <2>1. S \subseteq Nat
    BY DEF S
  <2>. QED  BY <1>1, <1>2, <2>1, NumberInduction
<1>4. Len(b) - k \in Nat /\ k + (Len(b) - k) = Len(b) /\ k + (Len(b) - k) <= Len(b)
  OBVIOUS
<1>. QED  BY <1>3, <1>4 DEF S

\* A turn at the start of a buffer.
LEMMA FirstTurn ==
  ASSUME NEW b \in Seq(Byte), NEW t, NEW f
  PROVE  /\ Len(b) < 12 \/ ParseAt(b) = Wait =>
              Turn(b, Loop(0, t, f, "more")) = Loop(0, t, f, "wait")
         /\ \A n : ~ (Len(b) < 12) /\ ParseAt(b) = Skip(n) =>
              Turn(b, Loop(0, t, f, "more")) = Loop(0 + n, t, f, "more")
         /\ \A n, x, at : ~ (Len(b) < 12) /\ ParseAt(b) = Accept(n, x, at) /\ at # None =>
              Turn(b, Loop(0, t, f, "more")) =
                Loop(0 + n, Stamp64(at, t),
                     Append(f, [frame |-> x, at |-> Stamp64(at, t)]), "more")
<1>1. SubSeq(b, 0 + 1, Len(b)) = b /\ 0 + 12 = 12
  <2>1. 0 + 1 = 1
    OBVIOUS
  <2>2. SubSeq(b, 1, Len(b)) = b
    OBVIOUS
  <2>. QED  BY <2>1, <2>2
<1>. DEFINE s == Loop(0, t, f, "more")
<1>2. s.offset = 0 /\ s.time = t /\ s.frames = f /\ s.state = "more"
  BY LoopIs
<1>. HIDE DEF s
<1>3. Wait.kind = "wait"
  BY DEF Wait
<1>4. Len(b) < 12 \/ ParseAt(b) = Wait => Turn(b, s) = Loop(0, t, f, "wait")
  BY <1>1, <1>2, <1>3, Zenon DEF Turn
<1>5. ASSUME NEW n, ~ (Len(b) < 12), ParseAt(b) = Skip(n)
      PROVE  Turn(b, s) = Loop(0 + n, t, f, "more")
  <2>1. Skip(n).kind = "skip" /\ Skip(n).n = n /\ "skip" # "wait" /\ "skip" # "panic"
    BY DEF Skip
  <2>. QED  BY <1>1, <1>2, <1>5, <2>1, Zenon DEF Turn
<1>6. ASSUME NEW n, NEW x, NEW at, ~ (Len(b) < 12), ParseAt(b) = Accept(n, x, at), at # None
      PROVE  Turn(b, s) = Loop(0 + n, Stamp64(at, t),
                               Append(f, [frame |-> x, at |-> Stamp64(at, t)]), "more")
  <2>. DEFINE a == Accept(n, x, at)
  <2>1. /\ a.kind = "frame" /\ a.n = n /\ a.frame = x /\ a.at = at
        /\ "frame" # "wait" /\ "frame" # "panic" /\ "frame" # "skip"
    BY DEF Accept
  <2>. HIDE DEF a
  <2>2. ParseAt(SubSeq(b, s.offset + 1, Len(b))) = a
    BY <1>1, <1>2, <1>6, Zenon DEF a
  <2>. QED  BY <1>1, <1>2, <1>6, <2>1, <2>2, Zenon DEF Turn
<1>. QED  BY <1>4, <1>5, <1>6, Zenon DEF s

\* What the loop makes of the first u bytes of a host frame.
Stamp(e) == Stamp64(<<0, 0, 0, e.t % 256>>, last)

Handles(e, u, r) ==
  /\ r.state = "wait"
  /\ u < FrameLen => r.offset = 0 /\ r.time = last /\ r.frames = out
  /\ u = FrameLen =>
       /\ r.offset = FrameLen
       /\ e.echo # Unused => r.time = last /\ r.frames = out
       /\ e.echo = Unused =>
            /\ r.time = Stamp(e)
            /\ r.frames = Append(out, [frame |-> Recorded(e).frame, at |-> Stamp(e)])

LEMMA Handled ==
  ASSUME FrameType, Stamping, Classic, NEW e \in Emission, NEW u \in 1 .. FrameLen
  PROVE  Handles(e, u, Parsed(SubSeq(Bytes(e), 1, u)))
<1>. DEFINE w == Bytes(e)  b == SubSeq(w, 1, u)  s0 == Loop(0, last, out, "more")
            at == <<0, 0, 0, e.t % 256>>
<1>1. Whole(w, e)
  BY BytesAre
<1>2. w \in Seq(Byte) /\ Len(w) = FrameLen /\ FrameLen \in Nat /\ FrameLen >= 24
      /\ w[9] = e.dlc /\ e.dlc \in 0 .. 8
  BY <1>1, Zenon DEF Whole
<1>3. ParseAt(w) = IF e.echo = Unused THEN Accept(FrameLen, Recorded(e).frame, at)
                   ELSE Skip(FrameLen)
  BY TakesWhole
<1>. HIDE DEF w
<1>4. /\ b \in Seq(Byte) /\ Len(b) = u /\ u \in Nat /\ 1 \in 1 .. u
      /\ \A i \in 1 .. u : b[i] = w[i]
  <2>1. u \in 1 .. Len(w) /\ u \in Nat /\ 1 \in 1 .. u
    BY <1>2
  <2>. QED  BY <1>2, <2>1, CutSeq
<1>. HIDE DEF b
<1>5. PICK s : /\ s[0] = s0
               /\ \A i \in 1 .. Len(b) : s[i] = Turn(b, s[i - 1])
               /\ Parsed(b) = s[Len(b)]
  BY <1>4, ParsedIs
<1>6. s[1] = Turn(b, s0)
  <2>1. 1 - 1 = 0
    OBVIOUS
  <2>. QED  BY <1>4, <1>5, <2>1
<1>7. CASE u < FrameLen
  <2>1. Len(b) < 12 \/ ParseAt(b) = Wait
    <3>. SUFFICES ASSUME ~ (Len(b) < 12) PROVE ParseAt(b) = Wait
      OBVIOUS
    <3>1. Len(b) >= 12 /\ 9 \in 1 .. u
      BY <1>4
    <3>2. b[9] \in 0 .. 8 /\ Len(b) < FrameLen
      BY <1>2, <1>4, <1>7, <3>1
    <3>. QED  BY <1>4, <3>1, <3>2, WaitsFor
  <2>2. s[1] = Loop(0, last, out, "wait")
    BY <1>4, <1>6, <2>1, FirstTurn
  <2>3. s[1].state # "more"
    BY <2>2, LoopIs
  <2>4. Parsed(b) = Loop(0, last, out, "wait")
    <3>1. Len(b) \in Nat /\ 1 \in 0 .. Len(b)
      BY <1>4
    <3>2. s[Len(b)] = s[1]
      BY <1>5, <2>3, <3>1, Settles
    <3>. QED  BY <1>5, <2>2, <3>2
  <2>5. u # FrameLen
    BY <1>2, <1>4, <1>7
  <2>. QED  BY <2>4, <2>5, LoopIs DEF Handles, b, w
<1>8. CASE u = FrameLen
  <2>1. b = w
    <3>1. SubSeq(w, 1, Len(w)) = w
      BY <1>2
    <3>. QED  BY <1>2, <1>8, <3>1 DEF b
  <2>. DEFINE seen == e.echo = Unused
              t == IF seen THEN Stamp(e) ELSE last
              f == IF seen THEN Append(out, [frame |-> Recorded(e).frame, at |-> Stamp(e)])
                   ELSE out
  <2>2. ~ (Len(b) < 12) /\ 0 + FrameLen = FrameLen
    BY <1>2, <2>1
  <2>3. Stamp(e) = Stamp64(at, last) /\ at # None
    BY DEF Stamp, None
  <2>. HIDE DEF at
  <2>10. /\ \A n : ~ (Len(b) < 12) /\ ParseAt(b) = Skip(n) =>
               Turn(b, s0) = Loop(0 + n, last, out, "more")
         /\ \A n, x, a : ~ (Len(b) < 12) /\ ParseAt(b) = Accept(n, x, a) /\ a # None =>
               Turn(b, s0) = Loop(0 + n, Stamp64(a, last),
                 Append(out, [frame |-> x, at |-> Stamp64(a, last)]), "more")
    BY <1>4, FirstTurn
  <2>4. s[1] = Loop(FrameLen, t, f, "more")
    <3>1. CASE e.echo = Unused
      <4>1. ParseAt(b) = Accept(FrameLen, Recorded(e).frame, at)
        BY <1>3, <2>1, <3>1
      <4>2. Turn(b, s0) = Loop(0 + FrameLen, Stamp64(at, last),
              Append(out, [frame |-> Recorded(e).frame, at |-> Stamp64(at, last)]), "more")
        BY <2>2, <2>3, <2>10, <4>1, Zenon
      <4>. QED  BY <1>6, <2>2, <2>3, <3>1, <4>2, Zenon
    <3>2. CASE e.echo # Unused
      <4>1. ParseAt(b) = Skip(FrameLen)
        BY <1>3, <2>1, <3>2
      <4>2. Turn(b, s0) = Loop(0 + FrameLen, last, out, "more")
        BY <2>2, <2>10, <4>1, Zenon
      <4>. QED  BY <1>6, <2>2, <3>2, <4>2, Zenon
    <3>. QED  BY <3>1, <3>2
  <2>. HIDE DEF t, f
  <2>5. s[2] = Loop(FrameLen, t, f, "wait")
    <3>1. 2 \in 1 .. Len(b) /\ 2 - 1 = 1 /\ Len(b) < FrameLen + 12
      BY <1>2, <1>4, <2>1
    <3>2. s[2] = Turn(b, s[1])
      BY <1>5, <3>1
    <3>3. s[1].offset = FrameLen /\ s[1].time = t /\ s[1].frames = f /\ s[1].state = "more"
      BY <2>4, LoopIs
    <3>. QED  BY <3>1, <3>2, <3>3, Zenon DEF Turn
  <2>6. Parsed(b) = Loop(FrameLen, t, f, "wait")
    <3>1. Len(b) \in Nat /\ 2 \in 0 .. Len(b) /\ s[2].state # "more"
      BY <1>2, <1>4, <2>1, <2>5, LoopIs
    <3>2. s[Len(b)] = s[2]
      BY <1>5, <3>1, Settles
    <3>. QED  BY <1>5, <2>5, <3>2
  <2>7. ~ (u < FrameLen)
    BY <1>2, <1>8
  <2>. DEFINE r == Parsed(b)
  <2>8. r.state = "wait" /\ r.offset = FrameLen /\ r.time = t /\ r.frames = f
    BY <2>6, LoopIs
  <2>. HIDE DEF r
  <2>9. Handles(e, u, r)
    BY <1>8, <2>7, <2>8, Zenon DEF Handles, t, f
  <2>. QED  BY <2>9 DEF r, b, w
<1>9. u < FrameLen \/ u = FrameLen
  BY <1>2, <1>4
<1>. QED  BY <1>7, <1>8, <1>9, Zenon

-----------------------------------------------------------------------------
(* The frames handed on, and their times *)

Frames == {Recorded(e).frame : e \in Emission}
Heard  == {Recorded(e) : e \in Emission}

\* The 64-bit time with high half h whose low half is x units.
At(h, x) == <<h, <<0, 0, 0, x>>>>
Ats      == {At(h, x) : h \in Nat, x \in Byte}
Time(a)  == a[1] * 256 + a[2][4]
Handed   == [frame : Frames, at : Ats]

Spaced(a, b, gap) == Time(a) <= Time(b) /\ Time(b) - Time(a) = gap % 256

\* What is handed on is a prefix of what was heard, and each time continues the
\* one before.
Law ==
  /\ sent \in Seq(Heard) /\ out \in Seq(Handed) /\ Len(out) <= Len(sent) /\ now \in Nat
  /\ \A i \in 1 .. Len(out) :
       out[i].frame = sent[i].frame /\ \E h \in Nat : out[i].at = At(h, sent[i].t % 256)
  /\ \A i \in 1 .. Len(sent) : sent[i].t \in Nat /\ sent[i].t <= now
  /\ \A i \in 1 .. Len(sent) - 1 : sent[i].t <= sent[i + 1].t
  /\ last = IF out = <<>> THEN None ELSE out[Len(out)].at
  /\ \A i \in 1 .. Len(out) - 1 :
       Spaced(out[i].at, out[i + 1].at, sent[i + 1].t - sent[i].t)

LEMMA LowByte == \A n \in Nat : n % 256 \in Byte
BY DEF Byte

LEMMA AtIs ==
  ASSUME NEW h \in Nat, NEW x \in Byte
  PROVE  /\ At(h, x)[1] = h /\ At(h, x)[2] = <<0, 0, 0, x>> /\ At(h, x)[2][4] = x
         /\ At(h, x) # None /\ At(h, x) \in Ats /\ Time(At(h, x)) = h * 256 + x
<1>1. /\ At(h, x)[1] = h /\ At(h, x)[2] = <<0, 0, 0, x>> /\ At(h, x)[2][4] = x
      /\ At(h, x) # None
  BY DEF At, None
<1>2. At(h, x) \in Ats
  BY DEF Ats
<1>. QED  BY <1>1, <1>2 DEF Time

LEMMA LessIs ==
  ASSUME NEW x \in Byte, NEW y \in Byte
  PROVE  Less32(<<0, 0, 0, y>>, <<0, 0, 0, x>>) <=> y < x
<1>. DEFINE a == <<0, 0, 0, y>>  b == <<0, 0, 0, x>>
<1>1. /\ a[1] = 0 /\ a[2] = 0 /\ a[3] = 0 /\ a[4] = y
      /\ b[1] = 0 /\ b[2] = 0 /\ b[3] = 0 /\ b[4] = x /\ ~ (0 < 0)
  OBVIOUS
<1>. HIDE DEF a, b
<1>2. \A i \in 1 .. 4 : i = 1 \/ i = 2 \/ i = 3 \/ i = 4
  OBVIOUS
<1>3. \A i \in 1 .. 4 : a[i] < b[i] => i = 4
  BY <1>1, <1>2
<1>4. 4 \in 1 .. 4 /\ (4 + 1) .. 4 = {}
  OBVIOUS
<1>5. Less32(a, b) => y < x
  BY <1>1, <1>3, Zenon DEF Less32
<1>6. y < x => Less32(a, b)
  BY <1>1, <1>4, Zenon DEF Less32
<1>. QED  BY <1>5, <1>6 DEF a, b

LEMMA StampIs ==
  ASSUME NEW y \in Byte
  PROVE  /\ Stamp64(<<0, 0, 0, y>>, None) = At(0, y)
         /\ \A h \in Nat, x \in Byte :
              Stamp64(<<0, 0, 0, y>>, At(h, x)) = At(IF y < x THEN h + 1 ELSE h, y)
<1>. DEFINE v == <<0, 0, 0, y>>
<1>1. v # None
  BY DEF None
<1>2. At(0, y) = <<0, v>>
  BY DEF At
<1>3. Stamp64(v, None) = At(0, y)
  BY <1>1, <1>2, Zenon DEF Stamp64
<1>4. ASSUME NEW h \in Nat, NEW x \in Byte
      PROVE  Stamp64(v, At(h, x)) = At(IF y < x THEN h + 1 ELSE h, y)
  <2>1. At(h, x) # None /\ At(h, x)[1] = h /\ At(h, x)[2] = <<0, 0, 0, x>>
    BY AtIs
  <2>2. Less32(v, <<0, 0, 0, x>>) <=> y < x
    BY LessIs
  <2>. HIDE DEF v
  <2>3. Stamp64(v, At(h, x)) = <<IF y < x THEN h + 1 ELSE h, v>>
    BY <1>1, <2>1, <2>2, Zenon DEF Stamp64
  <2>. QED  BY <2>3 DEF At, v
<1>. QED  BY <1>3, <1>4

\* The high half advances exactly when the counter has wrapped.
LEMMA Advance ==
  ASSUME NEW h \in Nat, NEW t \in Nat, NEW u \in Nat, t <= u
  PROVE  Spaced(At(h, t % 256), At(IF u % 256 < t % 256 THEN h + 1 ELSE h, u % 256), u - t)
<1>. DEFINE x == t % 256  y == u % 256  k == IF y < x THEN h + 1 ELSE h
<1>1. x \in Byte /\ y \in Byte /\ k \in Nat
  BY DEF Byte
<1>2. Time(At(h, x)) = h * 256 + x /\ Time(At(k, y)) = k * 256 + y
  <2>. HIDE DEF x, y, k
  <2>1. \A i \in Nat, z \in Byte : Time(At(i, z)) = i * 256 + z
    BY AtIs
  <2>. QED  BY <1>1, <2>1, Zenon
<1>3. (k * 256 + y) - (h * 256 + x) = IF y < x THEN 256 + y - x ELSE y - x
  <2>. HIDE DEF x, y
  <2>. QED  BY <1>1 DEF Byte
<1>4. (u - t) % 256 = IF y < x THEN 256 + y - x ELSE y - x
  OBVIOUS
<1>5. h * 256 + x <= k * 256 + y
  <2>. HIDE DEF x, y
  <2>. QED  BY <1>1 DEF Byte
<1>. QED  BY <1>2, <1>3, <1>4, <1>5 DEF Spaced

LEMMA RecordedIs ==
  ASSUME NEW e \in Emission
  PROVE  /\ Recorded(e) \in Heard /\ Recorded(e).frame \in Frames
         /\ Recorded(e).t = e.t /\ e.t \in Nat
BY DEF Recorded, Heard, Frames, Emission

\* A frame is handed on.
LEMMA HandOn ==
  ASSUME Law, NEW e \in Emission, Len(out) < Len(sent), sent[Len(out) + 1] = Recorded(e),
         out' = Append(out, [frame |-> Recorded(e).frame, at |-> Stamp(e)]),
         last' = Stamp(e), UNCHANGED <<sent, now>>
  PROVE  Law'
<1>. DEFINE k == Len(out)  y == e.t % 256  x == [frame |-> Recorded(e).frame, at |-> Stamp(e)]
<1>1. k \in Nat /\ Len(sent) \in Nat /\ k + 1 \in 1 .. Len(sent) /\ k + 1 <= Len(sent)
  BY LenProperties DEF Law
<1>2. Recorded(e).frame \in Frames /\ sent[k + 1].t = e.t /\ e.t \in Nat /\ y \in Byte
  BY RecordedIs, LowByte
<1>3. ASSUME k # 0
      PROVE  \E h \in Nat : /\ out[k].at = At(h, sent[k].t % 256) /\ last = out[k].at
                            /\ sent[k].t \in Nat /\ sent[k].t <= e.t
                            /\ Stamp(e) = At(IF y < sent[k].t % 256 THEN h + 1 ELSE h, y)
  <2>1. k \in 1 .. Len(out) /\ k \in 1 .. Len(sent) /\ k \in 1 .. Len(sent) - 1 /\ out # <<>>
    BY <1>1, <1>3, EmptySeq
  <2>2. PICK h \in Nat : out[k].at = At(h, sent[k].t % 256)
    BY <2>1 DEF Law
  <2>3. last = out[k].at /\ sent[k].t \in Nat /\ sent[k].t <= sent[k + 1].t
    BY <2>1 DEF Law
  <2>4. sent[k].t % 256 \in Byte
    BY <2>3, LowByte
  <2>5. Stamp(e) = At(IF y < sent[k].t % 256 THEN h + 1 ELSE h, y)
    <3>. HIDE DEF y
    <3>1. Stamp(e) = Stamp64(<<0, 0, 0, y>>, At(h, sent[k].t % 256))
      BY <2>2, <2>3, Zenon DEF Stamp, y
    <3>. QED  BY <1>2, <2>4, <3>1, StampIs
  <2>. QED  BY <1>2, <2>2, <2>3, <2>5
<1>4. ASSUME k = 0 PROVE Stamp(e) = At(0, y)
  <2>1. out = <<>>
    BY <1>4, EmptySeq DEF Law
  <2>2. last = None
    BY <2>1 DEF Law
  <2>. QED  BY <1>2, <2>2, StampIs DEF Stamp
<1>5. \E h \in Nat : Stamp(e) = At(h, y)
  <2>1. CASE k = 0
    BY <1>4, <2>1
  <2>2. CASE k # 0
    <3>1. PICK h \in Nat : Stamp(e) = At(IF y < sent[k].t % 256 THEN h + 1 ELSE h, y)
      BY <1>3, <2>2
    <3>2. (IF y < sent[k].t % 256 THEN h + 1 ELSE h) \in Nat
      OBVIOUS
    <3>. QED  BY <3>1, <3>2, Zenon
  <2>. QED  BY <2>1, <2>2
<1>6. Stamp(e) \in Ats /\ x \in Handed
  <2>. HIDE DEF y
  <2>1. Stamp(e) \in Ats
    BY <1>2, <1>5, AtIs
  <2>. QED  BY <1>2, <2>1 DEF Handed
<1>7. x.frame = Recorded(e).frame /\ x.at = Stamp(e)
  OBVIOUS
<1>. HIDE DEF x
<1>8. /\ out' \in Seq(Handed) /\ Len(out') = k + 1 /\ out'[k + 1] = x
      /\ \A i \in 1 .. k : out'[i] = out[i]
  BY <1>1, <1>6, AppendProperties DEF Law, x
<1>. HIDE DEF k, y
<1>9. \A i \in 1 .. k + 1 : i \in 1 .. k \/ i = k + 1
  BY <1>1
<1>10. ASSUME NEW i \in 1 .. k + 1
       PROVE  out'[i].frame = sent[i].frame /\ \E h \in Nat : out'[i].at = At(h, sent[i].t % 256)
  <2>1. CASE i \in 1 .. k
    BY <1>8, <2>1 DEF Law, k
  <2>2. CASE i = k + 1
    <3>1. out'[i].frame = Recorded(e).frame /\ out'[i].at = Stamp(e)
      BY <1>7, <1>8, <2>2
    <3>2. sent[i] = Recorded(e)
      BY <2>2 DEF k
    <3>. QED  BY <1>2, <1>5, <2>2, <3>1, <3>2, Zenon DEF y
  <2>. QED  BY <1>9, <2>1, <2>2
<1>11. ASSUME NEW i \in 1 .. (k + 1) - 1
       PROVE  Spaced(out'[i].at, out'[i + 1].at, sent[i + 1].t - sent[i].t)
  <2>1. i \in 1 .. k /\ (i = k \/ i \in 1 .. k - 1) /\ k # 0
    BY <1>1
  <2>2. CASE i \in 1 .. k - 1
    <3>1. i + 1 \in 1 .. k
      BY <1>1, <2>2
    <3>2. Spaced(out[i].at, out[i + 1].at, sent[i + 1].t - sent[i].t)
      BY <2>2, Zenon DEF Law, k
    <3>. QED  BY <1>8, <2>1, <3>1, <3>2, Zenon
  <2>3. CASE i = k
    <3>1. PICK h \in Nat : /\ out[k].at = At(h, sent[k].t % 256)
                           /\ sent[k].t \in Nat /\ sent[k].t <= e.t
                           /\ Stamp(e) = At(IF y < sent[k].t % 256 THEN h + 1 ELSE h, y)
      BY <1>3, <2>1
    <3>2. Spaced(At(h, sent[k].t % 256),
                 At(IF e.t % 256 < sent[k].t % 256 THEN h + 1 ELSE h, e.t % 256), e.t - sent[k].t)
      <4>. DEFINE a == sent[k].t  c == e.t
      <4>1. a \in Nat /\ c \in Nat /\ a <= c
        BY <1>2, <3>1
      <4>. HIDE DEF a, c
      <4>2. Spaced(At(h, a % 256), At(IF c % 256 < a % 256 THEN h + 1 ELSE h, c % 256), c - a)
        BY <4>1, Advance
      <4>. QED  BY <4>2 DEF a, c
    <3>3. out'[k].at = out[k].at /\ out'[k + 1].at = Stamp(e) /\ sent[k + 1].t = e.t
      BY <1>2, <1>7, <1>8, <2>1, <2>3, Zenon
    <3>. QED  BY <2>3, <3>1, <3>2, <3>3, Zenon DEF y
  <2>. QED  BY <2>1, <2>2, <2>3
<1>12. last' = IF out' = <<>> THEN None ELSE out'[Len(out')].at
  <2>1. out' # <<>>
    BY <1>1, <1>8, EmptySeq
  <2>. QED  BY <1>7, <1>8, <2>1, Zenon
<1>13. Len(out') <= Len(sent') /\ sent' \in Seq(Heard) /\ now' \in Nat
  BY <1>1, <1>8 DEF Law
<1>14. /\ \A i \in 1 .. Len(sent') : sent'[i].t \in Nat /\ sent'[i].t <= now'
       /\ \A i \in 1 .. Len(sent') - 1 : sent'[i].t <= sent'[i + 1].t
  BY Zenon DEF Law
<1>15. sent' = sent /\ Len(out') = k + 1
  BY <1>8
<1>16. \A i \in 1 .. Len(out') :
         out'[i].frame = sent'[i].frame /\ \E h \in Nat : out'[i].at = At(h, sent'[i].t % 256)
  <2>. SUFFICES ASSUME NEW i \in 1 .. Len(out')
                PROVE  /\ out'[i].frame = sent'[i].frame
                       /\ \E h \in Nat : out'[i].at = At(h, sent'[i].t % 256)
    OBVIOUS
  <2>1. i \in 1 .. k + 1 /\ sent'[i] = sent[i]
    BY <1>15
  <2>2. out'[i].frame = sent[i].frame /\ \E h \in Nat : out'[i].at = At(h, sent[i].t % 256)
    BY <1>10, <2>1
  <2>. QED  BY <2>1, <2>2
<1>17. \A i \in 1 .. Len(out') - 1 :
         Spaced(out'[i].at, out'[i + 1].at, sent'[i + 1].t - sent'[i].t)
  BY <1>11, <1>15, Zenon
<1>. QED  BY <1>8, <1>12, <1>13, <1>14, <1>16, <1>17, Zenon DEF Law

\* Time passes, and a frame of the bus may be heard.
LEMMA Hear ==
  ASSUME Law, NEW e \in Emission, now <= e.t, now' = e.t,
         sent' = IF e.echo = Unused THEN Append(sent, Recorded(e)) ELSE sent,
         UNCHANGED <<out, last>>
  PROVE  Law'
<1>. DEFINE n == Len(sent)
<1>1. n \in Nat /\ Len(out) \in Nat /\ Len(out) <= n /\ now \in Nat
  BY LenProperties DEF Law
<1>2. Recorded(e) \in Heard /\ Recorded(e).t = e.t /\ e.t \in Nat
  BY RecordedIs
<1>3. /\ sent' \in Seq(Heard) /\ Len(sent') \in {n, n + 1}
      /\ Len(sent') = n + 1 => sent'[n + 1] = Recorded(e)
      /\ \A i \in 1 .. n : sent'[i] = sent[i]
  <2>1. CASE e.echo = Unused
    BY <1>1, <1>2, <2>1, AppendProperties DEF Law
  <2>2. CASE e.echo # Unused
    BY <1>1, <2>2 DEF Law
  <2>. QED  BY <2>1, <2>2
<1>. HIDE DEF n
<1>4. Len(sent') \in Nat /\ Len(out) <= Len(sent')
  BY <1>1, <1>3
<1>5. ASSUME NEW i \in 1 .. Len(sent')
      PROVE  sent'[i].t \in Nat /\ sent'[i].t <= e.t /\ (i \in 1 .. n \/ sent'[i].t = e.t)
  <2>1. CASE i \in 1 .. n
    <3>1. sent[i].t \in Nat /\ sent[i].t <= now
      BY <2>1 DEF Law, n
    <3>. DEFINE a == sent[i].t  c == e.t
    <3>2. a \in Nat /\ a <= now /\ c \in Nat /\ now <= c
      BY <1>2, <3>1
    <3>. HIDE DEF a, c
    <3>3. a <= c
      BY <1>1, <3>2
    <3>. QED  BY <1>3, <2>1, <3>1, <3>3 DEF a, c
  <2>2. CASE ~ (i \in 1 .. n)
    <3>1. i = n + 1 /\ Len(sent') = n + 1
      BY <1>1, <1>3, <2>2
    <3>2. sent'[i].t = e.t
      BY <1>2, <1>3, <3>1
    <3>3. e.t <= e.t
      BY <1>2
    <3>. QED  BY <1>2, <3>2, <3>3
  <2>. QED  BY <2>1, <2>2
<1>6. ASSUME NEW i \in 1 .. Len(sent') - 1 PROVE sent'[i].t <= sent'[i + 1].t
  <2>1. i \in 1 .. n /\ i + 1 \in 1 .. Len(sent') /\ i \in 1 .. Len(sent')
        /\ (i + 1 \in 1 .. n => i \in 1 .. n - 1)
    BY <1>1, <1>3
  <2>2. CASE i + 1 \in 1 .. n
    <3>1. sent[i].t <= sent[i + 1].t
      BY <2>1, <2>2 DEF Law, n
    <3>. QED  BY <1>3, <2>1, <2>2, <3>1
  <2>3. CASE ~ (i + 1 \in 1 .. n)
    <3>1. sent'[i + 1].t = e.t /\ sent'[i].t <= e.t
      BY <1>5, <2>1, <2>3
    <3>. QED  BY <3>1
  <2>. QED  BY <2>2, <2>3
<1>7. ASSUME NEW i \in 1 .. Len(out')
      PROVE  /\ out'[i].frame = sent'[i].frame
             /\ \E h \in Nat : out'[i].at = At(h, sent'[i].t % 256)
  <2>1. i \in 1 .. Len(out) /\ i \in 1 .. n /\ out' = out
    BY <1>1
  <2>2. sent'[i] = sent[i]
    BY <1>3, <2>1
  <2>. QED  BY <2>1, <2>2 DEF Law
<1>8. ASSUME NEW i \in 1 .. Len(out') - 1
      PROVE  Spaced(out'[i].at, out'[i + 1].at, sent'[i + 1].t - sent'[i].t)
  <2>1. i \in 1 .. Len(out) - 1 /\ i \in 1 .. n /\ i + 1 \in 1 .. n /\ out' = out
    BY <1>1
  <2>2. sent'[i] = sent[i] /\ sent'[i + 1] = sent[i + 1]
    BY <1>3, <2>1
  <2>3. Spaced(out[i].at, out[i + 1].at, sent[i + 1].t - sent[i].t)
    BY <2>1, Zenon DEF Law
  <2>. QED  BY <2>1, <2>2, <2>3, Zenon
<1>9. last' = (IF out' = <<>> THEN None ELSE out'[Len(out')].at) /\ out' \in Seq(Handed)
  BY DEF Law
<1>10. Len(out') <= Len(sent') /\ now' \in Nat /\ now' = e.t
  BY <1>2, <1>4
<1>11. \A i \in 1 .. Len(sent') : sent'[i].t \in Nat /\ sent'[i].t <= now'
  BY <1>5, <1>10, Zenon
<1>. QED  BY <1>3, <1>6, <1>7, <1>8, <1>9, <1>10, <1>11, Zenon DEF Law

LEMMA LawSame ==
  ASSUME Law, UNCHANGED <<sent, out, last, now>>
  PROVE  Law'
BY DEF Law

LEMMA LawStart ==
  ASSUME sent = <<>>, out = <<>>, last = None, now \in Nat
  PROVE  Law
<1>1. <<>> \in Seq(Heard) /\ <<>> \in Seq(Handed) /\ Len(<<>>) = 0 /\ 0 <= 0
  BY EmptySeq
<1>2. 1 .. 0 = {} /\ 1 .. 0 - 1 = {}
  OBVIOUS
<1>. QED  BY <1>1, <1>2, Zenon DEF Law

-----------------------------------------------------------------------------
(* The packets on their way *)

\* A packet is the p-th of the frame e, the last of c frames of the bus by then.
Part == [e : Emission, p : Nat \ {0}, c : Nat]

One(e) == IF e.echo = Unused THEN 1 ELSE 0

\* The packets of a frame follow one another, and the frames.
Follows(x, y) ==
  IF x.p < Count(Bytes(x.e)) THEN y.e = x.e /\ y.p = x.p + 1 /\ y.c = x.c
  ELSE y.p = 1 /\ y.c = x.c + One(y.e)

Carried(g) ==
  /\ g \in Seq(Part) /\ Len(g) = Len(usb)
  /\ \A j \in 1 .. Len(g) :
       /\ g[j].p \in 1 .. Count(Bytes(g[j].e))
       /\ usb[j] = Packets(Bytes(g[j].e))[g[j].p]
       /\ g[j].c <= Len(sent)
       /\ g[j].e.echo = Unused => g[j].c # 0 /\ sent[g[j].c] = Recorded(g[j].e)
  /\ \A j \in 1 .. Len(g) - 1 : Follows(g[j], g[j + 1])
  /\ g # <<>> =>
       /\ g[Len(g)].p = Count(Bytes(g[Len(g)].e)) /\ g[Len(g)].c = Len(sent)
       /\ buf = SubSeq(Bytes(g[1].e), 1, Upto(Bytes(g[1].e), g[1].p - 1))
       /\ g[1].c = Len(out) + One(g[1].e)
  /\ g = <<>> => buf = <<>> /\ Len(out) = Len(sent)

\* Before START nothing is under way, if the adapter was silent; afterwards the
\* buffer and the packets are those of the frames sent, in the format expected.
StreamInv ==
  /\ phase = "stamped" => "ts" \in flags
  /\ early = 0 /\ phase # "started" =>
       buf = <<>> /\ usb = <<>> /\ out = <<>> /\ sent = <<>> /\ last = None /\ ~ dead
  /\ Clean => "ts" \in flags /\ ~ dead /\ Law /\ \E g : Carried(g)

\* The bytes of a host frame depend only on the format of the channel.
LEMMA SameBytes ==
  ASSUME dev' = dev
  PROVE  \A e : Bytes(e)' = Bytes(e)
<1>. SUFFICES ASSUME NEW e PROVE Bytes(e)' = Bytes(e)
  OBVIOUS
<1>1. Bytes(e) = HostFrame(e.echo, e.id, e.dlc, e.fill, e.t)
  BY DEF Bytes
<1>2. ("ts" \in dev') = ("ts" \in dev) /\ ("pad" \in dev') = ("pad" \in dev)
  OBVIOUS
<1>3. HostFrame(e.echo, e.id, e.dlc, e.fill, e.t)' = HostFrame(e.echo, e.id, e.dlc, e.fill, e.t)
  BY <1>2 DEF HostFrame
<1>. QED  BY <1>1, <1>3 DEF Bytes

LEMMA PartType ==
  ASSUME NEW g \in Seq(Part), NEW j \in 1 .. Len(g)
  PROVE  /\ g[j] \in Part /\ g[j].e \in Emission /\ g[j].p \in Nat \ {0} /\ g[j].c \in Nat
         /\ Len(g) \in Nat
<1>1. g[j] \in Part /\ Len(g) \in Nat
  BY ElementOfSeq, LenProperties
<1>. QED  BY <1>1 DEF Part

\* The buffer and the next packet make up a part of a host frame.
LEMMA NextPart ==
  ASSUME FrameType, Stamping, Classic, NEW g, Carried(g), usb # <<>>,
         NEW e, e = g[1].e, NEW p, p = g[1].p
  PROVE  /\ g # <<>> /\ 1 \in 1 .. Len(g) /\ g \in Seq(Part) /\ e \in Emission
         /\ p \in 1 .. Count(Bytes(e)) /\ Count(Bytes(e)) \in Nat
         /\ Upto(Bytes(e), p) \in 1 .. FrameLen /\ Len(Bytes(e)) = FrameLen
         /\ buf \o Head(usb) = SubSeq(Bytes(e), 1, Upto(Bytes(e), p))
         /\ p < Count(Bytes(e)) => Upto(Bytes(e), p) < FrameLen
         /\ p = Count(Bytes(e)) => Upto(Bytes(e), p) = FrameLen
<1>. DEFINE w == Bytes(e)
<1>1. g \in Seq(Part) /\ Len(g) = Len(usb) /\ usb \in Seq(Seq(Byte))
  BY DEF Carried, FrameType
<1>2. 1 \in 1 .. Len(g) /\ g # <<>> /\ Head(usb) = usb[1]
  <2>1. Len(usb) \in Nat /\ Len(usb) # 0 /\ Head(usb) = usb[1]
    BY <1>1, LenProperties, EmptySeq, HeadTailProperties
  <2>. QED  BY <1>1, <2>1, EmptySeq
<1>3. e \in Emission
  BY <1>1, <1>2, PartType
<1>4. p \in 1 .. Count(w) /\ usb[1] = Packets(w)[p] /\ buf = SubSeq(w, 1, Upto(w, p - 1))
  BY <1>2, Zenon DEF Carried
<1>5. Whole(w, e)
  BY <1>3, BytesAre
<1>6. w \in Seq(Byte) /\ w # <<>> /\ Len(w) = FrameLen
  BY <1>5 DEF Whole
<1>. HIDE DEF w
<1>7. /\ Count(w) \in Nat /\ Upto(w, Count(w)) = Len(w) /\ Upto(w, p) \in 1 .. Len(w)
      /\ SubSeq(w, 1, Upto(w, p - 1)) \o Packets(w)[p] = SubSeq(w, 1, Upto(w, p))
      /\ p < Count(w) => Upto(w, p) < Len(w)
  BY <1>4, <1>6, PacketsAre
<1>8. buf \o Head(usb) = SubSeq(w, 1, Upto(w, p))
  BY <1>2, <1>4, <1>7, Zenon
<1>. QED  BY <1>1, <1>2, <1>3, <1>4, <1>6, <1>7, <1>8, Zenon DEF w

\* The first packet is taken, and what it completes is handed on.
LEMMA TakePart ==
  ASSUME FrameType, Stamping, Classic, NEW g, Carried(g), Law, Receive,
         NEW e, e = g[1].e, NEW p, p = g[1].p
  PROVE  /\ ~ dead'
         /\ buf' = SubSeq(Bytes(e), 1, Upto(Bytes(e), IF p < Count(Bytes(e)) THEN p ELSE 0))
         /\ Law' /\ Len(out') = Len(out) + (IF p < Count(Bytes(e)) THEN 0 ELSE One(e))
<1>. DEFINE b == buf \o Head(usb)  r == Parsed(b)  w == Bytes(e)  u == Upto(w, p)
<1>1. /\ usb # <<>> /\ ~ dead /\ usb' = Tail(usb)
      /\ out' = r.frames /\ last' = r.time
      /\ dead' = (r.state = "panic" \/ r.offset > Len(b))
      /\ buf' = SubSeq(b, r.offset + 1, Len(b))
      /\ UNCHANGED <<phase, flags, started, dev, now, early, echoes, sent>>
  BY Zenon DEF Receive
<1>2. /\ g # <<>> /\ 1 \in 1 .. Len(g) /\ e \in Emission /\ g \in Seq(Part)
      /\ p \in 1 .. Count(w) /\ Count(w) \in Nat /\ u \in 1 .. FrameLen /\ Len(w) = FrameLen
      /\ b = SubSeq(w, 1, u)
      /\ p < Count(w) => u < FrameLen
      /\ p = Count(w) => u = FrameLen
  BY <1>1, NextPart, Zenon
<1>3. /\ Whole(w, e) /\ w \in Seq(Byte) /\ w # <<>> /\ FrameLen \in Nat
      /\ Len(out) \in Nat /\ Upto(w, 0) = 0
  <2>1. Whole(w, e)
    BY <1>2, BytesAre
  <2>2. w \in Seq(Byte) /\ w # <<>> /\ FrameLen \in Nat
    BY <2>1 DEF Whole
  <2>3. Len(out) \in Nat
    BY LenProperties DEF Law
  <2>4. Upto(w, 0) = 0
    BY <2>2, PacketsAre
  <2>. QED  BY <2>1, <2>2, <2>3, <2>4
<1>4. Handles(e, u, r)
  <2>1. Handles(e, u, Parsed(SubSeq(w, 1, u)))
    BY <1>2, Handled, Zenon
  <2>. QED  BY <1>2, <2>1
<1>. HIDE DEF w, u
<1>5. Len(b) = u /\ b \in Seq(Byte) /\ u \in Nat
  <2>1. u \in 1 .. Len(w)
    BY <1>2
  <2>2. u \in Nat
    BY <2>1
  <2>3. SubSeq(w, 1, u) \in Seq(Byte) /\ Len(SubSeq(w, 1, u)) = u
    BY <1>3, <2>1, CutSeq
  <2>. QED  BY <1>2, <2>2, <2>3, Zenon
<1>. HIDE DEF b, r
<1>6. CASE p < Count(w)
  <2>1. r.state = "wait" /\ r.offset = 0 /\ r.time = last /\ r.frames = out
    BY <1>2, <1>4, <1>6, Zenon DEF Handles
  <2>2. ~ dead' /\ buf' = b
    <3>1. SubSeq(b, 0 + 1, Len(b)) = b
      <4>1. 0 + 1 = 1
        OBVIOUS
      <4>2. SubSeq(b, 1, Len(b)) = b
        BY <1>5
      <4>. QED  BY <4>1, <4>2
    <3>2. ~ (0 > Len(b))
      BY <1>5
    <3>. QED  BY <1>1, <2>1, <3>1, <3>2
  <2>3. Law'
    BY <1>1, <2>1, LawSame
  <2>4. out' = out /\ Len(out) + 0 = Len(out)
    BY <1>1, <1>3, <2>1
  <2>. QED  BY <1>2, <1>6, <2>2, <2>3, <2>4, Zenon DEF w, u
<1>7. CASE ~ (p < Count(w))
  <2>1. p = Count(w) /\ u = FrameLen
    <3>1. p = Count(w)
      BY <1>2, <1>7
    <3>. QED  BY <1>2, <3>1
  <2>2. /\ r.state = "wait" /\ r.offset = FrameLen
        /\ e.echo # Unused => r.time = last /\ r.frames = out
        /\ e.echo = Unused =>
             /\ r.time = Stamp(e)
             /\ r.frames = Append(out, [frame |-> Recorded(e).frame, at |-> Stamp(e)])
    BY <1>4, <2>1, Zenon DEF Handles
  <2>3. ~ dead' /\ buf' = <<>>
    <3>1. ~ (FrameLen > Len(b)) /\ Len(b) = FrameLen
      BY <1>3, <1>5, <2>1
    <3>2. SubSeq(b, Len(b) + 1, Len(b)) = <<>>
      BY <1>5
    <3>. QED  BY <1>1, <2>2, <3>1, <3>2
  <2>4. SubSeq(w, 1, Upto(w, 0)) = <<>>
    BY <1>3
  <2>5. CASE e.echo # Unused
    <3>1. out' = out /\ last' = last
      BY <1>1, <2>2, <2>5
    <3>2. Law'
      BY <1>1, <3>1, LawSame
    <3>3. One(e) = 0 /\ Len(out) + 0 = Len(out)
      BY <1>3, <2>5 DEF One
    <3>. QED  BY <1>7, <2>3, <2>4, <3>1, <3>2, <3>3, Zenon DEF w
  <2>6. CASE e.echo = Unused
    <3>. DEFINE n == g[1].c
    <3>1. n <= Len(sent) /\ n # 0 /\ sent[n] = Recorded(e) /\ n = Len(out) + One(e)
      BY <1>2, <2>6, Zenon DEF Carried
    <3>2. One(e) = 1
      BY <2>6 DEF One
    <3>3. Len(out) < Len(sent) /\ sent[Len(out) + 1] = Recorded(e)
      <4>1. Len(sent) \in Nat
        BY LenProperties DEF Law
      <4>. QED  BY <1>3, <3>1, <3>2, <4>1
    <3>4. out' = Append(out, [frame |-> Recorded(e).frame, at |-> Stamp(e)]) /\ last' = Stamp(e)
      BY <1>1, <2>2, <2>6
    <3>5. Law'
      BY <1>1, <1>2, <3>3, <3>4, HandOn
    <3>6. Len(out') = Len(out) + 1
      BY <3>4, AppendProperties DEF Law
    <3>. QED  BY <1>7, <2>3, <2>4, <3>2, <3>5, <3>6, Zenon DEF w
  <2>. QED  BY <2>5, <2>6
<1>. QED  BY <1>6, <1>7

\* What is still on its way after that.
LEMMA TakeRest ==
  ASSUME FrameType, Stamping, Classic, NEW g, Carried(g), Law, Receive
  PROVE  Carried(Tail(g))'
<1>. DEFINE e == g[1].e  p == g[1].p  h == Tail(g)
<1>1. /\ usb # <<>> /\ usb' = Tail(usb) /\ dev' = dev /\ sent' = sent
  BY Zenon DEF Receive
<1>2. \A x : Bytes(x)' = Bytes(x)
  BY <1>1, SameBytes
<1>3. /\ g # <<>> /\ g \in Seq(Part) /\ 1 \in 1 .. Len(g) /\ e \in Emission
      /\ p \in 1 .. Count(Bytes(e)) /\ Count(Bytes(e)) \in Nat
  BY <1>1, NextPart, Zenon
<1>4. /\ buf' = SubSeq(Bytes(e), 1, Upto(Bytes(e), IF p < Count(Bytes(e)) THEN p ELSE 0))
      /\ Len(out') = Len(out) + (IF p < Count(Bytes(e)) THEN 0 ELSE One(e))
  BY TakePart, Zenon
<1>5. /\ h \in Seq(Part) /\ Len(g) \in Nat \ {0} /\ Len(h) = Len(g) - 1 /\ Len(h) = Len(Tail(usb))
      /\ \A j \in 1 .. Len(h) : j + 1 \in 1 .. Len(g) /\ h[j] = g[j + 1] /\ Tail(usb)[j] = usb[j + 1]
  <2>1. usb \in Seq(Seq(Byte)) /\ Len(usb) = Len(g)
    BY DEF FrameType, Carried
  <2>2. /\ h \in Seq(Part) /\ Len(h) = Len(g) - 1 /\ Len(g) \in Nat \ {0}
        /\ \A j \in 1 .. Len(h) : h[j] = g[j + 1]
    BY <1>3, HeadTailProperties, LenProperties, EmptySeq
  <2>3. /\ Len(Tail(usb)) = Len(usb) - 1
        /\ \A j \in 1 .. Len(Tail(usb)) : Tail(usb)[j] = usb[j + 1]
    BY <1>1, <2>1, HeadTailProperties
  <2>. HIDE DEF h
  <2>4. \A j \in 1 .. Len(h) : j + 1 \in 1 .. Len(g)
    BY <2>2
  <2>. QED  BY <2>1, <2>2, <2>3, <2>4
<1>6. g[Len(g)].p = Count(Bytes(g[Len(g)].e)) /\ g[Len(g)].c = Len(sent)
      /\ g[1].c = Len(out) + One(e)
  BY <1>3, Zenon DEF Carried
<1>. HIDE DEF h
<1>7. ASSUME NEW j \in 1 .. Len(h)
      PROVE  /\ h[j].p \in 1 .. Count(Bytes(h[j].e))
             /\ usb'[j] = Packets(Bytes(h[j].e))[h[j].p]
             /\ h[j].c <= Len(sent)
             /\ h[j].e.echo = Unused => h[j].c # 0 /\ sent[h[j].c] = Recorded(h[j].e)
  <2>1. j + 1 \in 1 .. Len(g) /\ h[j] = g[j + 1] /\ usb'[j] = usb[j + 1]
    BY <1>1, <1>5
  <2>. DEFINE k == j + 1
  <2>. HIDE DEF k
  <2>2. k \in 1 .. Len(g) /\ h[j] = g[k] /\ usb'[j] = usb[k]
    BY <2>1 DEF k
  <2>3. /\ g[k].p \in 1 .. Count(Bytes(g[k].e))
        /\ usb[k] = Packets(Bytes(g[k].e))[g[k].p]
        /\ g[k].c <= Len(sent)
        /\ g[k].e.echo = Unused => g[k].c # 0 /\ sent[g[k].c] = Recorded(g[k].e)
    BY <2>2, Zenon DEF Carried
  <2>. QED  BY <2>2, <2>3, Zenon
<1>8. ASSUME NEW j \in 1 .. Len(h) - 1 PROVE Follows(h[j], h[j + 1])
  <2>1. j \in 1 .. Len(h) /\ j + 1 \in 1 .. Len(h) /\ j + 1 \in 1 .. Len(g) - 1
    BY <1>5
  <2>2. h[j] = g[j + 1] /\ h[j + 1] = g[(j + 1) + 1]
    BY <1>5, <2>1
  <2>3. Follows(g[j + 1], g[(j + 1) + 1])
    BY <2>1, Zenon DEF Carried
  <2>. QED  BY <2>2, <2>3, Zenon
<1>9. ASSUME h # <<>>
      PROVE  /\ h[Len(h)].p = Count(Bytes(h[Len(h)].e)) /\ h[Len(h)].c = Len(sent)
             /\ buf' = SubSeq(Bytes(h[1].e), 1, Upto(Bytes(h[1].e), h[1].p - 1))
             /\ h[1].c = Len(out') + One(h[1].e)
  <2>1. Len(h) \in 1 .. Len(h) /\ 1 \in 1 .. Len(h) /\ Len(h) + 1 = Len(g) /\ 1 \in 1 .. Len(g) - 1
        /\ 1 + 1 = 2
    BY <1>5, <1>9, EmptySeq
  <2>2. h[Len(h)] = g[Len(g)] /\ h[1] = g[2] /\ Follows(g[1], g[2])
    <3>1. h[Len(h)] = g[Len(h) + 1] /\ h[1] = g[1 + 1]
      BY <1>5, <2>1, Zenon
    <3>2. Follows(g[1], g[1 + 1])
      BY <2>1, Zenon DEF Carried
    <3>. QED  BY <2>1, <3>1, <3>2
  <2>3. g[1].c \in Nat /\ p \in Nat /\ Len(out) \in Nat
    BY <1>3, PartType, LenProperties DEF Law
  <2>4. CASE p < Count(Bytes(e))
    <3>1. g[2].e = e /\ g[2].p = p + 1 /\ g[2].c = g[1].c
      BY <2>2, <2>4, Zenon DEF Follows
    <3>2. (p + 1) - 1 = p /\ Len(out) + 0 = Len(out)
      BY <2>3
    <3>3. buf' = SubSeq(Bytes(e), 1, Upto(Bytes(e), p)) /\ Len(out') = Len(out)
      BY <1>4, <2>4, <3>2, Zenon
    <3>. HIDE DEF e, p
    <3>4. h[1].e = e /\ h[1].p - 1 = p /\ h[1].c = Len(out') + One(e)
      BY <1>6, <2>2, <3>1, <3>2, <3>3, Zenon
    <3>. QED  BY <1>6, <2>2, <3>3, <3>4, Zenon
  <2>5. CASE ~ (p < Count(Bytes(e)))
    <3>1. g[2].p = 1 /\ g[2].c = g[1].c + One(g[2].e)
      BY <2>2, <2>5, Zenon DEF Follows
    <3>2. 1 - 1 = 0
      OBVIOUS
    <3>3. buf' = SubSeq(Bytes(e), 1, Upto(Bytes(e), 0)) /\ Len(out') = g[1].c
      BY <1>4, <1>6, <2>5, Zenon
    <3>4. \A x \in Emission : SubSeq(Bytes(x), 1, Upto(Bytes(x), 0)) = <<>>
      <4>. SUFFICES ASSUME NEW x \in Emission
                    PROVE  SubSeq(Bytes(x), 1, Upto(Bytes(x), 0)) = <<>>
        OBVIOUS
      <4>1. Whole(Bytes(x), x)
        BY BytesAre
      <4>2. Bytes(x) \in Seq(Byte) /\ Bytes(x) # <<>>
        BY <4>1 DEF Whole
      <4>3. Upto(Bytes(x), 0) = 0
        BY <4>2, PacketsAre
      <4>. QED  BY <4>2, <4>3
    <3>5. g[2].e \in Emission
      <4>1. 2 \in 1 .. Len(g)
        BY <1>5, <2>1
      <4>. QED  BY <1>3, <4>1, PartType
    <3>. HIDE DEF e, p
    <3>6. h[1].e = g[2].e /\ h[1].p - 1 = 0 /\ h[1].c = Len(out') + One(h[1].e)
      BY <2>2, <3>1, <3>2, <3>3, Zenon
    <3>7. buf' = <<>> /\ SubSeq(Bytes(g[2].e), 1, Upto(Bytes(g[2].e), 0)) = <<>>
      BY <1>3, <3>3, <3>4, <3>5, Zenon
    <3>. QED  BY <1>6, <2>2, <3>6, <3>7, Zenon
  <2>. QED  BY <2>4, <2>5, Zenon
<1>10. ASSUME h = <<>> PROVE buf' = <<>> /\ Len(out') = Len(sent)
  <2>1. Len(g) = 1
    BY <1>5, <1>10, EmptySeq
  <2>2. p = Count(Bytes(e)) /\ g[1].c = Len(sent)
    BY <1>6, <2>1, Zenon
  <2>3. ~ (p < Count(Bytes(e)))
    BY <1>3, <2>2
  <2>4. Whole(Bytes(e), e)
    BY <1>3, BytesAre
  <2>5. Bytes(e) \in Seq(Byte) /\ Bytes(e) # <<>>
    BY <2>4 DEF Whole
  <2>6. Upto(Bytes(e), 0) = 0
    BY <2>5, PacketsAre
  <2>7. SubSeq(Bytes(e), 1, 0) = <<>>
    BY <2>5
  <2>. HIDE DEF e, p
  <2>8. buf' = SubSeq(Bytes(e), 1, Upto(Bytes(e), 0)) /\ Len(out') = Len(out) + One(e)
    BY <1>4, <2>3, Zenon
  <2>9. buf' = <<>>
    BY <2>6, <2>7, <2>8, Zenon
  <2>. QED  BY <1>6, <2>2, <2>8, <2>9, Zenon
<1>11. h \in Seq(Part) /\ Len(h) = Len(usb')
  BY <1>1, <1>5
<1>12. \A x, y : Follows(x, y)' <=> Follows(x, y)
  BY <1>2 DEF Follows
<1>13. \A j \in 1 .. Len(h) :
         /\ h[j].p \in 1 .. Count(Bytes(h[j].e)')
         /\ usb'[j] = Packets(Bytes(h[j].e)')[h[j].p]
         /\ h[j].c <= Len(sent')
         /\ h[j].e.echo = Unused => h[j].c # 0 /\ sent'[h[j].c] = Recorded(h[j].e)
  BY <1>1, <1>2, <1>7
<1>14. \A j \in 1 .. Len(h) - 1 : Follows(h[j], h[j + 1])'
  BY <1>8, <1>12
<1>15. h # <<>> =>
         /\ h[Len(h)].p = Count(Bytes(h[Len(h)].e)') /\ h[Len(h)].c = Len(sent')
         /\ buf' = SubSeq(Bytes(h[1].e)', 1, Upto(Bytes(h[1].e)', h[1].p - 1))
         /\ h[1].c = Len(out') + One(h[1].e)
  BY <1>1, <1>2, <1>9
<1>16. Carried(h)'
  BY <1>1, <1>10, <1>11, <1>13, <1>14, <1>15, Zenon DEF Carried
<1>. QED  BY <1>16 DEF h

\* The packets of one more frame are under way.
LEMMA SendParts ==
  ASSUME FrameType, Stamping, Classic, NEW g, Carried(g), Law, NEW e \in Emission,
         usb' = usb \o Packets(Bytes(e)), UNCHANGED <<dev, buf, out>>,
         sent' = IF e.echo = Unused THEN Append(sent, Recorded(e)) ELSE sent
  PROVE  \E h : Carried(h)'
<1>. DEFINE w == Bytes(e)  q == Count(w)  n == Len(sent) + One(e)
            new == [j \in 1 .. q |-> [e |-> e, p |-> j, c |-> n]]
            k == Len(g)
<1>1. \A x : Bytes(x)' = Bytes(x)
  BY SameBytes
<1>2. g \in Seq(Part) /\ k = Len(usb) /\ k \in Nat /\ usb \in Seq(Seq(Byte)) /\ Len(sent) \in Nat
  BY LenProperties DEF Carried, FrameType, Law
<1>3. Whole(w, e)
  BY BytesAre
<1>4. w \in Seq(Byte) /\ w # <<>>
  BY <1>3 DEF Whole
<1>5. /\ q \in Nat \ {0} /\ Packets(w) \in Seq(Seq(Byte)) /\ Len(Packets(w)) = q
      /\ SubSeq(w, 1, Upto(w, 0)) = <<>>
  <2>. HIDE DEF w
  <2>1. q \in Nat \ {0} /\ Packets(w) \in Seq(Seq(Byte)) /\ Len(Packets(w)) = q /\ Upto(w, 0) = 0
    BY <1>4, PacketsAre
  <2>2. SubSeq(w, 1, 0) = <<>>
    BY <1>4
  <2>. HIDE DEF q
  <2>. QED  BY <2>1, <2>2
<1>6. n \in Nat /\ n >= Len(sent) /\ Len(sent') = n
      /\ (\A i \in 1 .. Len(sent) : sent'[i] = sent[i])
      /\ (e.echo = Unused => n # 0 /\ sent'[n] = Recorded(e))
  <2>1. CASE e.echo = Unused
    <3>1. One(e) = 1 /\ Recorded(e) \in Heard /\ sent' = Append(sent, Recorded(e))
      BY <2>1, RecordedIs DEF One
    <3>2. /\ Len(sent') = Len(sent) + 1 /\ sent'[Len(sent) + 1] = Recorded(e)
          /\ \A i \in 1 .. Len(sent) : sent'[i] = sent[i]
      BY <3>1, AppendProperties DEF Law
    <3>. QED  BY <1>2, <3>1, <3>2
  <2>2. CASE e.echo # Unused
    <3>1. One(e) = 0 /\ sent' = sent
      BY <2>2 DEF One
    <3>. QED  BY <1>2, <2>2, <3>1
  <2>. QED  BY <2>1, <2>2
<1>. HIDE DEF n, q, w
<1>7. new \in Seq(Part) /\ Len(new) = q /\ \A j \in 1 .. q : new[j] = [e |-> e, p |-> j, c |-> n]
  <2>1. \A j \in 1 .. q : [e |-> e, p |-> j, c |-> n] \in Part
    BY <1>5, <1>6 DEF Part
  <2>2. \A j \in 1 .. q : new[j] = [e |-> e, p |-> j, c |-> n]
    OBVIOUS
  <2>3. new \in [1 .. q -> Part]
    BY <2>1
  <2>. HIDE DEF new
  <2>. QED  BY <1>5, <2>2, <2>3
<1>8. \A j \in 1 .. q : new[j].e = e /\ new[j].p = j /\ new[j].c = n
  <2>. SUFFICES ASSUME NEW j \in 1 .. q PROVE new[j].e = e /\ new[j].p = j /\ new[j].c = n
    OBVIOUS
  <2>1. new[j] = [e |-> e, p |-> j, c |-> n]
    BY <1>7
  <2>. HIDE DEF new
  <2>. QED  BY <2>1
<1>. HIDE DEF new
<1>22. PICK h : h = g \o new
  OBVIOUS
<1>9. /\ h \in Seq(Part) /\ Len(h) = k + q
      /\ \A i \in 1 .. k + q : h[i] = IF i <= k THEN g[i] ELSE new[i - k]
  BY <1>2, <1>7, <1>22, ConcatProperties
<1>10. /\ Len(usb') = k + q
       /\ \A i \in 1 .. k + q : usb'[i] = IF i <= k THEN usb[i] ELSE Packets(w)[i - k]
  <2>. HIDE DEF k
  <2>. QED  BY <1>2, <1>5, ConcatProperties DEF w
<1>. HIDE DEF k
<1>11. \A i \in 1 .. k + q : (i <= k => i \in 1 .. k) /\ (~ (i <= k) => i - k \in 1 .. q)
  <2>. SUFFICES ASSUME NEW i \in 1 .. k + q
                PROVE  (i <= k => i \in 1 .. k) /\ (~ (i <= k) => i - k \in 1 .. q)
    OBVIOUS
  <2>1. k \in Nat /\ q \in Nat
    BY <1>2, <1>5
  <2>. QED  BY <2>1
<1>12. ASSUME NEW j \in 1 .. Len(h)
       PROVE  /\ h[j].p \in 1 .. Count(Bytes(h[j].e)')
              /\ usb'[j] = Packets(Bytes(h[j].e)')[h[j].p]
              /\ h[j].c <= Len(sent')
              /\ h[j].e.echo = Unused => h[j].c # 0 /\ sent'[h[j].c] = Recorded(h[j].e)
  <2>1. CASE j <= k
    <3>1. j \in 1 .. k /\ h[j] = g[j] /\ usb'[j] = usb[j]
      BY <1>9, <1>10, <1>11, <2>1
    <3>2. /\ g[j].p \in 1 .. Count(Bytes(g[j].e))
          /\ usb[j] = Packets(Bytes(g[j].e))[g[j].p]
          /\ g[j].c <= Len(sent)
          /\ g[j].e.echo = Unused => g[j].c # 0 /\ sent[g[j].c] = Recorded(g[j].e)
      BY <3>1, Zenon DEF Carried, k
    <3>3. g[j].c \in Nat
      BY <1>2, <3>1, PartType DEF k
    <3>4. g[j].c <= Len(sent') /\ (g[j].c # 0 => sent'[g[j].c] = sent[g[j].c])
      <4>. DEFINE a == g[j].c  l == Len(sent)  m == Len(sent')
      <4>1. a \in Nat /\ l \in Nat /\ a <= l /\ m = n /\ n \in Nat /\ n >= l
        BY <1>2, <1>6, <3>2, <3>3
      <4>2. \A i \in 1 .. l : sent'[i] = sent[i]
        BY <1>6
      <4>. HIDE DEF a, l, m
      <4>3. a <= m /\ (a # 0 => a \in 1 .. l)
        BY <4>1
      <4>4. a <= m /\ (a # 0 => sent'[a] = sent[a])
        BY <4>2, <4>3, Zenon
      <4>. QED  BY <4>4 DEF a, m
    <3>5. Bytes(h[j].e)' = Bytes(g[j].e)
      BY <1>1, <3>1
    <3>. QED  BY <3>1, <3>2, <3>4, <3>5, Zenon
  <2>2. CASE ~ (j <= k)
    <3>. DEFINE i == j - k
    <3>1. i \in 1 .. q /\ h[j] = new[i] /\ usb'[j] = Packets(w)[i]
      BY <1>9, <1>10, <1>11, <2>2
    <3>. HIDE DEF i
    <3>2. h[j].e = e /\ h[j].p = i /\ h[j].c = n
      BY <1>8, <3>1
    <3>3. Bytes(h[j].e)' = w
      BY <1>1, <3>2 DEF w
    <3>4. n <= n
      BY <1>6
    <3>. QED  BY <1>6, <3>1, <3>2, <3>3, <3>4, Zenon DEF q
  <2>. QED  BY <2>1, <2>2
<1>13. \A x, y : Follows(x, y)' <=> Follows(x, y)
  BY <1>1 DEF Follows
<1>14. k # 0 => /\ g[k].p = Count(Bytes(g[k].e)) /\ g[k].c = Len(sent) /\ k \in 1 .. k /\ 1 <= k
                /\ buf = SubSeq(Bytes(g[1].e), 1, Upto(Bytes(g[1].e), g[1].p - 1))
                /\ g[1].c = Len(out) + One(g[1].e)
  <2>. SUFFICES ASSUME k # 0 PROVE
                /\ g[k].p = Count(Bytes(g[k].e)) /\ g[k].c = Len(sent) /\ k \in 1 .. k /\ 1 <= k
                /\ buf = SubSeq(Bytes(g[1].e), 1, Upto(Bytes(g[1].e), g[1].p - 1))
                /\ g[1].c = Len(out) + One(g[1].e)
    OBVIOUS
  <2>1. g # <<>> /\ k \in 1 .. k /\ 1 <= k
    BY <1>2, EmptySeq DEF k
  <2>. QED  BY <2>1, Zenon DEF Carried, k
<1>15. ASSUME NEW j \in 1 .. Len(h) - 1 PROVE Follows(h[j], h[j + 1])
  <2>0. j \in 1 .. k + q /\ j + 1 \in 1 .. k + q /\ j \in Nat
    BY <1>2, <1>5, <1>9
  <2>1. CASE j + 1 <= k
    <3>1. j \in 1 .. k - 1 /\ j <= k
      BY <1>2, <2>0, <2>1
    <3>2. h[j] = g[j] /\ h[j + 1] = g[j + 1]
      BY <1>9, <2>0, <2>1, <3>1
    <3>3. Follows(g[j], g[j + 1])
      BY <3>1, Zenon DEF Carried, k
    <3>. QED  BY <3>2, <3>3, Zenon
  <2>2. CASE j = k
    <3>1. ~ (j + 1 <= k) /\ (j + 1) - k = 1 /\ 1 \in 1 .. q /\ j <= k /\ k # 0
      BY <1>2, <1>5, <2>0, <2>2
    <3>2. h[j] = g[k] /\ h[j + 1] = new[1]
      BY <1>9, <2>0, <2>2, <3>1
    <3>3. new[1].e = e /\ new[1].p = 1 /\ new[1].c = n
      BY <1>8, <3>1
    <3>4. ~ (g[k].p < Count(Bytes(g[k].e)))
      <4>1. g[k].p = Count(Bytes(g[k].e)) /\ g[k].p \in Nat
        BY <1>2, <1>14, <3>1, PartType DEF k
      <4>. QED  BY <4>1
    <3>. QED  BY <1>14, <3>1, <3>2, <3>3, <3>4, Zenon DEF Follows, n
  <2>3. CASE ~ (j <= k)
    <3>. DEFINE i == j - k
    <3>1. ~ (j + 1 <= k) /\ (j + 1) - k = i + 1 /\ i + 1 \in 1 .. q /\ i \in 1 .. q /\ i < q
      BY <1>2, <1>5, <2>0, <2>3
    <3>2. h[j] = new[i] /\ h[j + 1] = new[i + 1]
      BY <1>9, <2>0, <2>3, <3>1
    <3>. HIDE DEF i
    <3>3. h[j].e = e /\ h[j].p = i /\ h[j].c = n
      BY <1>8, <3>1, <3>2
    <3>4. h[j + 1].e = e /\ h[j + 1].p = i + 1 /\ h[j + 1].c = n
      BY <1>8, <3>1, <3>2
    <3>5. h[j].p < Count(Bytes(h[j].e))
      BY <3>1, <3>3 DEF q, w
    <3>. QED  BY <3>3, <3>4, <3>5, Zenon DEF Follows
  <2>4. j + 1 <= k \/ j = k \/ ~ (j <= k)
    BY <1>2, <2>0
  <2>. QED  BY <2>1, <2>2, <2>3, <2>4, Zenon
<1>16. h # <<>> /\ Len(h) = k + q /\ ~ (k + q <= k) /\ (k + q) - k = q /\ q \in 1 .. q
       /\ k + q \in 1 .. k + q /\ 1 \in 1 .. k + q /\ 1 \in 1 .. q
  BY <1>2, <1>5, <1>9, EmptySeq
<1>17. h[Len(h)].p = Count(Bytes(h[Len(h)].e)') /\ h[Len(h)].c = Len(sent')
  <2>1. h[Len(h)] = new[q]
    BY <1>9, <1>16, Zenon
  <2>2. new[q].e = e /\ new[q].p = q /\ new[q].c = n
    BY <1>8, <1>16
  <2>3. Bytes(h[Len(h)].e)' = w
    BY <1>1, <2>1, <2>2 DEF w
  <2>. QED  BY <1>6, <2>1, <2>2, <2>3, Zenon DEF q
<1>18. /\ buf' = SubSeq(Bytes(h[1].e)', 1, Upto(Bytes(h[1].e)', h[1].p - 1))
       /\ h[1].c = Len(out') + One(h[1].e)
  <2>1. CASE k # 0
    <3>1. h[1] = g[1]
      BY <1>9, <1>14, <1>16, <2>1
    <3>. QED  BY <1>1, <1>14, <2>1, <3>1
  <2>2. CASE k = 0
    <3>1. ~ (1 <= k) /\ 1 - k = 1 /\ 1 - 1 = 0
      BY <2>2
    <3>2. h[1] = new[1]
      BY <1>9, <1>16, <3>1
    <3>3. h[1].e = e /\ h[1].p = 1 /\ h[1].c = n
      BY <1>8, <1>16, <3>2
    <3>4. g = <<>>
      BY <1>2, <2>2, EmptySeq DEF k
    <3>5. buf = <<>> /\ Len(out) = Len(sent)
      BY <3>4, Zenon DEF Carried
    <3>6. Bytes(h[1].e)' = w
      BY <1>1, <3>3 DEF w
    <3>7. buf' = <<>> /\ Len(out') = Len(out)
      BY <3>5
    <3>. QED  BY <1>5, <3>1, <3>3, <3>5, <3>6, <3>7, Zenon DEF n
  <2>. QED  BY <2>1, <2>2
<1>19. h \in Seq(Part) /\ Len(h) = Len(usb')
  BY <1>9, <1>10
<1>20. \A j \in 1 .. Len(h) - 1 : Follows(h[j], h[j + 1])'
  BY <1>13, <1>15
<1>21. Carried(h)'
  BY <1>12, <1>16, <1>17, <1>18, <1>19, <1>20, Zenon DEF Carried
<1>. QED  BY <1>21

LEMMA CarriedStart ==
  ASSUME usb = <<>>, buf = <<>>, out = <<>>, sent = <<>>
  PROVE  Carried(<<>>)
<1>1. <<>> \in Seq(Part) /\ Len(<<>>) = 0 /\ 1 .. 0 = {} /\ 1 .. 0 - 1 = {}
  BY EmptySeq
<1>. QED  BY <1>1, Zenon DEF Carried

-----------------------------------------------------------------------------
(* Every step *)

LEMMA InitStream == Init => StreamInv
<1>. SUFFICES ASSUME Init PROVE StreamInv
  OBVIOUS
<1>1. /\ phase = "open" /\ buf = <<>> /\ usb = <<>> /\ out = <<>> /\ sent = <<>>
      /\ last = None /\ dead = FALSE
  BY DEF Init
<1>. QED  BY <1>1, Zenon DEF StreamInv, Clean

LEMMA ReceiveStream ==
  ASSUME FrameType, StreamInv, Classic, Receive
  PROVE  StreamInv'
<1>1. usb # <<>> /\ UNCHANGED <<phase, flags, dev, early>>
  BY Zenon DEF Receive
<1>2. ~ (early = 0 /\ phase # "started")
  BY <1>1, Zenon DEF StreamInv
<1>3. phase' = "stamped" => "ts" \in flags'
  BY <1>1 DEF StreamInv
<1>4. ASSUME Clean' PROVE "ts" \in flags' /\ ~ dead' /\ Law' /\ \E g : Carried(g)'
  <2>1. Clean /\ "ts" \in flags /\ Law /\ dev = flags
    BY <1>1, <1>4 DEF Clean, StreamInv
  <2>2. PICK g : Carried(g)
    BY <2>1 DEF StreamInv
  <2>3. Stamping
    BY <2>1 DEF Stamping
  <2>4. ~ dead' /\ Law'
    BY <2>1, <2>2, <2>3, TakePart, Zenon
  <2>5. Carried(Tail(g))'
    BY <2>1, <2>2, <2>3, TakeRest
  <2>. QED  BY <1>1, <2>1, <2>4, <2>5
<1>. QED  BY <1>1, <1>2, <1>3, <1>4, Zenon DEF StreamInv

LEMMA SetUpStream ==
  ASSUME FrameType, StreamInv, UpdateConfig \/ Reset \/ EnableTimestamp \/ Start
  PROVE  StreamInv'
<1>1. /\ phase # "started" /\ UNCHANGED <<buf, last, out, dead, usb, now, early, sent>>
      /\ phase' = "stamped" => "ts" \in flags'
      /\ phase' = "started" => phase = "stamped" /\ flags' = flags
  BY DEF UpdateConfig, Reset, EnableTimestamp, Start, loopVars
<1>2. ASSUME Clean' PROVE "ts" \in flags' /\ ~ dead' /\ Law' /\ \E g : Carried(g)'
  <2>1. early = 0 /\ phase = "stamped" /\ flags' = flags
    BY <1>1, <1>2 DEF Clean
  <2>2. buf = <<>> /\ usb = <<>> /\ out = <<>> /\ sent = <<>> /\ last = None /\ ~ dead
        /\ "ts" \in flags
    BY <1>1, <2>1 DEF StreamInv
  <2>3. Law'
    <3>1. Law
      BY <2>2, LawStart DEF FrameType
    <3>. QED  BY <1>1, <3>1, LawSame
  <2>4. Carried(<<>>)'
    <3>1. usb' = <<>> /\ buf' = <<>> /\ out' = <<>> /\ sent' = <<>>
      BY <1>1, <2>2
    <3>2. <<>> \in Seq(Part) /\ Len(<<>>) = 0 /\ 1 .. 0 = {} /\ 1 .. 0 - 1 = {}
      BY EmptySeq
    <3>. QED  BY <3>1, <3>2, Zenon DEF Carried
  <2>. QED  BY <1>1, <2>1, <2>2, <2>3, <2>4
<1>3. early' = 0 /\ phase' # "started" =>
        buf' = <<>> /\ usb' = <<>> /\ out' = <<>> /\ sent' = <<>> /\ last' = None /\ ~ dead'
  BY <1>1 DEF StreamInv
<1>. QED  BY <1>1, <1>2, <1>3, Zenon DEF StreamInv

LEMMA EmitStream ==
  ASSUME FrameType, StreamInv, Classic, Emit
  PROVE  StreamInv'
<1>1. PICK echo \in {Unused, Echo}, id \in Ids, dlc \in Dlcs, fill \in Fills, j \in Jumps :
        Send(echo, id, dlc, fill, now + j) /\ UNCHANGED <<phase, loopVars, started, dev>>
  BY DEF Emit
<1>2. UNCHANGED <<phase, flags, buf, last, out, dead, dev>>
  BY <1>1 DEF loopVars
<1>3. phase' = "stamped" => "ts" \in flags'
  BY <1>2 DEF StreamInv
<1>4. phase # "started" => early' # 0
  <2>1. phase # "started" => early' = early + 1
    BY <1>1, Zenon DEF Send
  <2>2. early + 1 # 0
    BY DEF FrameType
  <2>. QED  BY <2>1, <2>2
<1>5. ASSUME Clean' PROVE "ts" \in flags' /\ ~ dead' /\ Law' /\ \E g : Carried(g)'
  <2>. DEFINE t == now + j
  <2>1. phase = "started" /\ dev = flags /\ early' = 0
    BY <1>2, <1>5 DEF Clean
  <2>2. t \in Nat /\ now <= t /\ now \in Nat
    BY FormatAssumption DEF FrameType
  <2>. HIDE DEF t
  <2>3. Send(echo, id, dlc, fill, t)
    BY <1>1 DEF t
  <2>4. PICK e \in Emission : e = [echo |-> echo, id |-> id, dlc |-> dlc, fill |-> fill, t |-> t]
    BY <2>2 DEF Emission
  <2>5. e.echo = echo /\ e.id = id /\ e.dlc = dlc /\ e.fill = fill /\ e.t = t
    BY <2>4
  <2>6. Bytes(e) = HostFrame(echo, id, dlc, fill, t)
    BY <2>5 DEF Bytes
  <2>7. Recorded(e) = [t |-> t, frame |-> CanFrame(id, dlc, [i \in 1 .. dlc |-> fill])]
    BY <2>5, Zenon DEF Recorded
  <2>8. Unused # Echo
    <3>1. Unused[1] = 255 /\ Echo[1] = 1
      BY DEF Unused, Echo
    <3>. QED  BY <3>1
  <2>9. /\ now' = e.t /\ now <= e.t /\ usb' = usb \o Packets(Bytes(e)) /\ early' = early
        /\ sent' = IF e.echo = Unused THEN Append(sent, Recorded(e)) ELSE sent
    <3>1. now' = e.t /\ now <= e.t /\ usb' = usb \o Packets(Bytes(e))
      BY <2>2, <2>3, <2>5, <2>6, Zenon DEF Send
    <3>2. CASE echo = Echo
      BY <2>1, <2>3, <2>5, <2>8, <3>1, <3>2, Zenon DEF Send
    <3>3. CASE echo # Echo
      <4>1. echo = Unused
        BY <3>3
      <4>2. sent' = Append(sent, Recorded(e)) /\ early' = early
        BY <2>1, <2>3, <2>7, <3>3, Zenon DEF Send
      <4>. QED  BY <2>5, <3>1, <4>1, <4>2, Zenon
    <3>. QED  BY <3>2, <3>3
  <2>10. Clean
    BY <2>1, <2>9 DEF Clean
  <2>11. "ts" \in flags /\ ~ dead /\ Law /\ Stamping
    BY <2>1, <2>10 DEF StreamInv, Stamping
  <2>12. PICK g : Carried(g)
    BY <2>10 DEF StreamInv
  <2>13. Law'
    BY <1>2, <2>9, <2>11, Hear
  <2>14. \E h : Carried(h)'
    BY <1>2, <2>9, <2>11, <2>12, SendParts
  <2>. QED  BY <1>2, <2>11, <2>13, <2>14
<1>. QED  BY <1>2, <1>3, <1>4, <1>5, Zenon DEF StreamInv

LEMMA NextStream ==
  ASSUME FrameType, StreamInv, Classic, [Next]_vars
  PROVE  StreamInv'
<1>1. CASE Receive
  BY <1>1, ReceiveStream
<1>2. CASE UpdateConfig \/ Reset \/ EnableTimestamp \/ Start
  BY <1>2, SetUpStream
<1>3. CASE Emit
  BY <1>3, EmitStream
<1>4. CASE Done \/ UNCHANGED vars
  <2>1. UNCHANGED <<phase, flags, buf, last, out, dead, usb, dev, now, early, sent>>
    BY <1>4 DEF Done, vars, loopVars
  <2>2. Law => Law'
    BY <2>1, LawSame
  <2>3. \A e : Bytes(e)' = Bytes(e)
    BY <2>1, SameBytes
  <2>4. \A x, y : Follows(x, y)' <=> Follows(x, y)
    BY <2>3 DEF Follows
  <2>5. \A g : Carried(g) => Carried(g)'
    BY <2>1, <2>3, <2>4 DEF Carried
  <2>. QED  BY <2>1, <2>2, <2>5 DEF StreamInv, Clean
<1>. QED  BY <1>1, <1>2, <1>3, <1>4 DEF Next

LEMMA StreamInvariant ==
  ASSUME Classic
  PROVE  Spec => [](FrameType /\ StreamInv)
<1>1. Init => FrameType /\ StreamInv
  BY InitFrame, InitStream
<1>2. FrameType /\ StreamInv /\ [Next]_vars => (FrameType /\ StreamInv)'
  BY NextFrame, NextStream
<1>. QED  BY <1>1, <1>2, PTL DEF Spec

LEMMA StreamExact ==
  ASSUME FrameType, StreamInv
  PROVE  Exact
<1>. SUFFICES ASSUME Clean
              PROVE  /\ Len(out) <= Len(sent)
                     /\ \A i \in 1 .. Len(out) : out[i].frame = sent[i].frame
                     /\ usb = <<>> => Len(out) = Len(sent) /\ buf = <<>> /\ ~ dead
  BY Zenon DEF Exact
<1>1. Law /\ ~ dead
  BY Zenon DEF StreamInv
<1>2. PICK g : Carried(g)
  BY DEF StreamInv
<1>3. ASSUME usb = <<>> PROVE g = <<>>
  <2>1. g \in Seq(Part) /\ Len(g) = Len(usb)
    BY <1>2 DEF Carried
  <2>. QED  BY <1>3, <2>1, EmptySeq
<1>4. usb = <<>> => Len(out) = Len(sent) /\ buf = <<>>
  BY <1>2, <1>3, Zenon DEF Carried
<1>. QED  BY <1>1, <1>4, Zenon DEF Law

LEMMA StreamTimes ==
  ASSUME FrameType, StreamInv
  PROVE  TimeExact
<1>1. ASSUME Clean, NEW i \in 1 .. Len(out) - 1
      PROVE  Spaced(out[i].at, out[i + 1].at, sent[i + 1].t - sent[i].t)
  <2>1. Law
    BY <1>1, Zenon DEF StreamInv
  <2>. QED  BY <1>1, <2>1, Zenon DEF Law
<1>. QED  BY <1>1, Zenon DEF TimeExact, Spaced, Time

(***************************************************************************)
(* However the host frames are cut into packets, the frames handed on are  *)
(* the frames heard, in order and whole, and none is missing once the      *)
(* packets are taken: if the adapter was silent before START and frames    *)
(* carry no more than eight bytes (process_rx_chunk, driver.rs:219).       *)
(***************************************************************************)
THEOREM HostFramesExact ==
  ASSUME Classic
  PROVE  Spec => []Exact
<1>1. FrameType /\ StreamInv => Exact
  BY StreamExact
<1>. QED  BY <1>1, StreamInvariant, PTL

(***************************************************************************)
(* Under the same premise the 64-bit times are as far apart as the frames, *)
(* up to whole turns of the 32-bit counter (frames.rs:176-186).            *)
(***************************************************************************)
THEOREM HostTimesExact ==
  ASSUME Classic
  PROVE  Spec => []TimeExact
<1>1. FrameType /\ StreamInv => TimeExact
  BY StreamTimes
<1>. QED  BY <1>1, StreamInvariant, PTL

=============================================================================
