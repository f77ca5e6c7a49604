-------------------------------- MODULE Slcan --------------------------------
(***************************************************************************)
(* The SLCAN driver (src/src/drivers/slcan.rs) from init_slcan of the      *)
(* server to its close: a serial port carries commands to the adapter and, *)
(* back, answers, frames and timestamp overflows (lines "J").              *)
(*                                                                         *)
(* The bytes of a line are abstracted to tokens: the two halves of its     *)
(* text, then CR.  The answer to "B" is four raw bytes without CR, here    *)
(* two halves.  Reads return any part of what has arrived.                 *)
(***************************************************************************)
EXTENDS Naturals, Sequences, SequencesExt

CONSTANTS
  AutoDetect,     \* the port was found by the auto-detection
  AnswersB,       \* the adapter answers the bitrate request
  LeftRunning,    \* a previous session may have left the channel open
  Kinds,          \* frames on the bus: "t" standard, "T" extended
  MaxRx, MaxTime, \* bounds: frames heard, ticks of the adapter's clock
  Wrap            \* the adapter's clock counts modulo this (2^32)

ASSUME SwitchAssumption ==
  /\ AutoDetect \in BOOLEAN /\ AnswersB \in BOOLEAN
  /\ LeftRunning \in BOOLEAN /\ Kinds \subseteq {"t", "T"}
ASSUME NumberAssumption ==
  MaxRx \in Nat /\ MaxTime \in Nat /\ Wrap \in Nat \ {0}

VARIABLES
  step,           \* the caller's current call
  given,          \* the bitrate is on the command line
  rdbuf,          \* the BufReader of get_version
  version,        \* the line get_version returned last
  got,            \* bytes read by get_measured_bitrate
  leftover,       \* field leftover: an incomplete line
  high,           \* field timestamp_high
  returned,       \* frames returned by read_frames, in order
  toDev,          \* commands written and not handled by the adapter
  wire,           \* tokens sent by the adapter and not read
  open,           \* adapter: its channel is open
  now,            \* adapter: its clock
  stamps,         \* time at which each frame was heard
  nOpen           \* frames heard before the last open command

driverVars == <<step, given, rdbuf, version, got, leftover, high, returned>>
devVars    == <<wire, open, now, stamps, nOpen>>
vars       == <<driverVars, toDev, devVars>>

Half(k, n, low, h) == [kind |-> k, n |-> n, low |-> low, half |-> h]
CR == Half("CR", 0, 0, 1)
Text(k, n, low) == <<Half(k, n, low, 1), Half(k, n, low, 2)>>
Line(k, n, low) == Append(Text(k, n, low), CR)

Asking == {"probing", "versioning"}
Over   == {"exited", "failed"}

Fresh ==
  /\ rdbuf = <<>> /\ version = <<>> /\ got = <<>>
  /\ leftover = <<>> /\ high = 0 /\ returned = <<>>
  /\ toDev = <<>> /\ now = 0 /\ stamps = <<>> /\ nOpen = 0

Init ==
  /\ step = IF AutoDetect THEN "probe" ELSE "close0"
  /\ given \in BOOLEAN /\ Fresh
  /\ \/ wire = <<>>
     \/ LeftRunning /\ wire = <<Half("t", 0, 0, 2), CR>>   \* the end of a line
  /\ open \in {FALSE, LeftRunning}

\* Another driver was asked for.
Unused == step = "exited" /\ given = FALSE /\ Fresh /\ wire = <<>> /\ open = FALSE

-----------------------------------------------------------------------------
(* The driver *)

\* The calls that only write a command, with the command and the next call.
Writes ==
  [close0 |-> "C", set |-> "S", ts |-> "Z", open |-> "O", closing |-> "C"]

After ==
  [close0 |-> "version", set |-> "ts", ts |-> "open", open |-> "serve",
   closing |-> "exited"]

WriteCommand ==
  /\ step \in DOMAIN Writes
  /\ toDev' = Append(toDev, Writes[step])
  /\ step' = After[step]
  /\ UNCHANGED <<given, rdbuf, version, got, leftover, high, returned, devVars>>

\* set_bitrate rejects a bitrate that has no command.
BadBitrate ==
  /\ step = "set" /\ given
  /\ step' = "failed"
  /\ UNCHANGED <<given, rdbuf, version, got, leftover, high, returned, toDev, devVars>>

\* get_version up to its first read.
AskVersion ==
  /\ step \in {"probe", "version"}
  /\ step' = IF step = "probe" THEN "probing" ELSE "versioning"
  /\ toDev' = Append(toDev, "V")
  /\ leftover' = <<>> /\ rdbuf' = <<>>
  /\ UNCHANGED <<given, version, got, high, returned, devVars>>

FirstCR(s) == SelectInSeq(s, LAMBDA x : x = CR)

\* The BufReader takes what has arrived.
FillVersion ==
  /\ step \in Asking /\ FirstCR(rdbuf) = 0
  /\ \E k \in 1 .. Len(wire) :
       /\ rdbuf' = rdbuf \o SubSeq(wire, 1, k)
       /\ wire' = SubSeq(wire, k + 1, Len(wire))
  /\ UNCHANGED <<given, step, version, got, leftover, high, returned, toDev, open, now,
                 stamps, nOpen>>

IsExtended(line) == Len(line) > 0 /\ line[1].kind = "T" /\ line[1].half = 1

\* Any line is taken for a version (mutant).
AfterVersion_Any(line) ==
  IF step = "probing" THEN "close0" ELSE IF given THEN "set" ELSE "measure"

\* The call after get_version returned the line: the measured bitrate is
\* requested only from an adapter that names itself.
AfterVersion(line) ==
  CASE step = "probing"             -> "close0"
    [] given                        -> "set"
    [] line = Text("version", 0, 0) -> "measure"
    [] OTHER                        -> "failed"

\* The first line that does not begin with "T" is the version; what the
\* BufReader holds beyond it is lost.
TakeVersion ==
  /\ step \in Asking
  /\ LET i    == FirstCR(rdbuf)
         line == SubSeq(rdbuf, 1, i - 1)
     IN  /\ i > 0
         /\ IF IsExtended(line)
              THEN /\ rdbuf' = SubSeq(rdbuf, i + 1, Len(rdbuf))
                   /\ UNCHANGED <<step, version>>
              ELSE /\ rdbuf' = <<>> /\ version' = line
                   /\ step' = AfterVersion(line)
  /\ UNCHANGED <<given, got, leftover, high, returned, toDev, devVars>>

\* get_version waits without a time limit (mutant).
VersionTimeout_Never == step \in Asking /\ FALSE /\ UNCHANGED vars

\* 20 ms pass without a version: the set-up fails.
VersionTimeout ==
  /\ step \in Asking
  /\ step' = "failed" /\ rdbuf' = <<>>
  /\ UNCHANGED <<given, version, got, leftover, high, returned, toDev, devVars>>

AskBitrate ==
  /\ step = "measure"
  /\ step' = "measuring" /\ got' = <<>> /\ leftover' = <<>>
  /\ toDev' = Append(toDev, "B")
  /\ UNCHANGED <<given, rdbuf, version, high, returned, devVars>>

(***************************************************************************)
(* One read of get_measured_bitrate: at most the bytes that are missing.   *)
(* The 500 ms are looked at between two reads only; a complete answer may  *)
(* still be rejected.                                                      *)
(***************************************************************************)
MeasureRead ==
  /\ step = "measuring"
  /\ \E k \in 1 .. (2 - Len(got)) :
       /\ k <= Len(wire)
       /\ got' = got \o SubSeq(wire, 1, k)
       /\ wire' = SubSeq(wire, k + 1, Len(wire))
  /\ step' \in {"failed", IF Len(got') = 2 THEN "set" ELSE "measuring"}
  /\ UNCHANGED <<given, rdbuf, version, leftover, high, returned, toDev, open, now,
                 stamps, nOpen>>

-----------------------------------------------------------------------------
(* read_frames *)

\* What the parser knows after some tokens: the line begun, the frames found
\* and the count of overflows.
Known(l, fs, h) == [line |-> l, frames |-> fs, high |-> h]
Start(h) == Known(<<>>, <<>>, h)

IsText(line, kinds) ==
  /\ Len(line) = 2 /\ line[1].kind \in kinds
  /\ line[1].half = 1 /\ line[2] = [line[1] EXCEPT !.half = 2]

\* The frame of a complete line, with its 64-bit timestamp.
FrameOf(p) == [n |-> p.line[1].n, ts |-> p.high * Wrap + p.line[1].low]

\* Overflow lines are not counted (mutant).
EndOfLine_NoOverflow(p) ==
  Known(<<>>, IF IsText(p.line, {"t", "T"}) THEN Append(p.frames, FrameOf(p)) ELSE p.frames,
        p.high)

\* parse_slcan_line_bytes on a complete line.
EndOfLine(p) ==
  CASE IsText(p.line, {"t", "T"}) -> Known(<<>>, Append(p.frames, FrameOf(p)), p.high)
    [] IsText(p.line, {"J"})      -> Known(<<>>, p.frames, p.high + 1)
    [] OTHER                      -> Known(<<>>, p.frames, p.high)

ParseToken(p, x) ==
  IF x = CR THEN EndOfLine(p) ELSE Known(Append(p.line, x), p.frames, p.high)

\* What is known after some tokens, from what was known before them.
ParseFrom(p, tokens) ==
  LET after[i \in 0 .. Len(tokens)] ==
        IF i = 0 THEN p ELSE ParseToken(after[i - 1], tokens[i])
  IN  after[Len(tokens)]

Parse(tokens, h) == ParseFrom(Start(h), tokens)

\* Only the first complete line of the buffer is parsed (mutant).
ReadFrames_OneLine ==
  /\ step = "serve"
  /\ \E k \in 1 .. Len(wire) :
       LET all == leftover \o SubSeq(wire, 1, k)
           i   == FirstCR(all)
           p   == Parse(SubSeq(all, 1, i), high)
       IN  /\ leftover' = SubSeq(all, i + 1, Len(all))
           /\ high' = p.high /\ returned' = returned \o p.frames
           /\ wire' = SubSeq(wire, k + 1, Len(wire))
  /\ UNCHANGED <<given, step, rdbuf, version, got, toDev, open, now, stamps, nOpen>>

\* The incomplete line is forgotten (mutant).
ReadFrames_Forget ==
  /\ step = "serve"
  /\ \E k \in 1 .. Len(wire) :
       LET p == Parse(SubSeq(wire, 1, k), high)
       IN  /\ leftover' = <<>>
           /\ high' = p.high /\ returned' = returned \o p.frames
           /\ wire' = SubSeq(wire, k + 1, Len(wire))
  /\ UNCHANGED <<given, step, rdbuf, version, got, toDev, open, now, stamps, nOpen>>

\* One read_frames: the await of data, then every complete line.
ReadFrames ==
  /\ step = "serve"
  /\ \E k \in 1 .. Len(wire) :
       LET p == Parse(leftover \o SubSeq(wire, 1, k), high)
       IN  /\ leftover' = p.line
           /\ high' = p.high /\ returned' = returned \o p.frames
           /\ wire' = SubSeq(wire, k + 1, Len(wire))
  /\ UNCHANGED <<given, step, rdbuf, version, got, toDev, open, now, stamps, nOpen>>

\* The server shuts down: a read in progress is dropped.
Shutdown ==
  /\ step = "serve"
  /\ step' = "closing"
  /\ UNCHANGED <<given, rdbuf, version, got, leftover, high, returned, toDev, devVars>>

-----------------------------------------------------------------------------
(* The adapter *)

\* It handles the next command; what is asked may go unanswered.
Handle ==
  /\ toDev # <<>>
  /\ toDev' = Tail(toDev)
  /\ LET c == Head(toDev)
     IN  /\ open' = CASE c = "C" -> FALSE [] c = "O" -> TRUE [] OTHER -> open
         /\ nOpen' = IF c = "O" THEN Len(stamps) ELSE nOpen
         /\ \/ c = "V" /\ wire' = wire \o Line("version", 0, 0)
            \/ c = "B" /\ AnswersB /\ wire' = wire \o Text("rate", 0, 0)
            \/ (c = "B" => ~ AnswersB) /\ UNCHANGED wire
  /\ UNCHANGED <<driverVars, now, stamps>>

Hear ==
  /\ open /\ step \notin Over /\ Len(stamps) < MaxRx
  /\ stamps' = Append(stamps, now)
  /\ \E k \in Kinds : wire' = wire \o Line(k, Len(stamps) + 1, now % Wrap)
  /\ UNCHANGED <<driverVars, toDev, open, now, nOpen>>

\* The clock of an open channel ticks; it tells when it wraps.
Tick ==
  /\ open /\ step \notin Over /\ now < MaxTime
  /\ now' = now + 1
  /\ wire' = IF (now + 1) % Wrap = 0 THEN wire \o Line("J", 0, 0) ELSE wire
  /\ UNCHANGED <<driverVars, toDev, open, stamps, nOpen>>

Gone == step \in Over /\ toDev = <<>> /\ UNCHANGED vars

-----------------------------------------------------------------------------
SetUp == WriteCommand \/ AskVersion \/ FillVersion \/ TakeVersion
         \/ AskBitrate \/ MeasureRead

Next ==
  \/ SetUp \/ BadBitrate \/ VersionTimeout \/ ReadFrames \/ Shutdown
  \/ Handle \/ Hear \/ Tick \/ Gone

Spec == Init /\ [][Next]_vars

(***************************************************************************)
(* The calls proceed, the timer of get_version runs out, the server calls  *)
(* read_frames again and again and the adapter handles its commands.       *)
(***************************************************************************)
Fairness ==
  WF_vars(SetUp) /\ WF_vars(VersionTimeout) /\ WF_vars(ReadFrames) /\ WF_vars(Handle)

FairSpec == Spec /\ Fairness

-----------------------------------------------------------------------------
(* Properties *)

Numbers(frames) == [i \in 1 .. Len(frames) |-> frames[i].n]

(***************************************************************************)
(* However the stream is cut into reads, the frames returned and those     *)
(* still to be parsed are an unbroken run up to the last one heard, and    *)
(* hold every frame heard since the channel was opened.                    *)
(***************************************************************************)
RxExact ==
  step = "serve" =>
    LET s == Numbers(returned) \o Numbers(Parse(leftover \o wire, high).frames)
        d == Len(stamps) - Len(s)
    IN  /\ s = [i \in 1 .. Len(s) |-> d + i]
        /\ nOpen >= d \/ toDev # <<>>

(***************************************************************************)
(* The 64-bit timestamps of frames heard since the channel was opened are  *)
(* as far apart as the times at which the adapter heard them, across the   *)
(* overflows of its clock.                                                 *)
(***************************************************************************)
TimeExact ==
  \A i, j \in 1 .. Len(returned) :
    LET f == returned[i]  g == returned[j]
    IN  nOpen < f.n /\ f.n < g.n => g.ts + stamps[f.n] = f.ts + stamps[g.n]

(***************************************************************************)
(* The bytes taken for the measured bitrate are the adapter's answer, not  *)
(* left-over frames or the tail of another answer.                         *)
(***************************************************************************)
MeasuredIsAnswer == step \in {"set", "ts", "open", "serve"} /\ ~ given
                    => got = Text("rate", 0, 0)

(***************************************************************************)
(* A line that is a CAN frame is never taken for the firmware version      *)
(* (slcan.rs:203 says that frames are skipped).                            *)
(***************************************************************************)
VersionNotFrame == ~ IsText(version, {"t", "T"})

\* The set-up ends, one way or the other.
SetUpEnds == <>(step \in {"serve", "closing"} \cup Over)

\* A frame heard while the server serves is returned, or the server closes.
FrameReturned ==
  \A n \in 1 .. MaxRx :
    (step = "serve" /\ toDev = <<>> /\ nOpen < n /\ n <= Len(stamps))
      ~> (step # "serve" \/ \E i \in 1 .. Len(returned) : returned[i].n = n)
=============================================================================
