------------------------------ MODULE HostFrames ------------------------------
(***************************************************************************)
(* The stream of gs_usb host frames, byte by byte: the rx_buffer of the    *)
(* USB event loop (src/src/drivers/gs_usb/driver.rs, process_rx_chunk) and *)
(* parse_host_frame_at (src/src/drivers/gs_usb/frames.rs), from the first  *)
(* receive transfer of GsUsbDriver::open to the frames of a started        *)
(* channel.  GsUsb treats the same stream one frame at a time.             *)
(*                                                                         *)
(* A host frame is 4 bytes of echo id, 4 of CAN id, the DLC, the channel,  *)
(* 2 more, 8 bytes of payload (the channel is started without FD) and, as  *)
(* the MODE flags say, 4 bytes of time stamp and padding.  A chunk is one  *)
(* USB packet.  Only bytes that steer the parser vary: a payload is one    *)
(* byte repeated, and time is counted in units of 2^24, so that its low 32 *)
(* bits are one byte after three zeros.                                    *)
(***************************************************************************)
EXTENDS Naturals, Sequences

CONSTANTS
  Wmax,          \* out_wmax, the packet size
  Supports,      \* the MODE flags the adapter implements
  LeftRunning,   \* an earlier session may have left the channel started
  Ids, Dlcs,     \* CAN ids (four bytes, with flags) and DLCs on the bus
  Fills,         \* payload bytes
  Jumps,         \* time that may pass between two host frames
  MaxFrames,     \* bound: host frames sent
  MaxData        \* the longest payload CanFrame::new accepts

Flags == {"ts", "pad"}

ASSUME FormatAssumption ==
  /\ Wmax \in Nat \ {0} /\ Supports \subseteq Flags /\ LeftRunning \in BOOLEAN
  /\ Dlcs \subseteq 0 .. 15 /\ Fills \subseteq 0 .. 255
  /\ Ids \subseteq [1 .. 4 -> 0 .. 255]
  /\ Jumps \subseteq Nat /\ MaxFrames \in Nat /\ MaxData \in Nat

VARIABLES
  phase,     \* how far the handshake and the set-up have got
  flags,     \* loop fields timestamp_enabled and pad_pkts_enabled
  buf,       \* loop field rx_buffer
  last,      \* loop field last_timestamp64: None, or its two halves
  out,       \* frames pushed to the frame channel, in order
  dead,      \* the event loop panicked
  usb,       \* packets sent by the adapter and not yet taken
  started,   \* the adapter is in START mode
  dev,       \* the MODE flags of that START
  now,       \* the adapter's clock
  early,     \* host frames sent before START
  echoes,    \* echoes of our frames sent since START
  sent       \* frames of the bus sent since START, and when

loopVars == <<flags, buf, last, out, dead>>
vars == <<phase, loopVars, usb, started, dev, now, early, echoes, sent>>

None == <<>>
Unused == <<255, 255, 255, 255>>     \* GS_CAN_ECHO_ID_UNUSED
Echo   == <<1, 0, 0, 0>>             \* the echo id of a frame we sent
Zeros(n) == [i \in 1 .. n |-> 0]
AlignUp(n, m) == ((n + m - 1) \div m) * m

DlcToLen(dlc) ==
  IF dlc <= 8 THEN dlc
  ELSE IF dlc <= 15 THEN <<12, 16, 20, 24, 32, 48, 64>>[dlc - 8] ELSE 0

\* Header and payload of a frame with a payload of n bytes.
BaseLen(n) == 12 + (IF n <= 8 THEN 8 ELSE AlignUp(n, 8))

\* The CanFrame of an id field and a payload: bits 29 to 31 of the id say
\* whether it is an error, a remote or an extended frame.
CanFrame(id, dlc, data) ==
  LET Bit(n) == (id[4] \div n) % 2 = 1
      Eff    == <<id[1], id[2], id[3], id[4] % 32>>
      Id     == IF Bit(128) THEN Eff ELSE <<id[1], id[2] % 8, 0, 0>>
  IN  IF Bit(32) THEN [kind |-> "error", id |-> Eff, data |-> <<>>]
      ELSE IF Bit(64) THEN [kind |-> "remote", id |-> Id,
                            data |-> Zeros(IF dlc <= 8 THEN dlc ELSE 8)]
      ELSE [kind |-> "data", id |-> Id, data |-> data]

-----------------------------------------------------------------------------
(* The parser: what it says of the bytes from the current offset on.        *)

Wait         == [kind |-> "wait", n |-> 0]
Skip(n)      == [kind |-> "skip", n |-> n]
Panic        == [kind |-> "panic", n |-> 0]
Accept(n, frame, at) == [kind |-> "frame", n |-> n, frame |-> frame, at |-> at]

\* Echoes are skipped; of the others the real payload is taken, if it is
\* there.  A frame that CanFrame rejects is reported like an incomplete one.
Body(b, len, n, at) ==
  LET frame == CanFrame(SubSeq(b, 5, 8), b[9], SubSeq(b, 13, 12 + len))
  IN  IF b[10] # 0 THEN Skip(1)
      ELSE IF SubSeq(b, 1, 4) # Unused THEN Skip(n)
      ELSE IF Len(b) < 12 + len THEN Panic
      ELSE IF frame.kind = "data" /\ len > MaxData THEN Wait
      ELSE Accept(n, frame, at)

\* The padding is counted but not waited for (mutant).
ParseAt_NoPadWait(b) ==
  LET len    == DlcToLen(b[9])
      base   == BaseLen(len)
      need   == IF "ts" \in flags THEN base + 4 ELSE base
      padded == IF "pad" \in flags THEN AlignUp(need, Wmax) ELSE need
  IN  IF b[9] > 15 THEN Skip(1)
      ELSE IF Len(b) < need /\ (flags # {} \/ len = 0) THEN Wait
      ELSE Body(b, len, padded,
                IF "ts" \in flags THEN SubSeq(b, base + 1, base + 4) ELSE None)

(***************************************************************************)
(* parse_host_frame_at.  With neither timestamps nor padding nothing waits *)
(* for the payload, but for the 20 bytes of a frame without one.           *)
(***************************************************************************)
ParseAt(b) ==
  LET len    == DlcToLen(b[9])
      base   == BaseLen(len)
      need   == IF "ts" \in flags THEN base + 4 ELSE base
      padded == IF "pad" \in flags THEN AlignUp(need, Wmax) ELSE need
  IN  IF b[9] > 15 THEN Skip(1)
      ELSE IF Len(b) < padded /\ (flags # {} \/ len = 0) THEN Wait
      ELSE Body(b, len, padded,
                IF "ts" \in flags THEN SubSeq(b, base + 1, base + 4) ELSE None)

\* a < b as little-endian numbers.
Less32(a, b) ==
  \E i \in 1 .. 4 : a[i] < b[i] /\ \A j \in (i + 1) .. 4 : a[j] = b[j]

\* The high half never advances (mutant).
Stamp64_NoWrap(t, prev) ==
  IF t = None THEN prev ELSE <<IF prev = None THEN 0 ELSE prev[1], t>>

\* The 64-bit time of a 32-bit one, given the one before.
Stamp64(t, prev) ==
  IF t = None THEN prev
  ELSE <<IF prev = None THEN 0
         ELSE IF Less32(t, prev[2]) THEN prev[1] + 1 ELSE prev[1], t>>

\* The loop of process_rx_chunk: its offset, which may be past the last byte,
\* the last time, the frames pushed, and whether it goes on.
Loop(offset, time, frames, state) ==
  [offset |-> offset, time |-> time, frames |-> frames, state |-> state]

Turn(b, s) ==
  LET p == ParseAt(SubSeq(b, s.offset + 1, Len(b)))
      t == Stamp64(p.at, s.time)
  IN  IF s.state # "more" THEN s
      ELSE IF Len(b) < s.offset + 12 \/ p.kind = "wait"
        THEN Loop(s.offset, s.time, s.frames, "wait")
      ELSE IF p.kind = "panic" THEN Loop(s.offset, s.time, s.frames, "panic")
      ELSE IF p.kind = "skip" THEN Loop(s.offset + p.n, s.time, s.frames, "more")
      ELSE Loop(s.offset + p.n, t,
                Append(s.frames, [frame |-> p.frame,
                                  at    |-> IF p.at = None THEN None ELSE t]), "more")

\* A turn that does not end the loop takes at least one byte.
Parsed(b) ==
  LET s[i \in 0 .. Len(b)] == IF i = 0 THEN Loop(0, last, out, "more") ELSE Turn(b, s[i - 1])
  IN  s[Len(b)]

-----------------------------------------------------------------------------
Init ==
  /\ phase = "open" /\ flags = {} /\ buf = <<>> /\ last = None
  /\ out = <<>> /\ dead = FALSE /\ usb = <<>>
  /\ \/ started = FALSE /\ dev = {}
     \/ LeftRunning /\ started = TRUE /\ dev \in SUBSET Supports
  /\ now = 0 /\ early = 0 /\ echoes = 0 /\ sent = <<>>

\* Each packet is parsed by itself (mutant).
Receive_Fresh ==
  /\ usb # <<>> /\ ~ dead
  /\ LET b == Head(usb)
         r == Parsed(b)
     IN  /\ out' = r.frames /\ last' = r.time
         /\ dead' = (r.state = "panic" \/ r.offset > Len(b))
         /\ buf' = SubSeq(b, r.offset + 1, Len(b))
  /\ usb' = Tail(usb)
  /\ UNCHANGED <<phase, flags, started, dev, now, early, echoes, sent>>

(***************************************************************************)
(* process_rx_chunk.  It panics where the parser takes a payload that is   *)
(* not there, and where it drains more bytes than the buffer holds; the    *)
(* frames found before were already pushed.                                *)
(***************************************************************************)
Receive ==
  /\ usb # <<>> /\ ~ dead
  /\ LET b == buf \o Head(usb)
         r == Parsed(b)
     IN  /\ out' = r.frames /\ last' = r.time
         /\ dead' = (r.state = "panic" \/ r.offset > Len(b))
         /\ buf' = SubSeq(b, r.offset + 1, Len(b))
  /\ usb' = Tail(usb)
  /\ UNCHANGED <<phase, flags, started, dev, now, early, echoes, sent>>

\* UsbCommand::UpdateConfig, at the end of GsUsbDriver::open.
UpdateConfig ==
  /\ phase = "open" /\ ~ dead
  /\ phase' = "updated" /\ flags' = flags \cup (Supports \cap {"pad"})
  /\ UNCHANGED <<buf, last, out, dead, usb, started, dev, now, early, echoes, sent>>

\* MODE RESET: the adapter falls silent.
Reset ==
  /\ phase = "updated" /\ ~ dead
  /\ phase' = "reset" /\ started' = FALSE
  /\ UNCHANGED <<loopVars, usb, dev, now, early, echoes, sent>>

\* The TIMESTAMP request, noted by the loop whatever the adapter answers.
EnableTimestamp ==
  /\ phase = "reset" /\ ~ dead
  /\ phase' = "stamped" /\ flags' = flags \cup {"ts"}
  /\ UNCHANGED <<buf, last, out, dead, usb, started, dev, now, early, echoes, sent>>

\* MODE START, with the flags the loop now expects.
Start ==
  /\ phase = "stamped" /\ ~ dead
  /\ phase' = "started" /\ started' = TRUE /\ dev' = flags \cap Supports
  /\ UNCHANGED <<loopVars, usb, now, early, echoes, sent>>

-----------------------------------------------------------------------------
(* The adapter *)

HostFrame(echo, id, dlc, fill, t) ==
  LET n    == IF dlc <= 8 THEN dlc ELSE 8
      need == IF "ts" \in dev THEN 24 ELSE 20
  IN  [i \in 1 .. (IF "pad" \in dev THEN AlignUp(need, Wmax) ELSE need) |->
         CASE i <= 4                   -> echo[i]
           [] i \in 5 .. 8             -> id[i - 4]
           [] i = 9                    -> dlc
           [] i \in 13 .. 12 + n       -> fill
           [] i = 24 /\ "ts" \in dev   -> t % 256
           [] OTHER                    -> 0]

\* A transfer of more than a packet reaches the host in several.
Packets(s) ==
  [i \in 1 .. ((Len(s) + Wmax - 1) \div Wmax) |->
     SubSeq(s, (i - 1) * Wmax + 1, IF i * Wmax < Len(s) THEN i * Wmax ELSE Len(s))]

\* A host frame goes out at time t.
Send(echo, id, dlc, fill, t) ==
  /\ now' = t
  /\ usb' = usb \o Packets(HostFrame(echo, id, dlc, fill, t))
  /\ IF phase # "started" THEN early' = early + 1 /\ UNCHANGED <<echoes, sent>>
     ELSE IF echo = Echo THEN echoes' = echoes + 1 /\ UNCHANGED <<early, sent>>
     ELSE /\ sent' = Append(sent, [t     |-> t,
                                  frame |-> CanFrame(id, dlc, [i \in 1 .. dlc |-> fill])])
          /\ UNCHANGED <<early, echoes>>

\* The adapter sends up a frame of the bus, or the echo of one of ours.
Emit ==
  /\ started /\ ~ dead /\ early + echoes + Len(sent) < MaxFrames
  /\ \E echo \in {Unused, Echo}, id \in Ids, dlc \in Dlcs, fill \in Fills, j \in Jumps :
       Send(echo, id, dlc, fill, now + j)
  /\ UNCHANGED <<phase, loopVars, started, dev>>

Done == (dead \/ phase = "started") /\ UNCHANGED vars

Next ==
  \/ Receive \/ UpdateConfig \/ Reset \/ EnableTimestamp \/ Start
  \/ Emit \/ Done

Spec == Init /\ [][Next]_vars

-----------------------------------------------------------------------------
(* Properties *)

\* The host sees the stream from its first byte on, in the format it expects.
Clean == early = 0 /\ phase = "started" /\ dev = flags

(***************************************************************************)
(* However the frames are cut into packets, the frames handed on are the   *)
(* frames heard, in order, each whole, with our echoes left out; once the  *)
(* packets are taken none is missing (process_rx_chunk, driver.rs:219).    *)
(***************************************************************************)
Exact ==
  Clean => /\ Len(out) <= Len(sent)
           /\ \A i \in 1 .. Len(out) : out[i].frame = sent[i].frame
           /\ usb = <<>> => Len(out) = Len(sent) /\ buf = <<>> /\ ~ dead

(***************************************************************************)
(* The 64-bit times differ by the time that passed, even when the 32-bit   *)
(* counter wraps in between, as long as no two frames heard in a row are a *)
(* whole turn of it apart; and then they lose whole turns only             *)
(* (frames.rs:176-186).                                                    *)
(***************************************************************************)
TimeExact ==
  LET T(i)  == out[i].at[1] * 256 + out[i].at[2][4]
      Gap(i) == sent[i + 1].t - sent[i].t
  IN  Clean => \A i \in 1 .. Len(out) - 1 :
        T(i) <= T(i + 1) /\ T(i + 1) - T(i) = Gap(i) % 256

(***************************************************************************)
(* The event loop can panic only before the set-up has told it of padding  *)
(* or timestamps, whatever bytes an earlier session left in its buffer:    *)
(* afterwards every length it uses has been waited for (frames.rs:103-133).*)
(***************************************************************************)
PanicsOnlyBare == [][dead' # dead => flags = {}]_vars
=============================================================================
