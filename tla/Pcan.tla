--------------------------------- MODULE Pcan ---------------------------------
(***************************************************************************)
(* The PCAN driver (src/src/drivers/pcan.rs) from init_pcan of the server  *)
(* to its close.  PCANBasic.dll is external: it keeps a receive queue per  *)
(* channel and stamps each frame with a count of milliseconds, the number  *)
(* of times that count has wrapped, and microseconds.                      *)
(***************************************************************************)
EXTENDS Naturals, Sequences

CONSTANTS
  Plugged,        \* sets of channels with hardware, of which one is given
  Rates,          \* bitrates with a constant in the PCAN library
  HwMax, HwWrap,  \* bound on frames heard; milliseconds wrap modulo this (2^32)
  Milli           \* microseconds in a millisecond (1000)

VARIABLES
  pstep,      \* the caller's current call
  auto,       \* the channel is to be found
  channel,    \* field channel
  rate,       \* field configured_bitrate, 0 for None
  plugged,    \* the channels with hardware
  active,     \* the channel is initialised
  hwQ,        \* the library's receive queue
  batch,      \* the frames the current read_frames has taken
  read,       \* frames returned by read_frames
  times,      \* the time at which each frame was heard, in microseconds
  lost        \* frames taken by a read_frames that failed

pvars == <<pstep, auto, channel, rate, plugged, active, hwQ, batch, read, times, lost>>

Common == <<"USBBUS1", "USBBUS2", "USBBUS3", "USBBUS4",
            "PCIBUS1", "PCIBUS2", "LANBUS1", "LANBUS2">>
Channels == {Common[i] : i \in 1 .. Len(Common)}

Fresh ==
  /\ channel = "none" /\ rate = 0
  /\ hwQ = <<>> /\ batch = <<>> /\ read = <<>> /\ times = <<>> /\ lost = <<>>

Init ==
  /\ pstep = "pick" /\ auto \in BOOLEAN /\ Fresh
  /\ plugged \in Plugged /\ active \in BOOLEAN

\* Another driver was asked for.
Unused == pstep = "exited" /\ auto = FALSE /\ Fresh /\ plugged = {} /\ active = FALSE

-----------------------------------------------------------------------------
(* init_pcan *)

\* PcanDriver::open looks for the library only, so that the search
\* for a channel ends at the first name; a name may be unknown, the library missing.
Pick ==
  /\ pstep = "pick"
  /\ \/ channel' \in (IF auto THEN {Common[1]} ELSE Channels) /\ pstep' = "close0"
     \/ channel' = channel /\ pstep' = "failed"
  /\ UNCHANGED <<auto, rate, plugged, active, hwQ, batch, read, times, lost>>

\* The result of closing a channel left open is ignored.
CloseLeft ==
  /\ pstep = "close0"
  /\ pstep' = "set" /\ active' = FALSE
  /\ UNCHANGED <<auto, channel, rate, plugged, hwQ, batch, read, times, lost>>

\* A bitrate is required, and must have a constant.
SetBitrate ==
  /\ pstep = "set"
  /\ \/ rate' \in Rates /\ pstep' = "open"
     \/ rate' = rate /\ pstep' = "failed"
  /\ UNCHANGED <<auto, channel, plugged, active, hwQ, batch, read, times, lost>>

\* CAN_Initialize; enable_timestamp before it does nothing.
OpenChannel ==
  /\ pstep = "open"
  /\ \/ channel \in plugged /\ active' = TRUE /\ pstep' = "serve"
     \/ active' = FALSE /\ pstep' = "failed"
  /\ UNCHANGED <<auto, channel, rate, plugged, hwQ, batch, read, times, lost>>

-----------------------------------------------------------------------------
(* read_frames *)

BeginRead ==
  /\ pstep = "serve"
  /\ pstep' = "reading" /\ batch' = <<>>
  /\ UNCHANGED <<auto, channel, rate, plugged, active, hwQ, read, times, lost>>

\* The wraps of the milliseconds are left out (mutant).
Stamp_NoOverflow(f) == f.millis * Milli + f.micros

Stamp(f) == (f.overflow * HwWrap + f.millis) * Milli + f.micros

\* CAN_Read returns a frame.
ReadOne ==
  /\ pstep = "reading" /\ hwQ # <<>>
  /\ batch' = Append(batch, [n |-> Head(hwQ).n, ts |-> Stamp(Head(hwQ))])
  /\ hwQ' = Tail(hwQ)
  /\ UNCHANGED <<pstep, auto, channel, rate, plugged, active, read, times, lost>>

\* PEAK_ERROR_QRCVEMPTY ends the batch.
ReadEmpty ==
  /\ pstep = "reading" /\ hwQ = <<>>
  /\ pstep' = "serve" /\ read' = read \o batch /\ batch' = <<>>
  /\ UNCHANGED <<auto, channel, rate, plugged, active, hwQ, times, lost>>

\* Any other status, or a frame that CanFrame rejects, ends the call, and the
\* forwarding task with it: main may close the channel or not get to it.
ReadError ==
  /\ pstep = "reading"
  /\ pstep' \in {"closing", "exited"}
  /\ \/ lost' = batch /\ hwQ' = hwQ
     \/ /\ hwQ # <<>>
        /\ lost' = Append(batch, [n |-> Head(hwQ).n, ts |-> Stamp(Head(hwQ))])
        /\ hwQ' = Tail(hwQ)
  /\ batch' = <<>>
  /\ UNCHANGED <<auto, channel, rate, plugged, active, read, times>>

\* The forwarding task is dropped in the middle of a batch (mutant).
Shutdown_Anywhere ==
  /\ pstep \in {"serve", "reading"}
  /\ pstep' = "closing" /\ batch' = <<>>
  /\ UNCHANGED <<auto, channel, rate, plugged, active, hwQ, read, times, lost>>

\* The server shuts down.  Nothing is awaited between two reads of a batch, so
\* that a call that has begun to read ends.
Shutdown ==
  /\ pstep = "serve"
  /\ pstep' = "closing"
  /\ UNCHANGED <<auto, channel, rate, plugged, active, hwQ, batch, read, times, lost>>

CloseChannel ==
  /\ pstep = "closing"
  /\ pstep' = "exited" /\ active' \in {FALSE, active}
  /\ UNCHANGED <<auto, channel, rate, plugged, hwQ, batch, read, times, lost>>

-----------------------------------------------------------------------------
(* The library *)

\* A frame is heard; the clock has advanced by less than it can tell apart.
HwHear ==
  /\ active /\ pstep \in {"serve", "reading"} /\ Len(times) < HwMax
  /\ \E d \in {1, Milli, Milli * HwWrap - 1} :
       LET t  == (IF times = <<>> THEN 0 ELSE times[Len(times)]) + d
           ms == t \div Milli
       IN  /\ times' = Append(times, t)
           /\ hwQ' = Append(hwQ, [n |-> Len(times) + 1, millis |-> ms % HwWrap,
                                  overflow |-> ms \div HwWrap, micros |-> t % Milli])
  /\ UNCHANGED <<pstep, auto, channel, rate, plugged, active, batch, read, lost>>

Gone == pstep \in {"exited", "failed"} /\ UNCHANGED pvars

Next ==
  \/ Pick \/ CloseLeft \/ SetBitrate \/ OpenChannel
  \/ BeginRead \/ ReadOne \/ ReadEmpty \/ ReadError
  \/ Shutdown \/ CloseChannel \/ HwHear \/ Gone

-----------------------------------------------------------------------------
(***************************************************************************)
(* Every frame taken from the library is returned, in order and once: only *)
(* a read that fails loses frames, those it had taken, and a shutdown      *)
(* loses none (pcan.rs:219-272, dropped at an await only).                 *)
(***************************************************************************)
PcanRxExact ==
  LET all == read \o lost \o batch
  IN  /\ \A i \in 1 .. Len(all) : all[i].n = i
      /\ Len(all) + Len(hwQ) = Len(times)
      /\ lost # <<>> => pstep \in {"closing", "exited"}

(***************************************************************************)
(* The 64-bit timestamps are the times in microseconds at which the frames *)
(* were heard, across the wraps of the milliseconds (pcan.rs:265).         *)
(***************************************************************************)
PcanTimeExact == \A i \in 1 .. Len(read) : read[i].ts = times[read[i].n]
=============================================================================
