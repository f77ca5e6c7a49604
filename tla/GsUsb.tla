-------------------------------- MODULE GsUsb --------------------------------
(***************************************************************************)
(* The gs_usb driver (src/src/drivers/gs_usb/driver.rs) as canserver uses  *)
(* it: the driver handle, the USB event loop thread and the adapter.       *)
(*                                                                         *)
(* The server calls the handle under one mutex, so there is one caller; it *)
(* goes through `step': the handshake of GsUsbDriver::open, the calls of   *)
(* init_gsusb, then serving, then the final close_channel.  A call puts a  *)
(* command in a channel and awaits a oneshot reply; the event loop takes   *)
(* commands and completed receive transfers in no fixed order (select!).   *)
(*                                                                         *)
(* A CAN frame is its number in its direction.  Bytes are abstracted to    *)
(* the format they are in: the set of MODE flags in force when the adapter *)
(* sent them ("ts": a timestamp trailer, "pad": padding to a packet).      *)
(***************************************************************************)
EXTENDS Naturals, Sequences

CONSTANTS
  CmdCap, FrameCap,   \* capacity of the two mpsc channels (128 and 1024)
  NumRx,              \* receive transfers in flight (8)
  MaxTx, MaxRx,       \* bounds: frames sent, frames heard
  MaxFaults,          \* bound: USB transfers that fail while it is plugged
  MaxFound,           \* bound: frames found in one pass by a parser out of step
  Stalls,             \* a bulk write may stall (BrokenPipe)
  LeftRunning,        \* a previous session may have left the channel started
  Supports            \* the MODE flags the adapter implements

Flags == {"ts", "pad"}

ASSUME CapAssumption ==
  CmdCap \in Nat \ {0} /\ FrameCap \in Nat \ {0} /\ NumRx \in Nat \ {0}
ASSUME BoundAssumption ==
  MaxTx \in Nat /\ MaxRx \in Nat /\ MaxFaults \in Nat /\ MaxFound \in Nat
ASSUME AdapterAssumption ==
  Stalls \in BOOLEAN /\ LeftRunning \in BOOLEAN /\ Supports \subseteq Flags

VARIABLES
  step,         \* the caller's current call
  waiting,      \* its command is sent, the oneshot is awaited
  reply,        \* the oneshot: None or the outcome
  flags,        \* driver fields timestamp_enabled and pad_pkts
  nTx,          \* frames given to send_frame so far
  acked,        \* frames for which send_frame returned Ok
  drained,      \* frames returned by read_frames, in order
  cmdQ,         \* channel cmd_tx / cmd_rx
  frameQ,       \* channel frame_tx / frame_rx
  held,         \* frames the loop is pushing: it is blocked until it can
  loopFlags,    \* loop fields timestamp_enabled and pad_pkts_enabled
  rxBuf,        \* the loop's rx_buffer, a chunk or the rest of one at a time
  started,      \* adapter: the channel is in START mode
  devFlags,     \* adapter: the flags of that START
  plugged,      \* adapter: still connected
  rxOut,        \* completed receive transfers not yet taken by the loop
  rxFailed,     \* number of failed ones not yet taken by the loop
  nRx,          \* frames heard on the bus and sent up so far
  onBus,        \* frames transmitted on the bus, in order
  faults        \* USB transfers that failed so far

callVars == <<step, waiting, reply, flags, nTx, acked, drained>>
loopVars == <<held, loopFlags, rxBuf>>
devVars  == <<started, devFlags, onBus, rxFailed>>
vars == <<callVars, cmdQ, frameQ, loopVars, devVars, plugged, rxOut, nRx, faults>>

None == "none"

-----------------------------------------------------------------------------
(* The calls: the request each step makes and the step that follows it.     *)

Request ==
  [host_format |-> "setup", bt_ext |-> "read", bt_const |-> "read",
   dev_config |-> "read", features_ext |-> "read", features |-> "read",
   close0 |-> "reset", reset1 |-> "reset", timing |-> "timing",
   ts |-> "ts", reset2 |-> "reset", start |-> "start",
   send |-> "bulk", resend |-> "bulk", close |-> "reset"]

Calls == DOMAIN Request

NextStep ==
  [host_format |-> "bt_ext", bt_ext |-> "dev_config", bt_const |-> "dev_config",
   dev_config |-> "features_ext", features_ext |-> "update", features |-> "update",
   close0 |-> "reset1", reset1 |-> "timing", timing |-> "ts",
   ts |-> "reset2", reset2 |-> "start", start |-> "serve",
   send |-> "serve", resend |-> "serve", close |-> "exited"]

\* An error ends the process, but for the calls with a fallback.
OnError(s) ==
  CASE s = "bt_ext"       -> "bt_const"
    [] s = "features_ext" -> "features"
    [] s \in {"features", "ts", "send", "resend", "close"} -> NextStep[s]
    [] OTHER -> "failed"

\* try_tx sends again after any failure of the write (mutant).
Fallback_Any(s, r) == s = "send" /\ r # "ok"

\* try_tx sends again, unpadded, after a stall of a padded write.
Fallback(s, r) == s = "send" /\ r = "stall" /\ "pad" \in flags

Serving == {"serve", "send", "resend"}
Over    == {"exited", "failed"}

Command(s) ==
  [req |-> Request[s], flags |-> flags,
   n |-> IF Request[s] = "bulk" THEN nTx ELSE 0, live |-> TRUE]

Init ==
  /\ step = "host_format" /\ waiting = FALSE /\ reply = None
  /\ flags = {} /\ nTx = 0 /\ acked = {} /\ drained = <<>>
  /\ cmdQ = <<>> /\ frameQ = <<>>
  /\ held = <<>> /\ loopFlags = {} /\ rxBuf = <<>>
  /\ \/ started = FALSE /\ devFlags = {}
     \/ LeftRunning /\ started = TRUE /\ devFlags \in SUBSET Supports
  /\ plugged = TRUE /\ rxOut = <<>> /\ rxFailed = 0
  /\ nRx = 0 /\ onBus = <<>> /\ faults = 0

-----------------------------------------------------------------------------
(* The caller *)

\* A command overtakes those in the channel (mutant).
Submit_Front ==
  /\ step \in Calls /\ ~ waiting /\ Len(cmdQ) < CmdCap
  /\ cmdQ' = <<Command(step)>> \o cmdQ
  /\ waiting' = TRUE
  /\ UNCHANGED <<step, reply, flags, nTx, acked, drained, frameQ, loopVars,
                 devVars, plugged, rxOut, nRx, faults>>

\* cmd_control_out, cmd_control_in, cmd_bulk_write up to the await of the reply.
Submit ==
  /\ step \in Calls /\ ~ waiting /\ Len(cmdQ) < CmdCap
  /\ cmdQ' = Append(cmdQ, Command(step))
  /\ waiting' = TRUE
  /\ UNCHANGED <<step, reply, flags, nTx, acked, drained, frameQ, loopVars,
                 devVars, plugged, rxOut, nRx, faults>>

\* UpdateConfig expects no reply.
SendUpdate ==
  /\ step = "update" /\ Len(cmdQ) < CmdCap
  /\ cmdQ' = Append(cmdQ, [req |-> "update", flags |-> flags, n |-> 0,
                           live |-> FALSE])
  /\ step' = "close0"
  /\ UNCHANGED <<waiting, reply, flags, nTx, acked, drained, frameQ, loopVars,
                 devVars, plugged, rxOut, nRx, faults>>

\* The fields a returning call changes.
NewFlags(s, r) ==
  CASE s \in {"features_ext", "features"} /\ r = "ok" -> flags \cup (Supports \cap {"pad"})
    [] s = "ts"       -> flags \cup {"ts"}        \* whatever the result
    [] Fallback(s, r) -> flags \ {"pad"}
    [] OTHER          -> flags

\* The reply arrives and the call returns or goes on.
Return ==
  /\ waiting /\ reply # None
  /\ waiting' = FALSE /\ reply' = None
  /\ step' = CASE reply = "ok"          -> NextStep[step]
               [] Fallback(step, reply) -> "resend"
               [] OTHER                 -> OnError(step)
  /\ flags' = NewFlags(step, reply)
  /\ acked' = IF Request[step] = "bulk" /\ reply = "ok"
                THEN acked \cup {nTx} ELSE acked
  /\ UNCHANGED <<nTx, drained, cmdQ, frameQ, loopVars, devVars, plugged, rxOut,
                 nRx, faults>>

BeginSend ==
  /\ step = "serve" /\ nTx < MaxTx
  /\ step' = "send" /\ nTx' = nTx + 1
  /\ UNCHANGED <<waiting, reply, flags, acked, drained, cmdQ, frameQ, loopVars,
                 devVars, plugged, rxOut, nRx, faults>>

\* read_frames keeps one frame of those it takes (mutant).
ReadFrames_First ==
  /\ step = "serve" /\ frameQ # <<>>
  /\ drained' = Append(drained, Head(frameQ)) /\ frameQ' = <<>>
  /\ UNCHANGED <<step, waiting, reply, flags, nTx, acked, cmdQ, loopVars,
                 devVars, plugged, rxOut, nRx, faults>>

\* read_frames: try_recv until the channel is empty, with no await.
ReadFrames ==
  /\ step = "serve" /\ frameQ # <<>>
  /\ drained' = drained \o frameQ /\ frameQ' = <<>>
  /\ UNCHANGED <<step, waiting, reply, flags, nTx, acked, cmdQ, loopVars,
                 devVars, plugged, rxOut, nRx, faults>>

\* The reply of the dropped send is left to the next call (mutant).
Shutdown_KeepReply ==
  /\ step \in Serving
  /\ step' = "close"
  /\ waiting' = FALSE
  /\ UNCHANGED <<reply, flags, nTx, acked, drained, cmdQ, frameQ, loopVars,
                 devVars, plugged, rxOut, nRx, faults>>

\* Shutdown: a send in progress is dropped, its command stays in the channel
\* with nobody to receive the reply; main then closes.
Shutdown ==
  /\ step \in Serving
  /\ step' = "close"
  /\ waiting' = FALSE /\ reply' = None
  /\ cmdQ' = [i \in 1 .. Len(cmdQ) |-> [cmdQ[i] EXCEPT !.live = FALSE]]
  /\ UNCHANGED <<flags, nTx, acked, drained, frameQ, loopVars, devVars, plugged,
                 rxOut, nRx, faults>>

-----------------------------------------------------------------------------
(* The event loop: one command ... *)

Ready == held = <<>> /\ step \notin Over

\* The select! is biased towards receive transfers (mutant).
CommandReady_Biased ==
  Ready /\ cmdQ # <<>> /\ rxOut = <<>> /\ rxFailed = 0

CommandReady == Ready /\ cmdQ # <<>>

\* An error leaves the caller without a reply (mutant).
Answer_OkOnly(c, r) == reply' = IF c.live /\ r = "ok" THEN r ELSE reply

\* A failed transfer is reported as done (mutant).
Answer_AllOk(c, r) == reply' = IF c.live THEN "ok" ELSE reply

Answer(c, r) == reply' = IF c.live THEN r ELSE reply

\* What the adapter does with a control request.
Apply(c) ==
  /\ started' = CASE c.req = "reset" -> FALSE [] c.req = "start" -> TRUE
                  [] OTHER -> started
  /\ devFlags' = IF c.req = "start" THEN c.flags \cap Supports ELSE devFlags

\* A control transfer succeeds, or fails having been applied or not.
Transfer(c, r) ==
  \/ r = "ok" /\ plugged /\ Apply(c) /\ UNCHANGED faults
  \/ /\ r = "err" /\ plugged /\ faults < MaxFaults
     /\ faults' = faults + 1
     /\ Apply(c) \/ UNCHANGED <<started, devFlags>>
  \/ r = "gone" /\ ~ plugged /\ UNCHANGED <<started, devFlags, faults>>

\* The loop notes the timestamp mode once the transfer succeeded (mutant).
LoopControl_TsOnOk ==
  /\ CommandReady
  /\ LET c == Head(cmdQ)
     IN  /\ c.req \notin {"update", "bulk"}
         /\ \E r \in {"ok", "err", "gone"} :
              /\ Transfer(c, r) /\ Answer(c, r)
              /\ loopFlags' = IF c.req = "ts" /\ r = "ok"
                                THEN loopFlags \cup {"ts"} ELSE loopFlags
  /\ cmdQ' = Tail(cmdQ)
  /\ UNCHANGED <<step, waiting, flags, nTx, acked, drained, frameQ, held,
                 rxBuf, onBus, plugged, rxOut, rxFailed, nRx>>

LoopControl ==
  /\ CommandReady
  /\ LET c == Head(cmdQ)
     IN  /\ c.req \notin {"update", "bulk"}
         /\ \E r \in {"ok", "err", "gone"} : Transfer(c, r) /\ Answer(c, r)
         /\ loopFlags' = IF c.req = "ts" THEN loopFlags \cup {"ts"} ELSE loopFlags
  /\ cmdQ' = Tail(cmdQ)
  /\ UNCHANGED <<step, waiting, flags, nTx, acked, drained, frameQ, held,
                 rxBuf, onBus, plugged, rxOut, rxFailed, nRx>>

LoopUpdate ==
  /\ CommandReady /\ Head(cmdQ).req = "update"
  /\ loopFlags' = (loopFlags \ {"pad"}) \cup (Head(cmdQ).flags \cap {"pad"})
  /\ cmdQ' = Tail(cmdQ)
  /\ UNCHANGED <<callVars, frameQ, held, rxBuf, devVars, plugged, rxOut, nRx,
                 faults>>

Transmit(c) == onBus' = IF started THEN Append(onBus, c.n) ELSE onBus

\* A bulk write that does not stall; one that times out may have gone through.
LoopBulk ==
  /\ CommandReady /\ Head(cmdQ).req = "bulk"
  /\ LET c == Head(cmdQ)
     IN  \/ /\ plugged /\ Transmit(c) /\ Answer(c, "ok")
            /\ UNCHANGED faults
         \/ /\ plugged /\ faults < MaxFaults /\ faults' = faults + 1
            /\ Answer(c, "timeout")
            /\ Transmit(c) \/ UNCHANGED onBus
         \/ ~ plugged /\ Answer(c, "gone") /\ UNCHANGED <<onBus, faults>>
  /\ cmdQ' = Tail(cmdQ)
  /\ UNCHANGED <<step, waiting, flags, nTx, acked, drained, frameQ, loopVars,
                 started, devFlags, plugged, rxOut, rxFailed, nRx>>

(***************************************************************************)
(* A bulk write stalls and the loop recovers: RESET, then START without    *)
(* flags.  An error of either (a stall too, maybe) replaces the outcome;   *)
(* the failed request may have been applied or not.                        *)
(***************************************************************************)
LoopStall ==
  /\ Stalls /\ plugged /\ CommandReady /\ Head(cmdQ).req = "bulk"
  /\ faults < MaxFaults /\ faults' = faults + 1
  /\ \E r \in {"stall", "err"} :
       /\ Answer(Head(cmdQ), r)
       /\ \/ started' = TRUE /\ devFlags' = {}
          \/ started' \in {started, FALSE} /\ UNCHANGED devFlags
  /\ cmdQ' = Tail(cmdQ)
  /\ UNCHANGED <<step, waiting, flags, nTx, acked, drained, frameQ, loopVars,
                 onBus, plugged, rxOut, rxFailed, nRx>>

(* ... or one completed receive transfer *)

(***************************************************************************)
(* The buffer is a sequence of chunks, each the host frame n in the format *)
(* flags; the first may be the rest of one whose header is gone.           *)
(***************************************************************************)
Rest == [n |-> 0, flags |-> {}]

InStep(b) == \A i \in 1 .. Len(b) : b[i].n > 0 /\ b[i].flags = loopFlags

(***************************************************************************)
(* Where a parser out of step finds m frames among k chunks: each starts   *)
(* at the header of a chunk or inside one, behind the start of the last.   *)
(***************************************************************************)
Places(k, m) ==
  {at \in [1 .. m -> [chunk : 1 .. k, header : BOOLEAN]] :
     \A i, j \in 1 .. m : i < j =>
        /\ at[i].chunk <= at[j].chunk
        /\ at[j].header => at[i].chunk < at[j].chunk}

\* What it finds there: the frame of the chunk, or one that never was (0).
Found(b) ==
  UNION {{[i \in 1 .. m |-> IF at[i].header THEN b[at[i].chunk].n ELSE 0] :
            at \in Places(Len(b), m)} : m \in 0 .. MaxFound}

\* The buffer is not drained (mutant).
Parses_NoDrain(b) ==
  IF InStep(b) THEN {[frames |-> [i \in 1 .. Len(b) |-> b[i].n], left |-> b]}
  ELSE [frames : Found(b), left : {b}]

(***************************************************************************)
(* What process_rx_chunk makes of the buffer, the new chunk at its end.    *)
(* Chunks in the format it expects are one frame each.  Otherwise it stops *)
(* for lack of bytes behind some chunk or inside it: what it has passed is *)
(* gone, the frames it missed included; what it has not is kept, and the   *)
(* frames in it may still be found when more bytes have come.              *)
(***************************************************************************)
Parses(b) ==
  IF InStep(b) THEN {[frames |-> [i \in 1 .. Len(b) |-> b[i].n], left |-> <<>>]}
  ELSE UNION {LET tail == SubSeq(b, k + 1, Len(b))
              IN  [frames : Found(SubSeq(b, 1, k)),
                   left   : {tail} \cup {<<Rest>> \o tail : i \in 1 .. k}] :
                k \in 0 .. Len(b)}

\* The last completed transfer is taken first (mutant).
LoopReceive_Lifo ==
  /\ Ready /\ rxOut # <<>>
  /\ \E p \in Parses(Append(rxBuf, rxOut[Len(rxOut)])) :
       held' = p.frames /\ rxBuf' = p.left
  /\ rxOut' = SubSeq(rxOut, 1, Len(rxOut) - 1)
  /\ UNCHANGED <<callVars, cmdQ, frameQ, loopFlags, devVars, plugged, nRx, faults>>

\* A receive transfer that succeeded is parsed; its slot is submitted again.
LoopReceive ==
  /\ Ready /\ rxOut # <<>>
  /\ \E p \in Parses(Append(rxBuf, Head(rxOut))) :
       held' = p.frames /\ rxBuf' = p.left
  /\ rxOut' = Tail(rxOut)
  /\ UNCHANGED <<callVars, cmdQ, frameQ, loopFlags, devVars, plugged, nRx, faults>>

\* One that failed is logged; its slot is submitted again at once.
LoopReceiveError ==
  /\ Ready /\ rxFailed > 0
  /\ rxFailed' = rxFailed - 1
  /\ UNCHANGED <<callVars, cmdQ, frameQ, loopVars, started, devFlags, onBus,
                 plugged, rxOut, nRx, faults>>

\* The capacity of the frame channel is not enforced (mutant).
LoopPush_Unbounded ==
  /\ held # <<>> /\ step \notin Over
  /\ frameQ' = Append(frameQ, Head(held)) /\ held' = Tail(held)
  /\ UNCHANGED <<callVars, cmdQ, loopFlags, rxBuf, devVars, plugged, rxOut, nRx,
                 faults>>

\* frame_tx.send waits for room; meanwhile the loop does nothing else.
LoopPush ==
  /\ held # <<>> /\ step \notin Over /\ Len(frameQ) < FrameCap
  /\ frameQ' = Append(frameQ, Head(held)) /\ held' = Tail(held)
  /\ UNCHANGED <<callVars, cmdQ, loopFlags, rxBuf, devVars, plugged, rxOut, nRx,
                 faults>>

-----------------------------------------------------------------------------
(* The adapter and the bus *)

\* A frame is heard and fills a receive transfer.
Hear ==
  /\ started /\ plugged /\ step \notin Over
  /\ nRx < MaxRx /\ Len(rxOut) + rxFailed < NumRx
  /\ nRx' = nRx + 1
  /\ rxOut' = Append(rxOut, [n |-> nRx + 1, flags |-> devFlags])
  /\ UNCHANGED <<callVars, cmdQ, frameQ, loopVars, devVars, plugged, faults>>

\* A receive transfer fails: now and then, and always once the adapter is gone.
ReceiveFails ==
  /\ step \notin Over /\ Len(rxOut) + rxFailed < NumRx
  /\ rxFailed' = rxFailed + 1
  /\ \/ plugged /\ faults < MaxFaults /\ faults' = faults + 1
     \/ ~ plugged /\ UNCHANGED faults
  /\ UNCHANGED <<callVars, cmdQ, frameQ, loopVars, started, devFlags, onBus,
                 plugged, rxOut, nRx>>

\* The adapter is pulled out: every later transfer fails.
Unplug ==
  /\ plugged /\ step \notin Over /\ faults < MaxFaults
  /\ plugged' = FALSE /\ faults' = faults + 1
  /\ UNCHANGED <<callVars, cmdQ, frameQ, loopVars, devVars, rxOut, nRx>>

Gone == step \in Over /\ UNCHANGED vars

-----------------------------------------------------------------------------
LoopCommand == LoopControl \/ LoopUpdate \/ LoopBulk \/ LoopStall
CallerStep  == Submit \/ SendUpdate \/ Return
Environment == BeginSend \/ Shutdown \/ Hear \/ ReceiveFails \/ Unplug

Next ==
  \/ CallerStep \/ ReadFrames
  \/ LoopCommand \/ LoopReceive \/ LoopReceiveError \/ LoopPush
  \/ Environment \/ Gone

Spec == Init /\ [][Next]_vars

(***************************************************************************)
(* The tasks are polled when ready; the select! of the loop picks at       *)
(* random, so that neither branch is passed over for ever, and completed   *)
(* transfers are taken in the order they complete, so that failing ones do *)
(* not hold up the others.  Nothing makes transfers stop failing.          *)
(***************************************************************************)
Fairness ==
  /\ WF_vars(CallerStep) /\ WF_vars(ReadFrames)
  /\ SF_vars(LoopCommand) /\ SF_vars(LoopReceive) /\ SF_vars(LoopReceiveError)
  /\ WF_vars(LoopPush)

FairSpec == Spec /\ Fairness

-----------------------------------------------------------------------------
(* Properties *)

Increasing(s) == \A i, j \in 1 .. Len(s) : i < j => s[i] < s[j]
Outcomes == {"ok", "err", "stall", "timeout", "gone"}
Live == {i \in 1 .. Len(cmdQ) : cmdQ[i].live}

Requests == {"setup", "read", "reset", "timing", "ts", "start", "bulk", "update"}
Commands == [req : Requests, flags : SUBSET Flags, n : Nat, live : BOOLEAN]
Chunks   == [n : Nat, flags : SUBSET Flags]

CallType  == /\ step \in Calls \cup {"update", "serve"} \cup Over
             /\ waiting => step \in Calls
             /\ reply \in Outcomes \cup {None} /\ nTx \in Nat
             /\ acked \subseteq Nat /\ drained \in Seq(Nat)
QueueType == /\ cmdQ \in Seq(Commands) /\ Len(cmdQ) <= CmdCap
             /\ frameQ \in Seq(Nat) /\ Len(frameQ) <= FrameCap
             /\ held \in Seq(Nat) /\ rxBuf \in Seq(Chunks)
DevType   == /\ faults \in Nat /\ nRx \in Nat /\ onBus \in Seq(Nat)
             /\ rxOut \in Seq(Chunks) /\ rxFailed \in Nat
             /\ Len(rxOut) + rxFailed <= NumRx
FlagType  == /\ flags \subseteq Flags /\ loopFlags \subseteq Flags
             /\ devFlags \subseteq Supports
BoolType  == /\ waiting \in BOOLEAN /\ started \in BOOLEAN /\ plugged \in BOOLEAN

\* Every variable has its type; the channels stay within their capacity.
TypeOK == CallType /\ QueueType /\ DevType /\ FlagType /\ BoolType

(***************************************************************************)
(* Request and reply stay paired across cancellations: while a call waits, *)
(* either its reply has arrived or the last command of the channel is the  *)
(* one it waits for; no other command and no left-over reply can answer it.*)
(***************************************************************************)
NoLostReply ==
  /\ waiting /\ reply = None =>
       cmdQ # <<>> /\ Live = {Len(cmdQ)} /\ cmdQ[Len(cmdQ)].req = Request[step]
  /\ waiting /\ reply # None => Live = {}
  /\ ~ waiting => Live = {} /\ reply = None

(***************************************************************************)
(* A frame goes on the bus at most once and the frames go in the order     *)
(* they were sent, whatever stalls, times out or is cancelled.             *)
(***************************************************************************)
TxOnce == Increasing(onBus)

(***************************************************************************)
(* The real frames read are in the order they were heard and none is       *)
(* repeated, even when the parser is out of step and hands a frame on only *)
(* with the bytes of later ones, or those of an earlier session are before *)
(* it in the buffer (driver.rs:224-249).                                   *)
(***************************************************************************)
RxOrder ==
  LET s == drained \o frameQ \o held
  IN  \A i, j \in 1 .. Len(s) : i < j /\ s[i] > 0 /\ s[j] > 0 => s[i] < s[j]

(***************************************************************************)
(* When the final close is answered without an error the adapter is in     *)
(* RESET and stays there: a send abandoned at shutdown, with its recovery, *)
(* cannot start the channel again behind it.                               *)
(***************************************************************************)
ClosedMeansReset ==
  step = "close" /\ waiting /\ reply = "ok" => ~ started /\ cmdQ = <<>>

(***************************************************************************)
(* While the server serves, the event loop parses the stream in the format *)
(* the adapter was told to produce (padding and timestamps, driver.rs:461  *)
(* and 347).                                                               *)
(***************************************************************************)
FormatAgreement == step \in Serving /\ started => devFlags = loopFlags

(***************************************************************************)
(* No frame sent up by the adapter is lost, reordered or invented between  *)
(* the receive transfers and read_frames: they are all there, in order.    *)
(***************************************************************************)
RxComplete ==
  drained \o frameQ \o held \o [i \in 1 .. Len(rxOut) |-> rxOut[i].n]
    = [n \in 1 .. nRx |-> n]

\* A send that returned Ok has put its frame on the bus.
AckedOnBus == \A n \in acked : \E i \in 1 .. Len(onBus) : onBus[i] = n

\* The handshake and the set-up end, one way or the other.
InitEnds == <>(step \in Serving \cup {"close"} \cup Over)

\* A send returns.
SendReturns == step \in {"send", "resend"} ~> step \notin {"send", "resend"}

\* The close at shutdown returns.
CloseReturns == step = "close" ~> step = "exited"

\* A frame heard is eventually read, unless the server closes.
RxForwarded ==
  \A n \in 1 .. MaxRx :
     (nRx >= n) ~> (step \in {"close"} \cup Over \/ n <= Len(drained))
=============================================================================
