# win-can-utils: a verification development

win-can-utils is a set of CAN bus tools for Windows, written in Rust:
`canserver` opens a CAN adapter and exposes it through three named pipes,
`candump` prints what comes out of a server, `cansend` sends one frame through
it. This directory holds TLA+ modules translated from that code, the TLC
configurations that check them on small instances, and proofs for TLAPS.
`PROJECT.json` lists, for every definition, the lines it stands for.

Paths below are relative to the repository (`src/src/...`).

## 1. The system

### 1.1 Components

| component | state it keeps | operations | concurrency |
|---|---|---|---|
| **canserver main** (`bin/canserver.rs`) | the driver behind a tokio mutex, two bounded channels of 100, two task handles | initialise the driver, spawn tasks, select, abort, join with 200 ms of grace, close | six tokio tasks |
| **IPC pipes** (`thread_manager_async.rs`) | one pipe instance per direction, plus a config pipe | listen, read chunk, write frame, re-listen on disconnect | three of these tasks |
| **gs_usb driver** (`drivers/gs_usb/driver.rs`) | flags, counters, a command channel (128), a frame channel (1024) | open handshake, set_bitrate, enable_timestamp, open/close channel, send, read | caller and a USB event loop thread |
| **gs_usb stream parser** (`drivers/gs_usb/frames.rs`) | rx buffer, last 64-bit timestamp | parse one frame at an offset, resynchronise | in the event loop |
| **libusb wrapper** (`drivers/gs_usb/context.rs`) | context, event thread, buffers of transfers in flight | submit, callback, blocking calls, drop | event thread, callbacks |
| **device selection** (`drivers/gs_usb/device.rs`) | none | find the interface and match an identifier | none |
| **bit timing** (`drivers/gs_usb/bit_timing.rs`) | none | exhaustive search of segments | none |
| **SLCAN driver** (`drivers/slcan.rs`) | leftover bytes, timestamp high word, bitrate | read lines, send a line, query version and bitrate | awaits the serial port |
| **PCAN driver** (`drivers/pcan.rs`) | loaded DLL, channel, bitrate | initialise, read until empty, write, uninitialise | blocking calls |
| **candump** (`bin/candump.rs`) | filters, timestamps | connect with endless retry, filter, print | a task per interface |
| **cansend** (`bin/cansend.rs`) | none | connect with five attempts, parse, write | none |

Outside the repository: tokio (mutex, channels, scheduler), crosscan (frames and
the client side of the pipes), libusb, PCANBasic.dll, the firmware of the adapter.

### 1.2 How they interact

```
 cansend --in pipe--> rd --inQ(100)--> in --+                   +-- cmd(128) --> event loop --> adapter
                                            +-- mutex: driver --+                    |
 candump <-out pipe-- wr <-outQ(100)-- out -+                   +<- frames(1024) ----+
                                     cfg, main
```

* `rd`, `wr`, `in`, `out`, `cfg` and `main` are the tasks of `canserver`. `in`,
  `out`, `cfg` and `main` call the driver, each under the one async mutex.
* For gs_usb a driver call sends a command to the event loop and awaits a
  oneshot reply; the loop also parses received USB transfers and pushes frames
  into a bounded channel, which `read_frames` empties without waiting.
* Shutdown: Ctrl-C, or the end of `in` or `out`, takes `main` out of its
  `select!`; it aborts both tasks, awaits them for at most 200 ms, locks the
  driver and closes the channel.

### 1.3 What is hard, and what makes each component correct

* **Server.** The lock is taken in a `match` scrutinee and lives longer than it
  looks; tasks are aborted while they hold it or wait for it; a handle consumed
  by `select!` is awaited again. Correct: the lock loses nobody, chunks go to
  the driver in order and without loss, frames come out in order and at most
  once, nothing is sent after the close, the process does not end with the
  channel open, nobody starves.
* **Pipes.** Clients come and go; a frame in hand is lost with its client;
  errors end a task for good. Correct: no duplicate, no overtaking.
* **gs_usb.** Calls are dropped half way; stalls are repaired behind the
  caller's back; the mode flags are kept in three places (handle, loop,
  adapter); the thread that answers commands may block on frames. Correct:
  replies stay paired with calls, a frame is transmitted at most once, the
  stream is parsed in the format it is sent in, an acknowledged close is final,
  calls return.
* **SLCAN.** Answers, frames and raw bytes share one stream without a marker;
  reads end anywhere; one query has a time limit between reads. Correct: answers
  are not confused, no frame is lost, repeated or given a wrong time, the set-up
  ends.
* **Parser.** Lengths depend on flags that change while bytes are buffered;
  a 32-bit clock is extended to 64 bits. Correct: however packets are cut, what
  is parsed is what was heard, with its time; nothing is read past the buffer.
* **libusb wrapper, device selection.** Ownership of one context is spread over
  three threads and ten clones of a handle. Correct: after `libusb_exit` no event
  is handled, no transfer is submitted or ends, and only the last handle is left
  to be closed; no buffer goes before its transfer, everything is released in the
  end, and the device selected is the one that was named.
* **Bit timing.** Correct: within the limits, and the best there is.
* **PCAN.** Correct: a batch is returned whole, with its times.
* **candump, cansend.** Clients come and go while the pipe between them and the
  server has no frames, only bytes. Correct: what is written first is forwarded,
  nothing is duplicated, little is stale, filters mean what they say.

The hazards, each at its line and with the properties that cover it, are in
`PROJECT.json`.

## 2. Modules

| module | stands for |
|---|---|
| `Bridge` | what the server promises: an abstract specification without tasks, queues or lock |
| `CanServer` | the six tasks of `canserver`, the mutex, the channels, shutdown |
| `MCCanServer` | `CanServer` with the set of undecodable chunks for TLC |
| `CanServerProofs` | theorems about `CanServer`: types, lock, shutdown; order, completeness, the refinement of `Bridge` |
| `Order` | what it means that nothing repeats or overtakes |
| `SequenceLemmas` | facts about sequences that change at their ends or are cut; induction over numbers and sequences; recursion |
| `GsUsb` | the gs_usb driver handle, its event loop, the adapter and the bus, frame by frame |
| `GsUsbProofs` | theorems about `GsUsb`: types, the pairing of replies |
| `GsUsbOrderProofs` | theorems about `GsUsb`: the order of frames both ways, the last close; without stalls, the format and the frames lost by neither side |
| `HostFrames`, `MCHostFrames` | the stream of gs_usb host frames, byte by byte, and its parser; an instance |
| `HostFramesProofs` | theorems about `HostFrames`: frames, times, panics |
| `GsUsbOpen` | the choice of a gs_usb device, the threads of its driver and their libusb resources |
| `BitTiming` | the search of a bit timing, and what it should find |
| `Slcan` | the SLCAN driver from `init_slcan` to its close, and a serial adapter |
| `SlcanProofs` | theorems about `Slcan`, as part of `Edges` |
| `Pcan` | the PCAN driver from `init_pcan` to its close, and PCANBasic.dll |
| `Drivers` | `initialize_driver`: exactly one of `Slcan`, `Pcan`, `GsUsbOpen` runs |
| `DriversProofs` | theorems about `GsUsbOpen`, `BitTiming` and `Pcan`, as parts of `Edges` |
| `InPipe` | cansend and other clients, the input pipe, its reader, the decoding of chunks |
| `OutPipe` | the channel to the writer, the output pipe, candump with its filters |
| `PipeProofs` | theorems about `InPipe` and `OutPipe`, as parts of `Edges` |
| `Edges`, `MCEdges` | all that surrounds the tasks of `CanServer`: `Drivers`, `InPipe`, `OutPipe`; an instance |

### 2.1 CanServer

`pc[t]` is the await (or the region between two) where task `t` is. A chunk
read from the input pipe and a frame heard on the bus are numbered in order of
arrival; `Junk` is the set of chunks that bincode does not decode.

| code | actions |
|---|---|
| `start_ipc_reader` | `RdConnect RdRead RdEof RdFail RdSend RdSendClosed` |
| `forward_pipe_to_can` | `InSkip InRecv InSend InEnd`, aborted by `InCancel` |
| `forward_can_to_pipe` | `OutLock OutRead OutPush OutPushed OutReadErr`, aborted by `OutCancel` |
| `start_ipc_writer` | `WrConnect WrRecv WrEnd WrWrite WrBroken WrFail` |
| config task | `CfgLock CfgGetBitrate CfgFail` |
| `main` | `CtrlC TaskEnded Abort JoinIn JoinOut JoinTimeout MainLock Close Return` |

A step that cannot be interrupted in the code is one action. An aborted task is
dropped only at an await: `OutCancel` has no disjunct between two pushes,
because `try_send` does not await, and `InCancel` may find a `send_frame` that
has passed its frame on or not. The tokio mutex is modelled from its
documented behaviour (external): FIFO, a released lock goes to the first waiter,
a dropped waiter leaves the queue. `OutReadErr` also stands for a panic of
`read_frames`. Three constants say which driver is behind the lock and what may
fail: `ReadBlocks` (SLCAN awaits serial data), `ReadFails` (PCAN, SLCAN),
`PipeFails`.

`Bridge` has four actions, `Accept`, `Offer`, `Hear`, `Deliver`. `CanServer`
instantiates it with `accepted <- nIn` and `heard <- nRx`; its other two
variables, `offered` and `delivered`, are the history variables of `CanServer`
with the same names. Every other step of the server is a stutter.

### 2.2 GsUsb

There is one caller, because the server calls the driver under its mutex. `step`
is the call it is in: the handshake of `GsUsbDriver::open` (`host_format` to
`update`), `init_gsusb` (`close0` to `start`), then `serve`, `send`, `resend`,
and `close`. The tables `Request`, `NextStep` and `OnError` give the request of
each call, the step after it and the step after an error; `Fallback` is the
second attempt of `try_tx`.

| code | actions |
|---|---|
| `cmd_control_out`, `cmd_control_in`, `cmd_bulk_write` | `Submit`, `Return` |
| `UpdateConfig` in `open` | `SendUpdate`, `LoopUpdate` |
| `send_frame`, `read_frames` | `BeginSend`, `ReadFrames` |
| abort and close in `main` of the server | `Shutdown` |
| `handle_command` | `LoopControl LoopUpdate LoopBulk LoopStall` |
| `run`: a receive transfer that succeeded, one that failed | `LoopReceive`, `LoopReceiveError` |
| `process_rx_chunk` | `Parses` (in `LoopReceive`), `LoopPush` |
| adapter, bus | `Apply`, `Transmit`, `Hear`, `ReceiveFails`, `Unplug` |

`rxBuf` is the loop's `rx_buffer`, a sequence of chunks. A chunk is what one USB
receive transfer brings, one host frame: its number and the flags the adapter
used. `Parses` says what `process_rx_chunk` makes of the buffer with a new chunk
at its end. If every chunk is whole and in the format the loop expects, it is
all frames and nothing is left. Otherwise the parser is out of step, and the
outcomes are those that cannot be excluded without counting bytes:

* it stops for lack of bytes behind some chunk or inside it; what it has passed
  is gone (`drain`), what it has not is kept, and a chunk it stopped in is kept
  without its header (`Rest`);
* in what it passed it finds any number of frames (`Found`, bounded by `MaxFound`
  for TLC), each at the header of a chunk or inside one (`Places`). A frame found
  at a header is the one of that chunk, because a chunk has at least 20 bytes and
  so holds header and data whatever the flags; its time stamp may be wrong, and
  nothing is said of it. A frame found elsewhere never was and has the number 0;
* the frames it did not find are lost if it passed them, and if not they may be
  found when more bytes have come: frame k may come out of a later chunk.

Among these are outcomes the bytes of a given adapter do not produce. What the
bytes do is the subject of `HostFrames`.

Abstractions. Echoes of transmitted frames are dropped by the parser and left
out, and so are its panics. `send_frame`'s two encodings differ in length only
and are one. A transfer that fails may have been applied or not. The bitrate is
given on the command line and has a timing, otherwise the process ends during
the set-up without a step that matters here. The arm of the loop that would end
it on `NotConnected` is unreachable (only successful transfers reach
`handle_rx_completion`), so the loop ends with its caller.

### 2.3 Slcan

`step` is the call the server is in: `probe` (the auto-detection), then `close0`,
`version`, `measure`, `set`, `ts`, `open`, `serve`, `closing`. `wire` is what
the adapter has sent and nobody has read, `leftover` the field of the driver.
The bytes of a line are abstracted to three tokens, the two halves of its text
and CR; the answer to `B` is two tokens without CR, and any read may end after
any token. Frames heard are numbered and carry the adapter's clock modulo `Wrap`.

| code | actions |
|---|---|
| `get_version` | `AskVersion FillVersion TakeVersion VersionTimeout` |
| `get_measured_bitrate` | `AskBitrate MeasureRead` |
| `set_bitrate`, `enable_timestamp`, `open_channel`, `close_channel` | `WriteCommand BadBitrate` |
| `read_frames`, `parse_slcan_line_bytes` | `ReadFrames` with `Parse`, `EndOfLine` |
| `main` of the server | `Shutdown` |
| adapter | `Handle Hear Tick` |

Abstractions. `FillVersion` is the BufReader filling itself: whatever it holds
when `get_version` ends is dropped. The auto-detection tries one port. Writes do
not fail. The adapter acknowledges no command, answers a command with the next
thing it sends, may leave `V` unanswered, and reports an overflow of its clock
with a line `J`; what is parsed of a complete frame is its number. On Windows a
read of the serial port waits for at least one byte. `send_frame` writes one line
and touches nothing else.

### 2.4 HostFrames

`phase` follows the caller from the first receive transfer of `open` to the
started channel; `flags`, `buf`, `last`, `out` are fields of the event loop;
`usb` holds the packets of the adapter.

| code | definitions |
|---|---|
| `process_rx_chunk` | `Receive`, with `Parsed`: one `Turn` of its loop after another |
| `parse_host_frame_at` | `ParseAt`, `Body`, `CanFrame`, `Stamp64` |
| `UpdateConfig` in `open`; `init_gsusb` | `UpdateConfig`; `Reset`, `EnableTimestamp`, `Start` |
| adapter | `Emit` with `HostFrame`, `Packets` |

Bytes are real where they steer the parser: echo id, CAN id, DLC, channel,
lengths, padding. A payload is one byte repeated; time counts in units of 2^24,
so that the four bytes of a time stamp are three zeros and one that varies. The
parser panics where it slices a payload that has not arrived, and where the
buffer is drained of more bytes than it holds; `GsUsb`, which sees the same
stream frame by frame, leaves these panics out.

### 2.5 GsUsbOpen and BitTiming

Three threads: the caller (`ostep`), the event loop (`lpc`), the libusb-events
thread of the context (`evt`). `ctxRefs` is the set of owners of the
`Arc<LibusbContext>`, `handleRefs` that of the device handle.

| code | actions |
|---|---|
| `LibusbContext::new`, `select_device` | `NewContext`, `Look Skip NoDevice` |
| `GsUsbDriver::open`, errors before and after the thread | `GiveUp Spawn Handshake Leave` |
| `set_bitrate`, `calc_bit_timing` | `SetBitrate` with `CalcBitTiming`: `Consider` for each of the `Candidates` |
| drop of the driver, end of the process | `DropDriver`, `Exit` |
| `run` | `LoopBegin LoopTake LoopEnd LoopDropContext LoopDropHandle` |
| `bulk_read`, its callback | `LoopSubmit`, `Callback` |
| event thread, `Drop for LibusbContext` | `EventThread`, `ContextExit` |

What descriptors say of a device is one of three kinds: a gs_usb device, another
one, one that cannot be looked at. Drops are in the order of the language: locals
of `run` in reverse, fields of a handle as declared, the context first.
`calc_bit_timing` computes in `f64`; `BitTiming` multiplies fractions out, so
that only exact ties could go another way. An adapter announces `Limits`: any
numbers, with a clock and a bitrate that are not zero.

### 2.6 Pcan and Drivers

`pstep` is the call the server is in. `hwQ` is the receive queue of the library,
`batch` what the current `read_frames` has taken, `lost` what one that failed had
taken. `Pick CloseLeft SetBitrate OpenChannel` are `init_pcan`; `BeginRead
ReadOne ReadEmpty ReadError` are `read_frames`; `HwHear` is the library, whose
clock is the number of wraps, milliseconds and microseconds. `Shutdown` cannot
come between two reads of a batch, because nothing is awaited there. Sending is
one library call, offered by `CanServer`.

### 2.7 InPipe, OutPipe, Edges

`InPipe`: a frame is two halves, written at once; a chunk holds at most
`ChunkMax` halves; clients take turns because there is one pipe instance at a
time. `Connect ConnectFails WriteFrame Disconnect` are the client (cansend with
its attempts), `CreateServer ReadBuf SendLine ReadEof` the reader, `Forward` with
`Decoded` the forwarding task: it decodes one frame from the start of a chunk and
drops the rest.

`OutPipe`: `Hear` is `try_send` of the forwarding task, `CreateServer Recv Write
BrokenPipe` the writer, `Connect RunInterfaces ReadFrame Leave` candump, with
`FilterCheck`. The writer keeps the old instance until the next client has
connected, and learns only from a failing write that a client has left. An
identifier or a mask is the set of its bits; `CheckOne` is a turn of the loop of
`filter_check`.

In `Edges` a behaviour looks at one of the three parts (`focus`). They share no
variable, `main` sets the driver up before it starts the pipes, and what joins
them is the subject of `CanServer`; interleaving them would multiply states and
add no behaviour to any of them. Each keeps its own `Init`, `Next` and fairness.

## 3. Runs

| run | result | question |
|---|---|---|
| `server_safety` | holds | do lock, queues and shutdown keep their promises when anything fails; do the tasks implement `Bridge` |
| `server_live` | holds | is every chunk forwarded, the config served, shutdown finished with the channel closed |
| `server_slcan_idle` | violated | the same with a `read_frames` that waits for data |
| `server_task_end` | violated | is the channel closed when a forwarding task ends by itself |
| `gsusb_safety` | holds | pairing of replies, at most one transmission, order both ways, also while the parser is out of step, finality of close, under every fault |
| `gsusb_live` | holds | format agreement, no lost frame, every call returns, without stalls; the receive transfers of an unplugged adapter fail without end |
| `gsusb_stall` | violated | format agreement after one stall |
| `gsusb_full` | violated | does the last close return when the frame channel is full |
| `host_frames` | holds | is the byte stream parsed into what was heard, with its time, however it is cut; when can the parser panic |
| `edges` | holds | does every driver keep its frames and resources from set-up to close, and each pipe its frames through clients that come and go |
| `slcan_version` | violated | are left-over frames skipped when the version is read |
| `slcan_silent` | violated | does the bitrate query give up on a silent adapter |

### 3.1 Properties

* `LockOK`: a task is inside its critical region exactly when it holds the lock
  or waits for it once. Without it an abort could leave `main` waiting for ever.
* `InFifo`: until `in` ends, what was offered to the driver, followed by what is
  in the hands and queues, is increasing, without junk where it was offered, and
  holds every decodable chunk that was read.
* `OutOrder`: delivered, in hand, queued, in the batch and in the driver form
  one increasing sequence.
* `NoSendAfterClose`: after the close, `offered` changes only if the grace ran out.
* `CloseOnExit`: the process does not end with its channel open.
* `InForwarded`, `ConfigServed`, `ShutdownEnds`: progress of the three users of
  the lock.
* `NoLostReply`: a waiting call has its reply, or the only command that can
  answer is the last one in the channel and is its own.
* `TxOnce`: no frame goes on the bus twice or before an earlier one.
* `AckedOnBus`: a send that returned Ok has put its frame on the bus.
* `RxOrder`: the real frames read are in order and none is repeated. It says what
  remains true when the parser is out of step: frames are lost, invented, or
  handed on with a later chunk, but a buffered one never comes twice or behind a
  frame that was heard after it.
* `RxComplete`: on a fresh adapter, without stalls, none is lost or invented.
* `ClosedMeansReset`: once the close is acknowledged the adapter is in RESET and
  no command is left that could start it again.
* `FormatAgreement`: while serving, the loop parses what the adapter was told to
  send.
* `RxExact`: frames returned, and those still in pieces in `leftover` and `wire`,
  are an unbroken run up to the last frame heard, from the open command at the
  latest; frames of an earlier session may be lost in the set-up, no other.
* `TimeExact`: differences of 64-bit timestamps are differences of time.
* `MeasuredIsAnswer`, `VersionNotFrame`: answers are not mixed up with frames.
* `SetUpEnds`, `FrameReturned`: progress of the SLCAN driver.
* `InitEnds`, `SendReturns`, `CloseReturns`, `RxForwarded`: progress.
* `HostFrames!Exact`: once set up, the frames pushed are the frames heard, whole
  and in order, and with no packet outstanding none is missing and no byte is
  left. It is claimed when the host sees the stream from its first byte on in
  the format it expects; section 3.2 says what happens otherwise.
* `HostFrames!TimeExact`: 64-bit times differ by the time that passed, up to
  whole turns of the 32-bit counter between two frames.
* `PanicsOnlyBare`: the parser panics only while neither flag is set.
* `PcanRxExact`, `PcanTimeExact`: each frame returned once, in order, with the
  time it was heard; only a read that fails loses any.
* `SelectsFirst`: the device selected is the first the channel names, by serial
  or by rank; a named one is missed only behind a bad one.
* `ContextUse`: no event is handled on a context that was released, no handle
  that is not being dropped outlives its context, no buffer goes before its
  transfer.
* `AfterExit`: after `libusb_exit` the loop's thread closes the last handle, the
  one it was dropping, and nothing else is done with the library by any thread
  (proved, in no run).
* `TimingBest`: the timing is within the limits and no other has a lower score.
* `TeardownEnds`: once the driver is gone, threads end and everything is released.
* `FirstForwarded`, `FirstReachesDriver`: the first frame of each connection is
  never lost in the pipe and reaches the driver; none is repeated or overtakes;
  a frame nobody wrote stems from a client that wrote several.
* `StaleBound`: no two candumps get the same frame, and one gets at most a
  channel full of frames from before it came.
* `FilterMeaning`: candump prints, in order, exactly those of the frames it reads
  that pass its filters (one before the first join matches and all behind it do,
  or there is no filter), said without the loop of the code.

Every property of a passing run is broken by a variant of one action, written
next to it and marked as a mutant.

### 3.2 Disagreements found

1. **A forwarding task that ends by itself leaves the channel open**
   (`server_task_end`). `select!` polls `&mut task_out` to completion and the
   grace period awaits it again, which panics; `close_channel` is not reached.
   Any error of `read_frames`, or of the input pipe, leads there.
2. **SLCAN input starves on a silent bus** (`server_slcan_idle`). `out` holds the
   mutex while it awaits serial data; a frame to send waits for a frame to arrive.
3. **A stall changes the stream format behind the parser** (`gsusb_stall`). The
   recovery starts the channel with flags 0; the loop still expects timestamps
   and padding.
4. **A full frame channel blocks the close** (`gsusb_full`). The loop awaits room
   in the frame channel and takes no command; after the abort nobody makes room.
   In the code the channel holds 1024 frames, so that many must wait unread.
5. **A standard frame is taken for the version** (`slcan_version`). Only lines
   that begin with `T` are skipped. An adapter left open by an earlier session
   makes the set-up fail, or passes the auto-detection with any `t` line; in the
   latter case the answer to the first `V` may end the second `get_version`, and
   the four bytes that follow, of the second answer or of a frame, are read as
   the bitrate.
6. **The bitrate query may never time out** (`slcan_silent`). The elapsed time is
   compared between reads, and the first read waits for a byte.

Seen while modelling, and not made a run of their own:

* *Resynchronisation may never happen.* Bytes of an earlier session that are in
  the buffer when the format changes can look like a header; from there on every
  header is read at the wrong offset, and each looks like an echo. `frames.rs:136`
  says "drop 1 byte and resync", which applies only if the DLC or the channel is
  implausible. `HostFrames` shows it without the premise of `Exact`, with `Wmax =
  64`, `Supports = {"ts"}`, `Ids <- OneId`, DLC 8, fill 17, jump 1, four frames.
* A classic frame with a DLC from 9 to 15 is given the length of an FD frame; its
  successors are taken for its payload.
* `auto` always picks the first PCAN channel: `PcanDriver::open` only looks for
  the library, although `canserver.rs:58` says "Try to actually initialize the
  hardware" (`Pick`).
* A join in candump makes the filters after it a conjunction, but joins what the
  filters before it found with "or"; the help says "join filters (logical AND)"
  (`FilterMeaning` states what the code does).
* The last clone of a handle gives up the context before it closes the device, so
  that `libusb_exit` precedes `libusb_close` (`LoopDropContext`,
  `LoopDropHandle`; hence the exception in `ContextUse`, and `AfterExit`, which
  says that this close is all that comes after), and transfers may be in flight
  when it does.
* A USB device that cannot be looked at hides the gs_usb device behind it
  (`SelectsFirst`).
* Two frames that a client writes before the reader wakes up become one chunk, of
  which the first is forwarded; a chunk cut in the middle of a frame may decode
  to one nobody sent (`FirstForwarded`).
* The prescaler's step `brp_inc` of an adapter is only logged (`TimingBest`).
* On a silent bus the writer never notices that its client has left, and the next
  client cannot connect (no liveness is claimed of candump's connection).

### 3.3 Bounds, and why they are enough

`CanServer`: channels of one place are full after one push, so that
back-pressure, dropping and waiting all happen with three chunks and three
frames (`MaxIn`, `MaxRx`), the second chunk being junk. The lock has at most four
users, all present. `server_live` needs two chunks (one in hand while the other
is queued) and one frame. `GsUsb`: the command channel of two places holds an
abandoned send and the close after it, the longest content reachable; two
receive transfers suffice for them to be confused; two sent frames for one to be
repeated after or overtaken by the other; two faults for two transfers that
fail, or one and then the unplugging. Two heard frames are one that is kept in
the buffer and one that comes behind it, and a pass over them finds up to two
(`MaxFound`): both, either with a phantom, two phantoms, fewer; an adapter left
running puts a chunk of another format before one of this session. `RxOrder` is
proved for any number of either. In the other runs `MaxFound` is of no
consequence: the parser stays in step or the run ends before it matters.
`gsusb_live` has room for all it hears; of its two receive transfers one fails
again each time the other is taken. `Slcan`: two frames and two ticks of a clock
that wraps at two put an overflow before, between or after the frames; the tail
of an older frame may precede them. Bounds are in the guards of `RdRead`, the
`Hear` actions, `HwHear`, `Emit`, `Tick`, `BeginSend` and the fault actions, in
`Found`, and nowhere else.

`HostFrames`: packets of 16 bytes are shorter than a frame, so that a frame
always spans packets and padding always occurs; ids whose low bytes are a
plausible DLC and channel and ids that are not; empty and full payloads; jumps of
1 and 255 wrap the clock between any two of three frames; an earlier session of
any format. `Pcan`: four frames, milliseconds that wrap at 3 and are 4
microseconds long; a step of the clock is one microsecond, one millisecond, or
just short of a wrap. `GsUsbOpen`: lists of at most three devices of four kinds
put a bad, another or an unnamed device before, between and after; two transfers
for the eight of the code, enough for one to be in flight while the other is
done or dropped (`ContextSafe` holds for any number); four sets of limits with a
zero prescaler, zero and exhausted segments, and a rate out of reach. `InPipe`:
chunks of three halves for the 64 bytes cut a second frame in the middle; three
clients with one, three and one frames precede and follow one that is cut; a
channel of one is full at once; two attempts for five. `OutPipe`: two candumps,
one frame in the pipe, two in the channel and one in hand leave a fourth to be
dropped; eight lists of filters with joins first, last and in the middle.

`CHECK_DEADLOCK FALSE` in `gsusb_safety`, `gsusb_full` and `gsusb_stall`: the
system really stops when the loop blocks on a full frame channel and the caller
waits for its reply (disagreement 4), and in `slcan_silent`, where the driver
waits for the adapter (disagreement 6).

### 3.4 Fairness

`CanServer`: weak fairness of each task, because tokio polls every task that is
ready. Strong fairness of the two cancellations: an aborted task is dropped the
next time it yields, and its lock and receive calls yield at the latest when
tokio's cooperative budget is used up. Nothing is assumed of clients, of the
bus, of failures, of Ctrl-C or of the clock: the grace period may or may not run
out before the tasks end.

`GsUsb`: weak fairness of the caller, of the push and of `read_frames` (`out`
calls it again and again). Strong fairness of the two branches of the loop's
`select!`, which picks a ready branch at random, so that failing receives, which
are submitted again at once and fail again once the adapter is gone, cannot keep
the commands waiting for ever; a loop that looked at the transfers first would
(`CommandReady_Biased`). Transfers that succeeded and ones that failed each have
it, because `FuturesUnordered` hands completed ones out in the order they
completed. Nothing is assumed of frames sent or heard, of faults, of shutdown, or
that transfers stop failing.

`Slcan`: weak fairness of the calls of the set-up, of the 20 ms timer, of
`read_frames` (called in a loop) and of the adapter taking its commands. Nothing
is assumed of frames, of the clock, or that `V` is answered.

`GsUsbOpen`: weak fairness of the drops (`Leave`, `LoopDropContext`,
`LoopDropHandle`), of the start of the loop's thread, of its end once its command
channel is closed, of the events thread and of `libusb_exit` after the join. The
operating system runs all three. Nothing is assumed of transfers or of the caller.

`InPipe`: weak fairness of the reader and of the forwarding task. Nothing is
assumed of clients. `OutPipe`, `Pcan` and `HostFrames` claim no liveness.

## 4. Proofs

Every invariant and action property of the passing runs is a theorem, and so is
`AfterExit`; what stays
with TLC alone is liveness. The theorems about `CanServer`, `GsUsb` and
`HostFrames` are about the specifications of their runs; those of `DriversProofs`,
`SlcanProofs` and `PipeProofs` are about `EdgesSpec`, the specification of the run
`edges`, and their invariants are about the variables of one part, which the
others leave alone. They hold for every value of the constants under the named
assumptions of the modules, which TLC evaluates for the instances:

* `CanServer`, `GsUsb`, `HostFrames`: capacities and packet sizes are positive,
  bounds are naturals, switches are Booleans, an adapter supports a subset of the
  flags, DLCs are below 16, ids and payloads are bytes.
* `Drivers` and `Slcan`: the wraps of the clocks are positive, a list of devices is
  a sequence of them (`DeviceAssumption`), and an adapter announces `Limits`
  (`CapAssumption`): without a clock or with a bitrate of zero the search divides
  by zero, and nothing is claimed of it.
* `Edges`: the capacity of a channel is a natural and no candump is named "nobody"
  (`DumperAssumption`); clients are numbered and a chunk has room for one frame,
  which 64 bytes have for a classic one (`ClientAssumption`); filters are what the
  command line can say (`FilterAssumption`).

Nine theorems have a premise of their own, `ASSUME` in their statement, given with
them below; the instance of the run satisfies it in each case.

* **`CanServerProofs!TypeCorrect`, `GsUsbProofs!TypeCorrect`** (`TypeOK`). The
  type invariants are inductive as they stand. They are conjunctions of named
  parts; `TypeFrame` says which variables a part reads, so that an action is
  discussed only for the parts it touches. `RemoveAtProperties` types the queue
  of waiters after a cancellation; `Push` and `Pop` bound the channels.
* **`LockCorrect`** (`LockOK`). Inductive with `TypeOK`. `AcquireEffect`,
  `ReleaseEffect` and `LeaveEffect` say who holds and who waits after each
  operation of the mutex (`RemoveAtInjective` for a dropped waiter); `LockEnter`
  and `LockExit` turn them into the two ways an action can change the relation
  between program counters and lock, and `LockFrame` covers the rest.
* **`SendsEndBeforeClose`** (`NoSendAfterClose`). The property is about steps;
  the inductive invariant `ShutdownOrder` says that `main` is past a join only
  when the joined task is done or the grace ran out, and that the close comes
  after both joins.
* **`CleanExit`** (`CloseOnExit`, assuming that neither `read_frames` nor a pipe
  fails). The invariant `CleanRun` says that no forwarding task ends before it
  is aborted, hence that `select!` consumes no handle and `main` cannot panic.
  `server_task_end` shows that the assumption is needed.
* **`ChunksInOrder`** (`InFifo`). Sequences joined end to end are awkward to
  reason about, so the invariant `InInv` takes the line apart: each piece is
  increasing, the numbers of each lie below those of the next (`Below`), and while
  `in` lives a number in no piece is junk. `PutLast` and `TakeFirst` say what a
  push and a pop do to such a piece, `JoinIncreasing` joins them again at the end.
* **`FramesInOrder`** (`OutOrder`). `OutInv` is the same for five pieces, without
  completeness: a frame may be dropped at the full channel or lost with a client.
* **`ServerIsBridge`** (`ImplementsBridge`). With `InInv` and `OutInv`, each step
  of the server is a step of `Bridge` or a stutter. Two cases need an argument:
  the chunk offered is the *next* decodable one, because what is in no piece is
  junk (`OfferNext`), and the frame delivered is later than all delivered before
  it (`DeliverNext`, with `LastOfIncreasing`).
* **`ReplyPaired`** (`NoLostReply`). Inductive with `TypeOK`; `PutLive` and
  `TakeLive` follow the set of commands somebody waits for through the channel
  and `TakeReply` covers all actions that answer.
* **`TransmittedOnce`** (`TxOnce`). The invariant `BusInv` orders the frames in
  the command channel, abandoned ones included, behind those on the bus, and says
  that a frame yet to be sent, or to be sent again after a stall, is in neither
  place: this is what `try_tx` relies on when it sends a frame a second time.
* **`ClosedIsReset`** (`ClosedMeansReset`). Inductive with the pairing of replies:
  an acknowledged close was the last command of a first-in first-out channel.
* **`ReceivedInOrder`** (`RxOrder`), for any `MaxFound`. `RxInv` speaks of the
  frames made so far and of what frames are still to be made of, the buffer and
  the transfers behind it (`Pending`): each is in order, and the second lies
  behind the first, phantoms and headless rests apart. `ParsesOrder` is the
  argument: every outcome has a place in the buffer such that what was handed on
  is drawn from before it and what was kept from behind it, both in the order of
  the chunks and each chunk once (`Drawn`; `FoundOrder` for what is found in one
  pass). A buffer that is not drained has no such place.
* **`FormatAgreed`** (`FormatAgreement`), assuming no stalls and an adapter with
  timestamps. The flags are kept three times; `FlagInv` relates handle and loop and
  `ModeInv` handle and adapter, call by call. Both need `ChannelInv`: the command
  in the channel carries the flags of the call that waits, and the only commands
  before it are the update of the set-up and a send dropped at shutdown.
  `gsusb_stall` shows that a stall breaks it, and an adapter without timestamps
  does too: the driver asks for them and expects them all the same.
* **`AckedTransmitted`** (`AckedOnBus`), assuming no stalls. `AckInv` adds that a
  reply Ok to a send comes after its transmission. After a stall whose recovery
  fails the adapter is in RESET and takes a frame without sending it.
* **`ReceivedComplete`** (`RxComplete`), assuming no stalls, an adapter with
  timestamps and a fresh one. `FreshInv`: nothing is heard before START.
  `CompleteInv`: every transfer is in the format expected, so that the buffer is
  empty between two of them, what was forwarded is 1, 2, 3, ... and the transfers
  go on from there. TLC finds a
  counterexample when any one of the three hypotheses is left out.
* **`ContextSafe`** (`ContextUse`). The inductive invariant `Resources` has four
  parts. `HandOver` says who owns the device handle while it passes from the
  caller to the loop's thread and to the clones. `Owners`: every handle not being
  dropped owns the context, and an owned context is live; this is why the last
  owner alone can stop it. `EventsEnd`: a released context has no thread.
  `Buffers`: the callback, not the future, frees a buffer. The handle being
  dropped is an exception: the code drops its share of the context first.
* **`ClosedAfterExit`** (`AfterExit`). What that exception amounts to. By
  `Resources` a released context has no owner, so the loop is past `run`, holds at
  most the handle it is dropping, and the events thread has ended; `ExitedStep`
  goes through what the three threads could still do and finds the one
  `libusb_close`.
* **`PcanFramesExact`** (`PcanRxExact`) and **`PcanTimesExact`**
  (`PcanTimeExact`). The invariant `FrameInv` says that a frame heard is in one of
  four places, oldest first (returned, lost, in the batch, in the library), and
  carries its number and its time there; `StampOfHeard` is the arithmetic: wraps,
  milliseconds and microseconds determine the time (`DivMod` twice). `TakeHead`
  serves both the read that succeeds and the one that loses its frame.
* **`FirstSelected`** (`SelectsFirst`). `Selection`: the index is the number of
  gs_usb devices passed, and none passed was named or bad.
* **`BestTiming`** (`TimingBest`). A loop of the code is a recursive function in
  the model, and the proofs go along it by `NumberInduction` (the least number
  without a property has a predecessor with it) on the values that
  `RecursionExists` provides. Here `Found` says what the search has found after i
  candidates; `CandidatesAre` that the three loops pass each candidate, by division
  with remainder (`RowOf`, `TwoDigits`); `AtMostOrders` that comparing fractions by
  multiplying out is a total order, on which the final argument rests; `ScoreIs`
  that a rate that fits has ticks, so that no score divides by zero although a
  prescaler may be zero. `Timed` carries the result from `set_bitrate` on.
* **`MeasuredBitrate`** (`MeasuredIsAnswer`), assuming a named port
  (`~ AutoDetect`). The close that comes first reaches the adapter before the
  query of the version, so the answer to it is the last thing in the stream
  (`VersionAt`), and the query of the bitrate finds a silent adapter
  (`MeasureAt`). `CutAt` and `FirstCRAt` follow a line that reads cut anywhere.
  With the auto-detection it is false: the late answer to the probe is taken for
  the version while the channel is still open, and a frame for the bitrate
  (disagreement 5).
* **`SlcanFramesExact`** (`RxExact`) and **`SlcanTimesExact`** (`TimeExact`),
  assuming a named port. The reassembly of lines is `Parse`, a recursion over
  tokens; that parsing two pieces one after the other, the incomplete line kept,
  is parsing both at once (`ParseConcat`) makes the result independent of how reads cut the
  stream. So `StreamInv` speaks of the frames returned *with* those still in
  `leftover` and `wire` (`AllFrames`), which a read does not change. They form an
  unbroken run, with timestamps as far apart as the times heard (`ServeAt`, `Law`);
  before the serving starts the same holds of what is left, wherever
  `get_version` stops taking (`FromHere`); the answer to a late `V` is a line of
  its own and does no harm. With the auto-detection the bytes of a frame may have
  been taken for the bitrate (disagreement 5), hence the premise.
* **`PanicOnlyBare`** (`PanicsOnlyBare`). A turn that is told of padding or
  timestamps waits for every byte it takes, so its offset stays within the buffer
  (`FrameType` and the length of what `ParseAt` consumes); no premise on what is in
  the buffer is needed.
* **`HostFramesExact`** (`Exact`) and **`HostTimesExact`** (`TimeExact`), assuming
  `Classic`: DLCs on the bus are at most 8 and `CanFrame::new` accepts eight bytes.
  `Carried` puts a frame, the number of the packet in it and the count of frames of
  the bus so far beside each packet on its way: they follow one another, and the
  buffer holds what has come of the frame of the first. With
  less than a whole frame the loop waits, with a whole one it takes all of it and
  one turn more finds nothing (`Handles`, `Handled`). `Law`: what is handed on is a
  prefix of what was heard, each time `Spaced` from the one before (`Advance` is
  the arithmetic of the wrap). A DLC above 8, which a classic frame may have on the
  bus, breaks it (section 3.2).
* **`FewStaleFrames`** (`StaleBound`), for every number of candumps. The bound on
  frames already read is not inductive; `FewStale` counts also those on the way to
  the client (`Reads`), and `Along` says that all of them are in order and none is
  read by two. `ConnectStale`: at most a channel full is waiting when a candump
  connects; `NoMoreStale`: what is heard later is not older.
* **`FirstFramesForwarded`** (`FirstForwarded`), for every list of clients. `Turns`:
  what is in the pipe is of the client connected last, and gone before the next
  one comes. `FirstWhole`: a sequence of halves that holds a part of a first frame
  begins with all of it, in the pipe and in every chunk, because a client writes it
  first and a chunk has room for it; what waits in the BufReader is of later
  frames. `InOrder`: from the driver back to the clients nothing is overtaken,
  piece by piece, with the frames given to the driver standing where their first
  half stood.
* **`FiltersMean`** (`FilterMeaning`), for every list of filters. `Meant` says what
  the two variables of the loop of `filter_check` mean after i filters
  (`CheckOneMeans` is a turn of it); `Printed` relates what is printed to what is
  read.

Liveness under fairness is beyond the prover and stays with TLC: `InForwarded`,
`ConfigServed`, `ShutdownEnds`, `InitEnds`, `SendReturns`, `CloseReturns`,
`RxForwarded`, `SetUpEnds`, `FrameReturned`, `TeardownEnds`,
`FirstReachesDriver`. `CloseOnExit` is proved under the hypotheses of
`CleanExit` only.

## 5. What is not modelled

* `next_auto_channel`: the choice of a pipe name depends on other processes.
* The text of things: bincode and JSON, hexadecimal fields of SLCAN lines, the
  frame on cansend's command line, candump's options, time modes and printed
  lines, the encoding of gs_usb requests and structures, logging.
* `send_frame` of SLCAN and PCAN is one call offered by `CanServer`; the encoding
  of a PCAN message is left out, and so is that of a gs_usb frame.
* The client of the config pipe; the task that serves it is in `CanServer`.
* `open_listen_only`, `open_channel_with_flags`, and of the libusb wrapper
  `control_in`, `control_out`, `bulk_write` and `spawn_bulk_read_loop` have no
  caller; the blocking transfers are single steps of `GsUsb`.
* Exact ties of `f64` scores, and `u32` overflow in the search of a timing, which
  no adapter's limits reach.
* Failing writes of SLCAN, several ports tried by its auto-detection, and the
  auto-detection of an adapter left open, except in `slcan_version`: there it may
  lose frames and mix up answers (disagreement 5), so `edges` starts from a named
  port (`AutoDetect = FALSE`).

## 6. How to run

```
tlc -config server_safety.cfg MCCanServer.tla
tlc -config gsusb_safety.cfg GsUsb.tla
tlc -config host_frames.cfg MCHostFrames.tla
tlc -config edges.cfg MCEdges.tla
tlapm CanServerProofs.tla
tlapm GsUsbProofs.tla
tlapm GsUsbOrderProofs.tla
tlapm HostFramesProofs.tla
tlapm SequenceLemmas.tla
tlapm DriversProofs.tla
tlapm SlcanProofs.tla
tlapm PipeProofs.tla
```

The longest run, `edges`, takes two to three minutes with two workers;
the longest proof module, `SlcanProofs`, about seven.

## 7. Plan

1. The outcomes of `Parses` for a parser out of step, argued in section 2.2,
   derived from the bytes of `HostFrames`.
2. Composition of `CanServer` and `GsUsb`: the driver mutex, the reply and the
   full frame channel as one circle of waiting.
3. `next_auto_channel` with several servers.
