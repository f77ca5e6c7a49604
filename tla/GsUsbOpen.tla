------------------------------ MODULE GsUsbOpen ------------------------------
(***************************************************************************)
(* GsUsbDriver::open and what becomes of its libusb resources              *)
(* (src/src/drivers/gs_usb/driver.rs, device.rs, context.rs): the choice   *)
(* of a device, the hand-over of its handle to the thread of the event     *)
(* loop, the receive transfers in flight, the bit timing, and the drops    *)
(* that end it all.                                                        *)
(*                                                                         *)
(* Three threads: the caller (`ostep'), the event loop (`lpc') and the     *)
(* libusb-events thread of the context (`evt').  The context is shared by  *)
(* Arc: `ctxRefs' is the set of its owners, `handleRefs' that of the       *)
(* device handle.  What the calls of the driver mean is in GsUsb.          *)
(***************************************************************************)
EXTENDS BitTiming, FiniteSets

CONSTANTS
  DeviceLists,   \* lists of USB devices, of which one is present
  Idents,        \* what may be given as the channel
  NumXfer,       \* receive transfers of the event loop (8)
  CapSet         \* limits an adapter may announce

VARIABLES
  ostep,        \* where the caller is
  ident,        \* the channel given
  devs,         \* the device list
  di, index,    \* position in the list, gs_usb devices passed over
  chosen,       \* position of the device selected, 0 for none
  caps,         \* the limits the adapter announced
  timing,       \* the bit timing computed
  lpc,          \* where the event loop is
  dropping,     \* the clone of the handle the loop is dropping
  ctx,          \* the libusb context
  evt,          \* where the libusb-events thread is
  ctxRefs, handleRefs,
  xfer,         \* the transfer of each receive future
  bufs          \* transfers whose buffer is allocated

selVars == <<ident, devs, di, index, chosen>>
refVars == <<ctxRefs, handleRefs>>
ovars   == <<ostep, selVars, caps, timing, lpc, dropping, ctx, evt, refVars,
             xfer, bufs>>

\* The owners: the futures, open's context, and the handle and read_handle of run.
NoOne      == 0
Futures    == 1 .. NumXfer
OpenScope  == NumXfer + 1
Handle     == NumXfer + 2
ReadHandle == NumXfer + 3
Clones     == {Handle, ReadHandle} \cup Futures

Idle ==
  /\ devs = <<>> /\ ident = "none" /\ di = 0 /\ index = 0 /\ chosen = 0
  /\ caps = <<>> /\ timing = NoTiming
  /\ lpc = "none" /\ dropping = NoOne /\ ctx = "none" /\ evt = "none"
  /\ ctxRefs = {} /\ handleRefs = {}
  /\ xfer = [i \in Futures |-> "none"] /\ bufs = {}

Init == ostep = "start" /\ Idle

\* Another driver was asked for.
Unused == ostep = "exited" /\ Idle

-----------------------------------------------------------------------------
(* Select a device *)

\* LibusbContext::new, and the list of devices.
NewContext ==
  /\ ostep = "start"
  /\ \/ /\ ctx' = "live" /\ evt' = "poll" /\ ctxRefs' = {OpenScope}
        /\ ostep' = "select" /\ di' = 1
        /\ devs' \in DeviceLists /\ ident' \in Idents
     \/ /\ ostep' = "failed"
        /\ UNCHANGED <<ctx, evt, ctxRefs, di, devs, ident>>
  /\ UNCHANGED <<index, chosen, caps, timing, lpc, dropping, handleRefs, xfer, bufs>>

\* A number is an index among the gs_usb devices; it may also be a serial.
Matches(d, i) ==
  ident = "auto" \/ ident = <<"0", "1", "2">>[i + 1] \/ ident = d.name

\* The index counts every device passed over (mutant).
Skip_CountAll(d) == index' = index + 1

\* The index counts the gs_usb devices that did not match.
Skip(d) == index' = IF d.kind = "gs" THEN index + 1 ELSE index

\* One turn of the loop of select_device: an error ends the search, also one of
\* a device that was not asked for.
Look ==
  /\ ostep = "select" /\ di <= Len(devs)
  /\ LET d == devs[di]
     IN  \/ /\ d.kind = "bad"
            /\ ostep' = "notfound" /\ UNCHANGED <<di, index, chosen, refVars>>
         \/ /\ d.kind = "gs" /\ Matches(d, index)
            /\ ostep' = "claim" /\ chosen' = di
            /\ ctxRefs' = ctxRefs \cup {Handle} /\ handleRefs' = {Handle}
            /\ UNCHANGED <<di, index>>
         \/ /\ d.kind = "other" \/ (d.kind = "gs" /\ ~ Matches(d, index))
            /\ di' = di + 1 /\ Skip(d) /\ UNCHANGED <<ostep, chosen, refVars>>
  /\ UNCHANGED <<ident, devs, caps, timing, lpc, dropping, ctx, evt, xfer, bufs>>

NoDevice ==
  /\ ostep = "select" /\ di > Len(devs)
  /\ ostep' = "notfound"
  /\ UNCHANGED <<selVars, caps, timing, lpc, dropping, ctx, evt, refVars, xfer, bufs>>

ForgetList == devs' = <<>> /\ ident' = "none" /\ di' = 0 /\ index' = 0 /\ chosen' = 0

\* An error before the event loop exists: the handle is dropped before the
\* caller's share of the context.
GiveUp ==
  /\ ostep \in {"notfound", "claim"}
  /\ ostep' = "leave" /\ ForgetList
  /\ ctxRefs' = {OpenScope} /\ handleRefs' = {}
  /\ UNCHANGED <<caps, timing, lpc, dropping, ctx, evt, xfer, bufs>>

\* claim_interface succeeds and the event loop thread gets the handle.
Spawn ==
  /\ ostep = "claim"
  /\ ostep' = "handshake" /\ lpc' = "begin" /\ ForgetList
  /\ UNCHANGED <<caps, timing, dropping, ctx, evt, refVars, xfer, bufs>>

-----------------------------------------------------------------------------
(* Handshake, bit timing, end *)

\* The handshake answers, or fails and the driver is dropped; then open
\* returns and gives up its share of the context.
Handshake ==
  /\ ostep = "handshake"
  /\ \/ caps' \in {<<c>> : c \in CapSet} /\ ostep' = "opened"
     \/ caps' = caps /\ ostep' = "leave"
  /\ UNCHANGED <<selVars, timing, lpc, dropping, ctx, evt, refVars, xfer, bufs>>

\* An owner of the context is gone; the last one runs Drop for LibusbContext,
\* and waits in it for the libusb-events thread.
Release(owner) ==
  /\ ctxRefs' = ctxRefs \ {owner}
  /\ ctx' = IF ctxRefs # {owner} THEN ctx
            ELSE IF owner = OpenScope THEN "stop_caller" ELSE "stop_loop"

Stopping == ctx \in {"stop_caller", "stop_loop"}

Leave ==
  /\ ostep \in {"opened", "leave"} /\ OpenScope \in ctxRefs
  /\ Release(OpenScope)
  /\ UNCHANGED <<ostep, selVars, caps, timing, lpc, dropping, evt, handleRefs, xfer, bufs>>

\* set_bitrate.
SetBitrate ==
  /\ ostep = "opened" /\ OpenScope \notin ctxRefs /\ ctx # "stop_caller"
  /\ timing' = CalcBitTiming(caps[1])
  /\ ostep' = IF timing' = NoTiming THEN "untimed" ELSE "serving"
  /\ UNCHANGED <<selVars, caps, lpc, dropping, ctx, evt, refVars, xfer, bufs>>

\* The driver is dropped, and with it the command channel.
DropDriver ==
  /\ ostep \in {"serving", "untimed"}
  /\ ostep' = "leave" /\ caps' = <<>> /\ timing' = NoTiming
  /\ UNCHANGED <<selVars, lpc, dropping, ctx, evt, refVars, xfer, bufs>>

Over == {"failed", "exited"}

\* The process ends; it does not wait for the other threads.
Exit ==
  /\ ostep = "leave" /\ OpenScope \notin ctxRefs /\ ctx # "stop_caller"
  /\ ostep' = "exited"
  /\ UNCHANGED <<selVars, caps, timing, lpc, dropping, ctx, evt, refVars, xfer, bufs>>

-----------------------------------------------------------------------------
(* The event loop thread *)

\* run: a clone of the handle for each receive future.
LoopBegin ==
  /\ lpc = "begin" /\ ostep \notin Over
  /\ lpc' = "run"
  /\ ctxRefs' = ctxRefs \cup Clones /\ handleRefs' = Clones
  /\ xfer' = [i \in Futures |-> "new"]
  /\ UNCHANGED <<ostep, selVars, caps, timing, dropping, ctx, evt, bufs>>

\* The first poll of a future submits its transfer, which owns the buffer.
LoopSubmit ==
  /\ lpc = "run" /\ ostep \notin Over
  /\ \E i \in Futures :
       /\ xfer[i] = "new"
       /\ xfer' = [xfer EXCEPT ![i] = "flight"] /\ bufs' = bufs \cup {i}
  /\ UNCHANGED <<ostep, selVars, caps, timing, lpc, dropping, ctx, evt, refVars>>

\* A future is ready: its chunk is parsed and another future takes its place.
LoopTake ==
  /\ lpc = "run" /\ ostep \notin Over
  /\ \E i \in Futures : xfer[i] = "done" /\ xfer' = [xfer EXCEPT ![i] = "new"]
  /\ UNCHANGED <<ostep, selVars, caps, timing, lpc, dropping, ctx, evt, refVars, bufs>>

\* The command channel is closed, or the loop panics.
LoopEnd ==
  /\ lpc = "run" /\ ostep \notin Over
  /\ lpc' = "drop"
  /\ UNCHANGED <<ostep, selVars, caps, timing, dropping, ctx, evt, refVars, xfer, bufs>>

\* The locals of run go in their order: the futures, read_handle, then the loop.
Droppable(c) ==
  /\ c \in handleRefs
  /\ c = ReadHandle => handleRefs \cap Futures = {}
  /\ c = Handle     => handleRefs = {Handle}

\* Dropping a future takes its buffer with it (mutant).
LoopDropContext_FreeBuffer ==
  /\ lpc = "drop" /\ dropping = NoOne /\ ostep \notin Over
  /\ \E c \in Clones : /\ Droppable(c) /\ dropping' = c /\ Release(c)
                       /\ bufs' = bufs \ {c}
  /\ UNCHANGED <<ostep, selVars, caps, timing, lpc, evt, handleRefs, xfer>>

\* The fields of LibusbDeviceHandle go in their order: first the context ...
LoopDropContext ==
  /\ lpc = "drop" /\ dropping = NoOne /\ ostep \notin Over
  /\ \E c \in Clones : Droppable(c) /\ dropping' = c /\ Release(c)
  /\ UNCHANGED <<ostep, selVars, caps, timing, lpc, evt, handleRefs, xfer, bufs>>

\* ... then the handle, once a Drop for LibusbContext has returned; the last
\* one closes it.
LoopDropHandle ==
  /\ lpc = "drop" /\ dropping # NoOne /\ ostep \notin Over
  /\ ctx # "stop_loop"
  /\ handleRefs' = handleRefs \ {dropping} /\ dropping' = NoOne
  /\ lpc' = IF handleRefs' = {} THEN "ended" ELSE "drop"
  /\ UNCHANGED <<ostep, selVars, caps, timing, ctx, evt, ctxRefs, xfer, bufs>>

-----------------------------------------------------------------------------
(* The libusb-events thread, and Drop for LibusbContext *)

\* A transfer ends: its callback sends the result and frees the buffer.
Callback ==
  /\ evt = "poll" \/ Stopping
  /\ ostep \notin Over
  /\ \E i \in Futures :
       /\ xfer[i] = "flight"
       /\ xfer' = [xfer EXCEPT ![i] = "done"] /\ bufs' = bufs \ {i}
  /\ UNCHANGED <<ostep, selVars, caps, timing, lpc, dropping, ctx, evt, refVars>>

\* The thread does not look at `running' (mutant).
EventThread_NoCheck ==
  /\ evt = "poll" /\ ostep \notin Over /\ evt' = "poll"
  /\ UNCHANGED <<ostep, selVars, caps, timing, lpc, dropping, ctx, refVars, xfer, bufs>>

\* Each turn of the thread looks at `running'.
EventThread ==
  /\ ostep \notin Over
  /\ \/ evt = "poll" /\ evt' = "check"
     \/ evt = "check" /\ evt' = IF ctx = "live" THEN "poll" ELSE "ended"
  /\ UNCHANGED <<ostep, selVars, caps, timing, lpc, dropping, ctx, refVars, xfer, bufs>>

\* libusb_exit, once the thread is joined.
ContextExit ==
  /\ Stopping /\ evt = "ended" /\ ostep \notin Over
  /\ ctx' = "exited"
  /\ UNCHANGED <<ostep, selVars, caps, timing, lpc, dropping, evt, refVars, xfer, bufs>>

Gone == ostep \in Over /\ UNCHANGED ovars

Next ==
  \/ NewContext \/ Look \/ NoDevice \/ GiveUp \/ Spawn \/ Handshake
  \/ Leave \/ SetBitrate \/ DropDriver \/ Exit
  \/ LoopBegin \/ LoopSubmit \/ LoopTake \/ LoopEnd
  \/ LoopDropContext \/ LoopDropHandle
  \/ Callback \/ EventThread \/ ContextExit \/ Gone

\* The three threads run on; the loop sees that its channel is closed.
Fairness ==
  /\ WF_ovars(Leave) /\ WF_ovars(LoopBegin) /\ WF_ovars(ostep = "leave" /\ LoopEnd)
  /\ WF_ovars(LoopDropContext) /\ WF_ovars(LoopDropHandle)
  /\ WF_ovars(EventThread) /\ WF_ovars(ContextExit)

-----------------------------------------------------------------------------
(* Properties *)

\* The gs_usb devices before one, and whether the channel names it.
GsBefore(j) == {k \in 1 .. (j - 1) : devs[k].kind = "gs"}
Named(j)    == devs[j].kind = "gs" /\ Matches(devs[j], Cardinality(GsBefore(j)))
Bad(j)      == devs[j].kind = "bad"

(***************************************************************************)
(* The device selected is the first the channel names - by its serial or   *)
(* by its rank among the gs_usb devices - and one that is named is missed  *)
(* only behind a device that cannot be looked at (device.rs:148-238).      *)
(***************************************************************************)
SelectsFirst ==
  /\ ostep = "claim" =>
       Named(chosen) /\ \A j \in 1 .. (chosen - 1) : ~ Named(j) /\ ~ Bad(j)
  /\ ostep = "notfound" =>
       \A j \in DOMAIN devs : Named(j) => \E k \in 1 .. (j - 1) : Bad(k)

(***************************************************************************)
(* No thread handles events on a context that libusb_exit has released; a  *)
(* device handle that is not being dropped has its context live, whichever *)
(* thread drops its share first; and while a transfer is in flight its     *)
(* buffer is allocated, also after the future that submitted it is gone    *)
(* (context.rs:95-126, 276-316).                                           *)
(***************************************************************************)
ContextUse ==
  /\ evt \in {"poll", "check"} => ctx # "exited"
  /\ handleRefs \ {dropping} # {} => ctx = "live"
  /\ \A i \in Futures : xfer[i] = "flight" => i \in bufs

(***************************************************************************)
(* After libusb_exit the library is used for one thing only: the event     *)
(* loop closes the last device handle, whose share of the context it was   *)
(* the last to drop (context.rs:124-136).  No transfer is submitted or     *)
(* ends, no event is handled, nobody takes a share, and libusb_exit is not *)
(* called again.                                                           *)
(***************************************************************************)
LastClose ==
  handleRefs' # handleRefs => handleRefs = {dropping} /\ handleRefs' = {}

AfterExit ==
  [][ctx = "exited" =>
       /\ UNCHANGED <<ctx, evt, ctxRefs, xfer, bufs>>
       /\ LastClose]_ovars

(***************************************************************************)
(* The bit timing written to the adapter has the lowest score of all that  *)
(* are within its limits and 5 %, and set_bitrate gives up only if there   *)
(* is none (bit_timing.rs:63-141).                                         *)
(***************************************************************************)
TimingBest == ostep \in {"serving", "untimed"} => TimingIsBest(caps[1], timing)

(***************************************************************************)
(* Once the driver is gone, the event loop ends, the device is closed and  *)
(* the context released, unless the process exits first (context.rs:95).   *)
(***************************************************************************)
TeardownEnds ==
  ostep = "leave" ~> ostep \in Over \/ (ctx = "exited" /\ handleRefs = {})
=============================================================================
