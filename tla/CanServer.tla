------------------------------ MODULE CanServer ------------------------------
(***************************************************************************)
(* canserver (src/src/bin/canserver.rs with thread_manager_async.rs): six   *)
(* tokio tasks around one driver behind an async mutex.                    *)
(*                                                                         *)
(*   rd   start_ipc_reader       input pipe     -> inQ                     *)
(*   in   forward_pipe_to_can    inQ            -> driver.send_frame       *)
(*   out  forward_can_to_pipe    driver.read_frames -> outQ                *)
(*   wr   start_ipc_writer       outQ           -> output pipe             *)
(*   cfg  the config task        driver.get_bitrate, then serves a pipe    *)
(*   main select, abort, join with a timeout, close the driver             *)
(*                                                                         *)
(* A chunk of bytes is its number in order of arrival; the chunks in Junk  *)
(* do not decode as a frame.  A frame heard on the bus is its number too.  *)
(***************************************************************************)
EXTENDS Order, SequencesExt

CONSTANTS
  InCap, OutCap,    \* capacity of the two mpsc channels (100 in the code)
  MaxIn, MaxRx,     \* bounds: chunks read from the pipe, frames heard
  Junk,             \* chunks that bincode does not decode
  ReadBlocks,       \* read_frames waits for data holding the lock (SLCAN)
  ReadFails,        \* read_frames may return an error (PCAN, SLCAN)
  PipeFails         \* pipe calls may fail with more than a broken pipe

ASSUME CapAssumption == InCap \in Nat \ {0} /\ OutCap \in Nat \ {0}
ASSUME BoundAssumption == MaxIn \in Nat /\ MaxRx \in Nat /\ Junk \subseteq Nat
ASSUME DriverAssumption ==
  ReadBlocks \in BOOLEAN /\ ReadFails \in BOOLEAN /\ PipeFails \in BOOLEAN

VARIABLES
  pc,               \* where each task is
  owner, waiters,   \* the tokio mutex: its holder and its FIFO of waiters
  nIn,              \* chunks read from the input pipe so far
  rdHand,           \* chunk the reader is sending, 0 if none
  inQ,              \* channel tx_in_pipe / rx_in_pipe
  inHand,           \* chunk being forwarded by `in', 0 if none
  offered,          \* chunks passed to driver.send_frame, in order
  nRx,              \* frames received by the driver so far
  rxbuf,            \* frames the driver would return next
  batch,            \* frames of the current read_frames still to be pushed
  outQ,             \* channel tx_out_pipe / rx_out_pipe
  wrHand,           \* frame the writer is writing, 0 if none
  delivered,        \* frames written to the output pipe, in order
  aborted,          \* abort() was called on both forwarding tasks
  consumed,         \* task whose JoinHandle the select! has consumed
  timedOut,         \* the 200 ms of grace elapsed
  closed            \* close_channel was called

lockVars == <<owner, waiters>>
inVars   == <<nIn, rdHand, inQ, inHand, offered>>
outVars  == <<nRx, rxbuf, batch, outQ, wrHand, delivered>>
mainVars == <<aborted, consumed, timedOut, closed>>
vars     == <<pc, lockVars, inVars, outVars, mainVars>>

None  == "none"
Tasks == {"rd", "in", "out", "wr", "cfg", "main"}

At(t, l)   == pc[t] = l
Goto(t, l) == pc' = [pc EXCEPT ![t] = l]

\* The process runs: main has neither returned nor panicked.
Running == pc["main"] \notin {"exited", "panicked"}

-----------------------------------------------------------------------------
(* The tokio mutex: a free lock is taken at once, otherwise the task queues; *)
(* a release hands the lock to the first waiter.                            *)

Acquire(t) ==
  IF owner = None
    THEN owner' = t /\ UNCHANGED waiters
    ELSE waiters' = Append(waiters, t) /\ UNCHANGED owner

\* A release that wakes nobody (mutant).
Release_NoWake ==
  owner' = None /\ UNCHANGED waiters

Release ==
  IF waiters = <<>>
    THEN owner' = None /\ UNCHANGED waiters
    ELSE owner' = Head(waiters) /\ waiters' = Tail(waiters)

\* A waiting `lock()` future is dropped.
Dequeue(t) ==
  \E i \in 1 .. Len(waiters) :
    /\ waiters[i] = t
    /\ waiters' = RemoveAt(waiters, i)
    /\ UNCHANGED owner

\* A cancelled waiter keeps its place in the queue (mutant).
Leave_Stale(t) ==
  IF owner = t THEN Release ELSE UNCHANGED <<owner, waiters>>

\* The guard, or the future waiting for it, is dropped with its task.
Leave(t) == IF owner = t THEN Release ELSE Dequeue(t)

Init ==
  /\ pc = [t \in Tasks |-> CASE t = "in"   -> "recv"
                            [] t = "out"  -> "loop"
                            [] t = "cfg"  -> "start"
                            [] t = "main" -> "select"
                            [] OTHER      -> "listen"]
  /\ owner = None /\ waiters = <<>>
  /\ nIn = 0 /\ rdHand = 0 /\ inQ = <<>> /\ inHand = 0 /\ offered = <<>>
  /\ nRx = 0 /\ rxbuf = <<>> /\ batch = <<>> /\ outQ = <<>>
  /\ wrHand = 0 /\ delivered = <<>>
  /\ aborted = FALSE /\ consumed = None /\ timedOut = FALSE /\ closed = FALSE

-----------------------------------------------------------------------------
(* rd: start_ipc_reader *)

\* create_server_and_wait returns with a client.
RdConnect ==
  /\ Running /\ At("rd", "listen")
  /\ Goto("rd", "conn")
  /\ UNCHANGED <<lockVars, inVars, outVars, mainVars>>

\* read_buf returned bytes; the reader now awaits tx.send.
RdRead ==
  /\ Running /\ At("rd", "conn") /\ nIn < MaxIn
  /\ nIn' = nIn + 1 /\ rdHand' = nIn + 1
  /\ Goto("rd", "send")
  /\ UNCHANGED <<lockVars, inQ, inHand, offered, outVars, mainVars>>

\* read_buf returned 0: the client is gone, listen again.
RdEof ==
  /\ Running /\ At("rd", "conn")
  /\ Goto("rd", "listen")
  /\ UNCHANGED <<lockVars, inVars, outVars, mainVars>>

\* A `?' in the reader: the task returns and drops its sender.
RdFail ==
  /\ PipeFails /\ Running
  /\ At("rd", "listen") \/ At("rd", "conn")
  /\ Goto("rd", "dead")
  /\ UNCHANGED <<lockVars, inVars, outVars, mainVars>>

\* try_send instead of send: a chunk is lost when the channel is full (mutant).
RdSend_Lossy ==
  /\ Running /\ At("rd", "send") /\ ~ At("in", "done")
  /\ inQ' = IF Len(inQ) < InCap THEN Append(inQ, rdHand) ELSE inQ
  /\ rdHand' = 0
  /\ Goto("rd", "conn")
  /\ UNCHANGED <<lockVars, nIn, inHand, offered, outVars, mainVars>>

\* tx.send waits for room.
RdSend ==
  /\ Running /\ At("rd", "send") /\ ~ At("in", "done")
  /\ Len(inQ) < InCap
  /\ inQ' = Append(inQ, rdHand) /\ rdHand' = 0
  /\ Goto("rd", "conn")
  /\ UNCHANGED <<lockVars, nIn, inHand, offered, outVars, mainVars>>

\* tx.send fails once `in' has dropped the receiver.
RdSendClosed ==
  /\ Running /\ At("rd", "send") /\ At("in", "done")
  /\ rdHand' = 0
  /\ Goto("rd", "listen")
  /\ UNCHANGED <<lockVars, nIn, inQ, inHand, offered, outVars, mainVars>>

-----------------------------------------------------------------------------
(* in: forward_pipe_to_can *)

\* A chunk that does not decode is skipped without taking the lock.
InSkip ==
  /\ Running /\ At("in", "recv") /\ inQ # <<>> /\ Head(inQ) \in Junk
  /\ inQ' = Tail(inQ)
  /\ UNCHANGED <<pc, lockVars, nIn, rdHand, inHand, offered, outVars, mainVars>>

InRecv ==
  /\ Running /\ At("in", "recv") /\ inQ # <<>> /\ Head(inQ) \notin Junk
  /\ inHand' = Head(inQ) /\ inQ' = Tail(inQ)
  /\ Acquire("in")
  /\ Goto("in", "call")
  /\ UNCHANGED <<nIn, rdHand, offered, outVars, mainVars>>

\* A frame whose send fails is offered once more (mutant).
InSend_Retry ==
  /\ Running /\ At("in", "call") /\ owner = "in"
  /\ offered' = Append(offered, inHand)
  /\ \/ UNCHANGED <<pc, lockVars, inHand>>
     \/ inHand' = 0 /\ Release /\ Goto("in", "recv")
  /\ UNCHANGED <<nIn, rdHand, inQ, outVars, mainVars>>

\* send_frame returns, with an error or not (it is only logged), and the
\* guard is dropped at the end of the block.
InSend ==
  /\ Running /\ At("in", "call") /\ owner = "in"
  /\ offered' = Append(offered, inHand) /\ inHand' = 0
  /\ Release
  /\ Goto("in", "recv")
  /\ UNCHANGED <<nIn, rdHand, inQ, outVars, mainVars>>

\* recv returns None: the reader is dead and the channel is drained.
InEnd ==
  /\ Running /\ At("in", "recv") /\ inQ = <<>> /\ At("rd", "dead")
  /\ Goto("in", "done")
  /\ UNCHANGED <<lockVars, inVars, outVars, mainVars>>

\* The aborted task is dropped at an await.  A send_frame in progress may
\* or may not have passed its frame on.
InCancel ==
  /\ Running /\ aborted
  /\ \/ /\ At("in", "recv")
        /\ UNCHANGED <<lockVars, offered>>
     \/ /\ At("in", "call") /\ Leave("in")
        /\ \/ UNCHANGED offered
           \/ owner = "in" /\ offered' = Append(offered, inHand)
  /\ inQ' = <<>> /\ inHand' = 0
  /\ Goto("in", "done")
  /\ UNCHANGED <<nIn, rdHand, outVars, mainVars>>

-----------------------------------------------------------------------------
(* out: forward_can_to_pipe.  The guard is a temporary of the `match' and   *)
(* lives until its end: the lock is held while the frames are pushed.       *)

OutLock ==
  /\ Running /\ At("out", "loop")
  /\ Acquire("out")
  /\ Goto("out", "call")
  /\ UNCHANGED <<inVars, outVars, mainVars>>

\* read_frames returns what the driver has; SLCAN waits for serial data.
OutRead ==
  /\ Running /\ At("out", "call") /\ owner = "out"
  /\ ReadBlocks => rxbuf # <<>>
  /\ batch' = rxbuf /\ rxbuf' = <<>>
  /\ Goto("out", "push")
  /\ UNCHANGED <<lockVars, inVars, nRx, outQ, wrHand, delivered, mainVars>>

\* The capacity of the channel is not enforced (mutant).
OutPush_Unbounded ==
  /\ Running /\ At("out", "push") /\ batch # <<>>
  /\ batch' = Tail(batch) /\ outQ' = Append(outQ, Head(batch))
  /\ UNCHANGED <<pc, lockVars, inVars, nRx, rxbuf, wrHand, delivered, mainVars>>

\* try_send: the frame is dropped when the channel is full or closed.
OutPush ==
  /\ Running /\ At("out", "push") /\ batch # <<>>
  /\ batch' = Tail(batch)
  /\ outQ' = IF Len(outQ) < OutCap /\ ~ At("wr", "dead")
               THEN Append(outQ, Head(batch)) ELSE outQ
  /\ UNCHANGED <<pc, lockVars, inVars, nRx, rxbuf, wrHand, delivered, mainVars>>

\* The guard is kept from one iteration to the next (mutant).
OutPushed_Keep ==
  /\ Running /\ At("out", "push") /\ batch = <<>>
  /\ Goto("out", "call")
  /\ UNCHANGED <<lockVars, inVars, outVars, mainVars>>

OutPushed ==
  /\ Running /\ At("out", "push") /\ batch = <<>>
  /\ Release
  /\ Goto("out", "loop")
  /\ UNCHANGED <<inVars, outVars, mainVars>>

\* read_frames fails (or panics): what it had read is lost, the task ends.
OutReadErr ==
  /\ ReadFails /\ Running /\ At("out", "call") /\ owner = "out"
  /\ UNCHANGED rxbuf \/ rxbuf' = <<>>
  /\ Release
  /\ Goto("out", "done")
  /\ UNCHANGED <<inVars, nRx, batch, outQ, wrHand, delivered, mainVars>>

\* The cancelled task leaks its guard (mutant).
OutCancel_Leak ==
  /\ Running /\ aborted
  /\ At("out", "loop") \/ At("out", "call")
  /\ Goto("out", "done")
  /\ UNCHANGED <<lockVars, inVars, outVars, mainVars>>

\* The aborted task is dropped at an await: never between two pushes.
OutCancel ==
  /\ Running /\ aborted
  /\ \/ At("out", "loop") /\ UNCHANGED lockVars
     \/ At("out", "call") /\ Leave("out")
  /\ Goto("out", "done")
  /\ UNCHANGED <<inVars, outVars, mainVars>>

\* The bus: the driver receives a frame.
Hear ==
  /\ Running /\ nRx < MaxRx
  /\ nRx' = nRx + 1 /\ rxbuf' = Append(rxbuf, nRx + 1)
  /\ UNCHANGED <<pc, lockVars, inVars, batch, outQ, wrHand, delivered, mainVars>>

-----------------------------------------------------------------------------
(* wr: start_ipc_writer, which receives nothing before a client connects *)

WrConnect ==
  /\ Running /\ At("wr", "listen")
  /\ Goto("wr", "recv")
  /\ UNCHANGED <<lockVars, inVars, outVars, mainVars>>

WrRecv ==
  /\ Running /\ At("wr", "recv") /\ outQ # <<>>
  /\ wrHand' = Head(outQ) /\ outQ' = Tail(outQ)
  /\ Goto("wr", "write")
  /\ UNCHANGED <<lockVars, inVars, nRx, rxbuf, batch, delivered, mainVars>>

\* recv returns None: `out' is gone and the channel is drained.
WrEnd ==
  /\ Running /\ At("wr", "recv") /\ outQ = <<>> /\ At("out", "done")
  /\ Goto("wr", "dead")
  /\ UNCHANGED <<lockVars, inVars, outVars, mainVars>>

\* A frame whose flush fails is written again (mutant).
WrWrite_Again ==
  /\ Running /\ At("wr", "write")
  /\ delivered' = Append(delivered, wrHand)
  /\ \/ UNCHANGED <<pc, wrHand>>
     \/ wrHand' = 0 /\ Goto("wr", "recv")
  /\ UNCHANGED <<lockVars, inVars, nRx, rxbuf, batch, outQ, mainVars>>

WrWrite ==
  /\ Running /\ At("wr", "write")
  /\ delivered' = Append(delivered, wrHand) /\ wrHand' = 0
  /\ Goto("wr", "recv")
  /\ UNCHANGED <<lockVars, inVars, nRx, rxbuf, batch, outQ, mainVars>>

\* BrokenPipe: the frame in hand is lost, the writer listens again.
WrBroken ==
  /\ Running /\ At("wr", "write")
  /\ wrHand' = 0
  /\ Goto("wr", "listen")
  /\ UNCHANGED <<lockVars, inVars, nRx, rxbuf, batch, outQ, delivered, mainVars>>

\* Any other error ends the writer, unnoticed; the channel closes.
WrFail ==
  /\ PipeFails /\ Running
  /\ At("wr", "listen") \/ At("wr", "write")
  /\ wrHand' = 0 /\ outQ' = <<>>
  /\ Goto("wr", "dead")
  /\ UNCHANGED <<lockVars, inVars, nRx, rxbuf, batch, delivered, mainVars>>

-----------------------------------------------------------------------------
(* cfg: locks the driver once for its bitrate, then serves the config pipe *)

CfgLock ==
  /\ Running /\ At("cfg", "start")
  /\ Acquire("cfg")
  /\ Goto("cfg", "call")
  /\ UNCHANGED <<inVars, outVars, mainVars>>

CfgGetBitrate ==
  /\ Running /\ At("cfg", "call") /\ owner = "cfg"
  /\ Release
  /\ Goto("cfg", "serve")
  /\ UNCHANGED <<inVars, outVars, mainVars>>

CfgFail ==
  /\ PipeFails /\ Running /\ At("cfg", "serve")
  /\ Goto("cfg", "dead")
  /\ UNCHANGED <<lockVars, inVars, outVars, mainVars>>

-----------------------------------------------------------------------------
(* main *)

CtrlC ==
  /\ At("main", "select")
  /\ Goto("main", "abort")
  /\ UNCHANGED <<lockVars, inVars, outVars, mainVars>>

\* The select! polls a handle to completion: its output is taken.
TaskEnded(t) ==
  /\ At("main", "select") /\ At(t, "done")
  /\ consumed' = t
  /\ Goto("main", "abort")
  /\ UNCHANGED <<lockVars, inVars, outVars, aborted, timedOut, closed>>

Abort ==
  /\ At("main", "abort")
  /\ aborted' = TRUE
  /\ Goto("main", "join_in")
  /\ UNCHANGED <<lockVars, inVars, outVars, consumed, timedOut, closed>>

\* Awaiting a JoinHandle whose output was taken panics.
Joined(t, next) ==
  /\ At(t, "done")
  /\ Goto("main", IF consumed = t THEN "panicked" ELSE next)
  /\ UNCHANGED <<lockVars, inVars, outVars, mainVars>>

\* main does not wait for the aborted `in' (mutant).
JoinIn_NoWait ==
  /\ At("main", "join_in") /\ Goto("main", "join_out")
  /\ UNCHANGED <<lockVars, inVars, outVars, mainVars>>

JoinIn  == At("main", "join_in") /\ Joined("in", "join_out")
JoinOut == At("main", "join_out") /\ Joined("out", "lock")

\* The timeout gives up on closing too (mutant).
JoinTimeout_NoClose ==
  /\ \/ At("main", "join_in") /\ ~ At("in", "done")
     \/ At("main", "join_out") /\ ~ At("out", "done")
  /\ timedOut' = TRUE
  /\ Goto("main", "return")
  /\ UNCHANGED <<lockVars, inVars, outVars, aborted, consumed, closed>>

\* The 200 ms elapse while the awaited task is still there.
JoinTimeout ==
  /\ \/ At("main", "join_in") /\ ~ At("in", "done")
     \/ At("main", "join_out") /\ ~ At("out", "done")
  /\ timedOut' = TRUE
  /\ Goto("main", "lock")
  /\ UNCHANGED <<lockVars, inVars, outVars, aborted, consumed, closed>>

MainLock ==
  /\ At("main", "lock")
  /\ Acquire("main")
  /\ Goto("main", "call")
  /\ UNCHANGED <<inVars, outVars, mainVars>>

Close ==
  /\ At("main", "call") /\ owner = "main"
  /\ closed' = TRUE
  /\ Release
  /\ Goto("main", "return")
  /\ UNCHANGED <<inVars, outVars, aborted, consumed, timedOut>>

Return ==
  /\ At("main", "return")
  /\ Goto("main", "exited")
  /\ UNCHANGED <<lockVars, inVars, outVars, mainVars>>

\* The process is gone.
Gone == ~ Running /\ UNCHANGED vars

-----------------------------------------------------------------------------
RdStep   == RdSend \/ RdSendClosed
InStep   == InSkip \/ InRecv \/ InSend \/ InEnd
OutStep  == OutLock \/ OutRead \/ OutPush \/ OutPushed
WrStep   == WrRecv \/ WrEnd \/ WrWrite
CfgStep  == CfgLock \/ CfgGetBitrate
MainStep == \/ \E t \in {"in", "out"} : TaskEnded(t)
            \/ Abort \/ JoinIn \/ JoinOut \/ MainLock \/ Close \/ Return

\* Clients, the bus, the user, failures and the clock: never assumed fair.
Environment ==
  \/ RdConnect \/ RdRead \/ RdEof \/ RdFail
  \/ WrConnect \/ WrBroken \/ WrFail \/ CfgFail
  \/ OutReadErr \/ Hear \/ CtrlC \/ JoinTimeout

Next ==
  \/ RdStep \/ InStep \/ OutStep \/ WrStep \/ CfgStep \/ MainStep
  \/ InCancel \/ OutCancel
  \/ Environment \/ Gone

Spec == Init /\ [][Next]_vars

(***************************************************************************)
(* tokio polls every ready task; an aborted task is dropped the next time  *)
(* it yields, and the cooperative budget of its lock and recv awaits makes *)
(* it yield again and again (hence strong fairness).                       *)
(***************************************************************************)
Fairness ==
  /\ WF_vars(RdStep) /\ WF_vars(InStep) /\ WF_vars(OutStep)
  /\ WF_vars(WrStep) /\ WF_vars(CfgStep) /\ WF_vars(MainStep)
  /\ SF_vars(InCancel) /\ SF_vars(OutCancel)

FairSpec == Spec /\ Fairness

-----------------------------------------------------------------------------
(* Properties *)

Clients == {"in", "out", "cfg", "main"}      \* the tasks that use the driver
Carried(n) == IF n = 0 THEN <<>> ELSE <<n>>   \* what a task carries

Labels ==
  [rd   |-> {"listen", "conn", "send", "dead"},
   in   |-> {"recv", "call", "done"},
   out  |-> {"loop", "call", "push", "done"},
   wr   |-> {"listen", "recv", "write", "dead"},
   cfg  |-> {"start", "call", "serve", "dead"},
   main |-> {"select", "abort", "join_in", "join_out", "lock", "call",
             "return", "exited", "panicked"}]

PcType   == /\ pc = [t \in Tasks |-> pc[t]]
            /\ \A t \in Tasks : pc[t] \in Labels[t]
LockType == owner \in Clients \cup {None} /\ waiters \in Seq(Clients)
InType   == /\ nIn \in Nat /\ rdHand \in Nat /\ inHand \in Nat
            /\ offered \in Seq(Nat) /\ inQ \in Seq(Nat) /\ Len(inQ) <= InCap
OutType  == /\ nRx \in Nat /\ wrHand \in Nat /\ rxbuf \in Seq(Nat)
            /\ batch \in Seq(Nat) /\ delivered \in Seq(Nat)
            /\ outQ \in Seq(Nat) /\ Len(outQ) <= OutCap
MainType == /\ aborted \in BOOLEAN /\ timedOut \in BOOLEAN /\ closed \in BOOLEAN
            /\ consumed \in {None, "in", "out"}

\* Every variable has its type; the channels stay within their capacity.
TypeOK == PcType /\ LockType /\ InType /\ OutType /\ MainType

Holding(t) == owner = t
Waiting(t) == t \in Range(waiters)
Wants(t)   == At(t, "call") \/ (t = "out" /\ At(t, "push"))

\* A task has one place, and a free lock has no waiters.
LockShape ==
  /\ \A t \in Clients : ~ (Holding(t) /\ Waiting(t))
  /\ \A i, j \in 1 .. Len(waiters) : waiters[i] = waiters[j] => i = j
  /\ owner = None => waiters = <<>>

(***************************************************************************)
(* The driver mutex loses nobody: a task holds it or is queued for it      *)
(* exactly when it is inside its critical region, it is in one place only, *)
(* and a free lock has no waiters.  A cancelled or failed task leaves      *)
(* neither a held lock nor a stale place in the queue behind, which is     *)
(* what lets main close the driver after the abort.                        *)
(***************************************************************************)
LockOK ==
  /\ \A t \in Clients : Wants(t) <=> Holding(t) \/ Waiting(t)
  /\ At("out", "push") => Holding("out")
  /\ LockShape

(***************************************************************************)
(* Pipe to bus: until the forwarding task ends, every chunk read that      *)
(* decodes was offered to the driver or is on its way to it, once and in   *)
(* the order it was read: back-pressure loses and reorders nothing.        *)
(***************************************************************************)
InFifo ==
  LET line == offered \o Carried(inHand) \o inQ \o Carried(rdHand)
  IN  ~ At("in", "done") =>
        /\ Increasing(line)
        /\ Range(line) \ Junk = (1 .. nIn) \ Junk
        /\ Range(offered) \cap Junk = {}

(***************************************************************************)
(* Bus to pipe: what was written, what is in the writer's hand, in the     *)
(* channel, in the batch and in the driver is one increasing sequence:     *)
(* frames may be missing but none is repeated or overtaken.                *)
(***************************************************************************)
OutOrder ==
  Increasing(delivered \o Carried(wrHand) \o outQ \o batch \o rxbuf)

(***************************************************************************)
(* Once close_channel was called no frame is offered to the driver, unless *)
(* the grace period ran out with a forwarding task still alive.            *)
(***************************************************************************)
NoSendAfterClose == [][closed /\ ~ timedOut => offered' = offered]_vars

(***************************************************************************)
(* The process never ends with its CAN channel open (the purpose of the    *)
(* shutdown sequence at the end of main).                                  *)
(***************************************************************************)
CloseOnExit == ~ Running => closed

\* The tasks, channels and lock together implement the bridge.
Bridge == INSTANCE Bridge WITH accepted <- nIn, heard <- nRx
ImplementsBridge == Bridge!Spec

(***************************************************************************)
(* A chunk that decodes is eventually offered to the driver, unless the    *)
(* server shuts down: waiting for the lock ends.                           *)
(***************************************************************************)
InForwarded ==
  \A n \in (1 .. MaxIn) \ Junk :
     (nIn >= n) ~> (n \in Range(offered) \/ ~ At("main", "select"))

\* The config task gets the bitrate and serves it, or the server shuts down.
ConfigServed == <>(At("cfg", "serve") \/ ~ At("main", "select"))

\* Once main leaves its select!, the process ends.
ShutdownEnds == ~ At("main", "select") ~> ~ Running
=============================================================================
