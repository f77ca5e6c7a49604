--------------------------- MODULE GsUsbOrderProofs ---------------------------
(***************************************************************************)
(* Theorems about the order of frames through the gs_usb driver, in both   *)
(* directions; about the state the last call leaves the adapter in; and    *)
(* about the format of the stream: what the set-up calls leave in the      *)
(* driver, in the event loop and in the adapter, and what follows for the  *)
(* frames sent and received while no bulk write stalls.                    *)
(***************************************************************************)
EXTENDS GsUsbProofs

-----------------------------------------------------------------------------
(* The channel of commands *)

\* What each way to change the channel leaves in it.
LEMMA PutCommand ==
  ASSUME QueueType, NEW c \in Commands, cmdQ' = Append(cmdQ, c)
  PROVE  /\ Len(cmdQ) \in Nat /\ Len(cmdQ') = Len(cmdQ) + 1
         /\ \A i \in 1 .. Len(cmdQ) : cmdQ'[i] = cmdQ[i]
         /\ cmdQ'[Len(cmdQ')] = c
BY AppendProperties, LenProperties DEF QueueType

LEMMA TakeCommand ==
  ASSUME QueueType, cmdQ # <<>>, cmdQ' = Tail(cmdQ)
  PROVE  /\ Len(cmdQ) \in Nat \ {0} /\ Len(cmdQ') = Len(cmdQ) - 1
         /\ Head(cmdQ) = cmdQ[1] /\ Head(cmdQ) \in Commands
         /\ \A i \in 1 .. Len(cmdQ') : cmdQ'[i] = cmdQ[i + 1] /\ i + 1 \in 1 .. Len(cmdQ)
<1>1. /\ Len(cmdQ) \in Nat \ {0} /\ Len(cmdQ') = Len(cmdQ) - 1
      /\ Head(cmdQ) = cmdQ[1] /\ Head(cmdQ) \in Commands
      /\ \A i \in 1 .. Len(cmdQ') : cmdQ'[i] = cmdQ[i + 1]
  BY HeadTailProperties, LenProperties, EmptySeq DEF QueueType
<1>2. \A i \in 1 .. Len(cmdQ') : i + 1 \in 1 .. Len(cmdQ)
  BY <1>1
<1>. QED  BY <1>1, <1>2

LEMMA AbandonCommands ==
  ASSUME QueueType,
         cmdQ' = [i \in 1 .. Len(cmdQ) |-> [cmdQ[i] EXCEPT !.live = FALSE]]
  PROVE  /\ Len(cmdQ) \in Nat /\ Len(cmdQ') = Len(cmdQ)
         /\ \A i \in 1 .. Len(cmdQ') :
              /\ cmdQ'[i].req = cmdQ[i].req /\ cmdQ'[i].n = cmdQ[i].n
              /\ cmdQ'[i].flags = cmdQ[i].flags /\ cmdQ'[i].live = FALSE
<1>1. Len(cmdQ) \in Nat
  BY LenProperties DEF QueueType
<1>2. ASSUME NEW i \in 1 .. Len(cmdQ)
      PROVE  /\ cmdQ'[i] \in Commands
             /\ cmdQ'[i].req = cmdQ[i].req /\ cmdQ'[i].n = cmdQ[i].n
             /\ cmdQ'[i].flags = cmdQ[i].flags /\ cmdQ'[i].live = FALSE
  <2>1. cmdQ[i] \in Commands
    BY ElementOfSeq DEF QueueType
  <2>2. cmdQ'[i] = [cmdQ[i] EXCEPT !.live = FALSE]
    OBVIOUS
  <2>. QED  BY <2>1, <2>2 DEF Commands
<1>3. cmdQ' \in Seq(Commands)
  <2>1. \A i \in 1 .. Len(cmdQ) : [cmdQ[i] EXCEPT !.live = FALSE] \in Commands
    BY <1>2
  <2>. QED  BY <1>1, <2>1, IsASeq
<1>4. Len(cmdQ') = Len(cmdQ)
  BY <1>1, <1>3, LenProperties
<1>. QED  BY <1>1, <1>2, <1>4

\* A command somebody waits for is the last of the channel.
LEMMA LiveIsLast ==
  ASSUME TypeOK, NoLostReply, NEW i \in 1 .. Len(cmdQ), cmdQ[i].live
  PROVE  /\ waiting /\ reply = None /\ i = Len(cmdQ) /\ step \in Calls
         /\ cmdQ[i].req = Request[step]
<1>1. i \in Live
  BY DEF Live
<1>2. waiting /\ reply = None /\ i = Len(cmdQ) /\ cmdQ[i].req = Request[step]
  BY <1>1 DEF NoLostReply
<1>. QED  BY <1>2 DEF TypeOK, CallType

\* The calls that put a frame in the channel.
LEMMA BulkCalls ==
  /\ \A s \in Calls : Request[s] = "bulk" <=> s \in {"send", "resend"}
  /\ \A s \in Calls : NextStep[s] \notin {"send", "resend", "close"}
  /\ \A s \in Calls : OnError(s) \notin {"send", "resend", "close"}
  /\ Request["close"] = "reset"
<1>1. \A s \in Calls : Request[s] = "bulk" <=> s \in {"send", "resend"}
  BY CallTable DEF Request
<1>2. \A s \in Calls : NextStep[s] \notin {"send", "resend", "close"}
  BY CallTable DEF NextStep
<1>3. \A s \in Calls : OnError(s) \notin {"send", "resend", "close"}
  BY CallTable, <1>2 DEF OnError
<1>4. Request["close"] = "reset"
  BY DEF Request
<1>. QED  BY <1>1, <1>2, <1>3, <1>4

-----------------------------------------------------------------------------
(* Frames to the bus *)

\* Every frame on the bus or on its way there has a number below n.
Behind(n) ==
  /\ \A i \in 1 .. Len(onBus) : onBus[i] < n
  /\ \A i \in 1 .. Len(cmdQ) : cmdQ[i].req = "bulk" => cmdQ[i].n < n

\* The frame being sent has yet to be put in the channel, or again.
ToSend ==
  /\ step \in {"send", "resend"}
  /\ ~ waiting \/ (step = "send" /\ reply = "stall")

(***************************************************************************)
(* The frames in the channel, abandoned ones too, are in order behind      *)
(* those on the bus; a frame to be sent, or sent again after a stall, is   *)
(* in neither place.                                                       *)
(***************************************************************************)
BusInv ==
  /\ Increasing(onBus)
  /\ \A i \in 1 .. Len(onBus), j \in 1 .. Len(cmdQ) :
       cmdQ[j].req = "bulk" => onBus[i] < cmdQ[j].n
  /\ \A i, j \in 1 .. Len(cmdQ) :
       i < j /\ cmdQ[i].req = "bulk" /\ cmdQ[j].req = "bulk" => cmdQ[i].n < cmdQ[j].n
  /\ Behind(nTx + 1)
  /\ ToSend => Behind(nTx)

LEMMA BusFrame ==
  ASSUME BusInv, UNCHANGED <<onBus, cmdQ, nTx, step, waiting, reply>>
  PROVE  BusInv'
BY DEF BusInv, Behind, ToSend, Increasing

\* A call that begins or ends without touching the channel or the bus.
LEMMA BusCaller ==
  ASSUME BusInv, UNCHANGED <<onBus, cmdQ, nTx>>, ToSend' => ToSend
  PROVE  BusInv'
BY DEF BusInv, Behind, Increasing

LEMMA BehindTake ==
  ASSUME TypeOK, cmdQ # <<>>, cmdQ' = Tail(cmdQ), UNCHANGED <<onBus, nTx>>, Behind(nTx)
  PROVE  Behind(nTx)'
<1>1. \A i \in 1 .. Len(cmdQ') : cmdQ'[i] = cmdQ[i + 1] /\ i + 1 \in 1 .. Len(cmdQ)
  BY TakeCommand DEF TypeOK
<1>. QED  BY <1>1 DEF Behind

\* The event loop takes a command and sends nothing.
LEMMA BusTake ==
  ASSUME TypeOK, BusInv, cmdQ # <<>>, cmdQ' = Tail(cmdQ),
         UNCHANGED <<onBus, nTx>>, ToSend' => Behind(nTx)'
  PROVE  BusInv'
<1>1. /\ Len(cmdQ) \in Nat \ {0} /\ Len(cmdQ') = Len(cmdQ) - 1
      /\ \A i \in 1 .. Len(cmdQ') : cmdQ'[i] = cmdQ[i + 1] /\ i + 1 \in 1 .. Len(cmdQ)
  BY TakeCommand DEF TypeOK
<1>2. Increasing(onBus)'
  BY DEF BusInv, Increasing
<1>3. Behind(nTx + 1)'
  BY <1>1 DEF BusInv, Behind
<1>4. \A i \in 1 .. Len(onBus'), j \in 1 .. Len(cmdQ') :
        cmdQ'[j].req = "bulk" => onBus'[i] < cmdQ'[j].n
  BY <1>1 DEF BusInv
<1>5. \A i, j \in 1 .. Len(cmdQ') :
        i < j /\ cmdQ'[i].req = "bulk" /\ cmdQ'[j].req = "bulk" => cmdQ'[i].n < cmdQ'[j].n
  BY <1>1 DEF BusInv
<1>. QED  BY <1>2, <1>3, <1>4, <1>5 DEF BusInv

\* The event loop takes a frame and the adapter puts it on the bus.
LEMMA BusTransmit ==
  ASSUME TypeOK, BusInv, cmdQ # <<>>, Head(cmdQ).req = "bulk", cmdQ' = Tail(cmdQ),
         onBus' = Append(onBus, Head(cmdQ).n), UNCHANGED nTx, ToSend' => ToSend
  PROVE  BusInv'
<1>. DEFINE n == Head(cmdQ).n
<1>1. /\ Len(cmdQ) \in Nat \ {0} /\ Len(cmdQ') = Len(cmdQ) - 1
      /\ Head(cmdQ) = cmdQ[1] /\ n \in Nat
      /\ \A i \in 1 .. Len(cmdQ') : cmdQ'[i] = cmdQ[i + 1] /\ i + 1 \in 1 .. Len(cmdQ)
  BY TakeCommand DEF TypeOK, Commands
<1>2. \A i \in 1 .. Len(onBus) : onBus[i] < n
  BY <1>1 DEF BusInv
<1>3. n < nTx + 1
  BY <1>1 DEF BusInv, Behind
<1>4. \A j \in 1 .. Len(cmdQ') : cmdQ'[j].req = "bulk" => n < cmdQ'[j].n
  BY <1>1 DEF BusInv
<1>. HIDE DEF n
<1>5. /\ Len(onBus) \in Nat /\ Len(onBus') = Len(onBus) + 1
      /\ \A i \in 1 .. Len(onBus) : onBus'[i] = onBus[i]
      /\ onBus'[Len(onBus) + 1] = n
  BY <1>1, AppendProperties, LenProperties DEF TypeOK, DevType, n
<1>6. Increasing(onBus)'
  BY <1>2, <1>5 DEF BusInv, Increasing
<1>7. Behind(nTx + 1)'
  BY <1>1, <1>3, <1>5 DEF BusInv, Behind
<1>8. \A i \in 1 .. Len(onBus'), j \in 1 .. Len(cmdQ') :
        cmdQ'[j].req = "bulk" => onBus'[i] < cmdQ'[j].n
  BY <1>1, <1>4, <1>5 DEF BusInv
<1>9. \A i, j \in 1 .. Len(cmdQ') :
        i < j /\ cmdQ'[i].req = "bulk" /\ cmdQ'[j].req = "bulk" => cmdQ'[i].n < cmdQ'[j].n
  BY <1>1 DEF BusInv
<1>10. ToSend' => Behind(nTx)'
  <2>1. ASSUME Behind(nTx) PROVE n < nTx
    BY <1>1, <2>1 DEF Behind, n
  <2>. QED  BY <1>1, <1>5, <2>1 DEF BusInv, Behind
<1>. QED  BY <1>6, <1>7, <1>8, <1>9, <1>10 DEF BusInv

\* A command with a number behind nothing, or no number at all, is put last.
LEMMA BusPut ==
  ASSUME TypeOK, BusInv, NEW c \in Commands, cmdQ' = Append(cmdQ, c),
         UNCHANGED <<onBus, nTx>>, ~ ToSend',
         c.req = "bulk" => c.n = nTx /\ Behind(nTx)
  PROVE  BusInv'
<1>1. /\ Len(cmdQ) \in Nat /\ Len(cmdQ') = Len(cmdQ) + 1 /\ cmdQ'[Len(cmdQ')] = c
      /\ \A i \in 1 .. Len(cmdQ) : cmdQ'[i] = cmdQ[i]
  BY PutCommand DEF TypeOK
<1>2. nTx \in Nat
  BY DEF TypeOK, CallType
<1>3. Increasing(onBus)'
  BY DEF BusInv, Increasing
<1>4. Behind(nTx + 1)'
  BY <1>1, <1>2 DEF BusInv, Behind
<1>5. \A i \in 1 .. Len(onBus'), j \in 1 .. Len(cmdQ') :
        cmdQ'[j].req = "bulk" => onBus'[i] < cmdQ'[j].n
  BY <1>1 DEF BusInv, Behind
<1>6. \A i, j \in 1 .. Len(cmdQ') :
        i < j /\ cmdQ'[i].req = "bulk" /\ cmdQ'[j].req = "bulk" => cmdQ'[i].n < cmdQ'[j].n
  BY <1>1 DEF BusInv, Behind
<1>. QED  BY <1>3, <1>4, <1>5, <1>6 DEF BusInv

(***************************************************************************)
(* A frame goes on the bus at most once and in order: the resend that      *)
(* follows a stall cannot meet a first copy on the bus, and a send that is *)
(* dropped at shutdown stays where it was in the channel.                  *)
(***************************************************************************)
THEOREM TransmittedOnce == Spec => []TxOnce
<1>1. Init => BusInv
  <2>. SUFFICES ASSUME Init PROVE BusInv
    OBVIOUS
  <2>1. Len(onBus) = 0 /\ Len(cmdQ) = 0 /\ ~ ToSend
    BY EmptySeq DEF Init, ToSend
  <2>. QED  BY <2>1 DEF BusInv, Behind, Increasing
<1>2. TypeOK /\ NoLostReply /\ BusInv /\ [Next]_vars => BusInv'
  <2>. SUFFICES ASSUME TypeOK, NoLostReply, BusInv, [Next]_vars PROVE BusInv'
    OBVIOUS
  <2>. USE DEF vars, callVars, loopVars, devVars
  <2>1. CASE Submit
    <3>1. step \in Calls /\ ~ waiting /\ waiting' /\ step' = step /\ reply' = reply
      BY <2>1 DEF Submit
    <3>2. /\ Command(step) \in Commands
          /\ Command(step).req = "bulk" => Command(step).n = nTx /\ ToSend
      BY <3>1, CommandType, BulkCalls DEF TypeOK, Command, ToSend
    <3>3. reply # "stall"
      BY <3>1 DEF NoLostReply, None
    <3>. QED  BY <2>1, <3>1, <3>2, <3>3, BusPut DEF Submit, BusInv, ToSend
  <2>2. CASE SendUpdate
    <3>. DEFINE c == [req |-> "update", flags |-> flags, n |-> 0, live |-> FALSE]
    <3>1. c \in Commands /\ c.req # "bulk"
      BY DEF TypeOK, FlagType, Commands, Requests
    <3>2. cmdQ' = Append(cmdQ, c) /\ UNCHANGED <<onBus, nTx>> /\ ~ ToSend'
      BY <2>2 DEF SendUpdate, ToSend
    <3>. HIDE DEF c
    <3>. QED  BY <3>1, <3>2, BusPut
  <2>3. CASE Return
    <3>1. waiting /\ step \in Calls
      BY <2>3 DEF Return, TypeOK, CallType
    <3>2. ToSend' => step = "send" /\ reply = "stall"
      BY <2>3, <3>1, BulkCalls DEF Return, Fallback, ToSend
    <3>. QED  BY <2>3, <3>1, <3>2, BusCaller DEF Return, ToSend
  <2>4. CASE BeginSend
    <3>1. nTx' = nTx + 1 /\ UNCHANGED <<onBus, cmdQ>>
      BY <2>4 DEF BeginSend
    <3>2. Behind(nTx + 1)' /\ Behind(nTx)'
      <4>1. nTx \in Nat
        BY DEF TypeOK, CallType
      <4>2. \A i \in 1 .. Len(onBus) : onBus[i] \in Nat
        BY ElementOfSeq DEF TypeOK, DevType
      <4>3. \A i \in 1 .. Len(cmdQ) : cmdQ[i].n \in Nat
        <5>1. \A i \in 1 .. Len(cmdQ) : cmdQ[i] \in Commands
          BY ElementOfSeq DEF TypeOK, QueueType
        <5>. QED  BY <5>1 DEF Commands
      <4>. QED  BY <3>1, <4>1, <4>2, <4>3 DEF BusInv, Behind
    <3>. QED  BY <3>1, <3>2 DEF BusInv, Increasing
  <2>5. CASE ReadFrames
    BY <2>5, BusFrame DEF ReadFrames
  <2>6. CASE Shutdown
    <3>1. /\ Len(cmdQ) \in Nat /\ Len(cmdQ') = Len(cmdQ)
          /\ \A i \in 1 .. Len(cmdQ') :
               cmdQ'[i].req = cmdQ[i].req /\ cmdQ'[i].n = cmdQ[i].n
      BY <2>6, AbandonCommands DEF Shutdown, TypeOK
    <3>2. ~ ToSend' /\ UNCHANGED <<onBus, nTx>>
      BY <2>6 DEF Shutdown, ToSend
    <3>. QED  BY <3>1, <3>2 DEF BusInv, Behind, Increasing
  <2>7. CASE LoopControl
    <3>1. PICK r \in {"ok", "err", "gone"} : Answer(Head(cmdQ), r)
      BY <2>7 DEF LoopControl, CommandReady
    <3>2. ToSend' => ToSend
      BY <2>7, <3>1 DEF LoopControl, CommandReady, Answer, ToSend
    <3>3. ToSend => Behind(nTx)'
      BY <2>7, BehindTake DEF LoopControl, CommandReady, BusInv
    <3>. QED  BY <2>7, <3>2, <3>3, BusTake DEF LoopControl, CommandReady
  <2>8. CASE LoopUpdate
    <3>1. ToSend' => ToSend
      BY <2>8 DEF LoopUpdate, CommandReady, ToSend
    <3>2. ToSend => Behind(nTx)'
      BY <2>8, BehindTake DEF LoopUpdate, CommandReady, BusInv
    <3>. QED  BY <2>8, <3>1, <3>2, BusTake DEF LoopUpdate, CommandReady
  <2>9. CASE LoopBulk
    <3>1. PICK r \in {"ok", "timeout", "gone"} : Answer(Head(cmdQ), r)
      BY <2>9 DEF LoopBulk, CommandReady
    <3>2. ToSend' => ToSend
      BY <2>9, <3>1 DEF LoopBulk, CommandReady, Answer, ToSend
    <3>3. CASE UNCHANGED onBus
      <4>1. ToSend => Behind(nTx)'
        BY <2>9, <3>3, BehindTake DEF LoopBulk, CommandReady, BusInv
      <4>. QED  BY <2>9, <3>2, <3>3, <4>1, BusTake DEF LoopBulk, CommandReady
    <3>4. CASE onBus' = Append(onBus, Head(cmdQ).n)
      BY <2>9, <3>2, <3>4, BusTransmit DEF LoopBulk, CommandReady
    <3>. QED  BY <2>9, <3>3, <3>4 DEF LoopBulk, CommandReady, Transmit
  <2>10. CASE LoopStall
    <3>1. PICK r \in {"stall", "err"} : Answer(Head(cmdQ), r)
      BY <2>10 DEF LoopStall, CommandReady
    <3>2. /\ cmdQ # <<>> /\ Head(cmdQ).req = "bulk" /\ cmdQ' = Tail(cmdQ)
          /\ UNCHANGED <<onBus, nTx, step, waiting>>
      BY <2>10 DEF LoopStall, CommandReady
    <3>3. /\ Len(cmdQ) \in Nat \ {0} /\ Len(cmdQ') = Len(cmdQ) - 1
          /\ Head(cmdQ) = cmdQ[1] /\ Head(cmdQ) \in Commands
      BY <3>2, TakeCommand DEF TypeOK
    <3>4. CASE Head(cmdQ).live
      <4>1. Len(cmdQ) = 1
        BY <3>3, <3>4, LiveIsLast
      <4>2. /\ \A i \in 1 .. Len(onBus) : onBus[i] < Head(cmdQ).n
            /\ Head(cmdQ).n < nTx + 1
        <5>1. 1 \in 1 .. Len(cmdQ)
          BY <3>3
        <5>2. cmdQ[1].req = "bulk"
          BY <3>2, <3>3
        <5>. QED  BY <3>3, <5>1, <5>2 DEF BusInv, Behind
      <4>3. nTx \in Nat /\ Head(cmdQ).n \in Nat
            /\ \A i \in 1 .. Len(onBus) : onBus[i] \in Nat
        BY <3>3, ElementOfSeq DEF TypeOK, CallType, DevType, Commands
      <4>4. Behind(nTx)'
        <5>1. Len(cmdQ') = 0
          BY <3>3, <4>1
        <5>2. \A i \in 1 .. Len(onBus) : onBus[i] < nTx
          BY <4>2, <4>3
        <5>3. onBus' = onBus /\ nTx' = nTx
          BY <3>2
        <5>4. \A i \in 1 .. Len(cmdQ') : cmdQ'[i].req = "bulk" => cmdQ'[i].n < nTx
          BY <5>1
        <5>. QED  BY <5>2, <5>3, <5>4 DEF Behind
      <4>. QED  BY <3>2, <4>4, BusTake
    <3>5. CASE ~ Head(cmdQ).live
      <4>1. ToSend' => ToSend
        BY <3>1, <3>2, <3>5 DEF Answer, ToSend
      <4>2. ToSend => Behind(nTx)'
        BY <3>2, BehindTake DEF BusInv
      <4>. QED  BY <3>2, <4>1, <4>2, BusTake
    <3>. QED  BY <3>4, <3>5
  <2>11. CASE LoopReceive
    BY <2>11, BusFrame DEF LoopReceive
  <2>12. CASE LoopPush
    BY <2>12, BusFrame DEF LoopPush
  <2>13. CASE Hear
    BY <2>13, BusFrame DEF Hear
  <2>14. CASE Unplug \/ LoopReceiveError \/ ReceiveFails
    BY <2>14, BusFrame DEF Unplug, LoopReceiveError, ReceiveFails
  <2>15. CASE UNCHANGED vars
    BY <2>15, BusFrame
  <2>. QED
    BY <2>1, <2>2, <2>3, <2>4, <2>5, <2>6, <2>7, <2>8, <2>9, <2>10, <2>11, <2>12, <2>13, <2>14, <2>15
    DEF Next, CallerStep, LoopCommand, Environment, Gone
<1>3. BusInv => TxOnce
  BY DEF BusInv, TxOnce
<1>. QED  BY <1>1, <1>2, <1>3, TypeCorrect, ReplyPaired, PTL DEF Spec

-----------------------------------------------------------------------------
(* The last call *)

\* While the reply to the close is held, nothing touches the adapter.
LEMMA ClosedFrame ==
  ASSUME ClosedMeansReset, UNCHANGED <<step, waiting, reply, started, cmdQ>>
  PROVE  ClosedMeansReset'
BY DEF ClosedMeansReset

\* The event loop takes a command that is not the close.
LEMMA ClosedTake ==
  ASSUME TypeOK, NoLostReply, ClosedMeansReset, cmdQ # <<>>, NEW r,
         Head(cmdQ).req # "reset",
         reply' = IF Head(cmdQ).live THEN r ELSE reply, UNCHANGED <<step, waiting>>
  PROVE  ClosedMeansReset'
<1>. SUFFICES ASSUME step = "close", waiting, reply' = "ok"
              PROVE  FALSE
  BY DEF ClosedMeansReset
<1>1. 1 \in 1 .. Len(cmdQ) /\ Head(cmdQ) = cmdQ[1]
  BY HeadTailProperties, LenProperties, EmptySeq DEF TypeOK, QueueType
<1>2. CASE Head(cmdQ).live
  BY <1>1, <1>2, LiveIsLast, BulkCalls
<1>3. CASE ~ Head(cmdQ).live
  BY <1>3 DEF ClosedMeansReset
<1>. QED  BY <1>2, <1>3

(***************************************************************************)
(* A close that returns Ok leaves the adapter in RESET with an empty       *)
(* channel: no abandoned send, and no recovery from its stall, runs after. *)
(***************************************************************************)
THEOREM ClosedIsReset == Spec => []ClosedMeansReset
<1>1. Init => ClosedMeansReset
  BY DEF Init, ClosedMeansReset
<1>2. TypeOK /\ NoLostReply /\ ClosedMeansReset /\ [Next]_vars => ClosedMeansReset'
  <2>. SUFFICES ASSUME TypeOK, NoLostReply, ClosedMeansReset, [Next]_vars
                PROVE  ClosedMeansReset'
    OBVIOUS
  <2>. USE DEF vars, callVars, loopVars, devVars
  <2>1. CASE Submit
    BY <2>1 DEF Submit, NoLostReply, ClosedMeansReset, None
  <2>2. CASE SendUpdate
    BY <2>2 DEF SendUpdate, ClosedMeansReset
  <2>3. CASE Return
    BY <2>3 DEF Return, ClosedMeansReset
  <2>4. CASE BeginSend
    BY <2>4 DEF BeginSend, ClosedMeansReset
  <2>5. CASE ReadFrames
    BY <2>5, ClosedFrame DEF ReadFrames
  <2>6. CASE Shutdown
    BY <2>6 DEF Shutdown, ClosedMeansReset
  <2>7. CASE LoopControl
    <3>. DEFINE c == Head(cmdQ)
    <3>1. PICK r \in {"ok", "err", "gone"} : Transfer(c, r) /\ Answer(c, r)
      BY <2>7 DEF LoopControl, CommandReady
    <3>2. cmdQ # <<>> /\ cmdQ' = Tail(cmdQ) /\ UNCHANGED <<step, waiting>>
      BY <2>7 DEF LoopControl, CommandReady
    <3>3. CASE c.req # "reset"
      BY <3>1, <3>2, <3>3, ClosedTake DEF Answer
    <3>4. CASE c.req = "reset" /\ c.live
      <4>1. /\ Len(cmdQ) \in Nat \ {0} /\ Len(cmdQ') = Len(cmdQ) - 1 /\ c = cmdQ[1]
        BY <3>2, TakeCommand DEF TypeOK
      <4>2. Len(cmdQ) = 1
        BY <3>4, <4>1, LiveIsLast
      <4>3. cmdQ' = <<>>
        <5>1. cmdQ' \in Seq(Commands) /\ Len(cmdQ') = 0
          BY <3>2, <4>1, <4>2, HeadTailProperties DEF TypeOK, QueueType
        <5>. QED  BY <5>1, EmptySeq
      <4>4. r = "ok" => started' = FALSE
        BY <3>1, <3>4 DEF Transfer, Apply
      <4>. QED  BY <3>1, <3>4, <4>3, <4>4 DEF Answer, ClosedMeansReset
    <3>5. CASE c.req = "reset" /\ ~ c.live
      BY <3>1, <3>2, <3>5 DEF Answer, ClosedMeansReset
    <3>. QED  BY <3>3, <3>4, <3>5
  <2>8. CASE LoopUpdate
    BY <2>8 DEF LoopUpdate, CommandReady, ClosedMeansReset
  <2>9. CASE LoopBulk
    <3>1. PICK r \in {"ok", "timeout", "gone"} : Answer(Head(cmdQ), r)
      BY <2>9 DEF LoopBulk, CommandReady
    <3>. QED  BY <2>9, <3>1, ClosedTake DEF LoopBulk, CommandReady, Answer
  <2>10. CASE LoopStall
    <3>1. PICK r \in {"stall", "err"} : Answer(Head(cmdQ), r)
      BY <2>10 DEF LoopStall, CommandReady
    <3>. QED  BY <2>10, <3>1, ClosedTake DEF LoopStall, CommandReady, Answer
  <2>11. CASE LoopReceive
    BY <2>11, ClosedFrame DEF LoopReceive
  <2>12. CASE LoopPush
    BY <2>12, ClosedFrame DEF LoopPush
  <2>13. CASE Hear
    BY <2>13, ClosedFrame DEF Hear
  <2>14. CASE Unplug \/ LoopReceiveError \/ ReceiveFails
    BY <2>14, ClosedFrame DEF Unplug, LoopReceiveError, ReceiveFails
  <2>15. CASE UNCHANGED vars
    BY <2>15, ClosedFrame
  <2>. QED
    BY <2>1, <2>2, <2>3, <2>4, <2>5, <2>6, <2>7, <2>8, <2>9, <2>10, <2>11, <2>12, <2>13, <2>14, <2>15
    DEF Next, CallerStep, LoopCommand, Environment, Gone
<1>. QED  BY <1>1, <1>2, TypeCorrect, ReplyPaired, PTL DEF Spec

-----------------------------------------------------------------------------
(* Frames from the bus *)

\* What the event loop has made of the receive transfers it took, in order.
Forwarded == drained \o frameQ \o held

LEMMA ForwardedType ==
  ASSUME TypeOK
  PROVE  Forwarded \in Seq(Nat)
BY ConcatProperties DEF TypeOK, CallType, QueueType, Forwarded

\* Moving frames from the loop to the channel and on to the caller.
LEMMA ForwardedMoves ==
  ASSUME TypeOK, ReadFrames \/ LoopPush
  PROVE  Forwarded' = Forwarded
<1>1. drained \in Seq(Nat) /\ frameQ \in Seq(Nat) /\ held \in Seq(Nat)
  BY DEF TypeOK, CallType, QueueType
<1>2. CASE ReadFrames
  <2>1. drained' = drained \o frameQ /\ frameQ' = <<>> /\ held' = held
    BY <1>2 DEF ReadFrames, loopVars
  <2>2. (drained \o frameQ) \o <<>> = drained \o frameQ
    BY <1>1, ConcatProperties, ConcatEmptySeq
  <2>. QED  BY <2>1, <2>2 DEF Forwarded
<1>3. CASE LoopPush
  <2>. DEFINE h == Head(held)  t == Tail(held)
  <2>1. held # <<>> /\ drained' = drained /\ frameQ' = Append(frameQ, h) /\ held' = t
    BY <1>3 DEF LoopPush, callVars
  <2>2. h \in Nat /\ t \in Seq(Nat) /\ <<h>> \in Seq(Nat)
    BY <1>1, <2>1, HeadTailProperties
  <2>3. held = <<h>> \o t
    BY <1>1, <2>1, HeadTailProperties, ConcatProperties, SeqEqual
  <2>. HIDE DEF h, t
  <2>4. Append(frameQ, h) = frameQ \o <<h>>
    BY <1>1, <2>2, AppendIsConcat
  <2>5. drained \o (frameQ \o <<h>>) = (drained \o frameQ) \o <<h>>
    BY <1>1, <2>2, ConcatAssociative
  <2>6. ((drained \o frameQ) \o <<h>>) \o t = (drained \o frameQ) \o (<<h>> \o t)
    <3>1. drained \o frameQ \in Seq(Nat)
      BY <1>1, ConcatProperties
    <3>. QED  BY <2>2, <3>1, ConcatAssociative
  <2>. QED  BY <2>1, <2>3, <2>4, <2>5, <2>6 DEF Forwarded
<1>. QED  BY <1>2, <1>3

\* The receive transfers after one is heard, or taken.
LEMMA HearTransfer ==
  ASSUME TypeOK, Hear
  PROVE  /\ nRx' = nRx + 1 /\ Len(rxOut) \in Nat /\ Len(rxOut') = Len(rxOut) + 1
         /\ \A j \in 1 .. Len(rxOut) : rxOut'[j] = rxOut[j]
         /\ rxOut'[Len(rxOut) + 1].n = nRx + 1
         /\ rxOut'[Len(rxOut) + 1].flags = devFlags
<1>. DEFINE c == [n |-> nRx + 1, flags |-> devFlags]
<1>1. c \in Chunks /\ c.n = nRx + 1 /\ c.flags = devFlags
  BY AdapterAssumption DEF TypeOK, DevType, FlagType, Chunks
<1>2. rxOut' = Append(rxOut, c) /\ nRx' = nRx + 1
  BY DEF Hear
<1>. HIDE DEF c
<1>. QED  BY <1>1, <1>2, AppendProperties, LenProperties DEF TypeOK, DevType

LEMMA TakeTransfer ==
  ASSUME TypeOK, LoopReceive
  PROVE  /\ Len(rxOut) \in Nat \ {0} /\ Len(rxOut') = Len(rxOut) - 1
         /\ Head(rxOut) = rxOut[1] /\ Head(rxOut) \in Chunks
         /\ \A j \in 1 .. Len(rxOut') : rxOut'[j] = rxOut[j + 1] /\ j + 1 \in 1 .. Len(rxOut)
         /\ \E p \in Parses(Append(rxBuf, Head(rxOut))) :
              p.frames \in Seq(Nat) /\ Forwarded' = Forwarded \o p.frames
              /\ p.left \in Seq(Chunks) /\ rxBuf' = p.left
<1>1. rxOut \in Seq(Chunks) /\ rxOut # <<>> /\ rxOut' = Tail(rxOut)
  BY DEF LoopReceive, TypeOK, DevType
<1>2. /\ Len(rxOut) \in Nat \ {0} /\ Len(rxOut') = Len(rxOut) - 1
      /\ Head(rxOut) = rxOut[1] /\ Head(rxOut) \in Chunks
      /\ \A j \in 1 .. Len(rxOut') : rxOut'[j] = rxOut[j + 1]
  BY <1>1, HeadTailProperties, LenProperties, EmptySeq
<1>3. \A j \in 1 .. Len(rxOut') : j + 1 \in 1 .. Len(rxOut)
  BY <1>2
<1>4. PICK p \in Parses(Append(rxBuf, Head(rxOut))) : held' = p.frames /\ rxBuf' = p.left
  BY DEF LoopReceive
<1>5. p.frames \in Seq(Nat) /\ p.left \in Seq(Chunks)
  <2>1. Append(rxBuf, Head(rxOut)) \in Seq(Chunks)
    BY <1>2, AppendProperties DEF TypeOK, QueueType
  <2>. QED  BY <2>1, ParsesType
<1>6. Forwarded' = Forwarded \o p.frames
  <2>1. held = <<>> /\ drained' = drained /\ frameQ' = frameQ
    BY DEF LoopReceive, Ready, callVars
  <2>2. (drained \o frameQ) \o <<>> = drained \o frameQ
    BY ConcatProperties, ConcatEmptySeq DEF TypeOK, CallType, QueueType
  <2>. QED  BY <1>4, <2>1, <2>2 DEF Forwarded
<1>. QED  BY <1>2, <1>3, <1>4, <1>5, <1>6

\* Every step hears a frame, takes a transfer, or leaves the frames in order.
LEMMA StreamStep ==
  ASSUME TypeOK, [Next]_vars
  PROVE  Hear \/ LoopReceive \/ UNCHANGED <<Forwarded, rxBuf, rxOut, nRx>>
<1>1. CASE ReadFrames
  BY <1>1, ForwardedMoves DEF ReadFrames, loopVars
<1>2. CASE LoopPush
  BY <1>2, ForwardedMoves DEF LoopPush
<1>3. CASE CallerStep \/ LoopCommand
  BY <1>3 DEF CallerStep, Submit, SendUpdate, Return, LoopCommand, LoopControl,
              LoopUpdate, LoopBulk, LoopStall, callVars, loopVars, Forwarded
<1>4. CASE \/ BeginSend \/ Shutdown \/ Unplug \/ LoopReceiveError \/ ReceiveFails
           \/ UNCHANGED vars
  BY <1>4 DEF BeginSend, Shutdown, Unplug, LoopReceiveError, ReceiveFails, vars,
              callVars, loopVars, Forwarded
<1>. QED  BY <1>1, <1>2, <1>3, <1>4 DEF Next, Environment, Gone

\* The numbers that are not 0 increase.
Rising(s) == \A i, j \in 1 .. Len(s) : i < j /\ s[i] > 0 /\ s[j] > 0 => s[i] < s[j]

\* What the loop has yet to make frames of: its buffer, then the transfers.
Pending == rxBuf \o rxOut

(***************************************************************************)
(* The frames made so far are in order and behind none still to be made,   *)
(* whether those are in the buffer or on their way.                        *)
(***************************************************************************)
RxInv ==
  /\ Rising(Forwarded)
  /\ \A i, j \in 1 .. Len(Pending) :
       i < j /\ Pending[i].n > 0 /\ Pending[j].n > 0 => Pending[i].n < Pending[j].n
  /\ \A i \in 1 .. Len(Forwarded), j \in 1 .. Len(Pending) :
       Pending[j].n > 0 => Forwarded[i] < Pending[j].n
  /\ \A i \in 1 .. Len(Forwarded) : Forwarded[i] <= nRx
  /\ \A j \in 1 .. Len(Pending) : Pending[j].n <= nRx

(***************************************************************************)
(* What s makes of a buffer b from place lo on, up to hi: numbers that are *)
(* 0 or those of chunks there, in the order of the chunks and each once.   *)
(***************************************************************************)
Drawn(s, b, lo, hi) ==
  /\ \A i \in 1 .. Len(s) : s[i] > 0 => \E c \in lo .. hi : s[i] = b[c].n
  /\ \A i, j \in 1 .. Len(s) : i < j /\ s[i] > 0 /\ s[j] > 0 =>
       \E c, d \in lo .. hi : c < d /\ s[i] = b[c].n /\ s[j] = b[d].n

Nums(s) == [i \in 1 .. Len(s) |-> s[i].n]

\* Frames are found in the order of their headers.
LEMMA FoundOrder ==
  ASSUME NEW b \in Seq(Chunks), NEW k \in 0 .. Len(b), NEW f \in Found(SubSeq(b, 1, k))
  PROVE  Drawn(f, b, 1, k)
<1>. DEFINE s == SubSeq(b, 1, k)
<1>1. /\ s \in Seq(Chunks) /\ Len(s) = k /\ k \in Nat
      /\ \A c \in 1 .. k : s[c] = b[c]
  BY LenProperties, SubSeqProperties
<1>2. PICK m \in Nat : \E at \in Places(Len(s), m) :
         f = [i \in 1 .. m |-> IF at[i].header THEN s[at[i].chunk].n ELSE 0]
  BY <1>1, FoundAt
<1>3. PICK at \in Places(Len(s), m) :
         f = [i \in 1 .. m |-> IF at[i].header THEN s[at[i].chunk].n ELSE 0]
  BY <1>2
<1>. HIDE DEF s
<1>4. /\ \A i \in 1 .. m : at[i].chunk \in 1 .. k
      /\ \A i, j \in 1 .. m : i < j /\ at[j].header => at[i].chunk < at[j].chunk
  BY <1>1 DEF Places
<1>5. Len(f) = m
  <2>1. f \in Seq(Nat)
    BY <1>1, FoundType DEF s
  <2>2. DOMAIN f = 1 .. m
    BY <1>3
  <2>. QED  BY <1>2, <2>1, <2>2, LenProperties
<1>6. ASSUME NEW i \in 1 .. m, f[i] > 0
      PROVE  at[i].header /\ f[i] = b[at[i].chunk].n
  <2>1. f[i] = IF at[i].header THEN s[at[i].chunk].n ELSE 0
    BY <1>3
  <2>2. at[i].header
    BY <1>6, <2>1
  <2>. QED  BY <1>1, <1>4, <2>1, <2>2
<1>7. ASSUME NEW i \in 1 .. m, NEW j \in 1 .. m, i < j, f[i] > 0, f[j] > 0
      PROVE  \E c, d \in 1 .. k : c < d /\ f[i] = b[c].n /\ f[j] = b[d].n
  <2>1. at[i].chunk < at[j].chunk
    BY <1>4, <1>6, <1>7
  <2>. QED  BY <1>4, <1>6, <1>7, <2>1
<1>8. \A i \in 1 .. m : f[i] > 0 => \E c \in 1 .. k : f[i] = b[c].n
  BY <1>4, <1>6
<1>. QED  BY <1>5, <1>7, <1>8 DEF Drawn

(***************************************************************************)
(* However the parser goes there is a place in the buffer such that what it*)
(* hands on comes from before and what it keeps from behind, both in order.*)
(***************************************************************************)
LEMMA ParsesOrder ==
  ASSUME NEW b \in Seq(Chunks), NEW p \in Parses(b)
  PROVE  \E k \in 0 .. Len(b) :
            Drawn(p.frames, b, 1, k) /\ Drawn(Nums(p.left), b, k + 1, Len(b))
<1>0. Len(b) \in Nat
  BY LenProperties
<1>1. CASE InStep(b)
  <2>1. p.left = <<>> /\ p.frames = [i \in 1 .. Len(b) |-> b[i].n]
    BY <1>1, ParsesWays
  <2>2. Len(p.frames) = Len(b)
    <3>1. p.frames \in Seq(Nat) /\ DOMAIN p.frames = 1 .. Len(b)
      BY <2>1, ParsesType
    <3>. QED  BY <1>0, <3>1, LenProperties
  <2>3. Drawn(p.frames, b, 1, Len(b))
    BY <2>1, <2>2 DEF Drawn
  <2>4. Len(p.left) = 0 /\ Len(Nums(p.left)) = 0
    BY <2>1, EmptySeq DEF Nums
  <2>5. Drawn(Nums(p.left), b, Len(b) + 1, Len(b))
    BY <2>4 DEF Drawn
  <2>. QED  BY <1>0, <2>3, <2>5
<1>2. CASE ~ InStep(b)
  <2>1. PICK k \in 0 .. Len(b) :
           /\ p.frames \in Found(SubSeq(b, 1, k))
           /\ p.left \in {SubSeq(b, k + 1, Len(b)), <<Rest>> \o SubSeq(b, k + 1, Len(b))}
    BY <1>2, ParsesWays
  <2>. DEFINE t == SubSeq(b, k + 1, Len(b))
  <2>2. /\ t \in Seq(Chunks) /\ Len(t) = Len(b) - k
        /\ \A i \in 1 .. Len(t) : t[i] = b[k + i]
    BY <1>0, SubSeqProperties
  <2>3. p.left = t \/ p.left = <<Rest>> \o t
    BY <2>1
  <2>. HIDE DEF t
  <2>4. /\ <<Rest>> \in Seq(Chunks) /\ Len(<<Rest>>) = 1 /\ <<Rest>>[1] = Rest
        /\ Rest.n = 0
    BY RestType DEF Rest
  <2>5. /\ <<Rest>> \o t \in Seq(Chunks) /\ Len(<<Rest>> \o t) = Len(t) + 1
        /\ (<<Rest>> \o t)[1] = Rest
        /\ \A i \in 2 .. Len(t) + 1 : (<<Rest>> \o t)[i] = t[i - 1]
    <3>. DEFINE o == <<Rest>>  w == o \o t
    <3>1. o \in Seq(Chunks) /\ Len(o) = 1 /\ o[1] = Rest
      BY <2>4
    <3>2. Len(t) \in Nat
      BY <2>2, LenProperties
    <3>. HIDE DEF o
    <3>3. /\ w \in Seq(Chunks) /\ Len(w) = Len(o) + Len(t)
          /\ \A i \in 1 .. Len(o) + Len(t) : w[i] = IF i <= Len(o) THEN o[i] ELSE t[i - Len(o)]
      BY <2>2, <3>1, ConcatProperties
    <3>. HIDE DEF w
    <3>4. Len(w) = Len(t) + 1
      BY <3>1, <3>2, <3>3
    <3>5. w[1] = Rest
      BY <3>1, <3>2, <3>3
    <3>6. \A i \in 2 .. Len(t) + 1 : w[i] = t[i - 1]
      BY <3>1, <3>2, <3>3
    <3>. QED  BY <3>3, <3>4, <3>5, <3>6 DEF o, w
  <2>6. /\ Len(p.left) \in Nat
        /\ \A i \in 1 .. Len(p.left) : p.left[i].n > 0 =>
             \E c \in (k + 1) .. Len(b) :
                /\ p.left[i].n = b[c].n
                /\ c = IF p.left = t THEN k + i ELSE k + (i - 1)
    <3>1. CASE p.left = t
      <4>1. Len(t) \in Nat /\ Len(b) \in Nat /\ Len(t) = Len(b) - k
        BY <1>0, <2>2, LenProperties
      <4>2. ASSUME NEW i \in 1 .. Len(t), t[i].n > 0
            PROVE  k + i \in (k + 1) .. Len(b) /\ t[i].n = b[k + i].n
        BY <2>2, <4>1
      <4>. QED  BY <3>1, <4>1, <4>2
    <3>2. CASE p.left # t
      <4>1. Len(p.left) = Len(t) + 1 /\ Len(t) \in Nat /\ Len(t) = Len(b) - k
        BY <1>0, <2>2, <2>3, <2>5, <3>2
      <4>2. ASSUME NEW i \in 1 .. Len(p.left), p.left[i].n > 0
            PROVE  k + (i - 1) \in (k + 1) .. Len(b) /\ p.left[i].n = b[k + (i - 1)].n
        <5>1. i # 1
          BY <2>3, <2>4, <2>5, <3>2, <4>2
        <5>2. i \in 2 .. Len(t) + 1 /\ i - 1 \in 1 .. Len(t)
          BY <4>1, <5>1
        <5>3. p.left[i] = t[i - 1] /\ t[i - 1] = b[k + (i - 1)]
          BY <2>2, <2>3, <2>5, <3>2, <5>2
        <5>4. k + (i - 1) \in (k + 1) .. Len(b)
          BY <1>0, <4>1, <5>2
        <5>. QED  BY <5>3, <5>4
      <4>. QED  BY <3>2, <4>1, <4>2
    <3>. QED  BY <3>1, <3>2
  <2>7. /\ Len(Nums(p.left)) = Len(p.left)
        /\ \A i \in 1 .. Len(p.left) : Nums(p.left)[i] = p.left[i].n
    BY <2>6 DEF Nums
  <2>8. ASSUME NEW i \in 1 .. Len(p.left), NEW j \in 1 .. Len(p.left), i < j,
               p.left[i].n > 0, p.left[j].n > 0
        PROVE  \E c, d \in (k + 1) .. Len(b) :
                  c < d /\ p.left[i].n = b[c].n /\ p.left[j].n = b[d].n
    <3>1. PICK c \in (k + 1) .. Len(b) :
             p.left[i].n = b[c].n /\ c = IF p.left = t THEN k + i ELSE k + (i - 1)
      BY <2>6, <2>8
    <3>2. PICK d \in (k + 1) .. Len(b) :
             p.left[j].n = b[d].n /\ d = IF p.left = t THEN k + j ELSE k + (j - 1)
      BY <2>6, <2>8
    <3>3. c < d
      BY <2>6, <2>8, <3>1, <3>2
    <3>. QED  BY <3>1, <3>2, <3>3
  <2>9. \A i \in 1 .. Len(p.left) : p.left[i].n > 0 =>
           \E c \in (k + 1) .. Len(b) : p.left[i].n = b[c].n
    BY <2>6
  <2>10. Drawn(Nums(p.left), b, k + 1, Len(b))
    <3>. DEFINE s == Nums(p.left)
    <3>1. \A i \in 1 .. Len(s) : s[i] > 0 =>
             \E c \in (k + 1) .. Len(b) : s[i] = b[c].n
      BY <2>7, <2>9
    <3>2. \A i, j \in 1 .. Len(s) : i < j /\ s[i] > 0 /\ s[j] > 0 =>
             \E c, d \in (k + 1) .. Len(b) : c < d /\ s[i] = b[c].n /\ s[j] = b[d].n
      BY <2>7, <2>8
    <3>. HIDE DEF s
    <3>3. Drawn(s, b, k + 1, Len(b))
      BY <3>1, <3>2 DEF Drawn
    <3>. QED  BY <3>3 DEF s
  <2>11. Drawn(p.frames, b, 1, k)
    BY <2>1, FoundOrder
  <2>. QED  BY <2>10, <2>11
<1>. QED  BY <1>1, <1>2

LEMMA PendingType == TypeOK => Pending \in Seq(Chunks) /\ Len(Pending) \in Nat
BY ConcatProperties, LenProperties DEF TypeOK, QueueType, DevType, Pending

LEMMA RxHear ==
  ASSUME TypeOK, RxInv, Hear
  PROVE  RxInv'
<1>. DEFINE c == [n |-> nRx + 1, flags |-> devFlags]  m == Len(Pending)
<1>1. c \in Chunks /\ c.n = nRx + 1
  BY AdapterAssumption DEF TypeOK, DevType, FlagType, Chunks
<1>2. Forwarded' = Forwarded /\ rxBuf' = rxBuf /\ rxOut' = Append(rxOut, c) /\ nRx' = nRx + 1
  BY DEF Hear, callVars, loopVars, Forwarded
<1>. HIDE DEF c
<1>3. Pending' = Append(Pending, c)
  <2>1. rxBuf \in Seq(Chunks) /\ rxOut \in Seq(Chunks) /\ <<c>> \in Seq(Chunks)
    BY <1>1 DEF TypeOK, QueueType, DevType
  <2>2. Append(rxOut, c) = rxOut \o <<c>> /\ Append(Pending, c) = Pending \o <<c>>
    BY <1>1, <2>1, PendingType, AppendIsConcat
  <2>. QED  BY <1>2, <2>1, <2>2, ConcatAssociative DEF Pending
<1>4. /\ m \in Nat /\ Len(Pending') = m + 1 /\ Pending'[m + 1].n = nRx + 1
      /\ \A j \in 1 .. m : Pending'[j] = Pending[j] /\ Pending[j].n \in Nat
  <2>1. \A j \in 1 .. m : Pending[j] \in Chunks
    BY PendingType, ElementOfSeq
  <2>. QED  BY <1>1, <1>3, <2>1, PendingType, AppendProperties DEF Chunks
<1>. HIDE DEF m
<1>5. nRx \in Nat /\ \A i \in 1 .. Len(Forwarded) : Forwarded[i] \in Nat
  BY ForwardedType, ElementOfSeq DEF TypeOK, DevType
<1>6. \A i \in 1 .. Len(Forwarded) : Forwarded[i] <= nRx
  BY DEF RxInv
<1>7. \A j \in 1 .. m : Pending[j].n <= nRx
  BY DEF RxInv, m
<1>8. ASSUME NEW i \in 1 .. m + 1, NEW j \in 1 .. m + 1, i < j,
             Pending'[i].n > 0, Pending'[j].n > 0
      PROVE  Pending'[i].n < Pending'[j].n
  <2>1. i \in 1 .. m
    BY <1>4, <1>8
  <2>2. CASE j \in 1 .. m
    BY <1>4, <1>8, <2>1, <2>2 DEF RxInv, m
  <2>3. CASE j = m + 1
    BY <1>4, <1>5, <1>7, <2>1, <2>3
  <2>. QED  BY <1>4, <2>2, <2>3
<1>9. ASSUME NEW i \in 1 .. Len(Forwarded), NEW j \in 1 .. m + 1, Pending'[j].n > 0
      PROVE  Forwarded[i] < Pending'[j].n
  <2>1. CASE j \in 1 .. m
    BY <1>4, <1>9, <2>1 DEF RxInv, m
  <2>2. CASE j = m + 1
    BY <1>4, <1>5, <1>6, <2>2
  <2>. QED  BY <1>4, <2>1, <2>2
<1>10. \A j \in 1 .. m + 1 : Pending'[j].n <= nRx + 1
  BY <1>4, <1>5, <1>7
<1>11. \A i \in 1 .. Len(Forwarded) : Forwarded[i] <= nRx + 1
  BY <1>5, <1>6
<1>12. Rising(Forwarded)
  BY DEF RxInv
<1>. QED  BY <1>2, <1>4, <1>8, <1>9, <1>10, <1>11, <1>12 DEF RxInv

LEMMA RxTake ==
  ASSUME TypeOK, RxInv, LoopReceive
  PROVE  RxInv'
<1>. DEFINE h == Head(rxOut)  t == Tail(rxOut)  b == Append(rxBuf, h)
<1>1. PICK p \in Parses(b) :
         /\ p.frames \in Seq(Nat) /\ Forwarded' = Forwarded \o p.frames
         /\ p.left \in Seq(Chunks) /\ rxBuf' = p.left
  BY TakeTransfer
<1>. DEFINE f == p.frames  l == p.left  k == Len(Forwarded)  m == Len(f)  n == Len(b)
<1>2. /\ rxBuf \in Seq(Chunks) /\ rxOut \in Seq(Chunks) /\ rxOut # <<>>
      /\ rxOut' = t /\ nRx' = nRx /\ nRx \in Nat
  BY DEF LoopReceive, TypeOK, QueueType, DevType
<1>3. h \in Chunks /\ t \in Seq(Chunks) /\ <<h>> \in Seq(Chunks) /\ rxOut = <<h>> \o t
  BY <1>2, HeadTailProperties, ConcatProperties, SeqEqual
<1>4. b \in Seq(Chunks) /\ n \in Nat
  BY <1>2, <1>3, AppendProperties, LenProperties
<1>5. PICK q \in 0 .. n : Drawn(f, b, 1, q) /\ Drawn(Nums(l), b, q + 1, n)
  BY <1>4, ParsesOrder
<1>6. Pending = b \o t
  <2>1. b = rxBuf \o <<h>>
    BY <1>2, <1>3, AppendIsConcat
  <2>. HIDE DEF h, t, b
  <2>. QED  BY <1>2, <1>3, <2>1, ConcatAssociative DEF Pending
<1>7. Pending' = l \o t
  BY <1>1, <1>2 DEF Pending
<1>. HIDE DEF h, t, b
<1>8. /\ Len(t) \in Nat /\ Len(Pending) = n + Len(t)
      /\ \A c \in 1 .. n : Pending[c] = b[c] /\ b[c].n \in Nat
      /\ \A j \in 1 .. Len(t) : Pending[n + j] = t[j] /\ t[j].n \in Nat
  <2>1. /\ \A c \in 1 .. n : b[c] \in Chunks
        /\ \A j \in 1 .. Len(t) : t[j] \in Chunks
    BY <1>3, <1>4, ElementOfSeq
  <2>2. /\ Len(t) \in Nat /\ Len(b \o t) = n + Len(t)
        /\ \A c \in 1 .. n : (b \o t)[c] = b[c]
        /\ \A j \in 1 .. Len(t) : (b \o t)[n + j] = t[j]
    BY <1>3, <1>4, ConcatProperties, LenProperties
  <2>. QED  BY <1>6, <2>1, <2>2 DEF Chunks
<1>. DEFINE L == Len(l)
<1>9. /\ L \in Nat /\ Len(Pending') = L + Len(t)
      /\ \A i \in 1 .. L : Pending'[i] = l[i] /\ l[i].n \in Nat
      /\ \A i \in (L + 1) .. (L + Len(t)) : Pending'[i] = t[i - L]
  <2>1. \A i \in 1 .. L : l[i] \in Chunks
    BY <1>1, ElementOfSeq
  <2>2. /\ L \in Nat /\ Len(l \o t) = L + Len(t)
        /\ \A i \in 1 .. L : (l \o t)[i] = l[i]
        /\ \A i \in (L + 1) .. (L + Len(t)) : (l \o t)[i] = t[i - L]
    BY <1>1, <1>3, <1>8, ConcatProperties, LenProperties
  <2>. QED  BY <1>7, <2>1, <2>2 DEF Chunks
<1>. HIDE DEF L
<1>t. ASSUME NEW j \in 1 .. (L + Len(t)), j > L
       PROVE  j - L \in 1 .. Len(t) /\ Pending'[j] = t[j - L]
  <2>. DEFINE m1 == Len(t)
  <2>1. L \in Nat /\ m1 \in Nat
    BY <1>8, <1>9
  <2>2. j \in (L + 1) .. (L + m1) /\ j - L \in 1 .. m1
    <3>1. j \in 1 .. (L + m1) /\ j > L
      BY <1>t
    <3>. HIDE DEF m1
    <3>. QED  BY <2>1, <3>1
  <2>3. Pending'[j] = t[j - L]
    BY <1>9, <2>2
  <2>. QED  BY <2>2, <2>3
<1>. USE DEF L
<1>10. /\ \A i \in 1 .. L : l[i].n > 0 => \E c \in (q + 1) .. n : l[i].n = b[c].n
       /\ \A i, j \in 1 .. L : i < j /\ l[i].n > 0 /\ l[j].n > 0 =>
            \E c, d \in (q + 1) .. n : c < d /\ l[i].n = b[c].n /\ l[j].n = b[d].n
  <2>1. Len(Nums(l)) = L /\ \A i \in 1 .. L : Nums(l)[i] = l[i].n
    BY <1>9 DEF Nums
  <2>. QED  BY <1>5, <2>1 DEF Drawn
<1>11. /\ \A i \in 1 .. m : f[i] > 0 => \E c \in 1 .. q : f[i] = b[c].n
       /\ \A i, j \in 1 .. m : i < j /\ f[i] > 0 /\ f[j] > 0 =>
            \E c, d \in 1 .. q : c < d /\ f[i] = b[c].n /\ f[j] = b[d].n
  BY <1>5 DEF Drawn
<1>12. /\ k \in Nat /\ m \in Nat /\ Len(Forwarded') = k + m
       /\ \A i \in 1 .. k : Forwarded[i] \in Nat
       /\ \A i \in 1 .. m : f[i] \in Nat
       /\ \A i \in 1 .. (k + m) :
            Forwarded'[i] = IF i <= k THEN Forwarded[i] ELSE f[i - k]
  BY <1>1, ForwardedType, ConcatProperties, LenProperties, ElementOfSeq
\* What RxInv says of the buffer and of the transfers behind it.
<1>13. /\ \A c, d \in 1 .. n : c < d /\ b[c].n > 0 /\ b[d].n > 0 => b[c].n < b[d].n
       /\ \A c \in 1 .. n, j \in 1 .. Len(t) : b[c].n > 0 /\ t[j].n > 0 => b[c].n < t[j].n
       /\ \A i, j \in 1 .. Len(t) : i < j /\ t[i].n > 0 /\ t[j].n > 0 => t[i].n < t[j].n
  <2>1. \A i, j \in 1 .. Len(Pending) :
          i < j /\ Pending[i].n > 0 /\ Pending[j].n > 0 => Pending[i].n < Pending[j].n
    BY DEF RxInv
  <2>2. ASSUME NEW c \in 1 .. n, NEW d \in 1 .. n, c < d, b[c].n > 0, b[d].n > 0
        PROVE  b[c].n < b[d].n
    BY <1>4, <1>8, <2>1, <2>2
  <2>3. ASSUME NEW c \in 1 .. n, NEW j \in 1 .. Len(t), b[c].n > 0, t[j].n > 0
        PROVE  b[c].n < t[j].n
    <3>1. c \in 1 .. Len(Pending) /\ n + j \in 1 .. Len(Pending) /\ c < n + j
      BY <1>4, <1>8
    <3>2. Pending[c] = b[c] /\ Pending[n + j] = t[j]
      BY <1>8
    <3>. QED  BY <2>1, <2>3, <3>1, <3>2
  <2>4. ASSUME NEW i \in 1 .. Len(t), NEW j \in 1 .. Len(t), i < j, t[i].n > 0, t[j].n > 0
        PROVE  t[i].n < t[j].n
    <3>1. n + i \in 1 .. Len(Pending) /\ n + j \in 1 .. Len(Pending) /\ n + i < n + j
      BY <1>4, <1>8, <2>4
    <3>2. Pending[n + i] = t[i] /\ Pending[n + j] = t[j]
      BY <1>8
    <3>. QED  BY <2>1, <2>4, <3>1, <3>2
  <2>. QED  BY <2>2, <2>3, <2>4
<1>14. /\ \A i \in 1 .. k, c \in 1 .. n : b[c].n > 0 => Forwarded[i] < b[c].n
       /\ \A i \in 1 .. k, j \in 1 .. Len(t) : t[j].n > 0 => Forwarded[i] < t[j].n
       /\ \A c \in 1 .. n : b[c].n <= nRx
       /\ \A j \in 1 .. Len(t) : t[j].n <= nRx
       /\ \A i \in 1 .. k : Forwarded[i] <= nRx
  <2>1. /\ \A c \in 1 .. n : c \in 1 .. Len(Pending)
        /\ \A j \in 1 .. Len(t) : n + j \in 1 .. Len(Pending)
    BY <1>4, <1>8
  <2>. QED  BY <1>8, <2>1 DEF RxInv
<1>. HIDE DEF f, l, k, m, n, L
<1>15. Rising(Forwarded')
  <2>. SUFFICES ASSUME NEW i \in 1 .. (k + m), NEW j \in 1 .. (k + m), i < j,
                       Forwarded'[i] > 0, Forwarded'[j] > 0
                PROVE  Forwarded'[i] < Forwarded'[j]
    BY <1>12 DEF Rising
  <2>1. CASE j <= k
    BY <1>12, <2>1 DEF RxInv, Rising, k
  <2>2. CASE i <= k /\ j > k
    <3>1. j - k \in 1 .. m /\ Forwarded'[j] = f[j - k] /\ Forwarded'[i] = Forwarded[i]
      BY <1>12, <2>2
    <3>2. PICK c \in 1 .. q : f[j - k] = b[c].n
      BY <1>11, <3>1
    <3>3. c \in 1 .. n /\ i \in 1 .. k
      BY <1>4, <1>12, <2>2 DEF n
    <3>. QED  BY <1>14, <3>1, <3>2, <3>3
  <2>3. CASE i > k
    <3>1. i - k \in 1 .. m /\ j - k \in 1 .. m /\ i - k < j - k
      BY <1>12, <2>3
    <3>2. Forwarded'[i] = f[i - k] /\ Forwarded'[j] = f[j - k]
      BY <1>12, <2>3
    <3>3. PICK c \in 1 .. q, d \in 1 .. q : c < d /\ f[i - k] = b[c].n /\ f[j - k] = b[d].n
      BY <1>11, <3>1, <3>2
    <3>4. c \in 1 .. n /\ d \in 1 .. n
      BY <1>4 DEF n
    <3>. QED  BY <1>13, <3>2, <3>3, <3>4
  <2>. QED  BY <1>12, <2>1, <2>2, <2>3
<1>16. ASSUME NEW i \in 1 .. (L + Len(t)), NEW j \in 1 .. (L + Len(t)), i < j,
              Pending'[i].n > 0, Pending'[j].n > 0
       PROVE  Pending'[i].n < Pending'[j].n
  <2>1. CASE j <= L
    <3>1. /\ i \in 1 .. L /\ j \in 1 .. L
          /\ Pending'[i] = l[i] /\ Pending'[j] = l[j]
      BY <1>8, <1>9, <1>16, <2>1
    <3>2. PICK c \in (q + 1) .. n, d \in (q + 1) .. n :
             c < d /\ l[i].n = b[c].n /\ l[j].n = b[d].n
      BY <1>10, <1>16, <3>1
    <3>3. c \in 1 .. n /\ d \in 1 .. n
      BY <1>4 DEF n
    <3>. QED  BY <1>13, <1>16, <3>1, <3>2, <3>3
  <2>2. CASE i <= L /\ j > L
    <3>1. /\ i \in 1 .. L /\ j - L \in 1 .. Len(t)
          /\ Pending'[i] = l[i] /\ Pending'[j] = t[j - L]
      BY <1>8, <1>9, <1>t, <2>2
    <3>2. PICK c \in (q + 1) .. n : l[i].n = b[c].n
      BY <1>10, <1>16, <3>1
    <3>3. c \in 1 .. n
      BY <1>4 DEF n
    <3>. QED  BY <1>13, <1>16, <3>1, <3>2, <3>3
  <2>3. CASE i > L
    <3>1. /\ i - L \in 1 .. Len(t) /\ j - L \in 1 .. Len(t) /\ i - L < j - L
          /\ Pending'[i] = t[i - L] /\ Pending'[j] = t[j - L]
      <4>1. j > L
        BY <1>9, <1>16, <2>3
      <4>2. i - L < j - L
        BY <1>9, <1>16
      <4>. QED  BY <1>t, <2>3, <4>1, <4>2
    <3>. QED  BY <1>13, <1>16, <3>1
  <2>. QED  BY <1>8, <1>9, <2>1, <2>2, <2>3
\* What is kept comes from behind the place, what was handed on from before.
<1>17. ASSUME NEW i \in 1 .. (k + m), NEW j \in 1 .. (L + Len(t)), Pending'[j].n > 0
       PROVE  Forwarded'[i] < Pending'[j].n
  <2>1. CASE j <= L
    <3>1. j \in 1 .. L /\ Pending'[j] = l[j]
      BY <1>8, <1>9, <2>1
    <3>2. PICK d \in (q + 1) .. n : l[j].n = b[d].n
      BY <1>10, <1>17, <3>1
    <3>3. d \in 1 .. n
      BY <1>4 DEF n
    <3>4. CASE i <= k
      BY <1>12, <1>14, <1>17, <3>1, <3>2, <3>3, <3>4
    <3>5. CASE i > k
      <4>1. i - k \in 1 .. m /\ Forwarded'[i] = f[i - k] /\ f[i - k] \in Nat
        BY <1>12, <3>5
      <4>2. CASE f[i - k] = 0
        BY <1>17, <4>1, <4>2
      <4>3. CASE f[i - k] > 0
        <5>1. PICK c \in 1 .. q : f[i - k] = b[c].n
          BY <1>11, <4>1, <4>3
        <5>2. c \in 1 .. n /\ c < d
          BY <1>4 DEF n
        <5>. QED  BY <1>13, <1>17, <3>1, <3>2, <3>3, <4>1, <4>3, <5>1, <5>2
      <4>. QED  BY <4>1, <4>2, <4>3
    <3>. QED  BY <1>12, <3>4, <3>5
  <2>2. CASE j > L
    <3>1. j - L \in 1 .. Len(t) /\ Pending'[j] = t[j - L]
      BY <1>t, <2>2
    <3>2. CASE i <= k
      BY <1>12, <1>14, <1>17, <3>1, <3>2
    <3>3. CASE i > k
      <4>1. i - k \in 1 .. m /\ Forwarded'[i] = f[i - k] /\ f[i - k] \in Nat
        BY <1>12, <3>3
      <4>2. CASE f[i - k] = 0
        BY <1>17, <4>1, <4>2
      <4>3. CASE f[i - k] > 0
        <5>1. PICK c \in 1 .. q : f[i - k] = b[c].n
          BY <1>11, <4>1, <4>3
        <5>2. c \in 1 .. n
          BY <1>4 DEF n
        <5>. QED  BY <1>13, <1>17, <3>1, <4>1, <4>3, <5>1, <5>2
      <4>. QED  BY <4>1, <4>2, <4>3
    <3>. QED  BY <1>12, <3>2, <3>3
  <2>. QED  BY <1>8, <1>9, <2>1, <2>2
<1>18. ASSUME NEW i \in 1 .. (k + m) PROVE Forwarded'[i] <= nRx'
  <2>1. CASE i <= k
    BY <1>2, <1>12, <1>14, <2>1
  <2>2. CASE i > k
    <3>1. i - k \in 1 .. m /\ Forwarded'[i] = f[i - k] /\ f[i - k] \in Nat
      BY <1>12, <2>2
    <3>2. CASE f[i - k] = 0
      BY <1>2, <3>1, <3>2
    <3>3. CASE f[i - k] > 0
      <4>1. PICK c \in 1 .. q : f[i - k] = b[c].n
        BY <1>11, <3>1, <3>3
      <4>2. c \in 1 .. n
        BY <1>4 DEF n
      <4>. QED  BY <1>2, <1>14, <3>1, <4>1, <4>2
    <3>. QED  BY <3>1, <3>2, <3>3
  <2>. QED  BY <1>12, <2>1, <2>2
<1>19. ASSUME NEW j \in 1 .. (L + Len(t)) PROVE Pending'[j].n <= nRx'
  <2>1. CASE j <= L
    <3>1. j \in 1 .. L /\ Pending'[j] = l[j] /\ l[j].n \in Nat
      BY <1>8, <1>9, <2>1
    <3>2. CASE l[j].n = 0
      BY <1>2, <3>1, <3>2
    <3>3. CASE l[j].n > 0
      <4>1. PICK c \in (q + 1) .. n : l[j].n = b[c].n
        BY <1>10, <3>1, <3>3
      <4>2. c \in 1 .. n
        BY <1>4 DEF n
      <4>. QED  BY <1>2, <1>14, <3>1, <4>1, <4>2
    <3>. QED  BY <3>1, <3>2, <3>3
  <2>2. CASE j > L
    <3>1. j - L \in 1 .. Len(t) /\ Pending'[j] = t[j - L]
      BY <1>t, <2>2
    <3>. QED  BY <1>2, <1>14, <3>1
  <2>. QED  BY <1>8, <1>9, <2>1, <2>2
<1>. QED  BY <1>9, <1>12, <1>15, <1>16, <1>17, <1>18, <1>19 DEF RxInv

(***************************************************************************)
(* The real frames read are in the order they were heard and none is read  *)
(* twice, although a stall, an error or an earlier session may put the     *)
(* parser out of step: it then skips frames, finds phantoms, and keeps     *)
(* bytes in which it finds frames of earlier chunks when later ones have   *)
(* come (driver.rs:224-249).                                               *)
(***************************************************************************)
THEOREM ReceivedInOrder == Spec => []RxOrder
<1>1. Init => RxInv
  <2>. SUFFICES ASSUME Init PROVE RxInv
    OBVIOUS
  <2>1. Forwarded = <<>> /\ Pending = <<>>
    BY ConcatEmptySeq, EmptySeq DEF Init, Forwarded, Pending
  <2>2. Len(Forwarded) = 0 /\ Len(Pending) = 0
    BY <2>1, EmptySeq
  <2>. QED  BY <2>2 DEF RxInv, Rising
<1>2. TypeOK /\ RxInv /\ [Next]_vars => RxInv'
  <2>. SUFFICES ASSUME TypeOK, RxInv, [Next]_vars PROVE RxInv'
    OBVIOUS
  <2>1. CASE UNCHANGED <<Forwarded, rxBuf, rxOut, nRx>>
    BY <2>1 DEF RxInv, Rising, Pending
  <2>. QED  BY <2>1, RxHear, RxTake, StreamStep
<1>3. RxInv => RxOrder
  BY DEF RxInv, Rising, RxOrder, Forwarded
<1>. QED  BY <1>1, <1>2, <1>3, TypeCorrect, PTL DEF Spec

-----------------------------------------------------------------------------
(* The format of the stream *)

\* Calls before the event loop is told the format; while the adapter is in
\* RESET; from the START on.
Early   == {"host_format", "bt_ext", "bt_const", "dev_config", "features_ext",
            "features", "update"}
Quiet   == {"reset1", "timing", "ts", "reset2"}
Running == {"start", "close"} \cup Serving

(***************************************************************************)
(* What may be in the channel: the command of the call that waits, behind  *)
(* the update of the set-up or the send dropped at shutdown.               *)
(***************************************************************************)
ChannelInv ==
  /\ waiting /\ reply # None => cmdQ = <<>>
  /\ \A i \in 1 .. Len(cmdQ) :
       \/ /\ cmdQ[i].live /\ cmdQ[i].flags = flags
          /\ cmdQ[i].req = "bulk" => cmdQ[i].n = nTx
       \/ /\ ~ cmdQ[i].live /\ step = "close0" /\ i = 1
          /\ cmdQ[i].req = "update" /\ cmdQ[i].flags = flags
       \/ ~ cmdQ[i].live /\ step = "close" /\ cmdQ[i].req = "bulk"

\* The update of the set-up has not reached the event loop.
Untold == Len(cmdQ) > 0 /\ ~ cmdQ[1].live

\* The event loop knows the driver's flags once it has been told.
FlagInv ==
  /\ flags \subseteq Supports \cup {"ts"}
  /\ step \in Early \cup {"close0", "reset1", "timing", "ts"} => "ts" \notin flags
  /\ step \in Early => loopFlags = {}
  /\ step = "close0" => loopFlags = IF Untold THEN {} ELSE flags
  /\ step \in {"reset1", "timing"} => loopFlags = flags
  /\ step = "ts" => /\ loopFlags \ {"ts"} = flags
                    /\ reply # None => "ts" \in loopFlags
  /\ step \in {"reset2"} \cup Running => loopFlags = flags /\ "ts" \in flags

\* The adapter sends in the format of the driver's flags from the START on.
ModeInv ==
  /\ reply # "stall"
  /\ step \in Quiet => ~ started
  /\ step = "close0" /\ reply = "ok" => ~ started
  /\ step = "start" /\ reply = "ok" => started
  /\ step \in Serving => started
  /\ step \in Running /\ started => devFlags = flags \cap Supports

\* A send that is answered Ok has its frame on the bus.
AckInv ==
  /\ \A n \in acked : \E i \in 1 .. Len(onBus) : onBus[i] = n
  /\ waiting /\ step \in {"send", "resend"} /\ reply = "ok" =>
       \E i \in 1 .. Len(onBus) : onBus[i] = nTx

\* A fresh adapter says nothing before the START.
FreshInv ==
  /\ step \in Early \cup {"close0"} \cup Quiet => ~ started /\ nRx = 0
  /\ step = "start" /\ ~ started => nRx = 0

\* Every chunk is in the format the loop expects and gives its frame.
CompleteInv ==
  /\ rxBuf = <<>>
  /\ step \notin Over => \A j \in 1 .. Len(rxOut) : rxOut[j].flags = flags \cap Supports
  /\ Len(Forwarded) + Len(rxOut) = nRx
  /\ \A i \in 1 .. Len(Forwarded) : Forwarded[i] = i
  /\ \A j \in 1 .. Len(rxOut) : rxOut[j].n = Len(Forwarded) + j

-----------------------------------------------------------------------------
(* The commands in the channel *)

LEMMA CommandFacts ==
  /\ \A s \in Calls : Request[s] = "ts" <=> s = "ts"
  /\ \A s \in Calls : Request[s] = "start" <=> s = "start"
  /\ \A s \in Calls : Request[s] # "update"
  /\ \A s \in {"close0", "reset1", "reset2"} : s \in Calls /\ Request[s] = "reset"
BY CallTable DEF Request

LEMMA ChannelFrame ==
  ASSUME ChannelInv, UNCHANGED <<waiting, reply, cmdQ, step, flags, nTx>>
  PROVE  ChannelInv'
BY DEF ChannelInv

\* With no call waiting, and no send abandoned, the channel is empty.
LEMMA ChannelEmpty ==
  ASSUME TypeOK, NoLostReply, ChannelInv, ~ waiting, step \notin {"close0", "close"}
  PROVE  cmdQ = <<>> /\ Len(cmdQ) = 0
<1>1. \A i \in 1 .. Len(cmdQ) : FALSE
  BY LiveIsLast DEF ChannelInv
<1>2. Len(cmdQ) \in Nat
  BY LenProperties DEF TypeOK, QueueType
<1>. QED  BY <1>1, <1>2, EmptySeq DEF TypeOK, QueueType

\* The command at the head of the channel, by what it asks.
LEMMA HeadCommand ==
  ASSUME TypeOK, NoLostReply, ChannelInv, cmdQ # <<>>, cmdQ' = Tail(cmdQ)
  PROVE  LET c == Head(cmdQ)
         IN  \/ /\ c.live /\ waiting /\ reply = None /\ step \in Calls
                /\ c.req = Request[step] /\ c.flags = flags
                /\ c.req = "bulk" => c.n = nTx
                /\ cmdQ' = <<>> /\ Len(cmdQ') = 0
             \/ /\ ~ c.live /\ step = "close0" /\ c.req = "update" /\ c.flags = flags
             \/ ~ c.live /\ step = "close" /\ c.req = "bulk"
<1>. DEFINE c == Head(cmdQ)
<1>1. Len(cmdQ) \in Nat \ {0} /\ Len(cmdQ') = Len(cmdQ) - 1 /\ c = cmdQ[1]
  BY TakeCommand DEF TypeOK
<1>2. 1 \in 1 .. Len(cmdQ) /\ cmdQ' \in Seq(Commands)
  BY <1>1, HeadTailProperties DEF TypeOK, QueueType
<1>3. CASE c.live
  <2>1. /\ waiting /\ reply = None /\ 1 = Len(cmdQ) /\ step \in Calls
        /\ c.req = Request[step]
    BY <1>1, <1>2, <1>3, LiveIsLast
  <2>2. Len(cmdQ') = 0 /\ cmdQ' = <<>>
    BY <1>1, <1>2, <2>1, EmptySeq
  <2>3. c.flags = flags /\ (c.req = "bulk" => c.n = nTx)
    BY <1>1, <1>2, <1>3 DEF ChannelInv
  <2>. QED  BY <1>3, <2>1, <2>2, <2>3
<1>4. CASE ~ c.live
  BY <1>1, <1>2, <1>4 DEF ChannelInv
<1>. QED  BY <1>3, <1>4

\* The event loop takes a command.
LEMMA ChannelTake ==
  ASSUME TypeOK, NoLostReply, ChannelInv, cmdQ # <<>>, cmdQ' = Tail(cmdQ), NEW r,
         UNCHANGED <<waiting, step, flags, nTx>>,
         reply' = IF Head(cmdQ).live THEN r ELSE reply
  PROVE  ChannelInv'
<1>1. /\ Len(cmdQ) \in Nat \ {0} /\ Len(cmdQ') = Len(cmdQ) - 1
      /\ \A i \in 1 .. Len(cmdQ') : cmdQ'[i] = cmdQ[i + 1] /\ i + 1 \in 1 .. Len(cmdQ)
  BY TakeCommand DEF TypeOK
<1>2. waiting' /\ reply' # None => cmdQ' = <<>>
  BY HeadCommand DEF ChannelInv
<1>3. \A i \in 1 .. Len(cmdQ') : i + 1 # 1
  BY <1>1
<1>4. ASSUME NEW i \in 1 .. Len(cmdQ')
      PROVE  \/ /\ cmdQ'[i].live /\ cmdQ'[i].flags = flags
                /\ cmdQ'[i].req = "bulk" => cmdQ'[i].n = nTx
             \/ ~ cmdQ'[i].live /\ step = "close" /\ cmdQ'[i].req = "bulk"
  BY <1>1, <1>3 DEF ChannelInv
<1>. QED  BY <1>2, <1>4 DEF ChannelInv

LEMMA ChannelStep ==
  ASSUME TypeOK, NoLostReply, ChannelInv, [Next]_vars
  PROVE  ChannelInv'
<1>. USE DEF vars, callVars, loopVars, devVars
<1>1. CASE Submit
  <2>. DEFINE c == Command(step)
  <2>1. /\ step \in Calls /\ ~ waiting /\ reply = None /\ cmdQ' = Append(cmdQ, c)
        /\ UNCHANGED <<step, reply, flags, nTx>>
    BY <1>1 DEF Submit, NoLostReply
  <2>2. c \in Commands /\ c.live /\ c.flags = flags /\ (c.req = "bulk" => c.n = nTx)
    BY <2>1, CommandType DEF TypeOK, Command
  <2>. HIDE DEF c
  <2>3. /\ Len(cmdQ) \in Nat /\ Len(cmdQ') = Len(cmdQ) + 1 /\ cmdQ'[Len(cmdQ')] = c
        /\ \A i \in 1 .. Len(cmdQ) : cmdQ'[i] = cmdQ[i]
    BY <2>1, <2>2, PutCommand DEF TypeOK
  <2>4. \A i \in 1 .. Len(cmdQ') : i \in 1 .. Len(cmdQ) \/ i = Len(cmdQ')
    BY <2>3
  <2>. QED  BY <2>1, <2>2, <2>3, <2>4 DEF ChannelInv
<1>2. CASE SendUpdate
  <2>. DEFINE c == [req |-> "update", flags |-> flags, n |-> 0, live |-> FALSE]
  <2>1. cmdQ' = Append(cmdQ, c) /\ step' = "close0" /\ UNCHANGED <<waiting, reply, flags>>
    BY <1>2 DEF SendUpdate
  <2>2. c \in Commands /\ ~ c.live /\ c.flags = flags /\ c.req = "update"
    BY DEF TypeOK, FlagType, Commands, Requests
  <2>3. ~ waiting /\ Len(cmdQ) = 0
    BY <1>2, CallTable, ChannelEmpty DEF SendUpdate, TypeOK, CallType
  <2>. HIDE DEF c
  <2>4. Len(cmdQ') = 1 /\ cmdQ'[1] = c
    BY <2>1, <2>2, <2>3, PutCommand DEF TypeOK
  <2>. QED  BY <2>1, <2>2, <2>3, <2>4 DEF ChannelInv
<1>3. CASE Return
  <2>1. cmdQ' = cmdQ /\ cmdQ = <<>> /\ Len(cmdQ) = 0
    BY <1>3, EmptySeq DEF Return, ChannelInv
  <2>. QED  BY <2>1 DEF ChannelInv
<1>4. CASE BeginSend
  <2>1. cmdQ' = cmdQ /\ step = "serve"
    BY <1>4 DEF BeginSend
  <2>2. cmdQ = <<>> /\ Len(cmdQ) = 0
    BY <2>1, CallTable, ChannelEmpty DEF TypeOK, CallType
  <2>. QED  BY <2>1, <2>2 DEF ChannelInv
<1>5. CASE Shutdown
  <2>1. /\ Len(cmdQ) \in Nat /\ Len(cmdQ') = Len(cmdQ)
        /\ \A i \in 1 .. Len(cmdQ') :
             /\ cmdQ'[i].req = cmdQ[i].req /\ cmdQ'[i].live = FALSE
    BY <1>5, AbandonCommands DEF Shutdown, TypeOK
  <2>2. step' = "close" /\ ~ waiting' /\ step \in Serving
    BY <1>5 DEF Shutdown
  <2>3. \A i \in 1 .. Len(cmdQ) : cmdQ[i].req = "bulk"
    BY <2>2, LiveIsLast, BulkCalls, CallTable DEF ChannelInv, Serving
  <2>. QED  BY <2>1, <2>2, <2>3 DEF ChannelInv
<1>6. CASE LoopControl
  <2>1. PICK r \in {"ok", "err", "gone"} : Answer(Head(cmdQ), r)
    BY <1>6 DEF LoopControl, CommandReady
  <2>. QED  BY <1>6, <2>1, ChannelTake DEF LoopControl, CommandReady, Answer
<1>7. CASE LoopUpdate
  <2>1. cmdQ # <<>> /\ cmdQ' = Tail(cmdQ) /\ UNCHANGED callVars
    BY <1>7 DEF LoopUpdate, CommandReady
  <2>2. ~ Head(cmdQ).live
    BY <1>7, <2>1, HeadCommand, CommandFacts DEF LoopUpdate, CommandReady
  <2>. QED  BY <2>1, <2>2, ChannelTake
<1>8. CASE LoopBulk
  <2>1. PICK r \in {"ok", "timeout", "gone"} : Answer(Head(cmdQ), r)
    BY <1>8 DEF LoopBulk, CommandReady
  <2>. QED  BY <1>8, <2>1, ChannelTake DEF LoopBulk, CommandReady, Answer
<1>9. CASE LoopStall
  <2>1. PICK r \in {"stall", "err"} : Answer(Head(cmdQ), r)
    BY <1>9 DEF LoopStall, CommandReady
  <2>. QED  BY <1>9, <2>1, ChannelTake DEF LoopStall, CommandReady, Answer
<1>10. CASE \/ ReadFrames \/ LoopReceive \/ LoopReceiveError \/ LoopPush
            \/ Hear \/ ReceiveFails \/ Unplug \/ UNCHANGED vars
  BY <1>10, ChannelFrame DEF ReadFrames, LoopReceive, LoopReceiveError, LoopPush, Hear,
      ReceiveFails, Unplug
<1>. QED  BY <1>1, <1>2, <1>3, <1>4, <1>5, <1>6, <1>7, <1>8, <1>9, <1>10
          DEF Next, CallerStep, LoopCommand, Environment, Gone

LEMMA ChannelKept == Spec => []ChannelInv
<1>1. Init => ChannelInv
  <2>1. Init => Len(cmdQ) = 0
    BY EmptySeq DEF Init
  <2>. QED  BY <2>1 DEF Init, ChannelInv
<1>2. TypeOK /\ NoLostReply /\ ChannelInv /\ [Next]_vars => ChannelInv'
  BY ChannelStep
<1>. QED  BY <1>1, <1>2, TypeCorrect, ReplyPaired, PTL DEF Spec

-----------------------------------------------------------------------------
(* The format of the stream *)

\* A control request is that of the call that waits, and it alone is answered.
LEMMA ControlIsCall ==
  ASSUME TypeOK, NoLostReply, ChannelInv, LoopControl
  PROVE  /\ step \in Calls /\ reply = None /\ cmdQ' = <<>> /\ Len(cmdQ') = 0
         /\ Request[step] # "bulk"
         /\ UNCHANGED <<step, waiting, flags, nTx, acked, onBus>>
         /\ loopFlags' = IF step = "ts" THEN loopFlags \cup {"ts"} ELSE loopFlags
         /\ reply' \in {"ok", "err", "gone"}
         /\ \/ reply' # "ok" /\ UNCHANGED <<started, devFlags>>
            \/ /\ started' = (IF Request[step] = "reset" THEN FALSE
                              ELSE IF step = "start" THEN TRUE ELSE started)
               /\ devFlags' = IF step = "start" THEN flags \cap Supports ELSE devFlags
<1>. DEFINE c == Head(cmdQ)
<1>1. PICK r \in {"ok", "err", "gone"} : Transfer(c, r) /\ Answer(c, r)
  BY DEF LoopControl, CommandReady
<1>2. cmdQ # <<>> /\ cmdQ' = Tail(cmdQ) /\ c.req \notin {"update", "bulk"}
  BY DEF LoopControl, CommandReady
<1>3. /\ c.live /\ reply = None /\ step \in Calls /\ c.req = Request[step]
      /\ c.flags = flags /\ cmdQ' = <<>> /\ Len(cmdQ') = 0
  BY <1>2, HeadCommand
<1>4. c.req = "ts" <=> step = "ts"
  BY <1>3, CommandFacts
<1>5. c.req = "start" <=> step = "start"
  BY <1>3, CommandFacts
<1>6. /\ UNCHANGED <<step, waiting, flags, nTx, acked, onBus>>
      /\ loopFlags' = IF c.req = "ts" THEN loopFlags \cup {"ts"} ELSE loopFlags
  BY DEF LoopControl, CommandReady
<1>7. reply' = r
  BY <1>1, <1>3 DEF Answer
<1>8. \/ r # "ok" /\ UNCHANGED <<started, devFlags>>
      \/ Apply(c)
  BY <1>1 DEF Transfer
<1>. HIDE DEF c
<1>9. ASSUME Apply(c)
      PROVE  /\ started' = (IF c.req = "reset" THEN FALSE
                            ELSE IF c.req = "start" THEN TRUE ELSE started)
             /\ devFlags' = IF c.req = "start" THEN flags \cap Supports ELSE devFlags
  BY <1>9, <1>3 DEF Apply
<1>. QED  BY <1>2, <1>3, <1>4, <1>5, <1>6, <1>7, <1>8, <1>9

\* A frame is that of the send that waits, or of the one dropped at shutdown.
LEMMA BulkIsSend ==
  ASSUME TypeOK, NoLostReply, ChannelInv, LoopBulk
  PROVE  /\ UNCHANGED <<step, waiting, flags, nTx, acked, loopFlags, started, devFlags>>
         /\ \/ /\ step \in {"send", "resend"} /\ waiting /\ reply = None
               /\ cmdQ' = <<>> /\ Len(cmdQ') = 0
               /\ reply' \in {"ok", "timeout", "gone"}
               /\ reply' = "ok" /\ started => onBus' = Append(onBus, nTx)
            \/ step = "close" /\ reply' = reply
         /\ onBus' = onBus \/ onBus' = Append(onBus, Head(cmdQ).n)
<1>. DEFINE c == Head(cmdQ)
<1>1. PICK r \in {"ok", "timeout", "gone"} :
             /\ Answer(c, r)
             /\ onBus' = onBus \/ Transmit(c)
             /\ r = "ok" => Transmit(c)
  BY DEF LoopBulk, CommandReady
<1>2. cmdQ # <<>> /\ cmdQ' = Tail(cmdQ) /\ c.req = "bulk"
  BY DEF LoopBulk, CommandReady
<1>3. UNCHANGED <<step, waiting, flags, nTx, acked, loopFlags, started, devFlags>>
  BY DEF LoopBulk, CommandReady, loopVars
<1>4. CASE c.live
  <2>1. /\ waiting /\ reply = None /\ step \in {"send", "resend"} /\ c.n = nTx
        /\ cmdQ' = <<>> /\ Len(cmdQ') = 0
    BY <1>2, <1>4, HeadCommand, BulkCalls
  <2>2. reply' = r
    BY <1>1, <1>4 DEF Answer
  <2>3. r = "ok" /\ started => onBus' = Append(onBus, nTx)
    BY <1>1, <2>1 DEF Transmit
  <2>. QED  BY <1>1, <1>3, <2>1, <2>2, <2>3 DEF Transmit
<1>5. CASE ~ c.live
  <2>1. step = "close"
    BY <1>2, <1>5, HeadCommand
  <2>2. reply' = reply
    BY <1>1, <1>5 DEF Answer
  <2>. QED  BY <1>1, <1>3, <2>1, <2>2 DEF Transmit
<1>. QED  BY <1>4, <1>5

LEMMA FormatFrame ==
  ASSUME FlagInv, ModeInv,
         UNCHANGED <<step, reply, flags, loopFlags, started, devFlags>>,
         step = "close0" => Untold' = Untold
  PROVE  FlagInv' /\ ModeInv'
BY DEF FlagInv, ModeInv, Untold

LEMMA ReturnFormat ==
  ASSUME TypeOK, NoLostReply, ChannelInv, FlagInv, ModeInv, Return
  PROVE  FlagInv' /\ ModeInv'
<1>1. waiting /\ reply # None /\ step \in Calls /\ cmdQ = <<>>
  BY DEF Return, TypeOK, CallType, ChannelInv
<1>2. ~ Untold
  BY <1>1, EmptySeq DEF Untold
<1>3. reply # "stall" /\ ~ Fallback(step, reply)
  BY DEF ModeInv, Fallback
<1>4. /\ step' = IF reply = "ok" THEN NextStep[step] ELSE OnError(step)
      /\ flags' = NewFlags(step, reply) /\ reply' = None
      /\ UNCHANGED <<loopFlags, started, devFlags>>
  BY <1>3 DEF Return, loopVars, devVars
<1>5. CASE step \in {"host_format", "bt_ext", "bt_const", "dev_config"}
  <2>1. step' \in Early \cup {"failed"} /\ flags' = flags /\ step \in Early
    BY <1>4, <1>5, <1>3 DEF NextStep, OnError, NewFlags, Early, Calls, Request
  <2>. QED  BY <1>4, <2>1 DEF FlagInv, ModeInv, Early, Quiet, Running, Serving, None
<1>6. CASE step \in {"features_ext", "features"}
  <2>1. step' \in {"features", "update"} /\ flags' \subseteq flags \cup (Supports \cap {"pad"})
    BY <1>4, <1>6, <1>3 DEF NextStep, OnError, NewFlags
  <2>2. step \in Early /\ step' \in Early
    BY <1>6, <2>1 DEF Early
  <2>. QED  BY <1>4, <2>1, <2>2 DEF FlagInv, ModeInv, Early, Quiet, Running, Serving, None
<1>7. CASE step \in {"close0", "reset1", "timing"}
  <2>1. flags' = flags /\ (step' = NextStep[step] \/ step' = "failed")
    BY <1>4, <1>7, <1>3 DEF OnError, NewFlags
  <2>2. step' \in {"reset1", "timing", "ts", "failed"}
    BY <1>7, <2>1 DEF NextStep
  <2>3. step = "close0" => reply = "ok" \/ step' = "failed"
    BY <1>4 DEF OnError
  <2>. QED  BY <1>2, <1>4, <1>7, <2>1, <2>2, <2>3
            DEF FlagInv, ModeInv, Early, Quiet, Running, Serving, None
<1>8. CASE step = "ts"
  <2>1. flags' = flags \cup {"ts"} /\ step' = "reset2"
    BY <1>4, <1>8, <1>3 DEF OnError, NewFlags, NextStep
  <2>2. loopFlags = flags \cup {"ts"}
    BY <1>1, <1>8 DEF FlagInv
  <2>. QED  BY <1>4, <1>8, <2>1, <2>2 DEF FlagInv, ModeInv, Early, Quiet, Running, Serving, None
<1>9. CASE step \in {"reset2", "start"}
  <2>1. flags' = flags /\ ((reply = "ok" /\ step' = NextStep[step]) \/ step' = "failed")
    BY <1>4, <1>9, <1>3 DEF OnError, NewFlags
  <2>2. NextStep["reset2"] = "start" /\ NextStep["start"] = "serve"
    BY DEF NextStep
  <2>. QED  BY <1>4, <1>9, <2>1, <2>2 DEF FlagInv, ModeInv, Early, Quiet, Running, Serving, None
<1>10. CASE step \in {"send", "resend", "close"}
  <2>1. flags' = flags /\ step' = NextStep[step]
    BY <1>4, <1>10, <1>3 DEF OnError, NewFlags
  <2>2. step' \in {"serve", "exited"} /\ (step # "close" => step' = "serve")
        /\ (step = "close" => step' = "exited")
    BY <1>10, <2>1 DEF NextStep
  <2>. QED  BY <1>4, <1>10, <2>1, <2>2 DEF FlagInv, ModeInv, Early, Quiet, Running, Serving, None
<1>. QED  BY <1>1, <1>5, <1>6, <1>7, <1>8, <1>9, <1>10, CallTable

LEMMA ControlFormat ==
  ASSUME TypeOK, NoLostReply, ChannelInv, FlagInv, ModeInv, LoopControl
  PROVE  FlagInv' /\ ModeInv'
<1>. USE ControlIsCall
<1>1. ~ Untold' /\ step \in Calls /\ step' = step /\ flags' = flags
  BY DEF Untold
<1>2. step = "close0" => ~ Untold /\ Request[step] = "reset"
  <2>. SUFFICES ASSUME step = "close0" PROVE ~ Untold
    BY CommandFacts
  <2>1. Head(cmdQ).live
    BY HeadCommand DEF LoopControl, CommandReady
  <2>2. Head(cmdQ) = cmdQ[1]
    BY TakeCommand DEF LoopControl, CommandReady, TypeOK
  <2>. QED  BY <2>1, <2>2 DEF Untold
<1>3. step \in {"reset1", "reset2"} => Request[step] = "reset"
  BY CommandFacts
<1>4. step \notin Serving /\ Request["close"] = "reset" /\ (Request["start"] # "reset")
  BY CallTable, BulkCalls, CommandFacts DEF Serving
<1>5. FlagInv'
  BY <1>1, <1>2 DEF FlagInv, Early, Running, Serving, None
<1>6. ModeInv'
  <2>1. reply' # "stall" /\ step' \notin Serving
    BY <1>1, <1>4
  <2>2. step \in Quiet => ~ started'
    BY <1>3 DEF ModeInv, Quiet
  <2>3. step = "close0" /\ reply' = "ok" => ~ started'
    BY <1>2
  <2>4. step = "start" /\ reply' = "ok" => started'
    BY <1>4
  <2>5. step = "start" /\ started' => devFlags' = flags \cap Supports
    BY DEF ModeInv, Running
  <2>6. step = "close" /\ started' => devFlags' = flags \cap Supports
    BY <1>4 DEF ModeInv, Running
  <2>. QED  BY <1>1, <2>1, <2>2, <2>3, <2>4, <2>5, <2>6 DEF ModeInv, Running
<1>. QED  BY <1>5, <1>6

LEMMA FormatStep ==
  ASSUME ~ Stalls, TypeOK, NoLostReply, ChannelInv, FlagInv, ModeInv, [Next]_vars
  PROVE  FlagInv' /\ ModeInv'
<1>. USE DEF vars, callVars, loopVars, devVars
<1>1. CASE Submit
  <2>1. /\ UNCHANGED <<step, reply, flags, loopFlags, started, devFlags>>
        /\ step \in Calls /\ ~ waiting /\ cmdQ' = Append(cmdQ, Command(step))
    BY <1>1 DEF Submit
  <2>2. Command(step) \in Commands /\ Command(step).live
    BY <2>1, CommandType DEF TypeOK
  <2>3. /\ Len(cmdQ) \in Nat /\ Len(cmdQ') = Len(cmdQ) + 1
        /\ cmdQ'[Len(cmdQ) + 1].live
        /\ \A i \in 1 .. Len(cmdQ) : cmdQ'[i] = cmdQ[i]
    BY <2>1, <2>2, PutCommand DEF TypeOK
  <2>4. Untold' = Untold
    <3>1. CASE Len(cmdQ) = 0
      BY <2>3, <3>1 DEF Untold
    <3>2. CASE Len(cmdQ) > 0
      BY <2>3, <3>2 DEF Untold
    <3>. QED  BY <2>3, <3>1, <3>2
  <2>. QED  BY <2>1, <2>4, FormatFrame
<1>2. CASE SendUpdate
  <2>. DEFINE c == [req |-> "update", flags |-> flags, n |-> 0, live |-> FALSE]
  <2>1. /\ step = "update" /\ cmdQ' = Append(cmdQ, c) /\ step' = "close0"
        /\ UNCHANGED <<reply, flags, loopFlags, started, devFlags>>
    BY <1>2 DEF SendUpdate
  <2>2. c \in Commands /\ ~ c.live
    BY DEF TypeOK, FlagType, Commands, Requests
  <2>3. ~ waiting /\ reply = None /\ Len(cmdQ) = 0
    BY <2>1, CallTable, ChannelEmpty DEF TypeOK, CallType, NoLostReply
  <2>. HIDE DEF c
  <2>4. Len(cmdQ') = 1 /\ cmdQ'[1] = c
    BY <2>1, <2>2, <2>3, PutCommand DEF TypeOK
  <2>5. Untold'
    BY <2>2, <2>4 DEF Untold
  <2>. QED  BY <2>1, <2>3, <2>5 DEF FlagInv, ModeInv, Early, Quiet, Running, Serving, None
<1>3. CASE Return
  BY <1>3, ReturnFormat
<1>4. CASE BeginSend
  <2>1. step = "serve" /\ step' = "send"
        /\ UNCHANGED <<reply, flags, loopFlags, started, devFlags>>
    BY <1>4 DEF BeginSend
  <2>. QED  BY <2>1 DEF FlagInv, ModeInv, Early, Quiet, Running, Serving
<1>5. CASE Shutdown
  <2>1. step \in Serving /\ step' = "close" /\ reply' = None
        /\ UNCHANGED <<flags, loopFlags, started, devFlags>>
    BY <1>5 DEF Shutdown
  <2>. QED  BY <2>1 DEF FlagInv, ModeInv, Early, Quiet, Running, Serving, None
<1>6. CASE LoopControl
  BY <1>6, ControlFormat
<1>7. CASE LoopUpdate
  <2>1. /\ cmdQ # <<>> /\ cmdQ' = Tail(cmdQ) /\ Head(cmdQ).req = "update"
        /\ loopFlags' = (loopFlags \ {"pad"}) \cup (Head(cmdQ).flags \cap {"pad"})
        /\ UNCHANGED <<step, waiting, reply, flags, nTx, started, devFlags>>
    BY <1>7 DEF LoopUpdate, CommandReady
  <2>2. step = "close0" /\ ~ Head(cmdQ).live /\ Head(cmdQ).flags = flags
    BY <2>1, HeadCommand, CommandFacts
  <2>3. Untold
    <3>1. Len(cmdQ) \in Nat \ {0} /\ Head(cmdQ) = cmdQ[1]
      BY <2>1, TakeCommand DEF TypeOK
    <3>. QED  BY <2>2, <3>1 DEF Untold
  <2>4. ~ Untold'
    <3>1. ChannelInv'
      BY <1>7, ChannelStep DEF Next, LoopCommand
    <3>2. /\ Len(cmdQ) \in Nat \ {0} /\ Len(cmdQ') = Len(cmdQ) - 1
          /\ \A i \in 1 .. Len(cmdQ') : cmdQ'[i] = cmdQ[i + 1] /\ i + 1 \in 1 .. Len(cmdQ)
      BY <2>1, TakeCommand DEF TypeOK
    <3>3. \A i \in 1 .. Len(cmdQ') : cmdQ'[i].live
      BY <2>2, <3>2 DEF ChannelInv
    <3>. QED  BY <3>2, <3>3 DEF Untold
  <2>5. loopFlags' = flags
    <3>1. loopFlags = {} /\ "ts" \notin flags /\ flags \subseteq Flags
      BY <2>2, <2>3 DEF FlagInv, TypeOK, FlagType
    <3>. QED  BY <2>1, <2>2, <3>1 DEF Flags
  <2>. QED  BY <2>1, <2>2, <2>4, <2>5 DEF FlagInv, ModeInv, Early, Quiet, Running, Serving
<1>8. CASE LoopBulk
  BY <1>8, BulkIsSend DEF FlagInv, ModeInv, Early, Quiet, Running, Serving, None
<1>9. CASE LoopStall
  BY <1>9 DEF LoopStall, CommandReady
<1>10. CASE \/ ReadFrames \/ LoopReceive \/ LoopReceiveError \/ LoopPush
            \/ Hear \/ ReceiveFails \/ Unplug \/ UNCHANGED vars
  <2>1. UNCHANGED <<step, reply, flags, loopFlags, started, devFlags, cmdQ>>
    BY <1>10 DEF ReadFrames, LoopReceive, LoopReceiveError, LoopPush, Hear,
      ReceiveFails, Unplug
  <2>. QED  BY <2>1, FormatFrame DEF Untold
<1>. QED  BY <1>1, <1>2, <1>3, <1>4, <1>5, <1>6, <1>7, <1>8, <1>9, <1>10
          DEF Next, CallerStep, LoopCommand, Environment, Gone

LEMMA FormatKept == ~ Stalls => (Spec => [](FlagInv /\ ModeInv))
<1>. SUFFICES ASSUME ~ Stalls PROVE Spec => [](FlagInv /\ ModeInv)
  OBVIOUS
<1>1. Init => FlagInv /\ ModeInv
  BY DEF Init, FlagInv, ModeInv, Early, Quiet, Running, Serving, None
<1>2. /\ TypeOK /\ NoLostReply /\ ChannelInv /\ (FlagInv /\ ModeInv) /\ [Next]_vars
      => (FlagInv /\ ModeInv)'
  BY FormatStep
<1>. QED  BY <1>1, <1>2, TypeCorrect, ReplyPaired, ChannelKept, PTL DEF Spec

(***************************************************************************)
(* As long as no bulk write stalls, the event loop parses the stream in    *)
(* the format the adapter was started in, for every adapter that has the   *)
(* timestamps the driver asks for, left running or not, and every other    *)
(* fault.                                                                  *)
(***************************************************************************)
THEOREM FormatAgreed ==
  ASSUME ~ Stalls, "ts" \in Supports
  PROVE  Spec => []FormatAgreement
<1>1. FlagInv /\ ModeInv => FormatAgreement
  <2>. SUFFICES ASSUME FlagInv, ModeInv, step \in Serving, started
                PROVE  devFlags = loopFlags
    BY DEF FormatAgreement
  <2>1. loopFlags = flags /\ flags \subseteq Supports \cup {"ts"}
    BY DEF FlagInv, Running
  <2>2. devFlags = flags \cap Supports
    BY DEF ModeInv, Running
  <2>. QED  BY <2>1, <2>2
<1>. QED  BY <1>1, FormatKept, PTL

-----------------------------------------------------------------------------
(* Frames acknowledged *)

LEMMA AckFrame ==
  ASSUME AckInv, UNCHANGED <<acked, onBus>>,
         \/ UNCHANGED <<waiting, step, reply, nTx>>
         \/ ~ (waiting' /\ step' \in {"send", "resend"} /\ reply' = "ok")
  PROVE  AckInv'
BY DEF AckInv

\* A frame on the bus stays there.
LEMMA BusGrows ==
  ASSUME TypeOK, NEW n \in Nat, onBus' = Append(onBus, n)
  PROVE  /\ \A m : (\E i \in 1 .. Len(onBus) : onBus[i] = m)
                   => \E i \in 1 .. Len(onBus') : onBus'[i] = m
         /\ \E i \in 1 .. Len(onBus') : onBus'[i] = n
<1>1. /\ Len(onBus) \in Nat /\ Len(onBus') = Len(onBus) + 1
      /\ \A i \in 1 .. Len(onBus) : onBus'[i] = onBus[i]
      /\ onBus'[Len(onBus) + 1] = n
  BY AppendProperties, LenProperties DEF TypeOK, DevType
<1>2. \A i \in 1 .. Len(onBus) : i \in 1 .. Len(onBus')
  BY <1>1
<1>3. Len(onBus) + 1 \in 1 .. Len(onBus')
  BY <1>1
<1>. QED  BY <1>1, <1>2, <1>3

LEMMA AckStep ==
  ASSUME ~ Stalls, TypeOK, NoLostReply, ChannelInv, ModeInv, AckInv, [Next]_vars
  PROVE  AckInv'
<1>. USE DEF vars, callVars, loopVars, devVars
<1>1. CASE Submit
  <2>1. reply' = None
    BY <1>1 DEF Submit, NoLostReply
  <2>. QED  BY <1>1, <2>1, AckFrame DEF Submit, None
<1>2. CASE SendUpdate
  BY <1>2, AckFrame DEF SendUpdate
<1>3. CASE Return
  <2>1. waiting /\ step \in Calls /\ ~ waiting' /\ onBus' = onBus
    BY <1>3 DEF Return, TypeOK, CallType
  <2>2. CASE Request[step] = "bulk" /\ reply = "ok"
    <3>1. step \in {"send", "resend"} /\ acked' = acked \cup {nTx}
      BY <1>3, <2>1, <2>2, BulkCalls DEF Return
    <3>2. \E i \in 1 .. Len(onBus) : onBus[i] = nTx
      BY <2>1, <2>2, <3>1 DEF AckInv
    <3>. QED  BY <2>1, <3>1, <3>2 DEF AckInv
  <2>3. CASE ~ (Request[step] = "bulk" /\ reply = "ok")
    BY <1>3, <2>1, <2>3, AckFrame DEF Return
  <2>. QED  BY <2>2, <2>3
<1>4. CASE BeginSend
  <2>1. ~ waiting'
    BY <1>4, CallTable DEF BeginSend, TypeOK, CallType
  <2>. QED  BY <1>4, <2>1, AckFrame DEF BeginSend
<1>5. CASE Shutdown
  BY <1>5, AckFrame DEF Shutdown
<1>6. CASE LoopControl
  <2>1. step' \notin {"send", "resend"} /\ UNCHANGED <<acked, onBus>>
    BY <1>6, ControlIsCall, BulkCalls
  <2>. QED  BY <2>1, AckFrame
<1>7. CASE LoopUpdate
  BY <1>7, AckFrame DEF LoopUpdate, CommandReady
<1>8. CASE LoopBulk
  <2>1. UNCHANGED <<step, waiting, nTx, acked>>
    BY <1>8, BulkIsSend
  <2>2. Head(cmdQ).n \in Nat /\ nTx \in Nat
    <3>1. Head(cmdQ) \in Commands
      BY <1>8, TakeCommand DEF LoopBulk, CommandReady, TypeOK
    <3>. QED  BY <3>1 DEF Commands, TypeOK, CallType
  <2>3. onBus' = onBus \/ onBus' = Append(onBus, Head(cmdQ).n)
    BY <1>8, BulkIsSend
  <2>4. \A m : (\E i \in 1 .. Len(onBus) : onBus[i] = m)
               => \E i \in 1 .. Len(onBus') : onBus'[i] = m
    BY <2>2, <2>3, BusGrows
  <2>5. CASE step \in {"send", "resend"}
    <3>1. started /\ (reply' = "ok" /\ started => onBus' = Append(onBus, nTx))
      BY <1>8, <2>5, BulkIsSend DEF ModeInv, Serving
    <3>2. reply' = "ok" => \E i \in 1 .. Len(onBus') : onBus'[i] = nTx
      BY <2>2, <3>1, BusGrows
    <3>. QED  BY <2>1, <2>4, <3>2 DEF AckInv
  <2>6. CASE step \notin {"send", "resend"}
    BY <2>1, <2>4, <2>6 DEF AckInv
  <2>. QED  BY <2>5, <2>6
<1>9. CASE LoopStall
  BY <1>9 DEF LoopStall, CommandReady
<1>10. CASE \/ ReadFrames \/ LoopReceive \/ LoopReceiveError \/ LoopPush
            \/ Hear \/ ReceiveFails \/ Unplug \/ UNCHANGED vars
  BY <1>10, AckFrame DEF ReadFrames, LoopReceive, LoopReceiveError, LoopPush, Hear,
      ReceiveFails, Unplug
<1>. QED  BY <1>1, <1>2, <1>3, <1>4, <1>5, <1>6, <1>7, <1>8, <1>9, <1>10
          DEF Next, CallerStep, LoopCommand, Environment, Gone

(***************************************************************************)
(* As long as no bulk write stalls, a send_frame that returned Ok has put  *)
(* its frame on the bus, whatever times out or is unplugged.               *)
(***************************************************************************)
THEOREM AckedTransmitted ==
  ASSUME ~ Stalls
  PROVE  Spec => []AckedOnBus
<1>1. Init => AckInv
  BY DEF Init, AckInv
<1>2. TypeOK /\ NoLostReply /\ ChannelInv /\ (FlagInv /\ ModeInv) /\ AckInv /\ [Next]_vars
      => AckInv'
  BY AckStep
<1>3. AckInv => AckedOnBus
  BY DEF AckInv, AckedOnBus
<1>4. Spec => [](FlagInv /\ ModeInv)
  BY FormatKept
<1>. QED  BY <1>1, <1>2, <1>3, <1>4, TypeCorrect, ReplyPaired, ChannelKept, PTL DEF Spec

-----------------------------------------------------------------------------
(* Frames received *)

LEMMA FreshStep ==
  ASSUME ~ Stalls, TypeOK, NoLostReply, ChannelInv, ModeInv, FreshInv, [Next]_vars
  PROVE  FreshInv'
<1>. USE DEF vars, callVars, loopVars, devVars
<1>1. CASE Return
  <2>1. waiting /\ step \in Calls /\ UNCHANGED <<started, nRx>>
    BY <1>1 DEF Return, TypeOK, CallType
  <2>2. ~ Fallback(step, reply)
    BY DEF ModeInv, Fallback
  <2>3. step' = IF reply = "ok" THEN NextStep[step] ELSE OnError(step)
    BY <1>1, <2>2 DEF Return
  <2>4. CASE step \in {"start", "send", "resend", "close"}
    <3>1. step' \in {"serve", "exited", "failed"}
      BY <2>3, <2>4 DEF NextStep, OnError
    <3>. QED  BY <3>1 DEF FreshInv, Early, Quiet
  <2>5. CASE step \notin {"start", "send", "resend", "close"}
    <3>1. step \in Early \cup {"close0"} \cup Quiet
      BY <2>1, <2>5, CallTable DEF Early, Quiet
    <3>. QED  BY <2>1, <3>1 DEF FreshInv
  <2>. QED  BY <2>4, <2>5
<1>2. CASE LoopControl
  <2>1. step' = step /\ nRx' = nRx /\ (~ started /\ step # "start" => ~ started')
    <3>1. step' = step /\ nRx' = nRx
      BY <1>2 DEF LoopControl, CommandReady
    <3>2. \/ started' = started
          \/ started' = IF Request[step] = "reset" THEN FALSE
                        ELSE IF step = "start" THEN TRUE ELSE started
      BY <1>2, ControlIsCall
    <3>3. ~ started /\ step # "start" => ~ started'
      BY <3>2
    <3>. QED  BY <3>1, <3>3
  <2>2. step = "start" /\ ~ started' => ~ started
    BY <1>2, ControlIsCall, CommandFacts
  <2>3. "start" \notin Early \cup {"close0"} \cup Quiet
    BY DEF Early, Quiet
  <2>. QED  BY <2>1, <2>2, <2>3 DEF FreshInv
<1>3. CASE SendUpdate
  BY <1>3 DEF SendUpdate, FreshInv, Early, Quiet
<1>4. CASE BeginSend
  BY <1>4 DEF BeginSend, FreshInv, Early, Quiet
<1>5. CASE Shutdown
  BY <1>5 DEF Shutdown, FreshInv, Early, Quiet
<1>6. CASE Hear
  BY <1>6 DEF Hear, FreshInv
<1>7. CASE LoopStall
  BY <1>7 DEF LoopStall, CommandReady
<1>8. CASE Submit \/ ReadFrames \/ LoopUpdate \/ LoopBulk \/ LoopReceive \/ LoopPush
           \/ LoopReceiveError \/ ReceiveFails \/ Unplug \/ UNCHANGED vars
  <2>1. UNCHANGED <<step, started, nRx>>
    BY <1>8 DEF Submit, ReadFrames, LoopUpdate, LoopBulk, LoopReceive, LoopPush, Unplug,
       LoopReceiveError, ReceiveFails
  <2>. QED  BY <2>1 DEF FreshInv
<1>. QED  BY <1>1, <1>2, <1>3, <1>4, <1>5, <1>6, <1>7, <1>8
          DEF Next, CallerStep, LoopCommand, Environment, Gone

\* A step that neither hears nor takes a frame keeps the expected format.
LEMMA CompleteFrame ==
  ASSUME ~ Stalls, TypeOK, ModeInv, FreshInv, CompleteInv, [Next]_vars,
         UNCHANGED <<Forwarded, rxBuf, rxOut, nRx>>
  PROVE  CompleteInv'
<1>. USE DEF vars, callVars, loopVars, devVars
<1>1. step \in Over => step' \in Over
  BY CallTable DEF Next, CallerStep, LoopCommand, Environment, Gone, Submit, SendUpdate,
     Return, BeginSend, ReadFrames, Shutdown, LoopControl, LoopUpdate, LoopBulk, LoopStall,
     LoopReceive, LoopReceiveError, LoopPush, Hear, ReceiveFails, Unplug, CommandReady,
     Ready, Over, Serving, TypeOK, CallType
<1>2. flags' = flags \/ nRx = 0
  <2>1. CASE Return
    <3>1. ~ Fallback(step, reply)
      BY DEF ModeInv, Fallback
    <3>2. flags' = flags \/ step \in {"features_ext", "features", "ts"}
      BY <2>1, <3>1 DEF Return, NewFlags
    <3>. QED  BY <3>2 DEF FreshInv, Early, Quiet
  <2>2. CASE ~ Return
    BY <2>2 DEF Next, CallerStep, LoopCommand, Environment, Gone, Submit, SendUpdate,
       BeginSend, ReadFrames, Shutdown, LoopControl, LoopUpdate, LoopBulk, LoopStall,
       LoopReceive, LoopReceiveError, LoopPush, Hear, ReceiveFails, Unplug
  <2>. QED  BY <2>1, <2>2
<1>3. nRx = 0 => Len(rxOut) = 0
  <2>1. Len(rxOut) \in Nat /\ Len(Forwarded) \in Nat
    BY ForwardedType, LenProperties DEF TypeOK, DevType
  <2>. QED  BY <2>1 DEF CompleteInv
<1>4. step' \notin Over => \A j \in 1 .. Len(rxOut') : rxOut'[j].flags = flags' \cap Supports
  BY <1>1, <1>2, <1>3 DEF CompleteInv
<1>. QED  BY <1>4 DEF CompleteInv

LEMMA CompleteHear ==
  ASSUME TypeOK, FlagInv, ModeInv, FreshInv, CompleteInv, Hear
  PROVE  CompleteInv'
<1>1. /\ nRx' = nRx + 1 /\ Len(rxOut) \in Nat /\ Len(rxOut') = Len(rxOut) + 1
      /\ \A j \in 1 .. Len(rxOut) : rxOut'[j] = rxOut[j]
      /\ rxOut'[Len(rxOut) + 1].n = nRx + 1
      /\ rxOut'[Len(rxOut) + 1].flags = devFlags
  BY HearTransfer
<1>2. /\ Forwarded' = Forwarded /\ UNCHANGED <<step, flags, rxBuf>>
      /\ started /\ step \notin Over
  BY DEF Hear, callVars, loopVars, Forwarded
<1>3. step \in Running
  <2>1. step \notin Early \cup {"close0"} \cup Quiet
    BY <1>2 DEF FreshInv
  <2>. QED  BY <1>2, <2>1, CallTable DEF TypeOK, CallType, Early, Quiet, Running, Serving
<1>4. devFlags = flags \cap Supports
  BY <1>2, <1>3 DEF ModeInv
<1>5. Len(Forwarded) \in Nat /\ nRx = Len(Forwarded) + Len(rxOut)
  BY ForwardedType, LenProperties DEF CompleteInv
<1>6. \A j \in 1 .. Len(rxOut') : j \in 1 .. Len(rxOut) \/ j = Len(rxOut) + 1
  BY <1>1
<1>7. \A j \in 1 .. Len(rxOut') : rxOut'[j].flags = flags \cap Supports
  BY <1>1, <1>2, <1>4, <1>6 DEF CompleteInv
<1>8. \A j \in 1 .. Len(rxOut') : rxOut'[j].n = Len(Forwarded) + j
  <2>1. \A j \in 1 .. Len(rxOut) : rxOut'[j].n = Len(Forwarded) + j
    BY <1>1 DEF CompleteInv
  <2>2. rxOut'[Len(rxOut) + 1].n = Len(Forwarded) + (Len(rxOut) + 1)
    BY <1>1, <1>5
  <2>. QED  BY <1>6, <2>1, <2>2
<1>. QED  BY <1>1, <1>2, <1>5, <1>7, <1>8 DEF CompleteInv

LEMMA CompleteTake ==
  ASSUME "ts" \in Supports, TypeOK, FlagInv, FreshInv, CompleteInv, LoopReceive
  PROVE  CompleteInv'
<1>1. /\ Len(rxOut) \in Nat \ {0} /\ Len(rxOut') = Len(rxOut) - 1
      /\ Head(rxOut) = rxOut[1] /\ Head(rxOut) \in Chunks
      /\ \A j \in 1 .. Len(rxOut') : rxOut'[j] = rxOut[j + 1] /\ j + 1 \in 1 .. Len(rxOut)
  BY TakeTransfer
<1>2. PICK p \in Parses(Append(rxBuf, Head(rxOut))) :
             /\ p.frames \in Seq(Nat) /\ Forwarded' = Forwarded \o p.frames
             /\ rxBuf' = p.left
  BY TakeTransfer
<1>. DEFINE n == Head(rxOut).n  k == Len(Forwarded)
<1>3. UNCHANGED <<step, flags, nRx>> /\ step \notin Over
  BY DEF LoopReceive, Ready, callVars
<1>4. k \in Nat /\ k + Len(rxOut) = nRx
  BY ForwardedType, LenProperties DEF CompleteInv
<1>5. /\ 1 \in 1 .. Len(rxOut) /\ n = k + 1
      /\ Head(rxOut).flags = flags \cap Supports
  BY <1>1, <1>3, <1>4 DEF CompleteInv
<1>6. flags \cap Supports = loopFlags
  <2>1. step \in Running
    <3>1. nRx # 0
      BY <1>1, <1>4
    <3>2. step \notin Early \cup {"close0"} \cup Quiet
      BY <3>1 DEF FreshInv
    <3>. QED  BY <1>3, <3>2, CallTable DEF TypeOK, CallType, Early, Quiet, Running, Serving
  <2>. QED  BY <2>1 DEF FlagInv
<1>7. p.frames = <<n>> /\ p.left = <<>>
  <2>. DEFINE h == Head(rxOut)
              b == Append(rxBuf, h)
  <2>1. b = <<h>>
    BY DEF CompleteInv
  <2>2. <<h>> \in Seq(Chunks) /\ Len(<<h>>) = 1 /\ <<h>>[1] = h
    BY <1>1
  <2>3. h.n = n /\ n > 0 /\ h.flags = loopFlags
    <3>1. n > 0
      <4>. HIDE DEF k, n
      <4>. QED  BY <1>4, <1>5
    <3>2. h.flags = loopFlags
      BY <1>5, <1>6
    <3>. QED  BY <3>1, <3>2
  <2>4. p \in Parses(<<h>>)
    BY <1>2, <2>1
  <2>. HIDE DEF h, b, n
  <2>5. InStep(<<h>>)
    BY <2>2, <2>3 DEF InStep
  <2>6. p.left = <<>> /\ p.frames = [i \in 1 .. Len(<<h>>) |-> <<h>>[i].n]
    BY <2>2, <2>4, <2>5, ParsesWays
  <2>7. [i \in 1 .. Len(<<h>>) |-> <<h>>[i].n] = <<n>>
    BY <2>2, <2>3
  <2>. QED  BY <2>6, <2>7
<1>8. Len(Forwarded') = k + 1 /\ \A i \in 1 .. k + 1 : Forwarded'[i] = i
  <2>1. Len(<<n>>) = 1 /\ <<n>>[1] = n
    OBVIOUS
  <2>2. /\ Len(Forwarded') = k + 1
        /\ \A i \in 1 .. k + 1 :
             Forwarded'[i] = IF i <= k THEN Forwarded[i] ELSE p.frames[i - k]
    BY <1>2, <1>4, <1>7, <2>1, ForwardedType, ConcatProperties
  <2>. HIDE DEF n
  <2>3. \A i \in 1 .. k : Forwarded[i] = i
    BY DEF CompleteInv
  <2>. HIDE DEF k
  <2>4. ASSUME NEW i \in 1 .. k + 1 PROVE Forwarded'[i] = i
    <3>1. CASE i <= k
      BY <1>4, <2>2, <2>3, <3>1
    <3>2. CASE i = k + 1
      BY <1>4, <1>5, <1>7, <2>1, <2>2, <3>2
    <3>. QED  BY <1>4, <3>1, <3>2
  <2>. QED  BY <2>2, <2>4
<1>9. \A j \in 1 .. Len(rxOut') : rxOut'[j].flags = flags \cap Supports
  BY <1>1, <1>3 DEF CompleteInv
<1>10. \A j \in 1 .. Len(rxOut') : rxOut'[j].n = (k + 1) + j
  <2>1. \A j \in 1 .. Len(rxOut) : rxOut[j].n = k + j
    BY DEF CompleteInv
  <2>. HIDE DEF k
  <2>2. ASSUME NEW j \in 1 .. Len(rxOut') PROVE rxOut'[j].n = (k + 1) + j
    <3>1. j + 1 \in 1 .. Len(rxOut) /\ rxOut'[j] = rxOut[j + 1]
      BY <1>1
    <3>2. rxOut[j + 1].n = k + (j + 1)
      BY <2>1, <3>1
    <3>. QED  BY <1>4, <3>1, <3>2
  <2>. QED  BY <2>2
<1>11. Len(Forwarded') + Len(rxOut') = nRx'
  BY <1>1, <1>3, <1>4, <1>8
<1>. QED  BY <1>2, <1>3, <1>7, <1>8, <1>9, <1>10, <1>11 DEF CompleteInv

(***************************************************************************)
(* From a fresh adapter, as long as no bulk write stalls, every frame sent *)
(* up is read, in order, or on its way: none is lost, split or invented,   *)
(* in channels of any size.                                                *)
(***************************************************************************)
THEOREM ReceivedComplete ==
  ASSUME ~ Stalls, ~ LeftRunning, "ts" \in Supports
  PROVE  Spec => []RxComplete
<1>1. Init => FreshInv /\ CompleteInv
  <2>. SUFFICES ASSUME Init PROVE FreshInv /\ CompleteInv
    OBVIOUS
  <2>1. Forwarded = <<>> /\ rxOut = <<>> /\ nRx = 0 /\ rxBuf = <<>> /\ ~ started
    BY ConcatEmptySeq, EmptySeq DEF Init, Forwarded
  <2>2. Len(Forwarded) = 0 /\ Len(rxOut) = 0
    BY <2>1, EmptySeq
  <2>. QED  BY <2>1, <2>2 DEF FreshInv, CompleteInv
<1>2. /\ TypeOK /\ NoLostReply /\ ChannelInv /\ (FlagInv /\ ModeInv)
      /\ (FreshInv /\ CompleteInv) /\ [Next]_vars
      => (FreshInv /\ CompleteInv)'
  <2>. SUFFICES ASSUME TypeOK, NoLostReply, ChannelInv, FlagInv, ModeInv, FreshInv,
                       CompleteInv, [Next]_vars
                PROVE  FreshInv' /\ CompleteInv'
    OBVIOUS
  <2>1. FreshInv'
    BY FreshStep
  <2>2. CASE UNCHANGED <<Forwarded, rxBuf, rxOut, nRx>>
    BY <2>1, <2>2, CompleteFrame
  <2>. QED  BY <2>1, <2>2, CompleteHear, CompleteTake, StreamStep
<1>3. TypeOK /\ CompleteInv => RxComplete
  <2>. SUFFICES ASSUME TypeOK, CompleteInv PROVE RxComplete
    OBVIOUS
  <2>. DEFINE k == Len(Forwarded)  m == Len(rxOut)  u == [i \in 1 .. m |-> rxOut[i].n]
              w == [n \in 1 .. nRx |-> n]
  <2>1. Forwarded \in Seq(Nat) /\ k \in Nat /\ m \in Nat /\ nRx \in Nat /\ k + m = nRx
    BY ForwardedType, LenProperties DEF TypeOK, DevType, CompleteInv
  <2>2. \A i \in 1 .. m : rxOut[i].n \in Nat /\ rxOut[i].n = k + i
    BY <2>1 DEF CompleteInv
  <2>3. u \in Seq(Nat) /\ Len(u) = m /\ \A i \in 1 .. m : u[i] = k + i
    <3>1. u \in Seq(Nat)
      BY <2>1, <2>2, IsASeq
    <3>. QED  BY <2>1, <2>2, <3>1, LenProperties
  <2>4. w \in Seq(Nat) /\ Len(w) = nRx /\ \A i \in 1 .. nRx : w[i] = i
    <3>1. w \in Seq(Nat)
      <4>1. \A n \in 1 .. nRx : n \in Nat
        OBVIOUS
      <4>. QED  BY <2>1, <4>1, IsASeq
    <3>. QED  BY <2>1, <3>1, LenProperties
  <2>5. \A i \in 1 .. k : Forwarded[i] = i
    BY DEF CompleteInv
  <2>. HIDE DEF k, m, u, w
  <2>6. /\ Forwarded \o u \in Seq(Nat) /\ Len(Forwarded \o u) = k + m
        /\ \A i \in 1 .. k + m :
             (Forwarded \o u)[i] = IF i <= k THEN Forwarded[i] ELSE u[i - k]
    BY <2>1, <2>3, ConcatProperties DEF k
  <2>7. ASSUME NEW i \in 1 .. k + m PROVE (Forwarded \o u)[i] = i
    <3>1. CASE i <= k
      BY <2>1, <2>5, <2>6, <3>1
    <3>2. CASE i > k
      <4>1. i - k \in 1 .. m /\ u[i - k] = k + (i - k)
        BY <2>1, <2>3, <3>2
      <4>. QED  BY <2>1, <2>6, <3>2, <4>1
    <3>3. i <= k \/ i > k
      BY <2>1
    <3>. QED  BY <3>1, <3>2, <3>3
  <2>8. Forwarded \o u = w
    <3>1. Len(Forwarded \o u) = Len(w)
      BY <2>1, <2>4, <2>6
    <3>2. \A i \in 1 .. Len(Forwarded \o u) : (Forwarded \o u)[i] = w[i]
      BY <2>1, <2>4, <2>6, <2>7
    <3>. QED  BY <2>4, <2>6, <3>1, <3>2, SeqEqual
  <2>. QED  BY <2>8 DEF RxComplete, Forwarded, u, w, m
<1>4. Spec => [](FlagInv /\ ModeInv)
  BY FormatKept
<1>. QED  BY <1>1, <1>2, <1>3, <1>4, TypeCorrect, ReplyPaired, ChannelKept, PTL DEF Spec
=============================================================================
