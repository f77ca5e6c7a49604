----------------------------- MODULE GsUsbProofs -----------------------------
(***************************************************************************)
(* Theorems about GsUsb, for every capacity, bound, adapter and fault.     *)
(***************************************************************************)
EXTENDS GsUsb, SequenceTheorems, TLAPS

-----------------------------------------------------------------------------
(* The table of calls *)

LEMMA CallTable ==
  /\ Calls = {"host_format", "bt_ext", "bt_const", "dev_config", "features_ext",
              "features", "close0", "reset1", "timing", "ts", "reset2", "start",
              "send", "resend", "close"}
  /\ \A s \in Calls : Request[s] \in Requests
  /\ \A s \in Calls : NextStep[s] \in Calls \cup {"update", "serve"} \cup Over
  /\ \A s \in Calls : OnError(s) \in Calls \cup {"update", "serve"} \cup Over
<1>1. Calls = {"host_format", "bt_ext", "bt_const", "dev_config", "features_ext",
               "features", "close0", "reset1", "timing", "ts", "reset2", "start",
               "send", "resend", "close"}
  BY DEF Calls, Request
<1>2. \A s \in Calls : Request[s] \in Requests
  BY <1>1 DEF Request, Requests
<1>3. \A s \in Calls : NextStep[s] \in Calls \cup {"update", "serve"} \cup Over
  BY <1>1 DEF NextStep, Over
<1>4. \A s \in Calls : OnError(s) \in Calls \cup {"update", "serve"} \cup Over
  BY <1>1, <1>3 DEF OnError, Over
<1>. QED  BY <1>1, <1>2, <1>3, <1>4

LEMMA CommandType ==
  ASSUME CallType, FlagType, NEW s \in Calls
  PROVE  Command(s) \in Commands /\ Command(s).live /\ Command(s).req = Request[s]
<1>1. Request[s] \in Requests
  BY CallTable
<1>2. nTx \in Nat /\ flags \in SUBSET Flags
  BY DEF CallType, FlagType
<1>. QED  BY <1>1, <1>2 DEF Command, Commands

-----------------------------------------------------------------------------
(* Typing *)

LEMMA InitType == Init => TypeOK
<1>. SUFFICES ASSUME Init PROVE TypeOK
  OBVIOUS
<1>1. CallType
  BY CallTable DEF Init, CallType
<1>2. QueueType
  BY CapAssumption DEF Init, QueueType
<1>3. DevType
  BY CapAssumption DEF Init, DevType
<1>4. FlagType
  BY DEF Init, FlagType
<1>5. BoolType
  BY DEF Init, BoolType
<1>. QED  BY <1>1, <1>2, <1>3, <1>4, <1>5 DEF TypeOK

\* Putting into and taking from a bounded channel.
LEMMA Push ==
  ASSUME NEW S, NEW s \in Seq(S), NEW x \in S, NEW n \in Nat, Len(s) < n
  PROVE  Append(s, x) \in Seq(S) /\ Len(Append(s, x)) <= n
BY AppendProperties, LenProperties

LEMMA Pop ==
  ASSUME NEW S, NEW s \in Seq(S), s # <<>>, NEW n \in Nat, Len(s) <= n
  PROVE  Tail(s) \in Seq(S) /\ Len(Tail(s)) <= n /\ Head(s) \in S
BY HeadTailProperties, LenProperties

-----------------------------------------------------------------------------
(* The parser *)

\* The frames a parser out of step finds, and where.
LEMMA FoundAt ==
  ASSUME NEW b \in Seq(Chunks), NEW f \in Found(b)
  PROVE  \E m \in Nat : \E at \in Places(Len(b), m) :
            f = [i \in 1 .. m |-> IF at[i].header THEN b[at[i].chunk].n ELSE 0]
BY BoundAssumption DEF Found

\* The two ways the parser may go.
LEMMA ParsesWays ==
  ASSUME NEW b \in Seq(Chunks), NEW p \in Parses(b)
  PROVE  \/ /\ InStep(b) /\ p.left = <<>>
            /\ p.frames = [i \in 1 .. Len(b) |-> b[i].n]
         \/ /\ ~ InStep(b)
            /\ \E k \in 0 .. Len(b) :
                 /\ p.frames \in Found(SubSeq(b, 1, k))
                 /\ p.left \in {SubSeq(b, k + 1, Len(b)),
                                <<Rest>> \o SubSeq(b, k + 1, Len(b))}
<1>1. CASE InStep(b)
  <2>. DEFINE f == [i \in 1 .. Len(b) |-> b[i].n]
  <2>1. p \in {[frames |-> f, left |-> <<>>]}
    BY <1>1 DEF Parses
  <2>. HIDE DEF f
  <2>2. p.frames = f /\ p.left = <<>>
    BY <2>1
  <2>. QED  BY <1>1, <2>2 DEF f
<1>2. CASE ~ InStep(b)
  <2>. DEFINE tail(k) == SubSeq(b, k + 1, Len(b))
              F(k) == Found(SubSeq(b, 1, k))
              L(k) == {tail(k)} \cup {<<Rest>> \o tail(k) : i \in 1 .. k}
  <2>1. PICK k \in 0 .. Len(b) : p \in [frames : F(k), left : L(k)]
    BY <1>2 DEF Parses
  <2>. HIDE DEF F, L
  <2>2. p.frames \in F(k) /\ p.left \in L(k)
    BY <2>1
  <2>3. p.left \in {tail(k), <<Rest>> \o tail(k)}
    BY <2>2 DEF L
  <2>. QED  BY <1>2, <2>2, <2>3 DEF F
<1>. QED  BY <1>1, <1>2

LEMMA FoundType ==
  ASSUME NEW b \in Seq(Chunks), NEW f \in Found(b)
  PROVE  f \in Seq(Nat)
<1>1. PICK m \in Nat : \E at \in Places(Len(b), m) :
         f = [i \in 1 .. m |-> IF at[i].header THEN b[at[i].chunk].n ELSE 0]
  BY FoundAt
<1>2. PICK at \in Places(Len(b), m) :
         f = [i \in 1 .. m |-> IF at[i].header THEN b[at[i].chunk].n ELSE 0]
  BY <1>1
<1>3. ASSUME NEW i \in 1 .. m
      PROVE  (IF at[i].header THEN b[at[i].chunk].n ELSE 0) \in Nat
  <2>1. at[i].chunk \in 1 .. Len(b)
    BY DEF Places
  <2>2. b[at[i].chunk] \in Chunks
    BY <2>1, ElementOfSeq
  <2>. QED  BY <2>2 DEF Chunks
<1>. QED  BY <1>2, <1>3, IsASeq

LEMMA RestType == Rest \in Chunks
BY DEF Rest, Chunks

\* What the parser makes of a buffer: frame numbers, and a buffer.
LEMMA ParsesType ==
  ASSUME NEW b \in Seq(Chunks), NEW p \in Parses(b)
  PROVE  p.frames \in Seq(Nat) /\ p.left \in Seq(Chunks)
<1>0. Len(b) \in Nat
  BY LenProperties
<1>1. CASE InStep(b)
  <2>1. p.left = <<>> /\ p.frames = [i \in 1 .. Len(b) |-> b[i].n]
    BY <1>1, ParsesWays
  <2>2. ASSUME NEW i \in 1 .. Len(b) PROVE b[i].n \in Nat
    <3>1. b[i] \in Chunks
      BY ElementOfSeq
    <3>. QED  BY <3>1 DEF Chunks
  <2>3. [i \in 1 .. Len(b) |-> b[i].n] \in Seq(Nat)
    BY <1>0, <2>2, IsASeq
  <2>4. <<>> \in Seq(Chunks)
    BY EmptySeq
  <2>. QED  BY <2>1, <2>3, <2>4
<1>2. CASE ~ InStep(b)
  <2>1. PICK k \in 0 .. Len(b) :
           /\ p.frames \in Found(SubSeq(b, 1, k))
           /\ p.left \in {SubSeq(b, k + 1, Len(b)), <<Rest>> \o SubSeq(b, k + 1, Len(b))}
    BY <1>2, ParsesWays
  <2>2. SubSeq(b, 1, k) \in Seq(Chunks) /\ SubSeq(b, k + 1, Len(b)) \in Seq(Chunks)
    BY <1>0, SubSeqProperties
  <2>3. <<Rest>> \in Seq(Chunks)
    BY RestType
  <2>4. <<Rest>> \o SubSeq(b, k + 1, Len(b)) \in Seq(Chunks)
    BY <2>2, <2>3, ConcatProperties
  <2>. QED  BY <2>1, <2>2, <2>4, FoundType
<1>. QED  BY <1>1, <1>2

-----------------------------------------------------------------------------
\* The variables of each part of TypeOK.
LEMMA TypeFrame ==
  ASSUME TypeOK
  PROVE  /\ UNCHANGED callVars => CallType'
         /\ UNCHANGED <<cmdQ, frameQ, held, rxBuf>> => QueueType'
         /\ UNCHANGED <<faults, nRx, onBus, rxOut, rxFailed>> => DevType'
         /\ UNCHANGED <<flags, loopFlags, devFlags>> => FlagType'
         /\ UNCHANGED <<waiting, started, plugged>> => BoolType'
<1>1. UNCHANGED callVars => CallType'
  BY DEF TypeOK, CallType, callVars
<1>2. UNCHANGED <<cmdQ, frameQ, held, rxBuf>> => QueueType'
  BY DEF TypeOK, QueueType
<1>3. UNCHANGED <<faults, nRx, onBus, rxOut, rxFailed>> => DevType'
  BY DEF TypeOK, DevType
<1>4. UNCHANGED <<flags, loopFlags, devFlags>> => FlagType'
  BY DEF TypeOK, FlagType
<1>5. UNCHANGED <<waiting, started, plugged>> => BoolType'
  BY DEF TypeOK, BoolType
<1>. QED  BY <1>1, <1>2, <1>3, <1>4, <1>5

\* Taking the next command keeps the channels typed.
LEMMA TakeCommandType ==
  ASSUME QueueType, cmdQ # <<>>, cmdQ' = Tail(cmdQ), UNCHANGED <<frameQ, held, rxBuf>>
  PROVE  QueueType' /\ Head(cmdQ) \in Commands
BY Pop, CapAssumption DEF QueueType

(***************************************************************************)
(* Every variable keeps its type and the channels and the pool of receive  *)
(* transfers stay within their capacity.                                   *)
(***************************************************************************)
THEOREM TypeCorrect == Spec => []TypeOK
<1>1. TypeOK /\ [Next]_vars => TypeOK'
  <2>. SUFFICES ASSUME TypeOK, [Next]_vars PROVE TypeOK'
    OBVIOUS
  <2>. USE DEF TypeOK
  <2>1. CASE Submit
    <3>1. CallType'
      BY <2>1 DEF Submit, CallType, callVars, loopVars, devVars
    <3>2. QueueType'
      <4>1. Command(step) \in Commands
        BY <2>1, CommandType DEF Submit
      <4>2. Append(cmdQ, Command(step)) \in Seq(Commands) /\ Len(Append(cmdQ, Command(step))) <= CmdCap
        BY <2>1, <4>1, Push, CapAssumption DEF Submit, QueueType
      <4>. QED  BY <2>1, <4>2 DEF Submit, QueueType, loopVars
    <3>3. BoolType'
      BY <2>1 DEF Submit, BoolType, loopVars, devVars
    <3>. QED  BY <2>1, <3>1, <3>2, <3>3, TypeFrame DEF Submit, callVars, loopVars, devVars
  <2>2. CASE SendUpdate
    <3>1. CallType'
      BY <2>2, CallTable DEF SendUpdate, CallType, callVars, loopVars, devVars
    <3>2. QueueType'
      <4>. DEFINE c == [req |-> "update", flags |-> flags, n |-> 0, live |-> FALSE]
      <4>1. c \in Commands
        BY DEF FlagType, Commands, Requests
      <4>. HIDE DEF c
      <4>2. Append(cmdQ, c) \in Seq(Commands) /\ Len(Append(cmdQ, c)) <= CmdCap
        BY <2>2, <4>1, Push, CapAssumption DEF SendUpdate, QueueType
      <4>. QED  BY <2>2, <4>2 DEF SendUpdate, QueueType, loopVars, c
    <3>. QED  BY <2>2, <3>1, <3>2, TypeFrame DEF SendUpdate, callVars, loopVars, devVars
  <2>3. CASE Return
    <3>1. CallType'
      <4>1. step \in Calls
        BY <2>3 DEF Return, CallType
      <4>. QED  BY <2>3, <4>1, CallTable DEF Return, CallType
    <3>2. FlagType'
      BY <2>3 DEF Return, NewFlags, FlagType, Flags, callVars, loopVars, devVars
    <3>3. BoolType'
      BY <2>3 DEF Return, BoolType, loopVars, devVars
    <3>. QED  BY <2>3, <3>1, <3>2, <3>3, TypeFrame DEF Return, callVars, loopVars, devVars
  <2>4. CASE BeginSend
    <3>1. CallType'
      BY <2>4, CallTable DEF BeginSend, CallType, callVars, loopVars, devVars
    <3>. QED  BY <2>4, <3>1, TypeFrame DEF BeginSend, callVars, loopVars, devVars
  <2>5. CASE ReadFrames
    <3>1. CallType'
      BY <2>5, ConcatProperties DEF ReadFrames, CallType, QueueType, callVars, loopVars, devVars
    <3>2. QueueType'
      BY <2>5, EmptySeq, CapAssumption DEF ReadFrames, QueueType, callVars, loopVars, devVars
    <3>. QED  BY <2>5, <3>1, <3>2, TypeFrame DEF ReadFrames, callVars, loopVars, devVars
  <2>6. CASE Shutdown
    <3>1. CallType'
      BY <2>6, CallTable DEF Shutdown, CallType, callVars, loopVars, devVars
    <3>2. QueueType'
      <4>1. ASSUME NEW i \in 1 .. Len(cmdQ)
            PROVE  [cmdQ[i] EXCEPT !.live = FALSE] \in Commands
        <5>1. cmdQ[i] \in Commands
          BY ElementOfSeq DEF QueueType
        <5>. QED  BY <5>1 DEF Commands
      <4>2. Len(cmdQ) \in Nat /\ DOMAIN cmdQ' = 1 .. Len(cmdQ)
        BY <2>6, LenProperties DEF Shutdown, QueueType
      <4>3. cmdQ' \in Seq(Commands)
        BY <2>6, <4>1, <4>2, IsASeq DEF Shutdown
      <4>4. Len(cmdQ') = Len(cmdQ)
        BY <4>2, <4>3, LenProperties
      <4>. QED  BY <2>6, <4>3, <4>4 DEF Shutdown, QueueType, loopVars
    <3>3. BoolType'
      BY <2>6 DEF Shutdown, BoolType, loopVars, devVars
    <3>. QED  BY <2>6, <3>1, <3>2, <3>3, TypeFrame DEF Shutdown, callVars, loopVars, devVars
  <2>7. CASE LoopControl
    <3>1. CallType'
      BY <2>7 DEF LoopControl, CommandReady, CallType, Answer, Outcomes, callVars, loopVars, devVars
    <3>2. QueueType'
      BY <2>7, TakeCommandType DEF LoopControl, CommandReady, callVars, loopVars, devVars
    <3>3. DevType'
      BY <2>7 DEF LoopControl, CommandReady, Transfer, DevType, callVars, loopVars, devVars
    <3>4. FlagType'
      BY <2>7, TakeCommandType DEF LoopControl, CommandReady, Transfer, Apply, FlagType, Flags, callVars, loopVars, devVars
    <3>5. BoolType'
      BY <2>7 DEF LoopControl, CommandReady, Transfer, Apply, BoolType
    <3>. QED  BY <2>7, <3>1, <3>2, <3>3, <3>4, <3>5, TypeFrame DEF LoopControl, CommandReady, callVars, loopVars, devVars
  <2>8. CASE LoopUpdate
    <3>1. QueueType'
      BY <2>8, TakeCommandType DEF LoopUpdate, CommandReady, callVars, loopVars, devVars
    <3>2. FlagType'
      BY <2>8 DEF LoopUpdate, CommandReady, FlagType, Flags, callVars, loopVars, devVars
    <3>. QED  BY <2>8, <3>1, <3>2, TypeFrame DEF LoopUpdate, CommandReady, callVars, loopVars, devVars
  <2>9. CASE LoopBulk
    <3>1. CallType'
      BY <2>9 DEF LoopBulk, CommandReady, CallType, Answer, Outcomes, callVars, loopVars, devVars
    <3>2. QueueType'
      BY <2>9, TakeCommandType DEF LoopBulk, CommandReady, loopVars
    <3>3. DevType'
      <4>1. Head(cmdQ) \in Commands
        BY <2>9, TakeCommandType DEF LoopBulk, CommandReady, loopVars
      <4>2. onBus' = onBus \/ onBus' = Append(onBus, Head(cmdQ).n)
        BY <2>9 DEF LoopBulk, CommandReady, Transmit
      <4>3. onBus' \in Seq(Nat)
        <5>1. Head(cmdQ).n \in Nat /\ onBus \in Seq(Nat)
          BY <4>1 DEF DevType, Commands
        <5>. QED  BY <4>2, <5>1, AppendProperties
      <4>4. faults' \in Nat
        BY <2>9 DEF LoopBulk, CommandReady, DevType
      <4>. QED  BY <2>9, <4>3, <4>4 DEF LoopBulk, CommandReady, DevType
    <3>. QED  BY <2>9, <3>1, <3>2, <3>3, TypeFrame DEF LoopBulk, CommandReady, callVars, loopVars, devVars
  <2>10. CASE LoopStall
    <3>1. CallType'
      BY <2>10 DEF LoopStall, CommandReady, CallType, Answer, Outcomes, callVars, loopVars, devVars
    <3>2. QueueType'
      BY <2>10, TakeCommandType DEF LoopStall, CommandReady, loopVars
    <3>3. DevType'
      <4>1. faults' = faults + 1
        BY <2>10 DEF LoopStall, CommandReady
      <4>. QED  BY <2>10, <4>1 DEF LoopStall, CommandReady, DevType
    <3>4. FlagType'
      BY <2>10 DEF LoopStall, CommandReady, FlagType, callVars, loopVars, devVars
    <3>5. BoolType'
      BY <2>10 DEF LoopStall, CommandReady, BoolType, loopVars
    <3>. QED  BY <2>10, <3>1, <3>2, <3>3, <3>4, <3>5, TypeFrame DEF LoopStall, CommandReady, callVars, loopVars, devVars
  <2>11. CASE LoopReceive
    <3>0. /\ rxOut \in Seq(Chunks) /\ rxOut # <<>> /\ rxBuf \in Seq(Chunks)
          /\ Len(rxOut) \in Nat \ {0} /\ Len(Tail(rxOut)) = Len(rxOut) - 1
          /\ Head(rxOut) \in Chunks /\ Tail(rxOut) \in Seq(Chunks)
      BY <2>11, HeadTailProperties, LenProperties, EmptySeq DEF LoopReceive, DevType, QueueType
    <3>1. QueueType'
      <4>1. PICK p \in Parses(Append(rxBuf, Head(rxOut))) :
               held' = p.frames /\ rxBuf' = p.left
        BY <2>11 DEF LoopReceive
      <4>2. Append(rxBuf, Head(rxOut)) \in Seq(Chunks)
        BY <3>0, AppendProperties
      <4>3. p.frames \in Seq(Nat) /\ p.left \in Seq(Chunks)
        BY <4>2, ParsesType
      <4>. QED  BY <2>11, <4>1, <4>3 DEF LoopReceive, QueueType
    <3>2. DevType'
      BY <2>11, <3>0, CapAssumption DEF LoopReceive, DevType, devVars
    <3>. QED  BY <2>11, <3>1, <3>2, TypeFrame DEF LoopReceive, callVars, loopVars, devVars
  <2>12. CASE LoopPush
    <3>1. QueueType'
      <4>1. Tail(held) \in Seq(Nat) /\ Head(held) \in Nat
        BY <2>12, HeadTailProperties DEF LoopPush, QueueType
      <4>2. Append(frameQ, Head(held)) \in Seq(Nat) /\ Len(Append(frameQ, Head(held))) <= FrameCap
        BY <2>12, <4>1, Push, CapAssumption DEF LoopPush, QueueType
      <4>. QED  BY <2>12, <4>1, <4>2 DEF LoopPush, QueueType
    <3>. QED  BY <2>12, <3>1, TypeFrame DEF LoopPush, callVars, loopVars, devVars
  <2>13. CASE Hear
    <3>1. DevType'
      <4>1. [n |-> nRx + 1, flags |-> devFlags] \in Chunks
        BY AdapterAssumption DEF DevType, FlagType, Chunks
      <4>2. rxOut' \in Seq(Chunks) /\ Len(rxOut') = Len(rxOut) + 1
        BY <2>13, <4>1, AppendProperties, LenProperties DEF Hear, DevType
      <4>3. Len(rxOut) \in Nat /\ Len(rxOut) + rxFailed < NumRx
        BY <2>13, LenProperties DEF Hear, DevType
      <4>. QED  BY <2>13, <4>2, <4>3, CapAssumption DEF Hear, DevType, devVars
    <3>. QED  BY <2>13, <3>1, TypeFrame DEF Hear, callVars, loopVars, devVars
  <2>14. CASE Unplug
    <3>1. DevType'
      BY <2>14 DEF Unplug, DevType, callVars, loopVars, devVars
    <3>2. BoolType'
      <4>1. plugged' = FALSE
        BY <2>14 DEF Unplug
      <4>. QED  BY <2>14, <4>1 DEF Unplug, BoolType, callVars, loopVars, devVars
    <3>. QED  BY <2>14, <3>1, <3>2, TypeFrame DEF Unplug, callVars, loopVars, devVars
  <2>15. CASE LoopReceiveError
    <3>1. DevType'
      <4>1. Len(rxOut) \in Nat
        BY LenProperties DEF DevType
      <4>. QED  BY <2>15, <4>1, CapAssumption DEF LoopReceiveError, DevType
    <3>. QED  BY <2>15, <3>1, TypeFrame DEF LoopReceiveError, callVars, loopVars
  <2>16. CASE ReceiveFails
    <3>1. DevType'
      <4>1. Len(rxOut) \in Nat
        BY LenProperties DEF DevType
      <4>. QED  BY <2>16, <4>1, CapAssumption DEF ReceiveFails, DevType
    <3>. QED  BY <2>16, <3>1, TypeFrame DEF ReceiveFails, callVars, loopVars
  <2>17. CASE UNCHANGED vars
    BY <2>17, TypeFrame DEF vars, callVars, loopVars, devVars
  <2>. QED
    BY <2>1, <2>2, <2>3, <2>4, <2>5, <2>6, <2>7, <2>8, <2>9, <2>10, <2>11, <2>12, <2>13, <2>14, <2>15, <2>16, <2>17
    DEF Next, CallerStep, LoopCommand, Environment, Gone
<1>. QED  BY InitType, <1>1, PTL DEF Spec

-----------------------------------------------------------------------------
(* Requests and replies *)

\* What the frame of NoLostReply reads.
LEMMA ReplyFrame ==
  ASSUME NoLostReply, UNCHANGED <<waiting, reply, step, cmdQ>>
  PROVE  NoLostReply'
BY DEF NoLostReply, Live

\* No call makes the request that has no reply.
LEMMA NoCallUpdates == \A s \in Calls : Request[s] # "update"
BY CallTable DEF Request

\* Putting a command in the channel.
LEMMA PutLive ==
  ASSUME QueueType, NEW c \in Commands, cmdQ' = Append(cmdQ, c)
  PROVE  /\ Len(cmdQ') = Len(cmdQ) + 1 /\ cmdQ'[Len(cmdQ')] = c /\ cmdQ' # <<>>
         /\ Live = {} => Live' = IF c.live THEN {Len(cmdQ')} ELSE {}
<1>1. /\ Len(cmdQ) \in Nat /\ Len(cmdQ') = Len(cmdQ) + 1
      /\ \A i \in 1 .. Len(cmdQ) : cmdQ'[i] = cmdQ[i]
      /\ cmdQ'[Len(cmdQ) + 1] = c
  BY AppendProperties, LenProperties DEF QueueType
<1>2. cmdQ' # <<>>
  BY <1>1, EmptySeq
<1>3. ASSUME Live = {} PROVE Live' = IF c.live THEN {Len(cmdQ')} ELSE {}
  <2>1. \A i \in 1 .. Len(cmdQ) : ~ cmdQ[i].live
    BY <1>3 DEF Live
  <2>2. \A i \in 1 .. Len(cmdQ') :
          cmdQ'[i].live <=> i = Len(cmdQ') /\ c.live
    BY <1>1, <2>1
  <2>. QED  BY <1>1, <2>2 DEF Live
<1>. QED  BY <1>1, <1>2, <1>3

LEMMA Shifted ==
  ASSUME NEW m \in Nat \ {0}, NEW L, NEW M, M \subseteq Nat,
         \A i \in Nat : i \in M <=> i \in 1 .. (m - 1) /\ i + 1 \in L
  PROVE  /\ L = {} => M = {}
         /\ L = {m} => M = IF m = 1 THEN {} ELSE {m - 1}
<1>1. L = {} => M = {}
  OBVIOUS
<1>2. ASSUME L = {m} PROVE M = IF m = 1 THEN {} ELSE {m - 1}
  <2>1. \A i \in Nat : i \in M <=> i = m - 1 /\ m # 1
    BY <1>2
  <2>2. CASE m = 1
    BY <2>1, <2>2
  <2>3. CASE m # 1
    <3>1. m - 1 \in M
      BY <2>1, <2>3
    <3>2. \A i \in M : i = m - 1
      BY <2>1
    <3>. QED  BY <2>3, <3>1, <3>2
  <2>. QED  BY <2>2, <2>3
<1>. QED  BY <1>1, <1>2

\* Taking a command out of the channel.
LEMMA TakeLive ==
  ASSUME QueueType, cmdQ # <<>>, cmdQ' = Tail(cmdQ)
  PROVE  /\ Len(cmdQ) \in Nat \ {0} /\ Head(cmdQ) = cmdQ[1]
         /\ Head(cmdQ).live <=> 1 \in Live
         /\ Live = {} => Live' = {}
         /\ Live = {Len(cmdQ)} => Live' = IF Len(cmdQ) = 1 THEN {} ELSE {Len(cmdQ')}
         /\ Len(cmdQ) # 1 => cmdQ' # <<>> /\ cmdQ'[Len(cmdQ')] = cmdQ[Len(cmdQ)]
<1>1. /\ Len(cmdQ) \in Nat \ {0} /\ Len(cmdQ') = Len(cmdQ) - 1
      /\ Head(cmdQ) = cmdQ[1]
      /\ \A i \in 1 .. Len(cmdQ') : cmdQ'[i] = cmdQ[i + 1]
  BY HeadTailProperties, LenProperties, EmptySeq DEF QueueType
<1>2. \A i \in Nat : i \in Live' <=> i \in 1 .. (Len(cmdQ) - 1) /\ i + 1 \in Live
  BY <1>1 DEF Live
<1>3. Live' \subseteq Nat
  BY <1>1 DEF Live
<1>4. Head(cmdQ).live <=> 1 \in Live
  BY <1>1 DEF Live
<1>5. /\ Live = {} => Live' = {}
      /\ Live = {Len(cmdQ)} => Live' = IF Len(cmdQ) = 1 THEN {} ELSE {Len(cmdQ) - 1}
  BY <1>1, <1>2, <1>3, Shifted
<1>6. ASSUME Len(cmdQ) # 1
      PROVE  cmdQ' # <<>> /\ cmdQ'[Len(cmdQ')] = cmdQ[Len(cmdQ)]
  BY <1>1, <1>6, EmptySeq
<1>. QED  BY <1>1, <1>4, <1>5, <1>6

\* The event loop takes a command and answers it if somebody waits for it.
LEMMA TakeReply ==
  ASSUME TypeOK, NoLostReply, cmdQ # <<>>, cmdQ' = Tail(cmdQ),
         UNCHANGED <<waiting, step>>, NEW r, r # None,
         reply' = IF Head(cmdQ).live THEN r ELSE reply
  PROVE  NoLostReply'
<1>. USE DEF TypeOK
<1>1. /\ Len(cmdQ) \in Nat \ {0}
      /\ Head(cmdQ).live <=> 1 \in Live
      /\ Live = {} => Live' = {}
      /\ Live = {Len(cmdQ)} => Live' = IF Len(cmdQ) = 1 THEN {} ELSE {Len(cmdQ')}
      /\ Len(cmdQ) # 1 => cmdQ' # <<>> /\ cmdQ'[Len(cmdQ')] = cmdQ[Len(cmdQ)]
  BY TakeLive
<1>2. CASE Head(cmdQ).live
  <2>1. waiting /\ reply = None /\ Live = {Len(cmdQ)}
    BY <1>1, <1>2 DEF NoLostReply, BoolType
  <2>2. Live' = {}
    BY <1>1, <1>2, <2>1
  <2>. QED  BY <1>2, <2>1, <2>2 DEF NoLostReply
<1>3. CASE ~ Head(cmdQ).live
  <2>1. reply' = reply
    BY <1>3
  <2>2. CASE Live = {}
    <3>1. Live' = {}
      BY <1>1, <2>2
    <3>2. ~ (waiting /\ reply = None)
      BY <2>2 DEF NoLostReply
    <3>. QED  BY <2>1, <3>1, <3>2, <2>2 DEF NoLostReply
  <2>3. CASE Live # {}
    <3>1. /\ waiting /\ reply = None /\ Live = {Len(cmdQ)}
          /\ cmdQ[Len(cmdQ)].req = Request[step]
      BY <2>3 DEF NoLostReply
    <3>2. Len(cmdQ) # 1
      BY <1>1, <1>3, <3>1
    <3>3. /\ Live' = {Len(cmdQ')} /\ cmdQ' # <<>>
          /\ cmdQ'[Len(cmdQ')] = cmdQ[Len(cmdQ)]
      BY <1>1, <3>1, <3>2
    <3>. QED  BY <2>1, <3>1, <3>3 DEF NoLostReply
  <2>. QED  BY <2>2, <2>3
<1>. QED  BY <1>2, <1>3

(***************************************************************************)
(* The oneshot replies never cross: whatever fails, stalls, times out or   *)
(* is dropped at shutdown, a waiting call gets the reply of its own        *)
(* command, and only that one is still to come.                            *)
(***************************************************************************)
THEOREM ReplyPaired == Spec => []NoLostReply
<1>1. Init => NoLostReply
  <2>. SUFFICES ASSUME Init PROVE NoLostReply
    OBVIOUS
  <2>1. Len(cmdQ) = 0 /\ ~ waiting /\ reply = None
    BY EmptySeq DEF Init
  <2>2. Live = {}
    BY <2>1 DEF Live
  <2>. QED  BY <2>1, <2>2 DEF NoLostReply
<1>2. TypeOK /\ NoLostReply /\ [Next]_vars => NoLostReply'
  <2>. SUFFICES ASSUME TypeOK, NoLostReply, [Next]_vars PROVE NoLostReply'
    OBVIOUS
  <2>. USE DEF TypeOK
  <2>1. CASE Submit
    <3>1. step \in Calls /\ ~ waiting /\ Live = {} /\ reply = None
      BY <2>1 DEF Submit, NoLostReply
    <3>2. /\ Command(step) \in Commands /\ Command(step).live
          /\ Command(step).req = Request[step]
      BY <3>1, CommandType
    <3>. DEFINE c == Command(step)
    <3>3. cmdQ' = Append(cmdQ, c) /\ waiting' /\ reply' = None /\ step' = step
      BY <2>1, <3>1 DEF Submit
    <3>. HIDE DEF c
    <3>4. cmdQ'[Len(cmdQ')] = c /\ cmdQ' # <<>> /\ Live' = {Len(cmdQ')}
      BY <3>1, <3>2, <3>3, PutLive DEF c
    <3>5. c.req = Request[step]
      BY <3>2 DEF c
    <3>. QED  BY <3>3, <3>4, <3>5 DEF NoLostReply
  <2>2. CASE SendUpdate
    <3>1. ~ waiting /\ Live = {} /\ reply = None
      BY <2>2, CallTable DEF SendUpdate, CallType, NoLostReply
    <3>. DEFINE c == [req |-> "update", flags |-> flags, n |-> 0, live |-> FALSE]
    <3>2. c \in Commands /\ ~ c.live
      BY DEF FlagType, Commands, Requests
    <3>3. cmdQ' = Append(cmdQ, c) /\ ~ waiting' /\ reply' = None
      BY <2>2, <3>1 DEF SendUpdate
    <3>. HIDE DEF c
    <3>4. Live' = {}
      BY <3>1, <3>2, <3>3, PutLive
    <3>. QED  BY <3>3, <3>4 DEF NoLostReply
  <2>3. CASE Return
    <3>1. Live = {}
      BY <2>3 DEF Return, NoLostReply
    <3>2. ~ waiting' /\ reply' = None /\ cmdQ' = cmdQ
      BY <2>3 DEF Return
    <3>3. Live' = {}
      BY <3>1, <3>2 DEF Live
    <3>. QED  BY <3>2, <3>3 DEF NoLostReply
  <2>4. CASE BeginSend
    <3>1. ~ waiting /\ Live = {} /\ reply = None
      BY <2>4, CallTable DEF BeginSend, CallType, NoLostReply
    <3>2. ~ waiting' /\ reply' = None /\ cmdQ' = cmdQ
      BY <2>4, <3>1 DEF BeginSend
    <3>3. Live' = {}
      BY <3>1, <3>2 DEF Live
    <3>. QED  BY <3>2, <3>3 DEF NoLostReply
  <2>5. CASE ReadFrames
    BY <2>5, ReplyFrame DEF ReadFrames
  <2>6. CASE Shutdown
    <3>1. ~ waiting' /\ reply' = None
      BY <2>6 DEF Shutdown
    <3>2. cmdQ' = [i \in 1 .. Len(cmdQ) |-> [cmdQ[i] EXCEPT !.live = FALSE]]
      BY <2>6 DEF Shutdown
    <3>3. ASSUME NEW i \in 1 .. Len(cmdQ)
          PROVE  [cmdQ[i] EXCEPT !.live = FALSE] \in Commands
                 /\ [cmdQ[i] EXCEPT !.live = FALSE].live = FALSE
      <4>1. cmdQ[i] \in Commands
        BY ElementOfSeq DEF QueueType
      <4>. QED  BY <4>1 DEF Commands
    <3>4. Len(cmdQ) \in Nat
      BY LenProperties DEF QueueType
    <3>5. cmdQ' \in Seq(Commands)
      BY <3>2, <3>3, <3>4, IsASeq
    <3>6. DOMAIN cmdQ' = 1 .. Len(cmdQ) /\ DOMAIN cmdQ' = 1 .. Len(cmdQ')
      BY <3>2, <3>5, LenProperties
    <3>7. \A i \in 1 .. Len(cmdQ') : ~ cmdQ'[i].live
      BY <3>2, <3>3, <3>6
    <3>8. Live' = {}
      BY <3>7 DEF Live
    <3>. QED  BY <3>1, <3>8 DEF NoLostReply
  <2>7. CASE LoopControl
    <3>1. PICK r \in {"ok", "err", "gone"} : Answer(Head(cmdQ), r)
      BY <2>7 DEF LoopControl, CommandReady
    <3>2. r # None
      BY DEF None
    <3>. QED  BY <2>7, <3>1, <3>2, TakeReply DEF LoopControl, CommandReady, Answer
  <2>8. CASE LoopUpdate
    <3>1. cmdQ # <<>> /\ Head(cmdQ).req = "update" /\ cmdQ' = Tail(cmdQ)
          /\ UNCHANGED <<waiting, step, reply>>
      BY <2>8 DEF LoopUpdate, CommandReady, callVars
    <3>2. ~ Head(cmdQ).live
      <4>1. SUFFICES ASSUME Head(cmdQ).live PROVE FALSE
        OBVIOUS
      <4>2. Len(cmdQ) \in Nat \ {0} /\ Head(cmdQ) = cmdQ[1]
        BY <3>1, TakeLive
      <4>3. 1 \in Live
        BY <4>1, <4>2 DEF Live
      <4>4. waiting /\ Live = {Len(cmdQ)} /\ cmdQ[Len(cmdQ)].req = Request[step]
        BY <4>3 DEF NoLostReply
      <4>5. Request[step] = "update" /\ step \in Calls
        BY <3>1, <4>2, <4>3, <4>4 DEF CallType
      <4>. QED  BY <4>5, NoCallUpdates
    <3>3. "ok" # None /\ reply' = IF Head(cmdQ).live THEN "ok" ELSE reply
      BY <3>1, <3>2 DEF None
    <3>. QED  BY <3>1, <3>3, TakeReply
  <2>9. CASE LoopBulk
    <3>1. PICK r \in {"ok", "timeout", "gone"} : Answer(Head(cmdQ), r)
      BY <2>9 DEF LoopBulk, CommandReady
    <3>2. r # None
      BY DEF None
    <3>. QED  BY <2>9, <3>1, <3>2, TakeReply DEF LoopBulk, CommandReady, Answer
  <2>10. CASE LoopStall
    <3>1. PICK r \in {"stall", "err"} : Answer(Head(cmdQ), r)
      BY <2>10 DEF LoopStall, CommandReady
    <3>2. r # None
      BY DEF None
    <3>. QED  BY <2>10, <3>1, <3>2, TakeReply DEF LoopStall, CommandReady, Answer
  <2>11. CASE LoopReceive
    BY <2>11, ReplyFrame DEF LoopReceive, callVars
  <2>12. CASE LoopPush
    BY <2>12, ReplyFrame DEF LoopPush, callVars
  <2>13. CASE Hear
    BY <2>13, ReplyFrame DEF Hear, callVars
  <2>14. CASE Unplug
    BY <2>14, ReplyFrame DEF Unplug, callVars
  <2>15. CASE LoopReceiveError \/ ReceiveFails
    BY <2>15, ReplyFrame DEF LoopReceiveError, ReceiveFails, callVars
  <2>16. CASE UNCHANGED vars
    BY <2>16, ReplyFrame DEF vars, callVars
  <2>. QED
    BY <2>1, <2>2, <2>3, <2>4, <2>5, <2>6, <2>7, <2>8, <2>9, <2>10, <2>11, <2>12, <2>13, <2>14, <2>15, <2>16
    DEF Next, CallerStep, LoopCommand, Environment, Gone
<1>. QED  BY <1>1, <1>2, TypeCorrect, PTL DEF Spec
=============================================================================
