----------------------------- MODULE DriversProofs -----------------------------
(***************************************************************************)
(* Theorems about the drivers of the server from their set-up to their     *)
(* close: the resources, the choice of a device and the bit timing of      *)
(* GsUsbOpen, the frames of Pcan.  Each holds of every behaviour of Edges, *)
(* which follows one of them.                                              *)
(***************************************************************************)
EXTENDS Edges, SequenceLemmas

-----------------------------------------------------------------------------
(* The resources of gs_usb, for every number of receive transfers *)

\* Until the event loop runs, who holds the device handle depends on how far
\* the caller has got.
Early == {"start", "select", "notfound", "claim"}

HandOver ==
  /\ ostep \in Early => lpc = "none"
  /\ lpc \in {"none", "begin", "run"} => dropping = U!NoOne
  /\ ostep \in {"start", "select", "notfound"} => handleRefs = {}
  /\ ostep = "claim" \/ lpc = "begin" => handleRefs = {U!Handle}
  /\ lpc = "run" => handleRefs = U!Clones
  /\ ostep \in {"select", "notfound", "claim"} => U!OpenScope \in ctxRefs

\* A handle that is not being dropped is an owner of the context, and the
\* context is stopped by its last owner only.
Owners ==
  /\ handleRefs \subseteq U!Clones
  /\ handleRefs \ {dropping} \subseteq ctxRefs
  /\ ctxRefs # {} => ctx = "live"

\* The context is released once its thread has ended, and there is one only.
EventsEnd ==
  /\ ctx = "exited" => evt = "ended"
  /\ ostep = "start" => ctx = "none"

\* The callback, not the future, frees the buffer of a transfer.
Buffers ==
  /\ xfer \in [U!Futures -> {"none", "new", "flight", "done"}]
  /\ \A i \in U!Futures : xfer[i] = "flight" => i \in bufs

Resources == HandOver /\ Owners /\ EventsEnd /\ Buffers

-----------------------------------------------------------------------------
\* No owner is mistaken for another or for nobody.
LEMMA OwnersApart ==
  /\ U!NoOne \notin U!Clones /\ U!OpenScope \notin U!Clones
  /\ U!Handle \in U!Clones /\ U!Handle # U!NoOne
BY LibraryAssumption DEF U!NoOne, U!Clones, U!OpenScope, U!Handle, U!ReadHandle, U!Futures

LEMMA InitResources == U!Init \/ U!Unused => Resources
BY DEF U!Init, U!Unused, U!Idle, Resources, HandOver, Owners, EventsEnd, Buffers, Early

\* What each part reads.
LEMMA HandOverFrame ==
  ASSUME HandOver, UNCHANGED <<ostep, lpc, dropping, handleRefs, ctxRefs>>
  PROVE  HandOver'
BY DEF HandOver, Early, U!OpenScope

LEMMA OwnersFrame ==
  ASSUME Owners, UNCHANGED <<dropping, handleRefs, ctxRefs, ctx>>
  PROVE  Owners'
BY DEF Owners

LEMMA EventsEndFrame ==
  ASSUME EventsEnd, UNCHANGED <<ctx, evt>>, ostep' = "start" => ostep = "start"
  PROVE  EventsEnd'
BY DEF EventsEnd

LEMMA BuffersFrame ==
  ASSUME Buffers, UNCHANGED <<xfer, bufs>>
  PROVE  Buffers'
BY DEF Buffers

-----------------------------------------------------------------------------
\* Who owns the handle while it is handed from the caller to the event loop,
\* and from one clone to the next.
LEMMA HandOverStep ==
  ASSUME Resources, U!Next
  PROVE  HandOver'
<1>. USE DEF Resources, HandOver, Early
<1>1. CASE U!NewContext
  BY <1>1 DEF U!NewContext
<1>2. CASE U!Look
  <2>1. CASE ostep' = "notfound" /\ UNCHANGED U!refVars
    BY <1>2, <2>1 DEF U!Look, U!refVars
  <2>2. CASE /\ ostep' = "claim"
             /\ ctxRefs' = ctxRefs \cup {U!Handle} /\ handleRefs' = {U!Handle}
    <3>1. UNCHANGED <<lpc, dropping>> /\ ostep = "select"
      BY <1>2 DEF U!Look
    <3>2. U!OpenScope' = U!OpenScope /\ U!Handle' = U!Handle /\ U!NoOne' = U!NoOne
      BY DEF U!OpenScope, U!Handle, U!NoOne
    <3>. QED  BY <2>2, <3>1, <3>2
  <2>3. CASE UNCHANGED ostep /\ UNCHANGED U!refVars
    BY <1>2, <2>3, HandOverFrame DEF U!Look, U!refVars
  <2>. QED  BY <1>2, <2>1, <2>2, <2>3 DEF U!Look
<1>3. CASE U!NoDevice
  BY <1>3 DEF U!NoDevice, U!selVars, U!refVars
<1>4. CASE U!GiveUp
  BY <1>4 DEF U!GiveUp
<1>5. CASE U!Spawn
  BY <1>5 DEF U!Spawn, U!refVars
<1>6. CASE U!Handshake \/ U!SetBitrate \/ U!DropDriver \/ U!Exit
  BY <1>6 DEF U!Handshake, U!SetBitrate, U!DropDriver, U!Exit, U!selVars, U!refVars
<1>7. CASE U!Leave
  BY <1>7 DEF U!Leave, U!Release, U!selVars
<1>8. CASE U!LoopBegin
  BY <1>8 DEF U!LoopBegin, U!Over
<1>9. CASE U!LoopEnd
  BY <1>9 DEF U!LoopEnd, U!refVars
<1>10. CASE U!LoopDropContext
  BY <1>10 DEF U!LoopDropContext, U!Release
<1>11. CASE U!LoopDropHandle
  BY <1>11 DEF U!LoopDropHandle
<1>12. CASE U!LoopSubmit \/ U!LoopTake \/ U!Callback \/ U!EventThread \/ U!ContextExit \/ U!Gone
  <2>1. UNCHANGED <<ostep, lpc, dropping, handleRefs, ctxRefs>>
    BY <1>12 DEF U!LoopSubmit, U!LoopTake, U!Callback, U!EventThread, U!ContextExit, U!Gone,
                 U!ovars, usbVars, U!refVars
  <2>. QED  BY <2>1, HandOverFrame
<1>. QED  BY <1>1, <1>2, <1>3, <1>4, <1>5, <1>6, <1>7, <1>8, <1>9, <1>10, <1>11,
             <1>12 DEF U!Next

-----------------------------------------------------------------------------
\* The handle outlives nobody's share of the context but the one being dropped.
LEMMA OwnersStep ==
  ASSUME Resources, U!Next
  PROVE  Owners'
<1>. USE DEF Resources, HandOver, Owners, Early
<1>1. CASE U!NewContext
  BY <1>1 DEF U!NewContext
<1>2. CASE U!Look
  <2>1. CASE UNCHANGED U!refVars
    BY <1>2, <2>1, OwnersFrame DEF U!Look, U!refVars
  <2>2. CASE ctxRefs' = ctxRefs \cup {U!Handle} /\ handleRefs' = {U!Handle}
    BY <1>2, <2>2, OwnersApart DEF U!Look
  <2>. QED  BY <1>2, <2>1, <2>2 DEF U!Look
<1>3. CASE U!GiveUp
  BY <1>3 DEF U!GiveUp
<1>4. CASE U!Leave
  BY <1>4, OwnersApart DEF U!Leave, U!Release
<1>5. CASE U!LoopBegin
  <2>1. ctx = "live"
    BY <1>5, OwnersApart DEF U!LoopBegin
  <2>. QED  BY <1>5, <2>1 DEF U!LoopBegin
<1>6. CASE U!LoopDropContext
  <2>1. PICK c \in U!Clones : U!Droppable(c) /\ dropping' = c /\ U!Release(c)
    BY <1>6 DEF U!LoopDropContext
  <2>2. handleRefs \subseteq ctxRefs /\ handleRefs' = handleRefs
    BY <1>6, OwnersApart DEF U!LoopDropContext
  <2>. QED  BY <2>1, <2>2 DEF U!Release
<1>7. CASE U!LoopDropHandle
  BY <1>7 DEF U!LoopDropHandle
<1>8. CASE U!ContextExit
  BY <1>8 DEF U!ContextExit, U!Stopping, U!refVars
<1>9. CASE U!NoDevice \/ U!Spawn \/ U!Handshake \/ U!SetBitrate \/ U!DropDriver \/ U!Exit
           \/ U!LoopSubmit \/ U!LoopTake \/ U!LoopEnd \/ U!Callback \/ U!EventThread \/ U!Gone
  <2>1. UNCHANGED <<dropping, handleRefs, ctxRefs, ctx>>
    BY <1>9 DEF U!NoDevice, U!Spawn, U!Handshake, U!SetBitrate, U!DropDriver, U!Exit, U!LoopSubmit,
                U!LoopTake, U!LoopEnd, U!Callback, U!EventThread, U!Gone, U!ovars, usbVars, U!refVars
  <2>. QED  BY <2>1, OwnersFrame
<1>. QED  BY <1>1, <1>2, <1>3, <1>4, <1>5, <1>6, <1>7, <1>8, <1>9 DEF U!Next

-----------------------------------------------------------------------------
\* The thread of the context ends before the context.
LEMMA EventsEndStep ==
  ASSUME Resources, U!Next
  PROVE  EventsEnd'
<1>. USE DEF Resources, EventsEnd
<1>1. CASE U!NewContext
  BY <1>1 DEF U!NewContext
<1>2. CASE U!Leave
  BY <1>2 DEF U!Leave, U!Release, Owners
<1>3. CASE U!LoopDropContext
  BY <1>3 DEF U!LoopDropContext, U!Release, Owners
<1>4. CASE U!EventThread
  BY <1>4 DEF U!EventThread
<1>5. CASE U!ContextExit
  BY <1>5 DEF U!ContextExit, U!Stopping
<1>6. CASE U!Look \/ U!NoDevice \/ U!GiveUp \/ U!Spawn \/ U!Handshake \/ U!SetBitrate \/ U!DropDriver
           \/ U!Exit \/ U!LoopBegin \/ U!LoopSubmit \/ U!LoopTake \/ U!LoopEnd \/ U!LoopDropHandle
           \/ U!Callback \/ U!Gone
  <2>1. UNCHANGED <<ctx, evt>> /\ (ostep' = "start" => ostep = "start")
    BY <1>6 DEF U!Look, U!NoDevice, U!GiveUp, U!Spawn, U!Handshake, U!SetBitrate, U!DropDriver, U!Exit,
                U!LoopBegin, U!LoopSubmit, U!LoopTake, U!LoopEnd, U!LoopDropHandle, U!Callback,
                U!Gone, U!ovars, usbVars
  <2>. QED  BY <2>1, EventsEndFrame
<1>. QED  BY <1>1, <1>2, <1>3, <1>4, <1>5, <1>6 DEF U!Next

\* A transfer in flight keeps its buffer.
LEMMA BuffersStep ==
  ASSUME Resources, U!Next
  PROVE  Buffers'
<1>. USE DEF Resources, Buffers
<1>1. CASE U!LoopBegin
  BY <1>1 DEF U!LoopBegin
<1>2. CASE U!LoopSubmit
  BY <1>2 DEF U!LoopSubmit
<1>3. CASE U!LoopTake
  BY <1>3 DEF U!LoopTake
<1>4. CASE U!Callback
  BY <1>4 DEF U!Callback
<1>5. CASE U!NewContext \/ U!Look \/ U!NoDevice \/ U!GiveUp \/ U!Spawn \/ U!Handshake \/ U!Leave
           \/ U!SetBitrate \/ U!DropDriver \/ U!Exit \/ U!LoopEnd \/ U!LoopDropContext
           \/ U!LoopDropHandle \/ U!EventThread \/ U!ContextExit \/ U!Gone
  <2>1. UNCHANGED <<xfer, bufs>>
    BY <1>5 DEF U!NewContext, U!Look, U!NoDevice, U!GiveUp, U!Spawn, U!Handshake, U!Leave, U!SetBitrate,
                U!DropDriver, U!Exit, U!LoopEnd, U!LoopDropContext, U!LoopDropHandle, U!EventThread,
                U!ContextExit, U!Gone, U!ovars, usbVars
  <2>. QED  BY <2>1, BuffersFrame
<1>. QED  BY <1>1, <1>2, <1>3, <1>4, <1>5 DEF U!Next

LEMMA ResourcesStep ==
  ASSUME Resources, [U!Next]_usbVars
  PROVE  Resources'
<1>1. CASE U!Next
  BY <1>1, HandOverStep, OwnersStep, EventsEndStep, BuffersStep DEF Resources
<1>2. CASE UNCHANGED usbVars
  BY <1>2, HandOverFrame, OwnersFrame, EventsEndFrame, BuffersFrame
     DEF Resources, U!ovars, usbVars, U!refVars
<1>. QED  BY <1>1, <1>2

-----------------------------------------------------------------------------
(* Whichever part a behaviour looks at, gs_usb is used or left alone. *)

LEMMA InitEdges == EdgesInit => Resources
BY InitResources DEF EdgesInit, InitializeDriver, NoDriver

LEMMA EdgesStepsUsb ==
  ASSUME [DriverStep \/ InStep \/ OutStep]_edgeVars
  PROVE  [U!Next]_usbVars
<1>1. CASE DriverStep
  BY <1>1 DEF DriverStep, DriversNext, SlcanStep, PcanStep, GsUsbStep
<1>2. CASE InStep \/ OutStep \/ UNCHANGED edgeVars
  BY <1>2 DEF InStep, OutStep, edgeVars, allVars
<1>. QED  BY <1>1, <1>2

(***************************************************************************)
(* No event is handled on a context after libusb_exit; a device handle     *)
(* that is not being dropped has its context live; and no transfer in      *)
(* flight writes to freed memory, in whatever order the three threads drop *)
(* their shares (context.rs:95-137).  The handle being dropped is left to  *)
(* ClosedAfterExit: its context may be gone.                               *)
(***************************************************************************)
THEOREM ContextSafe == EdgesSpec => []ContextUse
<1>1. Resources /\ [DriverStep \/ InStep \/ OutStep]_edgeVars => Resources'
  BY EdgesStepsUsb, ResourcesStep
<1>2. Resources => ContextUse
  BY DEF Resources, Owners, EventsEnd, Buffers, ContextUse, U!ContextUse
<1>. QED  BY InitEdges, <1>1, <1>2, PTL DEF EdgesSpec

\* Once the context is released the loop is at its end: it holds at most the
\* handle it is dropping, and no other thread has anything left to do.
LEMMA ExitedStep ==
  ASSUME Resources, [U!Next]_usbVars, ctx = "exited"
  PROVE  UNCHANGED <<ctx, evt, ctxRefs, xfer, bufs>> /\ U!LastClose
<1>1. ctxRefs = {} /\ handleRefs \subseteq {dropping} /\ evt = "ended"
  BY DEF Resources, Owners, EventsEnd
<1>2. ostep \notin {"start", "select", "notfound", "claim"} /\ lpc \notin {"begin", "run"}
  BY <1>1, OwnersApart DEF Resources, HandOver, EventsEnd
<1>3. CASE U!LoopDropHandle
  BY <1>1, <1>3 DEF U!LoopDropHandle, U!LastClose
<1>4. CASE U!LoopDropContext
  BY <1>1, <1>4, OwnersApart DEF U!LoopDropContext, U!Droppable
<1>5. CASE U!Next /\ ~ U!LoopDropHandle /\ ~ U!LoopDropContext
  <2>1. UNCHANGED <<ctx, evt, ctxRefs, handleRefs, xfer, bufs>>
    BY <1>1, <1>2, <1>5 DEF U!Next, U!NewContext, U!Look, U!NoDevice, U!GiveUp, U!Spawn,
       U!Handshake, U!Leave, U!SetBitrate, U!DropDriver, U!Exit, U!LoopBegin,
       U!LoopSubmit, U!LoopTake, U!LoopEnd, U!Callback, U!EventThread, U!ContextExit,
       U!Stopping, U!Gone, U!ovars, U!refVars
  <2>. QED  BY <2>1 DEF U!LastClose
<1>6. CASE UNCHANGED usbVars
  BY <1>6 DEF usbVars, U!LastClose
<1>. QED  BY <1>3, <1>4, <1>5, <1>6

(***************************************************************************)
(* After libusb_exit the last handle is closed and nothing else is done    *)
(* with the library, by any of the three threads, whatever was in flight   *)
(* (context.rs:95-137).                                                    *)
(***************************************************************************)
THEOREM ClosedAfterExit == EdgesSpec => AfterExit
<1>1. Resources /\ [DriverStep \/ InStep \/ OutStep]_edgeVars => Resources'
  BY EdgesStepsUsb, ResourcesStep
<1>2. Resources /\ [DriverStep \/ InStep \/ OutStep]_edgeVars
        => [ctx = "exited" =>
              UNCHANGED <<ctx, evt, ctxRefs, xfer, bufs>> /\ U!LastClose]_(U!ovars)
  BY EdgesStepsUsb, ExitedStep
<1>. QED  BY InitEdges, <1>1, <1>2, PTL DEF EdgesSpec, AfterExit, U!AfterExit

-----------------------------------------------------------------------------
(* The choice of a gs_usb device, for every list of devices and identifier *)

\* While the list is looked at, the index is the rank of the next device, and
\* those passed over were neither named nor bad.
Selection ==
  /\ devs \in Seq([kind : {"gs", "bad", "other"}, name : STRING])
  /\ ostep = "start" => index = 0
  /\ ostep = "select" =>
       /\ di \in 1 .. (Len(devs) + 1) /\ index = Cardinality(U!GsBefore(di))
       /\ \A j \in 1 .. (di - 1) : ~ U!Named(j) /\ ~ U!Bad(j)
  /\ ostep = "claim" =>
       /\ chosen \in 1 .. Len(devs) /\ U!Named(chosen)
       /\ \A j \in 1 .. (chosen - 1) : ~ U!Named(j) /\ ~ U!Bad(j)
  /\ ostep = "notfound" =>
       \A j \in 1 .. Len(devs) : U!Named(j) => \E k \in 1 .. (j - 1) : U!Bad(k)

\* The instance counts as FiniteSets does.
LEMMA CountGs == \A S : U!Cardinality(S) = Cardinality(S)
BY DEF U!Cardinality, Cardinality

\* The rank of the next device.
LEMMA RankNext ==
  ASSUME NEW j \in Nat \ {0}
  PROVE  /\ devs[j].kind = "gs" => Cardinality(U!GsBefore(j + 1)) = Cardinality(U!GsBefore(j)) + 1
         /\ devs[j].kind # "gs" => U!GsBefore(j + 1) = U!GsBefore(j)
<1>1. IsFiniteSet(U!GsBefore(j))
  <2>1. IsFiniteSet(1 .. (j - 1))
    BY FS_Interval
  <2>2. U!GsBefore(j) \subseteq 1 .. (j - 1)
    BY DEF U!GsBefore
  <2>. QED  BY <2>1, <2>2, FS_Subset
<1>2. j \notin U!GsBefore(j)
  BY DEF U!GsBefore
<1>3. devs[j].kind = "gs" => U!GsBefore(j + 1) = U!GsBefore(j) \cup {j}
  BY DEF U!GsBefore
<1>4. devs[j].kind # "gs" => U!GsBefore(j + 1) = U!GsBefore(j)
  BY DEF U!GsBefore
<1>. QED  BY <1>1, <1>2, <1>3, <1>4, FS_AddElement

LEMMA InitSelection == U!Init \/ U!Unused => Selection
BY EmptySeq DEF U!Init, U!Unused, U!Idle, Selection

\* What the search reads.
LEMMA SelectionFrame ==
  ASSUME Selection, UNCHANGED U!selVars,
         ostep' \in {"start", "select", "claim", "notfound"} => ostep' = ostep
  PROVE  Selection'
<1>1. UNCHANGED <<devs, ident, di, index, chosen>>
  BY DEF U!selVars
<1>2. \A j : U!Named(j)' = U!Named(j) /\ U!Bad(j)' = U!Bad(j) /\ U!GsBefore(j)' = U!GsBefore(j)
  BY <1>1 DEF U!Named, U!Bad, U!GsBefore, U!Matches
<1>. QED  BY <1>1, <1>2 DEF Selection

LEMMA SelectionStart ==
  ASSUME Selection, U!NewContext
  PROVE  Selection'
<1>1. CASE ostep' = "select"
  <2>1. devs' \in Seq([kind : {"gs", "bad", "other"}, name : STRING]) /\ di' = 1 /\ index' = 0
    BY <1>1, DeviceAssumption DEF U!NewContext, Selection
  <2>2. Len(devs') + 1 \in Nat \ {0}
    BY <2>1, LenProperties
  <2>3. 1 .. (di' - 1) = {}
    BY <2>1
  <2>4. U!GsBefore(di)' = {}
    BY <2>3 DEF U!GsBefore
  <2>5. index' = Cardinality(U!GsBefore(di))'
    BY <2>1, <2>4, FS_EmptySet
  <2>6. di' \in 1 .. (Len(devs') + 1)
    BY <2>1, <2>2
  <2>. QED  BY <1>1, <2>1, <2>3, <2>5, <2>6 DEF Selection
<1>2. CASE ostep' # "select"
  <2>1. ostep' = "failed" /\ devs' = devs
    BY <1>2 DEF U!NewContext
  <2>. QED  BY <2>1 DEF Selection
<1>. QED  BY <1>1, <1>2

LEMMA SelectionLook ==
  ASSUME Selection, U!Look
  PROVE  Selection'
<1>1. /\ ostep = "select" /\ di \in 1 .. Len(devs) /\ Len(devs) \in Nat /\ UNCHANGED <<devs, ident>>
      /\ devs[di] \in [kind : {"gs", "bad", "other"}, name : STRING]
      /\ index = Cardinality(U!GsBefore(di))
      /\ \A j \in 1 .. (di - 1) : ~ U!Named(j) /\ ~ U!Bad(j)
  <2>1. ostep = "select" /\ di <= Len(devs) /\ UNCHANGED <<devs, ident>>
    BY DEF U!Look
  <2>2. /\ devs \in Seq([kind : {"gs", "bad", "other"}, name : STRING])
        /\ di \in 1 .. (Len(devs) + 1) /\ index = Cardinality(U!GsBefore(di))
        /\ \A j \in 1 .. (di - 1) : ~ U!Named(j) /\ ~ U!Bad(j)
    BY <2>1 DEF Selection
  <2>3. Len(devs) \in Nat /\ di \in 1 .. Len(devs)
    BY <2>1, <2>2, LenProperties
  <2>4. devs[di] \in [kind : {"gs", "bad", "other"}, name : STRING]
    BY <2>2, <2>3, ElementOfSeq
  <2>. QED  BY <2>1, <2>2, <2>3, <2>4
<1>2. \A j : U!Named(j)' = U!Named(j) /\ U!Bad(j)' = U!Bad(j) /\ U!GsBefore(j)' = U!GsBefore(j)
  BY <1>1 DEF U!Named, U!Bad, U!GsBefore, U!Matches
<1>0. U!Named(di) <=> devs[di].kind = "gs" /\ U!Matches(devs[di], index)
  <2>1. index = Cardinality(U!GsBefore(di))
    BY <1>1
  <2>. QED  BY <2>1, CountGs DEF U!Named
<1>3. CASE U!Bad(di)
  <2>1. ostep' = "notfound"
    BY <1>3 DEF U!Look, U!Bad
  <2>2. ~ U!Named(di)
    BY <1>3 DEF U!Bad, U!Named
  <2>3. ASSUME NEW j \in 1 .. Len(devs), U!Named(j) PROVE \E k \in 1 .. (j - 1) : U!Bad(k)
    <3>1. j \notin 1 .. (di - 1) /\ j # di
      BY <1>1, <2>2, <2>3
    <3>2. di \in 1 .. (j - 1)
      BY <1>1, <3>1
    <3>. QED  BY <1>3, <3>2
  <2>. QED  BY <1>1, <1>2, <2>1, <2>3 DEF Selection
<1>4. CASE U!Named(di)
  <2>1. ostep' = "claim" /\ chosen' = di
    BY <1>0, <1>1, <1>4 DEF U!Look
  <2>. QED  BY <1>1, <1>2, <1>4, <2>1 DEF Selection
<1>5. CASE ~ U!Bad(di) /\ ~ U!Named(di)
  <2>1. di' = di + 1 /\ ostep' = "select" /\ U!Skip(devs[di])
    BY <1>0, <1>1, <1>5 DEF U!Look, U!Bad
  <2>2. index' = Cardinality(U!GsBefore(di + 1))
    BY <1>1, <2>1, RankNext DEF U!Skip
  <2>3. \A j \in 1 .. di : ~ U!Named(j) /\ ~ U!Bad(j)
    BY <1>1, <1>5
  <2>4. di + 1 \in 1 .. (Len(devs) + 1) /\ (di + 1) - 1 = di
    BY <1>1
  <2>. QED  BY <1>1, <1>2, <2>1, <2>2, <2>3, <2>4 DEF Selection
<1>. QED  BY <1>3, <1>4, <1>5

LEMMA SelectionStep ==
  ASSUME Selection, [U!Next]_usbVars
  PROVE  Selection'
<1>1. CASE U!NoDevice
  <2>1. /\ UNCHANGED U!selVars /\ ostep' = "notfound" /\ Len(devs) \in Nat
        /\ \A j \in 1 .. Len(devs) : ~ U!Named(j)
    BY <1>1, LenProperties DEF U!NoDevice, Selection
  <2>2. \A j : U!Named(j)' = U!Named(j)
    BY <2>1 DEF U!selVars, U!Named, U!GsBefore, U!Matches
  <2>. QED  BY <2>1, <2>2 DEF Selection, U!selVars
<1>2. CASE U!GiveUp \/ U!Spawn
  <2>1. devs' = <<>> /\ ostep' \notin {"start", "select", "claim", "notfound"}
    BY <1>2 DEF U!GiveUp, U!Spawn, U!ForgetList
  <2>. QED  BY <2>1, EmptySeq DEF Selection
<1>3. CASE \/ U!Handshake \/ U!Leave \/ U!SetBitrate \/ U!DropDriver \/ U!Exit
           \/ U!LoopBegin \/ U!LoopSubmit \/ U!LoopTake \/ U!LoopEnd
           \/ U!LoopDropContext \/ U!LoopDropHandle
           \/ U!Callback \/ U!EventThread \/ U!ContextExit \/ U!Gone \/ UNCHANGED usbVars
  <2>1. UNCHANGED U!selVars /\ (ostep' \in {"start", "select", "claim", "notfound"} => ostep' = ostep)
    BY <1>3 DEF U!Handshake, U!Leave, U!SetBitrate, U!DropDriver, U!Exit, U!LoopBegin,
          U!LoopSubmit, U!LoopTake, U!LoopEnd, U!LoopDropContext, U!LoopDropHandle, U!Callback,
          U!EventThread, U!ContextExit, U!Gone, U!ovars, U!selVars, usbVars
  <2>. QED  BY <2>1, SelectionFrame
<1>. QED
  BY <1>1, <1>2, <1>3, SelectionStart, SelectionLook DEF U!Next

(***************************************************************************)
(* The gs_usb device selected is the first that the channel names, by      *)
(* serial or by rank, and one that is named is missed only behind a device *)
(* that cannot be looked at: for every list of devices (device.rs:148-238).*)
(***************************************************************************)
THEOREM FirstSelected == EdgesSpec => []SelectsFirst
<1>1. EdgesInit => Selection
  BY InitSelection DEF EdgesInit, InitializeDriver, NoDriver
<1>2. Selection /\ [DriverStep \/ InStep \/ OutStep]_edgeVars => Selection'
  BY EdgesStepsUsb, SelectionStep
<1>3. Selection => SelectsFirst
  <2>. SUFFICES ASSUME Selection PROVE U!SelectsFirst
    BY DEF SelectsFirst
  <2>1. DOMAIN devs = 1 .. Len(devs)
    BY LenProperties DEF Selection
  <2>2. ostep = "claim" => U!Named(chosen) /\ \A j \in 1 .. (chosen - 1) : ~ U!Named(j) /\ ~ U!Bad(j)
    BY DEF Selection
  <2>3. ostep = "notfound" => \A j \in DOMAIN devs : U!Named(j) => \E k \in 1 .. (j - 1) : U!Bad(k)
    BY <2>1 DEF Selection
  <2>. QED  BY <2>2, <2>3 DEF U!Named, U!Bad, U!GsBefore, U!SelectsFirst
<1>. QED  BY <1>1, <1>2, <1>3, PTL DEF EdgesSpec

-----------------------------------------------------------------------------
(* The frames of PCAN, for every wrap of the milliseconds and every fault *)

Taken == [n : Nat, ts : Nat]
Heard == [n : Nat, millis : Nat, overflow : Nat, micros : Nat]

FrameType ==
  /\ read \in Seq(Taken) /\ lost \in Seq(Taken) /\ batch \in Seq(Taken)
  /\ hwQ \in Seq(Heard) /\ times \in Seq(Nat)

\* The frames of s are those heard after the first k.
Run(s, k) ==
  \A i \in 1 .. Len(s) : s[i].n = k + i /\ s[i].ts = times[k + i]

\* A frame is in one of four places, oldest first, and tells when it was heard.
Places ==
  /\ Len(times) = Len(read) + Len(lost) + Len(batch) + Len(hwQ)
  /\ Run(read, 0)
  /\ Run(lost, Len(read))
  /\ Run(batch, Len(read) + Len(lost))
  /\ \A i \in 1 .. Len(hwQ) :
       LET k == Len(read) + Len(lost) + Len(batch) + i
       IN  hwQ[i].n = k /\ P!Stamp(hwQ[i]) = times[k]

\* Only a call in progress holds frames, and the call that loses some is the last.
Calls ==
  /\ pstep # "reading" => batch = <<>>
  /\ pstep \notin {"closing", "exited"} => lost = <<>>

FrameInv == FrameType /\ Places /\ Calls

-----------------------------------------------------------------------------
(* Numbers *)

\* What the library counts is enough to tell the time.
LEMMA StampOfHeard ==
  ASSUME NEW t \in Nat, NEW n \in Nat
  PROVE  LET ms == t \div Milli
             f  == [n |-> n, millis |-> ms % HwWrap, overflow |-> ms \div HwWrap,
                    micros |-> t % Milli]
         IN  f \in Heard /\ P!Stamp(f) = t
<1>. DEFINE ms == t \div Milli
<1>1. ms \in Nat /\ t % Milli \in Nat /\ ms * Milli + (t % Milli) = t
  BY LibraryAssumption, DivMod
<1>2. /\ ms \div HwWrap \in Nat /\ ms % HwWrap \in Nat
      /\ (ms \div HwWrap) * HwWrap + (ms % HwWrap) = ms
  BY <1>1, LibraryAssumption, DivMod
<1>. HIDE DEF ms
<1>. QED  BY <1>1, <1>2 DEF P!Stamp, Heard, ms

LEMMA StampType ==
  ASSUME NEW f \in Heard
  PROVE  P!Stamp(f) \in Nat
<1>1. f.millis \in Nat /\ f.overflow \in Nat /\ f.micros \in Nat
  BY DEF Heard
<1>2. f.overflow * HwWrap \in Nat
  BY <1>1, LibraryAssumption
<1>3. (f.overflow * HwWrap + f.millis) * Milli \in Nat
  BY <1>1, <1>2, LibraryAssumption
<1>. QED  BY <1>1, <1>3, LibraryAssumption DEF P!Stamp

-----------------------------------------------------------------------------
LEMMA InitFrames == P!Init \/ P!Unused => FrameInv
<1>. SUFFICES ASSUME P!Fresh, pstep # "reading" PROVE FrameInv
  BY DEF P!Init, P!Unused
<1>1. FrameType
  BY DEF P!Fresh, FrameType
<1>2. Places
  BY DEF P!Fresh, Places, Run
<1>3. Calls
  BY DEF P!Fresh, Calls
<1>. QED  BY <1>1, <1>2, <1>3 DEF FrameInv

\* A frame moves from the library to the batch, or to the frames lost.
LEMMA TakeHead ==
  ASSUME FrameInv, hwQ # <<>>,
         pstep = "reading",
         NEW longer, longer = Append(batch, [n |-> Head(hwQ).n, ts |-> P!Stamp(Head(hwQ))])
  PROVE  /\ longer \in Seq(Taken) /\ Tail(hwQ) \in Seq(Heard)
         /\ Len(longer) = Len(batch) + 1 /\ Len(hwQ) = Len(Tail(hwQ)) + 1
         /\ Run(longer, Len(read) + Len(lost))
         /\ \A i \in 1 .. Len(Tail(hwQ)) : Tail(hwQ)[i] = hwQ[i + 1]
<1>. USE DEF FrameInv, FrameType, Places
<1>1. Head(hwQ) \in Heard /\ Head(hwQ) = hwQ[1] /\ Len(hwQ) \in Nat \ {0}
  BY HeadTailProperties, EmptySeq, LenProperties
<1>2. [n |-> Head(hwQ).n, ts |-> P!Stamp(Head(hwQ))] \in Taken
  <2>1. Head(hwQ).n \in Nat
    BY <1>1 DEF Heard
  <2>. QED  BY <1>1, <2>1, StampType DEF Taken
<1>3. longer \in Seq(Taken) /\ Len(longer) = Len(batch) + 1
  BY <1>2, AppendProperties
<1>4. \A i \in 1 .. Len(batch) : longer[i] = batch[i]
  BY <1>2, AppendProperties
<1>5. longer[Len(batch) + 1] = [n |-> Head(hwQ).n, ts |-> P!Stamp(Head(hwQ))]
  BY <1>2, AppendProperties
<1>6. Tail(hwQ) \in Seq(Heard) /\ Len(hwQ) = Len(Tail(hwQ)) + 1
  BY <1>1, HeadTailProperties
<1>7. \A i \in 1 .. Len(Tail(hwQ)) : Tail(hwQ)[i] = hwQ[i + 1]
  BY <1>1, HeadTailProperties
<1>. HIDE DEF FrameInv, FrameType, Places
<1>8. Run(longer, Len(read) + Len(lost))
  <2>. SUFFICES ASSUME NEW i \in 1 .. Len(longer)
                PROVE  /\ longer[i].n = Len(read) + Len(lost) + i
                       /\ longer[i].ts = times[Len(read) + Len(lost) + i]
    BY DEF Run
  <2>0. Len(read) \in Nat /\ Len(lost) \in Nat /\ Len(batch) \in Nat
    BY LenProperties DEF FrameInv, FrameType
  <2>1. CASE i \in 1 .. Len(batch)
    BY <2>1, <1>4 DEF Run, FrameInv, Places
  <2>2. CASE i = Len(batch) + 1
    <3>1. 1 \in 1 .. Len(hwQ)
      BY <1>1
    <3>2. /\ hwQ[1].n = Len(read) + Len(lost) + Len(batch) + 1
          /\ P!Stamp(hwQ[1]) = times[Len(read) + Len(lost) + Len(batch) + 1]
      BY <3>1 DEF FrameInv, Places
    <3>3. Len(read) + Len(lost) + i = Len(read) + Len(lost) + Len(batch) + 1
      BY <2>0, <2>2
    <3>4. longer[i] = [n |-> Head(hwQ).n, ts |-> P!Stamp(Head(hwQ))] /\ Head(hwQ) = hwQ[1]
      BY <2>2, <1>1, <1>5
    <3>. QED  BY <3>2, <3>3, <3>4
  <2>3. i \in 1 .. Len(batch) \/ i = Len(batch) + 1
    BY <2>0, <1>3
  <2>. QED  BY <2>1, <2>2, <2>3
<1>. QED  BY <1>3, <1>6, <1>7, <1>8

-----------------------------------------------------------------------------
\* What each part reads.
LEMMA FrameFrame ==
  ASSUME FrameType, Places, UNCHANGED <<hwQ, batch, read, times, lost>>
  PROVE  FrameType' /\ Places'
BY DEF FrameType, Places, Run, P!Stamp

LEMMA ReadOneStep ==
  ASSUME FrameInv, P!ReadOne
  PROVE  FrameInv'
<1>1. /\ hwQ # <<>> /\ pstep = "reading" /\ hwQ' = Tail(hwQ)
      /\ UNCHANGED <<pstep, read, times, lost>>
      /\ batch' = Append(batch, [n |-> Head(hwQ).n, ts |-> P!Stamp(Head(hwQ))])
  BY DEF P!ReadOne
<1>2. /\ batch' \in Seq(Taken) /\ Tail(hwQ) \in Seq(Heard)
      /\ Len(batch') = Len(batch) + 1 /\ Len(hwQ) = Len(Tail(hwQ)) + 1
      /\ Run(batch', Len(read) + Len(lost))
      /\ \A i \in 1 .. Len(Tail(hwQ)) : Tail(hwQ)[i] = hwQ[i + 1]
  BY <1>1, TakeHead
<1>3. FrameType'
  BY <1>1, <1>2 DEF FrameInv, FrameType
<1>4. /\ Len(read) \in Nat /\ Len(lost) \in Nat /\ Len(batch) \in Nat
      /\ Len(Tail(hwQ)) \in Nat
  BY <1>2, LenProperties DEF FrameInv, FrameType
<1>5. Places'
  <2>1. Len(times') = Len(read') + Len(lost') + Len(batch') + Len(hwQ')
    <3>1. Len(times) = Len(read) + Len(lost) + Len(batch) + Len(hwQ)
      BY DEF FrameInv, Places
    <3>2. Len(times) = Len(read) + Len(lost) + (Len(batch) + 1) + Len(Tail(hwQ))
      BY <3>1, <1>2, <1>4
    <3>3. Len(batch') = Len(batch) + 1 /\ hwQ' = Tail(hwQ)
      BY <1>1, <1>2
    <3>. QED  BY <3>2, <3>3, <1>1
  <2>2. Run(read, 0)' /\ Run(lost, Len(read))'
    BY <1>1 DEF FrameInv, Places, Run
  <2>3. Run(batch, Len(read) + Len(lost))'
    BY <1>1, <1>2 DEF Run
  <2>4. ASSUME NEW i \in 1 .. Len(hwQ')
        PROVE  LET k == Len(read') + Len(lost') + Len(batch') + i
               IN  hwQ'[i].n = k /\ P!Stamp(hwQ'[i]) = times'[k]
    <3>1. i + 1 \in 1 .. Len(hwQ) /\ hwQ'[i] = hwQ[i + 1]
      BY <1>1, <1>2, <1>4, <2>4
    <3>2. Len(read') + Len(lost') + Len(batch') + i
            = Len(read) + Len(lost) + Len(batch) + (i + 1)
      BY <1>1, <1>2, <1>4, <2>4
    <3>. QED  BY <1>1, <3>1, <3>2 DEF FrameInv, Places
  <2>. QED  BY <2>1, <2>2, <2>3, <2>4 DEF Places, P!Stamp
<1>6. Calls'
  BY <1>1 DEF FrameInv, Calls
<1>. QED  BY <1>3, <1>5, <1>6 DEF FrameInv

\* The batch becomes part of what was read; nothing has been lost yet.
LEMMA ReadEmptyStep ==
  ASSUME FrameInv, P!ReadEmpty
  PROVE  FrameInv'
<1>1. /\ hwQ = <<>> /\ pstep = "reading" /\ lost = <<>> /\ batch' = <<>>
      /\ read' = read \o batch /\ pstep' = "serve"
      /\ UNCHANGED <<hwQ, times, lost>>
  BY DEF P!ReadEmpty, FrameInv, Calls
<1>2. /\ read' \in Seq(Taken) /\ Len(read') = Len(read) + Len(batch)
      /\ \A i \in 1 .. Len(read) + Len(batch) :
           read'[i] = IF i <= Len(read) THEN read[i] ELSE batch[i - Len(read)]
  BY <1>1, ConcatProperties DEF FrameInv, FrameType
<1>3. /\ Len(read) \in Nat /\ Len(batch) \in Nat
      /\ Len(lost) = 0 /\ Len(hwQ) = 0 /\ Len(batch') = 0
  BY <1>1, LenProperties DEF FrameInv, FrameType
<1>4. FrameType'
  BY <1>1, <1>2 DEF FrameInv, FrameType
<1>5. Run(read, 0)'
  <2>. SUFFICES ASSUME NEW i \in 1 .. Len(read')
                PROVE  read'[i].n = 0 + i /\ read'[i].ts = times[0 + i]
    BY <1>1 DEF Run
  <2>1. CASE i <= Len(read)
    BY <2>1, <1>2, <1>3 DEF FrameInv, Places, Run
  <2>2. CASE i > Len(read)
    <3>1. i - Len(read) \in 1 .. Len(batch) /\ read'[i] = batch[i - Len(read)]
      BY <2>2, <1>2, <1>3
    <3>2. Len(read) + Len(lost) + (i - Len(read)) = 0 + i
      BY <1>3
    <3>. QED  BY <3>1, <3>2 DEF FrameInv, Places, Run
  <2>. QED  BY <2>1, <2>2, <1>2, <1>3
<1>6. Places'
  BY <1>1, <1>2, <1>3, <1>5 DEF FrameInv, Places, Run
<1>7. Calls'
  BY <1>1 DEF FrameInv, Calls
<1>. QED  BY <1>4, <1>6, <1>7 DEF FrameInv

\* The call that fails takes with it what it holds, and perhaps one frame more.
LEMMA ReadErrorStep ==
  ASSUME FrameInv, P!ReadError
  PROVE  FrameInv'
<1>1. /\ pstep = "reading" /\ pstep' \in {"closing", "exited"} /\ batch' = <<>>
      /\ UNCHANGED <<read, times>> /\ lost = <<>>
  BY DEF P!ReadError, FrameInv, Calls
<1>2. /\ Len(read) \in Nat /\ Len(lost) = 0 /\ Len(batch) \in Nat
      /\ Len(hwQ) \in Nat /\ Len(batch') = 0
  BY <1>1, LenProperties DEF FrameInv, FrameType
<1>3. Calls'
  BY <1>1 DEF Calls
<1>4. CASE lost' = batch /\ hwQ' = hwQ
  <2>1. FrameType'
    BY <1>1, <1>4 DEF FrameInv, FrameType
  <2>2. Run(lost, Len(read))'
    <3>1. Run(batch, Len(read))
      BY <1>2 DEF FrameInv, Places, Run
    <3>. QED  BY <3>1, <1>1, <1>4 DEF Run
  <2>3. Run(read, 0)' /\ Run(batch, Len(read) + Len(lost))'
    BY <1>1, <1>2 DEF FrameInv, Places, Run
  <2>4. \A i \in 1 .. Len(hwQ') :
          LET k == Len(read') + Len(lost') + Len(batch') + i
          IN  hwQ'[i].n = k /\ P!Stamp(hwQ'[i]) = times'[k]
    <3>1. SUFFICES ASSUME NEW i \in 1 .. Len(hwQ)
                   PROVE  LET k == Len(read) + Len(batch) + 0 + i
                          IN  hwQ[i].n = k /\ P!Stamp(hwQ[i]) = times[k]
      BY <1>1, <1>2, <1>4
    <3>2. Len(read) + Len(batch) + 0 + i = Len(read) + Len(lost) + Len(batch) + i
      BY <1>2
    <3>. QED  BY <3>2 DEF FrameInv, Places
  <2>5. Len(times') = Len(read') + Len(lost') + Len(batch') + Len(hwQ')
    BY <1>1, <1>2, <1>4 DEF FrameInv, Places
  <2>6. Places'
    BY <2>2, <2>3, <2>4, <2>5 DEF Places, P!Stamp
  <2>. QED  BY <2>1, <2>6, <1>3 DEF FrameInv
<1>5. CASE /\ hwQ # <<>> /\ hwQ' = Tail(hwQ)
           /\ lost' = Append(batch, [n |-> Head(hwQ).n, ts |-> P!Stamp(Head(hwQ))])
  <2>1. /\ lost' \in Seq(Taken) /\ Tail(hwQ) \in Seq(Heard)
        /\ Len(lost') = Len(batch) + 1 /\ Len(hwQ) = Len(Tail(hwQ)) + 1
        /\ Run(lost', Len(read) + Len(lost))
        /\ \A i \in 1 .. Len(Tail(hwQ)) : Tail(hwQ)[i] = hwQ[i + 1]
    BY <1>1, <1>5, TakeHead
  <2>2. Len(Tail(hwQ)) \in Nat
    BY <2>1, LenProperties
  <2>3. FrameType'
    BY <1>1, <1>5, <2>1 DEF FrameInv, FrameType
  <2>4. Run(lost, Len(read))'
    <3>1. Len(read) + Len(lost) = Len(read)
      BY <1>2
    <3>2. Run(lost', Len(read))
      BY <2>1, <3>1
    <3>. QED  BY <3>2, <1>1 DEF Run
  <2>5. Run(read, 0)' /\ Run(batch, Len(read) + Len(lost))'
    BY <1>1, <1>2 DEF FrameInv, Places, Run
  <2>6. ASSUME NEW i \in 1 .. Len(hwQ')
        PROVE  LET k == Len(read') + Len(lost') + Len(batch') + i
               IN  hwQ'[i].n = k /\ P!Stamp(hwQ'[i]) = times'[k]
    <3>1. i + 1 \in 1 .. Len(hwQ) /\ hwQ'[i] = hwQ[i + 1]
      BY <1>5, <2>1, <2>2, <2>6
    <3>2. Len(read') + Len(lost') + Len(batch') + i
            = Len(read) + Len(lost) + Len(batch) + (i + 1)
      BY <1>1, <1>2, <2>1, <2>6
    <3>. QED  BY <1>1, <3>1, <3>2 DEF FrameInv, Places
  <2>7. Len(times') = Len(read') + Len(lost') + Len(batch') + Len(hwQ')
    <3>1. Len(times) = Len(read) + Len(lost) + Len(batch) + Len(hwQ)
      BY DEF FrameInv, Places
    <3>2. Len(times) = Len(read) + (Len(batch) + 1) + 0 + Len(Tail(hwQ))
      BY <3>1, <1>2, <2>1, <2>2
    <3>3. Len(lost') = Len(batch) + 1 /\ hwQ' = Tail(hwQ)
      BY <1>5, <2>1
    <3>. QED  BY <3>2, <3>3, <1>1, <1>2
  <2>8. Places'
    BY <2>4, <2>5, <2>6, <2>7 DEF Places, P!Stamp
  <2>. QED  BY <2>3, <2>8, <1>3 DEF FrameInv
<1>. QED  BY <1>4, <1>5 DEF P!ReadError

\* A frame that is heard is the last, and the library knows its time.
LEMMA HwHearStep ==
  ASSUME FrameInv, P!HwHear
  PROVE  FrameInv'
<1>. DEFINE Of(t) == LET ms == t \div Milli
                     IN  [n |-> Len(times) + 1, millis |-> ms % HwWrap,
                          overflow |-> ms \div HwWrap, micros |-> t % Milli]
<1>1. PICK t \in Nat : times' = Append(times, t) /\ hwQ' = Append(hwQ, Of(t))
  <2>. DEFINE last == IF times = <<>> THEN 0 ELSE times[Len(times)]
  <2>1. PICK d \in {1, Milli, Milli * HwWrap - 1} :
          times' = Append(times, last + d) /\ hwQ' = Append(hwQ, Of(last + d))
    BY DEF P!HwHear
  <2>2. d \in Nat
    <3>1. Milli \in Nat /\ Milli * HwWrap \in Nat /\ Milli * HwWrap # 0
      BY LibraryAssumption, SMT
    <3>. HIDE DEF last, Of
    <3>2. Milli * HwWrap - 1 \in Nat
      BY <3>1
    <3>3. d = 1 \/ d = Milli \/ d = Milli * HwWrap - 1
      BY <2>1
    <3>. QED  BY <3>1, <3>2, <3>3
  <2>3. last \in Nat
    BY EmptySeq, LenProperties DEF FrameInv, FrameType
  <2>4. last + d \in Nat
    BY <2>2, <2>3
  <2>. HIDE DEF last, Of
  <2>. QED  BY <2>1, <2>4
<1>2. UNCHANGED <<pstep, batch, read, lost>>
  BY DEF P!HwHear
<1>3. /\ Len(read) \in Nat /\ Len(lost) \in Nat /\ Len(batch) \in Nat
      /\ Len(hwQ) \in Nat /\ Len(times) \in Nat
  BY LenProperties DEF FrameInv, FrameType
<1>4. Of(t) \in Heard /\ P!Stamp(Of(t)) = t /\ Of(t).n = Len(times) + 1
  <2>1. Len(times) + 1 \in Nat
    BY <1>3
  <2>2. Of(t) \in Heard /\ P!Stamp(Of(t)) = t
    BY <2>1, StampOfHeard
  <2>. QED  BY <2>2
<1>. HIDE DEF Of
<1>5. /\ times' \in Seq(Nat) /\ Len(times') = Len(times) + 1
      /\ \A i \in 1 .. Len(times) : times'[i] = times[i]
      /\ times'[Len(times) + 1] = t
  BY <1>1, AppendProperties DEF FrameInv, FrameType
<1>6. /\ hwQ' \in Seq(Heard) /\ Len(hwQ') = Len(hwQ) + 1
      /\ \A i \in 1 .. Len(hwQ) : hwQ'[i] = hwQ[i]
      /\ hwQ'[Len(hwQ) + 1] = Of(t)
  BY <1>1, <1>4, AppendProperties DEF FrameInv, FrameType
<1>7. Len(times) = Len(read) + Len(lost) + Len(batch) + Len(hwQ)
  BY DEF FrameInv, Places
<1>8. ASSUME NEW k \in Nat, k \in 1 .. Len(times)
      PROVE  times'[k] = times[k]
  BY <1>5, <1>8
<1>9. Run(read, 0)'
  <2>. SUFFICES ASSUME NEW i \in 1 .. Len(read)
                PROVE  read[i].n = 0 + i /\ read[i].ts = times'[0 + i]
    BY <1>2 DEF Run
  <2>1. 0 + i \in 1 .. Len(times)
    BY <1>3, <1>7
  <2>. QED  BY <2>1, <1>8 DEF FrameInv, Places, Run
<1>10. Run(lost, Len(read))'
  <2>. SUFFICES ASSUME NEW i \in 1 .. Len(lost)
                PROVE  /\ lost[i].n = Len(read) + i
                       /\ lost[i].ts = times'[Len(read) + i]
    BY <1>2 DEF Run
  <2>1. Len(read) + i \in 1 .. Len(times)
    BY <1>3, <1>7
  <2>. QED  BY <2>1, <1>8 DEF FrameInv, Places, Run
<1>11. Run(batch, Len(read) + Len(lost))'
  <2>. SUFFICES ASSUME NEW i \in 1 .. Len(batch)
                PROVE  /\ batch[i].n = Len(read) + Len(lost) + i
                       /\ batch[i].ts = times'[Len(read) + Len(lost) + i]
    BY <1>2 DEF Run
  <2>1. Len(read) + Len(lost) + i \in 1 .. Len(times)
    BY <1>3, <1>7
  <2>. QED  BY <2>1, <1>8 DEF FrameInv, Places, Run
<1>12. ASSUME NEW i \in 1 .. Len(hwQ')
       PROVE  LET k == Len(read') + Len(lost') + Len(batch') + i
              IN  hwQ'[i].n = k /\ P!Stamp(hwQ'[i]) = times'[k]
  <2>1. CASE i \in 1 .. Len(hwQ)
    <3>1. Len(read) + Len(lost) + Len(batch) + i \in 1 .. Len(times)
      BY <2>1, <1>3, <1>7
    <3>. QED  BY <2>1, <3>1, <1>2, <1>5, <1>6 DEF FrameInv, Places
  <2>2. CASE i = Len(hwQ) + 1
    <3>1. Len(read) + Len(lost) + Len(batch) + i = Len(times) + 1
      BY <2>2, <1>3, <1>7
    <3>. QED  BY <2>2, <3>1, <1>2, <1>4, <1>5, <1>6
  <2>. QED  BY <2>1, <2>2, <1>3, <1>6
<1>13. Len(times') = Len(read') + Len(lost') + Len(batch') + Len(hwQ')
  BY <1>2, <1>3, <1>5, <1>6, <1>7
<1>14. Places'
  BY <1>9, <1>10, <1>11, <1>12, <1>13 DEF Places, P!Stamp
<1>15. FrameType' /\ Calls'
  BY <1>2, <1>5, <1>6 DEF FrameInv, FrameType, Calls
<1>. QED  BY <1>14, <1>15 DEF FrameInv

-----------------------------------------------------------------------------
\* The other calls move no frame.
LEMMA NextFrames ==
  ASSUME FrameInv, [P!Next]_pcanVars
  PROVE  FrameInv'
<1>1. CASE \/ P!Pick \/ P!CloseLeft \/ P!SetBitrate \/ P!OpenChannel \/ P!BeginRead
           \/ P!Shutdown \/ P!CloseChannel \/ P!Gone \/ UNCHANGED pcanVars
  <2>1. UNCHANGED <<hwQ, batch, read, times, lost>>
    <3>1. CASE P!BeginRead
      BY <3>1 DEF P!BeginRead, FrameInv, Calls
    <3>. QED  BY <1>1, <3>1 DEF P!Pick, P!CloseLeft, P!SetBitrate, P!OpenChannel, P!Shutdown,
                   P!CloseChannel, P!Gone, P!pvars, pcanVars
  <2>2. FrameType' /\ Places'
    BY <2>1, FrameFrame DEF FrameInv
  <2>3. Calls'
    BY <1>1, <2>1 DEF FrameInv, Calls, P!Pick, P!CloseLeft, P!SetBitrate, P!OpenChannel,
         P!BeginRead, P!Shutdown, P!CloseChannel, P!Gone, P!pvars, pcanVars
  <2>. QED  BY <2>2, <2>3 DEF FrameInv
<1>2. CASE P!ReadOne \/ P!ReadEmpty \/ P!ReadError \/ P!HwHear
  BY <1>2, ReadOneStep, ReadEmptyStep, ReadErrorStep, HwHearStep
<1>. QED  BY <1>1, <1>2 DEF P!Next

\* Whichever part a behaviour looks at, PCAN is used or left alone.
LEMMA FrameInvariant == EdgesSpec => []FrameInv
<1>1. EdgesInit => FrameInv
  BY InitFrames DEF EdgesInit, InitializeDriver, NoDriver
<1>2. FrameInv /\ [DriverStep \/ InStep \/ OutStep]_edgeVars => FrameInv'
  <2>. SUFFICES ASSUME FrameInv, [DriverStep \/ InStep \/ OutStep]_edgeVars
                PROVE  [P!Next]_pcanVars
    BY NextFrames
  <2>1. CASE DriverStep
    BY <2>1 DEF DriverStep, DriversNext, SlcanStep, PcanStep, GsUsbStep
  <2>2. CASE InStep \/ OutStep \/ UNCHANGED edgeVars
    BY <2>2 DEF InStep, OutStep, edgeVars, allVars
  <2>. QED  BY <2>1, <2>2
<1>. QED  BY <1>1, <1>2, PTL DEF EdgesSpec

-----------------------------------------------------------------------------
(***************************************************************************)
(* Whatever the library does and however often a read fails, read_frames   *)
(* returns every frame it takes, in order and once: only the read that     *)
(* ends the driver loses any.                                              *)
(***************************************************************************)
THEOREM PcanFramesExact == EdgesSpec => []PcanRxExact
<1>1. FrameInv => PcanRxExact
  <2>. SUFFICES ASSUME FrameInv PROVE PcanRxExact
    OBVIOUS
  <2>. DEFINE first == read \o lost
              all   == first \o batch
  <2>1. /\ Len(read) \in Nat /\ Len(lost) \in Nat /\ Len(batch) \in Nat
        /\ Len(hwQ) \in Nat
    BY LenProperties DEF FrameInv, FrameType
  <2>2. /\ first \in Seq(Taken) /\ Len(first) = Len(read) + Len(lost)
        /\ \A i \in 1 .. Len(read) + Len(lost) :
             first[i] = IF i <= Len(read) THEN read[i] ELSE lost[i - Len(read)]
    BY ConcatProperties DEF FrameInv, FrameType
  <2>3. /\ all \in Seq(Taken) /\ Len(all) = Len(first) + Len(batch)
        /\ \A i \in 1 .. Len(first) + Len(batch) :
             all[i] = IF i <= Len(first) THEN first[i] ELSE batch[i - Len(first)]
    BY <2>2, ConcatProperties DEF FrameInv, FrameType
  <2>. HIDE DEF first
  <2>4. ASSUME NEW i \in 1 .. Len(all) PROVE all[i].n = i
    <3>1. CASE i <= Len(read)
      <4>1. i \in 1 .. Len(read) /\ all[i] = read[i]
        BY <2>1, <2>2, <2>3, <3>1
      <4>2. read[i].n = 0 + i
        BY <4>1 DEF FrameInv, Places, Run
      <4>. QED  BY <4>1, <4>2
    <3>2. CASE i > Len(read) /\ i <= Len(first)
      <4>1. i - Len(read) \in 1 .. Len(lost) /\ all[i] = lost[i - Len(read)]
        BY <2>1, <2>2, <2>3, <3>2
      <4>2. lost[i - Len(read)].n = Len(read) + (i - Len(read))
        BY <4>1 DEF FrameInv, Places, Run
      <4>. QED  BY <2>1, <4>1, <4>2
    <3>3. CASE i > Len(first)
      <4>1. i - Len(first) \in 1 .. Len(batch) /\ all[i] = batch[i - Len(first)]
        BY <2>1, <2>2, <2>3, <3>3
      <4>2. batch[i - Len(first)].n = Len(read) + Len(lost) + (i - Len(first))
        BY <4>1 DEF FrameInv, Places, Run
      <4>. QED  BY <2>1, <2>2, <4>1, <4>2
    <3>. QED  BY <2>1, <2>2, <2>3, <3>1, <3>2, <3>3
  <2>5. Len(all) + Len(hwQ) = Len(times)
    BY <2>1, <2>2, <2>3 DEF FrameInv, Places
  <2>6. lost # <<>> => pstep \in {"closing", "exited"}
    BY DEF FrameInv, Calls
  <2>. QED  BY <2>4, <2>5, <2>6 DEF PcanRxExact, P!PcanRxExact, first
<1>. QED  BY <1>1, FrameInvariant, PTL

(***************************************************************************)
(* The timestamp of every frame that is returned is the time at which it   *)
(* was heard, however often the count of milliseconds has wrapped.         *)
(***************************************************************************)
THEOREM PcanTimesExact == EdgesSpec => []PcanTimeExact
<1>1. FrameInv => PcanTimeExact
  <2>. SUFFICES ASSUME FrameInv, NEW i \in 1 .. Len(read)
                PROVE  read[i].ts = times[read[i].n]
    BY DEF PcanTimeExact, P!PcanTimeExact
  <2>1. read[i].n = 0 + i /\ read[i].ts = times[0 + i]
    BY DEF FrameInv, Places, Run
  <2>. QED  BY <2>1
<1>. QED  BY <1>1, FrameInvariant, PTL

-----------------------------------------------------------------------------
(* The search of a bit timing *)

LEMMA TimesMono ==
  ASSUME NEW a \in Int, NEW b \in Int, NEW k \in Nat, a <= b
  PROVE  a * k <= b * k
OBVIOUS

LEMMA TimesCancel ==
  ASSUME NEW a \in Int, NEW b \in Int, NEW k \in Nat \ {0}, k * a <= k * b
  PROVE  a <= b
OBVIOUS

LEMMA TimesSwap ==
  ASSUME NEW a \in Int, NEW b \in Int, NEW c \in Int
  PROVE  (a * b) * c = (a * c) * b /\ (a * b) * c = b * (a * c) /\ a * b \in Int
OBVIOUS

\* The number of two digits, of which the second is below m.
LEMMA TwoDigits ==
  ASSUME NEW a \in Nat, NEW m \in Nat \ {0}, NEW r \in 0 .. m - 1
  PROVE  (a * m + r) \div m = a /\ (a * m + r) % m = r
OBVIOUS

\* A place among k rows of m.
LEMMA InRows ==
  ASSUME NEW k \in Nat, NEW m \in Nat \ {0}, NEW a \in 0 .. k - 1, NEW r \in 0 .. m - 1
  PROVE  a * m + r \in 0 .. k * m - 1
<1>1. a * m \in Nat /\ k * m \in Nat /\ (a + 1) * m = a * m + m
  OBVIOUS
<1>2. (a + 1) * m <= k * m
  BY TimesMono
<1>. QED  BY <1>1, <1>2

\* The row and the column of a place.
LEMMA RowOf ==
  ASSUME NEW k \in Nat, NEW m \in Nat, NEW j \in 0 .. k * m - 1
  PROVE  m # 0 /\ k # 0 /\ j \div m \in 0 .. k - 1 /\ j % m \in 0 .. m - 1
<1>1. m # 0 /\ k # 0 /\ j \in Nat /\ k * m \in Nat
  OBVIOUS
<1>2. /\ j \div m \in Nat /\ j % m \in 0 .. m - 1
      /\ (j \div m) * m + (j % m) = j
  BY <1>1, DivMod
<1>3. j \div m < k
  <2>. SUFFICES ASSUME k <= j \div m PROVE FALSE
    BY <1>1, <1>2
  <2>1. k * m <= (j \div m) * m
    BY <1>1, <1>2, TimesMono
  <2>. QED  BY <1>1, <1>2, <2>1
<1>. QED  BY <1>1, <1>2, <1>3

-----------------------------------------------------------------------------
Fraction == [num : Nat, den : Nat \ {0}]

LEMMA AtMostOrders ==
  ASSUME NEW s \in Fraction, NEW t \in Fraction, NEW u \in Fraction
  PROVE  /\ U!AtMost(s, s)
         /\ U!AtMost(s, t) \/ U!AtMost(t, s)
         /\ U!AtMost(s, t) /\ U!AtMost(t, u) => U!AtMost(s, u)
<1>1. /\ s.num \in Nat /\ s.den \in Nat \ {0} /\ t.num \in Nat /\ t.den \in Nat \ {0}
      /\ u.num \in Nat /\ u.den \in Nat \ {0}
  BY DEF Fraction
<1>2. U!AtMost(s, s)
  BY <1>1 DEF U!AtMost
<1>3. U!AtMost(s, t) \/ U!AtMost(t, s)
  <2>1. s.num * t.den \in Nat /\ t.num * s.den \in Nat
    BY <1>1
  <2>. QED  BY <2>1 DEF U!AtMost
<1>4. ASSUME U!AtMost(s, t), U!AtMost(t, u) PROVE U!AtMost(s, u)
  <2>1. /\ s.num * t.den \in Nat /\ t.num * s.den \in Nat /\ t.num * u.den \in Nat
        /\ u.num * t.den \in Nat /\ s.num * u.den \in Nat /\ u.num * s.den \in Nat
    BY <1>1
  <2>2. (s.num * t.den) * u.den <= (t.num * s.den) * u.den
    BY <1>1, <1>4, <2>1, TimesMono DEF U!AtMost
  <2>3. (t.num * u.den) * s.den <= (u.num * t.den) * s.den
    BY <1>1, <1>4, <2>1, TimesMono DEF U!AtMost
  <2>4. /\ (s.num * t.den) * u.den = t.den * (s.num * u.den)
        /\ (t.num * s.den) * u.den = (t.num * u.den) * s.den
        /\ (u.num * t.den) * s.den = t.den * (u.num * s.den)
    BY <1>1, TimesSwap
  <2>5. t.den * (s.num * u.den) <= t.den * (u.num * s.den)
    <3>1. /\ (s.num * t.den) * u.den \in Int /\ (t.num * s.den) * u.den \in Int
          /\ (u.num * t.den) * s.den \in Int
      BY <1>1, <2>1
    <3>. HIDE DEF U!AtMost
    <3>. QED  BY <2>2, <2>3, <2>4, <3>1
  <2>. QED  BY <1>1, <2>1, <2>5, TimesCancel DEF U!AtMost
<1>. QED  BY <1>2, <1>3, <1>4

Segments == [brp : Nat, tseg1 : Nat, tseg2 : Nat]

\* The score of a candidate is a fraction: one whose rate fits has ticks.
LEMMA ScoreIs ==
  ASSUME NEW k \in U!Limits, NEW c \in Segments, U!RateFits(k, c)
  PROVE  U!Score(k, c) \in Fraction
<1>1. /\ k.p \in Nat \ {0} /\ k.q \in Nat \ {0}
      /\ c.brp \in Nat /\ c.tseg1 \in Nat /\ c.tseg2 \in Nat
  BY DEF U!Limits, Segments
<1>2. \A x \in Int : U!Abs(x) \in Nat /\ (x > 0 => U!Abs(x) > 0)
  BY DEF U!Abs
<1>3. U!Quanta(c) \in Nat /\ U!Ticks(c) \in Nat
  BY <1>1 DEF U!Ticks, U!Quanta
<1>. DEFINE t == U!Ticks(c)  r == k.q * t
            e == U!Abs(k.p - r)
            w == U!Abs(8 * (1 + c.tseg1) - 7 * U!Quanta(c))
<1>4. t \in Nat /\ r \in Nat
  BY <1>1, <1>3
<1>5. e \in Nat /\ w \in Nat /\ (r = 0 => e > 0)
  BY <1>1, <1>2, <1>3, <1>4
<1>6. 20 * e <= r
  BY DEF U!RateFits
<1>7. U!Score(k, c) = [num |-> 80 * e + k.q * c.brp * w, den |-> 8 * k.q * t]
  BY DEF U!Score
<1>. HIDE DEF e, w, t
<1>8. r # 0
  BY <1>4, <1>5, <1>6
<1>9. 8 * k.q * t = 8 * r /\ 8 * r \in Nat \ {0}
  BY <1>1, <1>4, <1>8
<1>10. 80 * e + k.q * c.brp * w \in Nat
  <2>1. k.q * c.brp \in Nat
    BY <1>1
  <2>2. (k.q * c.brp) * w \in Nat
    BY <1>5, <2>1
  <2>. QED  BY <1>5, <2>2
<1>. QED  BY <1>7, <1>9, <1>10 DEF Fraction

-----------------------------------------------------------------------------
LEMMA TurnsAre ==
  ASSUME NEW lo \in Nat, NEW hi \in Nat
  PROVE  /\ U!Turns(lo, hi) \in Nat
         /\ \A j \in 0 .. U!Turns(lo, hi) - 1 : lo + j \in lo .. hi
         /\ \A x \in lo .. hi : x - lo \in 0 .. U!Turns(lo, hi) - 1
BY DEF U!Turns

\* The loops pass every candidate, and nothing else.
LEMMA CandidatesAre ==
  ASSUME NEW k \in U!Limits
  PROVE  /\ U!Candidates(k) \in Seq(U!Space(k))
         /\ \A c \in U!Space(k) :
              \E i \in 1 .. Len(U!Candidates(k)) : U!Candidates(k)[i] = c
<1>1. /\ k.tseg1_min \in Nat /\ k.tseg1_max \in Nat /\ k.tseg2_min \in Nat
      /\ k.tseg2_max \in Nat /\ k.brp_min \in Nat /\ k.brp_max \in Nat
  BY DEF U!Limits
<1>. DEFINE n0 == U!Turns(k.brp_min, k.brp_max)
            n1 == U!Turns(k.tseg1_min, k.tseg1_max)
            n2 == U!Turns(k.tseg2_min, k.tseg2_max)
            n  == n0 * (n1 * n2)
            At(i) == [brp   |-> k.brp_min + (i - 1) \div (n1 * n2),
                      tseg1 |-> k.tseg1_min + (((i - 1) \div n2) % n1),
                      tseg2 |-> k.tseg2_min + ((i - 1) % n2)]
            s == [i \in 1 .. n |-> At(i)]
<1>2. U!Candidates(k) = s
  BY Zenon DEF U!Candidates
<1>3. n0 \in Nat /\ n1 \in Nat /\ n2 \in Nat
  BY <1>1, TurnsAre
<1>4. /\ \A j \in 0 .. n0 - 1 : k.brp_min + j \in k.brp_min .. k.brp_max
      /\ \A j \in 0 .. n1 - 1 : k.tseg1_min + j \in k.tseg1_min .. k.tseg1_max
      /\ \A j \in 0 .. n2 - 1 : k.tseg2_min + j \in k.tseg2_min .. k.tseg2_max
  BY <1>1, TurnsAre
<1>5. /\ \A x \in k.brp_min .. k.brp_max : x - k.brp_min \in 0 .. n0 - 1
      /\ \A x \in k.tseg1_min .. k.tseg1_max : x - k.tseg1_min \in 0 .. n1 - 1
      /\ \A x \in k.tseg2_min .. k.tseg2_max : x - k.tseg2_min \in 0 .. n2 - 1
  BY <1>1, TurnsAre
<1>. HIDE DEF n0, n1, n2
<1>6. n1 * n2 \in Nat /\ n \in Nat
  BY <1>3
<1>7. ASSUME NEW i \in 1 .. n PROVE At(i) \in U!Space(k)
  <2>1. i - 1 \in 0 .. n0 * (n1 * n2) - 1
    BY <1>6
  <2>2. (i - 1) \div (n1 * n2) \in 0 .. n0 - 1 /\ n1 * n2 # 0
    <3>. DEFINE m == n1 * n2  j == i - 1
    <3>1. m \in Nat /\ j \in 0 .. n0 * m - 1
      BY <1>6, <2>1
    <3>. HIDE DEF m, j
    <3>2. m # 0 /\ j \div m \in 0 .. n0 - 1
      BY <1>3, <3>1, RowOf
    <3>. QED  BY <3>2 DEF m, j
  <2>3. n1 # 0 /\ n2 # 0 /\ i - 1 \in Nat
    BY <1>3, <1>6, <2>2
  <2>4. (i - 1) \div n2 \in Nat /\ (i - 1) % n2 \in 0 .. n2 - 1
    BY <1>3, <2>3, DivMod
  <2>5. ((i - 1) \div n2) % n1 \in 0 .. n1 - 1
    BY <1>3, <2>3, <2>4
  <2>. QED  BY <1>4, <2>2, <2>4, <2>5 DEF U!Space
<1>8. s \in Seq(U!Space(k)) /\ Len(s) = n
  BY <1>6, <1>7, SeqDef
<1>9. ASSUME NEW c \in U!Space(k) PROVE \E i \in 1 .. n : s[i] = c
  <2>. DEFINE a == c.brp - k.brp_min  b == c.tseg1 - k.tseg1_min  d == c.tseg2 - k.tseg2_min
              r == b * n2 + d  j == a * (n1 * n2) + r
  <2>1. /\ c = [brp |-> c.brp, tseg1 |-> c.tseg1, tseg2 |-> c.tseg2]
        /\ c.brp \in k.brp_min .. k.brp_max /\ c.tseg1 \in k.tseg1_min .. k.tseg1_max
        /\ c.tseg2 \in k.tseg2_min .. k.tseg2_max
    BY DEF U!Space
  <2>2. a \in 0 .. n0 - 1 /\ b \in 0 .. n1 - 1 /\ d \in 0 .. n2 - 1
    BY <1>5, <2>1
  <2>3. k.brp_min + a = c.brp /\ k.tseg1_min + b = c.tseg1 /\ k.tseg2_min + d = c.tseg2
    BY <1>1, <2>1
  <2>. HIDE DEF a, b, d
  <2>4. n2 \in Nat \ {0} /\ n1 \in Nat \ {0} /\ n0 \in Nat \ {0}
    BY <1>3, <2>2
  <2>5. r \in 0 .. n1 * n2 - 1 /\ r \div n2 = b /\ r % n2 = d
    BY <2>2, <2>4, InRows, TwoDigits
  <2>6. n1 * n2 \in Nat \ {0}
    BY <1>6, <2>5
  <2>. HIDE DEF r
  <2>7. j \in 0 .. n0 * (n1 * n2) - 1 /\ j \div (n1 * n2) = a
    BY <2>2, <2>4, <2>5, <2>6, InRows, TwoDigits
  <2>8. j = (a * n1 + b) * n2 + d /\ a * n1 + b \in Nat
    <3>1. a \in Nat /\ b \in Nat /\ d \in Nat
      BY <2>2
    <3>2. a * (n1 * n2) = (a * n1) * n2 /\ a * n1 \in Nat
      BY <2>4, <3>1
    <3>3. (a * n1 + b) * n2 = (a * n1) * n2 + b * n2
      BY <2>4, <3>1, <3>2
    <3>4. (a * n1) * n2 \in Nat /\ b * n2 \in Nat
      BY <2>4, <3>1, <3>2
    <3>. QED  BY <2>4, <3>1, <3>2, <3>3, <3>4 DEF r
  <2>. HIDE DEF j
  <2>9. j \div n2 = a * n1 + b /\ j % n2 = d
    BY <2>2, <2>4, <2>8, TwoDigits
  <2>10. (a * n1 + b) % n1 = b
    BY <2>2, <2>4, TwoDigits
  <2>11. j + 1 \in 1 .. n /\ (j + 1) - 1 = j
    BY <1>6, <2>7
  <2>12. At(j + 1) = c
    BY <2>1, <2>3, <2>7, <2>9, <2>10, <2>11
  <2>. QED  BY <2>11, <2>12
<1>. QED  BY <1>2, <1>8, <1>9

\* What the search has found after i candidates.
Found(k, t, i, best) ==
  \/ best = <<>> /\ \A j \in 1 .. i : t[j] \notin U!Legal(k)
  \/ \E c \in U!Legal(k) :
       /\ best = <<c>>
       /\ \A j \in 1 .. i : t[j] \in U!Legal(k) => U!AtMost(U!Score(k, c), U!Score(k, t[j]))

LEMMA LegalIs ==
  ASSUME NEW k \in U!Limits, NEW c \in U!Space(k)
  PROVE  /\ c \in Segments
         /\ c \in U!Legal(k) <=> U!RateFits(k, c) /\ U!Splits(c)
         /\ c \in U!Legal(k) => U!Score(k, c) \in Fraction
<1>1. c \in Segments
  BY DEF U!Limits, U!Space, Segments
<1>2. c \in U!Legal(k) <=> U!RateFits(k, c) /\ U!Splits(c)
  BY <1>1 DEF U!Legal, U!Splits, Segments
<1>. QED  BY <1>1, <1>2, ScoreIs

LEMMA FoundNext ==
  ASSUME NEW k \in U!Limits, NEW t \in Seq(U!Space(k)), NEW m \in Nat, m + 1 <= Len(t),
         NEW best, Found(k, t, m, best)
  PROVE  Found(k, t, m + 1, U!Consider(k, best, t[m + 1]))
<1>. DEFINE c == t[m + 1]  next == U!Consider(k, best, c)
<1>1. \A j \in 1 .. m + 1 : j \in 1 .. m \/ j = m + 1
  OBVIOUS
<1>2. \A j \in 1 .. m + 1 : t[j] \in U!Space(k)
  BY LenProperties, ElementOfSeq
<1>3. c \in U!Space(k)
  BY <1>2
<1>4. c \in U!Legal(k) <=> U!RateFits(k, c) /\ U!Splits(c)
  BY <1>3, LegalIs
<1>5. ASSUME NEW d \in U!Legal(k) PROVE U!Score(k, d) \in Fraction
  BY LegalIs DEF U!Legal
<1>. HIDE DEF c
<1>6. CASE c \notin U!Legal(k)
  <2>1. next = best
    BY <1>4, <1>6 DEF U!Consider
  <2>. QED  BY <1>1, <1>6, <2>1, Zenon DEF Found, c
<1>7. CASE c \in U!Legal(k) /\ best = <<>>
  <2>1. next = <<c>>
    BY <1>4, <1>7 DEF U!Consider, U!Better, U!NoTiming
  <2>2. \A j \in 1 .. m : t[j] \notin U!Legal(k)
    BY <1>7 DEF Found
  <2>3. U!AtMost(U!Score(k, c), U!Score(k, c))
    BY <1>5, <1>7, AtMostOrders
  <2>4. \A j \in 1 .. m + 1 : t[j] \in U!Legal(k) => U!AtMost(U!Score(k, c), U!Score(k, t[j]))
    BY <1>1, <2>2, <2>3, Zenon DEF c
  <2>. QED  BY <1>7, <2>1, <2>4, Zenon DEF Found, c
<1>8. CASE c \in U!Legal(k) /\ best # <<>>
  <2>1. PICK d \in U!Legal(k) :
          /\ best = <<d>>
          /\ \A j \in 1 .. m : t[j] \in U!Legal(k) => U!AtMost(U!Score(k, d), U!Score(k, t[j]))
    BY <1>8 DEF Found
  <2>2. best[1] = d
    BY <2>1
  <2>3. CASE U!AtMost(U!Score(k, d), U!Score(k, c))
    <3>1. next = best
      BY <1>8, <2>2, <2>3 DEF U!Consider, U!Better, U!NoTiming
    <3>2. \A j \in 1 .. m + 1 : t[j] \in U!Legal(k) => U!AtMost(U!Score(k, d), U!Score(k, t[j]))
      BY <1>1, <2>1, <2>3, Zenon DEF c
    <3>. QED  BY <2>1, <3>1, <3>2, Zenon DEF Found, c
  <2>4. CASE ~ U!AtMost(U!Score(k, d), U!Score(k, c))
    <3>1. next = <<c>>
      BY <1>4, <1>8, <2>2, <2>4 DEF U!Consider, U!Better
    <3>2. U!AtMost(U!Score(k, c), U!Score(k, d)) /\ U!AtMost(U!Score(k, c), U!Score(k, c))
      BY <1>5, <1>8, <2>4, AtMostOrders
    <3>3. ASSUME NEW j \in 1 .. m, t[j] \in U!Legal(k)
          PROVE  U!AtMost(U!Score(k, c), U!Score(k, t[j]))
      BY <1>5, <1>8, <2>1, <3>2, <3>3, AtMostOrders
    <3>4. \A j \in 1 .. m + 1 : t[j] \in U!Legal(k) => U!AtMost(U!Score(k, c), U!Score(k, t[j]))
      BY <1>1, <3>2, <3>3, Zenon DEF c
    <3>. QED  BY <1>8, <3>1, <3>4, Zenon DEF Found, c
  <2>. QED  BY <2>3, <2>4
<1>. QED  BY <1>6, <1>7, <1>8 DEF c

\* The search goes through all candidates.
LEMMA SearchFinds ==
  ASSUME NEW k \in U!Limits
  PROVE  Found(k, U!Candidates(k), Len(U!Candidates(k)), U!Best(k))
<1>. DEFINE t == U!Candidates(k)  n == Len(t)
            D == {<<>>} \cup {<<c>> : c \in U!Space(k)}
            F == [i \in 1 .. n |-> [b \in D |-> U!Consider(k, b, t[i])]]
<1>1. t \in Seq(U!Space(k))
  BY CandidatesAre
<1>2. n \in Nat /\ \A i \in 1 .. n : t[i] \in U!Space(k)
  BY <1>1, LenProperties, ElementOfSeq
<1>. HIDE DEF t
<1>3. ASSUME NEW b \in D, NEW c \in U!Space(k) PROVE U!Consider(k, b, c) \in D
  BY DEF U!Consider
<1>4. <<>> \in D
  OBVIOUS
<1>. HIDE DEF D
<1>5. F \in [1 .. n -> [D -> D]]
  BY <1>2, <1>3
<1>. HIDE DEF F
<1>6. PICK g \in [0 .. n -> D] : Passes(g, <<>>, F, n)
  BY <1>2, <1>4, <1>5, RecursionExists
<1>7. ASSUME NEW i \in 1 .. n PROVE g[i] = U!Consider(k, g[i - 1], t[i])
  <2>1. g[i - 1] \in D /\ g[i] = F[i][g[i - 1]]
    BY <1>2, <1>6 DEF Passes
  <2>. QED  BY <2>1 DEF F
<1>8. g = [i \in 0 .. n |-> IF i = 0 THEN <<>> ELSE U!Consider(k, g[i - 1], t[i])]
  <2>1. \A i \in 0 .. n : g[i] = IF i = 0 THEN <<>> ELSE U!Consider(k, g[i - 1], t[i])
    BY <1>2, <1>6, <1>7 DEF Passes
  <2>. QED  BY <1>6, <2>1
<1>9. PICK h : /\ h = [i \in 0 .. n |-> IF i = 0 THEN <<>> ELSE U!Consider(k, h[i - 1], t[i])]
               /\ U!Best(k) = h[n]
  BY <1>8, Zenon DEF U!Best, U!NoTiming, t
<1>10. h[0] = <<>> /\ \A i \in 1 .. n : h[i] = U!Consider(k, h[i - 1], t[i])
  <2>1. 0 \in 0 .. n /\ \A i \in 1 .. n : i \in 0 .. n /\ i # 0
    BY <1>2
  <2>. QED  BY <1>9, <2>1
<1>. DEFINE S == {m \in Nat : m <= n => Found(k, t, m, h[m])}
<1>11. 0 \in S
  BY <1>10 DEF Found
<1>12. ASSUME NEW m \in S PROVE m + 1 \in S
  <2>. SUFFICES ASSUME m + 1 <= n PROVE Found(k, t, m + 1, h[m + 1])
    OBVIOUS
  <2>1. m \in Nat /\ m + 1 \in 1 .. n /\ (m + 1) - 1 = m /\ Found(k, t, m, h[m])
    BY <1>2
  <2>2. h[m + 1] = U!Consider(k, h[m], t[m + 1])
    BY <1>10, <2>1
  <2>. QED  BY <1>1, <2>1, <2>2, FoundNext
<1>. HIDE DEF S
<1>13. S = Nat
  BY <1>11, <1>12, NumberInduction DEF S
<1>14. Found(k, t, n, h[n])
  BY <1>2, <1>13 DEF S
<1>. QED  BY <1>9, <1>14 DEF t

\* What becomes of the candidate found: its first segment is shared.
LEMMA TimingShares ==
  ASSUME NEW k \in U!Limits, NEW c \in U!Legal(k)
  PROVE  LET t == U!Timing(k, c)
         IN  /\ [brp |-> t.brp, tseg1 |-> t.prop_seg + t.phase_seg1, tseg2 |-> t.phase_seg2] = c
             /\ t.prop_seg >= 1 /\ t.phase_seg1 >= 1
             /\ t.sjw <= k.sjw_max /\ t.sjw <= t.phase_seg2
<1>. DEFINE half == c.tseg1 \div 2  phase1 == U!Least(half, k.tseg1_max)
            t == U!Timing(k, c)
<1>1. /\ c = [brp |-> c.brp, tseg1 |-> c.tseg1, tseg2 |-> c.tseg2]
      /\ c.tseg1 \in Nat /\ c.tseg2 \in Nat /\ c.tseg1 <= k.tseg1_max
      /\ k.tseg1_max \in Nat /\ k.sjw_max \in Nat /\ c.tseg1 >= 2
  BY DEF U!Legal, U!Space, U!Limits
<1>2. half \in Nat /\ half >= 1 /\ half <= c.tseg1 - 1
  BY <1>1
<1>. HIDE DEF half
<1>3. phase1 = half
  BY <1>1, <1>2 DEF U!Least
<1>4. t = [prop_seg |-> c.tseg1 - half, phase_seg1 |-> half, phase_seg2 |-> c.tseg2,
           sjw |-> U!Least(k.sjw_max, c.tseg2), brp |-> c.brp]
  BY <1>3 DEF U!Timing, half
<1>. HIDE DEF t
<1>5. (c.tseg1 - half) + half = c.tseg1 /\ c.tseg1 - half >= 1
  BY <1>1, <1>2
<1>6. U!Least(k.sjw_max, c.tseg2) <= k.sjw_max /\ U!Least(k.sjw_max, c.tseg2) <= c.tseg2
  BY <1>1 DEF U!Least
<1>7. [brp |-> t.brp, tseg1 |-> t.prop_seg + t.phase_seg1, tseg2 |-> t.phase_seg2] = c
  BY <1>1, <1>4, <1>5
<1>8. t.prop_seg >= 1 /\ t.phase_seg1 >= 1 /\ t.sjw <= k.sjw_max /\ t.sjw <= t.phase_seg2
  BY <1>2, <1>4, <1>5, <1>6
<1>. QED  BY <1>7, <1>8 DEF t

\* What calc_bit_timing returns, for every adapter.
LEMMA SearchBest ==
  ASSUME NEW k \in U!Limits
  PROVE  U!TimingIsBest(k, U!CalcBitTiming(k))
<1>. DEFINE s == U!Candidates(k)  r == U!CalcBitTiming(k)  best == U!Best(k)
<1>1. /\ Found(k, s, Len(s), best)
      /\ r = IF best = <<>> THEN <<>> ELSE <<U!Timing(k, best[1])>>
  BY SearchFinds DEF U!CalcBitTiming, U!NoTiming
<1>2. \A d \in U!Legal(k) : \E i \in 1 .. Len(s) : s[i] = d
  BY CandidatesAre DEF U!Legal
<1>. HIDE DEF s, r, best
<1>3. CASE best = <<>>
  <2>1. \A j \in 1 .. Len(s) : s[j] \notin U!Legal(k)
    BY <1>1, <1>3 DEF Found
  <2>2. r = <<>> /\ U!Legal(k) = {}
    BY <1>1, <1>2, <1>3, <2>1
  <2>. QED  BY <2>2, Zenon DEF U!TimingIsBest, U!NoTiming, r
<1>4. CASE best # <<>>
  <2>1. PICK c \in U!Legal(k) :
          /\ best = <<c>>
          /\ \A j \in 1 .. Len(s) :
               s[j] \in U!Legal(k) => U!AtMost(U!Score(k, c), U!Score(k, s[j]))
    BY <1>1, <1>4 DEF Found
  <2>. DEFINE t == U!Timing(k, c)
  <2>2. r # <<>> /\ r[1] = t
    BY <1>1, <2>1
  <2>3. \A d \in U!Legal(k) : U!AtMost(U!Score(k, c), U!Score(k, d))
    BY <1>2, <2>1
  <2>4. /\ [brp |-> t.brp, tseg1 |-> t.prop_seg + t.phase_seg1, tseg2 |-> t.phase_seg2] = c
        /\ t.prop_seg >= 1 /\ t.phase_seg1 >= 1
        /\ t.sjw <= k.sjw_max /\ t.sjw <= t.phase_seg2
    BY TimingShares
  <2>. HIDE DEF t
  <2>. QED  BY <2>2, <2>3, <2>4, Zenon DEF U!TimingIsBest, U!NoTiming, r
<1>. QED  BY <1>3, <1>4

-----------------------------------------------------------------------------
\* An opened driver knows what its adapter announced; the timing is computed
\* from it.
Timed ==
  /\ ostep \in {"opened", "serving", "untimed"} => \E k \in U!Limits : caps = <<k>>
  /\ TimingBest

LEMMA TimedStep ==
  ASSUME Timed, [U!Next]_usbVars
  PROVE  Timed'
<1>1. CASE U!Handshake
  <2>1. CASE ostep' = "opened" /\ caps' \in {<<c>> : c \in CapSet}
    BY <2>1, CapAssumption DEF Timed, TimingBest, U!TimingBest
  <2>2. CASE ostep' = "leave"
    BY <2>2 DEF Timed, TimingBest, U!TimingBest
  <2>. QED  BY <1>1, <2>1, <2>2 DEF U!Handshake
<1>2. CASE U!SetBitrate
  <2>1. PICK k \in U!Limits : caps = <<k>>
    BY <1>2 DEF U!SetBitrate, Timed
  <2>2. caps' = <<k>> /\ caps[1] = k /\ caps'[1] = k
    BY <1>2, <2>1 DEF U!SetBitrate
  <2>3. timing' = U!CalcBitTiming(k)
    BY <1>2, <2>2 DEF U!SetBitrate
  <2>4. U!TimingIsBest(caps'[1], timing')
    BY <2>2, <2>3, SearchBest
  <2>. HIDE DEF U!TimingIsBest
  <2>. QED  BY <2>2, <2>4 DEF Timed, TimingBest, U!TimingBest
<1>3. CASE ostep' \notin {"opened", "serving", "untimed"}
  BY <1>3 DEF Timed, TimingBest, U!TimingBest
<1>4. CASE UNCHANGED <<ostep, caps, timing>>
  BY <1>4, Zenon DEF Timed, TimingBest, U!TimingBest
<1>5. U!Next \/ UNCHANGED usbVars => U!Handshake \/ U!SetBitrate
         \/ ostep' \notin {"opened", "serving", "untimed"} \/ UNCHANGED <<ostep, caps, timing>>
  BY DEF U!Next, U!NewContext, U!Look, U!NoDevice, U!GiveUp, U!Spawn, U!Leave, U!DropDriver,
         U!Exit, U!LoopBegin, U!LoopSubmit, U!LoopTake, U!LoopEnd, U!LoopDropContext,
         U!LoopDropHandle, U!Callback, U!EventThread, U!ContextExit, U!Gone, U!ovars, usbVars
<1>. QED  BY <1>1, <1>2, <1>3, <1>4, <1>5

(***************************************************************************)
(* Whatever limits an adapter announces, the timing written to it is the   *)
(* best within them and 5 %, and set_bitrate gives up only if there is     *)
(* none (bit_timing.rs:63-141).                                            *)
(***************************************************************************)
THEOREM BestTiming == EdgesSpec => []TimingBest
<1>1. EdgesInit => Timed
  <2>1. U!Init \/ U!Unused => Timed
    BY DEF U!Init, U!Unused, U!Idle, Timed, TimingBest, U!TimingBest
  <2>. QED  BY <2>1 DEF EdgesInit, InitializeDriver, NoDriver
<1>2. Timed /\ [DriverStep \/ InStep \/ OutStep]_edgeVars => Timed'
  BY EdgesStepsUsb, TimedStep
<1>3. Timed => TimingBest
  BY DEF Timed
<1>. QED  BY <1>1, <1>2, <1>3, PTL DEF EdgesSpec
=============================================================================
