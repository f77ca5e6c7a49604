------------------------------- MODULE Drivers -------------------------------
(***************************************************************************)
(* initialize_driver of the server (src/src/bin/canserver.rs:240-253) and  *)
(* the driver it starts: exactly one of Slcan, Pcan and GsUsbOpen runs.    *)
(* The properties are those of the three modules; the ones of Slcan are    *)
(* here by EXTENDS.                                                        *)
(***************************************************************************)
EXTENDS Slcan

CONSTANTS
  Plugged, Rates, HwMax, HwWrap, Milli,     \* of Pcan
  DeviceLists, Idents, NumXfer, CapSet      \* of GsUsbOpen

\* The wraps and the receive transfers are counted.
ASSUME LibraryAssumption ==
  HwWrap \in Nat \ {0} /\ Milli \in Nat \ {0} /\ NumXfer \in Nat

\* What nusb lists: a gs_usb device, one that cannot be opened or read, another.
ASSUME DeviceAssumption ==
  DeviceLists \subseteq Seq([kind : {"gs", "bad", "other"}, name : STRING])

VARIABLES
  driver,       \* the driver named on the command line
  pstep, auto, channel, rate, plugged, active, hwQ, batch, read, times, lost,
  ostep, ident, devs, di, index, chosen, caps, timing, lpc, dropping, ctx, evt,
  ctxRefs, handleRefs, xfer, bufs

P == INSTANCE Pcan
U == INSTANCE GsUsbOpen

\* The limits of an adapter are those of its GsBtConst, with a clock.
ASSUME CapAssumption == CapSet \subseteq U!Limits

pcanVars == <<pstep, auto, channel, rate, plugged, active, hwQ, batch, read, times, lost>>
usbVars  == <<ostep, ident, devs, di, index, chosen, caps, timing, lpc, dropping,
              ctx, evt, ctxRefs, handleRefs, xfer, bufs>>
allVars  == <<driver, vars, pcanVars, usbVars>>

NoDriver == driver = "unknown" /\ Unused /\ P!Unused /\ U!Unused

\* Each driver, and a name that is none of them: the server ends at once.
InitializeDriver ==
  \/ driver = "slcan"   /\ Init   /\ P!Unused /\ U!Unused
  \/ driver = "pcan"    /\ Unused /\ P!Init   /\ U!Unused
  \/ driver = "gs_usb"  /\ Unused /\ P!Unused /\ U!Init
  \/ NoDriver

SlcanStep == driver \in {"slcan", "unknown"} /\ Next /\ UNCHANGED <<pcanVars, usbVars>>
PcanStep  == driver = "pcan" /\ P!Next /\ UNCHANGED <<vars, usbVars>>
GsUsbStep == driver = "gs_usb" /\ U!Next /\ UNCHANGED <<vars, pcanVars>>

DriversNext == (SlcanStep \/ PcanStep \/ GsUsbStep) /\ UNCHANGED driver

-----------------------------------------------------------------------------
\* Every frame taken from PCANBasic.dll is returned once (Pcan, pcan.rs:219-272).
PcanRxExact == P!PcanRxExact

\* The PCAN timestamps are right across wraps (Pcan, pcan.rs:265).
PcanTimeExact == P!PcanTimeExact

\* The first gs_usb device named is selected (GsUsbOpen, device.rs:148-238).
SelectsFirst == U!SelectsFirst

\* Context and buffers outlive their use (GsUsbOpen, context.rs:95-115).
ContextUse == U!ContextUse

\* What is left to do after libusb_exit (GsUsbOpen, context.rs:124-136).
AfterExit == U!AfterExit

\* The bit timing is the best within the limits (BitTiming, bit_timing.rs:63-141).
TimingBest == U!TimingBest

\* A dropped gs_usb driver releases all it held (GsUsbOpen, context.rs:95).
TeardownEnds == U!TeardownEnds
=============================================================================
