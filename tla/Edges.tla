-------------------------------- MODULE Edges --------------------------------
(***************************************************************************)
(* What surrounds the tasks of CanServer: the driver they share, from its  *)
(* set-up to its close (Drivers), and the two pipes with the programs at   *)
(* their other ends (InPipe, OutPipe).  These share no state with each     *)
(* other: CanServer has the tasks that join them, and main sets up the     *)
(* driver before it starts the pipes (src/src/bin/canserver.rs:336-364).   *)
(* A behaviour therefore looks at one of the three.                        *)
(***************************************************************************)
EXTENDS Drivers

CONSTANTS
  Frames, Attempts, ChunkMax, InQMax,                           \* of InPipe
  Dumpers, FilterLists, Ids, MaxHeard, OutQMax, PipeMax         \* of OutPipe

\* No candump is taken for the absence of one; the capacity is a usize.
ASSUME DumperAssumption == "nobody" \notin Dumpers /\ OutQMax \in Nat

\* The clients are numbered from 1; a classic frame, two halves, fits in the 64
\* bytes that read_buf reserves (thread_manager_async.rs:23-24).
ASSUME ClientAssumption == Frames \in Seq(Nat) /\ ChunkMax \in Nat /\ ChunkMax >= 2

VARIABLES
  focus,        \* the part looked at
  client, tries, written, rd, peer, ipipe, bufReader, line, inQ, sentOn, order,
  filters, dump, since, taken, printed, wr, reader, opipe, hand, outQ, heard

I == INSTANCE InPipe
O == INSTANCE OutPipe

\* parse_and_connect of candump makes no other filter (candump.rs:225-262).
ASSUME FilterAssumption == FilterLists \subseteq Seq(O!Filters)

inVars  == <<client, tries, written, rd, peer, ipipe, bufReader, line, inQ, sentOn, order>>
outVars == <<filters, dump, since, taken, printed, wr, reader, opipe, hand, outQ, heard>>
edgeVars == <<focus, allVars, inVars, outVars>>

EdgesInit ==
  \/ focus = "driver" /\ InitializeDriver /\ I!Unused /\ O!Unused
  \/ focus = "in"     /\ NoDriver         /\ I!Init   /\ O!Unused
  \/ focus = "out"    /\ NoDriver         /\ I!Unused /\ O!Init

DriverStep == focus = "driver" /\ DriversNext /\ UNCHANGED <<focus, inVars, outVars>>
InStep     == focus = "in"  /\ I!Next /\ UNCHANGED <<focus, allVars, outVars>>
OutStep    == focus = "out" /\ O!Next /\ UNCHANGED <<focus, allVars, inVars>>

\* Each part has its own fairness; none is assumed of clients or libraries.
EdgesSpec ==
  /\ EdgesInit /\ [][DriverStep \/ InStep \/ OutStep]_edgeVars
  /\ Fairness /\ U!Fairness /\ I!Fairness

-----------------------------------------------------------------------------
\* The first frame of every connection is forwarded once, in order (InPipe,
\* thread_manager_async.rs:24-35).
FirstForwarded == I!FirstForwarded

\* What a client has written first reaches the driver (InPipe,
\* thread_manager_async.rs:23-35).
FirstReachesDriver == I!FirstReachesDriver

\* A client of the output pipe reads few stale frames (OutPipe,
\* thread_manager_async.rs:45-61).
StaleBound == O!StaleBound

\* What the filters of candump mean (OutPipe, candump.rs:276-293).
FilterMeaning == O!FilterMeaning
=============================================================================
