-------------------------------- MODULE OutPipe --------------------------------
(***************************************************************************)
(* The way of a frame from the driver to the screen of candump: the        *)
(* channel of the forwarding task (src/src/bin/canserver.rs:314-326), the  *)
(* writer (src/src/thread_manager_async.rs:39-70), the output pipe and     *)
(* candump with its filters (src/src/bin/candump.rs).                      *)
(*                                                                         *)
(* Frames are numbered in the order the server reads them.  An id or a     *)
(* mask is the set of its bits that are one.                               *)
(***************************************************************************)
EXTENDS Naturals, Sequences, SequencesExt, FiniteSets

CONSTANTS
  Dumpers,      \* candump processes
  FilterLists,  \* filters that may be on their command line
  Ids,          \* ids of the frames on the bus, in turn: a sequence
  MaxHeard,     \* bound: frames the server reads
  OutQMax,      \* capacity of the channel to the writer (100)
  PipeMax       \* frames that fit in the pipe

VARIABLES
  filters,      \* the filters given to every candump
  dump,         \* where each candump is
  since,        \* frames read by the server when it connected
  taken,        \* frames each candump has read from the pipe
  printed,      \* frames each candump has printed
  wr,           \* where the writer is
  reader,       \* the client of the current pipe instance
  opipe,        \* frames in that instance
  hand,         \* the frame the writer has taken from its channel
  outQ,         \* the channel to the writer
  heard         \* frames the server has read

dumpVars == <<filters, dump, since, taken, printed>>
wrVars   == <<wr, reader, opipe, hand>>
ovars    == <<dumpVars, wrVars, outQ, heard>>

Nobody == "nobody"
IdOf(n) == Ids[1 + ((n - 1) % Len(Ids))]

Idle ==
  /\ since = [d \in Dumpers |-> 0]
  /\ taken = [d \in Dumpers |-> <<>>] /\ printed = [d \in Dumpers |-> <<>>]
  /\ wr = "create" /\ reader = Nobody /\ opipe = <<>> /\ hand = 0
  /\ outQ = <<>> /\ heard = 0

Init == dump = [d \in Dumpers |-> "idle"] /\ filters \in FilterLists /\ Idle

\* Only another pipe is looked at.
Unused == dump = [d \in Dumpers |-> "away"] /\ filters = <<>> /\ Idle

-----------------------------------------------------------------------------
(* The filters of candump *)

Filters ==
  [kind : {"match", "notmatch", "join", "error"}, id : SUBSET Nat, mask : SUBSET Nat]

\* Filter::matches, for the two kinds that look at an id.
FilterMatches(f, id) ==
  IF f.kind = "match" THEN id \cap f.mask = f.id \cap f.mask
  ELSE id \cap f.mask # f.id \cap f.mask

\* A join is for the next filter only (mutant).
CheckOne_JoinOne(s, f, id) ==
  CASE f.kind = "join"  -> [matched |-> s.matched, join |-> TRUE]
    [] f.kind = "error" -> s
    [] OTHER -> [matched |-> IF s.join THEN s.matched /\ FilterMatches(f, id)
                             ELSE s.matched \/ FilterMatches(f, id),
                 join    |-> FALSE]

\* A turn of the loop of filter_check: matched and join_mode after filter f.
CheckOne(s, f, id) ==
  CASE f.kind = "join"  -> [matched |-> s.matched, join |-> TRUE]
    [] f.kind = "error" -> s
    [] OTHER -> [matched |-> IF s.join THEN s.matched /\ FilterMatches(f, id)
                             ELSE s.matched \/ FilterMatches(f, id),
                 join    |-> s.join]

FilterCheck(fs, id) ==
  LET s[i \in 0 .. Len(fs)] == IF i = 0 THEN [matched |-> FALSE, join |-> FALSE]
                               ELSE CheckOne(s[i - 1], fs[i], id)
  IN  s[Len(fs)].matched

-----------------------------------------------------------------------------
(* candump *)

\* connect_pipe_retry asks until an instance waits for a client.
Connect ==
  \E d \in Dumpers :
    /\ dump[d] = "idle" /\ wr = "listen"
    /\ dump' = [dump EXCEPT ![d] = "connected"]
    /\ since' = [since EXCEPT ![d] = heard]
    /\ wr' = "recv" /\ reader' = d /\ opipe' = <<>>
    /\ UNCHANGED <<filters, taken, printed, hand, outQ, heard>>

\* Every interface of the command line is connected before any is read.
RunInterfaces ==
  \E d \in Dumpers :
    /\ dump[d] = "connected"
    /\ dump' = [dump EXCEPT ![d] = "reading"]
    /\ UNCHANGED <<filters, since, taken, printed, wrVars, outQ, heard>>

ReadFrame ==
  \E d \in Dumpers :
    /\ dump[d] = "reading" /\ reader = d /\ opipe # <<>>
    /\ LET n == Head(opipe)
       IN  /\ taken' = [taken EXCEPT ![d] = Append(@, n)]
           /\ printed' = IF filters = <<>> \/ FilterCheck(filters, IdOf(n))
                         THEN [printed EXCEPT ![d] = Append(@, n)] ELSE printed
    /\ opipe' = Tail(opipe)
    /\ UNCHANGED <<filters, dump, since, wr, reader, hand, outQ, heard>>

\* Ctrl-C, at any time; what is in the pipe is lost with it.
Leave ==
  \E d \in Dumpers :
    /\ dump[d] \in {"connected", "reading"}
    /\ dump' = [dump EXCEPT ![d] = "gone"]
    /\ UNCHANGED <<filters, since, taken, printed, wrVars, outQ, heard>>

-----------------------------------------------------------------------------
(* The server *)

\* try_send drops the frame when the channel is full.
Hear ==
  /\ heard < MaxHeard /\ \E d \in Dumpers : dump[d] # "away"
  /\ heard' = heard + 1
  /\ outQ' = IF Len(outQ) < OutQMax THEN Append(outQ, heard') ELSE outQ
  /\ UNCHANGED <<dumpVars, wrVars>>

CreateServer ==
  /\ wr = "create" /\ \E d \in Dumpers : dump[d] # "away"
  /\ wr' = "listen"
  /\ UNCHANGED <<dumpVars, reader, opipe, hand, outQ, heard>>

Recv ==
  /\ wr = "recv" /\ outQ # <<>>
  /\ hand' = Head(outQ) /\ outQ' = Tail(outQ) /\ wr' = "write"
  /\ UNCHANGED <<dumpVars, reader, opipe, heard>>

\* write_all waits while the pipe is full.
Write ==
  /\ wr = "write" /\ dump[reader] # "gone" /\ Len(opipe) < PipeMax
  /\ opipe' = Append(opipe, hand) /\ hand' = 0 /\ wr' = "recv"
  /\ UNCHANGED <<dumpVars, reader, outQ, heard>>

\* The frame that could not be written is kept for the next client (mutant).
BrokenPipe_Resend ==
  /\ wr = "write" /\ dump[reader] = "gone"
  /\ wr' = "listen" /\ reader' = Nobody /\ outQ' = <<hand>> \o outQ /\ hand' = 0
  /\ UNCHANGED <<dumpVars, opipe, heard>>

\* Only a write finds out that the client has left; its frame is lost, and the
\* old instance kept until a client has connected to a new one.
BrokenPipe ==
  /\ wr = "write" /\ dump[reader] = "gone"
  /\ wr' = "listen" /\ reader' = Nobody /\ hand' = 0
  /\ UNCHANGED <<dumpVars, opipe, outQ, heard>>

\* The bus falls silent.
Silent == heard = MaxHeard /\ UNCHANGED ovars

Next ==
  \/ Connect \/ RunInterfaces \/ ReadFrame \/ Leave
  \/ Hear \/ CreateServer \/ Recv \/ Write \/ BrokenPipe \/ Silent

-----------------------------------------------------------------------------
(* Properties *)

(***************************************************************************)
(* Through clients that come, go and stop reading: a candump reads frames  *)
(* in their order, none that another one has read, and of those from       *)
(* before it connected no more than the channel holds, so that nothing in  *)
(* a pipe or in the writer's hand outlives its client                      *)
(* (thread_manager_async.rs:45-61, canserver.rs:326).                      *)
(***************************************************************************)
StaleBound ==
  \A d \in Dumpers :
    /\ \A i, j \in DOMAIN taken[d] : i < j => taken[d][i] < taken[d][j]
    /\ \A e \in Dumpers \ {d} : ToSet(taken[d]) \cap ToSet(taken[e]) = {}
    /\ Cardinality({n \in ToSet(taken[d]) : n <= since[d]}) <= OutQMax

\* A filter looks at the bits of an id that are in its mask.
Hit(f, id) ==
  LET Same == \A b \in f.mask : b \in id <=> b \in f.id
  IN  IF f.kind = "match" THEN Same ELSE ~ Same

\* One filter before a join, and all of those after it.
Passes(fs, id) ==
  LET Join     == {i \in DOMAIN fs : fs[i].kind = "join"}
      ByID     == {i \in DOMAIN fs : fs[i].kind \in {"match", "notmatch"}}
      After(i) == \E j \in Join : j < i
  IN  \/ fs = <<>>
      \/ /\ \E i \in ByID : ~ After(i) /\ Hit(fs[i], id)
         /\ \A i \in ByID : After(i) => Hit(fs[i], id)

(***************************************************************************)
(* candump prints the frames it reads that one of the filters before a     *)
(* join matches and all of those after it, or every frame if it has no     *)
(* filter, in the order of their numbers, which is that in which it reads  *)
(* them (StaleBound); error masks count for nothing (candump.rs:276-293,   *)
(* 379).                                                                   *)
(***************************************************************************)
FilterMeaning ==
  \A d \in Dumpers :
    /\ ToSet(printed[d]) = {n \in ToSet(taken[d]) : Passes(filters, IdOf(n))}
    /\ \A i, j \in DOMAIN printed[d] : i < j => printed[d][i] < printed[d][j]
=============================================================================
