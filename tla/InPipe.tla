-------------------------------- MODULE InPipe --------------------------------
(***************************************************************************)
(* The way of a frame from a client to the driver: cansend                 *)
(* (src/src/bin/cansend.rs) and other clients, the input pipe, its reader  *)
(* (src/src/thread_manager_async.rs:14-37) and the task that decodes what  *)
(* the reader sends (src/src/bin/canserver.rs:290-304).                    *)
(*                                                                         *)
(* A frame is two halves, written at once.  The reader takes what has      *)
(* arrived and cuts it at 64 bytes, here ChunkMax halves.  What happens    *)
(* to a chunk at a shutdown or behind a busy driver is in CanServer.       *)
(***************************************************************************)
EXTENDS Naturals, Sequences, SequencesExt, FiniteSets

CONSTANTS
  Frames,       \* frames that each client writes (cansend: 1), a sequence
  Attempts,     \* attempts to open the pipe (5)
  ChunkMax,     \* halves that fit in a chunk
  InQMax        \* capacity of the channel of the reader (100)

VARIABLES
  client,       \* where each client is
  tries,        \* failed attempts of each client
  written,      \* frames each client has written
  rd,           \* where the reader is
  peer,         \* the client of the current pipe instance
  ipipe,        \* halves written and not read
  bufReader,    \* the BufReader
  line,         \* the chunk the reader is sending
  inQ,          \* chunks sent to the forwarding task
  sentOn,       \* frames given to the driver
  order         \* the clients in the order they connected

rdVars  == <<rd, peer, ipipe, bufReader, line, order>>
ivars   == <<client, tries, written, rdVars, inQ, sentOn>>

Clients == DOMAIN Frames
Nobody  == 0

\* Frame k of client c; k = 0 for one decoded from the middle of a frame.
Frame(c, k)   == [from |-> c, k |-> k]
Half(c, k, h) == [from |-> c, k |-> k, half |-> h]

Idle ==
  /\ tries = [c \in Clients |-> 0] /\ written = [c \in Clients |-> 0]
  /\ rd = "create" /\ peer = Nobody /\ ipipe = <<>> /\ bufReader = <<>> /\ line = <<>>
  /\ inQ = <<>> /\ sentOn = <<>> /\ order = <<>>

Init == client = [c \in Clients |-> "idle"] /\ Idle

\* Only another pipe is looked at.
Unused == client = [c \in Clients |-> "away"] /\ Idle

-----------------------------------------------------------------------------
(* The clients *)

\* connect_pipe_retry succeeds: an instance waits for a client.
Connect ==
  \E c \in Clients :
    /\ client[c] = "idle" /\ rd = "listen"
    /\ client' = [client EXCEPT ![c] = "open"]
    /\ rd' = "serve" /\ peer' = c /\ order' = Append(order, c)
    /\ UNCHANGED <<tries, written, ipipe, bufReader, line, inQ, sentOn>>

\* There is no instance, or it is taken; the last attempt is not followed by a sleep.
ConnectFails ==
  \E c \in Clients :
    /\ client[c] = "idle" /\ rd # "listen"
    /\ tries' = [tries EXCEPT ![c] = @ + 1]
    /\ client' = IF tries'[c] >= Attempts THEN [client EXCEPT ![c] = "failed"]
                 ELSE client
    /\ UNCHANGED <<written, rdVars, inQ, sentOn>>

WriteFrame ==
  \E c \in Clients :
    /\ client[c] = "open" /\ written[c] < Frames[c]
    /\ written' = [written EXCEPT ![c] = @ + 1]
    /\ ipipe' = ipipe \o <<Half(c, written'[c], 1), Half(c, written'[c], 2)>>
    /\ UNCHANGED <<client, tries, rd, peer, bufReader, line, order, inQ, sentOn>>

\* A client ends when it has written, or before: cansend parses its arguments
\* with the pipe already open.
Disconnect ==
  \E c \in Clients :
    /\ client[c] = "open"
    /\ client' = [client EXCEPT ![c] = "done"]
    /\ UNCHANGED <<tries, written, rdVars, inQ, sentOn>>

-----------------------------------------------------------------------------
(* The reader *)

CreateServer ==
  /\ rd = "create" /\ \E c \in Clients : client[c] # "away"
  /\ rd' = "listen"
  /\ UNCHANGED <<client, tries, written, peer, ipipe, bufReader, line, order, inQ, sentOn>>

\* read_buf waits for a whole chunk (mutant).
Readable_Whole(avail) == Len(avail) >= ChunkMax

\* Whatever has arrived will do.
Readable(avail) == avail # <<>>

\* read_buf: what is left in the BufReader, or else what has arrived.
ReadBuf ==
  /\ rd = "serve"
  /\ LET avail == IF bufReader = <<>> THEN ipipe ELSE bufReader
         n     == IF Len(avail) < ChunkMax THEN Len(avail) ELSE ChunkMax
     IN  /\ Readable(avail)
         /\ line' = SubSeq(avail, 1, n) /\ bufReader' = SubSeq(avail, n + 1, Len(avail))
         /\ ipipe' = IF bufReader = <<>> THEN <<>> ELSE ipipe
  /\ rd' = "send"
  /\ UNCHANGED <<client, tries, written, peer, order, inQ, sentOn>>

SendLine ==
  /\ rd = "send" /\ Len(inQ) < InQMax
  /\ inQ' = Append(inQ, line)
  /\ line' = <<>> /\ rd' = "serve"
  /\ UNCHANGED <<client, tries, written, peer, ipipe, bufReader, order, sentOn>>

\* A client that has left is not read any more (mutant).
ReadEof_Early ==
  /\ rd = "serve" /\ client[peer] = "done"
  /\ rd' = "create" /\ peer' = Nobody /\ ipipe' = <<>> /\ bufReader' = <<>>
  /\ UNCHANGED <<client, tries, written, line, order, inQ, sentOn>>

\* Zero bytes: the client has left and all it wrote has been read.
ReadEof ==
  /\ rd = "serve" /\ client[peer] = "done" /\ ipipe = <<>> /\ bufReader = <<>>
  /\ rd' = "create" /\ peer' = Nobody
  /\ UNCHANGED <<client, tries, written, ipipe, bufReader, line, order, inQ, sentOn>>

-----------------------------------------------------------------------------
(* The forwarding task *)

\* decode_from_slice: the frame at the start of a chunk, and nothing after it.
\* Half a frame is an error; from the middle of one, anything may be decoded.
Decoded(chunk) ==
  LET first == Head(chunk)
  IN  IF first.half = 2 THEN {<<>>, <<Frame(first.from, 0)>>}
      ELSE IF Len(chunk) = 1 THEN {<<>>}
      ELSE {<<Frame(first.from, first.k)>>}

Forward ==
  /\ inQ # <<>>
  /\ \E d \in Decoded(Head(inQ)) : sentOn' = sentOn \o d
  /\ inQ' = Tail(inQ)
  /\ UNCHANGED <<client, tries, written, rdVars>>

\* Every client has had its turn.
Gone ==
  /\ \A c \in Clients : client[c] \in {"done", "failed", "away"}
  /\ UNCHANGED ivars

Next ==
  \/ Connect \/ ConnectFails \/ WriteFrame \/ Disconnect
  \/ CreateServer \/ ReadBuf \/ SendLine \/ ReadEof \/ Forward \/ Gone

\* The tasks of the server run; the clients need not do anything.
Fairness ==
  /\ WF_ivars(CreateServer) /\ WF_ivars(ReadBuf) /\ WF_ivars(SendLine)
  /\ WF_ivars(ReadEof) /\ WF_ivars(Forward)

-----------------------------------------------------------------------------
(* Properties *)

Before(f, g) ==
  \/ f.from = g.from /\ f.k < g.k
  \/ \E i, j \in DOMAIN order : i < j /\ order[i] = f.from /\ order[j] = g.from
Pending ==
  (UNION {ToSet(chunk) : chunk \in ToSet(inQ)})
  \cup ToSet(line) \cup ToSet(bufReader) \cup ToSet(ipipe)

(***************************************************************************)
(* However clients follow each other and their bytes are cut: the first    *)
(* frame of every connection is given to the driver or still under way,    *)
(* frames keep the order in which they were written and come once, and a   *)
(* frame nobody wrote stems from a client that wrote several               *)
(* (thread_manager_async.rs:24-35, canserver.rs:295).                      *)
(***************************************************************************)
FirstForwarded ==
  /\ \A c \in Clients :
       written[c] > 0 => \/ Frame(c, 1) \in ToSet(sentOn)
                         \/ {Half(c, 1, 1), Half(c, 1, 2)} \subseteq Pending
  /\ \A i, j \in DOMAIN sentOn :
       i < j /\ sentOn[i].k # 0 /\ sentOn[j].k # 0 => Before(sentOn[i], sentOn[j])
  /\ \A f \in ToSet(sentOn) : f.k = 0 => written[f.from] > 1

(***************************************************************************)
(* What cansend has written reaches the driver, also after it has exited   *)
(* (thread_manager_async.rs:23-35).                                        *)
(***************************************************************************)
FirstReachesDriver ==
  \A c \in Clients : written[c] > 0 ~> Frame(c, 1) \in ToSet(sentOn)
=============================================================================
