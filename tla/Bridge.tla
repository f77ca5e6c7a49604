------------------------------- MODULE Bridge -------------------------------
(***************************************************************************)
(* What the CAN server promises to the two sides it connects, without its  *)
(* tasks, queues and lock.  Chunks read from the input pipe and frames     *)
(* heard on the bus are numbered in order of arrival.  Every chunk that    *)
(* decodes is offered to the driver once, in order and without a gap;      *)
(* frames heard on the bus reach the client in order, at most once, and    *)
(* may be dropped.                                                         *)
(***************************************************************************)
EXTENDS Naturals, Sequences

CONSTANT Junk      \* the chunks that do not decode as a CAN frame

VARIABLES accepted,     \* chunks read from the input pipe so far
          offered,      \* chunks handed to the driver, in order
          heard,        \* frames received by the driver so far
          delivered     \* frames written to the output pipe, in order

vars == <<accepted, offered, heard, delivered>>

LastOf(s) == IF s = <<>> THEN 0 ELSE s[Len(s)]

Init ==
  /\ accepted = 0 /\ offered = <<>>
  /\ heard = 0 /\ delivered = <<>>

Accept ==
  /\ accepted' = accepted + 1
  /\ UNCHANGED <<offered, heard, delivered>>

\* The next decodable chunk: everything skipped is junk.
Offer(n) ==
  /\ n > LastOf(offered) /\ n \notin Junk
  /\ (LastOf(offered) + 1) .. (n - 1) \subseteq Junk
  /\ offered' = Append(offered, n)
  /\ UNCHANGED <<accepted, heard, delivered>>

Hear ==
  /\ heard' = heard + 1
  /\ UNCHANGED <<accepted, offered, delivered>>

\* Frames between two delivered ones were dropped.
Deliver(n) ==
  /\ n > LastOf(delivered)
  /\ delivered' = Append(delivered, n)
  /\ UNCHANGED <<accepted, offered, heard>>

Next ==
  \/ Accept
  \/ \E n \in 1 .. accepted : Offer(n)
  \/ Hear
  \/ \E n \in 1 .. heard : Deliver(n)

Spec == Init /\ [][Next]_vars
=============================================================================
