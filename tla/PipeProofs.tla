------------------------------ MODULE PipeProofs ------------------------------
(***************************************************************************)
(* Theorems about the pipes: the output pipe, for every number of candump  *)
(* processes and every capacity of the channel to the writer; the input    *)
(* pipe, for every number of clients, whatever each of them writes.        *)
(***************************************************************************)
EXTENDS Edges, SequenceLemmas

-----------------------------------------------------------------------------
(* The inductive invariant *)

PipeType ==
  /\ heard \in Nat /\ hand \in Nat /\ outQ \in Seq(Nat) /\ opipe \in Seq(Nat)
  /\ dump \in [Dumpers -> {"away", "idle", "connected", "reading", "gone"}]
  /\ since \in [Dumpers -> Nat] /\ taken \in [Dumpers -> Seq(Nat)]
  /\ wr \in {"create", "listen", "recv", "write"}
  /\ reader \in Dumpers \cup {O!Nobody}

\* The writer has a client while it receives or writes, and a frame while it
\* writes; a candump that has not connected has read nothing.
WriterAt ==
  /\ reader \in Dumpers <=> wr \in {"recv", "write"}
  /\ hand # 0 <=> wr = "write"
  /\ \A d \in Dumpers : dump[d] \in {"idle", "away"} => taken[d] = <<>> /\ reader # d
  /\ \A d \in Dumpers : since[d] <= heard
  /\ Len(outQ) <= OutQMax /\ 0 \notin Range(outQ)

\* What the writer has yet to put into a pipe, and what the pipe of its client
\* holds: nothing when it has none.
Waiting == Held(hand) \cup Range(outQ)
Piped   == IF reader \in Dumpers THEN Range(opipe) ELSE {}

\* Along the way to a candump the frames keep the order of their numbers, and
\* nothing on the way was read before.
Along ==
  /\ \A n \in Waiting \cup Piped : n <= heard
  /\ Increasing(outQ) /\ Below(Held(hand), Range(outQ))
  /\ reader \in Dumpers => Increasing(opipe) /\ Below(Range(opipe), Waiting)
  /\ \A d \in Dumpers :
       /\ Increasing(taken[d]) /\ Below(Range(taken[d]), Waiting \cup Piped)
       /\ \A n \in Range(taken[d]) : n <= heard
       /\ \A e \in Dumpers \ {d} : Range(taken[d]) \cap Range(taken[e]) = {}

\* The frames a candump has read, or will read if it stays, from before it
\* connected.
Reads(d) == Range(taken[d]) \cup (IF reader = d THEN Piped \cup Waiting ELSE {})
Stale(d) == {n \in Reads(d) : n <= since[d]}

FewStale ==
  \A d \in Dumpers : IsFiniteSet(Stale(d)) /\ Cardinality(Stale(d)) <= OutQMax

PipeInv == PipeType /\ WriterAt /\ Along /\ FewStale

-----------------------------------------------------------------------------
LEMMA InitPipe == O!Init \/ O!Unused => PipeInv
<1>. SUFFICES ASSUME O!Init \/ O!Unused PROVE PipeInv
  OBVIOUS
<1>1. /\ dump \in [Dumpers -> {"away", "idle"}]
      /\ since = [d \in Dumpers |-> 0] /\ taken = [d \in Dumpers |-> <<>>]
      /\ wr = "create" /\ reader = O!Nobody /\ opipe = <<>> /\ hand = 0
      /\ outQ = <<>> /\ heard = 0
  BY DEF O!Init, O!Unused, O!Idle
<1>2. <<>> \in Seq(Nat) /\ Len(<<>>) = 0
  BY EmptySeq
<1>3. reader \notin Dumpers
  BY <1>1, DumperAssumption DEF O!Nobody
<1>4. PipeType
  BY <1>1, <1>2 DEF PipeType
<1>5. WriterAt
  BY <1>1, <1>2, <1>3, RangeEmpty, DumperAssumption DEF WriterAt
<1>6. Waiting = {} /\ Piped = {} /\ Held(hand) = {} /\ \A d \in Dumpers : Range(taken[d]) = {}
  BY <1>1, <1>3, RangeEmpty, HeldOne DEF Waiting, Piped
<1>7. Along
  BY <1>1, <1>3, <1>6, RangeEmpty DEF Along, Below
<1>8. FewStale
  <2>1. \A d \in Dumpers : Stale(d) = {}
    BY <1>3, <1>6 DEF Stale, Reads
  <2>. QED  BY <2>1, FS_EmptySet, DumperAssumption DEF FewStale
<1>. QED  BY <1>4, <1>5, <1>7, <1>8 DEF PipeInv

-----------------------------------------------------------------------------
(* The frames from before a connection *)

\* Nothing but the next frame of the bus is added to what a candump will read.
LEMMA NoMoreStale ==
  ASSUME WriterAt, FewStale, UNCHANGED since, heard \in Nat, since \in [Dumpers -> Nat],
         \A d \in Dumpers : Reads(d)' \subseteq Reads(d) \cup {heard + 1}
  PROVE  FewStale'
<1>. SUFFICES ASSUME NEW d \in Dumpers
              PROVE  IsFiniteSet(Stale(d)') /\ Cardinality(Stale(d)') <= OutQMax
  BY DEF FewStale
<1>1. Stale(d)' = {n \in Reads(d)' : n <= since[d]}
  BY DEF Stale
<1>2. ~ (heard + 1 <= since[d])
  BY DEF WriterAt
<1>3. Stale(d)' \subseteq Stale(d)
  BY <1>1, <1>2 DEF Stale
<1>4. /\ IsFiniteSet(Stale(d)) /\ Cardinality(Stale(d)) <= OutQMax
  BY DEF FewStale
<1>. HIDE DEF Stale
<1>5. /\ IsFiniteSet(Stale(d)') /\ Cardinality(Stale(d)') <= Cardinality(Stale(d))
  BY <1>3, <1>4, FS_Subset
<1>6. Cardinality(Stale(d)) \in Nat /\ Cardinality(Stale(d)') \in Nat
  BY <1>4, <1>5, FS_CardinalityType
<1>. QED  BY <1>4, <1>5, <1>6, DumperAssumption

\* Only the channel outlives a client: the next one finds in it what it holds.
LEMMA ConnectStale ==
  ASSUME PipeInv, O!Connect
  PROVE  FewStale'
<1>. SUFFICES ASSUME NEW e \in Dumpers
              PROVE  IsFiniteSet(Stale(e)') /\ Cardinality(Stale(e)') <= OutQMax
  BY DEF FewStale
<1>1. PICK d \in Dumpers :
        /\ dump[d] = "idle" /\ wr = "listen"
        /\ since' = [since EXCEPT ![d] = heard] /\ reader' = d /\ opipe' = <<>>
        /\ UNCHANGED <<taken, hand, outQ, heard>>
  BY DEF O!Connect
<1>2. outQ \in Seq(Nat) /\ since \in [Dumpers -> Nat] /\ hand = 0 /\ taken[d] = <<>>
  BY <1>1 DEF PipeInv, PipeType, WriterAt
<1>3. CASE e = d
  <2>1. Stale(e)' \subseteq Range(outQ)
    BY <1>1, <1>2, <1>3, RangeEmpty, HeldOne DEF Stale, Reads, Piped, Waiting
  <2>2. /\ IsFiniteSet(Range(outQ)) /\ Cardinality(Range(outQ)) <= Len(outQ)
        /\ Len(outQ) <= OutQMax /\ Len(outQ) \in Nat
    BY <1>2, RangeBound, LenProperties DEF PipeInv, WriterAt
  <2>. HIDE DEF Stale
  <2>3. /\ IsFiniteSet(Stale(e)') /\ Cardinality(Stale(e)') <= Cardinality(Range(outQ))
    BY <2>1, <2>2, FS_Subset
  <2>4. Cardinality(Range(outQ)) \in Nat /\ Cardinality(Stale(e)') \in Nat
    BY <2>2, <2>3, FS_CardinalityType
  <2>. QED  BY <2>2, <2>3, <2>4, DumperAssumption
<1>4. CASE e # d
  <2>1. reader # e
    BY <1>1 DEF PipeInv, WriterAt
  <2>2. Stale(e)' = Stale(e)
    BY <1>1, <1>2, <1>4, <2>1 DEF Stale, Reads
  <2>. QED  BY <2>2 DEF PipeInv, FewStale
<1>. QED  BY <1>3, <1>4

-----------------------------------------------------------------------------
(* The steps of the writer and of its channel *)

\* A frame that is heard is the last.
LEMMA HearPipe ==
  ASSUME PipeInv, O!Hear
  PROVE  PipeInv'
<1>1. /\ heard' = heard + 1 /\ UNCHANGED <<dump, since, taken, wr, reader, opipe, hand>>
      /\ outQ' = IF Len(outQ) < OutQMax THEN Append(outQ, heard + 1) ELSE outQ
  BY DEF O!Hear, O!dumpVars, O!wrVars
<1>2. /\ heard \in Nat /\ outQ \in Seq(Nat) /\ hand \in Nat /\ opipe \in Seq(Nat)
      /\ taken \in [Dumpers -> Seq(Nat)] /\ since \in [Dumpers -> Nat]
  BY DEF PipeInv, PipeType
<1>3. /\ \A n \in Range(outQ) : n \in Nat /\ n <= heard
      /\ \A n \in Held(hand) \cup Piped : n \in Nat /\ n <= heard
      /\ \A d \in Dumpers : \A n \in Range(taken[d]) : n \in Nat /\ n <= heard
  <2>1. /\ Range(outQ) \subseteq Nat /\ Range(opipe) \subseteq Nat
        /\ Held(hand) \subseteq Nat /\ Piped \subseteq Range(opipe)
    BY <1>2, RangeIndex DEF Held, Piped
  <2>2. \A d \in Dumpers : Range(taken[d]) \subseteq Nat
    BY <1>2, RangeIndex
  <2>3. /\ \A n \in Held(hand) \cup Range(outQ) \cup Piped : n <= heard
        /\ \A d \in Dumpers : \A n \in Range(taken[d]) : n <= heard
    BY DEF PipeInv, Along, Waiting
  <2>. QED  BY <2>1, <2>2, <2>3
<1>4. /\ outQ' \in Seq(Nat) /\ Range(outQ') \subseteq Range(outQ) \cup {heard + 1}
      /\ Increasing(outQ') /\ Len(outQ') <= OutQMax
  <2>1. CASE Len(outQ) < OutQMax
    <3>1. /\ outQ' \in Seq(Nat) /\ Range(outQ') = Range(outQ) \cup {heard + 1}
          /\ Increasing(outQ')
      BY <1>1, <1>2, <1>3, <2>1, PutLast DEF PipeInv, Along
    <3>2. Len(outQ') = Len(outQ) + 1 /\ Len(outQ) \in Nat
      BY <1>1, <1>2, <2>1, AppendProperties, LenProperties
    <3>. QED  BY <2>1, <3>1, <3>2, DumperAssumption
  <2>2. CASE ~ (Len(outQ) < OutQMax)
    BY <1>1, <1>2, <2>2 DEF PipeInv, Along, WriterAt
  <2>. QED  BY <2>1, <2>2
<1>5. /\ Piped' = Piped /\ Waiting' \subseteq Waiting \cup {heard + 1}
      /\ Held(hand)' = Held(hand)
  BY <1>1, <1>4 DEF Piped, Waiting, Held
<1>6. PipeType'
  BY <1>1, <1>2, <1>4 DEF PipeInv, PipeType, O!Nobody
<1>7. WriterAt'
  <2>1. \A d \in Dumpers : since[d] <= heard + 1
    BY <1>2 DEF PipeInv, WriterAt
  <2>2. 0 \notin Range(outQ')
    BY <1>2, <1>4 DEF PipeInv, WriterAt
  <2>. QED  BY <1>1, <1>4, <2>1, <2>2 DEF PipeInv, WriterAt
<1>8. Along'
  <2>1. \A n \in Waiting' \cup Piped' : n <= heard'
    <3>1. \A n \in Waiting \cup Piped : n \in Nat /\ n <= heard
      BY <1>3 DEF Waiting
    <3>2. \A n \in Waiting \cup Piped \cup {heard + 1} : n <= heard + 1
      BY <1>2, <3>1
    <3>. QED  BY <1>1, <1>5, <3>2
  <2>2. Below(Held(hand)', Range(outQ)')
    BY <1>1, <1>2, <1>3, <1>4, <1>5 DEF PipeInv, Along, Below
  <2>3. (reader \in Dumpers => Increasing(opipe) /\ Below(Range(opipe), Waiting))'
    <3>1. reader \in Dumpers => Below(Range(opipe), Waiting \cup {heard + 1})
      BY <1>2, <1>3 DEF PipeInv, Along, Below, Piped
    <3>. QED  BY <1>1, <1>5, <3>1 DEF PipeInv, Along, Below
  <2>4. ASSUME NEW d \in Dumpers
        PROVE  Below(Range(taken[d]), Waiting' \cup Piped')
    BY <1>2, <1>3, <1>5 DEF PipeInv, Along, Below
  <2>5. \A d \in Dumpers : \A n \in Range(taken[d]) : n <= heard + 1
    BY <1>2, <1>3
  <2>. QED  BY <1>1, <1>4, <2>1, <2>2, <2>3, <2>4, <2>5 DEF PipeInv, Along
<1>9. FewStale'
  <2>1. \A d \in Dumpers : Reads(d)' \subseteq Reads(d) \cup {heard + 1}
    BY <1>1, <1>5 DEF Reads
  <2>. QED  BY <1>1, <1>2, <2>1, NoMoreStale DEF PipeInv
<1>. QED  BY <1>6, <1>7, <1>8, <1>9 DEF PipeInv

\* The writer takes the oldest frame of its channel.
LEMMA RecvPipe ==
  ASSUME PipeInv, O!Recv
  PROVE  PipeInv'
<1>1. /\ wr = "recv" /\ outQ # <<>> /\ hand' = Head(outQ) /\ outQ' = Tail(outQ)
      /\ wr' = "write" /\ UNCHANGED <<dump, since, taken, reader, opipe, heard>>
  BY DEF O!Recv, O!dumpVars
<1>2. /\ heard \in Nat /\ outQ \in Seq(Nat) /\ hand = 0 /\ reader \in Dumpers
      /\ taken \in [Dumpers -> Seq(Nat)] /\ since \in [Dumpers -> Nat]
  BY <1>1 DEF PipeInv, PipeType, WriterAt
<1>3. /\ hand' \in Nat /\ outQ' \in Seq(Nat) /\ Range(outQ) = {hand'} \cup Range(outQ')
      /\ Increasing(outQ') /\ \A n \in Range(outQ') : hand' < n
  BY <1>1, <1>2, TakeFirst DEF PipeInv, Along
<1>4. hand' # 0 /\ 0 \notin Range(outQ')
  BY <1>3 DEF PipeInv, WriterAt
<1>5. Held(hand') = {hand'} /\ Held(hand) = {}
  BY <1>2, <1>3, <1>4, HeldOne
<1>6. Waiting' = Waiting /\ Piped' = Piped
  BY <1>1, <1>3, <1>5 DEF Waiting, Piped, Held
<1>7. PipeType'
  BY <1>1, <1>3 DEF PipeInv, PipeType, O!Nobody
<1>8. WriterAt'
  <2>1. Len(outQ') <= OutQMax
    <3>1. Len(outQ') = Len(outQ) - 1 /\ Len(outQ) \in Nat /\ Len(outQ) <= OutQMax
      BY <1>1, <1>2, HeadTailProperties, LenProperties DEF PipeInv, WriterAt
    <3>. QED  BY <3>1, DumperAssumption
  <2>. QED  BY <1>1, <1>4, <2>1 DEF PipeInv, WriterAt
<1>9. Along'
  <2>1. Below(Held(hand'), Range(outQ'))
    BY <1>3, <1>5 DEF Below
  <2>2. Held(hand)' = Held(hand')
    BY DEF Held
  <2>. QED  BY <1>1, <1>3, <1>6, <2>1, <2>2 DEF PipeInv, Along
<1>10. FewStale'
  <2>1. \A d \in Dumpers : Reads(d)' \subseteq Reads(d) \cup {heard + 1}
    BY <1>1, <1>6 DEF Reads
  <2>. QED  BY <1>1, <1>2, <2>1, NoMoreStale DEF PipeInv
<1>. QED  BY <1>7, <1>8, <1>9, <1>10 DEF PipeInv

\* The frame in the writer's hand becomes the last of the pipe.
LEMMA WritePipe ==
  ASSUME PipeInv, O!Write
  PROVE  PipeInv'
<1>1. /\ wr = "write" /\ opipe' = Append(opipe, hand) /\ hand' = 0 /\ wr' = "recv"
      /\ UNCHANGED <<dump, since, taken, reader, outQ, heard>>
  BY DEF O!Write, O!dumpVars
<1>2. /\ heard \in Nat /\ outQ \in Seq(Nat) /\ opipe \in Seq(Nat) /\ hand \in Nat \ {0}
      /\ reader \in Dumpers
      /\ taken \in [Dumpers -> Seq(Nat)] /\ since \in [Dumpers -> Nat]
  BY <1>1 DEF PipeInv, PipeType, WriterAt
<1>3. /\ Held(hand) = {hand} /\ Held(hand)' = {}
  BY <1>1, <1>2, HeldOne DEF Held
<1>4. /\ Waiting = {hand} \cup Range(outQ) /\ Waiting' = Range(outQ)
      /\ Piped = Range(opipe)
  BY <1>1, <1>2, <1>3 DEF Waiting, Piped
<1>5. /\ Increasing(opipe) /\ \A n \in Range(opipe) : n < hand
      /\ Below(Range(opipe), Range(outQ)) /\ Below({hand}, Range(outQ))
  BY <1>2, <1>3, <1>4 DEF PipeInv, Along, Below
<1>6. /\ opipe' \in Seq(Nat) /\ Range(opipe') = Range(opipe) \cup {hand}
      /\ Increasing(opipe')
  BY <1>1, <1>2, <1>5, PutLast
<1>7. Piped' = Piped \cup {hand} /\ Piped' \cup Waiting' = Piped \cup Waiting
  BY <1>1, <1>2, <1>4, <1>6 DEF Piped
<1>8. PipeType'
  BY <1>1, <1>6 DEF PipeInv, PipeType, O!Nobody
<1>9. WriterAt'
  BY <1>1 DEF PipeInv, WriterAt
<1>10. Along'
  <2>1. Below(Range(opipe'), Waiting')
    BY <1>4, <1>5, <1>6 DEF Below
  <2>2. Below(Held(hand)', Range(outQ)')
    BY <1>3 DEF Below
  <2>3. Waiting' \cup Piped' = Waiting \cup Piped
    BY <1>7
  <2>4. (\A n \in Waiting \cup Piped : n <= heard)'
    BY <1>1, <2>3 DEF PipeInv, Along
  <2>5. (\A d \in Dumpers : Below(Range(taken[d]), Waiting \cup Piped))'
    BY <1>1, <2>3 DEF PipeInv, Along, Below
  <2>. QED  BY <1>1, <1>6, <2>1, <2>2, <2>4, <2>5 DEF PipeInv, Along, Below
<1>11. FewStale'
  <2>1. \A d \in Dumpers : Reads(d)' \subseteq Reads(d) \cup {heard + 1}
    BY <1>1, <1>7 DEF Reads
  <2>. QED  BY <1>1, <1>2, <2>1, NoMoreStale DEF PipeInv
<1>. QED  BY <1>8, <1>9, <1>10, <1>11 DEF PipeInv

\* The write that fails loses its frame with its client.
LEMMA BrokenPipeStep ==
  ASSUME PipeInv, O!BrokenPipe
  PROVE  PipeInv'
<1>1. /\ wr = "write" /\ wr' = "listen" /\ reader' = O!Nobody /\ hand' = 0
      /\ UNCHANGED <<dump, since, taken, opipe, outQ, heard>>
  BY DEF O!BrokenPipe, O!dumpVars
<1>2. /\ O!Nobody \notin Dumpers /\ heard \in Nat /\ hand \in Nat
      /\ taken \in [Dumpers -> Seq(Nat)] /\ since \in [Dumpers -> Nat]
  BY DumperAssumption DEF O!Nobody, PipeInv, PipeType
<1>3. Held(hand)' = {} /\ Waiting' \subseteq Waiting /\ Piped' = {}
  BY <1>1, <1>2, HeldOne DEF Held, Waiting, Piped
<1>4. PipeType'
  BY <1>1 DEF PipeInv, PipeType, O!Nobody
<1>5. WriterAt'
  BY <1>1, <1>2 DEF PipeInv, WriterAt
<1>6. Along'
  <2>1. (\A n \in Waiting \cup Piped : n <= heard)'
    BY <1>1, <1>3 DEF PipeInv, Along
  <2>2. (\A d \in Dumpers : Below(Range(taken[d]), Waiting \cup Piped))'
    BY <1>1, <1>3 DEF PipeInv, Along, Below
  <2>3. Below(Held(hand)', Range(outQ)')
    BY <1>3 DEF Below
  <2>. QED  BY <1>1, <1>2, <2>1, <2>2, <2>3 DEF PipeInv, Along, Below
<1>7. FewStale'
  <2>1. \A d \in Dumpers : Reads(d)' \subseteq Reads(d) \cup {heard + 1}
    BY <1>1, <1>2 DEF Reads
  <2>. QED  BY <1>1, <1>2, <2>1, NoMoreStale DEF PipeInv
<1>. QED  BY <1>4, <1>5, <1>6, <1>7 DEF PipeInv

-----------------------------------------------------------------------------
(* The steps of candump *)

\* A new client finds an empty instance of the pipe.
LEMMA ConnectPipe ==
  ASSUME PipeInv, O!Connect
  PROVE  PipeInv'
<1>1. PICK d \in Dumpers :
        /\ dump[d] = "idle" /\ wr = "listen" /\ wr' = "recv"
        /\ dump' = [dump EXCEPT ![d] = "connected"]
        /\ since' = [since EXCEPT ![d] = heard] /\ reader' = d /\ opipe' = <<>>
        /\ UNCHANGED <<taken, hand, outQ, heard>>
  BY DEF O!Connect
<1>2. /\ heard \in Nat /\ hand = 0 /\ reader \notin Dumpers
      /\ dump \in [Dumpers -> {"away", "idle", "connected", "reading", "gone"}]
      /\ taken \in [Dumpers -> Seq(Nat)] /\ since \in [Dumpers -> Nat]
  BY <1>1 DEF PipeInv, PipeType, WriterAt
<1>3. <<>> \in Seq(Nat) /\ Range(<<>>) = {} /\ Increasing(<<>>)
  BY EmptySeq, RangeEmpty
<1>4. Held(hand)' = Held(hand) /\ Waiting' = Waiting /\ Piped' = {} /\ Piped = {}
  BY <1>1, <1>2, <1>3 DEF Held, Waiting, Piped
<1>5. PipeType'
  BY <1>1, <1>2, <1>3 DEF PipeInv, PipeType, O!Nobody
<1>6. WriterAt'
  <2>1. \A e \in Dumpers : dump'[e] \in {"idle", "away"} => taken[e] = <<>> /\ d # e
    BY <1>1, <1>2 DEF PipeInv, WriterAt
  <2>2. \A e \in Dumpers : since'[e] <= heard
    BY <1>1, <1>2 DEF PipeInv, WriterAt
  <2>. QED  BY <1>1, <1>2, <2>1, <2>2 DEF PipeInv, WriterAt
<1>7. Along'
  <2>1. Increasing(opipe)' /\ Below(Range(opipe), Waiting)'
    BY <1>1, <1>3 DEF Below
  <2>2. (\A e \in Dumpers : Below(Range(taken[e]), Waiting \cup Piped))'
    BY <1>1, <1>4 DEF PipeInv, Along
  <2>3. (\A n \in Waiting \cup Piped : n <= heard)'
    BY <1>1, <1>4 DEF PipeInv, Along
  <2>4. Below(Held(hand), Range(outQ))'
    BY <1>1, <1>4 DEF PipeInv, Along
  <2>. QED  BY <1>1, <2>1, <2>2, <2>3, <2>4 DEF PipeInv, Along
<1>. QED  BY <1>5, <1>6, <1>7, ConnectStale DEF PipeInv

\* What candump reads is the oldest frame of the way, and new to all.
LEMMA ReadPipe ==
  ASSUME PipeInv, O!ReadFrame
  PROVE  PipeInv'
<1>1. PICK d \in Dumpers :
        /\ dump[d] = "reading" /\ reader = d /\ opipe # <<>>
        /\ taken' = [taken EXCEPT ![d] = Append(@, Head(opipe))] /\ opipe' = Tail(opipe)
        /\ UNCHANGED <<dump, since, wr, reader, hand, outQ, heard>>
  BY DEF O!ReadFrame
<1>. DEFINE n == Head(opipe)
<1>2. /\ heard \in Nat /\ opipe \in Seq(Nat) /\ taken \in [Dumpers -> Seq(Nat)]
      /\ since \in [Dumpers -> Nat] /\ taken[d] \in Seq(Nat)
  BY DEF PipeInv, PipeType
<1>3. /\ n \in Nat /\ opipe' \in Seq(Nat) /\ Range(opipe) = {n} \cup Range(opipe')
      /\ Increasing(opipe') /\ \A m \in Range(opipe') : n < m
  BY <1>1, <1>2, TakeFirst DEF PipeInv, Along
<1>. HIDE DEF n
<1>4. /\ Piped = {n} \cup Range(opipe') /\ Piped' = Range(opipe')
      /\ Waiting' = Waiting /\ Held(hand)' = Held(hand)
  BY <1>1, <1>3 DEF Piped, Waiting, Held
<1>5. /\ \A e \in Dumpers : \A m \in Range(taken[e]) : m < n
      /\ \A m \in Waiting : n < m
      /\ n <= heard
  BY <1>1, <1>3, <1>4 DEF PipeInv, Along, Below
<1>6. /\ taken'[d] = Append(taken[d], n)
      /\ \A e \in Dumpers \ {d} : taken'[e] = taken[e]
      /\ taken' \in [Dumpers -> Seq(Nat)]
      /\ Range(taken'[d]) = Range(taken[d]) \cup {n} /\ Increasing(taken'[d])
  <2>1. /\ taken'[d] = Append(taken[d], n)
        /\ \A e \in Dumpers \ {d} : taken'[e] = taken[e]
    BY <1>1, <1>2 DEF n
  <2>2. /\ Append(taken[d], n) \in Seq(Nat)
        /\ Range(Append(taken[d], n)) = Range(taken[d]) \cup {n}
        /\ Increasing(Append(taken[d], n))
    BY <1>2, <1>3, <1>5, PutLast DEF PipeInv, Along
  <2>3. taken' \in [Dumpers -> Seq(Nat)]
    BY <1>1, <1>2, <2>2 DEF n
  <2>. QED  BY <2>1, <2>2, <2>3
<1>7. PipeType'
  BY <1>1, <1>3, <1>6 DEF PipeInv, PipeType, O!Nobody
<1>8. WriterAt'
  <2>1. \A e \in Dumpers : dump[e] \in {"idle", "away"} => taken'[e] = <<>> /\ reader # e
    BY <1>1, <1>6 DEF PipeInv, WriterAt
  <2>. QED  BY <1>1, <2>1 DEF PipeInv, WriterAt
<1>9. Along'
  <2>1. (\A m \in Waiting \cup Piped : m <= heard)'
    BY <1>1, <1>4 DEF PipeInv, Along
  <2>2. Below(Range(opipe), Waiting)'
    BY <1>1, <1>3, <1>4 DEF PipeInv, Along, Below
  <2>3. ASSUME NEW e \in Dumpers
        PROVE  Below(Range(taken'[e]), Waiting' \cup Piped')
    <3>1. Below(Range(taken[e]), Waiting \cup Piped')
      BY <1>4 DEF PipeInv, Along, Below
    <3>2. Below({n}, Waiting \cup Piped')
      BY <1>3, <1>4, <1>5 DEF Below
    <3>3. Range(taken'[e]) \subseteq Range(taken[e]) \cup {n}
      BY <1>6
    <3>. QED  BY <1>4, <3>1, <3>2, <3>3 DEF Below
  <2>4. ASSUME NEW e \in Dumpers
        PROVE  Increasing(taken'[e]) /\ \A m \in Range(taken'[e]) : m <= heard
    BY <1>5, <1>6 DEF PipeInv, Along
  <2>5. ASSUME NEW e \in Dumpers, NEW g \in Dumpers \ {e}
        PROVE  Range(taken'[e]) \cap Range(taken'[g]) = {}
    <3>1. Range(taken[e]) \cap Range(taken[g]) = {}
      BY DEF PipeInv, Along
    <3>2. n \notin Range(taken[e]) /\ n \notin Range(taken[g])
      <4>1. ~ (n < n)
        BY <1>3
      <4>. QED  BY <1>5, <4>1
    <3>3. e # d => taken'[e] = taken[e]
      BY <1>6
    <3>4. g # d => taken'[g] = taken[g]
      BY <1>6
    <3>5. CASE e = d
      BY <1>6, <3>1, <3>2, <3>4, <3>5
    <3>6. CASE e # d
      <4>1. CASE g = d
        BY <1>6, <3>1, <3>2, <3>3, <3>6, <4>1
      <4>2. CASE g # d
        BY <3>1, <3>3, <3>4, <3>6, <4>2
      <4>. QED  BY <4>1, <4>2
    <3>. QED  BY <3>5, <3>6
  <2>6. Below(Held(hand), Range(outQ))' /\ Increasing(outQ)' /\ Increasing(opipe)'
    BY <1>1, <1>3, <1>4 DEF PipeInv, Along
  <2>. QED  BY <1>1, <2>1, <2>2, <2>3, <2>4, <2>5, <2>6 DEF Along
<1>10. FewStale'
  <2>1. \A e \in Dumpers : Reads(e)' \subseteq Reads(e) \cup {heard + 1}
    BY <1>1, <1>4, <1>6 DEF Reads
  <2>. QED  BY <1>1, <1>2, <2>1, NoMoreStale DEF PipeInv
<1>. QED  BY <1>7, <1>8, <1>9, <1>10 DEF PipeInv

-----------------------------------------------------------------------------
\* The other steps move no frame.
LEMMA StillPipe ==
  ASSUME PipeInv, UNCHANGED <<since, taken, reader, opipe, hand, outQ, heard>>,
         dump' \in [Dumpers -> {"away", "idle", "connected", "reading", "gone"}],
         \A d \in Dumpers : dump'[d] \in {"idle", "away"} => dump'[d] = dump[d],
         wr' = wr \/ (wr = "create" /\ wr' = "listen")
  PROVE  PipeInv'
<1>1. PipeType' /\ WriterAt'
  BY DEF PipeInv, PipeType, WriterAt, O!Nobody
<1>2. Waiting' = Waiting /\ Piped' = Piped /\ Held(hand)' = Held(hand)
  BY DEF Waiting, Piped, Held
<1>3. Along'
  BY <1>2 DEF PipeInv, Along, Below
<1>4. FewStale'
  BY <1>2 DEF PipeInv, FewStale, Stale, Reads
<1>. QED  BY <1>1, <1>3, <1>4 DEF PipeInv

LEMMA NextPipe ==
  ASSUME PipeInv, [O!Next]_outVars
  PROVE  PipeInv'
<1>1. dump \in [Dumpers -> {"away", "idle", "connected", "reading", "gone"}]
  BY DEF PipeInv, PipeType
<1>2. CASE O!Connect \/ O!ReadFrame
  BY <1>2, ConnectPipe, ReadPipe
<1>3. CASE O!Hear \/ O!Recv \/ O!Write \/ O!BrokenPipe
  BY <1>3, HearPipe, RecvPipe, WritePipe, BrokenPipeStep
<1>4. CASE O!RunInterfaces \/ O!Leave
  <2>1. PICK d \in Dumpers, p \in {"reading", "gone"} :
          /\ dump' = [dump EXCEPT ![d] = p]
          /\ UNCHANGED <<since, taken, wr, reader, opipe, hand, outQ, heard>>
    BY <1>4 DEF O!RunInterfaces, O!Leave, O!wrVars
  <2>2. /\ dump' \in [Dumpers -> {"away", "idle", "connected", "reading", "gone"}]
        /\ \A e \in Dumpers : dump'[e] \in {"idle", "away"} => dump'[e] = dump[e]
    BY <1>1, <2>1
  <2>. QED  BY <2>1, <2>2, StillPipe
<1>5. CASE O!CreateServer \/ O!Silent \/ UNCHANGED outVars
  <2>1. /\ UNCHANGED <<dump, since, taken, reader, opipe, hand, outQ, heard>>
        /\ wr' = wr \/ (wr = "create" /\ wr' = "listen")
    BY <1>5 DEF O!CreateServer, O!Silent, O!ovars, O!dumpVars, O!wrVars, outVars
  <2>. QED  BY <1>1, <2>1, StillPipe
<1>. QED  BY <1>2, <1>3, <1>4, <1>5 DEF O!Next

LEMMA PipeInvariant == EdgesSpec => []PipeInv
<1>1. EdgesInit => PipeInv
  BY InitPipe DEF EdgesInit
<1>2. PipeInv /\ [DriverStep \/ InStep \/ OutStep]_edgeVars => PipeInv'
  <2>. SUFFICES ASSUME PipeInv, [DriverStep \/ InStep \/ OutStep]_edgeVars
                PROVE  [O!Next]_outVars
    BY NextPipe
  <2>. QED  BY DEF DriverStep, InStep, OutStep, edgeVars
<1>. QED  BY <1>1, <1>2, PTL DEF EdgesSpec

-----------------------------------------------------------------------------
(***************************************************************************)
(* However many candump processes come, stop reading and go, each reads    *)
(* frames in their order, none that another one has read, and of those     *)
(* from before it connected no more than the channel to the writer holds   *)
(* (thread_manager_async.rs:45-61).                                        *)
(***************************************************************************)
THEOREM FewStaleFrames == EdgesSpec => []StaleBound
<1>1. PipeInv => StaleBound
  <2>. SUFFICES ASSUME PipeInv, NEW d \in Dumpers
                PROVE  /\ \A i, j \in DOMAIN taken[d] : i < j => taken[d][i] < taken[d][j]
                       /\ \A e \in Dumpers \ {d} : O!ToSet(taken[d]) \cap O!ToSet(taken[e]) = {}
                       /\ O!Cardinality({n \in O!ToSet(taken[d]) : n <= since[d]}) <= OutQMax
    BY DEF StaleBound, O!StaleBound
  <2>1. \A e \in Dumpers : O!ToSet(taken[e]) = Range(taken[e])
    BY DEF O!ToSet, Range
  <2>2. \A i, j \in DOMAIN taken[d] : i < j => taken[d][i] < taken[d][j]
    <3>1. taken[d] \in Seq(Nat) /\ Increasing(taken[d])
      BY DEF PipeInv, PipeType, Along
    <3>. QED  BY <3>1, LenProperties DEF Increasing
  <2>3. \A e \in Dumpers \ {d} : Range(taken[d]) \cap Range(taken[e]) = {}
    BY DEF PipeInv, Along
  <2>. DEFINE R == {n \in Range(taken[d]) : n <= since[d]}
  <2>4. Cardinality(R) <= OutQMax
    <3>1. R \subseteq Stale(d) /\ IsFiniteSet(Stale(d)) /\ Cardinality(Stale(d)) <= OutQMax
      BY DEF PipeInv, FewStale, Stale, Reads
    <3>. HIDE DEF R, Stale
    <3>2. IsFiniteSet(R) /\ Cardinality(R) <= Cardinality(Stale(d))
      BY <3>1, FS_Subset
    <3>3. Cardinality(R) \in Nat /\ Cardinality(Stale(d)) \in Nat
      BY <3>1, <3>2, FS_CardinalityType
    <3>. QED  BY <3>1, <3>2, <3>3, DumperAssumption
  <2>5. O!Cardinality(R) = Cardinality(R)
    BY DEF O!Cardinality, Cardinality
  <2>. QED  BY <2>1, <2>2, <2>3, <2>4, <2>5
<1>. QED  BY <1>1, PipeInvariant, PTL
-----------------------------------------------------------------------------
(* The input pipe: what is under way to the driver *)

Halves == [from : I!Clients, k : Nat \ {0}, half : {1, 2}]
Given  == [from : I!Clients, k : Nat]

InType ==
  /\ client \in [I!Clients -> {"idle", "open", "done", "failed", "away"}]
  /\ written \in [I!Clients -> Nat] /\ order \in Seq(I!Clients)
  /\ rd \in {"create", "listen", "serve", "send"}
  /\ inQ \in Seq(Seq(Halves)) /\ sentOn \in Seq(Given)
  /\ line \in Seq(Halves) /\ bufReader \in Seq(Halves) /\ ipipe \in Seq(Halves)

\* One client after the other: what is in the pipe and the BufReader is of the
\* one connected last, and gone when the next one comes.
Turns ==
  /\ \A c \in I!Clients : client[c] = "open" => peer = c /\ rd \in {"serve", "send"}
  /\ \A c \in I!Clients : written[c] > 0 => c \in Range(order)
  /\ rd \in {"serve", "send"} => order # <<>> /\ peer = order[Len(order)]
  /\ rd \in {"create", "listen"} => line = <<>> /\ bufReader = <<>> /\ ipipe = <<>>
  /\ rd = "serve" => line = <<>>
  /\ rd = "send" => line # <<>>
  /\ \A h \in Range(bufReader) \cup Range(ipipe) : h.from = peer

\* The halves in the channel, those not yet in it, and all.
InChunks == UNION {Range(chunk) : chunk \in Range(inQ)}
Unsent   == Range(line) \cup Range(bufReader) \cup Range(ipipe)
UnderWay == InChunks \cup Unsent

\* Nothing is invented.
Written ==
  /\ \A h \in UnderWay : h.k <= written[h.from]
  /\ \A i \in 1 .. Len(sentOn) : sentOn[i].k <= written[sentOn[i].from]
  /\ \A i \in 1 .. Len(sentOn) : sentOn[i].k = 0 => written[sentOn[i].from] > 1

\* A sequence that holds a part of a first frame begins with all of it.
Whole(s) ==
  \A i \in 1 .. Len(s) :
    s[i].k = 1 => /\ Len(s) >= 2 /\ i = s[i].half
                  /\ s[1] = I!Half(s[i].from, 1, 1) /\ s[2] = I!Half(s[i].from, 1, 2)

\* No first frame is cut, or lost.
FirstWhole ==
  /\ \A chunk \in Range(inQ) : chunk # <<>> /\ Whole(chunk)
  /\ Whole(line) /\ Whole(ipipe) /\ \A h \in Range(bufReader) : h.k # 1
  /\ \A c \in I!Clients :
       written[c] > 0 => \/ I!Frame(c, 1) \in Range(sentOn)
                         \/ {I!Half(c, 1, 1), I!Half(c, 1, 2)} \subseteq UnderWay

\* One half was written before another one, given the order of the clients.
Precedes(o, c, d) == \E i, j \in 1 .. Len(o) : i < j /\ o[i] = c /\ o[j] = d
Earlier(o, g, h) ==
  \/ g.from = h.from /\ (g.k < h.k \/ (g.k = h.k /\ g.half < h.half))
  \/ Precedes(o, g.from, h.from)

Sorted(o, s)       == \A i, j \in 1 .. Len(s) : i < j => Earlier(o, s[i], s[j])
AllBefore(o, A, B) == \A g \in A, h \in B : Earlier(o, g, h)

\* A frame given to the driver stands where its first half stood.
Stands(f) == I!Half(f.from, f.k, 1)

\* From the driver back to the clients nothing is overtaken.
InOrder(o) ==
  /\ \A i, j \in 1 .. Len(inQ) : i < j => AllBefore(o, Range(inQ[i]), Range(inQ[j]))
  /\ AllBefore(o, InChunks, Unsent)
  /\ AllBefore(o, Range(line), Range(bufReader) \cup Range(ipipe))
  /\ AllBefore(o, Range(bufReader), Range(ipipe))
  /\ Sorted(o, bufReader) /\ Sorted(o, ipipe)
  /\ \A i \in 1 .. Len(sentOn) :
       sentOn[i].k # 0 => \A h \in UnderWay : Earlier(o, Stands(sentOn[i]), h)
  /\ \A i, j \in 1 .. Len(sentOn) :
       i < j /\ sentOn[i].k # 0 /\ sentOn[j].k # 0
         => Earlier(o, Stands(sentOn[i]), Stands(sentOn[j]))

InInv == InType /\ Turns /\ Written /\ FirstWhole /\ InOrder(order)

-----------------------------------------------------------------------------
LEMMA InitIn == I!Init \/ I!Unused => InInv
<1>. SUFFICES ASSUME I!Init \/ I!Unused PROVE InInv
  OBVIOUS
<1>1. /\ client \in [I!Clients -> {"idle", "away"}]
      /\ written = [c \in I!Clients |-> 0]
      /\ rd = "create" /\ ipipe = <<>> /\ bufReader = <<>> /\ line = <<>>
      /\ inQ = <<>> /\ sentOn = <<>> /\ order = <<>>
  BY DEF I!Init, I!Unused, I!Idle
<1>2. /\ <<>> \in Seq(Halves) /\ <<>> \in Seq(Seq(Halves)) /\ <<>> \in Seq(Given)
      /\ <<>> \in Seq(I!Clients) /\ Len(<<>>) = 0 /\ Range(<<>>) = {}
  BY EmptySeq, RangeEmpty
<1>3. InType
  BY <1>1, <1>2 DEF InType
<1>4. Turns
  BY <1>1, <1>2 DEF Turns
<1>5. UnderWay = {} /\ InChunks = {} /\ Unsent = {}
  BY <1>1, <1>2 DEF UnderWay, InChunks, Unsent
<1>6. Written /\ FirstWhole
  BY <1>1, <1>2, <1>5 DEF Written, FirstWhole, Whole
<1>7. InOrder(order)
  BY <1>1, <1>2, <1>5 DEF InOrder, AllBefore, Sorted
<1>. QED  BY <1>3, <1>4, <1>6, <1>7 DEF InInv

\* Clients that leave or give up, and an instance of the pipe that is created.
LEMMA StillIn ==
  ASSUME InInv, UNCHANGED <<written, peer, ipipe, bufReader, line, order, inQ, sentOn>>,
         client' \in [I!Clients -> {"idle", "open", "done", "failed", "away"}],
         \A c \in I!Clients : client'[c] = "open" => client[c] = "open",
         rd' = rd \/ (rd = "create" /\ rd' = "listen")
  PROVE  InInv'
<1>1. InType'
  BY DEF InInv, InType
<1>2. Turns'
  BY DEF InInv, Turns
<1>3. UnderWay' = UnderWay /\ InChunks' = InChunks /\ Unsent' = Unsent
  BY DEF UnderWay, InChunks, Unsent
<1>4. Written' /\ FirstWhole'
  BY <1>3 DEF InInv, Written, FirstWhole
<1>5. InOrder(order)'
  BY <1>3 DEF InInv, InOrder
<1>. QED  BY <1>1, <1>2, <1>4, <1>5 DEF InInv

\* The order of those that have connected stays.
LEMMA EarlierStays ==
  ASSUME NEW o \in Seq(I!Clients), NEW c \in I!Clients, NEW g, NEW h, Earlier(o, g, h)
  PROVE  Earlier(Append(o, c), g, h)
<1>1. /\ Len(Append(o, c)) = Len(o) + 1 /\ Len(o) \in Nat
      /\ \A i \in 1 .. Len(o) : Append(o, c)[i] = o[i]
  BY AppendProperties, LenProperties
<1>2. \A i \in 1 .. Len(o) : i \in 1 .. Len(Append(o, c))
  BY <1>1
<1>3. Precedes(o, g.from, h.from) => Precedes(Append(o, c), g.from, h.from)
  BY <1>1, <1>2, Zenon DEF Precedes
<1>. QED  BY <1>3 DEF Earlier

LEMMA ConnectIn ==
  ASSUME InInv, I!Connect
  PROVE  InInv'
<1>1. PICK c \in I!Clients :
        /\ client[c] = "idle" /\ rd = "listen"
        /\ client' = [client EXCEPT ![c] = "open"]
        /\ rd' = "serve" /\ peer' = c /\ order' = Append(order, c)
        /\ UNCHANGED <<tries, written, ipipe, bufReader, line, inQ, sentOn>>
  BY DEF I!Connect
<1>2. /\ client \in [I!Clients -> {"idle", "open", "done", "failed", "away"}]
      /\ order \in Seq(I!Clients) /\ line = <<>> /\ bufReader = <<>> /\ ipipe = <<>>
      /\ \A d \in I!Clients : client[d] # "open"
  BY <1>1 DEF InInv, InType, Turns
<1>3. /\ order' \in Seq(I!Clients) /\ Len(order') = Len(order) + 1 /\ Len(order) \in Nat
      /\ order'[Len(order) + 1] = c /\ Range(order') = Range(order) \cup {c}
  BY <1>1, <1>2, AppendProperties, LenProperties, RangeAppend
<1>4. order' # <<>> /\ peer' = order'[Len(order')]
  BY <1>1, <1>3, EmptySeq
<1>5. InType'
  BY <1>1, <1>2, <1>3 DEF InInv, InType
<1>6. Turns'
  <2>1. \A d \in I!Clients : client'[d] = "open" => d = c
    BY <1>1, <1>2
  <2>2. Range(<<>>) = {}
    BY RangeEmpty
  <2>. QED  BY <1>1, <1>2, <1>3, <1>4, <2>1, <2>2 DEF InInv, Turns
<1>7. UnderWay' = UnderWay /\ InChunks' = InChunks /\ Unsent' = Unsent
  BY <1>1 DEF UnderWay, InChunks, Unsent
<1>8. Written' /\ FirstWhole'
  BY <1>1, <1>7 DEF InInv, Written, FirstWhole
<1>9. \A g, h : Earlier(order, g, h) => Earlier(order', g, h)
  BY <1>1, <1>2, EarlierStays
<1>10. InOrder(order)'
  <2>1. InOrder(order)
    BY DEF InInv
  <2>2. \A A, B : AllBefore(order, A, B) => AllBefore(order', A, B)
    BY <1>9 DEF AllBefore
  <2>3. \A s : Sorted(order, s) => Sorted(order', s)
    BY <1>9 DEF Sorted
  <2>4. InOrder(order')
    BY <1>9, <2>1, <2>2, <2>3, Zenon DEF InOrder
  <2>. QED  BY <1>1, <1>7, <2>4 DEF InOrder
<1>. QED  BY <1>5, <1>6, <1>8, <1>10 DEF InInv


\* A sequence that is cut: its parts hold what it held, in its order, and its
\* first frame is not torn.
LEMMA CutIn ==
  ASSUME NEW s \in Seq(Halves), NEW k \in 1 .. Len(s), k >= 2 \/ k = Len(s),
         NEW o, Whole(s), Sorted(o, s),
         NEW p \in Seq(Halves), NEW q \in Seq(Halves),
         Range(p) \cup Range(q) = Range(s),
         Len(p) = k, Len(q) = Len(s) - k, \A i \in 1 .. k : p[i] = s[i],
         \A i \in 1 .. Len(s) - k : q[i] = s[k + i]
  PROVE  /\ p # <<>>
         /\ Sorted(o, q) /\ AllBefore(o, Range(p), Range(q))
         /\ Whole(p) /\ \A h \in Range(q) : h.k # 1
<1>1. /\ Len(s) \in Nat /\ k \in Nat /\ k >= 1 /\ k <= Len(s)
      /\ \A i \in 1 .. Len(s) : s[i] \in Halves
  BY LenProperties, ElementOfSeq
<1>2. p # <<>>
  BY <1>1, EmptySeq
<1>3. /\ \A h \in Range(p) : \E i \in 1 .. k : h = s[i]
      /\ \A h \in Range(q) : \E i \in 1 .. Len(s) - k : h = s[k + i]
  <2>1. \A h \in Range(p) : \E i \in 1 .. Len(p) : p[i] = h
    BY RangeIs
  <2>2. \A h \in Range(q) : \E i \in 1 .. Len(q) : q[i] = h
    BY RangeIs
  <2>3. \A h \in Range(p) : \E i \in 1 .. k : h = s[i]
    BY <2>1
  <2>4. ASSUME NEW h \in Range(q) PROVE \E i \in 1 .. Len(s) - k : h = s[k + i]
    <3>1. PICK i \in 1 .. Len(q) : q[i] = h
      BY <2>2
    <3>2. i \in 1 .. Len(s) - k /\ h = s[k + i]
      BY <3>1
    <3>. QED  BY <3>2
  <2>. QED  BY <2>3, <2>4
<1>4. Sorted(o, q)
  <2>. SUFFICES ASSUME NEW i \in 1 .. Len(s) - k, NEW j \in 1 .. Len(s) - k, i < j
                PROVE  Earlier(o, s[k + i], s[k + j])
    BY DEF Sorted
  <2>1. k + i \in 1 .. Len(s) /\ k + j \in 1 .. Len(s) /\ k + i < k + j
    BY <1>1
  <2>. QED  BY <2>1 DEF Sorted
<1>5. AllBefore(o, Range(p), Range(q))
  <2>. SUFFICES ASSUME NEW i \in 1 .. k, NEW j \in 1 .. Len(s) - k
                PROVE  Earlier(o, s[i], s[k + j])
    BY <1>3 DEF AllBefore
  <2>1. i \in 1 .. Len(s) /\ k + j \in 1 .. Len(s) /\ i < k + j
    BY <1>1
  <2>. QED  BY <2>1 DEF Sorted
<1>6. \A i \in 1 .. Len(s) : s[i].k = 1 => i <= k /\ k >= 2
  <2>. SUFFICES ASSUME NEW i \in 1 .. Len(s), s[i].k = 1 PROVE i <= k /\ k >= 2
    OBVIOUS
  <2>1. Len(s) >= 2 /\ i = s[i].half
    BY DEF Whole
  <2>2. s[i].half \in {1, 2}
    BY <1>1 DEF Halves
  <2>. QED  BY <1>1, <2>1, <2>2
<1>7. Whole(p)
  <2>. SUFFICES ASSUME NEW i \in 1 .. k, s[i].k = 1
                PROVE  /\ k >= 2 /\ i = s[i].half /\ p[1] = I!Half(s[i].from, 1, 1)
                       /\ p[2] = I!Half(s[i].from, 1, 2)
    BY DEF Whole
  <2>1. i \in 1 .. Len(s)
    BY <1>1
  <2>2. k >= 2 /\ 1 \in 1 .. k /\ 2 \in 1 .. k
    BY <1>1, <1>6, <2>1
  <2>3. /\ i = s[i].half /\ s[1] = I!Half(s[i].from, 1, 1)
        /\ s[2] = I!Half(s[i].from, 1, 2)
    BY <2>1 DEF Whole
  <2>4. p[1] = s[1] /\ p[2] = s[2]
    BY <2>2
  <2>. QED  BY <2>2, <2>3, <2>4
<1>8. \A h \in Range(q) : h.k # 1
  <2>. SUFFICES ASSUME NEW h \in Range(q) PROVE h.k # 1
    OBVIOUS
  <2>3. PICK j \in 1 .. Len(s) - k : h = s[k + j]
    BY <1>3
  <2>1. k + j \in 1 .. Len(s) /\ ~ (k + j <= k)
    BY <1>1
  <2>. QED  BY <1>6, <2>1, <2>3
<1>. QED  BY <1>2, <1>4, <1>5, <1>7, <1>8

LEMMA ReadBufIn ==
  ASSUME InInv, I!ReadBuf
  PROVE  InInv'
<1>. DEFINE s == IF bufReader = <<>> THEN ipipe ELSE bufReader
            n == IF Len(s) < ChunkMax THEN Len(s) ELSE ChunkMax
<1>1. /\ rd = "serve" /\ rd' = "send" /\ s # <<>>
      /\ line' = SubSeq(s, 1, n) /\ bufReader' = SubSeq(s, n + 1, Len(s))
      /\ ipipe' = IF bufReader = <<>> THEN <<>> ELSE ipipe
      /\ UNCHANGED <<client, tries, written, peer, order, inQ, sentOn>>
  BY DEF I!ReadBuf, I!Readable
<1>2. /\ bufReader \in Seq(Halves) /\ ipipe \in Seq(Halves) /\ <<>> \in Seq(Halves)
      /\ line = <<>> /\ Range(<<>>) = {} /\ Len(<<>>) = 0
  BY <1>1, RangeEmpty, EmptySeq DEF InInv, InType, Turns
<1>3. /\ s \in Seq(Halves) /\ ipipe' \in Seq(Halves)
      /\ Range(s) \cup Range(ipipe') = Range(bufReader) \cup Range(ipipe)
  BY <1>1, <1>2
<1>4. Whole(s) /\ Whole(ipipe')
  <2>1. Whole(ipipe) /\ \A h \in Range(bufReader) : h.k # 1
    BY DEF InInv, FirstWhole
  <2>2. Whole(<<>>)
    BY <1>2 DEF Whole
  <2>3. \A i \in 1 .. Len(bufReader) : bufReader[i] \in Range(bufReader)
    BY <1>2, RangeIs
  <2>4. Whole(bufReader)
    BY <2>1, <2>3 DEF Whole
  <2>. QED  BY <1>1, <2>1, <2>2, <2>4
<1>5. /\ Sorted(order, s) /\ Sorted(order, ipipe')
      /\ AllBefore(order, Range(s), Range(ipipe'))
  <2>1. /\ Sorted(order, bufReader) /\ Sorted(order, ipipe)
        /\ AllBefore(order, Range(bufReader), Range(ipipe))
    BY DEF InInv, InOrder
  <2>2. Sorted(order, <<>>) /\ \A A : AllBefore(order, A, {})
    BY <1>2 DEF Sorted, AllBefore
  <2>. QED  BY <1>1, <1>2, <2>1, <2>2
<1>6. n \in 1 .. Len(s) /\ (n >= 2 \/ n = Len(s))
  <2>1. Len(s) \in Nat /\ Len(s) # 0
    BY <1>1, <1>3, LenProperties, EmptySeq
  <2>2. ChunkMax \in Nat /\ ChunkMax >= 2
    BY ClientAssumption
  <2>. DEFINE l == Len(s)
  <2>. HIDE DEF l
  <2>3. l \in Nat /\ l # 0 => (IF l < ChunkMax THEN l ELSE ChunkMax) \in 1 .. l
    BY <2>2
  <2>4. \/ (IF l < ChunkMax THEN l ELSE ChunkMax) >= 2
        \/ (IF l < ChunkMax THEN l ELSE ChunkMax) = l
    BY <2>2
  <2>. QED  BY <2>1, <2>3, <2>4 DEF l
<1>. HIDE DEF s, n
<1>. DEFINE p == SubSeq(s, 1, n)  q == SubSeq(s, n + 1, Len(s))
<1>13. /\ p \in Seq(Halves) /\ q \in Seq(Halves) /\ Range(p) \cup Range(q) = Range(s)
       /\ Len(p) = n /\ Len(q) = Len(s) - n /\ \A i \in 1 .. n : p[i] = s[i]
       /\ \A i \in 1 .. Len(s) - n : q[i] = s[n + i]
       /\ line' = p /\ bufReader' = q
  BY <1>1, <1>3, <1>6, CutSeq, RangeCut
<1>. HIDE DEF p, q
<1>14. /\ p # <<>>
       /\ Sorted(order, q) /\ AllBefore(order, Range(p), Range(q))
       /\ Whole(p) /\ \A h \in Range(q) : h.k # 1
  <2>1. /\ s \in Seq(Halves) /\ p \in Seq(Halves) /\ q \in Seq(Halves)
        /\ Range(p) \cup Range(q) = Range(s)
    BY <1>3, <1>13
  <2>2. /\ Len(p) = n /\ Len(q) = Len(s) - n /\ \A i \in 1 .. n : p[i] = s[i]
        /\ \A i \in 1 .. Len(s) - n : q[i] = s[n + i]
    BY <1>13
  <2>3. n \in 1 .. Len(s) /\ (n >= 2 \/ n = Len(s)) /\ Whole(s) /\ Sorted(order, s)
    BY <1>4, <1>5, <1>6
  <2>. QED  BY <2>1, <2>2, <2>3, CutIn, Zenon
<1>7. /\ line' \in Seq(Halves) /\ bufReader' \in Seq(Halves) /\ line' # <<>>
      /\ Range(line') \cup Range(bufReader') = Range(s)
      /\ Sorted(order, bufReader') /\ AllBefore(order, Range(line'), Range(bufReader'))
      /\ Whole(line') /\ \A h \in Range(bufReader') : h.k # 1
  BY <1>13, <1>14
<1>8. UnderWay' = UnderWay /\ InChunks' = InChunks /\ Unsent' = Unsent
  BY <1>1, <1>2, <1>3, <1>7 DEF UnderWay, InChunks, Unsent
<1>9. InType'
  BY <1>1, <1>3, <1>7 DEF InInv, InType
<1>10. Turns'
  <2>1. Range(bufReader') \cup Range(ipipe') \subseteq Range(bufReader) \cup Range(ipipe)
    BY <1>3, <1>7
  <2>. QED  BY <1>1, <1>7, <2>1 DEF InInv, Turns
<1>11. Written' /\ FirstWhole'
  BY <1>1, <1>4, <1>7, <1>8 DEF InInv, Written, FirstWhole
<1>12. InOrder(order)'
  <2>1. AllBefore(order, Range(line'), Range(bufReader') \cup Range(ipipe'))
    BY <1>5, <1>7 DEF AllBefore
  <2>2. AllBefore(order, Range(bufReader'), Range(ipipe'))
    BY <1>5, <1>7 DEF AllBefore
  <2>. QED  BY <1>1, <1>5, <1>7, <1>8, <2>1, <2>2 DEF InInv, InOrder
<1>. QED  BY <1>9, <1>10, <1>11, <1>12 DEF InInv

LEMMA SendLineIn ==
  ASSUME InInv, I!SendLine
  PROVE  InInv'
<1>1. /\ rd = "send" /\ rd' = "serve" /\ inQ' = Append(inQ, line) /\ line' = <<>>
      /\ UNCHANGED <<client, tries, written, peer, ipipe, bufReader, order, sentOn>>
  BY DEF I!SendLine
<1>2. /\ inQ \in Seq(Seq(Halves)) /\ line \in Seq(Halves) /\ line # <<>>
      /\ <<>> \in Seq(Halves) /\ Range(<<>>) = {} /\ Len(<<>>) = 0
  BY <1>1, RangeEmpty, EmptySeq DEF InInv, InType, Turns
<1>3. /\ inQ' \in Seq(Seq(Halves)) /\ Range(inQ') = Range(inQ) \cup {line}
      /\ Len(inQ) \in Nat /\ Len(inQ') = Len(inQ) + 1
      /\ inQ'[Len(inQ) + 1] = line /\ \A i \in 1 .. Len(inQ) : inQ'[i] = inQ[i]
  BY <1>1, <1>2, RangeAppend, AppendProperties, LenProperties
<1>4. /\ InChunks' = InChunks \cup Range(line)
      /\ Unsent' = Range(bufReader) \cup Range(ipipe)
  BY <1>1, <1>2, <1>3 DEF InChunks, Unsent
<1>5. UnderWay' = UnderWay
  BY <1>4 DEF UnderWay, Unsent
<1>6. InType' /\ Turns'
  BY <1>1, <1>2, <1>3 DEF InInv, InType, Turns
<1>7. Written' /\ FirstWhole'
  <2>1. Whole(<<>>)
    BY <1>2 DEF Whole
  <2>. QED  BY <1>1, <1>2, <1>3, <1>5, <2>1 DEF InInv, Written, FirstWhole
<1>8. InOrder(order)'
  <2>1. /\ AllBefore(order, InChunks, Unsent)
        /\ AllBefore(order, Range(line), Range(bufReader) \cup Range(ipipe))
    BY DEF InInv, InOrder
  <2>2. AllBefore(order, InChunks', Unsent')
    BY <1>4, <2>1 DEF AllBefore, Unsent
  <2>3. AllBefore(order, Range(line'), Range(bufReader) \cup Range(ipipe))
    BY <1>1, <1>2 DEF AllBefore
  <2>4. ASSUME NEW i \in 1 .. Len(inQ'), NEW j \in 1 .. Len(inQ'), i < j
        PROVE  AllBefore(order, Range(inQ'[i]), Range(inQ'[j]))
    <3>1. i \in 1 .. Len(inQ) /\ (j \in 1 .. Len(inQ) \/ j = Len(inQ) + 1)
      <4>. DEFINE l == Len(inQ)  m == Len(inQ')
      <4>1. l \in Nat /\ m = l + 1 /\ i \in 1 .. m /\ j \in 1 .. m /\ i < j
        BY <1>3, <2>4
      <4>. HIDE DEF l, m
      <4>2. i \in 1 .. l /\ (j \in 1 .. l \/ j = l + 1)
        BY <4>1
      <4>. QED  BY <4>2 DEF l
    <3>2. CASE j \in 1 .. Len(inQ)
      BY <1>3, <2>4, <3>1, <3>2 DEF InInv, InOrder
    <3>3. CASE j = Len(inQ) + 1
      <4>1. inQ[i] \in Range(inQ)
        BY <1>2, <3>1, RangeIs
      <4>2. Range(inQ[i]) \subseteq InChunks /\ Range(line) \subseteq Unsent
        BY <4>1 DEF InChunks, Unsent
      <4>3. AllBefore(order, Range(inQ[i]), Range(line))
        BY <2>1, <4>2 DEF AllBefore
      <4>. QED  BY <1>3, <3>1, <3>3, <4>3
    <3>. QED  BY <3>1, <3>2, <3>3
  <2>. QED  BY <1>1, <1>5, <2>2, <2>3, <2>4 DEF InInv, InOrder
<1>. QED  BY <1>6, <1>7, <1>8 DEF InInv

LEMMA ReadEofIn ==
  ASSUME InInv, I!ReadEof
  PROVE  InInv'
<1>1. /\ rd = "serve" /\ client[peer] = "done" /\ ipipe = <<>> /\ bufReader = <<>>
      /\ rd' = "create" /\ peer' = I!Nobody
      /\ UNCHANGED <<client, tries, written, ipipe, bufReader, line, order, inQ, sentOn>>
  BY DEF I!ReadEof
<1>2. line = <<>> /\ Range(<<>>) = {}
  BY <1>1, RangeEmpty DEF InInv, Turns
<1>3. InType'
  BY <1>1 DEF InInv, InType
<1>4. Turns'
  <2>1. \A c \in I!Clients : client[c] # "open"
    BY <1>1 DEF InInv, Turns
  <2>. QED  BY <1>1, <1>2, <2>1 DEF InInv, Turns
<1>5. UnderWay' = UnderWay /\ InChunks' = InChunks /\ Unsent' = Unsent
  BY <1>1 DEF UnderWay, InChunks, Unsent
<1>6. Written' /\ FirstWhole'
  BY <1>1, <1>5 DEF InInv, Written, FirstWhole
<1>7. InOrder(order)'
  BY <1>1, <1>5 DEF InInv, InOrder
<1>. QED  BY <1>3, <1>4, <1>6, <1>7 DEF InInv


\* What the client connected last writes comes after all that was written before.
LEMMA WrittenLast ==
  ASSUME InInv, NEW c \in I!Clients, client[c] = "open",
         NEW g, g.from \in I!Clients, g.k \in Nat \ {0}, g.k <= written[g.from],
         NEW h, h.from = c, h.k = written[c] + 1
  PROVE  Earlier(order, g, h)
<1>1. /\ order \in Seq(I!Clients) /\ order # <<>> /\ order[Len(order)] = c
      /\ written \in [I!Clients -> Nat]
      /\ \A d \in I!Clients : written[d] > 0 => d \in Range(order)
  BY DEF InInv, InType, Turns
<1>2. CASE g.from = c
  <2>1. g.k < h.k
    BY <1>1, <1>2
  <2>. QED  BY <1>2, <2>1 DEF Earlier
<1>3. CASE g.from # c
  <2>1. written[g.from] > 0
    BY <1>1
  <2>2. PICK i \in 1 .. Len(order) : order[i] = g.from
    BY <1>1, <2>1, RangeIs
  <2>3. Len(order) \in Nat /\ i # Len(order)
    BY <1>1, <1>3, <2>2, LenProperties
  <2>4. Len(order) \in 1 .. Len(order) /\ i < Len(order)
    BY <2>3
  <2>5. Precedes(order, g.from, c)
    BY <1>1, <2>2, <2>4 DEF Precedes
  <2>. QED  BY <2>5 DEF Earlier
<1>. QED  BY <1>2, <1>3

\* A frame behind what is in the pipe.
LEMMA TwoMore ==
  ASSUME NEW s \in Seq(Halves), NEW a \in Halves, NEW b \in Halves
  PROVE  /\ s \o <<a, b>> \in Seq(Halves) /\ Len(s) \in Nat
         /\ Range(s \o <<a, b>>) = Range(s) \cup {a, b}
         /\ Len(s \o <<a, b>>) = Len(s) + 2
         /\ \A i \in 1 .. Len(s) : (s \o <<a, b>>)[i] = s[i]
         /\ (s \o <<a, b>>)[Len(s) + 1] = a /\ (s \o <<a, b>>)[Len(s) + 2] = b
<1>. DEFINE t == Append(s, a)  u == Append(t, b)
<1>1. /\ t \in Seq(Halves) /\ Range(t) = Range(s) \cup {a} /\ Len(t) = Len(s) + 1
      /\ t[Len(s) + 1] = a /\ \A i \in 1 .. Len(s) : t[i] = s[i]
  BY RangeAppend, AppendProperties
<1>2. Len(s) \in Nat
  BY LenProperties
<1>3. <<a>> \in Seq(Halves) /\ <<a, b>> = Append(<<a>>, b) /\ s \o <<a>> = t
  BY AppendIsConcat
<1>4. s \o <<a, b>> = u
  BY <1>3, ConcatAppend
<1>. HIDE DEF t
<1>5. /\ u \in Seq(Halves) /\ Range(u) = Range(t) \cup {b} /\ Len(u) = Len(t) + 1
      /\ u[Len(t) + 1] = b /\ \A i \in 1 .. Len(t) : u[i] = t[i]
  BY <1>1, RangeAppend, AppendProperties
<1>. HIDE DEF u
<1>6. /\ Len(u) = Len(s) + 2 /\ \A i \in 1 .. Len(s) : u[i] = s[i]
      /\ u[Len(s) + 1] = a /\ u[Len(s) + 2] = b
  BY <1>1, <1>2, <1>5
<1>. QED  BY <1>1, <1>2, <1>4, <1>5, <1>6

LEMMA WriteFrameIn ==
  ASSUME InInv, I!WriteFrame
  PROVE  InInv'
<1>1. PICK c \in I!Clients :
        /\ client[c] = "open"
        /\ written' = [written EXCEPT ![c] = @ + 1]
        /\ ipipe' = ipipe \o <<I!Half(c, written'[c], 1), I!Half(c, written'[c], 2)>>
        /\ UNCHANGED <<client, tries, rd, peer, bufReader, line, order, inQ, sentOn>>
  BY DEF I!WriteFrame
<1>. DEFINE w == written[c]  a == I!Half(c, w + 1, 1)  b == I!Half(c, w + 1, 2)
<1>2. /\ written \in [I!Clients -> Nat] /\ w \in Nat /\ ipipe \in Seq(Halves)
      /\ written'[c] = w + 1 /\ \A d \in I!Clients : d # c => written'[d] = written[d]
  BY <1>1 DEF InInv, InType
<1>3. /\ a \in Halves /\ a.from = c /\ a.k = w + 1 /\ a.half = 1
      /\ b \in Halves /\ b.from = c /\ b.k = w + 1 /\ b.half = 2
  BY <1>2 DEF Halves, I!Half
<1>4. ipipe' = ipipe \o <<a, b>>
  BY <1>1, <1>2
<1>5. written' \in [I!Clients -> Nat] /\ \A d \in I!Clients : written[d] <= written'[d]
  BY <1>1, <1>2
<1>. HIDE DEF w, a, b
<1>6. /\ ipipe' \in Seq(Halves) /\ Len(ipipe) \in Nat /\ Range(ipipe') = Range(ipipe) \cup {a, b}
      /\ Len(ipipe') = Len(ipipe) + 2 /\ \A i \in 1 .. Len(ipipe) : ipipe'[i] = ipipe[i]
      /\ ipipe'[Len(ipipe) + 1] = a /\ ipipe'[Len(ipipe) + 2] = b
  BY <1>2, <1>3, <1>4, TwoMore
<1>7. /\ InChunks' = InChunks /\ Unsent' = Unsent \cup {a, b}
      /\ UnderWay' = UnderWay \cup {a, b}
  BY <1>1, <1>6 DEF UnderWay, InChunks, Unsent
<1>8. \A h \in UnderWay : h \in Halves
  <2>1. /\ inQ \in Seq(Seq(Halves)) /\ line \in Seq(Halves) /\ bufReader \in Seq(Halves)
        /\ ipipe \in Seq(Halves)
    BY DEF InInv, InType
  <2>2. /\ Range(inQ) \subseteq Seq(Halves) /\ Range(line) \subseteq Halves
        /\ Range(bufReader) \subseteq Halves /\ Range(ipipe) \subseteq Halves
    BY <2>1, RangeIs
  <2>3. \A chunk \in Range(inQ) : Range(chunk) \subseteq Halves
    BY <2>2, RangeIs
  <2>. QED  BY <2>2, <2>3 DEF UnderWay, InChunks, Unsent
<1>9. ASSUME NEW h \in UnderWay PROVE Earlier(order, h, a) /\ Earlier(order, h, b)
  <2>1. h \in Halves /\ h.k <= written[h.from]
    BY <1>8 DEF InInv, Written
  <2>2. h.from \in I!Clients /\ h.k \in Nat \ {0}
    BY <2>1 DEF Halves
  <2>. QED  BY <1>1, <1>3, <2>1, <2>2, WrittenLast DEF w
<1>10. InType'
  BY <1>1, <1>5, <1>6 DEF InInv, InType
<1>11. peer = c /\ rd \in {"serve", "send"} /\ c \in Range(order)
  <2>1. /\ peer = c /\ rd \in {"serve", "send"} /\ order # <<>> /\ peer = order[Len(order)]
        /\ order \in Seq(I!Clients)
    BY <1>1 DEF InInv, Turns, InType
  <2>2. Len(order) \in 1 .. Len(order)
    BY <2>1, LenProperties, EmptySeq
  <2>. QED  BY <2>1, <2>2, RangeIs
<1>12. Turns'
  <2>1. \A d \in I!Clients : written'[d] > 0 => d \in Range(order')
    BY <1>1, <1>2, <1>11 DEF InInv, Turns
  <2>2. \A h \in Range(bufReader') \cup Range(ipipe') : h.from = peer'
    BY <1>1, <1>3, <1>6, <1>11 DEF InInv, Turns
  <2>. QED  BY <1>1, <1>11, <2>1, <2>2 DEF InInv, Turns
<1>13. Written'
  <2>1. ASSUME NEW h \in UnderWay' PROVE h.k <= written'[h.from]
    <3>1. CASE h \in UnderWay
      <4>1. h \in Halves /\ h.k <= written[h.from]
        BY <1>8, <3>1 DEF InInv, Written
      <4>2. h.from \in I!Clients /\ h.k \in Nat
        BY <4>1 DEF Halves
      <4>. QED  BY <1>2, <1>5, <4>1, <4>2
    <3>2. CASE h \in {a, b}
      BY <1>2, <1>3, <3>2
    <3>. QED  BY <1>7, <3>1, <3>2
  <2>2. ASSUME NEW i \in 1 .. Len(sentOn)
        PROVE  /\ sentOn[i].k <= written'[sentOn[i].from]
               /\ sentOn[i].k = 0 => written'[sentOn[i].from] > 1
    <3>1. sentOn[i] \in Given
      BY ElementOfSeq DEF InInv, InType
    <3>2. sentOn[i].from \in I!Clients /\ sentOn[i].k \in Nat
      BY <3>1 DEF Given
    <3>3. /\ sentOn[i].k <= written[sentOn[i].from]
          /\ sentOn[i].k = 0 => written[sentOn[i].from] > 1
      BY DEF InInv, Written
    <3>. QED  BY <1>2, <1>5, <3>2, <3>3
  <2>. QED  BY <1>1, <2>1, <2>2 DEF Written
<1>14. w = 0 => ipipe = <<>>
  <2>. SUFFICES ASSUME w = 0, ipipe # <<>> PROVE FALSE
    OBVIOUS
  <2>1. PICK h : h \in Range(ipipe)
    BY <1>2, RangeIs
  <2>2. h \in UnderWay
    BY <2>1 DEF UnderWay, Unsent
  <2>3. h.from = c /\ h.k <= written[h.from] /\ h \in Halves
    BY <1>8, <1>11, <2>1, <2>2 DEF InInv, Turns, Written
  <2>. QED  BY <2>3 DEF w, Halves
<1>15. FirstWhole'
  <2>1. Whole(ipipe')
    <3>. SUFFICES ASSUME NEW i \in 1 .. Len(ipipe'), ipipe'[i].k = 1
                  PROVE  /\ Len(ipipe') >= 2 /\ i = ipipe'[i].half
                         /\ ipipe'[1] = I!Half(ipipe'[i].from, 1, 1)
                         /\ ipipe'[2] = I!Half(ipipe'[i].from, 1, 2)
      BY DEF Whole
    <3>1. \/ i \in 1 .. Len(ipipe)
          \/ i = Len(ipipe) + 1 /\ ipipe'[i] = a
          \/ i = Len(ipipe) + 2 /\ ipipe'[i] = b
      BY <1>6
    <3>2. CASE i \in 1 .. Len(ipipe)
      <4>1. ipipe'[i] = ipipe[i]
        BY <1>6, <3>2
      <4>2. /\ Len(ipipe) >= 2 /\ i = ipipe[i].half /\ ipipe[1] = I!Half(ipipe[i].from, 1, 1)
            /\ ipipe[2] = I!Half(ipipe[i].from, 1, 2)
        BY <3>2, <4>1 DEF InInv, FirstWhole, Whole
      <4>3. Len(ipipe') >= 2 /\ 1 \in 1 .. Len(ipipe) /\ 2 \in 1 .. Len(ipipe)
        BY <1>6, <4>2
      <4>4. ipipe'[1] = ipipe[1] /\ ipipe'[2] = ipipe[2]
        BY <1>6, <4>3
      <4>. QED  BY <4>1, <4>2, <4>3, <4>4
    <3>3. CASE ipipe'[i] \in {a, b} /\ i \in {Len(ipipe) + 1, Len(ipipe) + 2}
      <4>1. w = 0
        BY <1>2, <1>3, <3>3
      <4>2. Len(ipipe) = 0
        BY <1>14, <4>1, EmptySeq
      <4>3. Len(ipipe') = 2 /\ ipipe'[1] = a /\ ipipe'[2] = b
        BY <1>6, <4>2
      <4>4. i = ipipe'[i].half /\ ipipe'[i].from = c
        BY <1>3, <3>1, <4>2, <4>3
      <4>5. a = I!Half(c, 1, 1) /\ b = I!Half(c, 1, 2)
        BY <4>1 DEF a, b
      <4>. QED  BY <4>3, <4>4, <4>5
    <3>. QED  BY <3>1, <3>2, <3>3
  <2>2. ASSUME NEW d \in I!Clients, written'[d] > 0
        PROVE  \/ I!Frame(d, 1) \in Range(sentOn')
               \/ {I!Half(d, 1, 1), I!Half(d, 1, 2)} \subseteq UnderWay'
    <3>1. CASE written[d] > 0
      BY <1>1, <1>7, <3>1 DEF InInv, FirstWhole
    <3>2. CASE ~ (written[d] > 0)
      <4>1. d = c /\ w = 0
        BY <1>2, <2>2, <3>2 DEF w
      <4>2. a = I!Half(d, 1, 1) /\ b = I!Half(d, 1, 2)
        BY <4>1 DEF a, b
      <4>. QED  BY <1>7, <4>2
    <3>. QED  BY <3>1, <3>2
  <2>. QED  BY <1>1, <2>1, <2>2 DEF InInv, FirstWhole
<1>16. InOrder(order)'
  <2>1. InOrder(order)
    BY DEF InInv
  <2>2. Earlier(order, a, b)
    BY <1>3 DEF Earlier
  <2>3. Sorted(order, ipipe')
    <3>. SUFFICES ASSUME NEW i \in 1 .. Len(ipipe'), NEW j \in 1 .. Len(ipipe'), i < j
                  PROVE  Earlier(order, ipipe'[i], ipipe'[j])
      BY DEF Sorted
    <3>. DEFINE l == Len(ipipe)
    <3>1. l \in Nat /\ i \in 1 .. l + 2 /\ j \in 1 .. l + 2 /\ i < j
      BY <1>6
    <3>2. \/ i \in 1 .. l /\ j \in 1 .. l
          \/ i \in 1 .. l /\ j \in {l + 1, l + 2}
          \/ i = l + 1 /\ j = l + 2
      <4>. HIDE DEF l
      <4>. QED  BY <3>1
    <3>3. CASE i \in 1 .. l /\ j \in 1 .. l
      BY <1>6, <2>1, <3>3 DEF InOrder, Sorted
    <3>4. CASE i \in 1 .. l /\ j \in {l + 1, l + 2}
      <4>1. ipipe[i] \in Range(ipipe)
        BY <1>2, <3>4, RangeIs
      <4>2. ipipe[i] \in UnderWay
        BY <4>1 DEF UnderWay, Unsent
      <4>3. ipipe'[i] = ipipe[i] /\ ipipe'[j] \in {a, b}
        BY <1>6, <3>4
      <4>. QED  BY <1>9, <4>2, <4>3
    <3>5. CASE i = l + 1 /\ j = l + 2
      BY <1>6, <2>2, <3>5
    <3>. QED  BY <3>2, <3>3, <3>4, <3>5
  <2>4. \A A : A \subseteq UnderWay => AllBefore(order, A, {a, b})
    BY <1>9 DEF AllBefore
  <2>5. \A A, B, C : AllBefore(order, A, B) /\ AllBefore(order, A, C)
                       => AllBefore(order, A, B \cup C)
    BY DEF AllBefore
  <2>6. /\ InChunks \subseteq UnderWay /\ Range(line) \subseteq UnderWay
        /\ Range(bufReader) \subseteq UnderWay
    BY DEF UnderWay, Unsent
  <2>7. AllBefore(order, InChunks, Unsent \cup {a, b})
    BY <2>1, <2>4, <2>5, <2>6 DEF InOrder
  <2>8. AllBefore(order, Range(line), Range(bufReader) \cup Range(ipipe'))
    <3>1. AllBefore(order, Range(line), (Range(bufReader) \cup Range(ipipe)) \cup {a, b})
      BY <2>1, <2>4, <2>5, <2>6 DEF InOrder
    <3>. QED  BY <1>6, <3>1 DEF AllBefore
  <2>9. AllBefore(order, Range(bufReader), Range(ipipe'))
    <3>1. AllBefore(order, Range(bufReader), Range(ipipe) \cup {a, b})
      BY <2>1, <2>4, <2>5, <2>6 DEF InOrder
    <3>. QED  BY <1>6, <3>1
  <2>10. ASSUME NEW i \in 1 .. Len(sentOn), sentOn[i].k # 0, NEW h \in UnderWay'
         PROVE  Earlier(order, Stands(sentOn[i]), h)
    <3>1. CASE h \in UnderWay
      BY <2>1, <2>10, <3>1 DEF InOrder
    <3>2. CASE h \in {a, b}
      <4>. DEFINE g == Stands(sentOn[i])
      <4>1. sentOn[i] \in Given /\ sentOn[i].k <= written[sentOn[i].from]
        BY ElementOfSeq DEF InInv, InType, Written
      <4>2. g.from = sentOn[i].from /\ g.k = sentOn[i].k
        BY DEF Stands, I!Half
      <4>3. g.from \in I!Clients /\ g.k \in Nat \ {0} /\ g.k <= written[g.from]
        BY <2>10, <4>1, <4>2 DEF Given
      <4>. HIDE DEF g
      <4>4. h.from = c /\ h.k = written[c] + 1
        BY <1>3, <3>2 DEF w
      <4>5. Earlier(order, g, h)
        BY <1>1, <4>3, <4>4, WrittenLast
      <4>. QED  BY <4>5 DEF g
    <3>. QED  BY <1>7, <3>1, <3>2
  <2>. QED  BY <1>1, <1>7, <2>1, <2>3, <2>7, <2>8, <2>9, <2>10 DEF InOrder
<1>. QED  BY <1>10, <1>12, <1>13, <1>15, <1>16 DEF InInv


\* The frame at the start of a chunk, and what it may be taken for.
LEMMA DecodedIs ==
  ASSUME NEW chunk \in Seq(Halves), chunk # <<>>, Whole(chunk), NEW d \in I!Decoded(chunk)
  PROVE  /\ chunk[1] \in Halves
         /\ \A h \in Range(chunk) : h.k = 1 => chunk[1] = I!Half(h.from, 1, 1)
         /\ \/ d = <<>> /\ chunk[1].k # 1
            \/ /\ d = <<I!Frame(chunk[1].from, 0)>> /\ chunk[1].k > 1
            \/ /\ d = <<I!Frame(chunk[1].from, chunk[1].k)>>
               /\ Stands(I!Frame(chunk[1].from, chunk[1].k)) = chunk[1]
<1>1. /\ Head(chunk) \in Halves /\ Head(chunk) = chunk[1] /\ 1 \in 1 .. Len(chunk)
      /\ Len(chunk) \in Nat
  BY RangeFirst, LenProperties
<1>2. ASSUME NEW h \in Range(chunk), h.k = 1
      PROVE  chunk[1] = I!Half(h.from, 1, 1)
  <2>1. PICK i \in 1 .. Len(chunk) : chunk[i] = h
    BY RangeIs
  <2>. QED  BY <1>2, <2>1 DEF Whole
<1>. DEFINE first == chunk[1]
<1>3. first \in Halves /\ first.k \in Nat \ {0} /\ first.half \in {1, 2} /\ first.from \in I!Clients
  BY <1>1 DEF Halves
<1>4. first.k = 1 => Len(chunk) >= 2 /\ first.half = 1
  BY <1>1 DEF Whole
<1>5. \/ first.half = 2 /\ d \in {<<>>, <<I!Frame(first.from, 0)>>}
      \/ first.half # 2 /\ Len(chunk) = 1 /\ d = <<>>
      \/ first.half # 2 /\ d = <<I!Frame(first.from, first.k)>>
  BY <1>1 DEF I!Decoded
<1>6. first.half = 1 => Stands(I!Frame(first.from, first.k)) = first
  <2>1. Stands(I!Frame(first.from, first.k)) = [from |-> first.from, k |-> first.k, half |-> 1]
    BY DEF Stands, I!Frame, I!Half
  <2>. QED  BY <1>1, <2>1 DEF Halves
<1>. HIDE DEF first
<1>7. \/ d = <<>> /\ first.k # 1
      \/ d = <<I!Frame(first.from, 0)>> /\ first.k > 1
      \/ /\ d = <<I!Frame(first.from, first.k)>>
         /\ Stands(I!Frame(first.from, first.k)) = first
  <2>1. CASE first.half = 2
    <3>1. first.k # 1 /\ first.k > 1
      BY <1>3, <1>4, <2>1
    <3>. QED  BY <1>5, <2>1, <3>1
  <2>2. CASE first.half = 1
    <3>1. first.half # 2
      BY <2>2
    <3>2. CASE Len(chunk) = 1 /\ d = <<>>
      <4>1. first.k # 1
        BY <1>4, <3>2
      <4>. QED  BY <3>2, <4>1
    <3>3. CASE d = <<I!Frame(first.from, first.k)>>
      BY <1>6, <2>2, <3>3
    <3>. QED  BY <1>5, <3>1, <3>2, <3>3
  <2>. QED  BY <1>3, <2>1, <2>2
<1>. QED  BY <1>2, <1>3, <1>7 DEF first

LEMMA ForwardIn ==
  ASSUME InInv, I!Forward
  PROVE  InInv'
<1>. DEFINE chunk == Head(inQ)  rest == Tail(inQ)  first == chunk[1]
<1>1. PICK d \in I!Decoded(chunk) :
        /\ inQ # <<>> /\ sentOn' = sentOn \o d /\ inQ' = rest
        /\ UNCHANGED <<client, tries, written, rd, peer, ipipe, bufReader, line, order>>
  BY DEF I!Forward, I!rdVars
<1>2. /\ inQ \in Seq(Seq(Halves)) /\ sentOn \in Seq(Given) /\ written \in [I!Clients -> Nat]
      /\ InOrder(order)
  BY DEF InInv, InType
<1>3. /\ chunk \in Seq(Halves) /\ rest \in Seq(Seq(Halves)) /\ chunk = inQ[1]
      /\ 1 \in 1 .. Len(inQ) /\ Range(inQ) = {chunk} \cup Range(rest)
      /\ \A i \in 1 .. Len(rest) : i + 1 \in 1 .. Len(inQ) /\ rest[i] = inQ[i + 1]
  BY <1>1, <1>2, RangeFirst
<1>. HIDE DEF rest
<1>4. chunk # <<>> /\ Whole(chunk)
  BY <1>3 DEF InInv, FirstWhole
<1>. HIDE DEF chunk
<1>5. /\ first \in Halves
      /\ \A h \in Range(chunk) : h.k = 1 => first = I!Half(h.from, 1, 1)
      /\ \/ d = <<>> /\ first.k # 1
         \/ /\ d = <<I!Frame(first.from, 0)>> /\ first.k > 1
         \/ /\ d = <<I!Frame(first.from, first.k)>>
            /\ Stands(I!Frame(first.from, first.k)) = first
  BY <1>3, <1>4, DecodedIs
<1>6. first \in Range(chunk)
  <2>1. 1 \in 1 .. Len(chunk)
    BY <1>3, <1>4, LenProperties, EmptySeq
  <2>. QED  BY <1>3, <2>1, RangeIs
<1>. HIDE DEF first
<1>7. first.from \in I!Clients /\ first.k \in Nat \ {0}
  BY <1>5 DEF Halves
<1>8. /\ InChunks = Range(chunk) \cup InChunks' /\ Unsent' = Unsent
      /\ UnderWay = Range(chunk) \cup UnderWay'
  BY <1>1, <1>3 DEF InChunks, Unsent, UnderWay
<1>9. first \in UnderWay /\ first.k <= written[first.from]
  BY <1>6, <1>8 DEF InInv, Written
<1>10. ASSUME NEW h \in UnderWay' PROVE Earlier(order, first, h)
  <2>1. CASE h \in Unsent
    BY <1>2, <1>6, <1>8, <2>1 DEF InOrder, AllBefore
  <2>2. CASE h \in InChunks'
    <3>1. PICK c \in Range(rest) : h \in Range(c)
      BY <1>1, <2>2 DEF InChunks
    <3>2. PICK i \in 1 .. Len(rest) : rest[i] = c
      BY <1>3, <3>1, RangeIs
    <3>3. i + 1 \in 1 .. Len(inQ) /\ inQ[i + 1] = c /\ 1 < i + 1
      BY <1>3, <3>2, LenProperties
    <3>4. AllBefore(order, Range(inQ[1]), Range(inQ[i + 1]))
      BY <1>2, <1>3, <3>3 DEF InOrder
    <3>. QED  BY <1>3, <1>6, <3>1, <3>3, <3>4 DEF AllBefore
  <2>. QED  BY <1>8, <2>1, <2>2 DEF UnderWay
\* What the chunk comes to: nothing, or one more frame.
<1>11. \/ sentOn' = sentOn /\ first.k # 1
       \/ \E f \in Given :
            /\ sentOn' = Append(sentOn, f) /\ f.from = first.from
            /\ f.k = 0 => first.k > 1
            /\ f.k # 0 => f.k = first.k /\ Stands(f) = first
  <2>1. CASE d = <<>> /\ first.k # 1
    BY <1>1, <1>2, <2>1, ConcatEmptySeq
  <2>2. ASSUME NEW f \in Given, d = <<f>> PROVE sentOn' = Append(sentOn, f)
    BY <1>1, <1>2, <2>2, AppendIsConcat
  <2>3. CASE d = <<I!Frame(first.from, 0)>> /\ first.k > 1
    <3>. DEFINE f == I!Frame(first.from, 0)
    <3>1. f \in Given /\ f.from = first.from /\ f.k = 0
      BY <1>7 DEF Given, I!Frame
    <3>. QED  BY <2>2, <2>3, <3>1
  <2>4. CASE /\ d = <<I!Frame(first.from, first.k)>>
             /\ Stands(I!Frame(first.from, first.k)) = first
    <3>. DEFINE f == I!Frame(first.from, first.k)
    <3>1. f \in Given /\ f.from = first.from /\ f.k = first.k /\ f.k # 0
      BY <1>7 DEF Given, I!Frame
    <3>. QED  BY <2>2, <2>4, <3>1
  <2>. QED  BY <1>5, <2>1, <2>3, <2>4
<1>12. /\ \A i, j \in 1 .. Len(inQ') : i < j => AllBefore(order, Range(inQ'[i]), Range(inQ'[j]))
       /\ AllBefore(order, InChunks', Unsent')
  <2>1. ASSUME NEW i \in 1 .. Len(rest), NEW j \in 1 .. Len(rest), i < j
        PROVE  AllBefore(order, Range(rest[i]), Range(rest[j]))
    <3>1. i + 1 \in 1 .. Len(inQ) /\ j + 1 \in 1 .. Len(inQ) /\ i + 1 < j + 1
      BY <1>3, <2>1, LenProperties
    <3>2. rest[i] = inQ[i + 1] /\ rest[j] = inQ[j + 1]
      BY <1>3
    <3>. QED  BY <1>2, <3>1, <3>2 DEF InOrder
  <2>2. AllBefore(order, InChunks', Unsent')
    BY <1>2, <1>8 DEF InOrder, AllBefore
  <2>. QED  BY <1>1, <2>1, <2>2
<1>13. \A c \in Range(inQ') : c # <<>> /\ Whole(c)
  BY <1>1, <1>3 DEF InInv, FirstWhole
<1>14. CASE sentOn' = sentOn /\ first.k # 1
  <2>1. InType' /\ Turns'
    BY <1>1, <1>3, <1>14 DEF InInv, InType, Turns
  <2>2. Written'
    BY <1>1, <1>8, <1>14 DEF InInv, Written
  <2>3. ASSUME NEW c \in I!Clients, NEW n \in {1, 2}, I!Half(c, 1, n) \in Range(chunk)
        PROVE  FALSE
    <3>1. I!Half(c, 1, n).k = 1 /\ I!Half(c, 1, 1).k = 1
      BY DEF I!Half
    <3>. QED  BY <1>5, <1>14, <2>3, <3>1 DEF I!Half
  <2>4. FirstWhole'
    BY <1>1, <1>8, <1>13, <1>14, <2>3 DEF InInv, FirstWhole
  <2>5. InOrder(order)'
    BY <1>1, <1>2, <1>8, <1>12, <1>14 DEF InOrder
  <2>. QED  BY <2>1, <2>2, <2>4, <2>5 DEF InInv
<1>15. ASSUME NEW f \in Given, sentOn' = Append(sentOn, f), f.from = first.from,
              f.k = 0 => first.k > 1, f.k # 0 => f.k = first.k /\ Stands(f) = first
       PROVE  InInv'
  <2>1. /\ sentOn' \in Seq(Given) /\ Range(sentOn') = Range(sentOn) \cup {f}
        /\ Len(sentOn) \in Nat /\ Len(sentOn') = Len(sentOn) + 1
        /\ sentOn'[Len(sentOn) + 1] = f /\ \A i \in 1 .. Len(sentOn) : sentOn'[i] = sentOn[i]
    BY <1>2, <1>15, RangeAppend, AppendProperties, LenProperties
  <2>2. \A i \in 1 .. Len(sentOn') :
          \/ i \in 1 .. Len(sentOn) /\ sentOn'[i] = sentOn[i]
          \/ i = Len(sentOn) + 1 /\ sentOn'[i] = f
    BY <2>1
  <2>3. InType' /\ Turns'
    BY <1>1, <1>3, <2>1 DEF InInv, InType, Turns
  <2>4. f.k <= written[f.from] /\ (f.k = 0 => written[f.from] > 1)
    BY <1>2, <1>7, <1>9, <1>15
  <2>5. Written'
    BY <1>1, <1>8, <2>2, <2>4 DEF InInv, Written
  <2>6. ASSUME NEW c \in I!Clients, NEW n \in {1, 2}, I!Half(c, 1, n) \in Range(chunk)
        PROVE  f = I!Frame(c, 1)
    <3>1. I!Half(c, 1, n).k = 1 /\ I!Half(c, 1, n).from = c
      BY DEF I!Half
    <3>2. first = I!Half(c, 1, 1)
      BY <1>5, <2>6, <3>1
    <3>3. first.k = 1 /\ first.from = c
      BY <3>2 DEF I!Half
    <3>4. f.k = 1 /\ f.from = c
      BY <1>15, <3>3
    <3>. QED  BY <3>4 DEF Given, I!Frame
  <2>7. FirstWhole'
    BY <1>1, <1>8, <1>13, <2>1, <2>6 DEF InInv, FirstWhole
  <2>8. ASSUME NEW i \in 1 .. Len(sentOn'), sentOn'[i].k # 0, NEW h \in UnderWay'
        PROVE  Earlier(order, Stands(sentOn'[i]), h)
    <3>1. CASE i \in 1 .. Len(sentOn) /\ sentOn'[i] = sentOn[i]
      BY <1>2, <1>8, <2>8, <3>1 DEF InOrder
    <3>2. CASE sentOn'[i] = f
      BY <1>10, <1>15, <2>8, <3>2
    <3>. QED  BY <2>2, <3>1, <3>2
  <2>9. ASSUME NEW i \in 1 .. Len(sentOn'), NEW j \in 1 .. Len(sentOn'), i < j,
               sentOn'[i].k # 0, sentOn'[j].k # 0
        PROVE  Earlier(order, Stands(sentOn'[i]), Stands(sentOn'[j]))
    <3>1. i \in 1 .. Len(sentOn) /\ sentOn'[i] = sentOn[i]
      BY <2>1, <2>9
    <3>2. CASE j \in 1 .. Len(sentOn) /\ sentOn'[j] = sentOn[j]
      BY <1>2, <2>9, <3>1, <3>2 DEF InOrder
    <3>3. CASE sentOn'[j] = f
      BY <1>2, <1>9, <1>15, <2>9, <3>1, <3>3 DEF InOrder
    <3>. QED  BY <2>2, <3>2, <3>3
  <2>10. InOrder(order)'
    <3>1. /\ AllBefore(order, Range(line), Range(bufReader) \cup Range(ipipe))
          /\ AllBefore(order, Range(bufReader), Range(ipipe))
          /\ Sorted(order, bufReader) /\ Sorted(order, ipipe)
      BY <1>2 DEF InOrder
    <3>. QED  BY <1>1, <1>12, <2>8, <2>9, <3>1 DEF InOrder
  <2>. QED  BY <2>3, <2>5, <2>7, <2>10 DEF InInv
<1>. QED  BY <1>11, <1>14, <1>15

LEMMA NextIn ==
  ASSUME InInv, [I!Next]_inVars
  PROVE  InInv'
<1>1. client \in [I!Clients -> {"idle", "open", "done", "failed", "away"}]
  BY DEF InInv, InType
<1>2. CASE I!Connect \/ I!WriteFrame
  BY <1>2, ConnectIn, WriteFrameIn
<1>3. CASE I!ReadBuf \/ I!SendLine \/ I!ReadEof \/ I!Forward
  BY <1>3, ReadBufIn, SendLineIn, ReadEofIn, ForwardIn
<1>4. CASE I!ConnectFails \/ I!Disconnect
  <2>1. PICK c \in I!Clients :
          /\ \/ client' = client
             \/ \E p \in {"done", "failed"} : client' = [client EXCEPT ![c] = p]
          /\ UNCHANGED <<written, rd, peer, ipipe, bufReader, line, order, inQ, sentOn>>
    BY <1>4 DEF I!ConnectFails, I!Disconnect, I!rdVars
  <2>2. /\ client' \in [I!Clients -> {"idle", "open", "done", "failed", "away"}]
        /\ \A e \in I!Clients : client'[e] = "open" => client[e] = "open"
    BY <1>1, <2>1
  <2>. QED  BY <2>1, <2>2, StillIn
<1>5. CASE I!CreateServer \/ I!Gone \/ UNCHANGED inVars
  <2>1. /\ UNCHANGED <<client, written, peer, ipipe, bufReader, line, order, inQ, sentOn>>
        /\ rd' = rd \/ (rd = "create" /\ rd' = "listen")
    BY <1>5 DEF I!CreateServer, I!Gone, I!ivars, I!rdVars, inVars
  <2>. QED  BY <1>1, <2>1, StillIn
<1>. QED  BY <1>2, <1>3, <1>4, <1>5 DEF I!Next

LEMMA InInvariant == EdgesSpec => []InInv
<1>1. EdgesInit => InInv
  BY InitIn DEF EdgesInit
<1>2. InInv /\ [DriverStep \/ InStep \/ OutStep]_edgeVars => InInv'
  <2>. SUFFICES ASSUME InInv, [DriverStep \/ InStep \/ OutStep]_edgeVars
                PROVE  [I!Next]_inVars
    BY NextIn
  <2>. QED  BY DEF DriverStep, InStep, OutStep, edgeVars
<1>. QED  BY <1>1, <1>2, PTL DEF EdgesSpec

-----------------------------------------------------------------------------
(***************************************************************************)
(* However clients follow each other and their bytes are cut: the first    *)
(* frame of every connection is given to the driver or still under way,    *)
(* frames keep the order in which they were written and come once, and a   *)
(* frame nobody wrote stems from a client that wrote several               *)
(* (thread_manager_async.rs:24-35, canserver.rs:295).                      *)
(***************************************************************************)
THEOREM FirstFramesForwarded == EdgesSpec => []FirstForwarded
<1>1. InInv => FirstForwarded
  <2>. SUFFICES ASSUME InInv PROVE I!FirstForwarded
    BY DEF FirstForwarded
  <2>1. \A s : I!ToSet(s) = Range(s)
    BY DEF I!ToSet, Range
  <2>2. I!Pending = UnderWay
    <3>1. UNION {I!ToSet(chunk) : chunk \in I!ToSet(inQ)} = InChunks
      <4>1. {I!ToSet(chunk) : chunk \in Range(inQ)} = {Range(chunk) : chunk \in Range(inQ)}
        BY <2>1
      <4>. QED  BY <2>1, <4>1 DEF InChunks
    <3>. QED  BY <2>1, <3>1 DEF I!Pending, UnderWay, Unsent
  <2>3. sentOn \in Seq(Given) /\ order \in Seq(I!Clients)
    BY DEF InInv, InType
  <2>4. \A c \in I!Clients :
          written[c] > 0 => \/ I!Frame(c, 1) \in I!ToSet(sentOn)
                            \/ {I!Half(c, 1, 1), I!Half(c, 1, 2)} \subseteq I!Pending
    BY <2>1, <2>2 DEF InInv, FirstWhole
  <2>5. DOMAIN sentOn = 1 .. Len(sentOn) /\ DOMAIN order = 1 .. Len(order)
    BY <2>3, LenProperties
  <2>6. ASSUME NEW i \in 1 .. Len(sentOn), NEW j \in 1 .. Len(sentOn), i < j,
               sentOn[i].k # 0, sentOn[j].k # 0
        PROVE  I!Before(sentOn[i], sentOn[j])
    <3>. DEFINE f == Stands(sentOn[i])  g == Stands(sentOn[j])
    <3>1. Earlier(order, f, g)
      BY <2>6 DEF InInv, InOrder
    <3>2. /\ f.from = sentOn[i].from /\ f.k = sentOn[i].k /\ f.half = 1
          /\ g.from = sentOn[j].from /\ g.k = sentOn[j].k /\ g.half = 1
      BY DEF Stands, I!Half
    <3>. HIDE DEF f, g
    <3>3. (f.from = g.from /\ f.k < g.k) \/ Precedes(order, f.from, g.from)
      BY <3>1, <3>2 DEF Earlier
    <3>. QED  BY <2>5, <3>2, <3>3 DEF I!Before, Precedes
  <2>7. \A f \in I!ToSet(sentOn) : f.k = 0 => written[f.from] > 1
    <3>1. \A f \in Range(sentOn) : \E i \in 1 .. Len(sentOn) : sentOn[i] = f
      BY <2>3, RangeIs
    <3>. QED  BY <2>1, <3>1 DEF InInv, Written
  <2>. QED  BY <2>4, <2>5, <2>6, <2>7 DEF I!FirstForwarded
<1>. QED  BY <1>1, InInvariant, PTL

-----------------------------------------------------------------------------
(* The filters of candump *)

\* A join comes before the i-th filter.
Behind(fs, i) == \E j \in 1 .. Len(fs) : fs[j].kind = "join" /\ j < i
ByID(f)       == f.kind \in {"match", "notmatch"}

\* What matched and join_mode mean after m filters.
Some(fs, id, m)  == \E i \in 1 .. m : ByID(fs[i]) /\ ~ Behind(fs, i) /\ O!Hit(fs[i], id)
Every(fs, id, m) == \A i \in 1 .. m : ByID(fs[i]) /\ Behind(fs, i) => O!Hit(fs[i], id)

Meant(fs, id, m, s) ==
  /\ s.matched \in BOOLEAN /\ s.join \in BOOLEAN
  /\ s.join <=> Behind(fs, m + 1)
  /\ s.matched <=> Some(fs, id, m) /\ Every(fs, id, m)

\* The masked comparison is one of the bits in the mask.
LEMMA HitIs ==
  ASSUME NEW f \in O!Filters, NEW id, ByID(f)
  PROVE  O!FilterMatches(f, id) <=> O!Hit(f, id)
<1>1. f.kind \in {"match", "notmatch"}
  BY DEF ByID
<1>2. (id \cap f.mask = f.id \cap f.mask) <=> \A b \in f.mask : b \in id <=> b \in f.id
  OBVIOUS
<1>. QED  BY <1>1, <1>2, Zenon DEF O!FilterMatches, O!Hit

\* A turn of the loop.
LEMMA CheckOneMeans ==
  ASSUME NEW fs \in Seq(O!Filters), NEW id, NEW m \in Nat, m + 1 \in 1 .. Len(fs),
         NEW s, Meant(fs, id, m, s)
  PROVE  Meant(fs, id, m + 1, O!CheckOne(s, fs[m + 1], id))
<1>. DEFINE f == fs[m + 1]  t == O!CheckOne(s, f, id)  k == m + 1
<1>1. f \in O!Filters /\ Len(fs) \in Nat /\ f.kind \in {"match", "notmatch", "join", "error"}
  <2>1. f \in O!Filters /\ Len(fs) \in Nat
    BY ElementOfSeq, LenProperties
  <2>. QED  BY <2>1 DEF O!Filters
<1>2. \A i \in 1 .. k : i \in 1 .. m \/ i = k
  OBVIOUS
<1>3. \A i \in 1 .. m : i \in 1 .. k
  OBVIOUS
<1>4. Behind(fs, k + 1) <=> Behind(fs, k) \/ f.kind = "join"
  <2>1. \A j \in 1 .. Len(fs) : j < k + 1 <=> j < k \/ j = k
    OBVIOUS
  <2>. QED  BY <2>1 DEF Behind
<1>5. ~ Behind(fs, k) => \A i \in 1 .. m : ~ Behind(fs, i)
  <2>1. \A i \in 1 .. m, j \in 1 .. Len(fs) : j < i => j < k
    OBVIOUS
  <2>. QED  BY <2>1 DEF Behind
<1>6. k \in 1 .. k
  OBVIOUS
<1>7. /\ Some(fs, id, k) <=> Some(fs, id, m) \/ (ByID(f) /\ ~ Behind(fs, k) /\ O!Hit(f, id))
      /\ Every(fs, id, k) <=> Every(fs, id, m) /\ (ByID(f) /\ Behind(fs, k) => O!Hit(f, id))
  <2>. HIDE DEF k
  <2>1. f = fs[k]
    BY DEF k
  <2>. HIDE DEF f
  <2>2. Some(fs, id, k) <=> Some(fs, id, m) \/ (ByID(f) /\ ~ Behind(fs, k) /\ O!Hit(f, id))
    BY <1>2, <1>3, <1>6, <2>1, Zenon DEF Some
  <2>3. Every(fs, id, k) <=> Every(fs, id, m) /\ (ByID(f) /\ Behind(fs, k) => O!Hit(f, id))
    BY <1>2, <1>3, <1>6, <2>1, Zenon DEF Every
  <2>. QED  BY <2>2, <2>3
<1>. HIDE DEF f, k
<1>8. Meant(fs, id, m, s) /\ (s.join <=> Behind(fs, k))
  BY DEF Meant, k
<1>9. CASE f.kind = "join"
  <2>1. t.matched = s.matched /\ t.join = TRUE /\ ~ ByID(f)
    BY <1>9 DEF O!CheckOne, ByID
  <2>. HIDE DEF t
  <2>. QED  BY <1>4, <1>7, <1>8, <1>9, <2>1, Zenon DEF Meant, f, k, t
<1>10. CASE f.kind = "error"
  <2>1. t = s /\ ~ ByID(f) /\ f.kind # "join"
    BY <1>10 DEF O!CheckOne, ByID
  <2>. HIDE DEF t
  <2>. QED  BY <1>4, <1>7, <1>8, <2>1, Zenon DEF Meant, f, k, t
<1>11. CASE f.kind \in {"match", "notmatch"}
  <2>1. ByID(f) /\ f.kind # "join" /\ f.kind # "error"
    BY <1>11 DEF ByID
  <2>2. O!FilterMatches(f, id) <=> O!Hit(f, id)
    BY <1>1, <2>1, HitIs
  <2>3. t = [matched |-> IF s.join THEN s.matched /\ O!FilterMatches(f, id)
                         ELSE s.matched \/ O!FilterMatches(f, id),
             join    |-> s.join]
    BY <2>1 DEF O!CheckOne
  <2>4. /\ t.matched = (IF s.join THEN s.matched /\ O!FilterMatches(f, id)
                        ELSE s.matched \/ O!FilterMatches(f, id))
        /\ t.join = s.join
    <3>. HIDE DEF t
    <3>. QED  BY <2>3
  <2>. HIDE DEF t
  <2>5. t.matched \in BOOLEAN
    BY <1>8, <2>2, <2>4 DEF Meant, O!FilterMatches
  <2>6. CASE s.join
    <3>1. t.matched <=> s.matched /\ O!Hit(f, id)
      BY <2>2, <2>4, <2>6, Zenon
    <3>2. Behind(fs, k)
      BY <1>8, <2>6
    <3>3. t.matched <=> Some(fs, id, k) /\ Every(fs, id, k)
      BY <1>7, <1>8, <2>1, <3>1, <3>2, Zenon DEF Meant
    <3>. QED  BY <1>4, <1>8, <2>1, <2>4, <2>5, <3>3, Zenon DEF Meant, f, k, t
  <2>7. CASE ~ s.join
    <3>1. t.matched <=> s.matched \/ O!Hit(f, id)
      BY <2>2, <2>4, <2>7, Zenon
    <3>2. ~ Behind(fs, k) /\ Every(fs, id, m)
      BY <1>5, <1>8, <2>7, Zenon DEF Every
    <3>3. t.matched <=> Some(fs, id, k) /\ Every(fs, id, k)
      BY <1>7, <1>8, <2>1, <3>1, <3>2, Zenon DEF Meant
    <3>. QED  BY <1>4, <1>8, <2>1, <2>4, <2>5, <3>3, Zenon DEF Meant, f, k, t
  <2>. QED  BY <2>6, <2>7
<1>. QED  BY <1>1, <1>9, <1>10, <1>11

\* filter_check computes what its filters mean.
LEMMA FilterCheckMeans ==
  ASSUME NEW fs \in Seq(O!Filters), NEW id
  PROVE  (fs = <<>> \/ O!FilterCheck(fs, id)) <=> O!Passes(fs, id)
<1>. DEFINE n == Len(fs)  a == [matched |-> FALSE, join |-> FALSE]
            D == [matched : BOOLEAN, join : BOOLEAN]
            F == [i \in 1 .. n |-> [s \in D |-> O!CheckOne(s, fs[i], id)]]
<1>1. n \in Nat /\ \A i \in 1 .. n : fs[i] \in O!Filters
  BY LenProperties, ElementOfSeq
<1>2. a \in D
  OBVIOUS
<1>3. ASSUME NEW s \in D, NEW f \in O!Filters PROVE O!CheckOne(s, f, id) \in D
  <2>1. O!FilterMatches(f, id) \in BOOLEAN
    BY DEF O!FilterMatches
  <2>2. f.kind \in {"match", "notmatch", "join", "error"}
    BY DEF O!Filters
  <2>3. s.matched \in BOOLEAN /\ s.join \in BOOLEAN
    OBVIOUS
  <2>. QED  BY <2>1, <2>2, <2>3 DEF O!CheckOne
<1>. HIDE DEF D, a
<1>4. F \in [1 .. n -> [D -> D]]
  BY <1>1, <1>3
<1>. HIDE DEF F
<1>5. PICK g \in [0 .. n -> D] : Passes(g, a, F, n)
  BY <1>1, <1>2, <1>4, RecursionExists
<1>6. ASSUME NEW i \in 1 .. n PROVE g[i] = O!CheckOne(g[i - 1], fs[i], id)
  <2>1. g[i - 1] \in D /\ g[i] = F[i][g[i - 1]]
    BY <1>1, <1>5 DEF Passes
  <2>. QED  BY <2>1 DEF F
<1>7. g = [i \in 0 .. n |-> IF i = 0 THEN a ELSE O!CheckOne(g[i - 1], fs[i], id)]
  <2>1. \A i \in 0 .. n : g[i] = IF i = 0 THEN a ELSE O!CheckOne(g[i - 1], fs[i], id)
    BY <1>1, <1>5, <1>6 DEF Passes
  <2>. QED  BY <1>5, <2>1
<1>8. PICK h : /\ h = [i \in 0 .. n |-> IF i = 0 THEN a ELSE O!CheckOne(h[i - 1], fs[i], id)]
               /\ O!FilterCheck(fs, id) = h[n].matched
  BY <1>7, Zenon DEF O!FilterCheck, a
<1>9. h[0] = a /\ \A i \in 1 .. n : h[i] = O!CheckOne(h[i - 1], fs[i], id)
  <2>1. 0 \in 0 .. n /\ \A i \in 1 .. n : i \in 0 .. n /\ i # 0
    BY <1>1
  <2>. QED  BY <1>8, <2>1
<1>. DEFINE S == {m \in Nat : m <= n => Meant(fs, id, m, h[m])}
<1>10. 0 \in S
  <2>1. a.matched = FALSE /\ a.join = FALSE
    BY DEF a
  <2>2. ~ Behind(fs, 0 + 1)
    BY <1>1 DEF Behind
  <2>3. ~ Some(fs, id, 0)
    BY DEF Some
  <2>. QED  BY <1>9, <2>1, <2>2, <2>3, Zenon DEF Meant
<1>11. ASSUME NEW m \in S PROVE m + 1 \in S
  <2>. SUFFICES ASSUME m + 1 <= n PROVE Meant(fs, id, m + 1, h[m + 1])
    OBVIOUS
  <2>1. m \in Nat /\ m + 1 \in 1 .. n /\ (m + 1) - 1 = m /\ Meant(fs, id, m, h[m])
    BY <1>1
  <2>2. h[m + 1] = O!CheckOne(h[m], fs[m + 1], id)
    BY <1>9, <2>1
  <2>. QED  BY <2>1, <2>2, CheckOneMeans
<1>. HIDE DEF S
<1>12. S = Nat
  BY <1>10, <1>11, NumberInduction DEF S
<1>13. O!FilterCheck(fs, id) <=> Some(fs, id, n) /\ Every(fs, id, n)
  <2>1. Meant(fs, id, n, h[n])
    BY <1>1, <1>12 DEF S
  <2>. QED  BY <1>8, <2>1 DEF Meant
<1>14. fs # <<>> => (Some(fs, id, n) /\ Every(fs, id, n) <=> O!Passes(fs, id))
  <2>1. DOMAIN fs = 1 .. n
    BY LenProperties
  <2>. QED  BY <2>1, Zenon DEF Some, Every, Behind, ByID, O!Passes
<1>. QED  BY <1>13, <1>14

\* What a candump has printed of the frames it has read.
Printed ==
  /\ filters = <<>> \/ filters \in Seq(O!Filters)
  /\ printed \in [Dumpers -> Seq(Nat)]
  /\ \A d \in Dumpers :
       /\ Increasing(printed[d])
       /\ Range(printed[d]) = {n \in Range(taken[d]) : O!Passes(filters, O!IdOf(n))}

LEMMA InitPrinted == O!Init \/ O!Unused => Printed
<1>. SUFFICES ASSUME O!Init \/ O!Unused PROVE Printed
  OBVIOUS
<1>1. /\ taken = [d \in Dumpers |-> <<>>] /\ printed = [d \in Dumpers |-> <<>>]
      /\ filters = <<>> \/ filters \in FilterLists
  BY DEF O!Init, O!Unused, O!Idle
<1>2. <<>> \in Seq(Nat) /\ Range(<<>>) = {} /\ Increasing(<<>>)
  BY EmptySeq, RangeEmpty
<1>. QED  BY <1>1, <1>2, FilterAssumption DEF Printed

LEMMA ReadPrinted ==
  ASSUME PipeInv, Printed, O!ReadFrame
  PROVE  Printed'
<1>1. PICK d \in Dumpers :
        /\ reader = d /\ opipe # <<>>
        /\ taken' = [taken EXCEPT ![d] = Append(@, Head(opipe))]
        /\ printed' = IF filters = <<>> \/ O!FilterCheck(filters, O!IdOf(Head(opipe)))
                      THEN [printed EXCEPT ![d] = Append(@, Head(opipe))] ELSE printed
        /\ filters' = filters
  BY DEF O!ReadFrame
<1>. DEFINE n == Head(opipe)  keep == O!Passes(filters, O!IdOf(n))
<1>2. /\ opipe \in Seq(Nat) /\ taken \in [Dumpers -> Seq(Nat)] /\ taken[d] \in Seq(Nat)
      /\ printed \in [Dumpers -> Seq(Nat)] /\ printed[d] \in Seq(Nat)
  BY DEF PipeInv, PipeType, Printed
<1>3. n \in Nat /\ n \in Range(opipe)
  BY <1>1, <1>2, TakeFirst
<1>4. \A m \in Range(taken[d]) : m < n
  BY <1>1, <1>3 DEF PipeInv, Along, Below, Piped
<1>5. keep <=> filters = <<>> \/ O!FilterCheck(filters, O!IdOf(n))
  <2>1. CASE filters = <<>>
    BY <2>1, Zenon DEF O!Passes
  <2>2. CASE filters # <<>>
    BY <2>2, FilterCheckMeans DEF Printed
  <2>. QED  BY <2>1, <2>2
<1>. HIDE DEF n, keep
<1>6. /\ taken'[d] = Append(taken[d], n) /\ \A e \in Dumpers \ {d} : taken'[e] = taken[e]
      /\ printed' = IF keep THEN [printed EXCEPT ![d] = Append(@, n)] ELSE printed
  BY <1>1, <1>2, <1>5 DEF n
<1>7. /\ Append(taken[d], n) \in Seq(Nat) /\ Range(Append(taken[d], n)) = Range(taken[d]) \cup {n}
  BY <1>2, <1>3, PutLast
<1>8. \A m \in Range(printed[d]) : m < n
  BY <1>4 DEF Printed
<1>9. /\ Append(printed[d], n) \in Seq(Nat)
      /\ Range(Append(printed[d], n)) = Range(printed[d]) \cup {n}
      /\ Increasing(Append(printed[d], n))
  BY <1>2, <1>3, <1>8, PutLast DEF Printed
<1>10. printed' \in [Dumpers -> Seq(Nat)]
  BY <1>2, <1>6, <1>9
<1>11. ASSUME NEW e \in Dumpers
       PROVE  /\ Increasing(printed'[e])
              /\ Range(printed'[e]) = {m \in Range(taken'[e]) : O!Passes(filters, O!IdOf(m))}
  <2>1. /\ Increasing(printed[e])
        /\ Range(printed[e]) = {m \in Range(taken[e]) : O!Passes(filters, O!IdOf(m))}
    BY DEF Printed
  <2>2. CASE e # d
    <3>1. printed'[e] = printed[e] /\ taken'[e] = taken[e]
      BY <1>2, <1>6, <2>2
    <3>. QED  BY <2>1, <3>1
  <2>3. CASE e = d
    <3>1. taken'[e] = Append(taken[d], n)
      BY <1>6, <2>3
    <3>2. CASE keep
      <4>1. printed'[e] = Append(printed[d], n)
        BY <1>2, <1>6, <2>3, <3>2
      <4>2. O!Passes(filters, O!IdOf(n))
        BY <3>2 DEF keep
      <4>. QED  BY <1>7, <1>9, <2>1, <2>3, <3>1, <4>1, <4>2
    <3>3. CASE ~ keep
      <4>1. printed'[e] = printed[d]
        BY <1>6, <2>3, <3>3
      <4>2. ~ O!Passes(filters, O!IdOf(n))
        BY <3>3 DEF keep
      <4>. QED  BY <1>7, <2>1, <2>3, <3>1, <4>1, <4>2
    <3>. QED  BY <3>2, <3>3
  <2>. QED  BY <2>2, <2>3
<1>12. filters' = filters /\ (filters = <<>> \/ filters \in Seq(O!Filters))
  BY <1>1 DEF Printed
<1>. QED  BY <1>10, <1>11, <1>12 DEF Printed

LEMMA NextPrinted ==
  ASSUME PipeInv, Printed, [O!Next]_outVars
  PROVE  Printed'
<1>1. CASE O!ReadFrame
  BY <1>1, ReadPrinted
<1>2. CASE ~ O!ReadFrame
  <2>1. UNCHANGED <<filters, taken, printed>>
    BY <1>2 DEF O!Next, O!Connect, O!RunInterfaces, O!Leave, O!Hear, O!CreateServer, O!Recv,
         O!Write, O!BrokenPipe, O!Silent, O!ovars, O!dumpVars, O!wrVars, outVars
  <2>. QED  BY <2>1 DEF Printed
<1>. QED  BY <1>1, <1>2

(***************************************************************************)
(* Whatever filters candump is given and however frames reach it, it       *)
(* prints of the frames it reads those that the filters let pass, as       *)
(* filter_check is meant (candump.rs:276-293, 379).                        *)
(***************************************************************************)
THEOREM FiltersMean == EdgesSpec => []FilterMeaning
<1>1. EdgesInit => Printed
  BY InitPrinted DEF EdgesInit
<1>2. PipeInv /\ Printed /\ [DriverStep \/ InStep \/ OutStep]_edgeVars => Printed'
  <2>. SUFFICES ASSUME PipeInv, Printed, [DriverStep \/ InStep \/ OutStep]_edgeVars
                PROVE  [O!Next]_outVars
    BY NextPrinted
  <2>. QED  BY DEF DriverStep, InStep, OutStep, edgeVars
<1>3. Printed => FilterMeaning
  <2>. SUFFICES ASSUME Printed, NEW d \in Dumpers
                PROVE  /\ O!ToSet(printed[d]) =
                            {n \in O!ToSet(taken[d]) : O!Passes(filters, O!IdOf(n))}
                       /\ \A i, j \in DOMAIN printed[d] :
                            i < j => printed[d][i] < printed[d][j]
    BY DEF FilterMeaning, O!FilterMeaning
  <2>1. O!ToSet(printed[d]) = Range(printed[d]) /\ O!ToSet(taken[d]) = Range(taken[d])
    BY DEF O!ToSet, Range
  <2>2. printed[d] \in Seq(Nat) /\ Increasing(printed[d])
    BY DEF Printed
  <2>3. \A i, j \in DOMAIN printed[d] : i < j => printed[d][i] < printed[d][j]
    BY <2>2, LenProperties DEF Increasing
  <2>. QED  BY <2>1, <2>3 DEF Printed
<1>. QED  BY <1>1, <1>2, <1>3, PipeInvariant, PTL DEF EdgesSpec
=============================================================================
