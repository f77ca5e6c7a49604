------------------------------ MODULE BitTiming ------------------------------
(***************************************************************************)
(* The search of a bit timing for a gs_usb adapter                         *)
(* (src/src/drivers/gs_usb/bit_timing.rs), in integers: rates and scores   *)
(* are fractions, compared by multiplying out.  The code computes them as  *)
(* f64, which may break an exact tie either way.                           *)
(*                                                                         *)
(* `caps' are the limits the adapter announces; the clock divided by the   *)
(* bitrate asked for is the fraction caps.p / caps.q.                      *)
(***************************************************************************)
EXTENDS Integers, Sequences

NoTiming == <<>>

\* parse_bt_const: what an adapter may announce, the clock over a bitrate that
\* is not zero.
Limits == [p : Nat \ {0}, q : Nat \ {0}, tseg1_min : Nat, tseg1_max : Nat,
           tseg2_min : Nat, tseg2_max : Nat, sjw_max : Nat, brp_min : Nat, brp_max : Nat]

Abs(x) == IF x < 0 THEN -x ELSE x
Least(a, b) == IF a < b THEN a ELSE b

\* Clock ticks in a bit: prescaler times quanta, of which one is for sync.
Quanta(c)     == 1 + c.tseg1 + c.tseg2
Ticks(c)      == c.brp * Quanta(c)

\* A rate error of more than 5 % is refused.
RateFits(caps, c) == 20 * Abs(caps.p - caps.q * Ticks(c)) <= caps.q * Ticks(c)

\* Ten times the rate error and the distance of the sample point from 7/8.
Score(caps, c) ==
  [num |-> 80 * Abs(caps.p - caps.q * Ticks(c))
           + caps.q * c.brp * Abs(8 * (1 + c.tseg1) - 7 * Quanta(c)),
   den |-> 8 * caps.q * Ticks(c)]

AtMost(s, t) == s.num * t.den <= t.num * s.den

\* Turns of a loop over lo..=hi.
Turns(lo, hi) == IF lo <= hi THEN hi + 1 - lo ELSE 0

\* The three nested loops, in their order.
Candidates(caps) ==
  LET n1 == Turns(caps.tseg1_min, caps.tseg1_max)
      n2 == Turns(caps.tseg2_min, caps.tseg2_max)
      n  == Turns(caps.brp_min, caps.brp_max) * (n1 * n2)
  IN  [i \in 1 .. n |-> [brp   |-> caps.brp_min + (i - 1) \div (n1 * n2),
                         tseg1 |-> caps.tseg1_min + (((i - 1) \div n2) % n1),
                         tseg2 |-> caps.tseg2_min + ((i - 1) % n2)]]

\* The first segment is shared between propagation and phase; one of a single
\* quantum cannot be.
Splits(c) == c.tseg1 >= 2

Timing(caps, c) ==
  LET phase1 == Least(c.tseg1 \div 2, caps.tseg1_max)
  IN  [prop_seg |-> c.tseg1 - phase1, phase_seg1 |-> phase1, phase_seg2 |-> c.tseg2,
       sjw |-> Least(caps.sjw_max, c.tseg2), brp |-> c.brp]

\* The first candidate whose rate fits is kept (mutant).
Better_Never(caps, best, c) == best = NoTiming

Better(caps, best, c) ==
  best = NoTiming \/ ~ AtMost(Score(caps, best[1]), Score(caps, c))

\* The body of the loops: the best candidate so far, after c.
Consider(caps, best, c) ==
  IF RateFits(caps, c) /\ Splits(c) /\ Better(caps, best, c) THEN <<c>> ELSE best

\* The first of the candidates with the lowest score.
Best(caps) ==
  LET turns == Candidates(caps)
      best[i \in 0 .. Len(turns)] ==
        IF i = 0 THEN NoTiming ELSE Consider(caps, best[i - 1], turns[i])
  IN  best[Len(turns)]

CalcBitTiming(caps) ==
  LET best == Best(caps)
  IN  IF best = NoTiming THEN NoTiming ELSE <<Timing(caps, best[1])>>

-----------------------------------------------------------------------------
\* The candidates, and those within 5 % whose first segment can be shared.
Space(caps) == [brp : caps.brp_min .. caps.brp_max,
                tseg1 : caps.tseg1_min .. caps.tseg1_max,
                tseg2 : caps.tseg2_min .. caps.tseg2_max]
Legal(caps) == {c \in Space(caps) : RateFits(caps, c) /\ c.tseg1 # 0 /\ c.tseg1 # 1}

(***************************************************************************)
(* A timing found respects every limit of the adapter (but for the step of *)
(* its prescaler, which the search does not look at), takes at least one   *)
(* quantum for each part of the first segment, and no timing within the    *)
(* limits has a lower score; none is found only if none is within 5 %.     *)
(***************************************************************************)
TimingIsBest(caps, timing) ==
  IF timing = NoTiming THEN Legal(caps) = {}
  ELSE LET t == timing[1]
           c == [brp |-> t.brp, tseg1 |-> t.prop_seg + t.phase_seg1,
                 tseg2 |-> t.phase_seg2]
       IN  /\ c \in Legal(caps) /\ t.prop_seg >= 1 /\ t.phase_seg1 >= 1
           /\ t.sjw <= caps.sjw_max /\ t.sjw <= t.phase_seg2
           /\ \A d \in Legal(caps) : AtMost(Score(caps, c), Score(caps, d))
=============================================================================
