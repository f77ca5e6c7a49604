------------------------------- MODULE MCEdges -------------------------------
(* An instance of Edges for TLC: USB device lists of up to three devices,    *)
(* with serials that read as ranks; small announced limits; two cansends and *)
(* a client that writes three frames; filters on ids of two bits.            *)
EXTENDS Edges

Gs(name) == [kind |-> "gs", name |-> name]
Bad      == [kind |-> "bad", name |-> "none"]
Other    == [kind |-> "other", name |-> "none"]

Devices == {Gs("S"), Gs("1"), Bad, Other}
MCDeviceLists ==
  {<<>>} \cup {<<d>> : d \in Devices} \cup {<<d, e>> : d, e \in Devices}
  \cup {<<d, e, f>> : d, e, f \in Devices}
MCIdents == {"auto", "0", "1", "2", "S"}

\* Clock over bitrate p / q; a prescaler that may be zero, segments from zero,
\* phase segments that exhaust the first segment, and a rate out of reach.
Limits(p, q, t1, t2, sjw, brp) ==
  [p |-> p, q |-> q, tseg1_min |-> t1[1], tseg1_max |-> t1[2],
   tseg2_min |-> t2[1], tseg2_max |-> t2[2], sjw_max |-> sjw,
   brp_min |-> brp[1], brp_max |-> brp[2]]

MCCapSet ==
  {Limits(16, 1, <<1, 13>>, <<1, 3>>, 2, <<1, 2>>),
   Limits(16, 3, <<0, 4>>, <<0, 2>>, 1, <<0, 3>>),
   Limits(25, 2, <<1, 4>>, <<1, 4>>, 4, <<1, 4>>),
   Limits(48, 1, <<1, 6>>, <<1, 2>>, 4, <<1, 2>>)}

MCPlugged == {{}, {"USBBUS1"}, {"USBBUS2"}}

MCFrames == <<1, 3, 1>>

MCIds == <<{}, {0, 1}, {1}>>

Match(id, mask)    == [kind |-> "match", id |-> id, mask |-> mask]
NotMatch(id, mask) == [kind |-> "notmatch", id |-> id, mask |-> mask]
Mark(kind)         == [kind |-> kind, id |-> {}, mask |-> {}]

M1 == Match({0}, {0})
M2 == Match({1}, {1})
N1 == NotMatch({}, {0, 1})
J  == Mark("join")
MCFilterLists ==
  {<<>>, <<M1>>, <<Mark("error")>>, <<J, M1>>, <<M1, M2>>, <<M1, Mark("error"), J, N1>>,
   <<N1, J, M1, M2>>, <<M1, M2, J, N1>>}
=============================================================================
