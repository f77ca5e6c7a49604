----------------------------- MODULE MCHostFrames -----------------------------
(* Instances of HostFrames for TLC: ids whose low bytes look like a DLC and  *)
(* a channel, and ids that do not; a standard and an extended one.           *)
EXTENDS HostFrames

StdLow  == <<12, 0, 0, 0>>
StdHigh == <<35, 1, 0, 0>>
ExtHigh == <<35, 1, 0, 128>>

MixedIds == {StdLow, ExtHigh}
OneId    == {StdHigh}
=============================================================================
