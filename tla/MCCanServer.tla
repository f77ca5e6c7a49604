----------------------------- MODULE MCCanServer -----------------------------
(* Small instances of CanServer: the second chunk read does not decode.     *)
EXTENDS CanServer

MCJunk == {2}
=============================================================================
