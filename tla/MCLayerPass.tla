----------------------------- MODULE MCLayerPass -----------------------------
(***************************************************************************)
(* TLC instances of LayerPass: up to five layers, two active experts, and  *)
(* buffers that are scarce (batch), enough (token), too few (starving).    *)
(***************************************************************************)
EXTENDS LayerPass

MCFour == 1 .. 4
MCSix == 1 .. 6
MCSeven == 1 .. 7
MCEight == 1 .. 8

MCExpert == 1 .. 3
MCExpertFour == 1 .. 4

MCNone == {}
MCFirst == {1}
MCThird == {3}

MCBatch == {"batch"}
MCUnpredicted == {"batch", "hinted", "scan"}
MCToken == {"token"}
MCAll == {"token", "batch", "scan"}
=============================================================================
