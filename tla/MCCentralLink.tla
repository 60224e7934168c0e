---------------------------- MODULE MCCentralLink ----------------------------
(* Model values for CentralLink. *)
EXTENDS CentralLink, TLC

CONSTANTS p1, p2, p3
TwoPeers   == {p1, p2}
ThreePeers == {p1, p2, p3}
None       == {}
One        == {p1}
=============================================================================
