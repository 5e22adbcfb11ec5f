---------------------------- MODULE MCStateLock ----------------------------
(* Constants of the StateLock runs.                                        *)
EXTENDS StateLock
CONSTANTS p1, p2, p3, n1, n2, n3
ThreeProcs == {p1, p2, p3}
ThreePids == {n1, n2, n3}
OneStrict == {p3}
=============================================================================
