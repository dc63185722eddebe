-------------------------- MODULE MCUdpContextMap --------------------------
(***************************************************************************)
(* Two peers, two UDP listener loops, context ids enough for one entry   *)
(* per peer, one per loop and a fresh one.                            *)
(***************************************************************************)
EXTENDS UdpContextMap

CONSTANTS p1, p2, g1, g2, x1, x2, x3, x4, x5, nox, nog

MCPeers == {p1, p2}
MCCallers == {g1, g2}
MCCtxs == {x1, x2, x3, x4, x5}
=============================================================================
