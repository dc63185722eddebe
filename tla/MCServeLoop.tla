---------------------------- MODULE MCServeLoop ----------------------------
(***************************************************************************)
(* A serve group with NetType = {"tcp", "udp"}, one ip and one port: one  *)
(* TCP listener bound first, then one UDP listener.                        *)
(***************************************************************************)
EXTENDS ServeLoop

CONSTANTS l1, l2

MCListeners == {l1, l2}
MCListenOrder == <<l1, l2>>
MCUdp == {l2}
=============================================================================
