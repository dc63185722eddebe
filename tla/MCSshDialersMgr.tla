-------------------------- MODULE MCSshDialersMgr --------------------------
(***************************************************************************)
(* Two SSH configurations, hence two dialers, and the SOCKS5 proxy of     *)
(* StartProxy serving one connection at a time.                            *)
(***************************************************************************)
EXTENDS SshProxy

CONSTANTS s1, s2, p1

MCDialers == {s1, s2}
MCDialers1 == {s1}
MCConns == {p1}
=============================================================================
