---------------------------- MODULE MCSzSession ----------------------------
(***************************************************************************)
(* Instances of SzSession for TLC.  Request frames are built from two     *)
(* keys and one client nonce; the handler's plans cover no reply, short   *)
(* and block-aligned replies, and streams whose last chunk is short or    *)
(* block-aligned (the two GetPackSize cases).                              *)
(***************************************************************************)
EXTENDS SzSession, TLC

CONSTANTS w1, w2, w3, c1, c2, c3, k1, k2, n1

Frame(seq, msgtype, version, key, intact, body, env) ==
    [seq |-> seq, msgtype |-> msgtype, version |-> version, nonce |-> n1,
     key |-> key, intact |-> intact, body |-> body, env |-> env]

\* A v2 handshake, a v1 steady request under another key, a steady
\* request with seq 0 (never treated as a repeat), one whose RSA block
\* does not decrypt, one damaged in transit, and one the decoder rejects.
Handshake == Frame(1, 1, 2, k1, TRUE, "ok", TRUE)
Steady    == Frame(2, 3, 1, k2, TRUE, "ok", TRUE)
SteadyZero == Frame(0, 3, 2, k1, TRUE, "ok", TRUE)
BadRsa    == Frame(2, 3, 2, k1, TRUE, "rsa", TRUE)
Damaged   == Frame(1, 1, 2, k1, FALSE, "ok", TRUE)
BadEnvelope == Frame(2, 3, 2, k2, TRUE, "ok", FALSE)

MCRequestsTcp == {Handshake, Steady, BadRsa, Damaged, BadEnvelope}
MCRequestsUdp == {Handshake, Steady, SteadyZero, BadRsa}

MCPlans ==
    { [kind |-> "none"],
      [kind |-> "reply", len |-> 5],
      [kind |-> "reply", len |-> 16],
      [kind |-> "stream", size |-> 20, packsize |-> 16],
      [kind |-> "stream", size |-> 32, packsize |-> 16] }

\* For the three-datagram runs: no reply, a short reply, a short-ended stream.
MCPlansUdp ==
    { [kind |-> "none"],
      [kind |-> "reply", len |-> 5],
      [kind |-> "stream", size |-> 20, packsize |-> 16] }

MCWorkers2 == {w1, w2}
MCWorkers3 == {w1, w2, w3}
MCCtxsTcp == {c1, c2}
MCCtxOfTcp == (w1 :> c1) @@ (w2 :> c2)
MCCtxsUdp == {c1}
MCCtxOfUdp == [w \in MCWorkers3 |-> c1]
MCCtxOfUdp2 == [w \in MCWorkers2 |-> c1]
=============================================================================
