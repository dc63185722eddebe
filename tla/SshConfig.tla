------------------------------ MODULE SshConfig ------------------------------
(***************************************************************************)
(* The SSH configuration of sshutil/sshconfig.go: the client config that  *)
(* SSHClientConfig builds (the key file read through the password cache   *)
(* priKeyPassMap, the host-key callback), and DialSSH, which tries the    *)
(* routes of proxy_addr, split on ";", for three rounds.                  *)
(*   - proxy_addr is a sequence of character codes, so strings.Split is  *)
(*     computed.                                                           *)
(*   - A key file is a record of what pem.Decode finds in it: kind "enc" *)
(*     (one PEM block encrypted under pass), "plain" (one block without  *)
(*     encryption), "trail" (no block, or data after it) or "empty".     *)
(*     Its MD5, priKeyPassMap's key, is the file itself (injective).      *)
(*   - A network is a function from routes (pieces of proxy_addr, the    *)
(*     empty one a direct dial) to the first round from which a dial     *)
(*     through it connects, and the host key the server reached through  *)
(*     it presents.                                                        *)
(*   - host_key is "", "bad" (no base64) or the name k of a key, standing *)
(*     for the base64 text of the key's bytes <<k>>.                      *)
(***************************************************************************)
EXTENDS Integers, Sequences, SequencesExt

Semi == 59
\* The rounds of DialSSH's outer loop.
Rounds == 3

\* strings.Split(s, ";"): never empty; "" gives one empty piece and a
\* leading or trailing ";" an empty piece at that end.
Split(s) ==
    FoldLeft(LAMBDA acc, c : IF c = Semi THEN Append(acc, <<>>)
                             ELSE [acc EXCEPT ![Len(acc)] = Append(@, c)],
             <<<<>>>>, s)

\* base64.StdEncoding.DecodeString of host_key.
DecodeHostKey(h) ==
    CASE h = ""    -> [ok |-> TRUE, b |-> <<>>]
      [] h = "bad" -> [ok |-> FALSE, b |-> <<>>]
      [] OTHER     -> [ok |-> TRUE, b |-> <<h>>]

\* x509.DecryptPEMBlock on pem.Decode's block with the password pw: the
\* nil block of an empty file is dereferenced; a block without DEK-Info
\* is an error; a wrong password is caught only by the padding check and
\* may decrypt to garbage with no error.
DecryptPEMBlock(f, pw) ==
    CASE f.kind = "empty" -> {"panic"}
      [] f.kind = "plain" -> {"err"}
      [] pw = f.pass      -> {"key"}
      [] OTHER            -> {"err", "garbage"}

\* Mutant: the password is cached before the decrypt is checked.
ReadKeyDataCacheFirst(f, c, ask) ==
    LET pw == IF f \in DOMAIN c THEN c[f] ELSE ask
    IN  IF f.kind = "trail" THEN {[r |-> "err", c |-> c]}
        ELSE {[r |-> d, c |-> (f :> pw) @@ c] : d \in DecryptPEMBlock(f, pw)}

\* readKeyData with the cache c, keypassFunc answering ask: data after
\* the block fails; the password is the cached one, else ask; a decrypt
\* without error caches it.
ReadKeyData(f, c, ask) ==
    LET pw == IF f \in DOMAIN c THEN c[f] ELSE ask
    IN  IF f.kind = "trail" THEN {[r |-> "err", c |-> c]}
        ELSE {[r |-> d, c |-> IF d = "err" THEN c ELSE (f :> pw) @@ c]
                : d \in DecryptPEMBlock(f, pw)}

\* SSHClientConfig: user "jumpbox" when none; the key read, then parsed
\* (x509.ParsePKCS1PrivateKey rejects garbage); host_key decoded.  Each
\* outcome names the step that failed and carries the cache after it.
SSHClientConfig(p, f, c, ask) ==
    {LET h == DecodeHostKey(p.HostKey)
     IN  CASE k.r = "panic"           -> [r |-> "panic", c |-> k.c]
           [] k.r = "err"             -> [r |-> "readerr", c |-> k.c]
           [] k.r = "garbage"         -> [r |-> "parseerr", c |-> k.c]
           [] ~h.ok                   -> [r |-> "hosterr", c |-> k.c]
           [] OTHER ->
                [r |-> "ok", c |-> k.c,
                 cfg |-> [user |-> IF p.UserName = "" THEN "jumpbox" ELSE p.UserName,
                          hostKey |-> h.b, verify |-> p.VerifyHostKey]]
     : k \in ReadKeyData(f, c, ask)}

\* Mutant: a configured host key is trusted without comparing it.
HostKeyCallbackNoCompare(cfg, key) ==
    \/ cfg.hostKey # <<>>
    \/ cfg.hostKey = <<>> /\ ~cfg.verify

\* The HostKeyCallback: the server's key must equal a configured one
\* (testEq); with none configured any key passes unless VerifyHostKey.
HostKeyCallback(cfg, key) ==
    \/ cfg.hostKey # <<>> /\ key = cfg.hostKey
    \/ cfg.hostKey = <<>> /\ ~cfg.verify

\* dialSSH(proxyAddr) in round r: GetDialConn, direct for "" and through
\* the SOCKS5 proxy otherwise, connects once the route is up; then the
\* handshake of ssh.NewClientConn runs the callback on the server's key.
DialOnce(cfg, net, a, r) == net[a].up <= r /\ HostKeyCallback(cfg, net[a].key)

\* DialSSH: the pieces of proxy_addr, Rounds times in order, until a dial
\* succeeds; tried lists the attempts, the successful one last.
DialSSH(p, cfg, net) ==
    LET as == Split(p.ProxyAddrs)
        n == Len(as)
        tries == [k \in 1..(Rounds * n) |-> [r |-> (k - 1) \div n + 1, a |-> as[((k - 1) % n) + 1]]]
        first == SelectInSeq(tries, LAMBDA t : DialOnce(cfg, net, t.a, t.r))
    IN  CASE n = 0     -> [ok |-> DialOnce(cfg, net, <<>>, 1), tried |-> <<[r |-> 1, a |-> <<>>]>>]
          [] first = 0 -> [ok |-> FALSE, tried |-> tries]
          [] OTHER     -> [ok |-> TRUE, tried |-> SubSeq(tries, 1, first)]

\* HostMapToSSHConfig: the host map's fields, a missing one ""; key_path
\* defaults to "id_rsa" (its join with keyDir only names the file, whose
\* content is an input); the host key is verified exactly when given.
HostMapToSSHConfig(host) ==
    [KeyPath |-> IF host.keyPath = "" THEN "id_rsa" ELSE host.keyPath,
     ProxyAddrs |-> host.proxy, UserName |-> host.user, HostKey |-> host.hostkey,
     VerifyHostKey |-> host.hostkey # ""]
=============================================================================
