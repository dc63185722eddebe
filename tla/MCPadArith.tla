----------------------------- MODULE MCPadArith -----------------------------
(***************************************************************************)
(* Bounded check of the pure operators of PadArith and ShuffleSlice       *)
(* against reference definitions.  Each initial state is one input of    *)
(* one operator family, named by kind: a plaintext length n and block     *)
(* length bl ("pad"), a stream size, pack size and block length           *)
(* ("stream"), a slice of n distinct items ("shuffle"), or the segments   *)
(* in which a connection delivers a byte stream: the first size bytes of *)
(* a frame with an n-byte body followed by one byte of the next frame     *)
(* ("frame"), or n bytes read to EOF ("raw"); the invariants evaluate the *)
(* operators on it.                                                       *)
(***************************************************************************)
EXTENDS PadArith, ShuffleSlice, BufioRead, MapTree, IpRegion, WebParams, SshConfig, LogTables, DbTypes, SequencesExt

CONSTANTS MaxLen, MaxBlock, MaxSize, MaxPack, MaxSlice, MaxFrame, MaxRaw, MaxLine,
          MaxIP, MaxRanges, MaxProxyLen, MaxKeyCalls

ASSUME MaxBlock \in 1..255
ASSUME 4 <= ReaderSize /\ ReadChunk < ReaderSize

\* The 4-byte length prefix, an n-byte body and one byte of the next frame.
FrameBody(len) == [i \in 1..len |-> 100 + i]
FullFrame(len) == <<len, 0, 0, 0>> \o FrameBody(len) \o <<7>>

\* An nj11 line of n bytes, its "\r\n" and one byte of the next line.
FullLine(len) == FrameBody(len) \o <<CR, LF, 7>>

\* Every way a connection can deliver s in non-empty segments: a first
\* segment of k bytes, then a segmenting of the rest.
RECURSIVE Segmentings(_)
Segmentings(s) ==
    IF s = <<>> THEN {<<>>}
    ELSE UNION {{<<SubSeq(s, 1, k)>> \o t : t \in Segmentings(SubSeq(s, k + 1, Len(s)))}
                : k \in 1..Len(s)}

\* A document of the "tree" kind: a root with objects "A" and "B" (ids 2
\* and 3) and a plain object "C" (id 8).  A and B each have their own
\* scalar p and optionally a base (the other one, C, or their own nested
\* object x), a nested object x (ids 4, 5) with or without a base (the
\* other top object or C), and an array l holding a string and an
\* object (ids 6, 7) whose base is C.  Each names the other as "other".
Variants == [base : {"none", "other", "x", "C"}, child : {"none", "plain", "other", "C"},
             arr : BOOLEAN]

BaseName(name, b) == IF b # "other" THEN b ELSE IF name = "A" THEN "B" ELSE "A"

TopObj(name, t, cid, eid) ==
    [k \in {"p"} \cup (IF t.base = "none" THEN {} ELSE {BaseKey})
              \cup (IF t.child = "none" THEN {} ELSE {"x"})
              \cup (IF t.arr THEN {"l"} ELSE {}) |->
        CASE k = "p" -> Str(name)
          [] k = BaseKey -> Str(BaseName(name, t.base))
          [] k = "x" -> Obj(cid)
          [] OTHER -> Arr(<<Str(name), Obj(eid)>>)]

ChildObj(name, t) ==
    [k \in {"q"} \cup (IF t.child \in {"none", "plain"} THEN {} ELSE {BaseKey}) |->
        IF k = "q" THEN Str(name) ELSE Str(BaseName(name, t.child))]

ElemObj(name) == [k \in {"r", BaseKey} |-> IF k = "r" THEN Str(name) ELSE Str("C")]

Doc(ta, tb) ==
    <<[k \in {"A", "B", "C"} |-> CASE k = "A" -> Obj(2) [] k = "B" -> Obj(3) [] OTHER -> Obj(8)],
      TopObj("A", ta, 4, 6), TopObj("B", tb, 5, 7),
      ChildObj("A", ta), ChildObj("B", tb), ElemObj("A"), ElemObj("B"),
      [k \in {"p"} |-> Str("C")]>>

\* The document of TestReadIntf (common/utilst_test.go), its scalars
\* reduced to one per object: S base_server, P base_pserver with its
\* proxy_addr X, D base_db, V and W the two servers with their db
\* objects, and the string list L.
TestDoc ==
    <<[k \in {"S", "P", "D", "V", "W", "L"} |->
          CASE k = "S" -> Obj(2) [] k = "P" -> Obj(3) [] k = "D" -> Obj(5)
            [] k = "V" -> Obj(6) [] k = "W" -> Obj(8)
            [] OTHER -> Arr(<<Str("V"), Str("W")>>)],
      [k \in {"p"} |-> Str("S")],
      [k \in {BaseKey, "p", "X"} |->
          CASE k = BaseKey -> Str("S") [] k = "p" -> Str("P") [] OTHER -> Obj(4)],
      [k \in {"q"} |-> Str("X")],
      [k \in {"p"} |-> Str("D")],
      [k \in {BaseKey, "p", "db"} |->
          CASE k = BaseKey -> Str("P") [] k = "p" -> Str("V") [] OTHER -> Obj(7)],
      [k \in {BaseKey, "q"} |-> IF k = BaseKey THEN Str("D") ELSE Str("V")],
      [k \in {BaseKey, "p", "db"} |->
          CASE k = BaseKey -> Str("P") [] k = "p" -> Str("W") [] OTHER -> Obj(9)],
      [k \in {BaseKey, "q"} |-> IF k = BaseKey THEN Str("D") ELSE Str("W")]>>

\* inheritObj's range order over the keys of these documents.
MCKeyOrder == <<NameKey, BaseKey, "A", "B", "C", "S", "P", "D", "V", "W", "L",
                "p", "q", "r", "x", "l", "X", "db">>

\* The "ipr" inputs: country_ip tables of sorted, disjoint ranges of
\* addresses 0.0.0.0 .. 0.0.0.MaxIP, in upper-case codes, and a country
\* table in lower case, so that getCountryInfoKey's ToLower matters.
Code(c, up) == [c |-> c, up |-> up]
InfoLines == <<<<"United States", Code("us", FALSE), Code("usa", FALSE), 840, "1">>,
               <<"China", Code("cn", FALSE), Code("chn", FALSE), 156, "86">>>>
RangeCountry(i) == IF i % 2 = 1 THEN "United States" ELSE "China"
IPLine(r, i) ==
    IF i % 2 = 1 THEN <<r.f, r.t, "-", "-", Code("us", TRUE), Code("usa", TRUE), "US">>
    ELSE <<r.f, r.t, "-", "-", Code("cn", TRUE), Code("chn", TRUE), "CN">>
Ranges == {r \in [f : 0..MaxIP, t : 0..MaxIP] : r.f <= r.t}
RangeTables ==
    {s \in UNION {[1..k -> Ranges] : k \in 0..MaxRanges} :
        \A i \in 1..(Len(s) - 1) : s[i].t < s[i + 1].f}
IPv4(d) == [t |-> "v4", b |-> <<0, 0, 0, d>>]
\* 2001:db8::d, whose last four bytes are those of 0.0.0.d.
IPv6(d) == [t |-> "v6", b |-> <<32, 1, 13, 184, 0, 0, 0, 0, 0, 0, 0, 0, 0, 0, 0, d>>]

\* The "sign" inputs: structs with a string field a, optionally an int
\* field i, any of the nonce_str, sign and sign_type fields, an untagged
\* and a "-" field; each sign type with its key, and the two random
\* strings.  Values include "1&b=2", which holds the separators.
SVals == {<<49>>, <<49, Amp, 98, Eq, 50>>, <<>>}
Fd(tag, k, v) == [tag |-> tag, kind |-> k, val |-> v]
Structs ==
    {<<Fd(<<97>>, "string", va)>> \o ints \o opt \o <<Fd(<<>>, "string", <<120>>), Fd(<<45>>, "string", <<120>>)>>
        : va \in SVals, ints \in {<<>>, <<Fd(<<105>>, "int", 0)>>, <<Fd(<<105>>, "int", 12)>>},
          opt \in {SetToSeq(o) : o \in SUBSET {Fd(KNameNonceStr, "string", <<>>),
                                               Fd(KNameSign, "string", <<>>),
                                               Fd(KNameSignType, "string", <<>>)}}}
SignTypes == {SignTypeMd5, SignTypeRSA1, SignTypeRSA256, <<120>>}
Nonces == {<<78, 49>>, <<78, 50>>}
SignKey(t) == IF t = SignTypeMd5 THEN [md5 |-> <<107>>] ELSE [priv |-> 1]
VerifyKey(t) == IF t = SignTypeMd5 THEN [md5 |-> <<107>>] ELSE [pub |-> 1]
\* The "signpair" inputs: two structs with fields a and, optionally, b.
PairStructs == {<<Fd(<<97>>, "string", va)>> \o b
                   : va \in SVals, b \in {<<>>} \cup {<<Fd(<<98>>, "string", vb)>> : vb \in SVals \cup {<<50>>}}}

\* The "dial" inputs: proxy_addr strings over "p", "q" and ";", host keys
\* and VerifyHostKey of a JSON config or of a host map, and every network
\* on their routes: up from round 1, from round 2 or never, its server
\* presenting key K1 or K2.
ProxyStrs == BoundedSeq({112, 113, Semi}, MaxProxyLen)
JsonConfigs == [ProxyAddrs : ProxyStrs, HostKey : {"", "K1", "bad"}, VerifyHostKey : BOOLEAN,
                UserName : {""}, KeyPath : {"id_rsa"}]
HostConfigs == {HostMapToSSHConfig(h) : h \in [keyPath : {""}, proxy : {<<112>>}, user : {"u"},
                                               hostkey : {"", "K1"}]}
Routes == [up : {1, 2, Rounds + 1}, key : {<<"K1">>, <<"K2">>}]
GoodKey == [kind |-> "enc", pass |-> "P1"]

\* The "keys" inputs: up to MaxKeyCalls calls of SSHClientConfig, each on
\* a key file and with keypassFunc's answer.
KeyFiles == {GoodKey, [kind |-> "enc", pass |-> "P2"], [kind |-> "plain", pass |-> ""],
             [kind |-> "trail", pass |-> ""], [kind |-> "empty", pass |-> ""]}
KeyCfg == [ProxyAddrs |-> <<>>, HostKey |-> "", VerifyHostKey |-> FALSE, UserName |-> "",
           KeyPath |-> "id_rsa"]

\* The "logs" inputs: old tables of the days 8 and 7 before the first
\* midnight, up to 3 checks at nondecreasing hours (at midnight, at the
\* last hour of a day, a week later, 100 days later), each with its
\* Execs failing or not, and the remainDay argument.
CheckHours == {0, 23, 47, 197, 2400}
CheckSeqs == {s \in BoundedSeq([h : CheckHours, ok : BOOLEAN], 3) :
                 \A i \in 1..(Len(s) - 1) : s[i].h <= s[i + 1].h}

\* The "dbt" inputs: times on two days, at midnight and an hour later,
\* with and without a fraction of a second, in Local and in UTC; the
\* strings a column or a JSON text may hold; DBBool and DBIntBool values.
DbTimes == [d : {1, 2}, s : {0, 3600}, ns : {0, 1}, loc : {"Local", "UTC"}]
TimeStrs == [form : {"datetime", "date"}, d : {1}, s : {0, 3600}]
            \cup [form : {"clock", "zero", "junk"}, d : {0}, s : {3600}]
ZeroTime == [d |-> 0, s |-> 0, ns |-> 0, loc |-> "UTC"]

VARIABLES kind, n, bl, size, packsize, segs, doc, query
vars == <<kind, n, bl, size, packsize, segs, doc, query>>

Inputs ==
    \/ /\ kind = "pad"
       /\ n \in 0..MaxLen
       /\ bl \in 1..MaxBlock
       /\ size = 1 /\ packsize = 1
       /\ segs = <<>> /\ doc = <<>>
    \/ /\ kind = "stream"
       /\ n = 0
       /\ bl \in 1..MaxBlock
       /\ size \in 1..MaxSize
       /\ packsize \in 1..MaxPack
       /\ segs = <<>> /\ doc = <<>>
    \/ /\ kind = "shuffle"
       /\ n \in 0..MaxSlice
       /\ bl = 1 /\ size = 1 /\ packsize = 1
       /\ segs = <<>> /\ doc = <<>>
    \/ /\ kind = "frame"
       /\ n \in 1..MaxFrame
       /\ size \in 1..(n + 5)
       /\ segs \in Segmentings(SubSeq(FullFrame(n), 1, size))
       /\ bl = 1 /\ packsize = 1 /\ doc = <<>>
    \/ /\ kind = "raw"
       /\ n \in 0..MaxRaw
       /\ segs \in Segmentings(FrameBody(n))
       /\ bl = 1 /\ size = 1 /\ packsize = 1 /\ doc = <<>>
    \/ /\ kind = "line"
       /\ n \in 0..MaxLine
       /\ size \in 0..(n + 3)
       /\ segs \in Segmentings(SubSeq(FullLine(n), 1, size))
       /\ bl = 1 /\ packsize = 1 /\ doc = <<>>
    \/ /\ kind = "tree"
       /\ doc \in {Doc(ta, tb) : ta, tb \in Variants} \cup {TestDoc}
       /\ n = 0 /\ bl = 1 /\ size = 1 /\ packsize = 1 /\ segs = <<>>

Init ==
    \/ Inputs /\ query = <<>>
    \/ /\ kind = "ipr"
       /\ query \in [tbl : RangeTables,
                     addr : {IPv4(d) : d \in 0..(MaxIP + 1)} \cup {IPv6(1), [t |-> "bad"]}]
       /\ n = 0 /\ bl = 1 /\ size = 1 /\ packsize = 1 /\ segs = <<>> /\ doc = <<>>

    \/ /\ kind = "sign"
       /\ query \in [s : Structs, t : SignTypes, r1 : Nonces, r2 : Nonces]
       /\ n = 0 /\ bl = 1 /\ size = 1 /\ packsize = 1 /\ segs = <<>> /\ doc = <<>>
    \/ /\ kind = "signpair"
       /\ query \in [s1 : PairStructs, s2 : PairStructs]
       /\ n = 0 /\ bl = 1 /\ size = 1 /\ packsize = 1 /\ segs = <<>> /\ doc = <<>>

    \/ /\ kind = "dial"
       /\ query \in UNION {[p : {c}, net : [ToSet(Split(c.ProxyAddrs)) -> Routes]]
                           : c \in JsonConfigs \cup HostConfigs}
       /\ n = 0 /\ bl = 1 /\ size = 1 /\ packsize = 1 /\ segs = <<>> /\ doc = <<>>
    \/ /\ kind = "keys"
       /\ query \in BoundedSeq([f : KeyFiles, ask : {"P1", "P2"}], MaxKeyCalls)
       /\ n = 0 /\ bl = 1 /\ size = 1 /\ packsize = 1 /\ segs = <<>> /\ doc = <<>>

    \/ /\ kind = "logs"
       /\ query \in [init : SUBSET {-8, -7}, checks : CheckSeqs, remain : {3, 7}]
       /\ n = 0 /\ bl = 1 /\ size = 1 /\ packsize = 1 /\ segs = <<>> /\ doc = <<>>

    \/ /\ kind = "dbt"
       /\ query \in [t : DbTimes, prev : {ZeroTime, [ZeroTime EXCEPT !.d = 2, !.loc = "Local"]},
                     str : TimeStrs, b : {<<>>, <<0>>, <<1>>}, ib : {0, 1, 2}]
       /\ n = 0 /\ bl = 1 /\ size = 1 /\ packsize = 1 /\ segs = <<>> /\ doc = <<>>

\* Inputs do not change: the check is over the set of initial states.
Hold == UNCHANGED vars

Spec == Init /\ [][Hold]_vars

\* The plaintext, its bytes chosen so that the last one is a valid
\* padding byte value (the worst case for unpadding).
Data == [i \in 1..n |-> 1]

\* Spec 8.2: unpadding a PKCS#7-padded buffer gives back the plaintext,
\* for every block length 1..255 (Pkcs7Pad / Pkcs7Unpad of cipher2/pad.go).
Pkcs7RoundTrip ==
    kind = "pad" =>
    LET padded == Pkcs7Pad(Data, bl)
    IN  /\ padded.ok
        /\ Len(padded.data) % bl = 0
        /\ Pkcs7Unpad(padded.data, bl) = [ok |-> TRUE, data |-> Data]

\* Reference cut of a stream: full packs of packsize, then the remainder.
RefChunks ==
    LET k == (size + packsize - 1) \div packsize
    IN  [i \in 1..k |-> IF i * packsize <= size THEN packsize
                        ELSE size - (i - 1) * packsize]

\* The length field a stream response advertises (CalcStreamSize) equals
\* the bytes the chunks occupy once EncryptAckData has PKCS#7-padded each
\* of them, so the client's length-prefixed read ends at the last chunk.
StreamSizeMatchesPadding ==
    kind = "stream" =>
    CalcStreamSize(size, packsize, bl)
      = FoldLeft(LAMBDA acc, c : acc + Len(Pkcs7Pad([i \in 1..c |-> 0], bl).data),
                 0, RefChunks)

\* n distinct items to shuffle.
Items == [i \in 1..n |-> i]

\* ShuffleInterfaceSlice returns a permutation of its input, whatever
\* rand.Int() returns: no item is lost or duplicated by the swaps.
ShufflePermutes ==
    kind = "shuffle" =>
        \A out \in ShuffleOutcomes(Items) :
            Len(out) = n /\ ToSet(out) = ToSet(Items)

\* Every permutation of the input is a possible result of the shuffle.
ShuffleReachesAll ==
    kind = "shuffle" =>
        ShuffleOutcomes(Items) = {p \in [1..n -> 1..n] : ToSet(p) = 1..n}

\* The sz12 read path (readBytes, ReadAllData) returns a frame's body
\* exactly and leaves the reader at the first byte after it, however the
\* connection segments the stream and whether or not the body is larger
\* than the bufio buffer; a stream that ends inside the frame panics
\* instead of returning a short body.
FrameReadExact ==
    kind = "frame" =>
    LET res == ReadAllData(NewReader(segs))
    IN  /\ res.ok <=> size >= n + 4
        /\ res.ok => /\ res.data = FrameBody(n)
                     /\ Remaining(res.rd) = SubSeq(FullFrame(n), n + 5, size)

\* emptycipher.DecodeRead returns every byte the peer sent before closing,
\* however its Read calls are cut by the segments and the 1024-byte slice.
EmptyReadsToEOF ==
    kind = "raw" => EmptyDecodeRead(NewReader(segs)) = FrameBody(n)

\* The nj11 cipher's readLine returns exactly the line the peer sent,
\* without its "\r\n", and leaves the reader at the next line, however
\* the segments cut it, even when the line is longer than the bufio
\* buffer and its "\r\n" straddles two fills.
LineReadExact ==
    kind = "line" /\ size >= n + 2 =>
    LET res == NjReadLine(NewReader(segs))
    IN  /\ res.ok
        /\ res.data = FrameBody(n)
        /\ Remaining(res.rd) = SubSeq(FullLine(n), n + 3, size)

\* A stream that ends before the "\r\n" is not taken for a line (spec
\* 4.2: the nj11 cipher reads a CRLF-terminated line).
UnterminatedLineRejected ==
    kind = "line" /\ size < n + 2 => ~NjReadLine(NewReader(segs)).ok

\* The tables InitFromFile builds for the "ipr" input.
IPR == InitFromFile([i \in 1..Len(query.tbl) |-> IPLine(query.tbl[i], i)], InfoLines)

\* GetIPCountryName names the country of the range that holds an IPv4
\* address and "unknown" for an address in no range or no address,
\* whatever the table's length and wherever sort.Search's halving lands.
IpLookupExact ==
    kind = "ipr" /\ query.addr.t # "v6" =>
    GetIPCountryName(IPR, query.addr)
        = IF query.addr.t = "v4" /\ \E i \in DOMAIN query.tbl :
                 query.tbl[i].f <= query.addr.b[4] /\ query.addr.b[4] <= query.tbl[i].t
          THEN RangeCountry(CHOOSE i \in DOMAIN query.tbl :
                 query.tbl[i].f <= query.addr.b[4] /\ query.addr.b[4] <= query.tbl[i].t)
          ELSE "unknown"

\* The table holds IPv4 ranges: an IPv6 address is in none of them.
V6Unknown == kind = "ipr" /\ query.addr.t = "v6" => GetIPCountryName(IPR, query.addr) = "unknown"

\* The result of BuildSignedValues on the "sign" input.
Signed == BuildSignedValues(query.s, query.t, SignKey(query.t), query.r1, query.r2)

\* The struct a receiver declares: the sender's fields, blank.
Blank(st) == [i \in DOMAIN st |-> [st[i] EXCEPT !.val = IF st[i].kind = "int" THEN 0 ELSE <<>>]]

\* Values BuildSignedValues signs pass VerifyValuesSign with the
\* matching key, for each sign type, whichever of nonce_str, sign and
\* sign_type the struct declares; an unknown sign type is refused.
SignedVerifies(res, t) ==
    IF t \in {SignTypeMd5, SignTypeRSA1, SignTypeRSA256}
    THEN res.ok /\ VerifyValuesSign(res.values, t, VerifyKey(t))
    ELSE ~res.ok

SignVerifies == kind = "sign" => SignedVerifies(Signed, query.t)

\* A receiver that parses the signed values into its struct, discarding
\* sign, gets every other field as the sender's struct holds it after
\* BuildSignedValues (ints through "%v" and Atoi), nonce_str aside.
ParsedAsSent(res, p) ==
    /\ ~p.err
    /\ \A i \in DOMAIN p.struct :
          p.struct[i].tag \notin {KNameSign, KNameNonceStr} =>
              p.struct[i] = Visited(res.struct, TRUE)[i]

ParseRoundTrip ==
    kind = "sign" /\ query.t # <<120>> =>
    ParsedAsSent(Signed, ParseWebParams(Signed.values, Blank(query.s), <<KNameSign>>))

\* The nonce_str the sender's struct keeps is the one it signed and sent.
NonceAgrees ==
    kind = "sign" /\ query.t # <<120>> =>
    \A i \in DOMAIN query.s :
        query.s[i].tag = KNameNonceStr => Signed.struct[i].val = Get(Signed.values, KNameNonceStr)

\* Two different sets of parameters never share a sign data, so that a
\* signature cannot be moved to other parameters.
SignBindsValues ==
    kind = "signpair" /\ BuildValues(query.s1) # BuildValues(query.s2) =>
    BuildValuesSignData(BuildValues(query.s1)) # BuildValuesSignData(BuildValues(query.s2))

\* The host-key policy SSHConfig documents: the configured key, or any
\* key when none is configured and VerifyHostKey is off.
Policy(p, key) == IF p.HostKey # "" THEN key = <<p.HostKey>> ELSE ~p.VerifyHostKey
Usable(r, a) == query.net[a].up <= r /\ Policy(query.p, query.net[a].key)

\* The earliest round in which a route is usable, and in it the first
\* usable route of proxy_addr, from the set of usable (round, index).
EarliestDial(good) ==
    LET r0 == Min({g[1] : g \in good})
    IN  <<r0, Min({g[2] : g \in {h \in good : h[1] = r0}})>>

\* With a readable key, DialSSH connects exactly when some route of
\* proxy_addr is up by the last round and reaches a server whose key the
\* policy accepts, and it connects over the earliest such round and, in
\* it, the first such route in proxy_addr's order: its retry loop gives up
\* on no usable route and never takes a server the host key rejects.
DialExact ==
    kind = "dial" =>
    \A o \in SSHClientConfig(query.p, GoodKey, <<>>, "P1") :
        o.r = "ok" =>
        LET res == DialSSH(query.p, o.cfg, query.net)
            as == Split(query.p.ProxyAddrs)
            good == {g \in (1..Rounds) \X DOMAIN as : Usable(g[1], as[g[2]])}
        IN  IF good = {} THEN ~res.ok
            ELSE res.ok /\ Last(res.tried) = [r |-> EarliestDial(good)[1], a |-> as[EarliestDial(good)[2]]]

\* A proxy_addr that names proxies never leads DialSSH to dial the server
\* directly.
ProxyOnly ==
    kind = "dial" /\ query.p.ProxyAddrs # <<>> =>
    \A o \in SSHClientConfig(query.p, GoodKey, <<>>, "P1") :
        o.r = "ok" => \A i \in DOMAIN DialSSH(query.p, o.cfg, query.net).tried :
                         DialSSH(query.p, o.cfg, query.net).tried[i].a # <<>>

\* Every sequence of outcomes of SSHClientConfig called in turn, the
\* password cache threaded through.
RECURSIVE KeyCalls(_, _)
KeyCalls(calls, c) ==
    IF calls = <<>> THEN {<<>>}
    ELSE UNION {{<<o>> \o t : t \in KeyCalls(Tail(calls), o.c)}
                : o \in SSHClientConfig(KeyCfg, Head(calls).f, c, Head(calls).ask)}

\* A call on an encrypted key whose keypassFunc answers its password.
Answered(call) == call.f.kind = "enc" /\ call.ask = call.f.pass

\* A call whose keypassFunc answers the key's password succeeds, whatever
\* calls came before: a wrong password tried earlier does not lock the
\* key out through priKeyPassMap.
KeyUsable ==
    kind = "keys" =>
    \A t \in KeyCalls(query, <<>>) : \A i \in DOMAIN t : Answered(query[i]) => t[i].r = "ok"

\* The same where DecryptPEMBlock caught every wrong password (no parse
\* of a decrypted key failed): an error does not cache the password.
KeysRecover ==
    kind = "keys" =>
    \A t \in KeyCalls(query, <<>>) :
        (\A i \in DOMAIN t : t[i].r # "parseerr") =>
        \A i \in DOMAIN t : Answered(query[i]) => t[i].r = "ok"

\* No key file makes SSHClientConfig panic: a bad file is an error.
KeyReadNoPanic ==
    kind = "keys" => \A t \in KeyCalls(query, <<>>) : \A i \in DOMAIN t : t[i].r # "panic"

\* The log tables of one name, "log", before and after each check of the
\* "logs" input (bound once by the properties, as \A db \in {LogDb}).
LogDb == FoldLeft(LAMBDA acc, c :
                     Append(acc, CheckLogTables(acc[Len(acc)], c.h, query.remain, c.ok)),
                  <<("log" :> query.init)>>, query.checks)

\* Tables after the last check at or before hour w (the checks are in
\* hour order), of the tables db holds before and after each check.
TablesAt(db, w) == db[SelectLastInSeq(query.checks, LAMBDA c : c.h <= w) + 1]["log"]

ReadyIn(db) ==
    \A i \in DOMAIN query.checks :
        query.checks[i].ok =>
        \A w \in query.checks[i].h..(query.checks[i].h + HoursPerDay - 1) : Day(w) \in TablesAt(db, w)

\* A row logged at any hour within a day after a check whose statements
\* succeeded finds its day's table, whatever checks ran in between: the
\* check creates tomorrow's table before today's runs out, and no later
\* check drops a table that recent.
LogTableReady == kind = "logs" => \A db \in {LogDb} : ReadyIn(db)

\* The oldest day whose table each successful check must have dropped,
\* relative to its own day, holds for the tables after it.
OldestKept(db, back) ==
    \A i \in DOMAIN query.checks :
        query.checks[i].ok => \A d \in db[i + 1]["log"] : d >= Day(query.checks[i].h) - back

\* After a successful check, no table older than remainDay days is left.
RemainDayHonoured == kind = "logs" => \A db \in {LogDb} : OldestKept(db, query.remain)

\* After a successful check, no table is older than the drop window.
TablesBounded == kind = "logs" => \A db \in {LogDb} : OldestKept(db, RemainLogDays + DropDays)

\* A Local time in whole seconds, written by DBTime.MarshalJSON, reads
\* back through UnmarshalJSON into any earlier value as the same time;
\* the same for the date of a Local time through DBDate, and for a
\* DBIntBool's truth value.
DBJSONRoundTrip ==
    kind = "dbt" /\ query.t.loc = "Local" =>
        /\ query.t.ns = 0 =>
              DBTimeUnmarshalJSON(query.prev, DBTimeMarshalJSON(query.t)) = [err |-> FALSE, tm |-> query.t]
        /\ DBDateUnmarshalJSON(query.prev, DBDateMarshalJSON(DateFromTime(query.t)))
              = [err |-> FALSE, tm |-> DateFromTime(query.t)]
        /\ DBIntBoolValue(DBIntBoolUnmarshalJSON(1 - (query.ib % 2), DBIntBoolMarshalJSON(query.ib)).bv)
              = DBIntBoolValue(query.ib)

\* A column's text in the full or the date layout is read by DBTime.Scan
\* and DBDate.Scan (through StrToTime, without panicking) as the time the
\* same text in a JSON request gives through UnmarshalJSON: the database
\* and the web path agree on a row's time.
ScanAgreesJSON ==
    kind = "dbt" /\ query.str.form \in {"datetime", "date"} =>
        LET col == [kind |-> "bytes", v |-> query.str]
        IN  /\ ~DBTimeScan(query.prev, col).panic /\ ~DBDateScan(query.prev, col).panic
            /\ DBTimeScan(query.prev, col).tm = DBTimeUnmarshalJSON(query.prev, JsonStr(query.str)).tm
            /\ DBDateScan(query.prev, col).tm = DBDateUnmarshalJSON(query.prev, JsonStr(query.str)).tm

\* DBTime.Scan of any text column returns rather than panics.
ScanNoPanic == kind = "dbt" => ~DBTimeScan(query.prev, [kind |-> "bytes", v |-> query.str]).panic

\* A DBTime in whole seconds, in any location, reads back from its own
\* JSON as the same instant.
JSONKeepsInstant ==
    kind = "dbt" /\ query.t.ns = 0 =>
        Instant(DBTimeUnmarshalJSON(query.prev, DBTimeMarshalJSON(query.t)).tm) = Instant(query.t)

\* A DBBool read from its own JSON into a zero-valued field (a fresh
\* struct's nil slice) has its truth value.
DBBoolRoundTrip ==
    kind = "dbt" => DBBoolValue(DBBoolUnmarshalJSON(<<>>, DBBoolMarshalJSON(query.b)).bv) = DBBoolValue(query.b)

\* The keys of object i holding objects, and the objects reachable from
\* the root through them.
ObjKeys(h, i) == {k \in DOMAIN h[i] : h[i][k].t = "obj"}

ReachableObjs(h) ==
    LET RECURSIVE From(_)
        From(ids) == LET next == ids \cup UNION {{h[i][k].id : k \in ObjKeys(h, i)} : i \in ids}
                     IN  IF next = ids THEN ids ELSE From(next)
    IN  From({1})

\* Whatever order Go ranges over the maps in, a document ReadMap accepts
\* comes back with no object reachable through nested objects still
\* naming a base: processMapTree resolves each, and inheritObj deletes
\* the key from every object it fills, copies included.
BasesResolved ==
    kind = "tree" =>
        \A r \in ReadMap(doc) :
            r.ok => \A i \in ReachableObjs(r.h) : BaseKey \notin DOMAIN r.h[i]

\* Inheritance never overrides: every object of the document keeps the
\* value of each of its own keys (its name marker aside), in every order,
\* however many bases and copies fill it.
OwnValuesKept ==
    kind = "tree" =>
        \A r \in ReadMap(doc) :
            r.ok => \A i \in ReachableObjs(doc) :
                        \A k \in DOMAIN doc[i] \ {BaseKey, NameKey} :
                            doc[i][k].t = "str" => r.h[i][k] = doc[i][k]
\* The document ReadMap returns, ids dereferenced; a panic or a stack
\* overflow as such.
RECURSIVE Tree(_, _)
Tree(h, v) ==
    CASE v.t = "obj" -> [obj |-> [k \in DOMAIN h[v.id] |-> Tree(h, h[v.id][k])]]
      [] v.t = "arr" -> [arr |-> [i \in 1..Len(v.items) |-> Tree(h, v.items[i])]]
      [] v.t = "str" -> [str |-> v.s]
      [] OTHER -> [null |-> TRUE]

Outcome(r) == IF r.ok THEN Tree(r.h, Obj(1)) ELSE [fail |-> r.err]

\* ReadMap's result does not depend on the order in which Go ranges over
\* the maps: every order of processMapTree's nested objects gives the
\* same document, or the same failure.
OrderIndependent ==
    kind = "tree" => \A r1, r2 \in ReadMap(doc) : Outcome(r1) = Outcome(r2)

\* copyValue copies a slice item for item: an array an object inherits
\* holds the base's items and nothing else (the documents hold no null).
ArraysCopiedExactly ==
    kind = "tree" =>
        \A r \in ReadMap(doc) :
            r.ok => \A i \in ReachableObjs(r.h) : \A k \in DOMAIN r.h[i] :
                        r.h[i][k].t = "arr" =>
                            \A j \in 1..Len(r.h[i][k].items) : r.h[i][k].items[j].t # "nil"
=============================================================================
