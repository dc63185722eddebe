# TLA+ models of gopub

This directory holds TLA+ models of the gopub Go library (`src/`) and the TLC
configurations that check them. The centre of the library is `netserve`: a
TCP/UDP/HTTP server framework with its own "sz12" encrypted transport. Its
sessions are shared between goroutines. Around it sit a few small concurrent
helpers: the serve group, the tunnel executor, SyncAction, the CUID generator
and the SSH dialer manager. Each of these has a module of its own.

## 1. Inventory

### Components and their state

| Component | Sources | State | Module |
|---|---|---|---|
| Padding | `cipher2/pad.go` | none (pure) | `PadArith` |
| Session context `NetContext` | `netserve/context.go` | `seq, ack, nonce, aeskey, recviv, sendiv, recvsig, updateiv, state, stream, size, packsize`; `ackSetChan` (1-slot channel used as a lock) | `SzSession`, `PadArith` |
| sz12 transport cipher | `netserve/transcipher.go` | global `szcipher.Seq` (uint32, random start, atomic add) | `SzSession` |
| UDP context map | `context.go:34-59`, `common/tunneltask.go` | go-cache keyed by peer address, 5 min expiration; one tunnel goroutine runs every lookup | `UdpContextMap`, refining `UdpContextMapAbs` |
| Serve group and server loops | `netserve/servegroup.go`, `netserve/netserve.go` | `terminate` flag, listeners | `ServeLoop` |
| SyncAction | `common/syncaction.go` | task channel, serving goroutine | `SyncAction` |
| CUID generator | `dbutils/dbtype.go:39-131` | counter, lastCounter, lastTime in a goroutine; unbuffered channel | `CuidGen` |
| SSH dialer manager | `sshutil/sshmgr.go` | dialer pool channel, `sshClient`, `connIsValid`, per-call result channels | `SshDialersMgr` |
| SSH proxy (StartProxy, SOCKS5 server, the dial closure, `SSHClient.Dial`) | `sshmgr.go:297-332`, `socks5proxy.go`, `sshclient.go:29-47` | proxy goroutine phase; per SOCKS5 connection the closure's phase, the client it tested and dials on, the retry count; whether a goroutine panicked | `SshProxy` |
| Slice shuffle | `common/utils.go:562-588` | none (pure) | `ShuffleSlice` |
| Config inheritance (`ReadMap(r, true)`) | `common/map.go:192-284` | the decoded document's objects, mutated in place | `MapTree` |
| Stream readers | `transcipher.go:64-81, 110-113, 165-223, 432-453`, `servegroup.go:17-26` | the connection's `bufio.Reader` (buffer, pending segments, kept EOF) | `BufioRead` |
| IP-region lookup | `netutils/ipregion.go` | the tables `countryIPInfos`, `countryInfosAA`, `countryInfosNum` built once by `InitFromFile` | `IpRegion` |
| Signed web parameters | `netutils/webparams.go`, `urlvalues.go`, `common.go:25-31` | none (pure: a struct in, `url.Values` out; the struct's fields are written) | `WebParams` |
| SSH config | `sshutil/sshconfig.go` | the global `priKeyPassMap` (key MD5 → password) | `SshConfig` |
| Daily log tables | `dbutils/dbsession.go:143-244` | the database's tables `name_<date>` | `LogTables` |
| Database column types | `dbutils/dbtype.go:133-359`, `common/utils.go:315-339` | none (pure: a value in, a JSON text or a column out; a decoder writes its receiver) | `DbTypes` |
| nj11 / cccfg ciphers (the nj11 and empty ciphers' read loops aside), payload decoders, web/file server, the rest of the DB utilities, port forward, the rest of the map/JSON helpers | see `PROJECT.json` | — | not modelled (section 6) |

### How the parts interact

A TCP connection gets a fresh `NetContext`, and its requests are handled one
at a time on that connection's goroutine. A UDP datagram is handed to a new
goroutine. That goroutine takes the peer's context from the go-cache map,
so **datagrams from one peer run concurrently on one `NetContext`**. Every
goroutine of every connection draws response sequence numbers from the one
global atomic counter `szcipher.Seq`.

For each frame the request goroutine does these steps in order:
1. `DecodeData` checks the checksum.
2. `checkSetAck` rejects a repeat of the last seq.
3. `ack` and `recvsig` are stored.
4. The RSA block gives the AES key; the IV is derived (`GetSynAesIv`).
5. `aeskey`, `recviv` and `state` are stored.

The handler's writes then go through `EncodeWrite`:
- The first write in state 2 (handshake) or 10 (steady) builds the framed
  response: seq, header with the request's checksum, ack+1, optional RSA
  signature, then the ciphertext under `sendiv = MD5(recviv, nonce, seq,
  recvsig)`.
- Later writes are bare ciphertext chunks (streams).

The UDP read loop builds each datagram's conn synchronously, and
`newConn` calls `GetUdpNetContext`. That call sends a task to the single
tunnel goroutine and waits for it. So every UDP listener loop is serialised
through the tunnel goroutine, and the peer's context is looked up or created
there.

`ServeGroup.Serve` runs in its own goroutine. It first clears `terminate`,
then binds every listener of the net-type × IP × port cross-product, then
starts one loop per listener. A loop tests `terminate` only after it has
spawned a handler for a new connection or datagram. `ServeGroup.Stop`, the
only writer of `terminate = true`, is never called in the repository, so
`terminate` stays false and the loops run until the process ends.

## 2. Modules

### `PadArith`, `ShuffleSlice`, `BufioRead`, `MapTree`, `IpRegion`, `WebParams`, `SshConfig`, `LogTables`, `DbTypes` (+ `MCPadArith`)

Pure operators, one per function:
- `RoundUp` (`transcipher.go`).
- `Pkcs7Pad`, `Pkcs7Unpad`, `ZeroPad` (`pad.go`).
- `GetPackSize`, `CalcStreamSize` (`context.go`); the loop is a RECURSIVE
  operator.
- `ShuffleOutcomes` (`utils.go`): the set of results of
  `ShuffleInterfaceSlice` over every sequence of `rand.Int()` results. It is
  built by the RECURSIVE `ShuffleFrom`, one loop iteration (`ShuffleStep`) per
  level.
- `ReadBytes`, `ReadAllData` and `EmptyDecodeRead` (`transcipher.go`): the
  sz12 length-prefixed read and the empty cipher's read-to-EOF loop, as
  RECURSIVE operators over a record standing for the `bufio.Reader`
  (buffered bytes, the segments the connection will still deliver, the kept
  `io.EOF`). `Peek`, `Discard` and `BufRead` follow what `bufio` does for
  the calls these functions make: Peek fills until n bytes, a full buffer or
  an error, and returns `ErrBufferFull` with the whole buffer when n exceeds
  its size; Read with an empty buffer makes one connection read into it and
  copies out at most `len(p)` bytes. A connection read into less space than
  its segment returns a prefix and keeps the rest, as a TCP socket does.
- `NjReadLine` (`transcipher.go`): `readLine`, the nj11 cipher's
  `DecodeRead` framing, over `ReadSlice('\n')` and `ReadLine` as `bufio`
  implements them. `ReadSlice` fills until an LF is buffered, an error is
  kept or the buffer is full. `ReadLine` drops `\n` or `\r\n`, returns a
  full buffer as a prefix (`isPrefix`), and puts a trailing `\r` of a full
  buffer back so that a `\r\n` split across two buffers is still seen.
  `readLine` appends prefixes until a chunk is not one; an error is `nil`,
  which `DecodeRead`'s `CheckError` turns into a panic.
- Each reader is split into a step on the result of the call it makes
  (`PeekOf`, `BytesStep`, `HeaderOf`, `SliceOf`, `LineOf`, `LineStep`): one
  operator per loop turn, each call made once.
- `ReadMap` (`map.go`): the `__base_obj_name__` inheritance of
  `processMapTree`, `newGetBaseObjFunc`, `inheritObj` and `copyValue`.
  Go maps are references, and these functions mutate the objects in place
  (a base object is resolved while it is being copied from). So the
  document is a heap from object ids to key→value functions, and each
  operator threads the heap through. A `getBaseObjFunc` is the chain of
  objects it searches, innermost first. A failed type assertion or a
  missing base is a `"panic"` outcome. So is a base that has a base of its
  own in a top-level object: `processMapTree(m, nil)` gives the root level a
  nil func (the empty chain), and calling it panics. A recursion deeper than `Fuel` is
  `"overflow"` (Go's fatal stack overflow). `ProcessMapTree` returns the set
  of outcomes over every order in which Go may range over the nested
  objects. `inheritObj`'s copy loop runs in the fixed `KeyOrder`: every copy
  in one loop resolves bases through the same chain, so its order does not
  change the result.

- `GetIPCountryName` (`ipregion.go`): `net.ParseIP`'s 16-byte form,
  `ip2int` (the last four bytes, big-endian), `sort.Search` as a
  RECURSIVE operator halving `[i, j)` with the code's predicate
  `ip_from >= ip || ip_to >= ip`, the range check after it, and the
  country lookup by the lower-cased `a2_a3` key. `InitFromFile` builds the
  tables from CSV lines given as tuples of their columns; a country code is
  a record with its case, so `ToLower` merges codes that differ in case.
- `BuildSignedValues`, `BuildValuesSign`, `buildValuesSignData`,
  `signWithKey`, `VerifyValuesSign` and `ParseWebParams`
  (`webparams.go`). Strings are sequences of character codes, so the sort
  of the keys (`StrLess`, byte order) and the `k=v&k=v` sign data are
  computed as the code computes them. A struct is the sequence of its
  `webvar`-tagged fields; `foreachStructTags`'s filter is `Visited`. MD5,
  base64 and PKCS#1 v1.5 are records of their inputs: injective, as the
  properties need. The two `RandStringRunes(16)` results are inputs `r1`
  (written to the struct) and `r2` (sent and signed).

- `SSHClientConfig` and `DialSSH` (`sshconfig.go`). A key file is what
  `pem.Decode` finds in it. `DecryptPEMBlock` panics on the nil block of an
  empty file, rejects a block without encryption, and with a wrong
  password returns either an error or, when the padding check misses it,
  garbage that `ParsePKCS1PrivateKey` then rejects. `readKeyData` threads
  the `priKeyPassMap` cache: the cached password is used instead of asking
  `keypassFunc`, and one that decrypted without error is stored. `DialSSH`
  splits `proxy_addr` on `;` (`Split`, computed on character codes) and
  tries the pieces in order for three rounds; each try is `GetDialConn`
  (direct for an empty piece) and the handshake's `HostKeyCallback`. A
  network gives each route the round from which it connects and the host
  key of the server it reaches, so a proxy can lead to a different server.
  `HostMapToSSHConfig` turns on host-key verification exactly when a key
  is given.

- `CheckLogTable` (`dbsession.go`). Time is in hours and a table is its
  date's day number. A check creates today's table and then tomorrow's
  when missing, and drops the tables 8 to 97 days back (`remainDay` is
  not read). The code drops the errors of these `Exec`s; whether a
  check's statements succeed is an input.

`MCPadArith` makes each input one initial state, tagged by `kind`:
- `"pad"`: every data length ≤ 20 with block length 1..17.
- `"stream"`: stream size ≤ 34, pack size 1..17, block length 1..17.
- `"shuffle"`: slices of 0..5 distinct items.
- `"frame"`: the first `size` bytes of a frame with a body of 1..6 bytes
  and one byte of the next frame, cut into segments in every possible way
  (all 2^(size-1) segmentations, about 4,000 inputs). The bufio buffer is
  4 bytes, so the length prefix fits and bodies up to one and a half
  buffers long take the `ErrBufferFull` path, as frames over 4096 bytes do
  in the code.
- `"raw"`: 0..7 bytes in every segmentation, read with a 2-byte slice
  (the code's 1024 against a 4096 buffer).
- `"line"`: the first `size` bytes of a line of 0..6 bytes, its `\r\n`
  and one byte of the next line, in every segmentation (a stream cut
  before, inside or after the line end). The buffer is 4 bytes, so long lines take the
  prefix path and a `\r\n` can straddle two buffers.
- `"tree"`: 1,024 documents and the document of `TestReadIntf`
  (`utilst_test.go`). Each of the 1,024 has a root with objects A, B and a
  plain C. A and B may each have:
  - a base: the other object, C, or their own nested object;
  - a nested object `x`, with or without a base;
  - an array holding a string and an object based on C.

  This gives chains of bases, nested objects that inherit from an
  enclosing level, arrays that are copied, bases that do not resolve, and
  cycles.

- `"ipr"`: every table of 1..3 sorted ranges over addresses 0..5 (with
  gaps, adjacent and one-address ranges), every IPv4 address 0..6, the
  IPv6 address `2001:db8::1` and a string that is no address.
- `"sign"`: structs of a string field `a` (empty, `"1"` or `"1&b=2"`), an
  optional int field (0 or 12), any subset of `nonce_str`, `sign` and
  `sign_type`, an untagged and a `-`-tagged field, signed with md5, rsa1,
  rsa2 and an unsupported type, with two nonces for each random string.
- `"signpair"`: two structs of a field `a` and, optionally, `b`, with
  values that hold `&` and `=`.

- `"dial"`: every `proxy_addr` of up to 3 characters over `p`, `q` and
  `;`, each host key (none, `K1`, not base64) with and without
  verification, two host-map configs, and every network on the routes
  (up from round 1, 2 or never; key `K1` or `K2`).
- `"keys"`: every sequence of up to 3 `SSHClientConfig` calls, each on a
  key file (encrypted under `P1` or `P2`, plain, trailing data, empty) with
  `keypassFunc` answering `P1` or `P2`.

- `"logs"`: tables 7 and 8 days old, and up to 3 checks at hours 0, 23,
  47, 197 and 2400 in order, each succeeding or not, with `remainDay` 3
  or 7.
- `"dbt"`: times on two days, at midnight and an hour later, with and
  without a fraction of a second, in Local (8 hours east of UTC) and in
  UTC; a receiver that is the zero time or a Local time; column/JSON texts
  in the full and the date layout, a clock alone, MySQL's zero date and
  junk; the DBBool values nil, `{0}` and `{1}`; the DBIntBool values
  0, 1 and 2.

`DbTypes` represents a time by its wall-clock day and second in its
location, whether it has a fraction, and the location. A time text is the
layout it fits and its fields. A JSON text is its token and value. A
DBBool is its byte slice. The value receiver of `DBBool.UnmarshalJSON` is
modelled by what the caller's slice looks like after the call.

The invariants compare the operators with reference definitions:
`Pkcs7RoundTrip`, `StreamSizeMatchesPadding` (against `FoldLeft` over chunks
cut independently by `RefChunks`) and `ShufflePermutes`. `FrameReadExact`
says `ReadAllData` returns exactly the body and leaves the reader at the
byte after it when the frame is complete, and panics when the stream ends
inside it. `EmptyReadsToEOF` says the empty cipher returns every byte sent.
`LineReadExact` says `readLine` returns exactly a `\r\n`-terminated line,
without its end, and leaves the reader at the next line, however the bytes
are segmented and wherever the buffer boundary falls.
`IpLookupExact` says the lookup finds the one range holding an address, and
nothing when none does. `SignVerifies` says the values `BuildSignedValues`
returns pass `VerifyValuesSign` with the same type and key, and an
unsupported type fails. `ParseRoundTrip` says a receiver that parses the
signed values into a blank struct (discarding `sign`) gets every field the
sender's struct holds (`nonce_str` aside), ints through `IntValue`.
`DialExact` says that, with a readable key, `DialSSH` connects exactly when
a route is up by the third round and reaches a server whose key the policy
accepts, and then over the earliest such round and the first such route in
it. `KeysRecover` says a call whose `keypassFunc` answers the right
password succeeds after any earlier calls, as long as no wrong password
slipped past the padding check.
`LogTableReady` says a row logged within a day after a successful check
finds its day's table, whatever checks ran in between.
`DBJSONRoundTrip` says a Local `DBTime` in whole seconds, the date of a
Local `DBDate` and a `DBIntBool` read back from their own JSON into any
earlier value as the same value. `ScanAgreesJSON` says a column text in the
full or the date layout is scanned by `DBTime.Scan` and `DBDate.Scan`
without a panic, as the same time that `UnmarshalJSON` gives for that text
in a request.
Two properties hold in every order of every document `ReadMap` accepts:
- `BasesResolved`: no object reachable through nested objects still names a
  base.
- `OwnValuesKept`: inheritance never overrides an object's own values.

### `SzSession` (+ `MCSzSession`)

The sz12 request path. Each worker `w` is a request goroutine, with `pc[w]`
as its program counter. `CtxOf[w]` names the `NetContext` it uses: distinct
for TCP connections, one for all datagrams of a UDP peer.

State:
- `ctx`: the `NetContext` fields. AES key, IV and checksum are symbolic values
  (`recviv` is `GetSynAesIv(r)`, `sendiv` is the MD5 tuple of `UpdateIv`).
- `ackChan`: the `ackSetChan` occupancy.
- `gseq`: `szcipher.Seq`, modulo `2^SeqBits`.
- `sent[w]`: what the goroutine wrote to the wire.
- `accepted`: requests that passed `checkSetAck`, in order.

Actions, one per code step:

| Action | Code step |
|---|---|
| `Deliver` | the serve loop hands a frame to a goroutine |
| `ReadFrame` | checksum |
| `AckSend` / `AckCompare` / `AckReceive` / `AckAssign` | the four statements of `checkSetAck` |
| `SetAck` | the stores of ack and recvsig |
| `Decrypt` | `DecryptSyncData` and the stores after it |
| `Dispatch` | decoder and handler (`HandleRequest`) choosing no reply, a reply or a stream from `HandlerPlans` |
| `EncodeWrite` | branch on state |
| `IncSeq` | the atomic add |
| `BuildAckHdr` | header build |
| `EmitFrame` | sizes, panics, `state++` |
| `Finished` | all goroutines done |

The request data is abstracted to records with these fields:
- seq, msgtype, version, key, nonce
- whether it arrived intact
- whether RSA decrypt succeeds
- whether the payload decoder accepts it

`Overlap` says whether a second goroutine may start on a context while
another is active. TRUE gives the UDP behaviour. FALSE models a peer that
waits for each answer.

### `UdpContextMap` refines `UdpContextMapAbs`

`UdpContextMapAbs` is what `GetUdpNetContext` promises: one atomic
lookup-or-create step (`LookupOrCreate`) on a map whose entries expire TTL
ticks after they were stored.

`UdpContextMap` is the code:
- `Call`: a listener loop asks for a peer.
- `TunnelSend`: the send on `gTunnelTasks` (capacity 1).
- `TunnelTake`: the tunnel goroutine receives.
- `RunTask`: the Get / `NewNetContext` / Set closure and the deferred
  `execOver` signal.
- `TunnelReturn`: the caller wakes.
- `Release`: the loop hands the context on.
- `Tick`: time passes.

Context ids are reused once unreachable (`Fresh`). The refinement mapping
maps a caller whose `execOver` is signalled, or that holds its context, to
abstract `"done"`. Every other caller in the tunnel is `"calling"`.
`ImplementsAbstractMap` checks `Abs!AbsSpec` as a PROPERTY. This includes the
abstract weak fairness: every lookup completes.

### `ServeLoop` (+ `MCServeLoop`)

`Serve`, `Bind` (one element of the cross-product; `Listen` either binds or
panics out of `Serve`), `StartAll`, `TcpAccept`/`UdpRead` (spawn a handler),
`Check` (the `terminate` test after the spawn, always false) and `Cancel`
of the context given to `Serve`. There is no `Stop` step, because nothing
calls it. Accept errors, read timeouts and empty datagrams
`continue` without any state change, so they are stutters. The instance has
one TCP and one UDP listener with up to 3 connections each.

### `SyncAction` (+ `MCSyncAction`)

Callers go through `RunTask` → `SendTask` (the plain send on the task
channel) → `Await` (the select on `wt` / `ctx.Done`). `serve` is
`ServeTake`, `Execute` (runs the task, then closes `wt`), `ExecutePanic`
and `ServeExit` on `ctx.Done`. In `ExecutePanic` the task panics: the
deferred `close(wt)` runs, then `serve`'s recover, which is outside the loop,
ends `serve`. There are three callers and a buffer of 1. The constants
`CanCancel` and `CanPanic` say whether the context may be cancelled and
whether a task may panic.

### `CuidGen` (+ `MCCuidGen`)

`InitCuidDev`, one loop iteration of the generator (`Generate`, with
`NewSecond`/`SameSecond`), `NewCUID` (the receive) and `Tick` of the clock.
Ids are built with the code's layout, `now << (c+d) | counter << d | devid`,
using `Bitwise`. The widths are constants: 2 counter bits and 1 device bit,
so the wrap happens within a few ids.

### `SshDialersMgr` (+ `MCSshDialersMgr`)

StartServe's loop:
- `ServerIsOK` (with `CheckSSHState`) then `Assign`.
- connetToSSH's pop loop: `Pop`, `PopEmpty`. A dialer pushed back during the
  loop can be popped again.
- The per-dialer goroutines: `NewClient`, `Report`, `Return`.
- The collector: `Collect`, `CollectEnd`.
- The select: `Receive`, `Timeout`, `SelectCancel`.
- The sleep: `Wake`, `SleepCancel`.

Clients are numbered. Each connetToSSH call has its own result channel and
its own 1-slot answer channel. newClient's back-off and the remote web test
are abstracted to their possible outcomes.

### `SshProxy` (composes `SshDialersMgr`)

`SshProxy` EXTENDS the manager and adds the SOCKS5 proxy that `StartProxy`
starts, whose dialer is `GetDialFunc`'s closure:
- `StartProxy` (`"none"` → `"start"`), `Listen` (net.Listen succeeds or the
  goroutine ends), `Accept(k)` (a SOCKS5 connection's CONNECT reaches the
  closure), `AcceptExit` (an accept error once the context is done).
- `CheckClient(k)`: the closure's `sds.sshClient != nil` test; the value
  tested is kept in `checked[k]`.
- `LoadClient(k)`: `sds.sshClient.Dial` reads the field again. StartServe
  writes it without a lock, so the read is a data race; the model lets the
  build return the tested value or the one stored since. Dial on a nil
  client panics and sets `crashed`.
- `DialAttempt(k)`: one attempt of `SSHClient.Dial`. It succeeds only on a
  client still open; otherwise it retries until `DialRetries` attempts have
  failed, and then the closure sets `connIsValid = false`.

The manager's steps are wrapped as `MgrStep(A)` (only while nothing has
panicked, proxy variables unchanged) and the proxy's as `Alive(A)`.
`SystemSpec` is the composition; `SystemFairSpec` adds the fairness of
section 4.

## 3. Runs

| Run | cfg | Expect | What it shows |
|---|---|---|---|
| pad_arith | `MCPadArith.cfg` | pass | `Pkcs7RoundTrip`, `StreamSizeMatchesPadding`, `ShufflePermutes`, `FrameReadExact`, `EmptyReadsToEOF`, `BasesResolved`, `OwnValuesKept`, `LineReadExact`, `IpLookupExact`, `SignVerifies`, `ParseRoundTrip`, `DialExact`, `KeysRecover`, `LogTableReady`, `DBJSONRoundTrip`, `ScanAgreesJSON` over every input in the bounds |
| sz_tcp | `SzSessionTcp.cfg` | pass | `TypeOK`, `SeqUnique`, `ResponseBoundToRequest`, `FramingConsistent` for 2 TCP connections |
| sz_udp_serial | `SzSessionUdpSerial.cfg` | pass | `ResponseBoundToRequest` and `NoConsecutiveDuplicate` for 3 datagrams of one peer handled one at a time; SeqBits 2, so the counter wraps |
| sz_udp_overlap_mix | `SzSessionUdpOverlapMix.cfg` | violation | `ResponseBoundToRequest`: overlapping datagrams of one peer get responses built with the other datagram's ack/key/IV |
| serve_loop | `ServeLoopBindFail.cfg` | violation | `BoundListenersServed`: a bind that fails after an earlier one succeeded panics, `Serve`'s recover swallows it, and the listener already bound is neither served nor closed; spec 6 makes bind errors fatal at startup |
| udp_ctx_refines | `UdpContextMap.cfg` | pass | `ImplementsAbstractMap`: the tunnelled lookup refines the atomic expiring map, and every lookup returns |
| sync_action | `SyncAction.cfg` | violation | `WaitReturns`: a panicking task ends `serve`, and a RunTask whose task is still queued waits for ever (no cancellation) |
| sync_action_cancel | `SyncActionCancel.cfg` | violation | `RunTaskReturns`: after cancellation a RunTask blocks for ever on the full task channel |
| cuid_dup | `CuidGenDup.cfg` | violation | `CuidUnique`: after a within-second wrap the generator re-issues ids |
| ssh_mgr | `SshDialersMgr.cfg` | pass | `ConnectReturns`: every connetToSSH returns through its collector, without the timer; `DialReturns`: every SOCKS5 dial returns, even on a client StartServe closed, with the proxy composed |
| ssh_timeout_leak | `SshDialersMgrLeak.cfg` | violation | `NoLeakedClient`: after a timeout, the first client of that call stays open with nobody to close it |

Each violation is explained in `PROJECT.json` "findings". Every property of a
passing run has a mutant in `PROJECT.json`: the same run with one mapped
definition changed the way a plausible bug would change it. TLC finds the
property violated under each mutant.

**Further configurations.** These are kept beside the runs. Each checks one
more property that TLC finds violated. `MCPadArithLogs.cfg` and
`MCPadArithDbTypes.cfg` each check several such properties of one module.
Run them with `tlc -continue` so that TLC reports every violated property,
not just the first:

| cfg | Property | Result |
|---|---|---|
| `SzSessionUdpOverlapSeq.cfg` | `SeqUnique` | two overlapping datagrams get the same response seq: `BuildAckHdr` re-reads `context.seq` (`context.go:93`) |
| `SzSessionUdpOverlapDup.cfg` | `NoConsecutiveDuplicate` | a duplicate passes `checkSetAck`, whose assignment follows the unlock (`context.go:65`) |
| `SzSessionUdpStickyStream.cfg` | `FramingConsistent` | after a stream, later replies on a UDP context are framed with the stale stream size (`conn.go:89`) |
| `ServeLoopCancel.cfg` | `CancelStopsListeners` | the loops never read the context given to Serve (spec 5) |
| `UdpContextMapExpiry.cfg` | `SessionKeptWhileActive` | an active peer's context is replaced 5 minutes after creation: Get does not refresh the expiration (spec 9) |
| `SyncActionLate.cfg` | `NoLateExecution` | a task may run after its RunTask returned on `ctx.Done` |
| `CuidGenOverflow.cfg` | `CounterFitsField` | the counter is not wrapped in the new-second branch and carries into the time bits (`dbtype.go:105`) |
| `SshProxyNilDial.cfg` | `NoNilDial` | after a timeout StartServe stores a nil client; a proxy dial that tested the old client re-reads the field and calls Dial on nil (`sshmgr.go:324`) |
| `SshProxyStop.cfg` | `ProxyStops` | the proxy keeps serving after the manager's context is cancelled: nothing calls `Socks5Proxy.Stop` (`sshmgr.go:299`) |
| `MCPadArithTreeOrder.cfg` | `OrderIndependent` | `ReadMap`'s result depends on Go's map order (`map.go:268`). An object whose base is reached through a sibling is resolved and mutated before its own turn. Copies of it taken before and after differ: they lack or carry `__name__`. On `TestReadIntf`'s document, `V.proxy_addr` and `W.proxy_addr` get `__name__` only when `base_pserver` is processed first. 344 of the 1,024 documents have several results; in 72 of them some orders panic and others succeed |
| `MCPadArithTreeArray.cfg` | `ArraysCopiedExactly` | an inherited array is doubled: `make([]interface{}, len(av))` then `append` leaves len(av) nils in front of the copied items (`map.go:201`) |
| `MCPadArithLineEnd.cfg` | `UnterminatedLineRejected` | the nj11 reader accepts a last line that has no `\r\n`: at EOF `ReadLine` returns the buffered bytes with no error (`transcipher.go:72`), so a message cut by a closed connection is decoded as if complete |
| `MCPadArithIPv6.cfg` | `V6Unknown` | an IPv6 address is looked up by its low 32 bits (`ipregion.go:28`), so `2001:db8::1` gets the country of IPv4 `0.0.0.1` instead of "unknown" |
| `MCPadArithNonce.cfg` | `NonceAgrees` | the struct's `nonce_str` keeps the first random nonce while the values carry, and the signature covers, a second one (`webparams.go:112`) |
| `MCPadArithSignData.cfg` | `SignBindsValues` | the sign data escapes neither `&` nor `=`: `a="1&b=2"` and `a="1", b="2"` both sign `a=1&b=2`, so one signature is valid for both (`webparams.go:236`) |
| `MCPadArithDirect.cfg` | `ProxyOnly` | `proxy_addr` `";"` (or any leading, trailing or doubled `;`) splits into empty pieces, and `DialSSH` dials the server directly (`sshconfig.go:198`) |
| `MCPadArithKeyCache.cfg` | `KeyUsable` | a wrong password that `DecryptPEMBlock` does not detect is cached; the next call, whose `keypassFunc` would answer the right password, is never asked and fails (`sshconfig.go:82`) |
| `MCPadArithEmptyKey.cfg` | `KeyReadNoPanic` | an empty key file panics in `DecryptPEMBlock` on the nil block (`sshconfig.go:78`) |
| `MCPadArithLogs.cfg` | `RemainDayHonoured` | with `remainDay` 3, a table 7 days old survives a successful check: the argument is ignored for a fixed 7 days (`dbsession.go:239`) |
| `MCPadArithLogs.cfg` | `TablesBounded` | after checks 100 days apart, the tables of the first check's days are older than the 97-day drop window and stay for ever (`dbsession.go:240`) |
| `MCPadArithDbTypes.cfg` | `ScanNoPanic` | scanning MySQL's zero date `0000-00-00 00:00:00` (month 0) panics: no layout of `StrToTime` reads it and `CheckError` panics (`utils.go:326`) |
| `MCPadArithDbTypes.cfg` | `JSONKeepsInstant` | a UTC `DBTime` is written with its UTC wall clock and read back in Local, 8 hours off (`dbtype.go:202`) |
| `MCPadArithDbTypes.cfg` | `DBBoolRoundTrip` | `DBBool{1}` marshals to `true` and decodes into a nil `DBBool` as false: the value receiver's `append` is lost (`dbtype.go:261`) |
| `MCPadArithShuffle.cfg` | `ShuffleReachesAll` | `ShuffleInterfaceSlice` reaches only 2·(n−1)! of the n! orders for n ≥ 3 (`utils.go:584`) |

Why the bounds are enough:
- **SzSession.** Two goroutines give every pairwise interleaving of the
  steps. Three datagrams let a request follow two earlier ones on one
  context. SeqBits 2-3 wraps the counter. The plans cover both
  `GetPackSize` cases.
- **ServeLoop.** Two listeners of different types, bound in order, so the
  second bind can fail after the first succeeded. Three connections per
  listener let each loop spawn several handlers before the context is
  cancelled.
- **UdpContextMap.** Two peers and two loops contend for the one tunnel
  slot. With TTL 2 and a clock to 5, an entry is stored, reused, expires and
  is replaced. Five context ids are enough for two live entries plus the
  callers' copies.
- **SyncAction.** Three callers with a buffer of one make the channel full
  while serve runs a task.
- **CuidGen.** Two counter bits wrap after three ids. A clock of 8 seconds
  allows both new-second and same-second branches.
- **SshDialersMgr / SshProxy.** The passing run has one dialer, two
  connetToSSH calls, two clients, two pops per call (so the dialer pushed
  back is popped again), one SOCKS5 connection served repeatedly and
  `DialRetries` 2 for the code's 5 (a retry and a final failure both
  happen; more attempts only repeat the retry step). A second call can
  start while the first call's goroutines still run. The leak run keeps
  two dialers, so a surplus client reaches the collector.
- **Pure operators.** These cover every block length up to 17, including
  both PKCS#7 edge cases. Shuffles go up to 5 items: 48 draw sequences
  against 120 orders. Frames reach 11 bytes against a 4-byte buffer, so a
  body is split across two and three Peeks and the length across segments;
  truncated streams reach the kept-EOF and empty-peek panics. The
  documents give every order of three nested objects at the root. Every
  form of base resolution is reached: through the object itself, its
  parent, the root, a sibling being processed, a copy and an array. The
  results do not change for any `Fuel` from 6 to 20: only the cyclic
  documents overflow. Three ranges make `sort.Search` take both branches at
  two levels; addresses in gaps, before the first and after the last range
  reach each failing check. The sign inputs reach every `signWithKey`
  case, empty values and every filter of `foreachStructTags`. Three
  characters give two routes in both orders, empty pieces at each end and
  a direct-only address; rounds 1, 2 and never let a later round or a later
  route win. Three key calls are enough for a wrong password, then the
  right one, on one file, with a call on another file between. The check
  hours put a check at a day's first and last hour (so tomorrow's table
  is needed), a week later (inside the drop window) and 100 days later
  (past it). Two days, two seconds of the day and a nonzero offset make
  a shifted time a different value. Every `StrToTime` layout and its
  failure are reached, and both branches of `DBBool`'s decoder.

## 4. Fairness

- **Weak fairness on each goroutine's own steps**: the serve loops'
  `Check`, the tunnel goroutine, serve (a task it has taken ends, by
  returning or by panicking), the collectors, the dial
  goroutines, StartServe, the proxy's listener and the dial closure
  (`CheckClient`, `LoadClient`, `DialAttempt`; the retry sleep ends by
  itself). A runnable goroutine is eventually scheduled by
  the Go runtime.
- **Strong fairness on blocked channel sends**: `TunnelSend`,
  `SendTask` and `Report`. A goroutine blocked on a send is queued as a
  channel waiter and gets a freed slot. Enabledness alternates, so weak
  fairness would be too weak.
- **No fairness on the environment**: arriving requests, connections and
  datagrams, SOCKS5 connections and `AcceptExit`'s accept error,
  `StartProxy`, context cancellation and the 20 s timer. `ConnectReturns` therefore holds without the timer ever firing.

## 5. Refinement

`UdpContextMap` instantiates `UdpContextMapAbs` with the `pc` mapping above.
Every other variable (clock, cache, peer, got) maps to itself. The tunnel's
queue, running task and `execOver` signals are hidden.

## 6. Not modelled

- **Cipher algorithms.** AES, RSA and MD5 are abstracted to their
  input/output relation.
- **The nj11/cccfg ciphers and the payload decoders.** These are
  stateless conversions with no shared state. Only the sz12 path carries
  session state. `cccfgcipher.ReadAll` makes a single Read of up to 4096
  bytes, so over TCP a message split across segments is truncated; the spec
  states this limitation, and it is listed as a hazard without a run.
- **HTTP/web/file serving, the database utilities other than the log
  tables, port forward, and the
  map/JSON/URL helpers.** These are I/O and data conversion, which the
  spec places out of scope. The exceptions, modelled because they decide
  something a test hardly reaches, are `ReadMap`'s inheritance
  (`MapTree`), the IP-region search (`IpRegion`), the signed web
  parameters (`WebParams`), the SSH key cache and dial loop
  (`SshConfig`), the log-table rotation (`LogTables`) and the JSON and
  column conversions of the time and bool column types (`DbTypes`). TimeoutConn's deadlines (`sshutil/conn.go`) are left out:
  each Read and Write only sets a deadline first. The JSON decoding before it
  and the typed accessors are not modelled. `PortForward` is called
  nowhere in the repository, so its Stop race is not listed as a hazard.
- **`Socks5Proxy.Stop` and the terminate channel.** Nothing that the
  manager returns lets a caller reach them, so the model has no Stop step.
- **The SOCKS5 protocol and `testDial`.** The handshake is the library's;
  `StartProxy`'s test dial through the proxy is one more CONNECT, which
  `Accept` already covers.
- **The IP-region CSV reading, `ParseProxyAddr`, `MapURL`, the other
  `URLValues` accessors.** File I/O and string conversion without state;
  `FloatValue` and float struct fields are left out of `ParseWebParams`.
- **CUID's JSON and string forms, and the XML methods of the column
  types.** A CUID is an int64, beyond TLC's integers. The XML methods use
  the same `StrToTime` and formats as `Scan` and `MarshalJSON`.
- **The `packsize 0` non-termination of `CalcStreamSize`.** The handlers
  always pass a positive pack size.
