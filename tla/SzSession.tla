------------------------------ MODULE SzSession ------------------------------
(***************************************************************************)
(* The sz12 transport of netserve: conn.HandleRequest running the szcipher *)
(* decode path (ReadAllData, checksum, NetContext.checkSetAck, DecodeData, *)
(* DecryptSyncData), the payload decoder, the application handler and the *)
(* szcipher encode path (EncodeWrite, WriteAckData, BuildAckHdr, UpdateIv, *)
(* EncryptAckData) on shared NetContext objects.                          *)
(*                                                                         *)
(* A worker is one HandleRequest goroutine: one TCP connection or one UDP *)
(* datagram.  CtxOf says which NetContext its conn holds: a fresh one per *)
(* TCP connection (newConn, isTCP) or the one the UDP context map returns *)
(* for the peer address (GetUdpNetContext), shared by all datagrams of    *)
(* that peer.  Each step below is one block of Go statements between two  *)
(* points where another goroutine can observe or change the context.      *)
(*                                                                         *)
(* Data is abstracted: MD5 results are tuples of their inputs (collision  *)
(* free), a frame's checksum is the request itself, ciphertexts are the   *)
(* (key, iv) they were made with plus their length in bytes.  The        *)
(* response nonce (unix seconds) is left out of the IV tuple: it is the   *)
(* same input on both sides and no property distinguishes it.            *)
(***************************************************************************)
EXTENDS Integers, Sequences, FiniteSets, SequencesExt, PadArith

CONSTANTS
    Workers,       \* HandleRequest goroutines
    Ctxs,          \* NetContext objects
    CtxOf,         \* [Workers -> Ctxs]: the context of each worker's conn
    Requests,      \* the sz12 frames clients may send (records, see Request)
    Keys,          \* AES keys a client may put in the RSA block
    Nonces,        \* client nonces
    SeqBits,       \* width of seq/ack (uint32 in the code)
    HandlerPlans,  \* what APIHandler.HandleAPI may write (see Plan)
    Overlap        \* may two workers of one context run at the same time

SeqSpace == 2 ^ SeqBits
BlockSize == 16         \* aes.BlockSize() = len(context.aeskey)
HdrSize == 28           \* packhdrsize = sizeof(TransPacketHdr)
AckSize == 4            \* the uint32 ack+1 after the header
RsaBytes == 128         \* signature/RSA block of the 1024-bit key

NoKey == "nokey"

\* A request frame: its header fields, the client's AES key, whether the
\* frame arrives intact (checksum), whether RSA/version/padding decrypt
\* succeeds, and whether the payload decoder accepts the plaintext.
Request ==
    [seq : 0..(SeqSpace - 1), msgtype : {1, 3}, version : {1, 2, 3},
     nonce : Nonces, key : Keys, intact : BOOLEAN, body : {"ok", "rsa", "pad"},
     env : BOOLEAN]

\* A handler either writes nothing, one reply of len bytes, or declares a
\* stream (BeginWriteStream(size, packsize)) and writes its chunks.
Plan ==
    [kind : {"none"}] \cup [kind : {"reply"}, len : 1..64]
      \cup [kind : {"stream"}, size : 1..64, packsize : 1..64]

ASSUME /\ Requests \subseteq Request
       /\ HandlerPlans \subseteq Plan
       /\ CtxOf \in [Workers -> Ctxs]
       /\ Overlap \in BOOLEAN

\* szcipher.GetSynAesIv: version 1 puts the nonce twice, version 2 hashes
\* key, nonce and seq.
GetSynAesIv(r) ==
    IF r.version = 1 THEN <<"nonce2", r.nonce>>
    ELSE <<"md5", r.key, r.nonce, r.seq>>

\* NetContext.UpdateIv: MD5(recviv || nonce || seq || recvsig).
SendIvOf(recviv, seq, recvsig) == <<"md5", recviv, seq, recvsig>>

\* On-wire bytes of EncryptAckData's output for len bytes of plaintext.
CipherLen(len) == Len(Pkcs7Pad([i \in 1..len |-> 0], BlockSize).data)

\* The absent request; also checksum 0 of a fresh context.
NoReq == [seq |-> 0]

\* NewNetContext: everything zero, nil or false.
NewNetContext ==
    [ack |-> 0, recvsig |-> NoReq, recviv |-> <<>>, aeskey |-> NoKey,
     sendiv |-> <<>>, seq |-> 0, state |-> 0, updateiv |-> FALSE,
     stream |-> FALSE, size |-> 0, packsize |-> 0]

PCs == {"idle", "read", "send", "cmp", "recv", "assign", "setAck", "decrypt",
        "dispatch", "write", "incSeq", "build", "emit", "done"}

VARIABLES
    ctx,        \* [Ctxs -> NetContext record]
    ackChan,    \* [Ctxs -> Seq]: NetContext.ackSetChan, capacity 1
    gseq,       \* szcipher.Seq, the atomic counter shared by all contexts
    pc,         \* [Workers -> PCs]
    req,        \* [Workers -> request being handled]
    ok,         \* [Workers -> BOOLEAN]: checkSetAck's local ok
    got,        \* [Workers -> value received from ackSetChan]
    plan,       \* [Workers -> the handler's plan once dispatched]
    todo,       \* [Workers -> Seq of plaintext lengths still to Write]
    hdr,        \* [Workers -> the TransPacketHdr built by BuildAckHdr]
    sent,       \* [Workers -> Seq of frames/chunks written to the conn]
    accepted    \* [Ctxs -> Seq of seqs checkSetAck let through] (history)

vars == <<ctx, ackChan, gseq, pc, req, ok, got, plan, todo, hdr, sent, accepted>>

Ctx(w) == ctx[CtxOf[w]]

Active(w) == pc[w] \notin {"idle", "done"}

Init ==
    /\ ctx = [c \in Ctxs |-> NewNetContext]
    /\ ackChan = [c \in Ctxs |-> <<>>]
    /\ gseq \in 0..(SeqSpace - 1)            \* rand.Uint32() in newszcipher
    /\ pc = [w \in Workers |-> "idle"]
    /\ req = [w \in Workers |-> NoReq]
    /\ ok = [w \in Workers |-> FALSE]
    /\ got = [w \in Workers |-> 0]
    /\ plan = [w \in Workers |-> [kind |-> "none"]]
    /\ todo = [w \in Workers |-> <<>>]
    /\ hdr = [w \in Workers |-> [msgtype |-> 0, seq |-> 0]]
    /\ sent = [w \in Workers |-> <<>>]
    /\ accepted = [c \in Ctxs |-> <<>>]

SetCtx(w, rec) == ctx' = [ctx EXCEPT ![CtxOf[w]] = rec]

Goto(w, l) == pc' = [pc EXCEPT ![w] = l]

\* The serve loop hands a frame to a new goroutine (tcpserve/udpserve
\* Serve: go c.HandleRequest()).  Without Overlap the client (and network)
\* never has two frames of one context in flight at once.
Deliver(w, r) ==
    /\ pc[w] = "idle"
    /\ Overlap \/ \A v \in Workers : CtxOf[v] = CtxOf[w] => ~Active(v)
    /\ req' = [req EXCEPT ![w] = r]
    /\ Goto(w, "read")
    /\ UNCHANGED <<ctx, ackChan, gseq, ok, got, plan, todo, hdr, sent, accepted>>

\* ReadAllData and the checksum test of DecodeData: a frame that does not
\* match its checksum panics before the context is touched.
ReadFrame(w) ==
    /\ pc[w] = "read"
    /\ Goto(w, IF req[w].intact THEN "send" ELSE "done")
    /\ UNCHANGED <<ctx, ackChan, gseq, req, ok, got, plan, todo, hdr, sent, accepted>>

\* checkSetAck: context.ackSetChan <- ack (blocks while the channel is full).
AckSend(w) ==
    /\ pc[w] = "send"
    /\ ackChan[CtxOf[w]] = <<>>
    /\ ackChan' = [ackChan EXCEPT ![CtxOf[w]] = <<req[w].seq>>]
    /\ Goto(w, "cmp")
    /\ UNCHANGED <<ctx, gseq, req, ok, got, plan, todo, hdr, sent, accepted>>

\* Mutant: the repeat test compares with the context's own send seq.
AckCompareOwnSeq(w) ==
    /\ pc[w] = "cmp"
    /\ ok' = [ok EXCEPT ![w] = Ctx(w).ack = 0 \/ Ctx(w).seq # req[w].seq]
    /\ Goto(w, "recv")
    /\ UNCHANGED <<ctx, ackChan, gseq, req, got, plan, todo, hdr, sent, accepted>>

\* checkSetAck: ok = context.ack == 0 || context.ack != ack.
AckCompare(w) ==
    /\ pc[w] = "cmp"
    /\ ok' = [ok EXCEPT ![w] = Ctx(w).ack = 0 \/ Ctx(w).ack # req[w].seq]
    /\ Goto(w, "recv")
    /\ UNCHANGED <<ctx, ackChan, gseq, req, got, plan, todo, hdr, sent, accepted>>

\* checkSetAck: <-context.ackSetChan (the channel is free from here on).
AckReceive(w) ==
    /\ pc[w] = "recv"
    /\ ackChan[CtxOf[w]] # <<>>
    /\ got' = [got EXCEPT ![w] = Head(ackChan[CtxOf[w]])]
    /\ ackChan' = [ackChan EXCEPT ![CtxOf[w]] = Tail(@)]
    /\ Goto(w, "assign")
    /\ UNCHANGED <<ctx, gseq, req, ok, plan, todo, hdr, sent, accepted>>

\* checkSetAck: context.ack = <received value>; DecodeData returns empty
\* on a repeated seq and HandleRequest returns without a reply.
AckAssign(w) ==
    /\ pc[w] = "assign"
    /\ SetCtx(w, [Ctx(w) EXCEPT !.ack = got[w]])
    /\ accepted' = IF ok[w]
                   THEN [accepted EXCEPT ![CtxOf[w]] = Append(@, req[w].seq)]
                   ELSE accepted
    /\ Goto(w, IF ok[w] THEN "setAck" ELSE "done")
    \* checkSetAck returns: its locals go out of scope.
    /\ ok' = [ok EXCEPT ![w] = FALSE]
    /\ got' = [got EXCEPT ![w] = 0]
    /\ UNCHANGED <<ackChan, gseq, req, plan, todo, hdr, sent>>

\* DecodeData: context.ack = hdr.Seq; context.recvsig = hdr.Checksum.
SetAck(w) ==
    /\ pc[w] = "setAck"
    /\ SetCtx(w, [Ctx(w) EXCEPT !.ack = req[w].seq, !.recvsig = req[w]])
    /\ Goto(w, "decrypt")
    /\ UNCHANGED <<ackChan, gseq, req, ok, got, plan, todo, hdr, sent, accepted>>

\* DecryptSyncData and the rest of DecodeData.  An RSA failure, an
\* unsupported version or bad PKCS#7 padding panics inside DecryptSyncData,
\* before recviv, aeskey, updateiv or state are assigned.
\* Mutant: the new AES key is not stored in the context.
DecryptKeepsKey(w) ==
    LET r == req[w] IN
    /\ pc[w] = "decrypt"
    /\ IF r.body = "ok" /\ r.version \in {1, 2}
       THEN /\ SetCtx(w, [Ctx(w) EXCEPT !.recviv = GetSynAesIv(r),
                                        !.updateiv = TRUE,
                                        !.state = IF r.msgtype = 1 THEN 2 ELSE 10])
            /\ Goto(w, "dispatch")
       ELSE /\ Goto(w, "done")
            /\ UNCHANGED ctx
    /\ UNCHANGED <<ackChan, gseq, req, ok, got, plan, todo, hdr, sent, accepted>>

DecryptOk(r) == r.body = "ok" /\ r.version \in {1, 2}

Decrypt(w) ==
    LET r == req[w] IN
    /\ pc[w] = "decrypt"
    /\ IF DecryptOk(r)
       THEN /\ SetCtx(w, [Ctx(w) EXCEPT !.recviv = GetSynAesIv(r),
                                        !.aeskey = r.key,
                                        !.updateiv = TRUE,
                                        !.state = IF r.msgtype = 1 THEN 2 ELSE 10])
            /\ Goto(w, "dispatch")
       ELSE /\ Goto(w, "done")
            /\ UNCHANGED ctx
    /\ UNCHANGED <<ackChan, gseq, req, ok, got, plan, todo, hdr, sent, accepted>>

\* HandleRequest: sg.d.Decode(rawData) (an error ends the request), then
\* handler.HandleAPI.  A streaming handler first calls
\* conn.BeginWriteStream, which sets stream/size/packsize on the context.
Dispatch(w) ==
    /\ pc[w] = "dispatch"
    /\ IF ~req[w].env
       THEN /\ Goto(w, "done")
            /\ UNCHANGED <<ctx, plan, todo>>
       ELSE \E p \in HandlerPlans :
              /\ plan' = [plan EXCEPT ![w] = p]
              /\ CASE p.kind = "none" ->
                        Goto(w, "done") /\ UNCHANGED <<ctx, todo>>
                   [] p.kind = "reply" ->
                        /\ todo' = [todo EXCEPT ![w] = <<p.len>>]
                        /\ Goto(w, "write") /\ UNCHANGED ctx
                   [] p.kind = "stream" ->
                        /\ SetCtx(w, [Ctx(w) EXCEPT !.stream = TRUE,
                                         !.size = p.size, !.packsize = p.packsize])
                        /\ todo' = [todo EXCEPT ![w] =
                                      StreamChunks(p.size, p.packsize, BlockSize, 0)]
                        /\ Goto(w, "write")
    /\ UNCHANGED <<ackChan, gseq, req, ok, got, hdr, sent, accepted>>

\* NetContext.UpdateIv applied to a context record.
UpdateIv(c) ==
    IF c.updateiv
    THEN [c EXCEPT !.sendiv = SendIvOf(c.recviv, c.seq, c.recvsig),
                   !.updateiv = FALSE]
    ELSE c

\* conn.Write -> szcipher.EncodeWrite.  States 2 and 10 take the framed
\* WriteAckData path; any other state writes the bare ciphertext of the
\* chunk after UpdateIv.  With nothing left to write the handler returns
\* and HandleRequest closes (flushes) the conn.
EncodeWrite(w) ==
    /\ pc[w] = "write"
    /\ IF todo[w] = <<>>
       THEN Goto(w, "done") /\ UNCHANGED <<ctx, todo, sent>>
       ELSE IF Ctx(w).state \in {2, 10}
       THEN Goto(w, "incSeq") /\ UNCHANGED <<ctx, todo, sent>>
       ELSE LET c == UpdateIv(Ctx(w)) IN
            /\ SetCtx(w, c)
            /\ sent' = [sent EXCEPT ![w] = Append(@,
                          [kind |-> "chunk", msgtype |-> 0, seq |-> 0, ack |-> 0,
                           key |-> c.aeskey, iv |-> c.sendiv, signed |-> FALSE,
                           len |-> 0, bytes |-> CipherLen(Head(todo[w]))])]
            /\ todo' = [todo EXCEPT ![w] = Tail(@)]
            /\ UNCHANGED pc
    /\ UNCHANGED <<ackChan, gseq, req, ok, got, plan, hdr, accepted>>

\* Mutant: a non-atomic increment whose write to c.Seq is lost.
IncSeqLostUpdate(w) ==
    /\ pc[w] = "incSeq"
    /\ SetCtx(w, [Ctx(w) EXCEPT !.seq = (gseq + 1) % SeqSpace])
    /\ Goto(w, "build")
    /\ UNCHANGED <<ackChan, gseq, req, ok, got, plan, todo, hdr, sent, accepted>>

\* Mutant: the counter kept in a wider integer that does not wrap.
IncSeqNoWrap(w) ==
    /\ pc[w] = "incSeq"
    /\ gseq' = gseq + 1
    /\ SetCtx(w, [Ctx(w) EXCEPT !.seq = gseq + 1])
    /\ Goto(w, "build")
    /\ UNCHANGED <<ackChan, req, ok, got, plan, todo, hdr, sent, accepted>>

\* WriteAckData: context.seq = atomic.AddUint32(&c.Seq, 1).
IncSeq(w) ==
    /\ pc[w] = "incSeq"
    /\ gseq' = (gseq + 1) % SeqSpace
    /\ SetCtx(w, [Ctx(w) EXCEPT !.seq = (gseq + 1) % SeqSpace])
    /\ Goto(w, "build")
    /\ UNCHANGED <<ackChan, req, ok, got, plan, todo, hdr, sent, accepted>>

\* Mutant: the header is built without UpdateIv.
BuildAckHdrNoIv(w) ==
    LET c == Ctx(w) IN
    /\ pc[w] = "build"
    /\ hdr' = [hdr EXCEPT ![w] =
                 [msgtype |-> IF c.state = 2 THEN 2 ELSE IF c.stream THEN 4 ELSE 3,
                  seq |-> c.seq]]
    /\ Goto(w, "emit")
    /\ UNCHANGED <<ctx, ackChan, gseq, req, ok, got, plan, todo, sent, accepted>>

\* NetContext.BuildAckHdr: msgtype from state and stream, hdr.Seq read
\* back from context.seq, then UpdateIv.
BuildAckHdr(w) ==
    LET c == Ctx(w) IN
    /\ pc[w] = "build"
    /\ hdr' = [hdr EXCEPT ![w] =
                 [msgtype |-> IF c.state = 2 THEN 2 ELSE IF c.stream THEN 4 ELSE 3,
                  seq |-> c.seq]]
    /\ SetCtx(w, UpdateIv(c))
    /\ Goto(w, "emit")
    /\ UNCHANGED <<ackChan, gseq, req, ok, got, plan, todo, sent, accepted>>

\* Mutant: the stream length leaves out the header and ack word.
FrameLenNoHeader(c, bytes) ==
    IF ~c.stream THEN bytes - 4
    ELSE CalcStreamSize(c.size, c.packsize, BlockSize)

\* The length field WriteAckData puts in front of the frame.
FrameLen(c, bytes) ==
    IF ~c.stream THEN bytes - 4
    ELSE CalcStreamSize(c.size, c.packsize, BlockSize) + HdrSize + AckSize

\* WriteAckData after BuildAckHdr: EncryptAckData with context.aeskey and
\* context.sendiv, the ack word context.ack+1, the RSA signature when
\* state == 2, the size (a stream in state 2, or a stream smaller than the
\* data, panics), buf.Write, context.state++.
EmitFrame(w) ==
    LET c     == Ctx(w)
        len   == Head(todo[w])
        bytes == 4 + HdrSize + AckSize + (IF c.state = 2 THEN RsaBytes ELSE 0)
                   + CipherLen(len)
    IN
    /\ pc[w] = "emit"
    /\ IF c.stream /\ (c.state = 2 \/ c.size < len)
       THEN Goto(w, "done") /\ UNCHANGED <<ctx, todo, sent>>
       ELSE /\ sent' = [sent EXCEPT ![w] = Append(@,
                          [kind |-> "frame", msgtype |-> hdr[w].msgtype,
                           seq |-> hdr[w].seq, ack |-> (c.ack + 1) % SeqSpace,
                           key |-> c.aeskey, iv |-> c.sendiv,
                           signed |-> c.state = 2,
                           len |-> FrameLen(c, bytes), bytes |-> bytes])]
            /\ SetCtx(w, [c EXCEPT !.state = @ + 1])
            /\ todo' = [todo EXCEPT ![w] = Tail(@)]
            /\ Goto(w, "write")
    \* WriteAckData returns (or panics): its hdr goes out of scope.
    /\ hdr' = [hdr EXCEPT ![w] = [msgtype |-> 0, seq |-> 0]]
    /\ UNCHANGED <<ackChan, gseq, req, ok, got, plan, accepted>>

\* Every frame offered has been handled: the bound on workers is reached.
Finished ==
    /\ \A w \in Workers : pc[w] = "done"
    /\ UNCHANGED vars

\* The steps of a worker other than the blocking channel send.
Run(w) ==
    \/ ReadFrame(w) \/ AckCompare(w) \/ AckReceive(w)
    \/ AckAssign(w) \/ SetAck(w) \/ Decrypt(w) \/ Dispatch(w)
    \/ EncodeWrite(w) \/ IncSeq(w) \/ BuildAckHdr(w) \/ EmitFrame(w)

Step(w) == AckSend(w) \/ Run(w)

Next ==
    \/ \E w \in Workers, r \in Requests : Deliver(w, r)
    \/ \E w \in Workers : Step(w)
    \/ Finished

Spec == Init /\ [][Next]_vars

-----------------------------------------------------------------------------
TypeOK ==
    /\ pc \in [Workers -> PCs]
    /\ req \in [Workers -> Requests \cup {NoReq}]
    /\ ackChan \in [Ctxs -> Seq(0..(SeqSpace - 1))]
    /\ \A c \in Ctxs : Len(ackChan[c]) <= 1
    /\ gseq \in 0..(SeqSpace - 1)
    /\ ok \in [Workers -> BOOLEAN]
    /\ plan \in [Workers -> HandlerPlans \cup {[kind |-> "none"]}]
    /\ \A c \in Ctxs : ctx[c].ack \in 0..(SeqSpace - 1)
                    /\ ctx[c].aeskey \in Keys \cup {NoKey}
                    /\ ctx[c].state \in Nat

Frames(w) == SelectSeq(sent[w], LAMBDA f : f.kind = "frame")

\* Spec 8.7: the seq of every response header is unique across all
\* sessions.  WriteAckData takes a fresh value from the atomic counter
\* into context.seq, but BuildAckHdr reads it back from the context.
SeqUnique ==
    \A v, w \in Workers : \A i \in 1..Len(Frames(v)), j \in 1..Len(Frames(w)) :
        <<v, i>> # <<w, j>> => Frames(v)[i].seq # Frames(w)[j].seq

\* Every frame and chunk a goroutine writes is the answer to the request
\* it decoded: encrypted under that request's AES key, with the send IV
\* MD5(recviv || nonce || seq || recvsig) derived from that request's
\* receive IV, checksum and the frame's own seq, acknowledging its seq,
\* of msgtype 2 (signed) exactly when the request was a handshake; a
\* chunk reuses the IV of the frame before it (EncodeWrite, UpdateIv).
ResponseBoundToRequest ==
    \A w \in Workers : \A i \in 1..Len(sent[w]) :
        LET f == sent[w][i]
            r == req[w]
        IN  /\ f.key = r.key
            /\ f.kind = "frame" =>
                  /\ f.iv = SendIvOf(GetSynAesIv(r), f.seq, r)
                  /\ f.ack = (r.seq + 1) % SeqSpace
                  /\ (f.msgtype = 2) = (r.msgtype = 1)
                  /\ f.signed = (f.msgtype = 2)
            /\ f.kind = "chunk" => i > 1 /\ f.iv = sent[w][i - 1].iv

\* A request the handler answered (any reply, or a stream outside the
\* handshake, where WriteAckData forbids it) gets a response whose length
\* field equals the bytes written after it, so the client's
\* length-prefixed read ends exactly at the end of the response.
Answered(w) ==
    /\ plan[w].kind # "none"
    /\ ~(plan[w].kind = "stream" /\ req[w].msgtype = 1)

FramingConsistent ==
    \A w \in Workers :
        pc[w] = "done" /\ Answered(w) =>
            /\ sent[w] # <<>>
            /\ sent[w][1].kind = "frame"
            /\ FoldLeft(LAMBDA acc, f : acc + f.bytes, 0, sent[w]) = sent[w][1].len + 4

\* Spec 8.5: a repeated request (same non-zero seq as the one accepted
\* just before it on this context) is dropped by checkSetAck, so no two
\* consecutive accepted requests of a context carry the same seq.
NoConsecutiveDuplicate ==
    \A c \in Ctxs : \A i \in 1..(Len(accepted[c]) - 1) :
        accepted[c][i] # 0 => accepted[c][i] # accepted[c][i + 1]
=============================================================================
