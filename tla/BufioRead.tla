----------------------------- MODULE BufioRead -----------------------------
(***************************************************************************)
(* The stream readers of netserve/transcipher.go over a *bufio.Reader:   *)
(* readBytes and szcipher.ReadAllData (the sz12 length-prefixed read      *)
(* path) and emptycipher.DecodeRead (read to EOF).  The bufio.Reader      *)
(* those functions call (Peek, Discard, Read) is modelled by what it does *)
(* to a record                                                             *)
(*     [buf: the buffered bytes b.buf[r:w],                                *)
(*      src: the segments the connection's Read calls will still return,  *)
(*      err: b.err holds io.EOF]                                           *)
(* A connection Read into a smaller space returns a prefix of its segment *)
(* and keeps the rest for the next call, as a TCP socket does.  Results   *)
(* are records [ok, data, rd]; ok = FALSE is a panic.                      *)
(***************************************************************************)
EXTENDS Integers, Sequences

CONSTANTS
    ReaderSize,   \* len(b.buf): bufio.NewReader's default 4096
    ReadChunk     \* emptycipher.DecodeRead's make([]byte, 1024)

\* The reader newBufioReader gives the connection: nothing buffered yet.
NewReader(segments) == [buf |-> <<>>, src |-> segments, err |-> FALSE]

\* Bytes still to be read: the buffer, then the connection.
Remaining(r) ==
    r.buf \o LET RECURSIVE Cat(_)
                 Cat(s) == IF s = <<>> THEN <<>> ELSE Head(s) \o Cat(Tail(s))
             IN Cat(r.src)

\* bufio fill: one connection Read into b.buf[w:]; io.EOF is kept in b.err.
Fill(r) ==
    IF r.src = <<>> THEN [r EXCEPT !.err = TRUE]
    ELSE LET seg == Head(r.src)
             k == IF Len(seg) <= ReaderSize - Len(r.buf)
                  THEN Len(seg) ELSE ReaderSize - Len(r.buf)
         IN  [r EXCEPT !.buf = @ \o SubSeq(seg, 1, k),
                       !.src = IF k = Len(seg) THEN Tail(@)
                               ELSE <<SubSeq(seg, k + 1, Len(seg))>> \o Tail(@)]

\* Peek's loop: fill while fewer than n bytes are buffered, the buffer is
\* not full and no error is kept.
RECURSIVE FillFor(_, _)
FillFor(r, n) ==
    IF Len(r.buf) < n /\ Len(r.buf) < ReaderSize /\ ~r.err
    THEN FillFor(Fill(r), n) ELSE r

\* b.Peek(n): ErrBufferFull with the whole buffer when n exceeds its
\* size; the kept error (cleared by readErr) when fewer than n arrived.
PeekOf(f, n) ==
    CASE n > ReaderSize -> [data |-> f.buf, err |-> "full", rd |-> f]
      [] Len(f.buf) < n -> [data |-> f.buf, err |-> "eof",
                            rd |-> [f EXCEPT !.err = FALSE]]
      [] OTHER          -> [data |-> SubSeq(f.buf, 1, n), err |-> "none", rd |-> f]

Peek(r, n) == PeekOf(FillFor(r, n), n)

Discard(r, k) == [r EXCEPT !.buf = SubSeq(@, k + 1, Len(@))]

Panic(r) == [ok |-> FALSE, data |-> <<>>, rd |-> r]

\* Mutant: the loop never lowers n by what it has read.
RECURSIVE ReadBytesLoopNoDecrement(_, _, _, _)
ReadBytesLoopNoDecrement(r, n, b, counter) ==
    LET p == Peek(r, n)
        r2 == Discard(p.rd, Len(p.data))
    IN  CASE p.err = "none" /\ b = <<>> -> [ok |-> TRUE, data |-> p.data, rd |-> r2]
          [] p.err = "eof" -> Panic(r2)
          [] p.data = <<>> -> IF counter + 1 > 10 THEN Panic(r2)
                              ELSE ReadBytesLoopNoDecrement(r2, n, b, counter + 1)
          [] p.err = "none" -> [ok |-> TRUE, data |-> b \o p.data, rd |-> r2]
          [] OTHER -> ReadBytesLoopNoDecrement(r2, n, b \o p.data, counter)

\* The loop of readBytes: Peek(n), Discard what it returned, return it
\* directly when it is complete on the first try, panic on an error other
\* than ErrBufferFull or after more than 10 empty peeks, else append it
\* and peek for the rest.  b = <<>> is the code's b == nil (only
\* non-empty slices are appended).  BytesStep is one turn on the peek p.
RECURSIVE ReadBytesLoop(_, _, _, _)
BytesStep(p, n, b, counter) ==
    LET r2 == Discard(p.rd, Len(p.data))
    IN  CASE p.err = "none" /\ b = <<>> -> [ok |-> TRUE, data |-> p.data, rd |-> r2]
          [] p.err = "eof" \/ (p.data = <<>> /\ counter + 1 > 10) -> Panic(r2)
          [] p.data = <<>> -> ReadBytesLoop(r2, n, b, counter + 1)
          [] p.err = "none" -> [ok |-> TRUE, data |-> b \o p.data, rd |-> r2]
          [] OTHER -> ReadBytesLoop(r2, n - Len(p.data), b \o p.data, counter)

ReadBytesLoop(r, n, b, counter) == BytesStep(Peek(r, n), n, b, counter)

ReadBytes(r, n) == IF n <= 0 THEN Panic(r) ELSE ReadBytesLoop(r, n, <<>>, 0)

\* binary.LittleEndian.Uint32
Uint32LE(s) == s[1] + 256 * s[2] + 65536 * s[3] + 16777216 * s[4]

\* The body read of ReadAllData: fewer than length bytes panic.
BodyOf(d, length) == IF ~d.ok \/ Len(d.data) # length THEN Panic(d.rd) ELSE d

\* The rest of ReadAllData once the header h is read.
HeaderOf(h) ==
    LET length == Uint32LE(h.data)
    IN  CASE ~h.ok -> h
          [] length <= 0 -> Panic(h.rd)
          [] OTHER -> BodyOf(ReadBytes(h.rd, length), length)

\* szcipher.ReadAllData: the 4-byte little-endian length, then that many
\* bytes; a zero length or a short body panics.
ReadAllData(r) == HeaderOf(ReadBytes(r, 4))

\* b.Read(p) with len(p) = m < len(b.buf): with an empty buffer, one
\* connection Read into b.buf (returning the kept error, cleared, when it
\* gives nothing); then copy out at most m buffered bytes.
BufRead(r, m) ==
    LET f == IF r.buf = <<>> /\ ~r.err THEN Fill(r) ELSE r
        k == IF Len(f.buf) < m THEN Len(f.buf) ELSE m
    IN  IF f.buf = <<>>
        THEN [data |-> <<>>, err |-> IF f.err THEN "eof" ELSE "none",
              rd |-> [f EXCEPT !.err = FALSE]]
        ELSE [data |-> SubSeq(f.buf, 1, k), err |-> "none",
              rd |-> [f EXCEPT !.buf = SubSeq(@, k + 1, Len(@))]]

\* Mutant: a short read is taken for the end of the data.
RECURSIVE EmptyReadShortEnd(_, _)
EmptyReadShortEnd(r, data) ==
    LET p == BufRead(r, ReadChunk)
    IN  IF p.err = "eof" \/ Len(p.data) < ReadChunk THEN data \o p.data
        ELSE EmptyReadShortEnd(p.rd, data \o p.data)

\* emptycipher.DecodeRead: Read into a fresh 1024-byte slice and append
\* what arrived until io.EOF.
RECURSIVE EmptyReadLoop(_, _)
EmptyReadLoop(r, data) ==
    LET p == BufRead(r, ReadChunk)
    IN  IF p.err = "eof" THEN data \o p.data
        ELSE EmptyReadLoop(p.rd, data \o p.data)

EmptyDecodeRead(r) == EmptyReadLoop(r, <<>>)

CR == 13
LF == 10

\* Index of the first LF in s, 0 when there is none.
FirstLF(s) == IF \E i \in 1..Len(s) : s[i] = LF
              THEN CHOOSE i \in 1..Len(s) : s[i] = LF /\ \A j \in 1..(i - 1) : s[j] # LF
              ELSE 0

\* ReadSlice's loop: fill until an LF is buffered, an error is kept or the
\* buffer is full.
RECURSIVE FillLine(_)
FillLine(r) ==
    IF FirstLF(r.buf) > 0 \/ r.err \/ Len(r.buf) >= ReaderSize THEN r
    ELSE FillLine(Fill(r))

\* b.ReadSlice('\n') on the filled reader f: up to and including the
\* first LF (at i); else what is buffered, with the kept error (cleared)
\* or ErrBufferFull.
SliceOf(f, i) ==
    CASE i > 0 -> [line |-> SubSeq(f.buf, 1, i), err |-> "none", rd |-> Discard(f, i)]
      [] f.err -> [line |-> f.buf, err |-> "eof", rd |-> [f EXCEPT !.buf = <<>>, !.err = FALSE]]
      [] OTHER -> [line |-> f.buf, err |-> "full", rd |-> [f EXCEPT !.buf = <<>>]]

ReadSlice(r) == LET f == FillLine(r) IN SliceOf(f, FirstLF(f.buf))

\* A line's end: "\n" or "\r\n" is dropped.
StripEOL(l) ==
    IF l # <<>> /\ l[Len(l)] = LF
    THEN IF Len(l) > 1 /\ l[Len(l) - 1] = CR THEN SubSeq(l, 1, Len(l) - 2)
         ELSE SubSeq(l, 1, Len(l) - 1)
    ELSE l

\* ReadLine's result for the slice s: a full buffer is a prefix
\* (isPrefix), its trailing '\r' put back so that a "\r\n" straddling two
\* buffers is recognised; an empty slice returns the error; a line has
\* its end dropped, and the last, unterminated line at EOF is returned as
\* it is.
LineOf(s) ==
    CASE s.err = "full" ->
            IF s.line # <<>> /\ s.line[Len(s.line)] = CR
            THEN [line |-> SubSeq(s.line, 1, Len(s.line) - 1), more |-> TRUE, err |-> FALSE,
                  rd |-> [s.rd EXCEPT !.buf = <<CR>> \o @]]
            ELSE [line |-> s.line, more |-> TRUE, err |-> FALSE, rd |-> s.rd]
      [] s.line = <<>> -> [line |-> <<>>, more |-> FALSE, err |-> s.err = "eof", rd |-> s.rd]
      [] OTHER -> [line |-> StripEOL(s.line), more |-> FALSE, err |-> FALSE, rd |-> s.rd]

\* b.ReadLine()
ReadLine(r) == LineOf(ReadSlice(r))

\* One ReadLine of readLine's loop, appended to line: an error returns
\* nil, which DecodeRead's CheckError turns into a panic; a chunk that is
\* not a prefix ends the line.
RECURSIVE ReadLineLoop(_, _)
\* Mutant: the copy-avoiding early return is taken without the
\* line == nil test, dropping the chunks read before.
LineStepLastChunk(l, line) ==
    CASE l.err -> Panic(l.rd)
      [] ~l.more -> [ok |-> TRUE, data |-> l.line, rd |-> l.rd]
      [] OTHER -> ReadLineLoop(l.rd, line \o l.line)

LineStep(l, line) ==
    CASE l.err -> Panic(l.rd)
      [] ~l.more -> [ok |-> TRUE, data |-> line \o l.line, rd |-> l.rd]
      [] OTHER -> ReadLineLoop(l.rd, line \o l.line)

\* readLine (the nj11 cipher's DecodeRead): ReadLine until a chunk is not
\* a prefix, appending the chunks.
ReadLineLoop(r, line) == LineStep(ReadLine(r), line)

NjReadLine(r) == ReadLineLoop(r, <<>>)
=============================================================================
