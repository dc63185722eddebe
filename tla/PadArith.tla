------------------------------ MODULE PadArith ------------------------------
(***************************************************************************)
(* The padding primitives of cipher2/pad.go and the stream-size arithmetic *)
(* of netserve (RoundUp, NetContext.GetPackSize, NetContext.CalcStreamSize) *)
(* as operators over byte sequences and lengths.  A byte is an integer in  *)
(* 0..255; byte(padlen) in Pkcs7Pad is modelled by "% 256".               *)
(***************************************************************************)
EXTENDS Integers, Sequences

\* transcipher.go RoundUp: round size up to a multiple of bound.
RoundUp(size, bound) == ((size + bound - 1) \div bound) * bound

\* Pkcs7Pad's loop: the smallest padlen >= 1 with (n + padlen) % bl = 0.
RECURSIVE Pkcs7PadLen(_, _, _)
Pkcs7PadLen(n, bl, padlen) ==
    IF (n + padlen) % bl # 0 THEN Pkcs7PadLen(n, bl, padlen + 1) ELSE padlen

\* Mutant: no padding block is added to block-aligned input.
Pkcs7PadNoFullBlock(data, bl) ==
    IF bl <= 0 THEN [ok |-> FALSE, data |-> <<>>]
    ELSE LET p == (bl - (Len(data) % bl)) % bl
         IN  [ok |-> TRUE, data |-> data \o [i \in 1..p |-> p % 256]]

\* cipher2.Pkcs7Pad: append padlen copies of byte(padlen); error when bl <= 0.
Pkcs7Pad(data, bl) ==
    IF bl <= 0 THEN [ok |-> FALSE, data |-> <<>>]
    ELSE LET p == Pkcs7PadLen(Len(data), bl, 1)
         IN  [ok |-> TRUE, data |-> data \o [i \in 1..p |-> p % 256]]

\* cipher2.Pkcs7Unpad: length checks, then every one of the last padlen
\* bytes must equal padlen.
Pkcs7Unpad(data, bl) ==
    LET padlen == data[Len(data)]
    IN  IF \/ bl <= 0
           \/ Len(data) % bl # 0 \/ Len(data) = 0
           \/ padlen > bl \/ padlen = 0
           \/ \E i \in (Len(data) - padlen + 1)..Len(data) : data[i] # padlen
        THEN [ok |-> FALSE, data |-> <<>>]
        ELSE [ok |-> TRUE, data |-> SubSeq(data, 1, Len(data) - padlen)]

\* cipher2.ZeroPad: zero bytes up to the next multiple of bl, input
\* returned unchanged when already aligned.
ZeroPad(data, bl) ==
    IF bl <= 0 THEN [ok |-> FALSE, data |-> <<>>]
    ELSE IF Len(data) % bl = 0 THEN [ok |-> TRUE, data |-> data]
    ELSE [ok |-> TRUE, data |-> data \o [i \in 1..(bl - (Len(data) % bl)) |-> 0]]

\* Mutant: an aligned chunk is counted without its extra padding block.
GetPackSizeNoFullBlock(size, packsize, n, blockSize) ==
    LET datasize == IF size - n > packsize THEN packsize ELSE size - n
    IN  <<datasize, RoundUp(datasize, blockSize)>>

\* NetContext.GetPackSize: the plaintext size of the chunk that starts at
\* offset n of a stream of `size` bytes cut in `packsize` pieces, and its
\* size on the wire after PKCS#7 padding.
GetPackSize(size, packsize, n, blockSize) ==
    LET datasize == IF size - n > packsize THEN packsize ELSE size - n
        r        == RoundUp(datasize, blockSize)
        pksize   == IF r = datasize THEN r + blockSize ELSE r
    IN  <<datasize, pksize>>

\* NetContext.CalcStreamSize: the loop "for n < size" summing pksize.
RECURSIVE CalcStreamLoop(_, _, _, _, _)
CalcStreamLoop(size, packsize, blockSize, n, acc) ==
    IF n < size
    THEN LET ps == GetPackSize(size, packsize, n, blockSize)
         IN  CalcStreamLoop(size, packsize, blockSize, n + ps[1], acc + ps[2])
    ELSE acc

CalcStreamSize(size, packsize, blockSize) ==
    CalcStreamLoop(size, packsize, blockSize, 0, 0)

\* The plaintext chunk sizes a handler writes for a stream: the datasize
\* values of the same loop (the handler follows GetPackSize).
RECURSIVE StreamChunks(_, _, _, _)
StreamChunks(size, packsize, blockSize, n) ==
    IF n < size
    THEN LET d == GetPackSize(size, packsize, n, blockSize)[1]
         IN  <<d>> \o StreamChunks(size, packsize, blockSize, n + d)
    ELSE <<>>
=============================================================================
