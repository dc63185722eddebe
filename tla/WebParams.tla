------------------------------ MODULE WebParams -----------------------------
(***************************************************************************)
(* The signed web parameters of netutils/webparams.go and urlvalues.go.   *)
(*   - A string is a sequence of character codes, so that sort.Strings    *)
(*     and the "k=v&k=v" sign data are what the code computes.            *)
(*   - A struct is the sequence of its fields [tag, kind, val] in         *)
(*     declaration order; foreachStructTags walks it.                     *)
(*   - URLValues (url.Values) is a function from keys to value lists.     *)
(*   - An MD5 in "%x" or a base64 signature is a string of one opaque     *)
(*     character, a record of its inputs; PKCS#1 v1.5 is a record too:    *)
(*     two results are equal exactly when their inputs are.               *)
(* RandStringRunes's results are the inputs r1, r2 of BuildSignedValues.  *)
(***************************************************************************)
EXTENDS Integers, Sequences, SequencesExt

Amp == 38   Eq == 61
KNameSign     == <<115, 105, 103, 110>>                         \* "sign"
KNameSignType == <<115, 105, 103, 110, 95, 116, 121, 112, 101>> \* "sign_type"
KNameNonceStr == <<110, 111, 110, 99, 101, 95, 115, 116, 114>>  \* "nonce_str"
SignTypeMd5    == <<109, 100, 53>>      \* "md5"
SignTypeRSA1   == <<114, 115, 97, 49>>  \* "rsa1"
SignTypeRSA256 == <<114, 115, 97, 50>>  \* "rsa2"
KeyPrefix      == <<Amp, 107, 101, 121, Eq>>  \* "&key="

\* url.Values Set and Get.
Set(uv, k, v) == (k :> <<v>>) @@ uv
Get(uv, k) == IF k \in DOMAIN uv /\ uv[k] # <<>> THEN uv[k][1] ELSE <<>>

\* Byte order of strings (sort.StringSlice).
RECURSIVE StrLess(_, _)
StrLess(a, b) ==
    CASE a = <<>> -> b # <<>>
      [] b = <<>> -> FALSE
      [] Head(a) # Head(b) -> Head(a) < Head(b)
      [] OTHER -> StrLess(Tail(a), Tail(b))

\* The cryptographic and encoding functions, as records of their inputs.
Md5Hex(data) == <<[md5hex |-> data]>>
B64(b) == <<[b64 |-> b]>>
SignPKCS1v15(data, key, hash) == [rsa |-> data, by |-> key.priv, hash |-> hash]
\* VerifyPKCS1v15 with the public key pub: the signature must be of data,
\* under the hash, by the private key of pub.
VerifyPKCS1v15(data, sig, pub, hash) ==
    /\ "rsa" \in DOMAIN sig /\ "pub" \in DOMAIN pub
    /\ sig = [rsa |-> data, by |-> pub.pub, hash |-> hash]

\* foreachStructTags's filter: a "-" tag, and an empty one when ignoreEmpty.
Visited(s, ignoreEmpty) ==
    SelectSeq(s, LAMBDA fd : fd.tag # <<45>> /\ ~(ignoreEmpty /\ fd.tag = <<>>))

\* fmt "%v" of a non-negative int: its decimal digits.
RECURSIVE Decimal(_)
Decimal(v) == IF v < 10 THEN <<48 + v>> ELSE Decimal(v \div 10) \o <<48 + (v % 10)>>

\* fmt "%v" of a field's value: a string is itself.
Format(fd) == IF fd.kind = "int" THEN Decimal(fd.val) ELSE fd.val

\* MapToURLValues of a map built field by field (a later field with the
\* same tag wins).
FieldsToValues(fds) == FoldLeft(LAMBDA uv, fd : Set(uv, fd.tag, Format(fd)), <<>>, fds)

\* BuildValues
BuildValues(s) == FieldsToValues(Visited(s, TRUE))

\* Mutant: the sign key is part of the sign data.
BuildValuesSignDataWithSign(values) ==
    LET keys == SetToSortSeq(DOMAIN values, StrLess)
    IN  FlattenSeq([i \in 1..Len(keys) |->
            (IF i # 1 THEN <<Amp>> ELSE <<>>) \o keys[i] \o <<Eq>> \o Get(values, keys[i])])

\* buildValuesSignData: every key but "sign", sorted, as k=v joined by "&".
BuildValuesSignData(values) ==
    LET keys == SetToSortSeq(DOMAIN values \ {KNameSign}, StrLess)
    IN  FlattenSeq([i \in 1..Len(keys) |->
            (IF i # 1 THEN <<Amp>> ELSE <<>>) \o keys[i] \o <<Eq>> \o Get(values, keys[i])])

\* The hash of an RSA sign type: SHA1 for "rsa1", SHA256 otherwise.
RsaHash(t) == IF t = SignTypeRSA1 THEN "sha1" ELSE "sha256"

\* signWithKey: MD5 of data "&key=" key in hex, or a base64 PKCS#1 v1.5
\* signature; any other type is an error.
SignWithKey(data, signType, signKey) ==
    CASE signType = SignTypeMd5 -> [ok |-> TRUE, sign |-> Md5Hex(data \o KeyPrefix \o signKey.md5)]
      [] signType \in {SignTypeRSA1, SignTypeRSA256} ->
            [ok |-> TRUE, sign |-> B64(SignPKCS1v15(data, signKey, RsaHash(signType)))]
      [] OTHER -> [ok |-> FALSE]

\* BuildValuesSign: sets sign_type in values (the map is shared with the
\* caller), then signs the sign data.
BuildValuesSign(values, hashType, signKey) ==
    LET v == Set(values, KNameSignType, hashType)
    IN  [values |-> v, res |-> SignWithKey(BuildValuesSignData(v), hashType, signKey)]

\* BuildSignedValues' callback on one field: nonce_str gets r1, sign_type
\* the sign type, and sign is remembered to receive the signature.
FillField(fd, signType, r1) ==
    CASE fd.tag = KNameNonceStr -> [fd EXCEPT !.val = r1]
      [] fd.tag = KNameSignType -> [fd EXCEPT !.val = signType]
      [] OTHER -> fd

\* BuildSignedValues: fill the struct's fields, build the values from
\* them, then set nonce_str to a second random string r2, sign, and store
\* the signature in values and in the struct's sign field.
BuildSignedValues(s, signType, signKey, r1, r2) ==
    LET filled == [i \in 1..Len(s) |->
                      IF Visited(<<s[i]>>, TRUE) = <<>> THEN s[i] ELSE FillField(s[i], signType, r1)]
        b == BuildValuesSign(Set(FieldsToValues(Visited(filled, TRUE)), KNameNonceStr, r2),
                             signType, signKey)
    IN  IF ~b.res.ok THEN [ok |-> FALSE]
        ELSE [ok |-> TRUE, values |-> Set(b.values, KNameSign, b.res.sign),
              struct |-> [i \in 1..Len(filled) |->
                            IF filled[i].tag = KNameSign /\ Visited(<<filled[i]>>, TRUE) # <<>>
                            THEN [filled[i] EXCEPT !.val = b.res.sign] ELSE filled[i]]]

\* VerifyValuesSign: an empty sign data fails; "md5" recomputes the
\* signature; any other type base64-decodes the sign and verifies it with
\* signKey as the public key.
VerifyValuesSign(values, signType, signKey) ==
    LET data == BuildValuesSignData(values)
        sv == Get(values, KNameSign)
    IN  CASE data = <<>> -> FALSE
          [] signType = SignTypeMd5 ->
                LET s == SignWithKey(data, signType, signKey) IN s.ok /\ s.sign = sv
          [] OTHER -> /\ Len(sv) = 1 /\ "b64" \in DOMAIN sv[1]
                      /\ VerifyPKCS1v15(data, sv[1].b64, signKey, RsaHash(signType))

\* ssContains: case-insensitive membership (tags here are lower case).
SsContains(a, x) == \E i \in DOMAIN a : a[i] = x

\* strconv.Atoi of a decimal string; IntValue's default 0 when empty or
\* not a number.
Digits(s) == \A i \in DOMAIN s : s[i] \in 48..57
\* Mutant: digits are added up without their place value.
IntValueNoShift(s) == IF s = <<>> \/ ~Digits(s) THEN 0
                      ELSE FoldLeft(LAMBDA acc, c : acc + (c - 48), 0, s)

IntValue(s) == IF s = <<>> \/ ~Digits(s) THEN 0
               ELSE FoldLeft(LAMBDA acc, c : acc * 10 + (c - 48), 0, s)

\* ParseWebParams: for each visited field not discarded, whose tag the
\* query holds with a value: copy the first value into the result values
\* and into the field, as a string or via IntValue; a field of another
\* kind stops the walk with an error, the values set so far returned.
RECURSIVE ParseFields(_, _, _, _, _)
ParseFields(q, fds, discard, values, out) ==
    IF fds = <<>> THEN [err |-> FALSE, values |-> values, struct |-> out]
    ELSE LET fd == Head(fds)
             v == Get(q, fd.tag)
         IN  IF SsContains(discard, fd.tag) \/ fd.tag \notin DOMAIN q \/ q[fd.tag] = <<>>
             THEN ParseFields(q, Tail(fds), discard, values, Append(out, fd))
             ELSE CASE fd.kind = "string" ->
                         ParseFields(q, Tail(fds), discard, Set(values, fd.tag, v),
                                     Append(out, [fd EXCEPT !.val = v]))
                    [] fd.kind = "int" ->
                         ParseFields(q, Tail(fds), discard, Set(values, fd.tag, v),
                                     Append(out, [fd EXCEPT !.val = IntValue(v)]))
                    [] OTHER -> [err |-> TRUE, values |-> Set(values, fd.tag, v), struct |-> out \o fds]

ParseWebParams(q, s, discard) == ParseFields(q, Visited(s, TRUE), discard, <<>>, <<>>)
=============================================================================
