----------------------------- MODULE Encodings -----------------------------
(***************************************************************************)
(* Utils: what the program does to put numbers, bits and ids into bytes    *)
(* and text and to get them back, and the order of a Triple.  A writer     *)
(* fills a buffer, which may be damaged on the way if it is the text of an *)
(* id, and a reader takes the value out.                                   *)
(***************************************************************************)
EXTENDS BigInteger, FiniteSets

CONSTANTS
  Numbers,    \* 32-bit numbers
  Bits,       \* bit arrays, none empty
  Texts,      \* byte arrays for base64
  Ids,        \* ids, as numbers
  Triples

VARIABLES
  kind,       \* what is written
  value, offset,
  data,       \* the buffer, or the text
  stage,      \* "given", "written", "damaged" or "read"
  back        \* what was read

vars == <<kind, value, offset, data, stage, back>>

Smaller(a, b) == IF a < b THEN a ELSE b

-----------------------------------------------------------------------------
(* Base64: a character is its place in the alphabet *)

Pad == 64
Foreign == 65   \* any character outside of the alphabet

ToUrlSafeBase64(bytes) ==
  LET part(i) == SubSeq(bytes, 3 * i - 2, Smaller(3 * i, Len(bytes)))
      chars(c) ==
        LET at(i) == IF i <= Len(c) THEN c[i] ELSE 0
            chunk == at(1) * 65536 + at(2) * 256 + at(3)
            digit(k) == (chunk \div 64^k) % 64
        IN <<digit(3), digit(2),
             IF Len(c) = 1 THEN Pad ELSE digit(1), IF Len(c) < 3 THEN Pad ELSE digit(0)>>
  IN FlattenSeq([i \in 1..((Len(bytes) + 2) \div 3) |-> chars(part(i))])

FromUrlSafeBase64(text) ==
  LET put(st, d) ==
        LET buf == st.buf * 64 + d
            nbits == st.nbits + 6
        IN IF nbits < 8 THEN [st EXCEPT !.buf = buf, !.nbits = nbits]
           ELSE [buf |-> buf % 2^(nbits - 8), nbits |-> nbits - 8,
                 out |-> Append(st.out, (buf \div 2^(nbits - 8)) % 256)]
      known == SelectSeq(text, LAMBDA ch : ch < Pad)
  IN FoldLeft(put, [buf |-> 0, nbits |-> 0, out |-> <<>>], known).out

\* Integer::ToString, and Id: a text that is not the name of a number is zero.
IntegerToString(n) == ToUrlSafeBase64(ToBytes(n))
Id(text) ==
  LET n == FromBytes(FromUrlSafeBase64(text))
  IN IF IntegerToString(n) = text THEN n ELSE 0

-----------------------------------------------------------------------------
(* Serialization *)

WriteInt(number, bytes, at) ==
  [i \in DOMAIN bytes |-> IF i \in (at + 1)..(at + 4)
                          THEN (number \div 256^(i - at - 1)) % 256 ELSE bytes[i]]
\* The highest byte carries the sign.
ReadInt(bytes, at) ==
  LET top == IF bytes[at + 4] > 127 THEN bytes[at + 4] - 256 ELSE bytes[at + 4]
  IN top * 16777216 + bytes[at + 3] * 65536 + bytes[at + 2] * 256 + bytes[at + 1]

BytesRequired(n) == IF n = 0 THEN 1 ELSE (n + 7) \div 8

\* The bits of the last byte are right-justified.
WriteBitArray(bits, bytes, at) ==
  LET byte(j) == FoldLeft(LAMBDA c, b : 2 * c + b, 0,
                          SubSeq(bits, 8 * j + 1, Smaller(8 * j + 8, Len(bits))))
  IN [i \in DOMAIN bytes |-> IF i \in (at + 1)..(at + BytesRequired(Len(bits)))
                             THEN byte(i - at - 1) ELSE bytes[i]]
\* The code reads eight bits for an empty array, beyond its end.
ReadBitArray(bytes, at, n) ==
  LET byte(i) == (i - 1) \div 8
      to_read(i) == IF byte(i) < BytesRequired(n) - 1 \/ n % 8 = 0 THEN 8 ELSE n % 8
  IN [i \in 1..n |-> (bytes[at + byte(i) + 1] \div 2^(to_read(i) - 1 - ((i - 1) % 8))) % 2]

-----------------------------------------------------------------------------
(* Triple *)

Less(s, t) == s[1] < t[1] \/ (s[1] = t[1] /\ (s[2] < t[2] \/ (s[2] = t[2] /\ s[3] < t[3])))
Compare(s, t) == [lt |-> Less(s, t), gt |-> Less(t, s), le |-> ~Less(t, s), ge |-> ~Less(s, t),
                  eq |-> \A i \in 1..3 : s[i] = t[i]]

-----------------------------------------------------------------------------
(* The callers *)

Blank == [i \in 1..8 |-> 170]

Init ==
  /\ \/ kind = "int" /\ value \in Numbers /\ offset \in {0, 3}
     \/ kind = "bits" /\ value \in Bits /\ offset \in {0, 2}
     \/ kind = "text" /\ value \in Texts /\ offset = 0
     \/ kind = "id" /\ value \in Ids /\ offset = 0
     \/ kind = "triple" /\ value \in Triples \X Triples /\ offset = 0
  /\ data = Blank /\ stage = "given" /\ back = <<>>

Write ==
  /\ stage = "given" /\ stage' = "written"
  /\ data' = CASE kind = "int" -> WriteInt(value, data, offset)
               [] kind = "bits" -> WriteBitArray(value, data, offset)
               [] kind = "text" -> ToUrlSafeBase64(value)
               [] kind = "id" -> IntegerToString(value)
               [] kind = "triple" -> data
  /\ UNCHANGED <<kind, value, offset, back>>

\* Someone mistypes the text of an id.
Mistype ==
  /\ kind = "id" /\ stage = "written" /\ stage' = "damaged"
  /\ \E i \in DOMAIN data, ch \in {0, 1, 62, Pad, Foreign} : data' = [data EXCEPT ![i] = ch]
  /\ UNCHANGED <<kind, value, offset, back>>

Read ==
  /\ stage \in {"written", "damaged"} /\ stage' = "read"
  /\ back' = CASE kind = "int" -> ReadInt(data, offset)
               [] kind = "bits" -> ReadBitArray(data, offset, Len(value))
               [] kind = "text" -> FromUrlSafeBase64(data)
               [] kind = "id" -> Id(data)
               [] kind = "triple" -> Compare(value[1], value[2])
  /\ UNCHANGED <<kind, value, offset, data>>

Next == Write \/ Mistype \/ Read
Spec == Init /\ [][Next]_vars

-----------------------------------------------------------------------------
(* Properties *)

\* Number, bits and bytes come back, and what lies around them in the buffer
\* stays; no text stands for an id but the one the id is written with, so that a
\* mistyped id is another one or zero; triples are ordered like numbers.
ValueComesBack ==
  /\ stage = "read" /\ kind \in {"int", "bits", "text"} => back = value
  /\ stage = "read" /\ kind = "id" => IntegerToString(back) = data \/ back = 0
  /\ stage = "read" /\ kind = "id" /\ data = IntegerToString(value) => back = value
  /\ kind \in {"int", "bits"} /\ stage # "given" =>
       LET n == IF kind = "int" THEN 4 ELSE BytesRequired(Len(value))
       IN \A i \in DOMAIN Blank \ ((offset + 1)..(offset + n)) : data[i] = Blank[i]
  /\ kind = "triple" /\ stage = "read" =>
       LET n(t) == t[1] * 100 + t[2] * 10 + t[3]
           a == n(value[1])
           b == n(value[2])
       IN back = [lt |-> a < b, gt |-> a > b, le |-> a <= b, ge |-> a >= b, eq |-> a = b]

=============================================================================
