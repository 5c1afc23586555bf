----------------------------- MODULE CodecProofs -----------------------------
(***************************************************************************)
(* Proofs about Codec, for every width of a byte and of a length field,     *)
(* every registry of fixed-size types and every set of SETs.                *)
(*                                                                         *)
(* StrLen, BlobLength and BigintText are defined by CHOOSE or by recursion, *)
(* and the theorems rest on what they compute.  The induction this needs is *)
(* LeastNatural of LeafListProofs, applied to the set of counterexamples.   *)
(***************************************************************************)
EXTENDS Codec, LeafListProofs, FiniteSetTheorems, SequenceTheorems, TLAPS

------------------------------------------------------------------------------
(* Texts.                                                                   *)

\* strlen finds the first zero byte, or the end.
LEMMA StrLenFinds ==
  ASSUME NEW S, NEW s \in Seq(S)
  PROVE  /\ StrLen(s) \in 0..Len(s)
         /\ \A i \in 1..StrLen(s) : s[i] # 0
         /\ StrLen(s) < Len(s) => s[StrLen(s) + 1] = 0
<1> DEFINE T == {i \in 1..Len(s) : s[i] = 0}
           P(n) == (\A i \in 1..n : s[i] # 0) /\ (n < Len(s) => s[n + 1] = 0)
<1>1. \E n \in 0..Len(s) : (\A i \in 1..n : i \notin T) /\ (n < Len(s) => n + 1 \in T)
  <2> HIDE DEF T
  <2>1. Len(s) \in Nat
    OBVIOUS
  <2> QED
    BY <2>1, Prefix
<1>2. \E n \in 0..Len(s) : P(n)
  BY <1>1
<1>3. StrLen(s) = CHOOSE n \in 0..Len(s) : P(n)
  BY DEF StrLen
<1> QED
  BY <1>2, <1>3

\* ... and there is only one such place.
LEMMA StrLenOnly ==
  ASSUME NEW S, NEW s \in Seq(S), NEW n \in 0..Len(s),
         \A i \in 1..n : s[i] # 0, n < Len(s) => s[n + 1] = 0
  PROVE  StrLen(s) = n
<1>1. /\ StrLen(s) \in 0..Len(s)
      /\ \A i \in 1..StrLen(s) : s[i] # 0
      /\ StrLen(s) < Len(s) => s[StrLen(s) + 1] = 0
  BY StrLenFinds
<1> HIDE DEF StrLen
<1>2. ~(StrLen(s) < n)
  <2> SUFFICES ASSUME StrLen(s) < n PROVE FALSE
    OBVIOUS
  <2>1. StrLen(s) + 1 \in 1..n
    BY <1>1
  <2> QED
    BY <1>1, <2>1
<1>3. ~(n < StrLen(s))
  <2> SUFFICES ASSUME n < StrLen(s) PROVE FALSE
    OBVIOUS
  <2>1. n + 1 \in 1..StrLen(s) /\ n < Len(s)
    BY <1>1
  <2> QED
    BY <1>1, <2>1
<1> QED
  BY <1>1, <1>2, <1>3

------------------------------------------------------------------------------
(* The length field of a blob.                                              *)

\* w is the sum of the first n bytes of s with their weights, place by place.
Weighs(s, n, w) ==
    w = [i \in 0..n |-> IF i = 0 THEN 0 ELSE w[i - 1] + s[i] * Base ^ (i - 1)]

\* The recursion in BlobLength has a solution.
LEMMA WeighsExists ==
  ASSUME NEW s
  PROVE  \E w : Weighs(s, HeaderBytes, w)
<1> DEFINE T == {n \in 0..HeaderBytes : \E w : Weighs(s, n, w)}
<1>1. HeaderBytes \in Nat
  BY CodecAssumption
<1>2. 0 \in T
  <2> DEFINE z == [i \in 0..0 |-> 0]
  <2>1. Weighs(s, 0, z)
    BY DEF Weighs
  <2> QED
    BY <1>1, <2>1
<1>3. ASSUME NEW i \in 1..HeaderBytes, i - 1 \in T
      PROVE  i \in T
  <2>1. PICK w : Weighs(s, i - 1, w)
    BY <1>3
  <2> DEFINE v == [k \in 0..i |-> IF k = i THEN w[i - 1] + s[i] * Base ^ (i - 1) ELSE w[k]]
  <2>2. ASSUME NEW k \in 0..i
        PROVE  v[k] = IF k = 0 THEN 0 ELSE v[k - 1] + s[k] * Base ^ (k - 1)
    <3>1. CASE k = i
      <4>1. v[k - 1] = w[i - 1]
        BY <1>1, <3>1
      <4> QED
        BY <1>1, <3>1, <4>1
    <3>2. CASE k # i /\ k = 0
      <4>1. w[0] = 0
        BY <1>1, <2>1 DEF Weighs
      <4> QED
        BY <3>2, <4>1
    <3>3. CASE k # i /\ k # 0
      <4>1. k \in 1..i - 1 /\ k - 1 \in 0..i - 1 /\ k - 1 # i
        BY <1>1, <3>3
      <4>2. w[k] = w[k - 1] + s[k] * Base ^ (k - 1)
        BY <2>1, <4>1 DEF Weighs
      <4>3. v[k] = w[k] /\ v[k - 1] = w[k - 1]
        BY <3>3, <4>1
      <4> QED
        BY <3>3, <4>2, <4>3
    <3> QED
      BY <3>1, <3>2, <3>3
  <2>3. v = [k \in 0..i |-> v[k]]
    OBVIOUS
  <2> HIDE DEF v
  <2>4. Weighs(s, i, v)
    BY <2>2, <2>3 DEF Weighs
  <2> QED
    BY <1>1, <2>4
<1> HIDE DEF T
<1>4. HeaderBytes \in T
  BY <1>1, <1>2, <1>3, UpTo
<1> QED
  BY <1>4 DEF T

\* ... which BlobLength takes.
LEMMA BlobLengthIs ==
  ASSUME NEW s
  PROVE  \E w : Weighs(s, HeaderBytes, w) /\ BlobLength(s) = w[HeaderBytes]
<1> DEFINE c == CHOOSE w : Weighs(s, HeaderBytes, w)
<1>1. Weighs(s, HeaderBytes, c)
  BY WeighsExists
<1>2. BlobLength(s) = c[HeaderBytes]
  BY DEF BlobLength, Weighs
<1> QED
  BY <1>1, <1>2

\* The length is a number.
LEMMA BlobLengthNat ==
  ASSUME NEW s, \A i \in 1..HeaderBytes : s[i] \in Nat
  PROVE  BlobLength(s) \in Nat
<1>1. PICK w : Weighs(s, HeaderBytes, w) /\ BlobLength(s) = w[HeaderBytes]
  BY BlobLengthIs
<1> DEFINE T == {i \in 0..HeaderBytes : w[i] \in Nat}
<1>2. HeaderBytes \in Nat
  BY CodecAssumption
<1>3. 0 \in T
  BY <1>1, <1>2 DEF Weighs
<1>4. ASSUME NEW i \in 1..HeaderBytes, i - 1 \in T
      PROVE  i \in T
  <2>1. w[i] = w[i - 1] + s[i] * Base ^ (i - 1)
    BY <1>1, <1>2 DEF Weighs
  <2>2. Base ^ (i - 1) \in Nat
    BY <1>2, PowersAssumption
  <2>3. s[i] * Base ^ (i - 1) \in Nat
    <3>1. PICK b : b = Base ^ (i - 1)
      OBVIOUS
    <3> QED
      BY <2>2, <3>1
  <2>4. w[i - 1] \in Nat
    BY <1>4
  <2> QED
    BY <1>2, <2>1, <2>3, <2>4
<1> HIDE DEF T
<1>5. HeaderBytes \in T
  BY <1>2, <1>3, <1>4, UpTo
<1> QED
  BY <1>1, <1>5 DEF T

\* The length is read from the first HeaderBytes bytes.
LEMMA BlobLengthLocal ==
  ASSUME NEW s, NEW t, \A i \in 1..HeaderBytes : s[i] = t[i]
  PROVE  BlobLength(s) = BlobLength(t)
<1>1. PICK w : Weighs(s, HeaderBytes, w) /\ BlobLength(s) = w[HeaderBytes]
  BY BlobLengthIs
<1>2. PICK v : Weighs(t, HeaderBytes, v) /\ BlobLength(t) = v[HeaderBytes]
  BY BlobLengthIs
<1> DEFINE T == {i \in 0..HeaderBytes : w[i] = v[i]}
<1>3. HeaderBytes \in Nat
  BY CodecAssumption
<1>4. 0 \in T
  BY <1>1, <1>2, <1>3 DEF Weighs
<1>5. ASSUME NEW i \in 1..HeaderBytes, i - 1 \in T
      PROVE  i \in T
  <2>1. w[i] = w[i - 1] + s[i] * Base ^ (i - 1)
    BY <1>1, <1>3 DEF Weighs
  <2>2. v[i] = v[i - 1] + t[i] * Base ^ (i - 1)
    BY <1>2, <1>3 DEF Weighs
  <2> QED
    BY <1>3, <1>5, <2>1, <2>2
<1> HIDE DEF T
<1>6. HeaderBytes \in T
  BY <1>3, <1>4, <1>5, UpTo
<1> QED
  BY <1>1, <1>2, <1>6 DEF T

------------------------------------------------------------------------------
(* Texts and the strings that end them.                                     *)

\* A byte may be zero, and may be a digit.
LEMMA SomeBytes == 0 \in 0..Base - 1 /\ Zero \in 0..Base - 1
BY CodecAssumption, TypesAssumption DEF Zero

\* HasNul says that a byte is zero.
LEMMA NulIsSomewhere ==
  ASSUME NEW S, NEW s \in Seq(S)
  PROVE  ~HasNul(s) <=> \A i \in 1..Len(s) : s[i] # 0
<1>1. /\ StrLen(s) \in 0..Len(s)
      /\ \A i \in 1..StrLen(s) : s[i] # 0
      /\ StrLen(s) < Len(s) => s[StrLen(s) + 1] = 0
  BY StrLenFinds
<1>2. CASE StrLen(s) < Len(s)
  <2>1. StrLen(s) + 1 \in 1..Len(s)
    BY <1>1, <1>2
  <2> QED
    BY <1>1, <1>2, <2>1 DEF HasNul
<1>3. CASE ~(StrLen(s) < Len(s))
  BY <1>1, <1>3 DEF HasNul
<1> QED
  BY <1>2, <1>3

\* The first n members of a sequence.
LEMMA FirstOf ==
  ASSUME NEW S, NEW s \in Seq(S), NEW n \in 0..Len(s)
  PROVE  /\ SubSeq(s, 1, n) \in Seq(S)
         /\ Len(SubSeq(s, 1, n)) = n
         /\ \A i \in 1..n : SubSeq(s, 1, n)[i] = s[i]
OBVIOUS

\* The text of a string is what stands before its zero byte, and has none.
LEMMA TextIs ==
  ASSUME NEW s \in Bytes
  PROVE  /\ Text(s) \in Bytes
         /\ Len(Text(s)) = StrLen(s)
         /\ \A i \in 1..StrLen(s) : Text(s)[i] = s[i]
         /\ ~HasNul(Text(s))
<1>1. /\ StrLen(s) \in 0..Len(s)
      /\ \A i \in 1..StrLen(s) : s[i] # 0
  BY StrLenFinds DEF Bytes
<1>2. PICK n : n = StrLen(s)
  OBVIOUS
<1>3. /\ n \in 0..Len(s) /\ s \in Seq(0..Base - 1) /\ \A i \in 1..n : s[i] # 0
  BY <1>1, <1>2 DEF Bytes
<1>4. /\ SubSeq(s, 1, n) \in Seq(0..Base - 1)
      /\ Len(SubSeq(s, 1, n)) = n
      /\ \A i \in 1..n : SubSeq(s, 1, n)[i] = s[i]
  BY <1>3, FirstOf
<1>5. /\ Text(s) \in Bytes
      /\ Len(Text(s)) = StrLen(s)
      /\ \A i \in 1..StrLen(s) : Text(s)[i] = s[i]
  BY <1>2, <1>4 DEF Text, Bytes
<1>6. ~HasNul(Text(s))
  BY <1>1, <1>5, NulIsSomewhere DEF Bytes
<1> QED
  BY <1>5, <1>6

\* A zero byte behind a text ends it.
LEMMA CStringIs ==
  ASSUME NEW s \in Bytes
  PROVE  /\ CString(s) \in Bytes
         /\ Len(CString(s)) = Len(s) + 1
         /\ \A i \in 1..Len(s) : CString(s)[i] = s[i]
         /\ CString(s)[Len(s) + 1] = 0
BY SomeBytes, AppendProperties DEF CString, Bytes

\* Texts of one length and with the same bytes are one.
LEMMA SameBytes ==
  ASSUME NEW s \in Bytes, NEW t \in Bytes, Len(s) = Len(t), \A i \in 1..Len(s) : s[i] = t[i]
  PROVE  s = t
BY SeqEqual DEF Bytes

\* strlen and the text of a string with a zero byte at its end only.
LEMMA StrLenOfCString ==
  ASSUME NEW s \in Bytes, ~HasNul(s)
  PROVE  /\ StrLen(CString(s)) = Len(s)
         /\ Text(CString(s)) = s
         /\ HasNul(CString(s))
<1>1. \A i \in 1..Len(s) : s[i] # 0
  BY NulIsSomewhere DEF Bytes
<1>2. Len(s) \in Nat
  BY DEF Bytes
<1>3. PICK c \in Bytes : c = CString(s)
  BY CStringIs
<1>4. /\ Len(c) = Len(s) + 1
      /\ \A i \in 1..Len(s) : c[i] = s[i]
      /\ c[Len(s) + 1] = 0
  BY <1>3, CStringIs
<1>5. StrLen(c) = Len(s)
  <2>1. c \in Seq(0..Base - 1)
    BY DEF Bytes
  <2>2. Len(s) \in 0..Len(c) /\ \A i \in 1..Len(s) : c[i] # 0
    BY <1>1, <1>2, <1>4
  <2> QED
    BY <2>1, <2>2, <1>4, StrLenOnly
<1>6. Text(c) = s
  <2>1. /\ Text(c) \in Bytes /\ Len(Text(c)) = Len(s)
        /\ \A i \in 1..Len(s) : Text(c)[i] = s[i]
    BY <1>4, <1>5, TextIs
  <2> QED
    BY <2>1, SameBytes
<1>7. HasNul(c)
  BY <1>2, <1>4, <1>5 DEF HasNul
<1> QED
  BY <1>3, <1>5, <1>6, <1>7

\* A function on 1..n is a sequence of length n.
LEMMA SeqOf ==
  ASSUME NEW n \in Nat, NEW S, NEW f \in [1..n -> S]
  PROVE  f \in Seq(S) /\ Len(f) = n
OBVIOUS

\* The text that a value of type string holds: what stands before its zero byte, or
\* all but its last byte.
TextMeant(v) == IF HasNul(v) THEN Text(v) ELSE SubSeq(v, 1, Len(v) - 1)

\* get_string_mxsz ends every text that has a byte with its first zero byte.
LEMMA TerminatedIs ==
  ASSUME NEW v \in Bytes
  PROVE  /\ Terminated(v) \in Bytes
         /\ v # <<>> => /\ TextMeant(v) \in Bytes /\ ~HasNul(TextMeant(v))
                        /\ Terminated(v) = CString(TextMeant(v))
         /\ v = <<>> => ~HasNul(Terminated(v))
<1>1. CASE HasNul(v)
  <2>1. Terminated(v) = CString(Text(v))
    BY <1>1 DEF Terminated
  <2>2. v # <<>>
    <3>1. StrLen(v) \in 0..Len(v) /\ StrLen(v) < Len(v)
      BY <1>1, StrLenFinds DEF HasNul, Bytes
    <3> QED
      BY <3>1
  <2>3. Text(v) \in Bytes /\ ~HasNul(Text(v))
    BY TextIs
  <2>4. Terminated(v) \in Bytes
    BY <2>1, <2>3, CStringIs
  <2>5. TextMeant(v) = Text(v)
    BY <1>1 DEF TextMeant
  <2> QED
    BY <2>1, <2>2, <2>3, <2>4, <2>5
<1>2. CASE ~HasNul(v)
  <2>1. PICK n \in Nat : n = Len(v)
    BY DEF Bytes
  <2>2. PICK r : r = [i \in 1..n |-> IF i = n THEN 0 ELSE v[i]]
    OBVIOUS
  <2>3. Terminated(v) = r
    BY <1>2, <2>1, <2>2 DEF Terminated
  <2>4. \A i \in 1..n : v[i] # 0 /\ v[i] \in 0..Base - 1
    <3>1. v \in Seq(0..Base - 1)
      BY DEF Bytes
    <3>2. \A i \in 1..Len(v) : v[i] # 0
      BY <1>2, <3>1, NulIsSomewhere
    <3>3. \A i \in 1..Len(v) : v[i] \in 0..Base - 1
      BY <3>1, ElementOfSeq
    <3> QED
      BY <2>1, <3>2, <3>3
  <2>5. r \in Bytes /\ Len(r) = n /\ \A i \in 1..n : r[i] = IF i = n THEN 0 ELSE v[i]
    <3>1. \A i \in 1..n : r[i] \in 0..Base - 1
      BY <2>2, <2>4, SomeBytes
    <3>2. r \in [1..n -> 0..Base - 1]
      BY <2>2, <3>1
    <3>3. r \in Seq(0..Base - 1) /\ Len(r) = n
      BY <3>2, SeqOf
    <3> QED
      BY <2>2, <3>3 DEF Bytes
  <2>6. CASE n = 0
    <3>1. v = <<>>
      BY <2>1, <2>6, EmptySeq DEF Bytes
    <3>2. r \in Seq(0..Base - 1) /\ \A i \in 1..Len(r) : r[i] # 0
      BY <2>5, <2>6 DEF Bytes
    <3>3. ~HasNul(r)
      BY <3>2, NulIsSomewhere
    <3> QED
      BY <2>3, <2>5, <3>1, <3>3
  <2>7. CASE n # 0
    <3>1. v # <<>>
      BY <2>1, <2>7
    <3>2. PICK t : t = SubSeq(v, 1, n - 1)
      OBVIOUS
    <3>3. t \in Bytes /\ Len(t) = n - 1 /\ \A i \in 1..n - 1 : t[i] = v[i]
      <4>1. n - 1 \in 0..Len(v) /\ v \in Seq(0..Base - 1)
        BY <2>1, <2>7 DEF Bytes
      <4> QED
        BY <3>2, <4>1, FirstOf DEF Bytes
    <3>4. ~HasNul(t)
      BY <2>4, <3>3, NulIsSomewhere DEF Bytes
    <3>5. CString(t) = r
      <4>1. /\ CString(t) \in Bytes /\ Len(CString(t)) = n
            /\ \A i \in 1..n - 1 : CString(t)[i] = v[i]
            /\ CString(t)[n] = 0
        BY <3>3, CStringIs
      <4>2. \A i \in 1..n : CString(t)[i] = r[i]
        BY <2>5, <4>1
      <4> QED
        BY <2>5, <4>1, <4>2, SameBytes
    <3>6. TextMeant(v) = t
      BY <1>2, <2>1, <3>2 DEF TextMeant
    <3> QED
      BY <2>3, <2>5, <3>1, <3>3, <3>4, <3>5, <3>6
  <2> QED
    BY <2>6, <2>7
<1> QED
  BY <1>1, <1>2

\* ... and leaves one that is ended alone.
LEMMA TerminatedOnce ==
  ASSUME NEW t \in Bytes, ~HasNul(t)
  PROVE  Terminated(CString(t)) = CString(t)
BY StrLenOfCString DEF Terminated

------------------------------------------------------------------------------
(* Decimal numbers.                                                         *)

\* The zeros that BigintText takes away.
LEMMA LeadingZeros ==
  ASSUME NEW S, NEW s \in Seq(S)
  PROVE  \E z \in 0..Len(s) :
            /\ \A i \in 1..z : s[i] = Zero
            /\ z < Len(s) => s[z + 1] # Zero
            /\ BigintText(s) = IF z = Len(s) THEN <<Zero>> ELSE SubSeq(s, z + 1, Len(s))
<1> DEFINE T == {i \in 1..Len(s) : s[i] # Zero}
           P(n) == (\A i \in 1..n : s[i] = Zero) /\ (n < Len(s) => s[n + 1] # Zero)
           c == CHOOSE n \in 0..Len(s) : P(n)
<1>1. \E n \in 0..Len(s) : (\A i \in 1..n : i \notin T) /\ (n < Len(s) => n + 1 \in T)
  <2> HIDE DEF T
  <2>1. Len(s) \in Nat
    OBVIOUS
  <2> QED
    BY <2>1, Prefix
<1>2. \E n \in 0..Len(s) : P(n)
  BY <1>1
<1>3. c \in 0..Len(s) /\ P(c)
  BY <1>2
<1>4. BigintText(s) = IF c = Len(s) THEN <<Zero>> ELSE SubSeq(s, c + 1, Len(s))
  BY DEF BigintText
<1> QED
  BY <1>3, <1>4

\* The members of a sequence behind the first z.
LEMMA LastOf ==
  ASSUME NEW S, NEW s \in Seq(S), NEW z \in 0..Len(s)
  PROVE  /\ SubSeq(s, z + 1, Len(s)) \in Seq(S)
         /\ Len(SubSeq(s, z + 1, Len(s))) = Len(s) - z
         /\ \A i \in 1..Len(s) - z : SubSeq(s, z + 1, Len(s))[i] = s[z + i]
OBVIOUS

\* A number is written with at least one digit and without leading zeros, so that
\* writing it again changes nothing.
LEMMA BigintTextIs ==
  ASSUME NEW s \in Bytes, ~HasNul(s)
  PROVE  /\ BigintText(s) \in Bytes
         /\ ~HasNul(BigintText(s))
         /\ Len(BigintText(s)) > 0
         /\ BigintText(BigintText(s)) = BigintText(s)
<1>1. s \in Seq(0..Base - 1) /\ Len(s) \in Nat
  BY DEF Bytes
<1>2. PICK z \in 0..Len(s) :
            /\ \A i \in 1..z : s[i] = Zero
            /\ z < Len(s) => s[z + 1] # Zero
            /\ BigintText(s) = IF z = Len(s) THEN <<Zero>> ELSE SubSeq(s, z + 1, Len(s))
  BY <1>1, LeadingZeros
<1>3. PICK r : r = BigintText(s)
  OBVIOUS
<1>4. CASE z = Len(s)
  <2>1. r = <<Zero>>
    BY <1>2, <1>3, <1>4
  <2>2. r \in Bytes /\ Len(r) = 1 /\ r[1] = Zero
    BY <2>1, SomeBytes DEF Bytes
  <2>3. r \in Seq(0..Base - 1)
    BY <2>2 DEF Bytes
  <2>4. ~HasNul(r)
    <3>1. \A i \in 1..Len(r) : r[i] # 0
      BY <2>2 DEF Zero
    <3> QED
      BY <2>3, <3>1, NulIsSomewhere
  <2>5. BigintText(r) = r
    <3>1. PICK y \in 0..Len(r) :
              /\ y < Len(r) => r[y + 1] # Zero
              /\ BigintText(r) = IF y = Len(r) THEN <<Zero>> ELSE SubSeq(r, y + 1, Len(r))
      BY <2>3, LeadingZeros
    <3>2. y = Len(r)
      BY <2>2, <3>1
    <3> QED
      BY <2>1, <3>1, <3>2
  <2> QED
    BY <1>3, <2>2, <2>4, <2>5
<1>5. CASE z # Len(s)
  <2>1. r = SubSeq(s, z + 1, Len(s))
    BY <1>2, <1>3, <1>5
  <2>2. /\ r \in Seq(0..Base - 1) /\ Len(r) = Len(s) - z
        /\ \A i \in 1..Len(s) - z : r[i] = s[z + i]
    BY <1>1, <2>1, LastOf
  <2>3. ~HasNul(r)
    <3>1. \A i \in 1..Len(s) : s[i] # 0
      BY <1>1, NulIsSomewhere
    <3>2. \A i \in 1..Len(r) : r[i] # 0
      BY <1>1, <1>2, <2>2, <3>1
    <3> QED
      BY <2>2, <3>2, NulIsSomewhere
  <2>4. Len(r) > 0 /\ r[1] # Zero
    BY <1>1, <1>2, <1>5, <2>2
  <2>5. BigintText(r) = r
    <3>1. PICK y \in 0..Len(r) :
              /\ \A i \in 1..y : r[i] = Zero
              /\ BigintText(r) = IF y = Len(r) THEN <<Zero>> ELSE SubSeq(r, y + 1, Len(r))
      BY <2>2, LeadingZeros
    <3>2. y = 0
      <4>1. Len(r) \in Nat
        BY <2>2
      <4>2. y # 0 => 1 \in 1..y
        BY <4>1
      <4> QED
        BY <2>4, <3>1, <4>2
    <3>3. BigintText(r) = SubSeq(r, 1, Len(r))
      BY <2>2, <2>4, <3>1, <3>2
    <3> QED
      BY <2>2, <3>3, SubSeqFull
  <2> QED
    BY <1>3, <2>2, <2>3, <2>4, <2>5 DEF Bytes
<1> QED
  BY <1>4, <1>5

------------------------------------------------------------------------------
(* The parts of a body.                                                     *)

\* What set_handler reads is made of bytes, and the key has no zero byte.
LEMMA PartsOf ==
  ASSUME NEW body \in Bytes
  PROVE  /\ KeyOf(body) \in Bytes /\ ~HasNul(KeyOf(body))
         /\ HasDtype(body) =>
               /\ TypeOf(body) \in 0..Base - 1
               /\ ValueOf(body) \in Bytes
               /\ Len(ValueOf(body)) = Len(body) - StrLen(body) - 2
               /\ \A i \in 1..Len(ValueOf(body)) : ValueOf(body)[i] = body[StrLen(body) + 2 + i]
<1>1. KeyOf(body) \in Bytes /\ ~HasNul(KeyOf(body))
  BY TextIs DEF KeyOf
<1>2. PICK n : n = StrLen(body)
  OBVIOUS
<1>3. /\ n \in 0..Len(body) /\ body \in Seq(0..Base - 1) /\ Len(body) \in Nat
  BY <1>2, StrLenFinds DEF Bytes
<1>4. ASSUME HasDtype(body)
      PROVE  /\ TypeOf(body) \in 0..Base - 1
             /\ ValueOf(body) \in Bytes
             /\ Len(ValueOf(body)) = Len(body) - StrLen(body) - 2
             /\ \A i \in 1..Len(ValueOf(body)) : ValueOf(body)[i] = body[StrLen(body) + 2 + i]
  <2>1. n + 2 \in 1..Len(body) /\ n + 2 \in 0..Len(body)
    BY <1>2, <1>3, <1>4 DEF HasDtype
  <2>2. TypeOf(body) \in 0..Base - 1
    BY <1>2, <1>3, <2>1, ElementOfSeq DEF TypeOf
  <2>3. PICK z : z = n + 2
    OBVIOUS
  <2>4. z + 1 = StrLen(body) + 3
    BY <1>2, <1>3, <2>3
  <2>5. ValueOf(body) = SubSeq(body, z + 1, Len(body))
    BY <2>4 DEF ValueOf
  <2>6. /\ ValueOf(body) \in Seq(0..Base - 1)
        /\ Len(ValueOf(body)) = Len(body) - z
        /\ \A i \in 1..Len(body) - z : ValueOf(body)[i] = body[z + i]
    BY <1>3, <2>1, <2>3, <2>5, LastOf, ZenonT(60)
  <2> QED
    BY <1>2, <1>3, <2>2, <2>3, <2>6 DEF Bytes
<1> QED
  BY <1>1, <1>4

------------------------------------------------------------------------------
(* What is accepted, and what is undefined.                                 *)

\* The size that load_from of a blob keeps is that of the copy, unless it wraps.
LEMMA BlobNumbers ==
  ASSUME NEW v \in Bytes, Len(v) >= HeaderBytes
  PROVE  /\ BlobLength(v) \in Nat
         /\ BlobCopies(v) = BlobLength(v) + HeaderBytes
         /\ BlobSize(v) \in Nat
         /\ BlobSize(v) <= BlobCopies(v)
         /\ BlobCopies(v) < Base ^ HeaderBytes => BlobSize(v) = BlobCopies(v)
<1>1. HeaderBytes \in Nat /\ v \in Seq(0..Base - 1) /\ Base \in Nat
  BY CodecAssumption DEF Bytes
<1>2. \A i \in 1..HeaderBytes : v[i] \in Nat
  BY <1>1
<1>3. BlobLength(v) \in Nat
  BY <1>2, BlobLengthNat
<1>4. PICK m : m = Base ^ HeaderBytes
  OBVIOUS
<1>5. m \in Nat \ {0}
  BY <1>1, <1>4, PowersAssumption
<1>6. PICK c : c = BlobCopies(v)
  OBVIOUS
<1>7. c \in Nat /\ c = BlobLength(v) + HeaderBytes
  BY <1>1, <1>3, <1>6 DEF BlobCopies
<1>8. BlobSize(v) = c % m
  BY <1>4, <1>6 DEF BlobSize
<1>9. c % m \in Nat /\ c % m <= c /\ (c < m => c % m = c)
  BY <1>5, <1>7
<1> QED
  BY <1>3, <1>4, <1>6, <1>7, <1>8, <1>9

\* The checks of load_from take a blob exactly when the message holds it, but for
\* the lengths that wrap.
LEMMA BlobFits ==
  ASSUME NEW v \in Bytes, Len(v) >= HeaderBytes
  PROVE  /\ Len(v) - HeaderBytes >= BlobLength(v) => Len(v) >= BlobSize(v)
         /\ Len(v) >= BlobSize(v) /\ ~Overruns(DTYPE_BLOB, v)
               => Len(v) - HeaderBytes >= BlobLength(v) /\ BlobCopies(v) = BlobSize(v)
         /\ Len(v) >= BlobSize(v) /\ Overruns(DTYPE_BLOB, v)
               => BlobCopies(v) >= Base ^ HeaderBytes
<1>1. HeaderBytes \in Nat /\ Len(v) \in Nat
  BY CodecAssumption DEF Bytes
<1>2. PICK m : m = Base ^ HeaderBytes
  OBVIOUS
<1>3. m \in Nat
  BY <1>1, <1>2, PowersAssumption
<1>4. /\ BlobLength(v) \in Nat
      /\ BlobCopies(v) = BlobLength(v) + HeaderBytes
      /\ BlobSize(v) \in Nat
      /\ BlobSize(v) <= BlobCopies(v)
      /\ BlobCopies(v) < m => BlobSize(v) = BlobCopies(v)
  BY <1>2, BlobNumbers
<1>5. Overruns(DTYPE_BLOB, v) <=> BlobCopies(v) > BlobSize(v) \/ BlobCopies(v) > Len(v)
  BY DEF Overruns
<1> QED
  BY <1>1, <1>2, <1>3, <1>4, <1>5

\* What WellFormed asks of a value.
Holds(type, v) ==
    \/ type \in {DTYPE_NONE, DTYPE_STRING}
    \/ type = DTYPE_BIGINT /\ Len(v) >= 2
    \/ type = DTYPE_BLOB /\ Len(v) >= HeaderBytes /\ Len(v) - HeaderBytes >= BlobLength(v)
    \/ type \in DOMAIN StaticSize /\ Len(v) >= StaticSize[type]

\* The checks of load_from ask what WellFormed asks, as long as nothing wraps.
LEMMA FitsIsHolds ==
  ASSUME NEW type, NEW v \in Bytes, Fits(type, v) => ~Overruns(type, v)
  PROVE  Fits(type, v) <=> Holds(type, v)
<1>1. CASE type # DTYPE_BLOB
  BY <1>1 DEF Fits, Holds
<1>2. CASE type = DTYPE_BLOB /\ ~(Len(v) >= HeaderBytes)
  BY <1>2, TypesAssumption DEF Fits, Holds, DTYPE_BLOB, DTYPE_NONE, DTYPE_STRING, DTYPE_BIGINT
<1>3. CASE type = DTYPE_BLOB /\ Len(v) >= HeaderBytes
  <2>1. Fits(type, v) <=> Len(v) >= BlobSize(v)
    BY <1>3, TypesAssumption DEF Fits, DTYPE_BLOB, DTYPE_NONE, DTYPE_STRING, DTYPE_BIGINT
  <2>2. Holds(type, v) <=> Len(v) - HeaderBytes >= BlobLength(v)
    BY <1>3, TypesAssumption DEF Holds, DTYPE_BLOB, DTYPE_NONE, DTYPE_STRING, DTYPE_BIGINT
  <2> QED
    BY <1>3, <2>1, <2>2, BlobFits
<1> QED
  BY <1>1, <1>2, <1>3

\* A body is well formed when it has a type, of the registry, and a value for it.
LEMMA WellFormedIs ==
  ASSUME NEW body \in Bytes
  PROVE  WellFormed(body) <=>
             HasDtype(body) /\ TypeOf(body) \in Types /\ Holds(TypeOf(body), ValueOf(body))
<1>1. body \in Seq(0..Base - 1) /\ Len(body) \in Nat
  BY DEF Bytes
<1>2. /\ StrLen(body) \in 0..Len(body)
      /\ \A i \in 1..StrLen(body) : body[i] # 0
      /\ StrLen(body) < Len(body) => body[StrLen(body) + 1] = 0
  BY <1>1, StrLenFinds
<1> DEFINE Good(n) ==
             LET type == body[n + 2]
                 left == Len(body) - n - 2
                 v == SubSeq(body, n + 3, Len(body))
             IN  \/ type \in {DTYPE_NONE, DTYPE_STRING}
                 \/ type = DTYPE_BIGINT /\ left >= 2
                 \/ type = DTYPE_BLOB /\ left >= HeaderBytes /\ left - HeaderBytes >= BlobLength(v)
                 \/ type \in DOMAIN StaticSize /\ left >= StaticSize[type]
<1>3. WellFormed(body) <=>
         \E n \in 0..Len(body) - 2 : (\A i \in 1..n : body[i] # 0) /\ body[n + 1] = 0 /\ Good(n)
  BY DEF WellFormed
<1>4. ASSUME NEW n \in 0..Len(body) - 2, \A i \in 1..n : body[i] # 0, body[n + 1] = 0
      PROVE  n = StrLen(body)
  <2>1. n \in 0..Len(body)
    BY <1>1
  <2> QED
    BY <1>1, <1>4, <2>1, StrLenOnly
<1>5. HasDtype(body) <=> StrLen(body) \in 0..Len(body) - 2
  BY <1>1, <1>2 DEF HasDtype
<1>6. HasDtype(body) => (Good(StrLen(body)) <=> Holds(TypeOf(body), ValueOf(body)))
  <2> SUFFICES ASSUME HasDtype(body)
               PROVE  Good(StrLen(body)) <=> Holds(TypeOf(body), ValueOf(body))
    OBVIOUS
  <2>1. Len(ValueOf(body)) = Len(body) - StrLen(body) - 2
    BY PartsOf
  <2>2. TypeOf(body) = body[StrLen(body) + 2]
    BY DEF TypeOf
  <2>3. ValueOf(body) = SubSeq(body, StrLen(body) + 3, Len(body))
    BY DEF ValueOf
  <2> QED
    BY <2>1, <2>2, <2>3 DEF Holds
<1>7. Holds(TypeOf(body), ValueOf(body)) => TypeOf(body) \in Types
  BY DEF Holds, Types
<1> HIDE DEF Good
<1>8. WellFormed(body) <=> StrLen(body) \in 0..Len(body) - 2 /\ Good(StrLen(body))
  <2>1. StrLen(body) \in 0..Len(body) - 2 => body[StrLen(body) + 1] = 0
    BY <1>1, <1>2
  <2> QED
    BY <1>2, <1>3, <1>4, <2>1
<1> QED
  BY <1>5, <1>6, <1>7, <1>8

\* set_handler's checks, in order, are the grammar of a SET.
LEMMA AcceptsIs ==
  ASSUME NEW body \in Bytes, Accepts(body) => ~Overruns(TypeOf(body), ValueOf(body))
  PROVE  Accepts(body) <=> WellFormed(body)
<1>1. CASE HasDtype(body) /\ TypeOf(body) \in Types
  <2>1. ValueOf(body) \in Bytes
    BY <1>1, PartsOf
  <2>2. Fits(TypeOf(body), ValueOf(body)) <=> Holds(TypeOf(body), ValueOf(body))
    BY <1>1, <2>1, FitsIsHolds DEF Accepts
  <2> QED
    BY <1>1, <2>2, WellFormedIs DEF Accepts
<1>2. CASE ~(HasDtype(body) /\ TypeOf(body) \in Types)
  BY <1>2, WellFormedIs DEF Accepts
<1> QED
  BY <1>1, <1>2

\* load_from and strlen leave their memory at the two edges only.
LEMMA EdgeIs ==
  ASSUME NEW body \in Bytes, Accepts(body),
         Overruns(TypeOf(body), ValueOf(body)) \/ ReadsPast(ObjectOf(body))
  PROVE  Edge(body)
<1>1. ValueOf(body) \in Bytes /\ Fits(TypeOf(body), ValueOf(body))
  BY PartsOf DEF Accepts
<1>2. CASE Overruns(TypeOf(body), ValueOf(body))
  <2>1. TypeOf(body) = DTYPE_BLOB
    BY <1>2 DEF Overruns
  <2>2. Len(ValueOf(body)) >= HeaderBytes /\ Len(ValueOf(body)) >= BlobSize(ValueOf(body))
    BY <1>1, <2>1, TypesAssumption DEF Fits, DTYPE_BLOB, DTYPE_NONE, DTYPE_STRING, DTYPE_BIGINT
  <2>3. BlobCopies(ValueOf(body)) >= Base ^ HeaderBytes
    BY <1>1, <1>2, <2>1, <2>2, BlobFits
  <2> QED
    BY <2>1, <2>3 DEF Edge
<1>3. CASE ReadsPast(ObjectOf(body))
  <2>1. TypeOf(body) = DTYPE_STRING
    BY <1>3 DEF ReadsPast, ObjectOf
  <2>2. ObjectOf(body).data = Terminated(ValueOf(body))
    BY <2>1 DEF ObjectOf, LoadFrom, DTYPE_STRING, DTYPE_NONE, DTYPE_BLOB, DTYPE_BIGINT
  <2>3. ~HasNul(Terminated(ValueOf(body)))
    BY <1>3, <2>2 DEF ReadsPast
  <2>4. ValueOf(body) = <<>>
    <3> SUFFICES ASSUME ValueOf(body) # <<>> PROVE FALSE
      OBVIOUS
    <3>1. PICK t \in Bytes : ~HasNul(t) /\ Terminated(ValueOf(body)) = CString(t)
      BY <1>1, TerminatedIs
    <3> QED
      BY <2>3, <3>1, StrLenOfCString
  <2> QED
    BY <2>1, <2>4 DEF Edge
<1> QED
  BY <1>2, <1>3

------------------------------------------------------------------------------
(* Stored objects.                                                          *)

\* The memory of an object is what its implementor would allocate for the bytes it
\* holds: a text with one zero byte, at its end; a number without leading zeros; a
\* blob of the length that its own length field says.
DataSound(type, data) ==
    /\ type = DTYPE_NONE => data = <<>>
    /\ type = DTYPE_STRING => \E t \in Bytes : ~HasNul(t) /\ data = CString(t)
    /\ type = DTYPE_BIGINT =>
           \E t \in Bytes : ~HasNul(t) /\ Len(t) > 0 /\ BigintText(t) = t /\ data = CString(t)
    /\ type = DTYPE_BLOB =>
           Len(data) >= HeaderBytes /\ BlobCopies(data) = Len(data) /\ BlobSize(data) = Len(data)
    /\ type \in DOMAIN StaticSize => Len(data) = StaticSize[type]

Sound(o) ==
    /\ o \in [key : Bytes, type : 0..Base - 1, data : Bytes]
    /\ o.type \in Types
    /\ ~HasNul(o.key)
    /\ DataSound(o.type, o.data)

\* The types are told apart.
LEMMA TypesApart ==
  ASSUME NEW type \in Types
  PROVE  /\ type = DTYPE_NONE => type \notin {DTYPE_STRING, DTYPE_BIGINT, DTYPE_BLOB}
         /\ type = DTYPE_STRING => type \notin {DTYPE_NONE, DTYPE_BIGINT, DTYPE_BLOB}
         /\ type = DTYPE_BIGINT => type \notin {DTYPE_NONE, DTYPE_STRING, DTYPE_BLOB}
         /\ type = DTYPE_BLOB => type \notin {DTYPE_NONE, DTYPE_STRING, DTYPE_BIGINT}
         /\ type \in DOMAIN StaticSize
               <=> type \notin {DTYPE_NONE, DTYPE_STRING, DTYPE_BIGINT, DTYPE_BLOB}
BY TypesAssumption DEF Types, DTYPE_NONE, DTYPE_STRING, DTYPE_BIGINT, DTYPE_BLOB

\* The part of a blob that load_from keeps has the length field of the whole.
LEMMA BlobKept ==
  ASSUME NEW v \in Bytes, NEW n \in HeaderBytes..Len(v)
  PROVE  BlobLength(SubSeq(v, 1, n)) = BlobLength(v)
<1>1. HeaderBytes \in Nat /\ v \in Seq(0..Base - 1) /\ Len(v) \in Nat
  BY CodecAssumption DEF Bytes
<1>2. n \in 0..Len(v)
  BY <1>1
<1>3. \A i \in 1..n : SubSeq(v, 1, n)[i] = v[i]
  BY <1>1, <1>2, FirstOf
<1>4. \A i \in 1..HeaderBytes : SubSeq(v, 1, n)[i] = v[i]
  BY <1>1, <1>3
<1> QED
  BY <1>4, BlobLengthLocal

\* What load_from makes of a value that it takes without leaving its memory.
LEMMA LoadedSound ==
  ASSUME NEW type \in Types, NEW v \in Bytes, Fits(type, v), ~Overruns(type, v),
         type = DTYPE_STRING => HasNul(LoadFrom(type, v))
  PROVE  LoadFrom(type, v) \in Bytes /\ DataSound(type, LoadFrom(type, v))
<1>1. CASE type = DTYPE_NONE
  <2>1. LoadFrom(type, v) = <<>>
    BY <1>1, TypesApart DEF LoadFrom
  <2> QED
    BY <1>1, <2>1, TypesApart DEF DataSound, Bytes
<1>2. CASE type = DTYPE_STRING
  <2>1. LoadFrom(type, v) = Terminated(v)
    BY <1>2, TypesApart DEF LoadFrom
  <2>2. v # <<>>
    BY <1>2, <2>1, TerminatedIs
  <2>3. Terminated(v) \in Bytes /\ \E t \in Bytes : ~HasNul(t) /\ Terminated(v) = CString(t)
    BY <2>2, TerminatedIs
  <2> QED
    BY <1>2, <2>1, <2>3, TypesApart DEF DataSound
<1>3. CASE type = DTYPE_BIGINT
  <2>1. LoadFrom(type, v) = BigintIn(v)
    BY <1>3, TypesApart DEF LoadFrom
  <2>2. PICK t \in Bytes : t = Text(Terminated(v)) /\ ~HasNul(t)
    BY TerminatedIs, TextIs
  <2>3. PICK r \in Bytes : r = BigintText(t) /\ ~HasNul(r) /\ Len(r) > 0 /\ BigintText(r) = r
    BY <2>2, BigintTextIs
  <2>4. LoadFrom(type, v) = CString(r)
    BY <2>1, <2>2, <2>3 DEF BigintIn
  <2>5. LoadFrom(type, v) \in Bytes
    BY <2>4, CStringIs
  <2> QED
    BY <1>3, <2>3, <2>4, <2>5, TypesApart DEF DataSound
<1>4. CASE type = DTYPE_BLOB
  <2>1. LoadFrom(type, v) = SubSeq(v, 1, BlobSize(v))
    BY <1>4, TypesApart DEF LoadFrom, BlobIn
  <2>2. Len(v) >= HeaderBytes /\ Len(v) >= BlobSize(v)
    BY <1>4, TypesApart DEF Fits
  <2>3. BlobCopies(v) = BlobSize(v)
    BY <1>4, <2>2, BlobFits
  <2>4. BlobLength(v) \in Nat /\ BlobSize(v) \in Nat /\ BlobCopies(v) = BlobLength(v) + HeaderBytes
    BY <2>2, BlobNumbers
  <2>5. HeaderBytes \in Nat /\ v \in Seq(0..Base - 1) /\ Len(v) \in Nat
    BY CodecAssumption DEF Bytes
  <2>6. PICK n \in HeaderBytes..Len(v) : n = BlobSize(v)
    BY <2>2, <2>3, <2>4, <2>5
  <2>7. n \in 0..Len(v)
    BY <2>5
  <2>8. PICK d : d = SubSeq(v, 1, n)
    OBVIOUS
  <2>9. d \in Bytes /\ Len(d) = n
    BY <2>5, <2>7, <2>8, FirstOf DEF Bytes
  <2>10. BlobLength(d) = BlobLength(v)
    BY <2>8, BlobKept
  <2>11. BlobCopies(d) = n /\ BlobSize(d) = n
    BY <2>3, <2>6, <2>10 DEF BlobCopies, BlobSize
  <2>12. Len(d) >= HeaderBytes
    BY <2>5, <2>9
  <2>13. LoadFrom(type, v) = d
    BY <2>1, <2>6, <2>8
  <2> QED
    BY <1>4, <2>9, <2>11, <2>12, <2>13, TypesApart DEF DataSound
<1>5. CASE type \in DOMAIN StaticSize
  <2>1. LoadFrom(type, v) = SubSeq(v, 1, StaticSize[type])
    BY <1>5, TypesApart DEF LoadFrom, StaticIn
  <2>2. StaticSize[type] \in 0..Len(v) /\ v \in Seq(0..Base - 1)
    BY <1>5, TypesApart, TypesAssumption DEF Fits, Bytes
  <2>3. PICK n \in 0..Len(v) : n = StaticSize[type]
    BY <2>2
  <2>4. SubSeq(v, 1, n) \in Bytes /\ Len(SubSeq(v, 1, n)) = n
    BY <2>2, FirstOf DEF Bytes
  <2> QED
    BY <1>5, <2>1, <2>3, <2>4, TypesApart DEF DataSound
<1> QED
  BY <1>1, <1>2, <1>3, <1>4, <1>5 DEF Types

\* The object that an accepted SET puts into the tree is sound.
LEMMA SetSound ==
  ASSUME NEW body \in Bytes, Accepts(body),
         ~Overruns(TypeOf(body), ValueOf(body)), ~ReadsPast(ObjectOf(body))
  PROVE  Sound(ObjectOf(body))
<1>1. PICK type, v : type = TypeOf(body) /\ v = ValueOf(body)
  OBVIOUS
<1>2. type \in Types /\ type \in 0..Base - 1 /\ v \in Bytes /\ Fits(type, v)
  BY <1>1, PartsOf DEF Accepts
<1>3. KeyOf(body) \in Bytes /\ ~HasNul(KeyOf(body))
  BY PartsOf
<1>4. ObjectOf(body) = [key |-> KeyOf(body), type |-> type, data |-> LoadFrom(type, v)]
  BY <1>1 DEF ObjectOf
<1>5. type = DTYPE_STRING => HasNul(LoadFrom(type, v))
  BY <1>4 DEF ReadsPast
<1>6. LoadFrom(type, v) \in Bytes /\ DataSound(type, LoadFrom(type, v))
  BY <1>1, <1>2, <1>5, LoadedSound
<1> QED
  BY <1>2, <1>3, <1>4, <1>6 DEF Sound

------------------------------------------------------------------------------
(* Notices.                                                                 *)

\* load_to writes as many bytes as get_size announces, and load_from takes them
\* back to the same memory.
LEMMA LoadToIs ==
  ASSUME NEW o, Sound(o)
  PROVE  /\ LoadTo(o) \in Bytes
         /\ GetSize(o) = Len(LoadTo(o))
         /\ Fits(o.type, LoadTo(o))
         /\ LoadFrom(o.type, LoadTo(o)) = o.data
         /\ LoadTo(o) = o.data
<1>1. o.type \in Types /\ o.data \in Bytes /\ DataSound(o.type, o.data)
  BY DEF Sound
<1>2. PICK type, data : type = o.type /\ data = o.data
  OBVIOUS
<1>3. type \in Types /\ data \in Bytes /\ DataSound(type, data)
  BY <1>1, <1>2
<1>4. CASE type = DTYPE_NONE
  <2>1. LoadTo(o) = <<>> /\ GetSize(o) = 0
    BY <1>2, <1>3, <1>4, TypesApart DEF LoadTo, GetSize
  <2>2. LoadFrom(type, <<>>) = <<>> /\ data = <<>> /\ Fits(type, <<>>)
    BY <1>3, <1>4, TypesApart DEF LoadFrom, DataSound, Fits
  <2> QED
    BY <1>2, <2>1, <2>2 DEF Bytes
<1>5. CASE type \in {DTYPE_STRING, DTYPE_BIGINT}
  <2>1. PICK t \in Bytes : ~HasNul(t) /\ data = CString(t)
    BY <1>3, <1>5 DEF DataSound
  <2>2. StrLen(data) = Len(t) /\ Text(data) = t /\ Len(data) = Len(t) + 1
    BY <2>1, StrLenOfCString, CStringIs
  <2>3. LoadTo(o) = data
    BY <1>2, <1>3, <1>5, <2>1, <2>2, TypesApart DEF LoadTo, StringOut
  <2>4. GetSize(o) = Len(data)
    BY <1>2, <1>3, <1>5, <2>2, TypesApart DEF GetSize, StringSize
  <2>5. Terminated(data) = data
    BY <2>1, TerminatedOnce
  <2>6. Fits(type, data) /\ LoadFrom(type, data) = data
    <3>1. CASE type = DTYPE_STRING
      BY <1>3, <2>5, <3>1, TypesApart DEF LoadFrom, Fits
    <3>2. CASE type = DTYPE_BIGINT
      <4>1. PICK r \in Bytes : ~HasNul(r) /\ Len(r) > 0 /\ BigintText(r) = r /\ data = CString(r)
        BY <1>3, <3>2 DEF DataSound
      <4>2. Text(data) = r /\ Len(data) = Len(r) + 1 /\ Len(r) \in Nat
        BY <4>1, StrLenOfCString, CStringIs DEF Bytes
      <4>3. BigintIn(data) = data
        BY <2>5, <4>1, <4>2 DEF BigintIn
      <4>4. Len(data) >= 2
        BY <4>1, <4>2
      <4> QED
        BY <1>3, <3>2, <4>3, <4>4, TypesApart DEF LoadFrom, Fits
    <3> QED
      BY <1>5, <3>1, <3>2
  <2> QED
    BY <1>2, <1>3, <2>3, <2>4, <2>6
<1>6. CASE type = DTYPE_BLOB
  <2>1. BlobCopies(data) = Len(data) /\ BlobSize(data) = Len(data) /\ Len(data) >= HeaderBytes
    BY <1>3, <1>6 DEF DataSound
  <2>2. SubSeq(data, 1, Len(data)) = data /\ Len(data) \in Nat
    BY <1>3, SubSeqFull DEF Bytes
  <2>3. LoadTo(o) = data /\ GetSize(o) = Len(data)
    BY <1>2, <1>3, <1>6, <2>1, <2>2, TypesApart DEF LoadTo, GetSize, BlobOut
  <2>4. LoadFrom(type, data) = data
    BY <1>3, <1>6, <2>1, <2>2, TypesApart DEF LoadFrom, BlobIn
  <2>5. Fits(type, data)
    BY <1>6, <2>1, <2>2 DEF Fits
  <2> QED
    BY <1>2, <1>3, <2>3, <2>4, <2>5
<1>7. CASE type \in DOMAIN StaticSize
  <2>1. Len(data) = StaticSize[type]
    BY <1>3, <1>7 DEF DataSound
  <2>2. SubSeq(data, 1, Len(data)) = data /\ Len(data) \in Nat
    BY <1>3, SubSeqFull DEF Bytes
  <2>3. LoadTo(o) = data /\ GetSize(o) = Len(data)
    BY <1>2, <1>3, <1>7, <2>1, <2>2, TypesApart DEF LoadTo, GetSize, StaticIn
  <2>4. LoadFrom(type, data) = data
    BY <1>3, <1>7, <2>1, <2>2, TypesApart DEF LoadFrom, StaticIn
  <2>5. Fits(type, data)
    BY <1>7, <2>1, <2>2 DEF Fits
  <2> QED
    BY <1>2, <1>3, <2>3, <2>4, <2>5
<1> QED
  BY <1>3, <1>4, <1>5, <1>6, <1>7 DEF Types

\* A notice is the key, a zero byte, the type and what load_to writes.
LEMMA NoticeIs ==
  ASSUME NEW o, Sound(o)
  PROVE  /\ Notice(o) \in Bytes
         /\ Len(Notice(o)) = Len(o.key) + 2 + Len(LoadTo(o))
         /\ Len(Notice(o)) = NoticeSize(o)
         /\ \A i \in 1..Len(o.key) : Notice(o)[i] = o.key[i]
         /\ Notice(o)[Len(o.key) + 1] = 0
         /\ Notice(o)[Len(o.key) + 2] = o.type
         /\ \A i \in 1..Len(LoadTo(o)) : Notice(o)[Len(o.key) + 2 + i] = LoadTo(o)[i]
<1> DEFINE B == 0..Base - 1
<1>1. o.key \in Bytes /\ o.type \in B
  BY DEF Sound
<1>2. PICK k, c, t, d : k = o.key /\ c = CString(o.key) /\ t = o.type /\ d = LoadTo(o)
  OBVIOUS
<1>3. d \in Seq(B) /\ GetSize(o) = Len(d)
  BY <1>2, LoadToIs DEF Bytes
<1>4. /\ c \in Seq(B) /\ Len(c) = Len(k) + 1 /\ k \in Seq(B) /\ t \in B
      /\ \A i \in 1..Len(k) : c[i] = k[i]
      /\ c[Len(k) + 1] = 0
  BY <1>1, <1>2, CStringIs DEF Bytes
<1>5. Notice(o) = (c \o <<t>>) \o d
  BY <1>2 DEF Notice
<1> HIDE DEF B
<1>6. PICK e : e = c \o <<t>>
  OBVIOUS
<1>7. <<t>> \in Seq(B) /\ Len(<<t>>) = 1 /\ <<t>>[1] = t
  BY <1>4
<1>8. /\ e \in Seq(B) /\ Len(e) = Len(k) + 2
      /\ \A i \in 1..Len(k) + 1 : e[i] = c[i]
      /\ e[Len(k) + 2] = t
  BY <1>4, <1>6, <1>7, ConcatProperties
<1>9. PICK n : n = e \o d
  OBVIOUS
<1>10. /\ n \in Seq(B) /\ Len(n) = Len(k) + 2 + Len(d)
       /\ \A i \in 1..Len(k) + 2 : n[i] = e[i]
       /\ \A i \in 1..Len(d) : n[Len(k) + 2 + i] = d[i]
  <2>1. /\ n \in Seq(B) /\ Len(n) = Len(e) + Len(d)
        /\ \A i \in 1..Len(e) + Len(d) : n[i] = IF i <= Len(e) THEN e[i] ELSE d[i - Len(e)]
    BY <1>3, <1>8, <1>9, ConcatProperties
  <2>2. Len(e) \in Nat /\ Len(d) \in Nat /\ Len(k) \in Nat
    BY <1>3, <1>4, <1>8
  <2>3. \A i \in 1..Len(d) : n[Len(e) + i] = d[i]
    <3> SUFFICES ASSUME NEW i \in 1..Len(d) PROVE n[Len(e) + i] = d[i]
      OBVIOUS
    <3>1. PICK j : j = Len(e) + i
      OBVIOUS
    <3>2. j \in 1..Len(e) + Len(d) /\ ~(j <= Len(e)) /\ j - Len(e) = i
      BY <2>2, <3>1
    <3> QED
      BY <2>1, <3>1, <3>2
  <2>4. \A i \in 1..Len(e) : n[i] = e[i]
    BY <2>1, <2>2
  <2> QED
    BY <1>8, <2>1, <2>2, <2>3, <2>4
<1>11. n = Notice(o)
  BY <1>5, <1>6, <1>9
<1>12. Len(k) \in Nat /\ Len(d) \in Nat
  BY <1>3, <1>4
<1>13. n[Len(k) + 1] = 0 /\ n[Len(k) + 2] = t /\ \A i \in 1..Len(k) : n[i] = k[i]
  BY <1>4, <1>8, <1>10, <1>12
<1>14. NoticeSize(o) = Len(k) + 2 + Len(d)
  BY <1>2, <1>3, <1>12 DEF NoticeSize
<1>15. n \in Bytes
  BY <1>10 DEF Bytes, B
<1> QED
  BY <1>2, <1>10, <1>11, <1>13, <1>14, <1>15

\* A notice taken apart as a SET gives the parts it was put together from.
LEMMA NoticeParts ==
  ASSUME NEW o, Sound(o)
  PROVE  /\ KeyOf(Notice(o)) = o.key
         /\ HasDtype(Notice(o))
         /\ TypeOf(Notice(o)) = o.type
         /\ ValueOf(Notice(o)) = LoadTo(o)
<1>1. PICK n, k, d : n = Notice(o) /\ k = o.key /\ d = LoadTo(o)
  OBVIOUS
<1>2. k \in Bytes /\ ~HasNul(k) /\ d \in Bytes
  BY <1>1, LoadToIs DEF Sound
<1>3. Len(k) \in Nat /\ Len(d) \in Nat /\ \A i \in 1..Len(k) : k[i] # 0
  BY <1>2, NulIsSomewhere DEF Bytes
<1>4. /\ n \in Bytes
      /\ Len(n) = Len(k) + 2 + Len(d)
      /\ \A i \in 1..Len(k) : n[i] = k[i]
      /\ n[Len(k) + 1] = 0
      /\ n[Len(k) + 2] = o.type
      /\ \A i \in 1..Len(d) : n[Len(k) + 2 + i] = d[i]
  BY <1>1, NoticeIs
<1>5. StrLen(n) = Len(k)
  <2>1. n \in Seq(0..Base - 1)
    BY <1>4 DEF Bytes
  <2>2. Len(k) \in 0..Len(n) /\ \A i \in 1..Len(k) : n[i] # 0
    BY <1>3, <1>4
  <2> QED
    BY <1>4, <2>1, <2>2, StrLenOnly
<1>6. KeyOf(n) = k
  <2>1. Text(n) \in Bytes /\ Len(Text(n)) = Len(k) /\ \A i \in 1..Len(k) : Text(n)[i] = k[i]
    BY <1>4, <1>5, TextIs
  <2> QED
    BY <1>2, <2>1, SameBytes DEF KeyOf
<1>7. HasDtype(n)
  BY <1>3, <1>4, <1>5 DEF HasDtype
<1>8. TypeOf(n) = o.type
  BY <1>4, <1>5 DEF TypeOf
<1>9. ValueOf(n) = d
  <2>1. /\ ValueOf(n) \in Bytes
        /\ Len(ValueOf(n)) = Len(n) - StrLen(n) - 2
        /\ \A i \in 1..Len(ValueOf(n)) : ValueOf(n)[i] = n[StrLen(n) + 2 + i]
    BY <1>4, <1>7, PartsOf
  <2>2. Len(ValueOf(n)) = Len(d)
    BY <1>3, <1>4, <1>5, <2>1
  <2>3. \A i \in 1..Len(d) : ValueOf(n)[i] = d[i]
    BY <1>4, <1>5, <2>1, <2>2
  <2> QED
    BY <1>2, <2>1, <2>2, <2>3, SameBytes
<1> QED
  BY <1>1, <1>6, <1>7, <1>8, <1>9

\* ... and so stores the same object.
LEMMA NoticeStores ==
  ASSUME NEW o, Sound(o)
  PROVE  Accepts(Notice(o)) /\ ObjectOf(Notice(o)) = o
<1>1. Accepts(Notice(o))
  BY NoticeParts, LoadToIs DEF Accepts, Sound
<1>2. ObjectOf(Notice(o)) = [key |-> o.key, type |-> o.type, data |-> o.data]
  BY NoticeParts, LoadToIs DEF ObjectOf
<1>3. o = [key |-> o.key, type |-> o.type, data |-> o.data]
  BY DEF Sound
<1> QED
  BY <1>1, <1>2, <1>3

------------------------------------------------------------------------------
(* The invariant.                                                           *)

ObjectsInv == \A h \in DOMAIN objects : h = Hash(objects[h].key) /\ Sound(objects[h])

ReplyInv ==
    /\ reply.kind \in {"none", "error", "updated", "deleted"}
    /\ reply.body \in Bytes
    /\ reply.size = Len(reply.body)

\* Kept by every step: sound objects under their hashes, replies of the announced
\* length, and what is known of the last SET.
CodecInv ==
    /\ ObjectsInv
    /\ ReplyInv
    /\ status \in {"serving", "undefined"}
    /\ count \in 0..MaxRequests
    /\ AcceptsWellFormed
    /\ UndefinedOnlyAtEdges

\* The bodies of requests are texts of at least one byte.
LEMMA BodiesAreBytes ==
  /\ \A b \in SetBodies : b \in Bytes
  /\ \A q \in Queries : q \in Bytes /\ Len(q) > 0
<1>1. \A b \in SetBodies : b \in Bytes
  BY CodecAssumption DEF Bytes
<1>2. ASSUME NEW b \in SetBodies
      PROVE  /\ KeyOf(b) \in Bytes /\ (KeyOf(b) # <<>> => Len(KeyOf(b)) > 0)
             /\ CString(KeyOf(b)) \in Bytes /\ Len(CString(KeyOf(b))) > 0
  <2>1. KeyOf(b) \in Bytes
    BY <1>1, PartsOf
  <2>2. Len(KeyOf(b)) \in Nat /\ (KeyOf(b) # <<>> => Len(KeyOf(b)) > 0)
    BY <2>1, EmptySeq DEF Bytes
  <2> QED
    BY <2>1, <2>2, CStringIs
<1> QED
  BY <1>1, <1>2 DEF Queries

\* The invariant holds of the empty database.
LEMMA CodecInit == Init => CodecInv
<1> SUFFICES ASSUME Init PROVE CodecInv
  OBVIOUS
<1>1. ObjectsInv
  BY DEF Init, ObjectsInv
<1>2. ReplyInv
  BY DEF Init, ReplyInv, Reply, Bytes
<1>3. AcceptsWellFormed /\ UndefinedOnlyAtEdges
  BY DEF Init, AcceptsWellFormed, UndefinedOnlyAtEdges
<1>4. status \in {"serving", "undefined"} /\ count \in 0..MaxRequests
  BY CodecAssumption DEF Init
<1> QED
  BY <1>1, <1>2, <1>3, <1>4 DEF CodecInv

\* A notice for a sound object is a reply of the announced length.
LEMMA UpdatedReply ==
  ASSUME NEW o, Sound(o)
  PROVE  /\ Updated(o).kind = "updated"
         /\ Updated(o).body \in Bytes
         /\ Updated(o).size = Len(Updated(o).body)
BY NoticeIs DEF Updated, Reply

\* get_handler answers with such a reply, or with the key.
LEMMA AnswerReply ==
  ASSUME ObjectsInv, NEW query \in Bytes, Len(query) > 0
  PROVE  /\ Answer(query).kind \in {"updated", "deleted"}
         /\ Answer(query).body \in Bytes
         /\ Answer(query).size = Len(Answer(query).body)
<1>1. PICK q : q = [query EXCEPT ![Len(query)] = 0]
  OBVIOUS
<1>2. q \in Bytes
  <2>1. query \in Seq(0..Base - 1) /\ Len(query) \in 1..Len(query)
    BY DEF Bytes
  <2> QED
    BY <1>1, <2>1, SomeBytes, ExceptSeq DEF Bytes
<1>3. PICK key \in Bytes : key = AsCstr(query)
  BY <1>1, <1>2, TextIs DEF AsCstr
<1>4. CASE Hash(key) \in DOMAIN objects
  <2>1. Answer(query) = Updated(objects[Hash(key)])
    BY <1>3, <1>4 DEF Answer
  <2>2. Sound(objects[Hash(key)])
    BY <1>4 DEF ObjectsInv
  <2> QED
    BY <2>1, <2>2, UpdatedReply
<1>5. CASE Hash(key) \notin DOMAIN objects
  <2>1. Answer(query) = Reply("deleted", Len(key) + 1, CString(key))
    BY <1>3, <1>5 DEF Answer
  <2> QED
    BY <2>1, CStringIs DEF Reply
<1> QED
  BY <1>4, <1>5

\* The tree keeps every object under its hash when one is stored.
LEMMA StoredSound ==
  ASSUME ObjectsInv, NEW o, Sound(o), objects' = Stored(o)
  PROVE  ObjectsInv'
<1>1. PICK n : n = Hash(o.key)
  OBVIOUS
<1>2. objects' = [h \in DOMAIN objects \union {n} |-> IF h = n THEN o ELSE objects[h]]
  BY <1>1 DEF Stored
<1>3. ASSUME NEW h \in DOMAIN objects'
      PROVE  h = Hash(objects'[h].key) /\ Sound(objects'[h])
  <2>1. CASE h = n
    BY <1>1, <1>2, <2>1
  <2>2. CASE h # n
    <3>1. h \in DOMAIN objects /\ objects'[h] = objects[h]
      BY <1>2, <2>2
    <3> QED
      BY <3>1 DEF ObjectsInv
  <2> QED
    BY <2>1, <2>2
<1> QED
  BY <1>3 DEF ObjectsInv

\* Every request keeps the invariant.
LEMMA CodecStep == CodecInv /\ [Next]_vars => CodecInv'
<1> SUFFICES ASSUME CodecInv, [Next]_vars PROVE CodecInv'
  OBVIOUS
<1>1. ASSUME NEW body \in SetBodies, HandleSet(body)
      PROVE  CodecInv'
  <2>1. body \in Bytes
    BY BodiesAreBytes
  <2>2. Sound(ObjectOf(body))
    BY <1>1, <2>1, SetSound DEF HandleSet
  <2>3. ObjectsInv'
    BY <1>1, <2>2, StoredSound DEF HandleSet, CodecInv
  <2>4. ReplyInv'
    BY <1>1, <2>2, UpdatedReply DEF HandleSet, ReplyInv
  <2>5. WellFormed(body)
    BY <1>1, <2>1, AcceptsIs DEF HandleSet
  <2>6. AcceptsWellFormed'
    <3>1. reply'.kind = "updated" /\ request'.body = body
      BY <1>1, <2>2, UpdatedReply DEF HandleSet, Receive
    <3> QED
      BY <2>5, <3>1 DEF AcceptsWellFormed
  <2>7. status' = "serving" /\ count' \in 0..MaxRequests
    BY <1>1, CodecAssumption DEF HandleSet, Receive, CodecInv
  <2> QED
    BY <2>3, <2>4, <2>6, <2>7 DEF CodecInv, UndefinedOnlyAtEdges
<1>2. ASSUME NEW body \in SetBodies, HandleBadSet(body)
      PROVE  CodecInv'
  <2>1. body \in Bytes
    BY BodiesAreBytes
  <2>2. ObjectsInv'
    BY <1>2 DEF HandleBadSet, CodecInv, ObjectsInv
  <2>3. ReplyInv'
    BY <1>2 DEF HandleBadSet, ReplyInv, Reply, Bytes
  <2>4. ~WellFormed(body)
    BY <1>2, <2>1, AcceptsIs DEF HandleBadSet
  <2>5. AcceptsWellFormed'
    <3>1. reply'.kind = "error" /\ request'.body = body
      BY <1>2 DEF HandleBadSet, Receive, Reply
    <3> QED
      BY <2>4, <3>1 DEF AcceptsWellFormed
  <2>6. status' = "serving" /\ count' \in 0..MaxRequests
    BY <1>2, CodecAssumption DEF HandleBadSet, Receive, CodecInv
  <2> QED
    BY <2>2, <2>3, <2>5, <2>6 DEF CodecInv, UndefinedOnlyAtEdges
<1>3. ASSUME NEW body \in SetBodies, HandleSetUndefined(body)
      PROVE  CodecInv'
  <2>1. body \in Bytes
    BY BodiesAreBytes
  <2>2. Edge(body) /\ request'.body = body
    BY <1>3, <2>1, EdgeIs DEF HandleSetUndefined, Receive
  <2>3. ObjectsInv' /\ ReplyInv'
    BY <1>3 DEF HandleSetUndefined, CodecInv, ObjectsInv, ReplyInv
  <2>4. status' = "undefined" /\ count' \in 0..MaxRequests
    BY <1>3, CodecAssumption DEF HandleSetUndefined, Receive, CodecInv
  <2>5. AcceptsWellFormed'
    BY <2>4 DEF AcceptsWellFormed
  <2>6. UndefinedOnlyAtEdges'
    BY <2>2 DEF UndefinedOnlyAtEdges
  <2> QED
    BY <2>3, <2>4, <2>5, <2>6 DEF CodecInv
<1>4. ASSUME NEW query \in Queries, HandleGet(query)
      PROVE  CodecInv'
  <2>1. query \in Bytes /\ Len(query) > 0
    BY BodiesAreBytes
  <2>2. ObjectsInv'
    BY <1>4 DEF HandleGet, CodecInv, ObjectsInv
  <2>3. ReplyInv'
    BY <1>4, <2>1, AnswerReply DEF HandleGet, CodecInv, ReplyInv
  <2>4. status' = "serving" /\ count' \in 0..MaxRequests /\ request'.op = "get"
    BY <1>4, CodecAssumption DEF HandleGet, Receive, CodecInv
  <2> QED
    BY <2>2, <2>3, <2>4 DEF CodecInv, AcceptsWellFormed, UndefinedOnlyAtEdges
<1>5. CASE UNCHANGED vars
  BY <1>5 DEF vars, CodecInv, ObjectsInv, ReplyInv, AcceptsWellFormed, UndefinedOnlyAtEdges
<1> QED
  BY <1>1, <1>2, <1>3, <1>4, <1>5 DEF Next

\* CodecInv holds throughout.
THEOREM CodecInvariant == Spec => []CodecInv
BY CodecInit, CodecStep, PTL DEF Spec

------------------------------------------------------------------------------
(* The theorems.                                                            *)

\* The parts of CodecInv give the properties.
LEMMA CodecImplies ==
  CodecInv => TypeOK /\ AcceptsWellFormed /\ UndefinedOnlyAtEdges /\ NoticeFilled /\ NoticeStoresSame
<1> SUFFICES ASSUME CodecInv
             PROVE  TypeOK /\ AcceptsWellFormed /\ UndefinedOnlyAtEdges /\ NoticeFilled
                       /\ NoticeStoresSame
  OBVIOUS
<1>1. \A h \in DOMAIN objects : Sound(objects[h])
  BY DEF CodecInv, ObjectsInv
<1>2. NoticeFilled
  BY <1>1, NoticeIs DEF CodecInv, ReplyInv, NoticeFilled
<1>3. NoticeStoresSame
  BY <1>1, NoticeStores DEF NoticeStoresSame
<1>4. TypeOK
  <2>1. \A h \in DOMAIN objects :
           /\ h = Hash(objects[h].key) /\ ~HasNul(objects[h].key)
           /\ objects[h].type \in Types /\ objects[h].data \in Bytes
    BY DEF CodecInv, ObjectsInv, Sound
  <2>2. reply.size \in Nat
    BY DEF CodecInv, ReplyInv, Bytes
  <2> QED
    BY <2>1, <2>2 DEF TypeOK, CodecInv, ReplyInv
<1> QED
  BY <1>2, <1>3, <1>4 DEF CodecInv

\* Stored objects are typed and found under the hash of their key, and replies are
\* made of bytes: what set_value and get_handler keep, for every SET.
THEOREM TypeCorrect == Spec => []TypeOK
BY CodecInvariant, CodecImplies, PTL

\* set_handler accepts exactly the well-formed SETs, whatever the bytes of the
\* others: its checks for a type, the registry's and those of load_from are the
\* grammar.
THEOREM AcceptsExactly == Spec => []AcceptsWellFormed
BY CodecInvariant, CodecImplies, PTL

\* The only SETs that make the server leave its memory are blobs whose length
\* wraps uint32_t and strings without a byte.
THEOREM OnlyEdgesUndefined == Spec => []UndefinedOnlyAtEdges
BY CodecInvariant, CodecImplies, PTL

\* get_size announces what load_to writes, for every object that can be stored,
\* and every reply is as long as its preamble says.
THEOREM NoticesFilled == Spec => []NoticeFilled
BY CodecInvariant, CodecImplies, PTL

\* A notice sent back as a SET is accepted and stores the object it tells of: for
\* every type, load_from undoes load_to.
THEOREM NoticesStoreSame == Spec => []NoticeStoresSame
BY CodecInvariant, CodecImplies, PTL

------------------------------------------------------------------------------
(* The hash of a key.                                                       *)

\* A step of _string_hash, and of the polynomial that is wrapped once.
HashStep(x, c) == (x * 32 + x + Promoted(c)) % HashModulus
PolyStep(x, c) == x * 33 + Promoted(c)

\* Characters are promoted to numbers, and the steps give numbers.
LEMMA StepTypes ==
  ASSUME NEW key \in Bytes, NEW i \in 1..Len(key), NEW x \in Int
  PROVE  /\ Promoted(key[i]) \in Int
         /\ HashStep(x, key[i]) \in Int
         /\ PolyStep(x, key[i]) \in Int
<1>1. key[i] \in 0..Base - 1
  BY ElementOfSeq DEF Bytes
<1>2. key[i] \in Int
  BY <1>1, CodecAssumption
<1>3. PICK p \in Int : p = Promoted(key[i])
  BY <1>2 DEF Promoted
<1>4. HashModulus \in Nat \ {0}
  BY CodecAssumption
<1>5. PICK y \in Int : y = x * 32 + x + p
  BY <1>3
<1>6. y % HashModulus \in Int
  BY <1>4
<1> QED
  BY <1>3, <1>5, <1>6 DEF HashStep, PolyStep

\* Hash is computed step by step, by numbers.
LEMMA HashIs ==
  ASSUME NEW key \in Bytes
  PROVE  \E h \in [0..Len(key) -> Int] :
            /\ h[0] = 5381
            /\ \A i \in 1..Len(key) : h[i] = HashStep(h[i - 1], key[i])
            /\ Hash(key) = h[Len(key)]
<1> DEFINE n == Len(key)
           Solves(h) == h = [i \in 0..n |-> IF i = 0 THEN 5381 ELSE HashStep(h[i - 1], key[i])]
           c == CHOOSE h : Solves(h)
<1>1. n \in Nat
  BY DEF Bytes
<1>2. \E h : Solves(h)
  <2> DEFINE G == [i \in 1..n |-> [x \in Int |-> HashStep(x, key[i])]]
  <2>1. G \in [1..n -> [Int -> Int]]
    BY StepTypes
  <2>2. \A i \in 1..n : \A x \in Int : G[i][x] = HashStep(x, key[i])
    OBVIOUS
  <2> HIDE DEF G, n
  <2>a. PICK a \in Int : a = 5381
    OBVIOUS
  <2>w. PICK w \in [0..n -> Int] : Recurses(w, n, a, G)
    BY <1>1, <2>1, RecursionExists
  <2>3. w[0] = 5381 /\ \A i \in 1..n : w[i] = G[i][w[i - 1]]
    BY <2>a, <2>w DEF Recurses
  <2>4. \A i \in 1..n : w[i] = HashStep(w[i - 1], key[i])
    <3>1. \A i \in 1..n : i - 1 \in 0..n
      BY <1>1
    <3>2. \A i \in 1..n : w[i - 1] \in Int
      BY <3>1
    <3> QED
      BY <2>2, <2>3, <3>2
  <2>5. \A i \in 0..n : w[i] = IF i = 0 THEN 5381 ELSE HashStep(w[i - 1], key[i])
    BY <1>1, <2>3, <2>4
  <2>6. w = [i \in 0..n |-> w[i]]
    OBVIOUS
  <2>7. Solves(w)
    BY <2>5, <2>6
  <2> HIDE DEF Solves
  <2> QED
    BY <2>7
<1>3. Solves(c)
  <2> HIDE DEF Solves
  <2> QED
    BY <1>2
<1>4. Hash(key) = c[n]
  BY DEF Hash, HashStep
<1> HIDE DEF c
<1>5. c[0] = 5381 /\ DOMAIN c = 0..n /\ \A i \in 1..n : c[i] = HashStep(c[i - 1], key[i])
  BY <1>1, <1>3
<1>6. \A i \in 0..n : c[i] \in Int
  <2> DEFINE T == {i \in 0..n : c[i] \in Int}
  <2>1. 0 \in T
    BY <1>1, <1>5
  <2>2. \A i \in 1..n : i - 1 \in T => i \in T
    BY <1>1, <1>5, StepTypes
  <2>3. \A i \in 0..n : i \in T
    <3> HIDE DEF T, n
    <3> QED
      BY <1>1, <2>1, <2>2, UpTo
  <2> QED
    BY <2>3
<1>7. c \in [0..n -> Int]
  BY <1>3, <1>6
<1> QED
  BY <1>4, <1>5, <1>7

\* So is the polynomial.
LEMMA PolyIs ==
  ASSUME NEW key \in Bytes
  PROVE  \E h \in [0..Len(key) -> Int] :
            /\ h[0] = 5381
            /\ \A i \in 1..Len(key) : h[i] = PolyStep(h[i - 1], key[i])
            /\ Poly(key) = h[Len(key)] % HashModulus
<1> DEFINE n == Len(key)
           Solves(h) == h = [i \in 0..n |-> IF i = 0 THEN 5381 ELSE PolyStep(h[i - 1], key[i])]
           c == CHOOSE h : Solves(h)
<1>1. n \in Nat
  BY DEF Bytes
<1>2. \E h : Solves(h)
  <2> DEFINE G == [i \in 1..n |-> [x \in Int |-> PolyStep(x, key[i])]]
  <2>1. G \in [1..n -> [Int -> Int]]
    BY StepTypes
  <2>2. \A i \in 1..n : \A x \in Int : G[i][x] = PolyStep(x, key[i])
    OBVIOUS
  <2> HIDE DEF G, n
  <2>a. PICK a \in Int : a = 5381
    OBVIOUS
  <2>w. PICK w \in [0..n -> Int] : Recurses(w, n, a, G)
    BY <1>1, <2>1, RecursionExists
  <2>3. w[0] = 5381 /\ \A i \in 1..n : w[i] = G[i][w[i - 1]]
    BY <2>a, <2>w DEF Recurses
  <2>4. \A i \in 1..n : w[i] = PolyStep(w[i - 1], key[i])
    <3>1. \A i \in 1..n : i - 1 \in 0..n
      BY <1>1
    <3>2. \A i \in 1..n : w[i - 1] \in Int
      BY <3>1
    <3> QED
      BY <2>2, <2>3, <3>2
  <2>5. \A i \in 0..n : w[i] = IF i = 0 THEN 5381 ELSE PolyStep(w[i - 1], key[i])
    BY <1>1, <2>3, <2>4
  <2>6. w = [i \in 0..n |-> w[i]]
    OBVIOUS
  <2>7. Solves(w)
    BY <2>5, <2>6
  <2> HIDE DEF Solves
  <2> QED
    BY <2>7
<1>3. Solves(c)
  <2> HIDE DEF Solves
  <2> QED
    BY <1>2
<1>4. Poly(key) = c[n] % HashModulus
  BY DEF Poly, PolyStep
<1> HIDE DEF c
<1>5. c[0] = 5381 /\ DOMAIN c = 0..n /\ \A i \in 1..n : c[i] = PolyStep(c[i - 1], key[i])
  BY <1>1, <1>3
<1>6. \A i \in 0..n : c[i] \in Int
  <2> DEFINE T == {i \in 0..n : c[i] \in Int}
  <2>1. 0 \in T
    BY <1>1, <1>5
  <2>2. \A i \in 1..n : i - 1 \in T => i \in T
    BY <1>1, <1>5, StepTypes
  <2>3. \A i \in 0..n : i \in T
    <3> HIDE DEF T, n
    <3> QED
      BY <1>1, <2>1, <2>2, UpTo
  <2> QED
    BY <2>3
<1>7. c \in [0..n -> Int]
  BY <1>3, <1>6
<1> QED
  BY <1>4, <1>5, <1>7

\* Quotient and remainder of a division.
LEMMA Division ==
  ASSUME NEW x \in Int, NEW m \in Nat \ {0}
  PROVE  \E d \in Int, r \in 0..m - 1 : x % m = r /\ x = d * m + r
<1>1. x \div m \in Int /\ x % m \in 0..m - 1
  OBVIOUS
<1>2. x % m = x - m * (x \div m)
  <2>1. m \in Int /\ m > 0
    OBVIOUS
  <2> QED
    BY <2>1
<1>3. PICK d \in Int, r \in 0..m - 1 : d = x \div m /\ r = x % m
  BY <1>1
<1>4. PICK p \in Int : p = m * d
  OBVIOUS
<1>5. x = p + r
  BY <1>2, <1>3, <1>4
<1>6. d * m = p
  BY <1>4
<1>7. x = d * m + r
  BY <1>5, <1>6
<1> QED
  BY <1>3, <1>7

\* The remainder is the only one.
LEMMA RemainderOnly ==
  ASSUME NEW m \in Nat \ {0}, NEW a \in Int, NEW b \in Int,
         NEW r \in 0..m - 1, NEW s \in 0..m - 1, a * m + r = b * m + s
  PROVE  r = s
<1>1. ASSUME NEW k \in Int, NEW l \in Int, k >= l + 1
      PROVE  k * m >= l * m + m
  <2>1. PICK e \in Nat : k = l + 1 + e
    <3>1. k - l - 1 \in Nat /\ k = l + 1 + (k - l - 1)
      BY <1>1
    <3> QED
      BY <3>1
  <2>2. k * m = l * m + m + e * m
    BY <2>1
  <2>3. e * m >= 0
    OBVIOUS
  <2>4. e * m \in Int /\ l * m \in Int
    OBVIOUS
  <2> QED
    BY <2>2, <2>3, <2>4
<1>2. PICK p \in Int, q \in Int : p = a * m /\ q = b * m
  OBVIOUS
<1>3. ~(a >= b + 1)
  <2> SUFFICES ASSUME a >= b + 1 PROVE FALSE
    OBVIOUS
  <2>1. p >= q + m
    BY <1>1, <1>2
  <2> QED
    BY <1>2, <2>1
<1>4. ~(b >= a + 1)
  <2> SUFFICES ASSUME b >= a + 1 PROVE FALSE
    OBVIOUS
  <2>1. q >= p + m
    BY <1>1, <1>2
  <2> QED
    BY <1>2, <2>1
<1>5. a = b
  BY <1>3, <1>4
<1> QED
  BY <1>2, <1>5

\* Numbers that differ by a multiple of m have one remainder.
LEMMA SameRemainder ==
  ASSUME NEW m \in Nat \ {0}, NEW q \in Int, NEW r \in Int, NEW x \in Int, x = q * m + r
  PROVE  x % m = r % m
<1>1. PICK d \in Int, s \in 0..m - 1 : r % m = s /\ r = d * m + s
  BY Division
<1>2. PICK e \in Int, t \in 0..m - 1 : x % m = t /\ x = e * m + t
  BY Division
<1>4. (q + d) * m = q * m + d * m
  OBVIOUS
<1>5. PICK a \in Int, b \in Int, c \in Int : a = q * m /\ b = d * m /\ c = (q + d) * m
  OBVIOUS
<1>6. (q + d) * m + s = e * m + t
  <2>1. r = b + s
    BY <1>1, <1>5
  <2>2. x = a + r
    BY <1>5
  <2>3. PICK f \in Int : f = e * m
    OBVIOUS
  <2>4. x = f + t
    BY <1>2, <2>3
  <2>5. c = a + b
    BY <1>4, <1>5
  <2>6. c + s = f + t
    BY <2>1, <2>2, <2>4, <2>5
  <2> QED
    BY <1>5, <2>3, <2>6
<1>7. q + d \in Int
  OBVIOUS
<1>8. s = t
  BY <1>6, <1>7, RemainderOnly
<1> QED
  BY <1>1, <1>2, <1>8

\* Wrapping at every character or once gives the same: keys with one hash have one
\* polynomial.
LEMMA HashGivesPoly ==
  ASSUME NEW key \in Bytes
  PROVE  Poly(key) = Hash(key) % HashModulus
<1> DEFINE n == Len(key)
           m == HashModulus
<1>1. n \in Nat /\ m \in Nat \ {0}
  BY CodecAssumption DEF Bytes
<1>2. PICK h \in [0..n -> Int] :
         h[0] = 5381 /\ (\A i \in 1..n : h[i] = HashStep(h[i - 1], key[i])) /\ Hash(key) = h[n]
  BY HashIs
<1>3. PICK w \in [0..n -> Int] :
         /\ w[0] = 5381 /\ (\A i \in 1..n : w[i] = PolyStep(w[i - 1], key[i]))
         /\ Poly(key) = w[n] % HashModulus
  BY PolyIs
<1> DEFINE T == {i \in 0..n : \E q \in Int : w[i] = q * m + h[i]}
<1>4. 0 \in T
  <2>1. w[0] = 0 * m + h[0]
    BY <1>1, <1>2, <1>3
  <2> QED
    BY <1>1, <2>1
<1>5. ASSUME NEW i \in 1..n, i - 1 \in T
      PROVE  i \in T
  <2>1. PICK q \in Int : w[i - 1] = q * m + h[i - 1]
    BY <1>5
  <2>2. PICK x \in Int, y \in Int : x = h[i - 1] /\ y = w[i - 1]
    <3>1. i - 1 \in 0..n
      BY <1>1
    <3>2. h[i - 1] \in Int /\ w[i - 1] \in Int
      BY <3>1
    <3> QED
      BY <3>2
  <2>3. PICK p \in Int : p = Promoted(key[i])
    BY <2>2, StepTypes
  <2>4. h[i] = (x * 32 + x + p) % m
    BY <1>2, <2>2, <2>3 DEF HashStep
  <2>5. w[i] = y * 33 + p
    BY <1>3, <2>2, <2>3 DEF PolyStep
  <2> HIDE DEF m
  <2>6. PICK z \in Int : z = x * 32 + x + p
    OBVIOUS
  <2>7. PICK d \in Int, s \in 0..m - 1 : z % m = s /\ z = d * m + s
    BY <1>1, Division
  <2>8. PICK a \in Int, b \in Int : a = q * m /\ b = d * m
    BY <1>1
  <2>9. s \in Int
    BY <1>1
  <2>10. (33 * q + d) * m = 33 * (q * m) + d * m
    BY <1>1
  <2>11. w[i] = 33 * a + b + s
    <3>1. y = a + x
      <4>1. y = q * m + x
        BY <2>1, <2>2
      <4> QED
        BY <2>8, <4>1
    <3>2. z = b + s
      BY <2>7, <2>8, <2>9
    <3> QED
      BY <2>5, <2>6, <3>1, <3>2
  <2>12. w[i] = (33 * q + d) * m + h[i]
    <3>1. h[i] = s
      BY <2>4, <2>6, <2>7
    <3>2. (33 * q + d) * m = 33 * a + b
      BY <2>8, <2>10
    <3> QED
      BY <2>9, <2>11, <3>1, <3>2
  <2>13. PICK k \in Int : k = 33 * q + d
    OBVIOUS
  <2>14. w[i] = k * m + h[i]
    BY <2>12, <2>13
  <2>15. i \in 0..n
    BY <1>1
  <2> QED
    BY <2>14, <2>15
<1>6. n \in T
  <2> HIDE DEF T
  <2>1. \A i \in 1..n : i - 1 \in T => i \in T
    BY <1>5
  <2>2. \A i \in 0..n : i \in T
    <3> HIDE DEF n
    <3> QED
      BY <1>1, <1>4, <2>1, UpTo
  <2> QED
    BY <1>1, <2>2
<1>7. PICK q \in Int : w[n] = q * m + h[n]
  BY <1>6
<1>8. w[n] \in Int /\ h[n] \in Int
  BY <1>1, <1>2, <1>3
<1>9. w[n] % m = h[n] % m
  <2> HIDE DEF m
  <2> QED
    BY <1>1, <1>7, <1>8, SameRemainder, ZenonT(60)
<1> QED
  BY <1>2, <1>3, <1>9

------------------------------------------------------------------------------
(* What values mean.                                                        *)

NumberStep(x, c) == x * 10 + (c - Zero)

\* The number that decimal digits write.
Number(t) ==
    LET number[i \in 0..Len(t)] == IF i = 0 THEN 0 ELSE number[i - 1] * 10 + (t[i] - Zero)
    IN  number[Len(t)]

\* Meaning, by cases.
LEMMA MeaningIs ==
  ASSUME NEW type \in Types, NEW v
  PROVE  /\ type = DTYPE_NONE => Meaning(type, v) = <<>>
         /\ type = DTYPE_STRING => Meaning(type, v) = TextMeant(v)
         /\ type = DTYPE_BIGINT => Meaning(type, v) = <<Number(TextMeant(v))>>
         /\ type = DTYPE_BLOB =>
               Meaning(type, v) = SubSeq(v, HeaderBytes + 1, HeaderBytes + BlobLength(v))
         /\ type \in DOMAIN StaticSize => Meaning(type, v) = SubSeq(v, 1, StaticSize[type])
<1>1. CASE type = DTYPE_NONE
  BY <1>1, TypesApart DEF Meaning
<1>2. CASE type = DTYPE_STRING
  BY <1>2, TypesApart DEF Meaning, TextMeant
<1>3. CASE type = DTYPE_BIGINT
  BY <1>3, TypesApart DEF Meaning, TextMeant, Number
<1>4. CASE type = DTYPE_BLOB
  BY <1>4, TypesApart DEF Meaning
<1>5. CASE type \in DOMAIN StaticSize
  BY <1>5, TypesApart DEF Meaning
<1> QED
  BY <1>1, <1>2, <1>3, <1>4, <1>5 DEF Types

\* The number is computed digit by digit.
LEMMA NumberIs ==
  ASSUME NEW t \in Bytes
  PROVE  \E f \in [0..Len(t) -> Int] :
            /\ f[0] = 0
            /\ \A i \in 1..Len(t) : f[i] = NumberStep(f[i - 1], t[i])
            /\ Number(t) = f[Len(t)]
<1> DEFINE n == Len(t)
           Solves(f) == f = [i \in 0..n |-> IF i = 0 THEN 0 ELSE NumberStep(f[i - 1], t[i])]
           c == CHOOSE f : Solves(f)
<1>1. n \in Nat
  BY DEF Bytes
<1>0. ASSUME NEW i \in 1..n, NEW x \in Int PROVE NumberStep(x, t[i]) \in Int
  <2>1. t[i] \in 0..Base - 1
    BY ElementOfSeq DEF Bytes
  <2>2. t[i] \in Int
    BY <2>1, CodecAssumption
  <2> QED
    BY <2>2 DEF NumberStep, Zero
<1>2. \E f : Solves(f)
  <2> DEFINE G == [i \in 1..n |-> [x \in Int |-> NumberStep(x, t[i])]]
  <2>1. G \in [1..n -> [Int -> Int]]
    BY <1>0
  <2>2. \A i \in 1..n : \A x \in Int : G[i][x] = NumberStep(x, t[i])
    OBVIOUS
  <2> HIDE DEF G, n
  <2>a. PICK a \in Int : a = 0
    OBVIOUS
  <2>w. PICK w \in [0..n -> Int] : Recurses(w, n, a, G)
    BY <1>1, <2>1, RecursionExists
  <2>3. w[0] = 0 /\ \A i \in 1..n : w[i] = G[i][w[i - 1]]
    BY <2>a, <2>w DEF Recurses
  <2>4. \A i \in 1..n : w[i] = NumberStep(w[i - 1], t[i])
    <3>1. \A i \in 1..n : i - 1 \in 0..n
      BY <1>1
    <3>2. \A i \in 1..n : w[i - 1] \in Int
      BY <3>1
    <3> QED
      BY <2>2, <2>3, <3>2
  <2>5. \A i \in 0..n : w[i] = IF i = 0 THEN 0 ELSE NumberStep(w[i - 1], t[i])
    BY <1>1, <2>3, <2>4
  <2>6. w = [i \in 0..n |-> w[i]]
    OBVIOUS
  <2>7. Solves(w)
    BY <2>5, <2>6
  <2> HIDE DEF Solves
  <2> QED
    BY <2>7
<1>3. Solves(c)
  <2> HIDE DEF Solves
  <2> QED
    BY <1>2
<1>4. Number(t) = c[n]
  BY DEF Number, NumberStep
<1> HIDE DEF c
<1>5. c[0] = 0 /\ DOMAIN c = 0..n /\ \A i \in 1..n : c[i] = NumberStep(c[i - 1], t[i])
  BY <1>1, <1>3
<1>6. \A i \in 0..n : c[i] \in Int
  <2> DEFINE T == {i \in 0..n : c[i] \in Int}
  <2>1. 0 \in T
    BY <1>1, <1>5
  <2>2. \A i \in 1..n : i - 1 \in T => i \in T
    BY <1>0, <1>1, <1>5
  <2>3. \A i \in 0..n : i \in T
    <3> HIDE DEF T, n
    <3> QED
      BY <1>1, <2>1, <2>2, UpTo
  <2> QED
    BY <2>3
<1>7. c \in [0..n -> Int]
  BY <1>3, <1>6
<1> QED
  BY <1>4, <1>5, <1>7

\* Taking the leading zeros away does not change a number.
LEMMA NumberKept ==
  ASSUME NEW t \in Bytes, ~HasNul(t)
  PROVE  Number(BigintText(t)) = Number(t)
<1>1. t \in Seq(0..Base - 1) /\ Len(t) \in Nat
  BY DEF Bytes
<1>2. PICK z \in 0..Len(t) :
            /\ \A i \in 1..z : t[i] = Zero
            /\ z < Len(t) => t[z + 1] # Zero
            /\ BigintText(t) = IF z = Len(t) THEN <<Zero>> ELSE SubSeq(t, z + 1, Len(t))
  BY <1>1, LeadingZeros
<1>3. PICK r \in Bytes : r = BigintText(t)
  BY BigintTextIs
<1>4. PICK n \in Nat, k \in Nat : n = Len(t) /\ k = Len(r)
  BY <1>1 DEF Bytes
<1>5. PICK f \in [0..n -> Int] :
         f[0] = 0 /\ (\A i \in 1..n : f[i] = NumberStep(f[i - 1], t[i])) /\ Number(t) = f[n]
  BY <1>4, NumberIs
<1>6. PICK g \in [0..k -> Int] :
         g[0] = 0 /\ (\A i \in 1..k : g[i] = NumberStep(g[i - 1], r[i])) /\ Number(r) = g[k]
  BY <1>4, NumberIs
<1>7. NumberStep(0, Zero) = 0
  BY DEF NumberStep, Zero
<1>8. f[z] = 0
  <2> DEFINE T == {i \in 0..z : f[i] = 0}
  <2>1. 0 \in T
    BY <1>1, <1>5
  <2>2. \A i \in 1..z : i - 1 \in T => i \in T
    <3> SUFFICES ASSUME NEW i \in 1..z, f[i - 1] = 0 PROVE f[i] = 0
      OBVIOUS
    <3>1. i \in 1..n /\ t[i] = Zero
      BY <1>1, <1>2, <1>4
    <3> QED
      BY <1>5, <1>7, <3>1
  <2> HIDE DEF T
  <2>3. z \in Nat
    BY <1>1
  <2>4. \A i \in 0..z : i \in T
    BY <2>1, <2>2, <2>3, UpTo
  <2> QED
    BY <2>3, <2>4 DEF T
<1>9. CASE z = Len(t)
  <2>1. r = <<Zero>>
    BY <1>2, <1>3, <1>9
  <2>2. k = 1 /\ r[1] = Zero
    BY <1>4, <2>1
  <2>3. g[1] = NumberStep(g[0], r[1])
    BY <1>6, <2>2
  <2>4. Number(r) = 0
    BY <1>6, <1>7, <2>2, <2>3
  <2> QED
    BY <1>3, <1>4, <1>5, <1>8, <1>9, <2>4
<1>10. CASE z # Len(t)
  <2>1. r = SubSeq(t, z + 1, Len(t))
    BY <1>2, <1>3, <1>10
  <2>2. k = n - z /\ \A i \in 1..k : r[i] = t[z + i]
    BY <1>1, <1>4, <2>1, LastOf
  <2> DEFINE T == {i \in 0..k : f[z + i] = g[i]}
  <2>3. 0 \in T
    <3>1. z + 0 = z
      BY <1>1
    <3> QED
      BY <1>4, <1>6, <1>8, <3>1
  <2>4. \A i \in 1..k : i - 1 \in T => i \in T
    <3> SUFFICES ASSUME NEW i \in 1..k, f[z + (i - 1)] = g[i - 1] PROVE f[z + i] = g[i]
      OBVIOUS
    <3>1. PICK j : j = z + i
      OBVIOUS
    <3>2. j \in 1..n /\ j - 1 = z + (i - 1)
      BY <1>1, <1>4, <2>2, <3>1
    <3>3. f[j] = NumberStep(f[j - 1], t[j])
      BY <1>5, <3>2
    <3>4. g[i] = NumberStep(g[i - 1], r[i]) /\ r[i] = t[j]
      BY <1>6, <2>2, <3>1
    <3> QED
      BY <3>1, <3>2, <3>3, <3>4
  <2> HIDE DEF T
  <2>5. \A i \in 0..k : i \in T
    BY <1>4, <2>3, <2>4, UpTo
  <2>6. f[z + k] = g[k]
    BY <1>4, <2>5 DEF T
  <2>7. z + k = n
    BY <1>1, <1>4, <2>2
  <2> QED
    BY <1>3, <1>5, <1>6, <2>6, <2>7
<1> QED
  BY <1>9, <1>10

\* What stands behind the first b of the first n members.
LEMMA FirstBehind ==
  ASSUME NEW S, NEW s \in Seq(S), NEW n \in 0..Len(s), NEW b \in 0..n
  PROVE  SubSeq(SubSeq(s, 1, n), b + 1, n) = SubSeq(s, b + 1, n)
<1>1. PICK d : d = SubSeq(s, 1, n)
  OBVIOUS
<1>2. d \in Seq(S) /\ Len(d) = n /\ \A i \in 1..n : d[i] = s[i]
  BY <1>1, FirstOf
<1>3. Len(s) \in Nat
  OBVIOUS
<1>4. PICK e, f : e = SubSeq(d, b + 1, n) /\ f = SubSeq(s, b + 1, n)
  OBVIOUS
<1>5. e \in Seq(S) /\ Len(e) = n - b /\ \A i \in 1..n - b : e[i] = d[b + i]
  BY <1>2, <1>3, <1>4
<1>6. f \in Seq(S) /\ Len(f) = n - b /\ \A i \in 1..n - b : f[i] = s[b + i]
  BY <1>3, <1>4
<1>7. \A i \in 1..n - b : e[i] = f[i]
  <2>1. \A i \in 1..n - b : b + i \in 1..n
    BY <1>3
  <2>2. \A i \in 1..n - b : d[b + i] = s[b + i]
    BY <1>2, <2>1
  <2> QED
    BY <1>5, <1>6, <2>2
<1>8. e = f
  BY <1>5, <1>6, <1>7, SeqEqual
<1> QED
  BY <1>1, <1>4, <1>8

\* load_from keeps what a value means.
LEMMA MeaningKept ==
  ASSUME NEW type \in Types, NEW v \in Bytes, Fits(type, v), ~Overruns(type, v),
         type = DTYPE_STRING => HasNul(LoadFrom(type, v))
  PROVE  Meaning(type, LoadFrom(type, v)) = Meaning(type, v)
<1>1. CASE type = DTYPE_NONE
  BY <1>1, MeaningIs
<1>2. CASE type \in {DTYPE_STRING, DTYPE_BIGINT}
  <2>1. v # <<>>
    <3>1. CASE type = DTYPE_STRING
      <4>1. LoadFrom(type, v) = Terminated(v)
        BY <3>1, TypesApart DEF LoadFrom
      <4> QED
        BY <3>1, <4>1, TerminatedIs
    <3>2. CASE type = DTYPE_BIGINT
      <4>1. Len(v) >= 2
        BY <3>2, TypesApart DEF Fits
      <4> QED
        BY <4>1
    <3> QED
      BY <1>2, <3>1, <3>2
  <2>2. PICK t \in Bytes : t = TextMeant(v) /\ ~HasNul(t) /\ Terminated(v) = CString(t)
    BY <2>1, TerminatedIs
  <2>3. \A u \in Bytes : ~HasNul(u) => TextMeant(CString(u)) = u /\ Text(CString(u)) = u
    BY StrLenOfCString DEF TextMeant
  <2>4. CASE type = DTYPE_STRING
    <3>1. LoadFrom(type, v) = CString(t)
      BY <2>2, <2>4, TypesApart DEF LoadFrom
    <3> QED
      BY <2>2, <2>3, <2>4, <3>1, MeaningIs
  <2>5. CASE type = DTYPE_BIGINT
    <3>1. PICK r \in Bytes : r = BigintText(t) /\ ~HasNul(r)
      BY <2>2, BigintTextIs
    <3>2. LoadFrom(type, v) = CString(r)
      BY <2>2, <2>3, <2>5, <3>1, TypesApart DEF LoadFrom, BigintIn
    <3>3. Number(r) = Number(t)
      BY <2>2, <3>1, NumberKept
    <3> QED
      BY <2>2, <2>3, <2>5, <3>1, <3>2, <3>3, MeaningIs
  <2> QED
    BY <1>2, <2>4, <2>5
<1>3. CASE type = DTYPE_BLOB
  <2>1. LoadFrom(type, v) = SubSeq(v, 1, BlobSize(v))
    BY <1>3, TypesApart DEF LoadFrom, BlobIn
  <2>2. Len(v) >= HeaderBytes /\ Len(v) >= BlobSize(v)
    BY <1>3, TypesApart DEF Fits
  <2>3. BlobCopies(v) = BlobSize(v)
    BY <1>3, <2>2, BlobFits
  <2>4. BlobLength(v) \in Nat /\ BlobSize(v) \in Nat /\ BlobCopies(v) = BlobLength(v) + HeaderBytes
    BY <2>2, BlobNumbers
  <2>5. HeaderBytes \in Nat /\ v \in Seq(0..Base - 1) /\ Len(v) \in Nat
    BY CodecAssumption DEF Bytes
  <2>6. PICK n \in HeaderBytes..Len(v) : n = BlobSize(v)
    BY <2>2, <2>3, <2>4, <2>5
  <2>7. PICK d : d = SubSeq(v, 1, n)
    OBVIOUS
  <2>8. BlobLength(d) = BlobLength(v)
    BY <2>7, BlobKept
  <2>10. PICK b \in Nat, l \in Nat : b = HeaderBytes /\ l = BlobLength(v)
    BY <2>4, <2>5
  <2>9. b + l = n
    <3>1. n = l + b
      BY <2>3, <2>4, <2>6, <2>10
    <3> QED
      BY <3>1
  <2>11. SubSeq(d, b + 1, n) = SubSeq(v, b + 1, n)
    <3>1. b \in 0..n /\ n \in 0..Len(v)
      BY <2>5, <2>10
    <3> QED
      BY <2>5, <2>7, <3>1, FirstBehind
  <2>12. Meaning(type, v) = SubSeq(v, b + 1, n)
    BY <1>3, <2>9, <2>10, MeaningIs
  <2>13. Meaning(type, d) = SubSeq(d, b + 1, n)
    BY <1>3, <2>8, <2>9, <2>10, MeaningIs
  <2>14. LoadFrom(type, v) = d
    BY <2>1, <2>6, <2>7
  <2> QED
    BY <2>11, <2>12, <2>13, <2>14
<1>4. CASE type \in DOMAIN StaticSize
  <2>1. LoadFrom(type, v) = SubSeq(v, 1, StaticSize[type])
    BY <1>4, TypesApart DEF LoadFrom, StaticIn
  <2>2. StaticSize[type] \in 0..Len(v) /\ v \in Seq(0..Base - 1)
    BY <1>4, TypesApart, TypesAssumption DEF Fits, Bytes
  <2>3. PICK n \in 0..Len(v) : n = StaticSize[type]
    BY <2>2
  <2>4. PICK d : d = SubSeq(v, 1, n)
    OBVIOUS
  <2>5. d \in Seq(0..Base - 1) /\ Len(d) = n
    BY <2>2, <2>4, FirstOf
  <2>6. SubSeq(d, 1, n) = d
    BY <2>5, SubSeqFull
  <2> QED
    BY <1>4, <2>1, <2>3, <2>4, <2>6, MeaningIs
<1> QED
  BY <1>1, <1>2, <1>3, <1>4 DEF Types

------------------------------------------------------------------------------
(* Answers.                                                                 *)

\* A SET that is stored.
Stores(body) ==
    /\ Accepts(body)
    /\ ~Overruns(TypeOf(body), ValueOf(body))
    /\ ~ReadsPast(ObjectOf(body))

\* An object stays under its hash until a SET has the same hash.
Kept(i) ==
    \/ \E j \in i + 1..Len(accepted) : Hash(KeyOf(accepted[j])) = Hash(KeyOf(accepted[i]))
    \/ /\ Hash(KeyOf(accepted[i])) \in DOMAIN objects
       /\ objects[Hash(KeyOf(accepted[i]))] = ObjectOf(accepted[i])

LatestInv ==
    /\ accepted \in Seq(SetBodies)
    /\ \A i \in 1..Len(accepted) : Stores(accepted[i]) /\ Kept(i)

\* At first no SET was accepted.
LEMMA LatestInit == Init => LatestInv
BY DEF Init, LatestInv

\* Every request keeps the objects of the SETs that were not overtaken.
LEMMA LatestStep == LatestInv /\ [Next]_vars => LatestInv'
<1> SUFFICES ASSUME LatestInv, [Next]_vars PROVE LatestInv'
  OBVIOUS
<1>1. ASSUME NEW body \in SetBodies, HandleSet(body)
      PROVE  LatestInv'
  <2>1. PICK s \in Seq(SetBodies) : s = accepted
    BY DEF LatestInv
  <2>2. PICK t : t = accepted'
    OBVIOUS
  <2>3. /\ t \in Seq(SetBodies) /\ Len(t) = Len(s) + 1 /\ t[Len(s) + 1] = body
        /\ \A i \in 1..Len(s) : t[i] = s[i]
    BY <1>1, <2>1, <2>2, AppendProperties DEF HandleSet
  <2>4. Len(s) \in Nat
    OBVIOUS
  <2>5. Stores(body)
    BY <1>1 DEF HandleSet, Stores
  <2>6. PICK n : n = Hash(KeyOf(body))
    OBVIOUS
  <2>7. objects' = [h \in DOMAIN objects \union {n} |-> IF h = n THEN ObjectOf(body) ELSE objects[h]]
    BY <1>1, <2>6 DEF HandleSet, Stored, ObjectOf
  <2>8. ASSUME NEW i \in 1..Len(t)
        PROVE  /\ Stores(t[i])
               /\ \/ \E j \in i + 1..Len(t) : Hash(KeyOf(t[j])) = Hash(KeyOf(t[i]))
                  \/ /\ Hash(KeyOf(t[i])) \in DOMAIN objects'
                     /\ objects'[Hash(KeyOf(t[i]))] = ObjectOf(t[i])
    <3>1. CASE i = Len(s) + 1
      BY <2>3, <2>5, <2>6, <2>7, <3>1
    <3>2. CASE i # Len(s) + 1
      <4>1. i \in 1..Len(s) /\ t[i] = s[i]
        BY <2>3, <2>4, <3>2
      <4>2. Stores(s[i]) /\ Kept(i)
        BY <2>1, <4>1 DEF LatestInv
      <4>3. CASE \E j \in i + 1..Len(s) : Hash(KeyOf(s[j])) = Hash(KeyOf(s[i]))
        <5>1. PICK j \in i + 1..Len(s) : Hash(KeyOf(s[j])) = Hash(KeyOf(s[i]))
          BY <4>3
        <5>2. j \in i + 1..Len(t) /\ t[j] = s[j]
          BY <2>3, <2>4, <4>1
        <5> QED
          BY <4>1, <4>2, <5>1, <5>2
      <4>4. CASE Hash(KeyOf(s[i])) = n
        <5>1. Len(s) + 1 \in i + 1..Len(t)
          BY <2>3, <2>4, <4>1
        <5> QED
          BY <2>3, <2>6, <4>1, <4>2, <4>4, <5>1
      <4>5. CASE /\ Hash(KeyOf(s[i])) # n
                 /\ ~\E j \in i + 1..Len(s) : Hash(KeyOf(s[j])) = Hash(KeyOf(s[i]))
        <5>1. /\ Hash(KeyOf(s[i])) \in DOMAIN objects
              /\ objects[Hash(KeyOf(s[i]))] = ObjectOf(s[i])
          BY <2>1, <4>2, <4>5 DEF Kept
        <5> QED
          BY <2>7, <4>1, <4>2, <4>5, <5>1
      <4> QED
        BY <4>3, <4>4, <4>5
    <3> QED
      BY <3>1, <3>2
  <2> QED
    BY <2>2, <2>3, <2>8 DEF LatestInv, Kept
<1>2. ASSUME UNCHANGED <<objects, accepted>>
      PROVE  LatestInv'
  BY <1>2 DEF LatestInv, Kept
<1>3. ASSUME NEW body \in SetBodies, HandleBadSet(body) \/ HandleSetUndefined(body)
      PROVE  LatestInv'
  BY <1>2, <1>3 DEF HandleBadSet, HandleSetUndefined
<1>4. ASSUME NEW query \in Queries, HandleGet(query)
      PROVE  LatestInv'
  BY <1>2, <1>4 DEF HandleGet
<1>5. CASE UNCHANGED vars
  BY <1>2, <1>5 DEF vars
<1> QED
  BY <1>1, <1>3, <1>4, <1>5 DEF Next

\* LatestInv holds throughout.
THEOREM LatestInvariant == Spec => []LatestInv
BY LatestInit, LatestStep, PTL DEF Spec

\* as_cstr finds a key that ends with a zero byte.
LEMMA AsCstrOfKey ==
  ASSUME NEW key \in Bytes, ~HasNul(key)
  PROVE  AsCstr(CString(key)) = key
<1>1. PICK c \in Bytes : c = CString(key)
  BY CStringIs
<1>2. Len(c) = Len(key) + 1 /\ c[Len(key) + 1] = 0 /\ Len(key) \in Nat
  BY <1>1, CStringIs DEF Bytes
<1>3. c[Len(c)] = 0 /\ c \in Seq(0..Base - 1)
  BY <1>2 DEF Bytes
<1>4. [c EXCEPT ![Len(c)] = 0] = c
  BY <1>3
<1> QED
  BY <1>1, <1>4, StrLenOfCString DEF AsCstr

\* An answer is made from an object that was kept, and means what its SET meant.
LEMMA LatestImplies == LatestInv => AnswersLatest
<1> SUFFICES ASSUME LatestInv, NEW i \in 1..Len(accepted), ~Overtaken(i)
             PROVE  LET sent == accepted[i]
                        answer == Answer(CString(KeyOf(sent)))
                        got == answer.body
                    IN  /\ answer.kind = "updated"
                        /\ KeyOf(got) = KeyOf(sent) /\ TypeOf(got) = TypeOf(sent)
                        /\ Meaning(TypeOf(got), ValueOf(got)) = Meaning(TypeOf(sent), ValueOf(sent))
  BY DEF AnswersLatest
<1>1. accepted \in Seq(SetBodies)
  BY DEF LatestInv
<1>2. \A j \in 1..Len(accepted) : KeyOf(accepted[j]) \in Bytes
  BY <1>1, ElementOfSeq, BodiesAreBytes, PartsOf
<1>3. PICK sent \in Bytes : sent = accepted[i]
  BY <1>1, ElementOfSeq, BodiesAreBytes
<1>4. PICK key \in Bytes : key = KeyOf(sent) /\ ~HasNul(key)
  BY PartsOf
<1>5. ~\E j \in i + 1..Len(accepted) : Hash(KeyOf(accepted[j])) = Hash(key)
  <2> SUFFICES ASSUME NEW j \in i + 1..Len(accepted), Hash(KeyOf(accepted[j])) = Hash(key)
               PROVE  FALSE
    OBVIOUS
  <2>1. j \in 1..Len(accepted)
    BY <1>1
  <2>2. Poly(KeyOf(accepted[j])) = Poly(key)
    BY <1>2, <2>1, HashGivesPoly
  <2> QED
    BY <1>3, <1>4, <2>2 DEF Overtaken
<1>6. PICK o : o = ObjectOf(sent)
  OBVIOUS
<1>7. Stores(sent)
  BY <1>3 DEF LatestInv
<1>8. Sound(o)
  BY <1>6, <1>7, SetSound DEF Stores
<1>9. Hash(key) \in DOMAIN objects /\ objects[Hash(key)] = o
  BY <1>3, <1>4, <1>5, <1>6 DEF LatestInv, Kept
<1>10. PICK answer : answer = Answer(CString(key))
  OBVIOUS
<1>11. answer = Updated(o)
  BY <1>4, <1>9, <1>10, AsCstrOfKey DEF Answer
<1>12. answer.kind = "updated" /\ answer.body = Notice(o)
  BY <1>11 DEF Updated, Reply
<1>13. PICK type, v : type = TypeOf(sent) /\ v = ValueOf(sent)
  OBVIOUS
<1>14. o.key = key /\ o.type = type /\ o.data = LoadFrom(type, v)
  BY <1>4, <1>6, <1>13 DEF ObjectOf
<1>15. KeyOf(answer.body) = key /\ TypeOf(answer.body) = type
  BY <1>8, <1>12, <1>14, NoticeParts
<1>16. ValueOf(answer.body) = LoadFrom(type, v)
  BY <1>8, <1>12, <1>14, NoticeParts, LoadToIs
<1>17. type \in Types /\ v \in Bytes /\ Fits(type, v) /\ ~Overruns(type, v)
  BY <1>7, <1>13, PartsOf DEF Stores, Accepts
<1>18. type = DTYPE_STRING => HasNul(LoadFrom(type, v))
  BY <1>6, <1>7, <1>14 DEF Stores, ReadsPast
<1>19. Meaning(type, LoadFrom(type, v)) = Meaning(type, v)
  BY <1>17, <1>18, MeaningKept
<1> QED
  BY <1>3, <1>4, <1>10, <1>12, <1>13, <1>15, <1>16, <1>19

\* A GET for a key is answered with the key, the type and the meaning of the last
\* SET of it, as long as no key with the same hash is set: for every type, and
\* however long the keys are.
THEOREM LatestAnswered == Spec => []AnswersLatest
BY LatestInvariant, LatestImplies, PTL
==============================================================================
