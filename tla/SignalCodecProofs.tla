-------------------------- MODULE SignalCodecProofs --------------------------
(***************************************************************************)
(* Proofs about SignalCodec, for every number of values of a byte, every   *)
(* text and every string of bytes.                                         *)
(***************************************************************************)
EXTENDS SignalCodec, SequenceTheorems, TLAPS

Bytes == Seq(Byte)

-----------------------------------------------------------------------------
(* Strings of bytes.  A string that is cut is its two pieces together.     *)
LEMMA CutIntoPieces ==
    ASSUME NEW c \in Bytes, NEW n \in 0..Len(c)
    PROVE  /\ SubSeq(c, 1, n) \in Bytes /\ SubSeq(c, n + 1, Len(c)) \in Bytes
           /\ Len(SubSeq(c, 1, n)) = n
           /\ c = SubSeq(c, 1, n) \o SubSeq(c, n + 1, Len(c))
<1>1. Len(c) \in Nat /\ c \in Seq(Byte) /\ n \in Nat /\ n <= Len(c)
  BY DEF Bytes
<1>2. /\ SubSeq(c, 1, n) \in Seq(Byte) /\ SubSeq(c, n + 1, Len(c)) \in Seq(Byte)
      /\ Len(SubSeq(c, 1, n)) = n
  BY <1>1
<1>3. 1 \in 1..Len(c) + 1 /\ n \in (1 - 1)..Len(c) /\ Len(c) \in n..Len(c)
  BY <1>1
<1>4. SubSeq(c, 1, n) \o SubSeq(c, n + 1, Len(c)) = SubSeq(c, 1, Len(c))
  BY <1>1, <1>3, ConcatAdjacentSubSeq
<1>5. SubSeq(c, 1, Len(c)) = c
  BY <1>1, SubSeqFull
<1> QED BY <1>2, <1>4, <1>5 DEF Bytes

(* Two strings put together are a string, and cut where they meet they are *)
(* the two again.                                                          *)
LEMMA PiecesOfConcat ==
    ASSUME NEW h \in Bytes, NEW r \in Bytes
    PROVE  /\ h \o r \in Bytes /\ Len(h \o r) = Len(h) + Len(r)
           /\ Len(h) \in Nat /\ Len(r) \in Nat
           /\ SubSeq(h \o r, 1, Len(h)) = h
           /\ SubSeq(h \o r, Len(h) + 1, Len(h \o r)) = r
<1> DEFINE c == h \o r
<1>1. /\ c \in Seq(Byte) /\ Len(c) = Len(h) + Len(r) /\ Len(h) \in Nat /\ Len(r) \in Nat
      /\ \A i \in 1..Len(h) + Len(r) : c[i] = IF i <= Len(h) THEN h[i] ELSE r[i - Len(h)]
  BY ConcatProperties DEF Bytes
<1> HIDE DEF c
<1>2. SubSeq(c, 1, Len(h)) = h
  <2>1. /\ SubSeq(c, 1, Len(h)) \in Seq(Byte) /\ Len(SubSeq(c, 1, Len(h))) = Len(h)
        /\ \A i \in 1..Len(h) : SubSeq(c, 1, Len(h))[i] = h[i]
    BY <1>1
  <2> QED BY <2>1, SeqEqual DEF Bytes
<1>3. SubSeq(c, Len(h) + 1, Len(c)) = r
  <2>1. /\ SubSeq(c, Len(h) + 1, Len(c)) \in Seq(Byte)
        /\ Len(SubSeq(c, Len(h) + 1, Len(c))) = Len(r)
        /\ \A i \in 1..Len(r) : SubSeq(c, Len(h) + 1, Len(c))[i] = c[Len(h) + i]
    BY <1>1
  <2>2. \A i \in 1..Len(r) : SubSeq(c, Len(h) + 1, Len(c))[i] = r[i]
    BY <1>1, <2>1
  <2> QED BY <2>1, <2>2, SeqEqual DEF Bytes
<1> QED BY <1>1, <1>2, <1>3 DEF c, Bytes

Regroups(a, b, c) == (a \o b) \o c = a \o (b \o c)

(* Pieces make the same string however they are put together.              *)
LEMMA Regroup == \A a, b, c \in Bytes : Regroups(a, b, c)
<1> SUFFICES ASSUME NEW a \in Bytes, NEW b \in Bytes, NEW c \in Bytes
             PROVE  Regroups(a, b, c)
  OBVIOUS
<1> QED BY ConcatAssociative DEF Bytes, Regroups

RegroupsFive(a, b, c, d, r) ==
    (((a \o b) \o c) \o d) \o r = a \o (b \o (c \o (d \o r)))

(* Five pieces likewise, as many as an encoded candidate has.              *)
LEMMA RegroupFive == \A a, b, c, d, r \in Bytes : RegroupsFive(a, b, c, d, r)
<1> SUFFICES ASSUME NEW a \in Bytes, NEW b \in Bytes, NEW c \in Bytes, NEW d \in Bytes,
                    NEW r \in Bytes
             PROVE  RegroupsFive(a, b, c, d, r)
  OBVIOUS
<1>1. /\ a \o b \in Bytes /\ (a \o b) \o c \in Bytes
      /\ d \o r \in Bytes /\ c \o (d \o r) \in Bytes
  BY PiecesOfConcat
<1>2. Regroups((a \o b) \o c, d, r)
  BY <1>1, Regroup
<1>3. Regroups(a \o b, c, d \o r)
  BY <1>1, Regroup
<1>4. Regroups(a, b, c \o (d \o r))
  BY <1>1, Regroup
<1> QED BY <1>2, <1>3, <1>4 DEF Regroups, RegroupsFive

(* A prefix is what a string continues.                                    *)
LEMMA PrefixContinues ==
    ASSUME NEW s \in Bytes, NEW t \in Bytes
    PROVE  IsPrefix(s, t) <=> \E r \in Bytes : t = s \o r
<1>1. ASSUME IsPrefix(s, t) PROVE \E r \in Bytes : t = s \o r
  <2>1. Len(s) \in Nat /\ Len(t) \in Nat
    BY DEF Bytes
  <2>2. SubSeq(t, 1, Len(s)) = s
    BY <1>1, SubSeqFull DEF IsPrefix, Bytes
  <2>3. Len(s) \in 0..Len(t)
    BY <1>1, <2>1 DEF IsPrefix
  <2> DEFINE r == SubSeq(t, Len(s) + 1, Len(t))
  <2>4. r \in Bytes /\ t = SubSeq(t, 1, Len(s)) \o r
    BY <2>3, CutIntoPieces
  <2> HIDE DEF r
  <2>5. t = s \o r
    BY <2>2, <2>4
  <2> QED BY <2>4, <2>5
<1>2. ASSUME NEW r \in Bytes, t = s \o r PROVE IsPrefix(s, t)
  <2>1. SubSeq(t, 1, Len(s)) = s /\ Len(s) <= Len(t)
    BY <1>2, PiecesOfConcat
  <2>2. SubSeq(s, 1, Len(s)) = s
    BY SubSeqFull DEF Bytes
  <2> QED BY <2>1, <2>2 DEF IsPrefix
<1> QED BY <1>1, <1>2

(* take_n gets back the piece that was put in front, ...                   *)
LEMMA TakeFromConcat ==
    ASSUME NEW h \in Bytes, NEW r \in Bytes
    PROVE  TakeN(h \o r, Len(h)) = [ok |-> TRUE, head |-> h, tail |-> r]
<1>1. ~(Len(h \o r) < Len(h))
  BY PiecesOfConcat
<1> QED BY <1>1, PiecesOfConcat DEF TakeN

(* ... and whatever it takes, it takes from the front and loses nothing.   *)
LEMMA TakeSplits ==
    ASSUME NEW c \in Bytes, NEW n \in Nat
    PROVE  \/ TakeN(c, n) = Fail
           \/ \E h, r \in Bytes :
                 /\ TakeN(c, n) = [ok |-> TRUE, head |-> h, tail |-> r]
                 /\ Len(h) = n /\ c = h \o r
<1>1. CASE Len(c) < n
  BY <1>1 DEF TakeN
<1>2. CASE ~(Len(c) < n)
  <2> DEFINE h == SubSeq(c, 1, n)
             r == SubSeq(c, n + 1, Len(c))
  <2>1. n \in 0..Len(c)
    BY <1>2 DEF Bytes
  <2>2. h \in Bytes /\ r \in Bytes /\ Len(h) = n /\ c = h \o r
    BY <2>1, CutIntoPieces
  <2>4. TakeN(c, n) = [ok |-> TRUE, head |-> h, tail |-> r]
    BY <1>2 DEF TakeN
  <2> HIDE DEF h, r
  <2> QED BY <2>2, <2>4
<1> QED BY <1>1, <1>2

-----------------------------------------------------------------------------
(* Numbers in one and two bytes.  Limit is what a length field of a width  *)
(* cannot hold any more.                                                   *)
Limit(width) == IF width = 1 THEN Base ELSE U16

(* What is less than Base * Base has a high digit less than Base.          *)
LEMMA HighDigit ==
    ASSUME NEW B \in Nat, B > 0, NEW n \in Nat, n < B * B
    PROVE  /\ n \div B \in 0..(B - 1) /\ n % B \in 0..(B - 1)
           /\ (n \div B) % B = n \div B
           /\ B * (n \div B) + (n % B) = n
<1> DEFINE q == n \div B
<1>1. q \in Int /\ n % B \in 0..(B - 1) /\ n = B * q + (n % B)
  OBVIOUS
<1>2. q >= 0
  <2>1. ASSUME q <= -1 PROVE FALSE
    <3>1. B * q <= B * (-1)
      BY <1>1, <2>1
    <3> QED BY <1>1, <3>1
  <2> QED BY <1>1, <2>1
<1>3. q < B
  <2>1. ASSUME q >= B PROVE FALSE
    <3>1. B * q >= B * B
      BY <1>1, <2>1
    <3> QED BY <1>1, <3>1
  <2> QED BY <1>1, <2>1
<1>4. ASSUME NEW k \in 0..(B - 1) PROVE k % B = k
  BY <1>4
<1> HIDE DEF q
<1>5. q % B = q
  BY <1>1, <1>2, <1>3, <1>4
<1> QED BY <1>1, <1>2, <1>3, <1>5 DEF q

(* Two digits are the quotient and the remainder of the number they make.  *)
LEMMA DigitsOfSum ==
    ASSUME NEW B \in Nat, B > 0, NEW a \in 0..(B - 1), NEW b \in 0..(B - 1)
    PROVE  /\ B * a + b \in Nat /\ B * a + b < B * B
           /\ (B * a + b) \div B = a /\ (B * a + b) % B = b
<1> DEFINE n == B * a + b
           q == n \div B
<1>1. B * a \in Nat /\ n \in Nat
  OBVIOUS
<1>2. B * a <= B * (B - 1)
  OBVIOUS
<1>3. B * (B - 1) = B * B - B
  OBVIOUS
<1>4. n < B * B
  BY <1>1, <1>2, <1>3
<1>5. q \in Int /\ n % B \in 0..(B - 1) /\ n = B * q + (n % B)
  BY <1>1
<1>6. q = a
  <2>1. ASSUME q <= a - 1 PROVE FALSE
    <3>1. B * q <= B * (a - 1)
      BY <1>5, <2>1
    <3>2. B * (a - 1) = B * a - B
      OBVIOUS
    <3> QED BY <1>1, <1>5, <3>1, <3>2
  <2>2. ASSUME q >= a + 1 PROVE FALSE
    <3>1. B * q >= B * (a + 1)
      BY <1>5, <2>2
    <3>2. B * (a + 1) = B * a + B
      OBVIOUS
    <3> QED BY <1>1, <1>5, <3>1, <3>2
  <2> QED BY <1>5, <2>1, <2>2
<1> QED BY <1>1, <1>4, <1>5, <1>6

(* A number of any size leaves one byte or two: the cast drops the rest.   *)
LEMMA BigEndianIsBytes ==
    ASSUME NEW width \in {1, 2}, NEW n \in Nat
    PROVE  BigEndian(n, width) \in Bytes /\ Len(BigEndian(n, width)) = width
<1>1. Base \in Nat /\ Base > 0
  BY BaseAssumption
<1>2. n % Base \in Byte /\ n \div Base \in Int
  BY <1>1 DEF Byte
<1>3. (n \div Base) % Base \in Byte
  BY <1>1, <1>2 DEF Byte
<1>4. CASE width = 1
  BY <1>2, <1>4 DEF BigEndian, Bytes
<1>5. CASE width = 2
  BY <1>2, <1>3, <1>5 DEF BigEndian, Bytes
<1> QED BY <1>4, <1>5

(* to_be_bytes of a number that fits is its digits, and from_be_bytes of   *)
(* the digits is the number again.                                         *)
LEMMA NumberSurvives ==
    ASSUME NEW width \in {1, 2}, NEW n \in 0..(Limit(width) - 1)
    PROVE  /\ BigEndian(n, width) \in Bytes /\ Len(BigEndian(n, width)) = width
           /\ FromBigEndian(BigEndian(n, width)) = n
<1>1. Base \in Nat /\ Base > 4
  BY BaseAssumption
<1>2. CASE width = 1
  <2>1. n \in 0..(Base - 1)
    BY <1>2 DEF Limit
  <2>2. n % Base = n
    BY <1>1, <2>1
  <2>3. BigEndian(n, width) = <<n>> /\ n \in Byte
    BY <1>2, <2>1, <2>2 DEF BigEndian, Byte
  <2>4. <<n>> \in Seq(Byte) /\ Len(<<n>>) = 1 /\ <<n>>[1] = n
    BY <2>3
  <2>5. FromBigEndian(<<n>>) = n
    BY <2>4 DEF FromBigEndian
  <2> QED BY <1>2, <2>3, <2>4, <2>5 DEF Bytes
<1>3. CASE width = 2
  <2>1. n \in Nat /\ n < Base * Base
    BY <1>1, <1>3 DEF Limit, U16
  <2> DEFINE a == n \div Base
             b == n % Base
  <2>2. a \in Byte /\ b \in Byte /\ a % Base = a /\ Base * a + b = n
    BY <1>1, <2>1, HighDigit DEF Byte
  <2>3. BigEndian(n, width) = <<a, b>>
    BY <1>3, <2>2 DEF BigEndian
  <2> HIDE DEF a, b
  <2>4. FromBigEndian(<<a, b>>) = Base * a + b
    BY DEF FromBigEndian
  <2>5. <<a, b>> \in Bytes /\ Len(<<a, b>>) = 2
    BY <2>2 DEF Bytes
  <2> QED BY <1>3, <2>2, <2>3, <2>4, <2>5
<1> QED BY <1>2, <1>3

(* A string of one or two bytes is made of them.                           *)
LEMMA ShortStrings ==
    ASSUME NEW d \in Bytes
    PROVE  /\ Len(d) = 1 => d[1] \in Byte /\ d = <<d[1]>>
           /\ Len(d) = 2 => d[1] \in Byte /\ d[2] \in Byte /\ d = <<d[1], d[2]>>
<1>1. ASSUME Len(d) = 1 PROVE d[1] \in Byte /\ d = <<d[1]>>
  <2>1. d[1] \in Byte
    BY <1>1 DEF Bytes
  <2>2. /\ <<d[1]>> \in Seq(Byte) /\ Len(<<d[1]>>) = 1
        /\ \A i \in 1..Len(d) : d[i] = <<d[1]>>[i]
    BY <1>1, <2>1
  <2> QED BY <1>1, <2>1, <2>2, SeqEqual DEF Bytes
<1>2. ASSUME Len(d) = 2 PROVE d[1] \in Byte /\ d[2] \in Byte /\ d = <<d[1], d[2]>>
  <2>1. d[1] \in Byte /\ d[2] \in Byte
    BY <1>2 DEF Bytes
  <2>2. /\ <<d[1], d[2]>> \in Seq(Byte) /\ Len(<<d[1], d[2]>>) = 2
        /\ \A i \in 1..Len(d) : d[i] = <<d[1], d[2]>>[i]
    BY <1>2, <2>1
  <2> QED BY <1>2, <2>1, <2>2, SeqEqual DEF Bytes
<1> QED BY <1>1, <1>2

(* No two strings of a width stand for the same number.                    *)
LEMMA DigitsSurvive ==
    ASSUME NEW width \in {1, 2}, NEW d \in Bytes, Len(d) = width
    PROVE  /\ FromBigEndian(d) \in 0..(Limit(width) - 1)
           /\ BigEndian(FromBigEndian(d), width) = d
<1>1. Base \in Nat /\ Base > 4
  BY BaseAssumption
<1>2. CASE width = 1
  <2>1. d[1] \in 0..(Base - 1) /\ d = <<d[1]>>
    BY <1>2, ShortStrings DEF Byte
  <2>2. FromBigEndian(d) = d[1]
    BY <1>2 DEF FromBigEndian
  <2>3. d[1] % Base = d[1]
    BY <1>1, <2>1
  <2>4. BigEndian(d[1], 1) = <<d[1]>>
    BY <2>3 DEF BigEndian
  <2> QED BY <1>2, <2>1, <2>2, <2>4 DEF Limit
<1>3. CASE width = 2
  <2> DEFINE a == d[1]
             b == d[2]
             n == Base * a + b
  <2>1. a \in 0..(Base - 1) /\ b \in 0..(Base - 1) /\ d = <<a, b>>
    BY <1>3, ShortStrings DEF Byte
  <2>2. FromBigEndian(d) = n
    BY <1>3 DEF FromBigEndian
  <2> HIDE DEF a, b
  <2>3. n \in Nat /\ n < Base * Base /\ n \div Base = a /\ n % Base = b
    BY <1>1, <2>1, DigitsOfSum
  <2>4. a % Base = a
    BY <1>1, <2>1
  <2> HIDE DEF n
  <2>5. BigEndian(n, 2) = <<a, b>>
    BY <2>3, <2>4 DEF BigEndian
  <2>6. n \in 0..(U16 - 1)
    BY <1>1, <2>3 DEF U16
  <2> QED BY <1>3, <2>1, <2>2, <2>5, <2>6 DEF Limit
<1> QED BY <1>2, <1>3

-----------------------------------------------------------------------------
(* Texts behind their length.                                              *)
LEMMA PrefixedIsBytes ==
    ASSUME NEW width \in {1, 2}, NEW text \in Bytes
    PROVE  Prefixed(text, width) \in Bytes /\ Len(Prefixed(text, width)) = width + Len(text)
<1>1. Len(text) \in Nat
  BY DEF Bytes
<1>2. BigEndian(Len(text), width) \in Bytes /\ Len(BigEndian(Len(text), width)) = width
  BY <1>1, BigEndianIsBytes
<1> QED BY <1>2, PiecesOfConcat DEF Prefixed

(* A text whose length fits is read back, whatever comes after it.         *)
LEMMA TextSurvives ==
    ASSUME NEW width \in {1, 2}, NEW text \in Bytes, IsText(text),
           Len(text) < Limit(width), NEW r \in Bytes
    PROVE  TakeText(Prefixed(text, width) \o r, width) =
             [ok |-> TRUE, head |-> text, tail |-> r]
<1> DEFINE d == BigEndian(Len(text), width)
           c == Prefixed(text, width) \o r
<1>1. Len(text) \in 0..(Limit(width) - 1)
  BY BaseAssumption DEF Bytes, Limit, U16
<1>2. d \in Bytes /\ Len(d) = width /\ FromBigEndian(d) = Len(text)
  BY <1>1, NumberSurvives
<1> HIDE DEF d
<1>3. text \o r \in Bytes
  BY PiecesOfConcat
<1>4. c = d \o (text \o r)
  <2>1. c = (d \o text) \o r
    BY DEF Prefixed, d
  <2>2. Regroups(d, text, r)
    BY <1>2, Regroup
  <2> QED BY <2>1, <2>2 DEF Regroups
<1> HIDE DEF c
<1>5. TakeN(c, width) = [ok |-> TRUE, head |-> d, tail |-> text \o r]
  <2>1. TakeN(d \o (text \o r), Len(d)) = [ok |-> TRUE, head |-> d, tail |-> text \o r]
    BY <1>2, <1>3, TakeFromConcat
  <2> QED BY <1>2, <1>4, <2>1
<1>6. TakeN(text \o r, Len(text)) = [ok |-> TRUE, head |-> text, tail |-> r]
  BY TakeFromConcat
<1>7. TakeText(c, width) = [ok |-> TRUE, head |-> text, tail |-> r]
  <2>1. TakeText(c, width) =
          IF TakeN(text \o r, Len(text)).ok /\ IsText(TakeN(text \o r, Len(text)).head)
          THEN TakeN(text \o r, Len(text)) ELSE Fail
    BY <1>2, <1>5 DEF TakeText
  <2> QED BY <1>6, <2>1
<1> QED BY <1>7 DEF c

(* What is read as a text is one, and is what its string begins with.      *)
LEMMA TextWasThere ==
    ASSUME NEW width \in {1, 2}, NEW c \in Bytes, TakeText(c, width) # Fail
    PROVE  \E text, r \in Bytes :
              /\ TakeText(c, width) = [ok |-> TRUE, head |-> text, tail |-> r]
              /\ IsText(text) /\ Len(text) < Limit(width)
              /\ c = Prefixed(text, width) \o r
<1>1. PICK d, s \in Bytes :
         /\ TakeN(c, width) = [ok |-> TRUE, head |-> d, tail |-> s]
         /\ Len(d) = width /\ c = d \o s
  <2>1. TakeN(c, width) # Fail
    BY DEF TakeText, Fail
  <2>2. width \in Nat
    OBVIOUS
  <2> QED BY <2>1, <2>2, TakeSplits
<1> DEFINE n == FromBigEndian(d)
<1>2. n \in 0..(Limit(width) - 1) /\ BigEndian(n, width) = d
  BY <1>1, DigitsSurvive
<1>3. n \in Nat /\ n < Limit(width)
  BY <1>2, BaseAssumption DEF Limit, U16
<1>4. TakeText(c, width) =
        IF TakeN(s, n).ok /\ IsText(TakeN(s, n).head) THEN TakeN(s, n) ELSE Fail
  BY <1>1 DEF TakeText
<1> HIDE DEF n
<1>5. PICK text, r \in Bytes :
         /\ TakeN(s, n) = [ok |-> TRUE, head |-> text, tail |-> r]
         /\ Len(text) = n /\ s = text \o r
  <2>1. TakeN(s, n) # Fail
    BY <1>4
  <2> QED BY <1>3, <2>1, TakeSplits
<1>6. IsText(text) /\ TakeText(c, width) = [ok |-> TRUE, head |-> text, tail |-> r]
  BY <1>4, <1>5
<1>7. Regroups(d, text, r)
  BY Regroup
<1>8. Prefixed(text, width) = d \o text
  BY <1>2, <1>5 DEF Prefixed
<1>9. c = Prefixed(text, width) \o r
  BY <1>1, <1>5, <1>7, <1>8 DEF Regroups
<1>10. Len(text) < Limit(width)
  BY <1>3, <1>5
<1> QED BY <1>6, <1>9, <1>10

-----------------------------------------------------------------------------
(* Messages.  The values of the enum: any valid UTF-8 text, any u16.       *)
Strings == {text \in Bytes : IsText(text)}

AnyMessage ==
    {Offer(t) : t \in Strings} \cup {Answer(t) : t \in Strings} \cup {Bye}
    \cup {IceCandidate(c, mid, mline) :
             c \in Strings, mid \in OptionOf(Strings), mline \in OptionOf(0..(U16 - 1))}

(* The messages the format can carry as they are: texts that fit their     *)
(* prefixes, and no Some value that stands for None on the wire.           *)
Representable(m) ==
    /\ m.type \in {"Offer", "Answer"} => Len(m.sdp) < U16
    /\ m.type = "IceCandidate" =>
          /\ Len(m.candidate) < U16
          /\ m.sdp_mid # None => Len(m.sdp_mid[1]) \in 1..(Base - 1)
          /\ m.sdp_mline_index # Some(SIGNAL_NO_MLINE_INDEX)

(* What is encoded for an optional field.                                  *)
MidText(mid) == UnwrapOr(mid, <<>>)
MLineNumber(mline) == UnwrapOr(mline, SIGNAL_NO_MLINE_INDEX)

(* What a peer hands over are such values.                                 *)
LEMMA HandedOverAreMessages == SignalMessage \subseteq AnyMessage
<1>1. Texts \subseteq Strings /\ Mids \subseteq Strings /\ MLineIndexes \subseteq 0..(U16 - 1)
  BY TextsAssumption DEF Strings, Bytes
<1>2. /\ OptionOf(Mids) \subseteq OptionOf(Strings)
      /\ OptionOf(MLineIndexes) \subseteq OptionOf(0..(U16 - 1))
  BY <1>1 DEF OptionOf
<1> QED BY <1>1, <1>2 DEF SignalMessage, AnyMessage

(* The type bytes are bytes, and differ.                                   *)
LEMMA TypeBytes ==
    /\ SIGNAL_TYPE_OFFER \in Byte /\ SIGNAL_TYPE_ANSWER \in Byte
    /\ SIGNAL_TYPE_ICE \in Byte /\ SIGNAL_TYPE_BYE \in Byte
    /\ \A k \in Byte : <<k>> \in Bytes /\ Len(<<k>>) = 1 /\ <<k>>[1] = k
  BY BaseAssumption
  DEF Byte, Bytes, SIGNAL_TYPE_OFFER, SIGNAL_TYPE_ANSWER, SIGNAL_TYPE_ICE, SIGNAL_TYPE_BYE

(* encode_inner, message by message.                                       *)
LEMMA Encodings ==
    /\ \A t : EncodeInner(Offer(t)) = <<SIGNAL_TYPE_OFFER>> \o Prefixed(t, 2)
    /\ \A t : EncodeInner(Answer(t)) = <<SIGNAL_TYPE_ANSWER>> \o Prefixed(t, 2)
    /\ EncodeInner(Bye) = <<SIGNAL_TYPE_BYE>>
    /\ \A c, mid, mline :
          EncodeInner(IceCandidate(c, mid, mline)) =
            ((<<SIGNAL_TYPE_ICE>> \o Prefixed(c, 2)) \o Prefixed(MidText(mid), 1))
               \o BigEndian(MLineNumber(mline), 2)
<1>1. ASSUME NEW t PROVE EncodeInner(Offer(t)) = <<SIGNAL_TYPE_OFFER>> \o Prefixed(t, 2)
  <2>1. Offer(t).type = "Offer" /\ Offer(t).sdp = t
    BY DEF Offer
  <2> QED BY <2>1 DEF EncodeInner
<1>2. ASSUME NEW t PROVE EncodeInner(Answer(t)) = <<SIGNAL_TYPE_ANSWER>> \o Prefixed(t, 2)
  <2>1. Answer(t).type = "Answer" /\ Answer(t).sdp = t
    BY DEF Answer
  <2> QED BY <2>1 DEF EncodeInner
<1>3. EncodeInner(Bye) = <<SIGNAL_TYPE_BYE>>
  <2>1. Bye.type = "Bye"
    BY DEF Bye
  <2> QED BY <2>1 DEF EncodeInner
<1>4. ASSUME NEW c, NEW mid, NEW mline
      PROVE  EncodeInner(IceCandidate(c, mid, mline)) =
               ((<<SIGNAL_TYPE_ICE>> \o Prefixed(c, 2)) \o Prefixed(MidText(mid), 1))
                  \o BigEndian(MLineNumber(mline), 2)
  <2> DEFINE m == IceCandidate(c, mid, mline)
  <2>1. /\ m.type = "IceCandidate" /\ m.candidate = c
        /\ m.sdp_mid = mid /\ m.sdp_mline_index = mline
    BY DEF IceCandidate
  <2> HIDE DEF m
  <2>2. EncodeInner(m) =
          ((<<SIGNAL_TYPE_ICE>> \o Prefixed(c, 2)) \o Prefixed(MidText(mid), 1))
             \o BigEndian(MLineNumber(mline), 2)
    BY <2>1 DEF EncodeInner, MidText, MLineNumber
  <2> QED BY <2>2 DEF m
<1> QED BY <1>1, <1>2, <1>3, <1>4

(* decode_inner, by the first byte.                                        *)
LEMMA Decodings ==
    ASSUME NEW k \in Byte, NEW s \in Bytes
    PROVE  /\ k \in {SIGNAL_TYPE_OFFER, SIGNAL_TYPE_ANSWER} =>
                DecodeInner(<<k>> \o s) =
                  IF ~TakeText(s, 2).ok THEN Fail
                  ELSE IF k = SIGNAL_TYPE_OFFER THEN Ok(Offer(TakeText(s, 2).head))
                  ELSE Ok(Answer(TakeText(s, 2).head))
           /\ k = SIGNAL_TYPE_ICE => DecodeInner(<<k>> \o s) = DecodeIce(s)
           /\ k = SIGNAL_TYPE_BYE => DecodeInner(<<k>> \o s) = Ok(Bye)
           /\ k \notin {SIGNAL_TYPE_OFFER, SIGNAL_TYPE_ANSWER, SIGNAL_TYPE_ICE, SIGNAL_TYPE_BYE}
                => DecodeInner(<<k>> \o s) = Fail
<1> DEFINE b == <<k>> \o s
<1>1. TakeN(b, 1) = [ok |-> TRUE, head |-> <<k>>, tail |-> s]
  <2>1. <<k>> \in Bytes /\ Len(<<k>>) = 1
    BY TypeBytes
  <2>2. TakeN(<<k>> \o s, Len(<<k>>)) = [ok |-> TRUE, head |-> <<k>>, tail |-> s]
    BY <2>1, TakeFromConcat
  <2> QED BY <2>1, <2>2
<1> HIDE DEF b
<1>2. DecodeInner(b) =
        CASE k = SIGNAL_TYPE_OFFER ->
                IF TakeText(s, 2).ok THEN Ok(Offer(TakeText(s, 2).head)) ELSE Fail
          [] k = SIGNAL_TYPE_ANSWER ->
                IF TakeText(s, 2).ok THEN Ok(Answer(TakeText(s, 2).head)) ELSE Fail
          [] k = SIGNAL_TYPE_ICE -> DecodeIce(s)
          [] k = SIGNAL_TYPE_BYE -> Ok(Bye)
          [] OTHER -> Fail
  BY <1>1 DEF DecodeInner
<1>3. /\ SIGNAL_TYPE_OFFER = 1 /\ SIGNAL_TYPE_ANSWER = 2
      /\ SIGNAL_TYPE_ICE = 3 /\ SIGNAL_TYPE_BYE = 4
  BY DEF SIGNAL_TYPE_OFFER, SIGNAL_TYPE_ANSWER, SIGNAL_TYPE_ICE, SIGNAL_TYPE_BYE
<1>4. k = SIGNAL_TYPE_OFFER =>
        DecodeInner(b) = IF TakeText(s, 2).ok THEN Ok(Offer(TakeText(s, 2).head)) ELSE Fail
  BY <1>2, <1>3
<1>5. k = SIGNAL_TYPE_ANSWER =>
        DecodeInner(b) = IF TakeText(s, 2).ok THEN Ok(Answer(TakeText(s, 2).head)) ELSE Fail
  BY <1>2, <1>3
<1>6. k = SIGNAL_TYPE_ICE => DecodeInner(b) = DecodeIce(s)
  BY <1>2, <1>3
<1>7. k = SIGNAL_TYPE_BYE => DecodeInner(b) = Ok(Bye)
  BY <1>2, <1>3
<1>8. k \notin {SIGNAL_TYPE_OFFER, SIGNAL_TYPE_ANSWER, SIGNAL_TYPE_ICE, SIGNAL_TYPE_BYE}
        => DecodeInner(b) = Fail
  BY <1>2
<1> QED BY <1>3, <1>4, <1>5, <1>6, <1>7, <1>8 DEF b

-----------------------------------------------------------------------------
(* The optional fields.                                                    *)
MidOf(text) == IF text = <<>> THEN None ELSE Some(text)

(* What is encoded for one is a text and a u16, whether it is there or not.*)
LEMMA OptionsAreValues ==
    /\ \A mid \in OptionOf(Strings) : MidText(mid) \in Strings
    /\ \A mline \in OptionOf(0..(U16 - 1)) : MLineNumber(mline) \in 0..(U16 - 1)
<1>1. \A x : Some(x) # None /\ Some(x)[1] = x
  BY DEF Some, None
<1>2. <<>> \in Strings
  BY DEF Strings, Bytes, IsText
<1>3. SIGNAL_NO_MLINE_INDEX \in 0..(U16 - 1)
  BY BaseAssumption DEF SIGNAL_NO_MLINE_INDEX, U16
<1>4. ASSUME NEW mid \in OptionOf(Strings) PROVE MidText(mid) \in Strings
  BY <1>1, <1>2 DEF OptionOf, MidText, UnwrapOr
<1>5. ASSUME NEW mline \in OptionOf(0..(U16 - 1)) PROVE MLineNumber(mline) \in 0..(U16 - 1)
  BY <1>1, <1>3 DEF OptionOf, MLineNumber, UnwrapOr
<1> QED BY <1>4, <1>5

(* An sdp_mid that is not the empty text, and an index that is not the     *)
(* greatest u16, are told from their absence.                              *)
LEMMA OptionsSurvive ==
    /\ \A mid \in OptionOf(Strings) : mid # Some(<<>>) => MidOf(MidText(mid)) = mid
    /\ \A mline \in OptionOf(0..(U16 - 1)) :
          mline # Some(SIGNAL_NO_MLINE_INDEX) => MLineIndex(MLineNumber(mline)) = mline
<1>1. \A x : Some(x) # None /\ Some(x)[1] = x
  BY DEF Some, None
<1>2. ASSUME NEW mid \in OptionOf(Strings), mid # Some(<<>>) PROVE MidOf(MidText(mid)) = mid
  <2>1. CASE mid = None
    BY <2>1 DEF MidOf, MidText, UnwrapOr
  <2>2. ASSUME NEW t, mid = Some(t) PROVE MidOf(MidText(mid)) = mid
    <3>1. MidText(mid) = t /\ t # <<>>
      BY <1>1, <1>2, <2>2 DEF MidText, UnwrapOr
    <3> QED BY <2>2, <3>1 DEF MidOf
  <2> QED BY <2>1, <2>2 DEF OptionOf
<1>3. ASSUME NEW mline \in OptionOf(0..(U16 - 1)), mline # Some(SIGNAL_NO_MLINE_INDEX)
      PROVE  MLineIndex(MLineNumber(mline)) = mline
  <2>1. CASE mline = None
    BY <2>1 DEF MLineIndex, MLineNumber, UnwrapOr
  <2>2. ASSUME NEW n, mline = Some(n) PROVE MLineIndex(MLineNumber(mline)) = mline
    <3>1. MLineNumber(mline) = n /\ n # SIGNAL_NO_MLINE_INDEX
      BY <1>1, <1>3, <2>2 DEF MLineNumber, UnwrapOr
    <3> QED BY <2>2, <3>1 DEF MLineIndex
  <2> QED BY <2>1, <2>2 DEF OptionOf
<1> QED BY <1>2, <1>3

(* What decode_inner makes of an optional field encodes to the bytes that  *)
(* it was made of.                                                         *)
LEMMA OptionsWereThere ==
    /\ \A t \in Strings : /\ MidOf(t) \in OptionOf(Strings) /\ MidText(MidOf(t)) = t
                          /\ MidOf(t) # Some(<<>>)
    /\ \A n \in 0..(U16 - 1) : /\ MLineIndex(n) \in OptionOf(0..(U16 - 1))
                               /\ MLineNumber(MLineIndex(n)) = n
                               /\ MLineIndex(n) # Some(SIGNAL_NO_MLINE_INDEX)
<1>1. \A x : Some(x) # None /\ Some(x)[1] = x
  BY DEF Some, None
<1>2. ASSUME NEW t \in Strings
      PROVE  /\ MidOf(t) \in OptionOf(Strings) /\ MidText(MidOf(t)) = t
             /\ MidOf(t) # Some(<<>>)
  <2>1. CASE t = <<>>
    BY <1>1, <2>1 DEF MidOf, MidText, UnwrapOr, OptionOf
  <2>2. CASE t # <<>>
    <3>1. MidOf(t) = Some(t)
      BY <2>2 DEF MidOf
    <3>2. Some(t) # Some(<<>>)
      BY <1>1, <2>2
    <3> QED BY <1>1, <3>1, <3>2 DEF MidText, UnwrapOr, OptionOf
  <2> QED BY <2>1, <2>2
<1>3. ASSUME NEW n \in 0..(U16 - 1)
      PROVE  /\ MLineIndex(n) \in OptionOf(0..(U16 - 1)) /\ MLineNumber(MLineIndex(n)) = n
             /\ MLineIndex(n) # Some(SIGNAL_NO_MLINE_INDEX)
  <2>1. CASE n = SIGNAL_NO_MLINE_INDEX
    BY <1>1, <2>1 DEF MLineIndex, MLineNumber, UnwrapOr, OptionOf
  <2>2. CASE n # SIGNAL_NO_MLINE_INDEX
    <3>1. MLineIndex(n) = Some(n)
      BY <2>2 DEF MLineIndex
    <3>2. Some(n) # Some(SIGNAL_NO_MLINE_INDEX)
      BY <1>1, <2>2
    <3> QED BY <1>1, <3>1, <3>2 DEF MLineNumber, UnwrapOr, OptionOf
  <2> QED BY <2>1, <2>2
<1> QED BY <1>2, <1>3

(* The three fields of a candidate are read back one after the other.      *)
LEMMA IceSurvives ==
    ASSUME NEW c \in Strings, NEW mid \in Strings, NEW n \in 0..(U16 - 1), NEW r \in Bytes,
           Len(c) < U16, Len(mid) < Base
    PROVE  DecodeIce(Prefixed(c, 2) \o (Prefixed(mid, 1) \o (BigEndian(n, 2) \o r))) =
             Ok(IceCandidate(c, MidOf(mid), MLineIndex(n)))
<1> DEFINE s3 == BigEndian(n, 2) \o r
           s2 == Prefixed(mid, 1) \o s3
           s1 == Prefixed(c, 2) \o s2
<1>1. Limit(1) = Base /\ Limit(2) = U16
  BY DEF Limit
<1>2. /\ BigEndian(n, 2) \in Bytes /\ Len(BigEndian(n, 2)) = 2
      /\ FromBigEndian(BigEndian(n, 2)) = n
  BY <1>1, NumberSurvives
<1>3. c \in Bytes /\ IsText(c) /\ mid \in Bytes /\ IsText(mid)
  BY DEF Strings
<1>4. s3 \in Bytes
  BY <1>2, PiecesOfConcat
<1>5. Prefixed(mid, 1) \in Bytes
  BY <1>1, <1>3, PrefixedIsBytes
<1>6. s2 \in Bytes
  BY <1>4, <1>5, PiecesOfConcat
<1>7. TakeN(s3, 2) = [ok |-> TRUE, head |-> BigEndian(n, 2), tail |-> r]
  <2>1. TakeN(s3, Len(BigEndian(n, 2))) = [ok |-> TRUE, head |-> BigEndian(n, 2), tail |-> r]
    BY <1>2, TakeFromConcat
  <2> QED BY <1>2, <2>1
<1> HIDE DEF s3
<1>8. TakeText(s2, 1) = [ok |-> TRUE, head |-> mid, tail |-> s3]
  BY <1>1, <1>3, <1>4, TextSurvives
<1> HIDE DEF s2
<1>9. TakeText(s1, 2) = [ok |-> TRUE, head |-> c, tail |-> s2]
  BY <1>1, <1>3, <1>6, TextSurvives
<1> HIDE DEF s1
<1>10. DecodeIce(s1) = Ok(IceCandidate(c, MidOf(mid), MLineIndex(n)))
  BY <1>2, <1>7, <1>8, <1>9 DEF DecodeIce, MidOf
<1> QED BY <1>10 DEF s1, s2, s3

(* A candidate that is decoded was encoded in what the string begins with. *)
LEMMA IceWasThere ==
    ASSUME NEW s \in Bytes, DecodeIce(s) # Fail
    PROVE  \E c, mid \in Strings, n \in 0..(U16 - 1), r \in Bytes :
              /\ DecodeIce(s) = Ok(IceCandidate(c, MidOf(mid), MLineIndex(n)))
              /\ Len(c) < U16 /\ Len(mid) < Base
              /\ s = Prefixed(c, 2) \o (Prefixed(mid, 1) \o (BigEndian(n, 2) \o r))
<1>1. Limit(1) = Base /\ Limit(2) = U16
  BY DEF Limit
<1>2. PICK c, s2 \in Bytes :
         /\ TakeText(s, 2) = [ok |-> TRUE, head |-> c, tail |-> s2]
         /\ IsText(c) /\ Len(c) < U16 /\ s = Prefixed(c, 2) \o s2
  <2>1. TakeText(s, 2) # Fail
    BY DEF DecodeIce, Fail
  <2> QED BY <1>1, <2>1, TextWasThere
<1> DEFINE AfterMid(mid, s3) ==
              IF ~TakeN(s3, 2).ok THEN Fail
              ELSE Ok(IceCandidate(c, IF mid = <<>> THEN None ELSE Some(mid),
                                   MLineIndex(FromBigEndian(TakeN(s3, 2).head))))
           AfterCandidate ==
              IF ~TakeText(s2, 1).ok THEN Fail
              ELSE AfterMid(TakeText(s2, 1).head, TakeText(s2, 1).tail)
<1>21. DecodeIce(s) = AfterCandidate
  BY <1>2 DEF DecodeIce
<1> HIDE DEF AfterMid
<1>3. PICK mid, s3 \in Bytes :
         /\ TakeText(s2, 1) = [ok |-> TRUE, head |-> mid, tail |-> s3]
         /\ IsText(mid) /\ Len(mid) < Base /\ s2 = Prefixed(mid, 1) \o s3
  <2>1. TakeText(s2, 1) # Fail
    BY <1>21 DEF Fail
  <2> QED BY <1>1, <2>1, TextWasThere
<1>31. DecodeIce(s) = AfterMid(mid, s3)
  BY <1>21, <1>3
<1>4. PICK d, r \in Bytes :
         /\ TakeN(s3, 2) = [ok |-> TRUE, head |-> d, tail |-> r]
         /\ Len(d) = 2 /\ s3 = d \o r
  <2>1. TakeN(s3, 2) # Fail
    BY <1>31 DEF AfterMid, Fail
  <2> QED BY <2>1, TakeSplits
<1> DEFINE n == FromBigEndian(d)
<1>5. n \in 0..(U16 - 1) /\ BigEndian(n, 2) = d
  BY <1>1, <1>4, DigitsSurvive
<1>6. DecodeIce(s) = Ok(IceCandidate(c, MidOf(mid), MLineIndex(n)))
  BY <1>31, <1>4 DEF AfterMid, MidOf
<1> HIDE DEF n
<1>7. s = Prefixed(c, 2) \o (Prefixed(mid, 1) \o (BigEndian(n, 2) \o r))
  BY <1>2, <1>3, <1>4, <1>5
<1>8. c \in Strings /\ mid \in Strings
  BY <1>2, <1>3 DEF Strings
<1> QED BY <1>2, <1>3, <1>5, <1>6, <1>7, <1>8

(* The encoding of a candidate, with what comes after it, field by field.  *)
LEMMA IceEncoding ==
    ASSUME NEW c \in Strings, NEW mid \in Strings, NEW n \in 0..(U16 - 1), NEW r \in Bytes
    PROVE  LET k == <<SIGNAL_TYPE_ICE>>
               e == ((k \o Prefixed(c, 2)) \o Prefixed(mid, 1)) \o BigEndian(n, 2) IN
           /\ e \in Bytes
           /\ Len(e) >= Len(c)
           /\ e \o r = k \o (Prefixed(c, 2) \o (Prefixed(mid, 1) \o (BigEndian(n, 2) \o r)))
<1> DEFINE k == <<SIGNAL_TYPE_ICE>>
           x == Prefixed(c, 2)
           y == Prefixed(mid, 1)
           z == BigEndian(n, 2)
<1>1. Limit(1) = Base /\ Limit(2) = U16
  BY DEF Limit
<1>2. /\ k \in Bytes /\ x \in Bytes /\ y \in Bytes /\ z \in Bytes
      /\ Len(x) = 2 + Len(c) /\ Len(c) \in Nat
  BY <1>1, TypeBytes, PrefixedIsBytes, NumberSurvives DEF Strings, Bytes
<1> HIDE DEF k, x, y, z
<1>3. k \o x \in Bytes /\ Len(k \o x) = Len(k) + Len(x) /\ Len(k) \in Nat
  BY <1>2, PiecesOfConcat
<1>4. /\ (k \o x) \o y \in Bytes /\ Len(y) \in Nat
      /\ Len((k \o x) \o y) = Len(k \o x) + Len(y)
  BY <1>2, <1>3, PiecesOfConcat
<1>5. /\ ((k \o x) \o y) \o z \in Bytes /\ Len(z) \in Nat
      /\ Len(((k \o x) \o y) \o z) = Len((k \o x) \o y) + Len(z)
  BY <1>2, <1>4, PiecesOfConcat
<1>6. Len(((k \o x) \o y) \o z) >= Len(c)
  BY <1>2, <1>3, <1>4, <1>5
<1>7. k \in Bytes /\ x \in Bytes /\ y \in Bytes /\ z \in Bytes
  BY <1>2
<1>8. RegroupsFive(k, x, y, z, r)
  BY <1>7, RegroupFive
<1> QED BY <1>5, <1>6, <1>8 DEF k, x, y, z, RegroupsFive

(* The same for a description.                                             *)
LEMMA SdpEncoding ==
    ASSUME NEW k \in Byte, NEW t \in Strings, NEW r \in Bytes
    PROVE  /\ <<k>> \o Prefixed(t, 2) \in Bytes
           /\ Len(<<k>> \o Prefixed(t, 2)) >= Len(t)
           /\ (<<k>> \o Prefixed(t, 2)) \o r = <<k>> \o (Prefixed(t, 2) \o r)
           /\ Prefixed(t, 2) \o r \in Bytes
<1>1. t \in Bytes /\ Len(t) \in Nat
  BY DEF Strings, Bytes
<1>2. /\ <<k>> \in Bytes /\ Len(<<k>>) = 1
      /\ Prefixed(t, 2) \in Bytes /\ Len(Prefixed(t, 2)) = 2 + Len(t)
  BY <1>1, TypeBytes, PrefixedIsBytes
<1>3. Regroups(<<k>>, Prefixed(t, 2), r)
  BY <1>2, Regroup
<1>4. Len(<<k>> \o Prefixed(t, 2)) = Len(<<k>>) + Len(Prefixed(t, 2))
  BY <1>2, PiecesOfConcat
<1>5. Len(<<k>> \o Prefixed(t, 2)) >= Len(t)
  BY <1>1, <1>2, <1>4
<1> QED BY <1>2, <1>3, <1>5, PiecesOfConcat DEF Regroups

(* Every message has an encoding, which is no shorter than its SDP or its  *)
(* candidate text: a length that does not fit is cut, the text is not.     *)
LEMMA EncodingIsBytes ==
    ASSUME NEW m \in AnyMessage
    PROVE  /\ EncodeInner(m) \in Bytes
           /\ m.type \in {"Offer", "Answer"} => Len(m.sdp) <= Len(EncodeInner(m))
           /\ m.type = "IceCandidate" => Len(m.candidate) <= Len(EncodeInner(m))
<1> DEFINE Goal == /\ EncodeInner(m) \in Bytes
                   /\ m.type \in {"Offer", "Answer"} => Len(m.sdp) <= Len(EncodeInner(m))
                   /\ m.type = "IceCandidate" => Len(m.candidate) <= Len(EncodeInner(m))
<1>1. ASSUME NEW t \in Strings, m = Offer(t) \/ m = Answer(t) PROVE Goal
  <2>1. PICK k \in Byte : EncodeInner(m) = <<k>> \o Prefixed(t, 2)
    BY <1>1, TypeBytes, Encodings
  <2>2. <<k>> \o Prefixed(t, 2) \in Bytes /\ Len(t) <= Len(<<k>> \o Prefixed(t, 2))
    <3>1. <<>> \in Bytes
      BY DEF Bytes
    <3>2. <<k>> \o Prefixed(t, 2) \in Bytes /\ Len(<<k>> \o Prefixed(t, 2)) >= Len(t)
      BY <3>1, SdpEncoding
    <3>3. Len(t) \in Nat /\ Len(<<k>> \o Prefixed(t, 2)) \in Nat
      BY <3>2 DEF Strings, Bytes
    <3> QED BY <3>2, <3>3
  <2>3. m.sdp = t /\ m.type # "IceCandidate"
    BY <1>1 DEF Offer, Answer
  <2> QED BY <2>1, <2>2, <2>3
<1>2. ASSUME m = Bye PROVE Goal
  <2>1. m.type = "Bye"
    BY <1>2 DEF Bye
  <2>2. EncodeInner(m) \in Bytes
    BY <1>2, TypeBytes, Encodings
  <2> QED BY <2>1, <2>2
<1>3. ASSUME NEW c \in Strings, NEW mid \in OptionOf(Strings),
             NEW mline \in OptionOf(0..(U16 - 1)), m = IceCandidate(c, mid, mline)
      PROVE  Goal
  <2> DEFINE e == ((<<SIGNAL_TYPE_ICE>> \o Prefixed(c, 2)) \o Prefixed(MidText(mid), 1))
                    \o BigEndian(MLineNumber(mline), 2)
  <2>1. EncodeInner(m) = e
    BY <1>3, Encodings
  <2>2. <<>> \in Bytes /\ MidText(mid) \in Strings /\ MLineNumber(mline) \in 0..(U16 - 1)
    BY OptionsAreValues DEF Bytes
  <2>3. e \in Bytes /\ Len(e) >= Len(c)
    BY <2>2, IceEncoding
  <2>4. m.type = "IceCandidate" /\ m.candidate = c
    BY <1>3 DEF IceCandidate
  <2>5. Len(c) \in Nat /\ Len(e) \in Nat
    BY <2>3 DEF Strings, Bytes
  <2> HIDE DEF e
  <2> QED BY <2>1, <2>3, <2>4, <2>5
<1> HIDE DEF Goal
<1>4. Goal
  BY <1>1, <1>2, <1>3 DEF AnyMessage
<1> QED BY <1>4 DEF Goal

(* A representable message decodes to itself, whatever comes after it.     *)
LEMMA DecodesToItself ==
    ASSUME NEW m \in AnyMessage, Representable(m), NEW r \in Bytes
    PROVE  EncodeInner(m) \in Bytes /\ DecodeInner(EncodeInner(m) \o r) = Ok(m)
<1>1. ASSUME NEW t \in Strings, m = Offer(t)
      PROVE  EncodeInner(m) \in Bytes /\ DecodeInner(EncodeInner(m) \o r) = Ok(m)
  <2>1. Len(t) < U16
    BY <1>1 DEF Representable, Offer
  <2>2. TakeText(Prefixed(t, 2) \o r, 2) = [ok |-> TRUE, head |-> t, tail |-> r]
    BY <2>1, TextSurvives DEF Limit, Strings
  <2>3. DecodeInner(<<SIGNAL_TYPE_OFFER>> \o (Prefixed(t, 2) \o r)) = Ok(Offer(t))
    BY <2>1, <2>2, TypeBytes, SdpEncoding, Decodings
  <2>4. EncodeInner(m) = <<SIGNAL_TYPE_OFFER>> \o Prefixed(t, 2)
    BY <1>1, Encodings
  <2>5. EncodeInner(m) \in Bytes
    BY <2>1, <2>4, TypeBytes, SdpEncoding
  <2>6. EncodeInner(m) \o r = <<SIGNAL_TYPE_OFFER>> \o (Prefixed(t, 2) \o r)
    BY <2>1, <2>4, TypeBytes, SdpEncoding
  <2> QED BY <1>1, <2>3, <2>5, <2>6
<1>2. ASSUME NEW t \in Strings, m = Answer(t)
      PROVE  EncodeInner(m) \in Bytes /\ DecodeInner(EncodeInner(m) \o r) = Ok(m)
  <2>1. Len(t) < U16
    BY <1>2 DEF Representable, Answer
  <2>2. TakeText(Prefixed(t, 2) \o r, 2) = [ok |-> TRUE, head |-> t, tail |-> r]
    BY <2>1, TextSurvives DEF Limit, Strings
  <2>3. SIGNAL_TYPE_ANSWER # SIGNAL_TYPE_OFFER
    BY DEF SIGNAL_TYPE_ANSWER, SIGNAL_TYPE_OFFER
  <2>4. DecodeInner(<<SIGNAL_TYPE_ANSWER>> \o (Prefixed(t, 2) \o r)) = Ok(Answer(t))
    BY <2>1, <2>2, <2>3, TypeBytes, SdpEncoding, Decodings
  <2>5. EncodeInner(m) = <<SIGNAL_TYPE_ANSWER>> \o Prefixed(t, 2)
    BY <1>2, Encodings
  <2>6. EncodeInner(m) \in Bytes
    BY <2>1, <2>5, TypeBytes, SdpEncoding
  <2>7. EncodeInner(m) \o r = <<SIGNAL_TYPE_ANSWER>> \o (Prefixed(t, 2) \o r)
    BY <2>1, <2>5, TypeBytes, SdpEncoding
  <2> QED BY <1>2, <2>4, <2>6, <2>7
<1>3. ASSUME m = Bye
      PROVE  EncodeInner(m) \in Bytes /\ DecodeInner(EncodeInner(m) \o r) = Ok(m)
  BY <1>3, TypeBytes, Encodings, Decodings
<1>4. ASSUME NEW c \in Strings, NEW mid \in OptionOf(Strings),
             NEW mline \in OptionOf(0..(U16 - 1)), m = IceCandidate(c, mid, mline)
      PROVE  EncodeInner(m) \in Bytes /\ DecodeInner(EncodeInner(m) \o r) = Ok(m)
  <2>1. /\ Len(c) < U16
        /\ mid # None => Len(mid[1]) \in 1..(Base - 1)
        /\ mline # Some(SIGNAL_NO_MLINE_INDEX)
    BY <1>4 DEF Representable, IceCandidate
  <2>2. MidText(mid) \in Strings /\ Len(MidText(mid)) < Base /\ mid # Some(<<>>)
    <3>1. CASE mid = None
      <4>1. MidText(mid) = <<>> /\ mid # Some(<<>>)
        BY <3>1 DEF MidText, UnwrapOr, None, Some
      <4>2. <<>> \in Strings /\ Len(<<>>) < Base
        BY BaseAssumption DEF Strings, Bytes, IsText
      <4> QED BY <4>1, <4>2
    <3>2. ASSUME NEW t \in Strings, mid = Some(t)
          PROVE  MidText(mid) \in Strings /\ Len(MidText(mid)) < Base /\ mid # Some(<<>>)
      <4>1. mid # None /\ mid[1] = t
        BY <3>2 DEF Some, None
      <4>2. Len(t) \in 1..(Base - 1)
        BY <2>1, <4>1
      <4>3. MidText(mid) = t /\ Some(<<>>)[1] = <<>> /\ t # <<>>
        BY <4>1, <4>2 DEF MidText, UnwrapOr, Some
      <4> QED BY <3>2, <4>1, <4>2, <4>3, BaseAssumption
    <3> QED BY <3>1, <3>2 DEF OptionOf
  <2>3. MLineNumber(mline) \in 0..(U16 - 1)
    BY OptionsAreValues
  <2> DEFINE body == Prefixed(c, 2)
                       \o (Prefixed(MidText(mid), 1) \o (BigEndian(MLineNumber(mline), 2) \o r))
  <2>4. DecodeIce(body) = Ok(m)
    BY <1>4, <2>1, <2>2, <2>3, IceSurvives, OptionsSurvive
  <2>5. EncodeInner(m) \in Bytes /\ EncodeInner(m) \o r = <<SIGNAL_TYPE_ICE>> \o body
    <3> DEFINE e == ((<<SIGNAL_TYPE_ICE>> \o Prefixed(c, 2)) \o Prefixed(MidText(mid), 1))
                      \o BigEndian(MLineNumber(mline), 2)
    <3>1. EncodeInner(m) = e
      BY <1>4, Encodings
    <3>2. e \in Bytes /\ e \o r = <<SIGNAL_TYPE_ICE>> \o body
      BY <2>1, <2>2, <2>3, IceEncoding
    <3> QED BY <3>1, <3>2
  <2>6. body \in Bytes
    <3>1. /\ BigEndian(MLineNumber(mline), 2) \in Bytes
          /\ Prefixed(MidText(mid), 1) \in Bytes /\ Prefixed(c, 2) \in Bytes
      BY <2>1, <2>2, <2>3, NumberSurvives, PrefixedIsBytes DEF Limit, Strings
    <3>2. BigEndian(MLineNumber(mline), 2) \o r \in Bytes
      BY <3>1, PiecesOfConcat
    <3>3. Prefixed(MidText(mid), 1) \o (BigEndian(MLineNumber(mline), 2) \o r) \in Bytes
      BY <3>1, <3>2, PiecesOfConcat
    <3> QED BY <3>1, <3>3, PiecesOfConcat
  <2> HIDE DEF body
  <2> QED BY <2>4, <2>5, <2>6, TypeBytes, Decodings
<1> QED BY <1>1, <1>2, <1>3, <1>4 DEF AnyMessage

-----------------------------------------------------------------------------
WasThere(b) ==
    \E m \in AnyMessage, r \in Bytes :
       DecodeInner(b) = Ok(m) /\ Representable(m) /\ b = EncodeInner(m) \o r

(* A description of fewer than U16 bytes is representable.                 *)
LEMMA DescriptionsAreRepresentable ==
    ASSUME NEW t \in Strings, Len(t) < U16
    PROVE  /\ Offer(t) \in AnyMessage /\ Representable(Offer(t))
           /\ Answer(t) \in AnyMessage /\ Representable(Answer(t))
<1>1. /\ Offer(t).type = "Offer" /\ Offer(t).sdp = t
      /\ Answer(t).type = "Answer" /\ Answer(t).sdp = t
  BY DEF Offer, Answer
<1>2. Offer(t) \in AnyMessage /\ Answer(t) \in AnyMessage
  BY DEF AnyMessage
<1> QED BY <1>1, <1>2 DEF Representable

(* So is a candidate of which each field fits and none stands for another. *)
LEMMA CandidatesAreRepresentable ==
    ASSUME NEW c \in Strings, NEW mid \in OptionOf(Strings),
           NEW mline \in OptionOf(0..(U16 - 1)),
           Len(c) < U16, Len(MidText(mid)) < Base, mid # Some(<<>>),
           mline # Some(SIGNAL_NO_MLINE_INDEX)
    PROVE  IceCandidate(c, mid, mline) \in AnyMessage /\ Representable(IceCandidate(c, mid, mline))
<1> DEFINE m == IceCandidate(c, mid, mline)
<1>1. /\ m.type = "IceCandidate" /\ m.candidate = c
      /\ m.sdp_mid = mid /\ m.sdp_mline_index = mline
  BY DEF IceCandidate
<1>2. m \in AnyMessage
  BY DEF AnyMessage
<1> HIDE DEF m
<1>3. mid # None => Len(mid[1]) \in 1..(Base - 1)
  <2>1. ASSUME NEW t \in Strings, mid = Some(t) PROVE Len(mid[1]) \in 1..(Base - 1)
    <3>1. mid[1] = t /\ MidText(mid) = t /\ t # <<>>
      BY <2>1 DEF MidText, UnwrapOr, Some, None
    <3>2. Len(t) \in Nat /\ Len(t) # 0
      BY <3>1 DEF Strings, Bytes
    <3> QED BY <3>1, <3>2, BaseAssumption
  <2> QED BY <2>1 DEF OptionOf
<1>4. Representable(m)
  BY <1>1, <1>3 DEF Representable
<1> QED BY <1>2, <1>4 DEF m

(* What is decoded is a representable message, and the string begins with  *)
(* its encoding.                                                           *)
LEMMA DecodedWasThere ==
    ASSUME NEW b \in Bytes, DecodeInner(b) # Fail
    PROVE  WasThere(b)
<1>1. PICK k \in Byte, s \in Bytes : b = <<k>> \o s
  <2>1. TakeN(b, 1) # Fail
    BY DEF DecodeInner, Fail
  <2>2. PICK h, s \in Bytes : Len(h) = 1 /\ b = h \o s
    BY <2>1, TakeSplits
  <2>3. h[1] \in Byte /\ h = <<h[1]>>
    BY <2>2, ShortStrings
  <2> QED BY <2>2, <2>3
<1>2. CASE k \in {SIGNAL_TYPE_OFFER, SIGNAL_TYPE_ANSWER}
  <2>1. TakeText(s, 2) # Fail
    BY <1>1, <1>2, Decodings DEF Fail
  <2>2. PICK t, r \in Bytes :
           /\ TakeText(s, 2) = [ok |-> TRUE, head |-> t, tail |-> r]
           /\ IsText(t) /\ Len(t) < U16 /\ s = Prefixed(t, 2) \o r
    BY <2>1, TextWasThere DEF Limit
  <2>3. t \in Strings
    BY <2>2 DEF Strings
  <2>4. b = (<<k>> \o Prefixed(t, 2)) \o r
    BY <1>1, <2>2, <2>3, SdpEncoding
  <2>5. CASE k = SIGNAL_TYPE_OFFER
    <3>1. DecodeInner(b) = Ok(Offer(t))
      BY <1>1, <2>2, <2>5, Decodings
    <3>2. b = EncodeInner(Offer(t)) \o r
      BY <2>4, <2>5, Encodings
    <3> QED BY <2>2, <2>3, <3>1, <3>2, DescriptionsAreRepresentable DEF WasThere
  <2>6. CASE k = SIGNAL_TYPE_ANSWER
    <3>1. DecodeInner(b) = Ok(Answer(t))
      BY <1>1, <2>2, <2>6, Decodings DEF SIGNAL_TYPE_OFFER, SIGNAL_TYPE_ANSWER
    <3>2. b = EncodeInner(Answer(t)) \o r
      BY <2>4, <2>6, Encodings
    <3> QED BY <2>2, <2>3, <3>1, <3>2, DescriptionsAreRepresentable DEF WasThere
  <2> QED BY <1>2, <2>5, <2>6
<1>3. CASE k = SIGNAL_TYPE_ICE
  <2>1. DecodeInner(b) = DecodeIce(s) /\ DecodeIce(s) # Fail
    BY <1>1, <1>3, Decodings
  <2>2. PICK c, t \in Strings, n \in 0..(U16 - 1), r \in Bytes :
           /\ DecodeIce(s) = Ok(IceCandidate(c, MidOf(t), MLineIndex(n)))
           /\ Len(c) < U16 /\ Len(t) < Base
           /\ s = Prefixed(c, 2) \o (Prefixed(t, 1) \o (BigEndian(n, 2) \o r))
    BY <2>1, IceWasThere
  <2> DEFINE mid == MidOf(t)
             mline == MLineIndex(n)
             m == IceCandidate(c, mid, mline)
  <2>3. /\ mid \in OptionOf(Strings) /\ MidText(mid) = t /\ mid # Some(<<>>)
        /\ mline \in OptionOf(0..(U16 - 1)) /\ MLineNumber(mline) = n
        /\ mline # Some(SIGNAL_NO_MLINE_INDEX)
    BY OptionsWereThere
  <2>4. DecodeInner(b) = Ok(m)
    BY <2>1, <2>2
  <2> DEFINE e == ((<<SIGNAL_TYPE_ICE>> \o Prefixed(c, 2)) \o Prefixed(t, 1)) \o BigEndian(n, 2)
  <2>5. EncodeInner(m) = e
    <3> HIDE DEF mid, mline
    <3>1. EncodeInner(m) =
            ((<<SIGNAL_TYPE_ICE>> \o Prefixed(c, 2)) \o Prefixed(MidText(mid), 1))
               \o BigEndian(MLineNumber(mline), 2)
      BY Encodings
    <3> QED BY <2>3, <3>1
  <2>6. b = e \o r
    BY <1>1, <1>3, <2>2, IceEncoding
  <2> HIDE DEF e, mid, mline
  <2>7. m \in AnyMessage /\ Representable(m)
    BY <2>2, <2>3, CandidatesAreRepresentable
  <2> HIDE DEF m
  <2> QED BY <2>4, <2>5, <2>6, <2>7 DEF WasThere
<1>4. CASE k = SIGNAL_TYPE_BYE
  <2>1. DecodeInner(b) = Ok(Bye) /\ b = EncodeInner(Bye) \o s
    BY <1>1, <1>4, Decodings, Encodings
  <2>2. Bye.type = "Bye" /\ Bye \in AnyMessage
    BY DEF Bye, AnyMessage
  <2>3. Representable(Bye)
    BY <2>2 DEF Representable
  <2> QED BY <2>1, <2>2, <2>3 DEF WasThere
<1>5. CASE k \notin {SIGNAL_TYPE_OFFER, SIGNAL_TYPE_ANSWER, SIGNAL_TYPE_ICE, SIGNAL_TYPE_BYE}
  BY <1>1, <1>5, Decodings
<1> QED BY <1>2, <1>3, <1>4, <1>5

(* An option is told from every sign but its own, and an absent one stays  *)
(* absent; what is written for it is the same with and without its sign.   *)
LEMMA ToldOptions ==
    ASSUME NEW S, NEW sign, NEW option \in OptionOf(S)
    PROVE  /\ Told(option, sign) \in OptionOf(S)
           /\ Told(option, sign) # Some(sign)
           /\ UnwrapOr(Told(option, sign), sign) = UnwrapOr(option, sign)
           /\ Told(option, sign) # None => Told(option, sign) = option
<1>1. \A x : Some(x) # None /\ Some(x)[1] = x
  BY DEF Some, None
<1>2. None \in OptionOf(S)
  BY DEF OptionOf
<1> QED BY <1>1, <1>2 DEF Told, UnwrapOr

(* What the receiver is told of a message whose texts fit is representable,*)
(* and has the same encoding.                                              *)
LEMMA CanonicalIsRepresentable ==
    ASSUME NEW m \in AnyMessage, LengthsFit(m)
    PROVE  /\ Canonical(m) \in AnyMessage /\ Representable(Canonical(m))
           /\ EncodeInner(Canonical(m)) = EncodeInner(m)
<1>1. ASSUME NEW t \in Strings, m = Offer(t)
      PROVE  Canonical(m) = m /\ Representable(m)
  <2>1. m.type = "Offer" /\ m.sdp = t
    BY <1>1 DEF Offer
  <2>2. Representable(m)
    BY <2>1 DEF Representable, LengthsFit
  <2> QED BY <2>1, <2>2 DEF Canonical
<1>2. ASSUME NEW t \in Strings, m = Answer(t)
      PROVE  Canonical(m) = m /\ Representable(m)
  <2>1. m.type = "Answer" /\ m.sdp = t
    BY <1>2 DEF Answer
  <2>2. Representable(m)
    BY <2>1 DEF Representable, LengthsFit
  <2> QED BY <2>1, <2>2 DEF Canonical
<1>3. ASSUME m = Bye
      PROVE  Canonical(m) = m /\ Representable(m)
  <2>1. m.type = "Bye"
    BY <1>3 DEF Bye
  <2> QED BY <2>1 DEF Canonical, Representable
<1>4. ASSUME NEW c \in Strings, NEW mid \in OptionOf(Strings),
             NEW mline \in OptionOf(0..(U16 - 1)), m = IceCandidate(c, mid, mline)
      PROVE  /\ Canonical(m) \in AnyMessage /\ Representable(Canonical(m))
             /\ EncodeInner(Canonical(m)) = EncodeInner(m)
  <2> DEFINE toldMid == Told(mid, <<>>)
             toldLine == Told(mline, SIGNAL_NO_MLINE_INDEX)
  <2>1. /\ m.type = "IceCandidate" /\ m.candidate = c
        /\ m.sdp_mid = mid /\ m.sdp_mline_index = mline
    BY <1>4 DEF IceCandidate
  <2>2. /\ toldMid \in OptionOf(Strings) /\ toldMid # Some(<<>>)
        /\ MidText(toldMid) = MidText(mid)
        /\ toldMid # None => toldMid = mid
    BY ToldOptions DEF MidText
  <2>3. /\ toldLine \in OptionOf(0..(U16 - 1)) /\ toldLine # Some(SIGNAL_NO_MLINE_INDEX)
        /\ MLineNumber(toldLine) = MLineNumber(mline)
    BY ToldOptions DEF MLineNumber
  <2>4. Canonical(m) = IceCandidate(c, toldMid, toldLine)
    BY <2>1 DEF Canonical
  <2> HIDE DEF toldMid, toldLine
  <2>5. Len(c) < U16
    BY <2>1 DEF LengthsFit
  <2>6. Len(MidText(toldMid)) < Base
    <3>1. CASE toldMid = None
      BY <3>1, BaseAssumption DEF MidText, UnwrapOr
    <3>2. CASE toldMid # None
      BY <2>1, <2>2, <3>2 DEF LengthsFit, MidFits, MidText, UnwrapOr
    <3> QED BY <3>1, <3>2
  <2>7. Canonical(m) \in AnyMessage /\ Representable(Canonical(m))
    BY <2>2, <2>3, <2>4, <2>5, <2>6, CandidatesAreRepresentable
  <2>8. EncodeInner(IceCandidate(c, toldMid, toldLine)) = EncodeInner(IceCandidate(c, mid, mline))
    <3>1. EncodeInner(IceCandidate(c, toldMid, toldLine)) =
            ((<<SIGNAL_TYPE_ICE>> \o Prefixed(c, 2)) \o Prefixed(MidText(toldMid), 1))
               \o BigEndian(MLineNumber(toldLine), 2)
      BY Encodings
    <3>2. EncodeInner(IceCandidate(c, mid, mline)) =
            ((<<SIGNAL_TYPE_ICE>> \o Prefixed(c, 2)) \o Prefixed(MidText(mid), 1))
               \o BigEndian(MLineNumber(mline), 2)
      BY Encodings
    <3> QED BY <2>2, <2>3, <3>1, <3>2
  <2> QED BY <1>4, <2>4, <2>7, <2>8
<1>5. CASE \E t \in Strings : m = Offer(t) \/ m = Answer(t)
  BY <1>1, <1>2, <1>5
<1>6. CASE m = Bye
  BY <1>3, <1>6
<1>7. CASE \E c \in Strings, mid \in OptionOf(Strings), mline \in OptionOf(0..(U16 - 1)) :
              m = IceCandidate(c, mid, mline)
  BY <1>4, <1>7
<1> QED BY <1>5, <1>6, <1>7 DEF AnyMessage

(* No beginning of a representable message, short of the whole, is decoded.*)
LEMMA NothingFromABeginning ==
    ASSUME NEW m \in AnyMessage, Representable(m), NEW b \in Bytes, NEW x \in Bytes,
           EncodeInner(m) = b \o x, x # <<>>
    PROVE  DecodeInner(b) = Fail
<1> SUFFICES ASSUME DecodeInner(b) # Fail
             PROVE  FALSE
  OBVIOUS
<1> DEFINE e == EncodeInner(m)
<1>1. PICK n \in AnyMessage, r \in Bytes :
         DecodeInner(b) = Ok(n) /\ Representable(n) /\ b = EncodeInner(n) \o r
  BY DecodedWasThere DEF WasThere
<1>2. e \in Bytes /\ EncodeInner(n) \in Bytes
  BY EncodingIsBytes
<1>3. e = EncodeInner(n) \o (r \o x) /\ r \o x \in Bytes
  <2>1. Regroups(EncodeInner(n), r, x)
    BY <1>2, Regroup
  <2> QED BY <1>1, <2>1, PiecesOfConcat DEF Regroups
<1>4. DecodeInner(e) = Ok(n)
  BY <1>1, <1>3, DecodesToItself
<1>5. DecodeInner(e) = Ok(m)
  <2>1. <<>> \in Bytes /\ e \o <<>> = e
    BY <1>2, ConcatEmptySeq DEF Bytes
  <2> HIDE DEF e
  <2>2. DecodeInner(e \o <<>>) = Ok(m)
    BY <2>1, DecodesToItself DEF e
  <2> QED BY <2>1, <2>2
<1>6. m = n
  <2>1. Ok(m).message = m /\ Ok(n).message = n
    BY DEF Ok
  <2> QED BY <1>4, <1>5, <2>1
<1>7. /\ Len(e) = Len(e) + Len(r \o x) /\ Len(r \o x) = Len(r) + Len(x)
      /\ Len(e) \in Nat /\ Len(r) \in Nat /\ Len(x) \in Nat
  <2>1. Len(EncodeInner(n) \o (r \o x)) = Len(EncodeInner(n)) + Len(r \o x)
    BY <1>2, <1>3, PiecesOfConcat
  <2>2. Len(r \o x) = Len(r) + Len(x) /\ Len(r) \in Nat /\ Len(x) \in Nat
    BY PiecesOfConcat
  <2>3. Len(e) \in Nat
    BY <1>2 DEF Bytes
  <2> QED BY <1>3, <1>6, <2>1, <2>2, <2>3
<1>8. Len(x) # 0
  BY EmptySeq DEF Bytes
<1> QED BY <1>7, <1>8

-----------------------------------------------------------------------------
(* The invariant: what was sent is one message the platform handed over,   *)
(* and what was decoded is what the bytes that arrived decode to.          *)
SentIsAMessage == sent \in OptionOf(SignalMessage)
ArrivedAreBytes == bytes \in Bytes
DecodedFromBytes == decoded # None => decoded = Some(DecodeInner(bytes))

IInv == SentIsAMessage /\ ArrivedAreBytes /\ DecodedFromBytes

(* Nothing is sent, received or decoded at first.                          *)
LEMMA InitEstablishesIInv == Init => IInv
<1> SUFFICES ASSUME Init PROVE IInv
  OBVIOUS
<1>1. SentIsAMessage
  BY DEF Init, SentIsAMessage, OptionOf
<1>2. ArrivedAreBytes
  BY DEF Init, ArrivedAreBytes, Bytes
<1>3. DecodedFromBytes
  BY DEF Init, DecodedFromBytes
<1> QED BY <1>1, <1>2, <1>3 DEF IInv

(* A message in the hands of the peer has an encoding.                     *)
LEMMA SentMessage ==
    ASSUME SentIsAMessage, sent # None
    PROVE  sent[1] \in AnyMessage /\ EncodeInner(sent[1]) \in Bytes
<1>1. sent[1] \in SignalMessage
  BY DEF SentIsAMessage, OptionOf, Some
<1> QED BY <1>1, HandedOverAreMessages, EncodingIsBytes

(* Encoding hands the decoder bytes, and decoding decodes those that it    *)
(* has.                                                                    *)
LEMMA StepKeepsIInv == IInv /\ [Next]_vars => IInv'
<1> SUFFICES ASSUME IInv, [Next]_vars PROVE IInv'
  OBVIOUS
<1>1. ASSUME EncodeSignal PROVE IInv'
  <2>1. PICK m \in SignalMessage : sent' = Some(m) /\ bytes' = EncodeInner(m)
    BY <1>1 DEF EncodeSignal
  <2>2. SentIsAMessage'
    BY <2>1 DEF SentIsAMessage, OptionOf
  <2>3. ArrivedAreBytes'
    BY <2>1, HandedOverAreMessages, EncodingIsBytes DEF ArrivedAreBytes
  <2>4. DecodedFromBytes'
    BY <1>1 DEF EncodeSignal, DecodedFromBytes
  <2> QED BY <2>2, <2>3, <2>4 DEF IInv
<1>2. ASSUME DecodeArrived PROVE IInv'
  <2>1. SentIsAMessage'
    BY <1>2 DEF IInv, DecodeArrived, SentIsAMessage
  <2>2. ArrivedAreBytes'
    <3>1. ASSUME NEW n \in 0..Len(bytes), bytes' = SubSeq(bytes, 1, n) PROVE bytes' \in Bytes
      BY <3>1, CutIntoPieces DEF IInv, ArrivedAreBytes
    <3>2. ASSUME NEW b \in Byte, bytes' = Append(bytes, b) PROVE bytes' \in Bytes
      BY <3>2 DEF IInv, ArrivedAreBytes, Bytes
    <3> QED BY <1>2, <3>1, <3>2 DEF DecodeArrived, ArrivedAreBytes
  <2>3. DecodedFromBytes'
    BY <1>2 DEF DecodeArrived, DecodedFromBytes
  <2> QED BY <2>1, <2>2, <2>3 DEF IInv
<1>3. ASSUME DecodeGarbage PROVE IInv'
  <2>1. SentIsAMessage'
    BY <1>3 DEF IInv, DecodeGarbage, SentIsAMessage
  <2>2. ArrivedAreBytes'
    <3>1. PICK n \in 0..GarbageLength : bytes' \in [1..n -> Byte]
      BY <1>3 DEF DecodeGarbage
    <3>2. n \in Nat
      BY TextsAssumption
    <3> QED BY <3>1, <3>2 DEF ArrivedAreBytes, Bytes
  <2>3. DecodedFromBytes'
    BY <1>3 DEF DecodeGarbage, DecodedFromBytes
  <2> QED BY <2>1, <2>2, <2>3 DEF IInv
<1>4. ASSUME UNCHANGED vars PROVE IInv'
  BY <1>4 DEF vars, IInv, SentIsAMessage, ArrivedAreBytes, DecodedFromBytes
<1> QED BY <1>1, <1>2, <1>3, <1>4 DEF Next

(* The invariant holds of every reachable state.                           *)
THEOREM Inductive == Spec => []IInv
<1> QED BY InitEstablishesIInv, StepKeepsIInv, PTL DEF Spec

(* A result that is not a failure has a message in it.                     *)
LEMMA ResultOfDecoding ==
    ASSUME IInv, decoded # None
    PROVE  /\ decoded[1] = DecodeInner(bytes) /\ bytes \in Bytes
           /\ DecodeInner(bytes) = Fail \/ WasThere(bytes)
<1>1. decoded[1] = DecodeInner(bytes) /\ bytes \in Bytes
  BY DEF IInv, DecodedFromBytes, ArrivedAreBytes, Some
<1> QED BY <1>1, DecodedWasThere

(* What arrives are bytes, and what is decoded is a failure or one of the  *)
(* four kinds of message: decode_inner makes nothing else.                 *)
THEOREM TypeCorrect == Spec => []TypeOK
<1>1. IInv => TypeOK
  <2> SUFFICES ASSUME IInv PROVE TypeOK
    OBVIOUS
  <2>1. \A i \in 1..Len(bytes) : bytes[i] \in Byte
    BY DEF IInv, ArrivedAreBytes, Bytes
  <2>2. ASSUME decoded # None, DecodeInner(bytes) # Fail
        PROVE  decoded[1].message.type \in {"Offer", "Answer", "IceCandidate", "Bye"}
    <3>1. PICK m \in AnyMessage : DecodeInner(bytes) = Ok(m)
      BY <2>2, ResultOfDecoding DEF WasThere
    <3>2. Ok(m).message = m
      BY DEF Ok
    <3>3. m.type \in {"Offer", "Answer", "IceCandidate", "Bye"}
      BY DEF AnyMessage, Offer, Answer, IceCandidate, Bye
    <3> QED BY <2>2, <3>1, <3>2, <3>3, ResultOfDecoding
  <2> QED BY <2>1, <2>2, ResultOfDecoding DEF TypeOK
<1> QED BY <1>1, Inductive, PTL

(* A message whose texts fit and that arrives whole decodes to what the    *)
(* wire can tell of it, whatever its texts are and whatever comes after    *)
(* it: the canonical message has the same encoding and decodes to itself.  *)
THEOREM RoundTrips == Spec => []RoundTrip
<1>1. IInv => RoundTrip
  <2> SUFFICES ASSUME IInv, sent # None, decoded # None,
                      LengthsFit(sent[1]), IsPrefix(EncodeInner(sent[1]), bytes)
               PROVE  decoded[1] = Ok(Canonical(sent[1]))
    BY DEF RoundTrip
  <2>1. sent[1] \in AnyMessage /\ EncodeInner(sent[1]) \in Bytes
    BY SentMessage DEF IInv
  <2>2. decoded[1] = DecodeInner(bytes) /\ bytes \in Bytes
    BY ResultOfDecoding
  <2>3. PICK r \in Bytes : bytes = EncodeInner(sent[1]) \o r
    BY <2>1, <2>2, PrefixContinues
  <2>4. /\ Canonical(sent[1]) \in AnyMessage /\ Representable(Canonical(sent[1]))
        /\ EncodeInner(Canonical(sent[1])) = EncodeInner(sent[1])
    BY <2>1, CanonicalIsRepresentable
  <2> QED BY <2>2, <2>3, <2>4, DecodesToItself
<1> QED BY <1>1, Inductive, PTL

(* No beginning of a message whose texts fit is taken for a message: each  *)
(* field says where it ends, so the decoder misses what is not there.      *)
THEOREM DelimitsItself == Spec => []NoMessageFromItsBeginning
<1>1. IInv => NoMessageFromItsBeginning
  <2> SUFFICES ASSUME IInv, sent # None, decoded # None,
                      LengthsFit(sent[1]), IsStrictPrefix(bytes, EncodeInner(sent[1]))
               PROVE  decoded[1] = Fail
    BY DEF NoMessageFromItsBeginning
  <2>1. sent[1] \in AnyMessage /\ EncodeInner(sent[1]) \in Bytes
    BY SentMessage DEF IInv
  <2>2. decoded[1] = DecodeInner(bytes) /\ bytes \in Bytes
    BY ResultOfDecoding
  <2>3. PICK x \in Bytes : EncodeInner(sent[1]) = bytes \o x
    BY <2>1, <2>2, PrefixContinues DEF IsStrictPrefix
  <2>4. bytes # EncodeInner(sent[1])
    BY DEF IsStrictPrefix
  <2>5. x # <<>>
    BY <2>2, <2>3, <2>4, ConcatEmptySeq DEF Bytes
  <2>6. /\ Canonical(sent[1]) \in AnyMessage /\ Representable(Canonical(sent[1]))
        /\ EncodeInner(Canonical(sent[1])) = bytes \o x
    BY <2>1, <2>3, CanonicalIsRepresentable
  <2> QED BY <2>2, <2>3, <2>5, <2>6, NothingFromABeginning
<1> QED BY <1>1, Inductive, PTL

(* Whatever bytes arrive, from a peer or not, a decoded message is what    *)
(* they begin with.                                                        *)
THEOREM InventsNothing == Spec => []NothingInvented
<1>1. IInv => NothingInvented
  <2> SUFFICES ASSUME IInv, decoded # None, decoded[1].ok
               PROVE  IsPrefix(EncodeInner(decoded[1].message), bytes)
    BY DEF NothingInvented
  <2>1. decoded[1] = DecodeInner(bytes) /\ bytes \in Bytes /\ DecodeInner(bytes) # Fail
    BY ResultOfDecoding DEF Fail
  <2>2. PICK m \in AnyMessage, r \in Bytes :
           DecodeInner(bytes) = Ok(m) /\ bytes = EncodeInner(m) \o r
    BY <2>1, ResultOfDecoding DEF WasThere
  <2>3. decoded[1].message = m
    BY <2>1, <2>2 DEF Ok
  <2>4. EncodeInner(m) \in Bytes
    BY EncodingIsBytes
  <2>5. IsPrefix(EncodeInner(m), bytes)
    BY <2>1, <2>2, <2>4, PrefixContinues
  <2> QED BY <2>3, <2>5
<1> QED BY <1>1, Inductive, PTL

(* The limit of encrypt on a whole message keeps every SDP and candidate   *)
(* text within its two-byte length, so that what a session carries is      *)
(* decoded to what was sent.                                               *)
THEOREM SessionsCarryWholeTexts == Spec => []SealedTextsAreWhole
<1>1. ASSUME NEW m \in AnyMessage, Sealable(EncodeInner(m)), MidFits(m)
      PROVE  LengthsFit(m)
  <2> DEFINE e == EncodeInner(m)
  <2>1. /\ e \in Bytes
        /\ m.type \in {"Offer", "Answer"} => Len(m.sdp) <= Len(e)
        /\ m.type = "IceCandidate" => Len(m.candidate) <= Len(e)
    BY EncodingIsBytes
  <2>2. Len(e) \in Nat /\ Len(e) + 1 <= U16 - 1 /\ U16 \in Nat
    BY <1>1, <2>1, BaseAssumption DEF Sealable, TagLength, NOISE_MAX_MESSAGE, U16, Bytes
  <2>3. m.type \in {"Offer", "Answer"} => Len(m.sdp) \in Nat
    BY DEF AnyMessage, Offer, Answer, IceCandidate, Bye, Strings, Bytes
  <2>4. m.type = "IceCandidate" => Len(m.candidate) \in Nat
    BY DEF AnyMessage, Offer, Answer, IceCandidate, Bye, Strings, Bytes
  <2> HIDE DEF e
  <2> QED BY <1>1, <2>1, <2>2, <2>3, <2>4 DEF LengthsFit
<1>2. IInv => SealedTextsAreWhole
  <2> SUFFICES ASSUME IInv, sent # None, decoded # None, Sealable(EncodeInner(sent[1])),
                      IsPrefix(EncodeInner(sent[1]), bytes), MidFits(sent[1])
               PROVE  decoded[1] = Ok(Canonical(sent[1]))
    BY DEF SealedTextsAreWhole
  <2>1. sent[1] \in AnyMessage /\ EncodeInner(sent[1]) \in Bytes
    BY SentMessage DEF IInv
  <2>2. decoded[1] = DecodeInner(bytes) /\ bytes \in Bytes
    BY ResultOfDecoding
  <2>3. PICK r \in Bytes : bytes = EncodeInner(sent[1]) \o r
    BY <2>1, <2>2, PrefixContinues
  <2>4. LengthsFit(sent[1])
    BY <1>1, <2>1
  <2>5. /\ Canonical(sent[1]) \in AnyMessage /\ Representable(Canonical(sent[1]))
        /\ EncodeInner(Canonical(sent[1])) = EncodeInner(sent[1])
    BY <2>1, <2>4, CanonicalIsRepresentable
  <2> QED BY <2>2, <2>3, <2>5, DecodesToItself
<1> QED BY <1>2, Inductive, PTL

=============================================================================
