----------------------------- MODULE SignalCodec -----------------------------
(***************************************************************************)
(* The wire format of WebRTC signaling messages, SignalMessage of          *)
(* rust-core/src/lib.rs: encode_inner, decode_inner and their helpers, and *)
(* a peer that encodes a message, of which the bytes reach the decoder.    *)
(*                                                                         *)
(* A byte is a number below Base (256 in the code), so that a u8 and a u16 *)
(* overflow after few characters.  A text is the sequence of its UTF-8     *)
(* bytes: every lead byte Base - 1 is followed by a continuation Base - 2, *)
(* which occurs nowhere else.                                              *)
(***************************************************************************)
EXTENDS Integers, Sequences, SequencesExt

CONSTANTS
    Base,          \* values of a byte
    Texts,         \* SDP and candidate texts the platform may hand over
    Mids,          \* sdp_mid texts
    MLineIndexes,  \* sdp_mline_index values
    GarbageLength  \* bound: length of byte strings no peer encoded

ASSUME BaseAssumption == Base \in Nat /\ Base > 4

Byte == 0..(Base - 1)
U16 == Base * Base

SIGNAL_TYPE_OFFER == 1
SIGNAL_TYPE_ANSWER == 2
SIGNAL_TYPE_ICE == 3
SIGNAL_TYPE_BYE == 4
SIGNAL_NO_MLINE_INDEX == U16 - 1
NOISE_MAX_MESSAGE == U16 - 1
TagLength == 1   \* what sealing adds: 16 bytes in the code

IsText(bytes) ==
    /\ \A i \in 1..Len(bytes) : bytes[i] = Base - 1 =>
          i < Len(bytes) /\ bytes[i + 1] = Base - 2
    /\ \A i \in 1..Len(bytes) : bytes[i] = Base - 2 =>
          i > 1 /\ bytes[i - 1] = Base - 1

(* A String is a text, and an sdp_mline_index is a u16.                    *)
ASSUME TextsAssumption ==
    /\ \A text \in Texts \cup Mids : text \in Seq(Byte) /\ IsText(text)
    /\ MLineIndexes \subseteq 0..(U16 - 1)
    /\ GarbageLength \in Nat

(* Option<T>: a sequence of at most one element.                           *)
None == <<>>
Some(x) == <<x>>

Offer(sdp) == [type |-> "Offer", sdp |-> sdp]
Answer(sdp) == [type |-> "Answer", sdp |-> sdp]
IceCandidate(candidate, mid, mline) ==
    [type |-> "IceCandidate", candidate |-> candidate,
     sdp_mid |-> mid, sdp_mline_index |-> mline]
Bye == [type |-> "Bye"]

OptionOf(S) == {None} \cup {Some(x) : x \in S}

SignalMessage ==
    {Offer(t) : t \in Texts} \cup {Answer(t) : t \in Texts} \cup {Bye}
    \cup {IceCandidate(c, mid, mline) :
             c \in Texts, mid \in OptionOf(Mids), mline \in OptionOf(MLineIndexes)}

-----------------------------------------------------------------------------
(* Slips a maintainer could make in the definitions below, used only to    *)
(* confirm that some property notices them.                                *)

LittleEndian(digits) ==
    IF Len(digits) = 1 THEN digits[1] ELSE digits[1] + Base * digits[2]
TakeAndPad(cur, n) ==
    [ok |-> TRUE, head |-> [i \in 1..n |-> IF i <= Len(cur) THEN cur[i] ELSE 0],
     tail |-> SubSeq(cur, n + 1, Len(cur))]
NotCast(n, width) == IF width = 1 THEN <<n>> ELSE <<n \div Base, n % Base>>
NoLimit(encoded) == TRUE
ZeroMeansAbsent(n) == IF n = 0 THEN None ELSE Some(n)

-----------------------------------------------------------------------------
(* push_u16_str, push_u8_str: the length is cast, the text is not cut.     *)

BigEndian(n, width) ==
    IF width = 1 THEN <<n % Base>> ELSE <<(n \div Base) % Base, n % Base>>

Prefixed(text, width) == BigEndian(Len(text), width) \o text

UnwrapOr(option, default) == IF option = None THEN default ELSE option[1]

EncodeInner(m) ==
    CASE m.type = "Offer"  -> <<SIGNAL_TYPE_OFFER>> \o Prefixed(m.sdp, 2)
      [] m.type = "Answer" -> <<SIGNAL_TYPE_ANSWER>> \o Prefixed(m.sdp, 2)
      [] m.type = "IceCandidate" ->
            <<SIGNAL_TYPE_ICE>> \o Prefixed(m.candidate, 2)
               \o Prefixed(UnwrapOr(m.sdp_mid, <<>>), 1)
               \o BigEndian(UnwrapOr(m.sdp_mline_index, SIGNAL_NO_MLINE_INDEX), 2)
      [] m.type = "Bye"    -> <<SIGNAL_TYPE_BYE>>

(* take_n, take_u8, take_u16_str, take_u8_str: a piece of the input and    *)
(* what is left of it, or a failure.                                       *)
Fail == [ok |-> FALSE]

TakeN(cur, n) ==
    IF Len(cur) < n THEN Fail
    ELSE [ok |-> TRUE, head |-> SubSeq(cur, 1, n), tail |-> SubSeq(cur, n + 1, Len(cur))]

FromBigEndian(digits) ==
    IF Len(digits) = 1 THEN digits[1] ELSE Base * digits[1] + digits[2]

TakeText(cur, width) ==
    LET length == TakeN(cur, width) IN
    IF ~length.ok THEN Fail
    ELSE LET text == TakeN(length.tail, FromBigEndian(length.head)) IN
         IF text.ok /\ IsText(text.head) THEN text ELSE Fail

Ok(m) == [ok |-> TRUE, message |-> m]

MLineIndex(n) == IF n = SIGNAL_NO_MLINE_INDEX THEN None ELSE Some(n)

DecodeIce(cur) ==
    LET candidate == TakeText(cur, 2) IN
    IF ~candidate.ok THEN Fail
    ELSE LET mid == TakeText(candidate.tail, 1) IN
         IF ~mid.ok THEN Fail
         ELSE LET mline == TakeN(mid.tail, 2) IN
              IF ~mline.ok THEN Fail
              ELSE Ok(IceCandidate(candidate.head,
                         IF mid.head = <<>> THEN None ELSE Some(mid.head),
                         MLineIndex(FromBigEndian(mline.head))))

(* What is left of the input is ignored.                                   *)
DecodeInner(bytes) ==
    LET kind == TakeN(bytes, 1)
        sdp == TakeText(kind.tail, 2) IN
    IF ~kind.ok THEN Fail
    ELSE CASE kind.head[1] = SIGNAL_TYPE_OFFER  -> IF sdp.ok THEN Ok(Offer(sdp.head)) ELSE Fail
           [] kind.head[1] = SIGNAL_TYPE_ANSWER -> IF sdp.ok THEN Ok(Answer(sdp.head)) ELSE Fail
           [] kind.head[1] = SIGNAL_TYPE_ICE    -> DecodeIce(kind.tail)
           [] kind.head[1] = SIGNAL_TYPE_BYE    -> Ok(Bye)
           [] OTHER -> Fail

(* encrypt's buffer holds one Noise message: longer ones are an error.     *)
Sealable(encoded) == Len(encoded) + TagLength <= NOISE_MAX_MESSAGE

-----------------------------------------------------------------------------
VARIABLES
    sent,     \* Some(message) the peer encoded, or None
    bytes,    \* what the decoder gets
    decoded   \* Some(result of decoding them), or None before

vars == <<sent, bytes, decoded>>

Init == sent = None /\ bytes = <<>> /\ decoded = None

(* A peer calls one of the encode_signal_* functions.                      *)
EncodeSignal ==
    /\ sent = None /\ decoded = None
    /\ \E m \in SignalMessage : sent' = Some(m) /\ bytes' = EncodeInner(m)
    /\ UNCHANGED decoded

(* What arrives is all of it, the beginning of it, or more than it.        *)
DecodeArrived ==
    /\ sent # None /\ decoded = None
    /\ \/ \E n \in 0..Len(bytes) : bytes' = SubSeq(bytes, 1, n)
       \/ \E b \in Byte : bytes' = Append(bytes, b)
    /\ decoded' = Some(DecodeInner(bytes'))
    /\ UNCHANGED sent

(* Bytes that no peer encoded.                                             *)
DecodeGarbage ==
    /\ sent = None /\ decoded = None
    /\ \E n \in 0..GarbageLength : bytes' \in [1..n -> Byte]
    /\ decoded' = Some(DecodeInner(bytes'))
    /\ UNCHANGED sent

Next == EncodeSignal \/ DecodeArrived \/ DecodeGarbage

Spec == Init /\ [][Next]_vars

-----------------------------------------------------------------------------
TypeOK ==
    /\ \A i \in 1..Len(bytes) : bytes[i] \in Byte
    /\ decoded # None =>
         \/ decoded[1] = Fail
         \/ decoded[1].message.type \in {"Offer", "Answer", "IceCandidate", "Bye"}

(* The messages whose texts fit their length prefixes.                     *)
MidFits(m) ==
    m.type = "IceCandidate" /\ m.sdp_mid # None => Len(m.sdp_mid[1]) < Base

LengthsFit(m) ==
    /\ m.type \in {"Offer", "Answer"} => Len(m.sdp) < U16
    /\ m.type = "IceCandidate" => Len(m.candidate) < U16
    /\ MidFits(m)

(* The message a receiver is told of: the wire has one sign for an absent  *)
(* sdp_mid and an empty one, and one for an absent m-line index and the    *)
(* greatest u16.                                                           *)
Told(option, sign) == IF option = Some(sign) THEN None ELSE option

Canonical(m) ==
    IF m.type # "IceCandidate" THEN m
    ELSE IceCandidate(m.candidate, Told(m.sdp_mid, <<>>),
                      Told(m.sdp_mline_index, SIGNAL_NO_MLINE_INDEX))

(* A message whose texts fit and that arrives whole, or with bytes after   *)
(* it, decodes to itself, but for those two values of its optional fields, *)
(* which come back as absent; no other value does, nor does an absent      *)
(* field come back as a value.                                             *)
RoundTrip ==
    sent # None /\ decoded # None =>
        LET m == sent[1] IN
        LengthsFit(m) /\ IsPrefix(EncodeInner(m), bytes) => decoded[1] = Ok(Canonical(m))

(* The beginning of such a message is never taken for a message: the       *)
(* format delimits itself.                                                 *)
NoMessageFromItsBeginning ==
    sent # None /\ decoded # None =>
        LET m == sent[1] IN
        LengthsFit(m) /\ IsStrictPrefix(bytes, EncodeInner(m)) => decoded[1] = Fail

(* Whatever bytes arrive, a decoded message is what they begin with: its   *)
(* own encoding is a prefix of them.                                       *)
NothingInvented ==
    decoded # None /\ decoded[1].ok =>
        IsPrefix(EncodeInner(decoded[1].message), bytes)

(* In a session the two-byte lengths never overflow: whatever the length   *)
(* of its SDP or candidate text, a message that encrypt accepts and that   *)
(* arrives whole has all its texts, if its sdp_mid fits its own prefix.    *)
(* The limit of the session, not the codec, is what a long SDP meets.      *)
SealedTextsAreWhole ==
    sent # None /\ decoded # None =>
        LET m == sent[1] IN
        /\ Sealable(EncodeInner(m)) /\ IsPrefix(EncodeInner(m), bytes)
        /\ MidFits(m)
        => decoded[1] = Ok(Canonical(m))

(* lib.rs:262, "carrying SDP/candidate text verbatim": a candidate that    *)
(* arrives whole is refused or has the texts it was sent with.             *)
TextsAreVerbatim ==
    sent # None /\ decoded # None =>
        LET m == sent[1] IN
        (/\ m.type = "IceCandidate" /\ bytes = EncodeInner(m)
         /\ m.sdp_mid # Some(<<>>) /\ m.sdp_mline_index # Some(SIGNAL_NO_MLINE_INDEX)
         /\ Len(m.candidate) < U16) => decoded[1] \in {Fail, Ok(m)}

=============================================================================
