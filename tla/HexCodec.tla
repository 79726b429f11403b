------------------------------ MODULE HexCodec ------------------------------
(***************************************************************************)
(* to_hex, from_hex and hex32 of rust-core/src/lib.rs: every key and grant *)
(* crosses the boundary to Kotlin as hex.                                  *)
(*                                                                         *)
(* A Rust string is UTF-8: lengths and slices count bytes, a character is  *)
(* one byte or a lead byte with its continuations, and a slice that cuts a *)
(* character in two panics.  u8::from_str_radix takes digits of either     *)
(* case and one leading plus sign.                                         *)
(***************************************************************************)
EXTENDS Integers, SequencesExt

CONSTANTS
    Radix,        \* 16 in the code; a byte has two digits
    FirstLetter,  \* the least digit that is a letter, of either case: 10
    KeyBytes,     \* the bytes of a key: 32 in the code
    MaxLength     \* bound: bytes of a text nobody encoded

ASSUME RadixAssumption ==
    /\ Radix \in Nat /\ Radix > 1 /\ FirstLetter \in 0..Radix
    /\ KeyBytes \in Nat \ {0}
    /\ MaxLength \in Nat

(* The bytes of a text, as far as the functions tell them apart.           *)
Lower(d) == [kind |-> "lower", value |-> d]
Upper(d) == [kind |-> "upper", value |-> d]
Plus == [kind |-> "plus", value |-> 0]
Other == [kind |-> "other", value |-> 0]
Lead(size) == [kind |-> "lead", value |-> size]
Continuation == [kind |-> "continuation", value |-> 0]

TextByte == {Lower(d) : d \in 0..(Radix - 1)} \cup {Upper(d) : d \in FirstLetter..(Radix - 1)}
            \cup {Plus, Other, Continuation} \cup {Lead(size) : size \in 2..4}

(* Every lead byte has its continuations, and there are no others.         *)
IsUtf8(s) ==
    /\ \A i \in 1..Len(s) : s[i].kind = "lead" => i + s[i].value - 1 <= Len(s)
    /\ \A i \in 1..Len(s) :
          s[i] = Continuation <=>
              \E j \in 1..(i - 1) : s[j].kind = "lead" /\ i < j + s[j].value

Text == {s \in UNION {[1..n -> TextByte] : n \in 0..MaxLength} : IsUtf8(s)}

-----------------------------------------------------------------------------
(* Slips a maintainer could make in the definitions below, used only to    *)
(* confirm that some property of KeyBoundary notices them.                 *)

Digits(n) == IF n < Radix THEN <<Lower(n)>> ELSE <<Lower(n \div Radix), Lower(n % Radix)>>
Unpadded(bytes) == FlattenSeq([i \in 1..Len(bytes) |-> Digits(bytes[i])])
AnyLength(bytes) == TRUE
LowDigitFirst(s, k) ==
    IF {s[2 * k - 1].kind, s[2 * k].kind} \subseteq {"lower", "upper"}
    THEN Radix * s[2 * k].value + s[2 * k - 1].value ELSE -1

-----------------------------------------------------------------------------
(* to_hex: two lower-case digits for every byte, zeros included.           *)
ToHex(bytes) ==
    [i \in 1..(2 * Len(bytes)) |->
        LET byte == bytes[(i + 1) \div 2] IN
        Lower(IF i % 2 = 1 THEN byte \div Radix ELSE byte % Radix)]

IsDigit(c) == c.kind \in {"lower", "upper"}

(* from_str_radix of the k-th pair of bytes: a value, or -1 for an error.  *)
PairValue(s, k) ==
    LET first == s[2 * k - 1]
        second == s[2 * k] IN
    IF ~IsDigit(second) THEN -1
    ELSE IF IsDigit(first) THEN Radix * first.value + second.value
    ELSE IF first = Plus THEN second.value ELSE -1

(* The slice of the k-th pair begins or ends inside a character.           *)
Cut(s, k) ==
    \/ s[2 * k - 1] = Continuation
    \/ 2 * k < Len(s) /\ s[2 * k + 1] = Continuation

Ok(value) == [kind |-> "Ok", value |-> value]
Err(why) == [kind |-> "Err", why |-> why]
Panic == [kind |-> "Panic"]

EvenLength(s) == Len(s) % 2 = 0

(* The pairs are taken in order: the first that is cut or invalid decides. *)
FromHex(s) ==
    LET pairs == 1..(Len(s) \div 2)
        bad == {k \in pairs : Cut(s, k) \/ PairValue(s, k) = -1} IN
    IF ~EvenLength(s) THEN Err("odd length")
    ELSE IF bad = {} THEN Ok([k \in pairs |-> PairValue(s, k)])
    ELSE IF Cut(s, Min(bad)) THEN Panic ELSE Err("invalid hex character")

IsKey(bytes) == Len(bytes) = KeyBytes

Hex32(s) ==
    LET r == FromHex(s) IN
    IF r.kind = "Ok" /\ ~IsKey(r.value) THEN Err("expected 32 bytes") ELSE r

=============================================================================
