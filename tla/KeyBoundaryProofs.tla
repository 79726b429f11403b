-------------------------- MODULE KeyBoundaryProofs ---------------------------
(***************************************************************************)
(* Proofs about HexCodec and KeyBoundary, for every radix, length of keys  *)
(* and set of key pairs.                                                   *)
(***************************************************************************)
EXTENDS KeyBoundary, SequenceTheorems, TLAPS

RawByte == 0..(Radix * Radix - 1)
Raw == Seq(RawByte)
Key == [1..KeyBytes -> RawByte]
HexText == Seq(TextByte)

-----------------------------------------------------------------------------
(* Two digits and the number they make.                                    *)
LEMMA DigitsOf ==
    ASSUME NEW B \in Nat, B > 0, NEW n \in 0..(B * B - 1)
    PROVE  /\ n \div B \in 0..(B - 1) /\ n % B \in 0..(B - 1)
           /\ B * (n \div B) + (n % B) = n
<1> DEFINE q == n \div B
<1>1. /\ q \in Int /\ n % B \in 0..(B - 1) /\ n = B * q + (n % B)
      /\ B * B \in Int /\ n \in Nat /\ n < B * B
  OBVIOUS
<1>2. ASSUME q <= -1 PROVE FALSE
  <2>1. B * q <= B * (-1)
    BY <1>1, <1>2
  <2> QED BY <1>1, <2>1
<1>3. ASSUME q >= B PROVE FALSE
  <2>1. B * q >= B * B
    BY <1>1, <1>3
  <2> QED BY <1>1, <2>1
<1> QED BY <1>1, <1>2, <1>3

(* The number has these digits and no others.                              *)
LEMMA NumberOf ==
    ASSUME NEW B \in Nat, B > 0, NEW a \in 0..(B - 1), NEW b \in 0..(B - 1)
    PROVE  /\ B * a + b \in 0..(B * B - 1)
           /\ (B * a + b) \div B = a /\ (B * a + b) % B = b
<1> DEFINE n == B * a + b
           q == n \div B
<1>1. B * a \in Nat /\ n \in Nat /\ B * B \in Nat
  OBVIOUS
<1>2. B * a <= B * (B - 1) /\ B * (B - 1) = B * B - B
  OBVIOUS
<1>3. q \in Int /\ n % B \in 0..(B - 1) /\ n = B * q + (n % B)
  BY <1>1
<1>4. ASSUME q <= a - 1 PROVE FALSE
  <2>1. B * q <= B * (a - 1) /\ B * (a - 1) = B * a - B
    BY <1>3, <1>4
  <2> QED BY <1>1, <1>3, <2>1
<1>5. ASSUME q >= a + 1 PROVE FALSE
  <2>1. B * q >= B * (a + 1) /\ B * (a + 1) = B * a + B
    BY <1>3, <1>5
  <2> QED BY <1>1, <1>3, <2>1
<1>6. q = a
  BY <1>3, <1>4, <1>5
<1> QED BY <1>1, <1>2, <1>3, <1>6

(* Even and odd lengths.                                                   *)
LEMMA Halves ==
    ASSUME NEW n \in Nat
    PROVE  /\ (2 * n) % 2 = 0 /\ (2 * n) \div 2 = n
           /\ (2 * n + 1) % 2 = 1 /\ (2 * n + 1) \div 2 = n
           /\ n % 2 = 0 => n \div 2 \in Nat /\ n = 2 * (n \div 2)
  OBVIOUS

(* Every raw byte has two digits.                                          *)
LEMMA RawDigits ==
    ASSUME NEW x \in RawByte
    PROVE  /\ x \div Radix \in 0..(Radix - 1) /\ x % Radix \in 0..(Radix - 1)
           /\ Radix * (x \div Radix) + (x % Radix) = x /\ x \in Nat
<1>1. Radix \in Nat /\ Radix > 0 /\ x \in 0..(Radix * Radix - 1)
  BY RadixAssumption DEF RawByte
<1> QED BY <1>1, DigitsOf

-----------------------------------------------------------------------------
(* A text says some bytes: it has their digits, in either case.            *)
Says(s, bytes) ==
    /\ Len(s) = 2 * Len(bytes)
    /\ \A k \in 1..Len(bytes) :
          /\ IsDigit(s[2 * k - 1]) /\ s[2 * k - 1].value = bytes[k] \div Radix
          /\ IsDigit(s[2 * k]) /\ s[2 * k].value = bytes[k] % Radix

(* Whatever says some bytes is decoded to them.                            *)
LEMMA SaidIsDecoded ==
    ASSUME NEW bytes \in Raw, NEW s \in HexText, Says(s, bytes)
    PROVE  FromHex(s) = Ok(bytes)
<1> DEFINE n == Len(bytes)
<1>1. n \in Nat /\ Len(s) = 2 * n /\ bytes \in [1..n -> RawByte]
  BY DEF Raw, Says
<1>2. EvenLength(s) /\ Len(s) \div 2 = n
  BY <1>1, Halves DEF EvenLength
<1>3. ASSUME NEW k \in 1..n PROVE PairValue(s, k) = bytes[k] /\ bytes[k] # -1
  <2>1. /\ IsDigit(s[2 * k - 1]) /\ s[2 * k - 1].value = bytes[k] \div Radix
        /\ IsDigit(s[2 * k]) /\ s[2 * k].value = bytes[k] % Radix
    BY <1>3 DEF Says
  <2>2. PairValue(s, k) = Radix * (bytes[k] \div Radix) + (bytes[k] % Radix)
    BY <2>1 DEF PairValue
  <2>3. bytes[k] \in RawByte
    BY <1>1, <1>3
  <2> QED BY <2>2, <2>3, RawDigits
<1>4. ASSUME NEW k \in 1..n PROVE ~Cut(s, k)
  <2>1. \A j \in 1..n : s[2 * j - 1] # Continuation
    BY DEF Says, IsDigit, Continuation
  <2>2. 2 * k < Len(s) => k + 1 \in 1..n /\ 2 * k + 1 = 2 * (k + 1) - 1
    BY <1>1, <1>4
  <2> QED BY <1>4, <2>1, <2>2 DEF Cut
<1>5. [k \in 1..n |-> PairValue(s, k)] = bytes
  BY <1>1, <1>3
<1> HIDE DEF n
<1>6. {k \in 1..n : Cut(s, k) \/ PairValue(s, k) = -1} = {}
  BY <1>3, <1>4
<1> QED BY <1>2, <1>5, <1>6 DEF FromHex

(* to_hex says its bytes, in lower case.                                   *)
LEMMA HexIsSaid ==
    ASSUME NEW bytes \in Raw
    PROVE  LET s == ToHex(bytes) IN
           /\ s \in HexText /\ Says(s, bytes)
           /\ \A i \in 1..Len(s) : s[i].kind = "lower"
<1> DEFINE n == Len(bytes)
           s == ToHex(bytes)
           Digit(i) == IF i % 2 = 1 THEN bytes[(i + 1) \div 2] \div Radix
                       ELSE bytes[(i + 1) \div 2] % Radix
<1>1. n \in Nat /\ \A k \in 1..n : bytes[k] \in RawByte
  BY DEF Raw
<1>2. s = [i \in 1..(2 * n) |-> Lower(Digit(i))]
  BY DEF ToHex
<1>3. \A k \in 1..n : /\ Digit(2 * k - 1) = bytes[k] \div Radix
                      /\ Digit(2 * k) = bytes[k] % Radix
  <2>1. ASSUME NEW k \in 1..n
        PROVE  Digit(2 * k - 1) = bytes[k] \div Radix /\ Digit(2 * k) = bytes[k] % Radix
    <3>1. /\ (2 * k - 1) % 2 = 1 /\ ((2 * k - 1) + 1) \div 2 = k
          /\ (2 * k) % 2 = 0 /\ (2 * k + 1) \div 2 = k
      BY <1>1, <2>1
    <3> QED BY <3>1
  <2> QED BY <2>1
<1>4. ASSUME NEW i \in 1..(2 * n) PROVE Digit(i) \in 0..(Radix - 1)
  <2>1. (i + 1) \div 2 \in 1..n
    BY <1>1, <1>4
  <2>2. bytes[(i + 1) \div 2] \in RawByte
    BY <1>1, <2>1
  <2> QED BY <2>2, RawDigits
<1> HIDE DEF s, Digit
<1>5. \A i \in 1..(2 * n) : s[i] = Lower(Digit(i)) /\ s[i] \in TextByte
  BY <1>2, <1>4 DEF TextByte
<1>6. s \in [1..(2 * n) -> TextByte] /\ 2 * n \in Nat
  BY <1>1, <1>2, <1>5
<1>7. s \in HexText /\ Len(s) = 2 * n
  BY <1>6 DEF HexText
<1>8. ASSUME NEW k \in 1..n
      PROVE  /\ IsDigit(s[2 * k - 1]) /\ s[2 * k - 1].value = bytes[k] \div Radix
             /\ IsDigit(s[2 * k]) /\ s[2 * k].value = bytes[k] % Radix
  <2>1. 2 * k - 1 \in 1..(2 * n) /\ 2 * k \in 1..(2 * n)
    BY <1>1, <1>8
  <2>2. \A d : IsDigit(Lower(d)) /\ Lower(d).value = d
    BY DEF Lower, IsDigit
  <2>3. s[2 * k - 1] = Lower(Digit(2 * k - 1)) /\ s[2 * k] = Lower(Digit(2 * k))
    BY <1>5, <2>1
  <2> QED BY <1>3, <2>2, <2>3
<1>9. \A i \in 1..Len(s) : s[i].kind = "lower"
  BY <1>5, <1>7 DEF Lower
<1> QED BY <1>7, <1>8, <1>9 DEF Says, s

(* Capitals say the same bytes.                                            *)
LEMMA RecasedIsSaid ==
    ASSUME NEW bytes \in Raw
    PROVE  Recased(ToHex(bytes)) \in HexText /\ Says(Recased(ToHex(bytes)), bytes)
<1> DEFINE s == ToHex(bytes)
           t == Recased(s)
<1>1. s \in HexText /\ Says(s, bytes) /\ \A i \in 1..Len(s) : s[i].kind = "lower"
  BY HexIsSaid
<1>2. Len(bytes) \in Nat
  BY DEF Raw
<1> HIDE DEF s
<1>3. Len(s) \in Nat /\ s \in [1..Len(s) -> TextByte]
  BY <1>1 DEF HexText
<1>4. ASSUME NEW i \in 1..Len(s)
      PROVE  t[i] \in TextByte /\ IsDigit(t[i]) /\ t[i].value = s[i].value
  <2>1. s[i] \in TextByte /\ s[i].kind = "lower"
    BY <1>1, <1>3
  <2>2. PICK d \in 0..(Radix - 1) : s[i] = Lower(d)
    BY <2>1 DEF TextByte, Lower, Upper, Plus, Other, Continuation, Lead
  <2>3. s[i].value = d
    BY <2>2 DEF Lower
  <2>4. t[i] = IF d >= FirstLetter THEN Upper(d) ELSE Lower(d)
    BY <1>3, <2>2, <2>3 DEF Recased
  <2>5. CASE d >= FirstLetter
    <3>1. d \in FirstLetter..(Radix - 1)
      BY <2>5, RadixAssumption
    <3>2. Upper(d) \in TextByte /\ IsDigit(Upper(d)) /\ Upper(d).value = d
      BY <3>1 DEF TextByte, Upper, IsDigit
    <3> QED BY <2>3, <2>4, <2>5, <3>2
  <2>6. CASE ~(d >= FirstLetter)
    <3>1. Lower(d) \in TextByte /\ IsDigit(Lower(d)) /\ Lower(d).value = d
      BY DEF TextByte, Lower, IsDigit
    <3> QED BY <2>3, <2>4, <2>6, <3>1
  <2> QED BY <2>5, <2>6
<1>5. t \in [1..Len(s) -> TextByte]
  BY <1>3, <1>4 DEF Recased
<1> HIDE DEF t
<1>6. t \in HexText /\ Len(t) = Len(s)
  BY <1>3, <1>5 DEF HexText
<1>7. ASSUME NEW k \in 1..Len(bytes)
      PROVE  /\ IsDigit(t[2 * k - 1]) /\ t[2 * k - 1].value = bytes[k] \div Radix
             /\ IsDigit(t[2 * k]) /\ t[2 * k].value = bytes[k] % Radix
  <2>1. 2 * k - 1 \in 1..Len(s) /\ 2 * k \in 1..Len(s)
    BY <1>1, <1>2, <1>7 DEF Says
  <2> QED BY <1>1, <1>4, <1>7, <2>1 DEF Says
<1>8. Len(t) = 2 * Len(bytes)
  BY <1>1, <1>6 DEF Says
<1> QED BY <1>6, <1>7, <1>8 DEF Says, s, t

(* What is left of a sequence that lost its last element.                  *)
LEMMA FrontOf ==
    ASSUME NEW S, NEW q \in Seq(S), Len(q) > 0
    PROVE  /\ Front(q) \in Seq(S) /\ Len(Front(q)) = Len(q) - 1
           /\ \A i \in 1..(Len(q) - 1) : Front(q)[i] = q[i]
<1> DEFINE m == Len(q) - 1
           f == [i \in 1..m |-> q[i]]
<1>1. m \in Nat /\ q \in [1..Len(q) -> S]
  OBVIOUS
<1>2. \A i \in 1..m : q[i] \in S
  BY <1>1
<1>3. Front(q) = f
  BY DEF Front
<1>4. f \in [1..m -> S] /\ \A i \in 1..m : f[i] = q[i]
  BY <1>2
<1> HIDE DEF f, m
<1>5. f \in Seq(S) /\ Len(f) = m
  BY <1>1, <1>4
<1> QED BY <1>3, <1>4, <1>5 DEF m

(* The same of texts.                                                      *)
LEMMA FrontOfText ==
    \A q \in HexText : Len(q) > 0 =>
        /\ Front(q) \in HexText /\ Len(Front(q)) = Len(q) - 1
        /\ \A i \in 1..(Len(q) - 1) : Front(q)[i] = q[i]
<1> SUFFICES ASSUME NEW q \in Seq(TextByte), Len(q) > 0
             PROVE  /\ Front(q) \in Seq(TextByte) /\ Len(Front(q)) = Len(q) - 1
                    /\ \A i \in 1..(Len(q) - 1) : Front(q)[i] = q[i]
  BY DEF HexText
<1> QED BY FrontOf

(* A text that lost a digit has an odd length, and one that lost two says  *)
(* one byte less.                                                          *)
LEMMA CutIsShorter ==
    ASSUME NEW bytes \in Raw, Len(bytes) > 0, NEW s \in HexText, Says(s, bytes)
    PROVE  /\ FromHex(Front(s)).kind = "Err"
           /\ Front(Front(s)) \in HexText /\ Says(Front(Front(s)), Front(bytes))
           /\ Front(bytes) \in Raw /\ Len(Front(bytes)) = Len(bytes) - 1
<1> DEFINE n == Len(bytes)
           u == Front(s)
           v == Front(u)
           w == Front(bytes)
<1>1. n \in Nat /\ n > 0 /\ Len(s) = 2 * n
  BY DEF Raw, Says
<1>2. /\ u \in HexText /\ Len(u) = 2 * n - 1
      /\ \A i \in 1..(2 * n - 1) : u[i] = s[i]
  <2>1. s \in HexText /\ Len(s) > 0
    BY <1>1
  <2>2. /\ u \in HexText /\ Len(u) = Len(s) - 1
        /\ \A i \in 1..(Len(s) - 1) : u[i] = s[i]
    BY <2>1, FrontOfText
  <2> QED BY <1>1, <2>2
<1>3. /\ w \in Raw /\ Len(w) = n - 1
      /\ \A k \in 1..(n - 1) : w[k] = bytes[k]
  BY <1>1, FrontOf DEF Raw
<1> HIDE DEF u, w
<1>4. /\ v \in HexText /\ Len(v) = 2 * n - 2
      /\ \A i \in 1..(2 * n - 2) : v[i] = u[i]
  <2>1. u \in HexText /\ Len(u) > 0
    BY <1>1, <1>2
  <2>2. /\ v \in HexText /\ Len(v) = Len(u) - 1
        /\ \A i \in 1..(Len(u) - 1) : v[i] = u[i]
    BY <2>1, FrontOfText
  <2> QED BY <1>1, <1>2, <2>2
<1> HIDE DEF v
<1>5. FromHex(u).kind = "Err"
  <2>1. n - 1 \in Nat /\ Len(u) = 2 * (n - 1) + 1
    BY <1>1, <1>2
  <2>2. Len(u) % 2 = 1
    BY <2>1, Halves
  <2>3. ~EvenLength(u)
    BY <2>2 DEF EvenLength
  <2> QED BY <2>3 DEF FromHex, Err
<1>6. Says(v, w)
  <2>1. Len(v) = 2 * Len(w)
    BY <1>1, <1>3, <1>4
  <2>2. ASSUME NEW k \in 1..Len(w)
        PROVE  /\ IsDigit(v[2 * k - 1]) /\ v[2 * k - 1].value = w[k] \div Radix
               /\ IsDigit(v[2 * k]) /\ v[2 * k].value = w[k] % Radix
    <3>1. /\ k \in 1..n /\ 2 * k - 1 \in 1..(2 * n - 2) /\ 2 * k \in 1..(2 * n - 2)
          /\ 2 * k - 1 \in 1..(2 * n - 1) /\ 2 * k \in 1..(2 * n - 1) /\ k \in 1..(n - 1)
      BY <1>1, <1>3, <2>2
    <3>2. v[2 * k - 1] = s[2 * k - 1] /\ v[2 * k] = s[2 * k] /\ w[k] = bytes[k]
      BY <1>2, <1>3, <1>4, <3>1
    <3> QED BY <3>1, <3>2 DEF Says
  <2> QED BY <2>1, <2>2 DEF Says
<1> QED BY <1>3, <1>4, <1>5, <1>6 DEF u, v, w

-----------------------------------------------------------------------------
(* Keys.  Keys are raw bytes.                                              *)
LEMMA KeysAreRaw == \A key \in Key : key \in Raw /\ Len(key) = KeyBytes /\ IsKey(key)
  BY RadixAssumption DEF Key, Raw, IsKey

(* A remainder wraps around once at most.                                  *)
LEMMA WrapsOnce ==
    ASSUME NEW M \in Nat, M > 0, NEW z \in Nat, z < 2 * M
    PROVE  z % M = IF z < M THEN z ELSE z - M
<1> DEFINE q == z \div M
<1>1. q \in Int /\ z % M \in 0..(M - 1) /\ z = M * q + (z % M)
  OBVIOUS
<1>2. ASSUME q <= -1 PROVE FALSE
  <2>1. M * q <= M * (-1)
    BY <1>1, <1>2
  <2> QED BY <1>1, <2>1
<1>3. ASSUME q >= 2 PROVE FALSE
  <2>1. M * q >= M * 2
    BY <1>1, <1>3
  <2> QED BY <1>1, <2>1
<1>4. q = 0 \/ q = 1
  BY <1>1, <1>2, <1>3
<1> HIDE DEF q
<1>5. CASE q = 0
  BY <1>1, <1>5
<1>6. CASE q = 1
  BY <1>1, <1>6
<1> QED BY <1>4, <1>5, <1>6

(* Numbers that are moved by the same distance stay apart.                 *)
LEMMA MovesApart ==
    ASSUME NEW M \in Nat, NEW d \in Nat, d < M, NEW x \in 0..(M - 1), NEW y \in 0..(M - 1)
    PROVE  /\ (x + d) % M \in 0..(M - 1)
           /\ (x + d) % M = (y + d) % M => x = y
<1>1. /\ x + d \in Nat /\ x + d < 2 * M
      /\ y + d \in Nat /\ y + d < 2 * M /\ M > 0
  OBVIOUS
<1>2. (x + d) % M = IF x + d < M THEN x + d ELSE (x + d) - M
  BY <1>1, WrapsOnce
<1>3. (y + d) % M = IF y + d < M THEN y + d ELSE (y + d) - M
  BY <1>1, WrapsOnce
<1> QED BY <1>1, <1>2, <1>3

(* A private key has a public key, and no two have the same.               *)
LEMMA PublicKeys ==
    /\ \A key \in Key : PublicOf(key) \in Key
    /\ \A s, t \in Key : PublicOf(s) = PublicOf(t) => s = t
<1> DEFINE M == Radix * Radix
           Shifted(x) == (x + Radix + 1) % M
<1>1. M \in Nat /\ Radix + 1 \in Nat /\ Radix + 1 < M
  <2>1. Radix \in Nat /\ Radix >= 2
    BY RadixAssumption
  <2>2. Radix * Radix >= 2 * Radix
    BY <2>1
  <2> QED BY <2>1, <2>2
<1> HIDE DEF M
<1>2. ASSUME NEW x \in 0..(M - 1), NEW y \in 0..(M - 1)
      PROVE  Shifted(x) \in 0..(M - 1) /\ (Shifted(x) = Shifted(y) => x = y)
  <2>1. /\ (x + (Radix + 1)) % M \in 0..(M - 1)
        /\ (x + (Radix + 1)) % M = (y + (Radix + 1)) % M => x = y
    BY <1>1, MovesApart
  <2>2. x + (Radix + 1) = x + Radix + 1 /\ y + (Radix + 1) = y + Radix + 1
    BY <1>1, RadixAssumption
  <2> QED BY <2>1, <2>2
<1>3. /\ \A x \in 0..(M - 1) : Shifted(x) \in 0..(M - 1)
      /\ \A x, y \in 0..(M - 1) : Shifted(x) = Shifted(y) => x = y
  BY <1>2
<1>4. RawByte = 0..(M - 1)
  BY DEF RawByte, M
<1>5. ASSUME NEW key \in Key
      PROVE  PublicOf(key) = [i \in 1..KeyBytes |-> Shifted(key[i])]
  BY DEF Key, PublicOf, M
<1> HIDE DEF Shifted
<1>6. ASSUME NEW key \in Key PROVE PublicOf(key) \in Key
  <2>1. \A i \in 1..KeyBytes : Shifted(key[i]) \in RawByte
    BY <1>3, <1>4 DEF Key
  <2>2. PublicOf(key) = [i \in 1..KeyBytes |-> Shifted(key[i])]
    BY <1>5
  <2> QED BY <2>1, <2>2 DEF Key
<1>7. ASSUME NEW s \in Key, NEW t \in Key, PublicOf(s) = PublicOf(t) PROVE s = t
  <2>1. \A i \in 1..KeyBytes : Shifted(s[i]) = Shifted(t[i])
    <3>1. PublicOf(s) = [i \in 1..KeyBytes |-> Shifted(s[i])]
      BY <1>5
    <3>2. PublicOf(t) = [i \in 1..KeyBytes |-> Shifted(t[i])]
      BY <1>5
    <3> QED BY <1>7, <3>1, <3>2
  <2>2. \A i \in 1..KeyBytes : s[i] = t[i]
    BY <1>3, <1>4, <2>1 DEF Key
  <2>3. s = [i \in 1..KeyBytes |-> s[i]] /\ t = [i \in 1..KeyBytes |-> t[i]]
    BY DEF Key
  <2> QED BY <2>2, <2>3
<1> QED BY <1>6, <1>7

(* What texts that arrive are decoded to.                                  *)
LEMMA CopiesAreDecoded ==
    ASSUME NEW bytes \in Raw, Len(bytes) > 0, NEW copy \in Copies(ToHex(bytes))
    PROVE  /\ copy.cut \in BOOLEAN
           /\ ~copy.cut => FromHex(copy.text) = Ok(bytes)
           /\ copy.cut => \/ FromHex(copy.text).kind = "Err"
                          \/ FromHex(copy.text) = Ok(Front(bytes))
<1> DEFINE s == ToHex(bytes)
<1>1. s \in HexText /\ Says(s, bytes) /\ Recased(s) \in HexText /\ Says(Recased(s), bytes)
  BY HexIsSaid, RecasedIsSaid
<1>2. FromHex(s) = Ok(bytes) /\ FromHex(Recased(s)) = Ok(bytes)
  BY <1>1, SaidIsDecoded
<1>3. /\ FromHex(Front(s)).kind = "Err"
      /\ Front(Front(s)) \in HexText /\ Says(Front(Front(s)), Front(bytes))
      /\ Front(bytes) \in Raw
  BY <1>1, CutIsShorter
<1>4. FromHex(Front(Front(s))) = Ok(Front(bytes))
  BY <1>3, SaidIsDecoded
<1> HIDE DEF s
<1>5. \/ copy = [cut |-> FALSE, text |-> s]
      \/ copy = [cut |-> FALSE, text |-> Recased(s)]
      \/ copy = [cut |-> TRUE, text |-> Front(s)]
      \/ copy = [cut |-> TRUE, text |-> Front(Front(s))]
  BY DEF Copies, s
<1>6. CASE copy = [cut |-> FALSE, text |-> s]
  BY <1>2, <1>6
<1>7. CASE copy = [cut |-> FALSE, text |-> Recased(s)]
  BY <1>2, <1>7
<1>8. CASE copy = [cut |-> TRUE, text |-> Front(s)]
  BY <1>3, <1>8
<1>9. CASE copy = [cut |-> TRUE, text |-> Front(Front(s))]
  BY <1>4, <1>9
<1> QED BY <1>5, <1>6, <1>7, <1>8, <1>9

(* A key that arrives whole is accepted, one that was cut refused.         *)
LEMMA KeysAreParsed ==
    ASSUME NEW key \in Key
    PROVE  /\ Hex32(ToHex(key)) = Ok(key)
           /\ \A copy \in Copies(ToHex(key)) :
                 /\ copy.cut \in BOOLEAN
                 /\ ~copy.cut => Hex32(copy.text) = Ok(key)
                 /\ copy.cut => Hex32(copy.text).kind = "Err"
<1>1. key \in Raw /\ Len(key) = KeyBytes /\ IsKey(key) /\ Len(key) > 0
  BY KeysAreRaw, RadixAssumption
<1>2. ASSUME NEW text, FromHex(text) = Ok(key) PROVE Hex32(text) = Ok(key)
  BY <1>1, <1>2 DEF Hex32, Ok
<1>3. ASSUME NEW text, FromHex(text).kind = "Err" PROVE Hex32(text).kind = "Err"
  BY <1>3 DEF Hex32
<1>4. ASSUME NEW text, FromHex(text) = Ok(Front(key)) PROVE Hex32(text).kind = "Err"
  <2>1. Len(Front(key)) = KeyBytes - 1
    BY <1>1, FrontOf DEF Raw
  <2>2. ~IsKey(Front(key))
    BY <2>1, RadixAssumption DEF IsKey
  <2> QED BY <1>4, <2>2 DEF Hex32, Ok, Err
<1>5. Hex32(ToHex(key)) = Ok(key)
  BY <1>1, <1>2, HexIsSaid, SaidIsDecoded
<1>6. ASSUME NEW copy \in Copies(ToHex(key))
      PROVE  /\ copy.cut \in BOOLEAN
             /\ ~copy.cut => Hex32(copy.text) = Ok(key)
             /\ copy.cut => Hex32(copy.text).kind = "Err"
  BY <1>1, <1>2, <1>3, <1>4, CopiesAreDecoded
<1> QED BY <1>5, <1>6

(* Arguments are parsed until one fails.                                   *)
LEMMA ParsedInOrder ==
    ASSUME NEW value, NEW a, NEW b, NEW c
    PROVE  /\ a.kind = "Ok" => Parsed(<<a>>, value) = Ok(value)
           /\ a.kind = "Err" => Parsed(<<a>>, value).kind = "Err"
           /\ a.kind = "Ok" /\ b.kind = "Ok" => Parsed(<<a, b>>, value) = Ok(value)
           /\ a.kind = "Ok" /\ b.kind = "Err" => Parsed(<<a, b>>, value).kind = "Err"
           /\ a.kind = "Ok" /\ b.kind = "Ok" /\ c.kind = "Ok"
                => Parsed(<<a, b, c>>, value) = Ok(value)
           /\ a.kind = "Ok" /\ b.kind = "Ok" /\ c.kind = "Err"
                => Parsed(<<a, b, c>>, value).kind = "Err"
<1>1. \A n \in Nat : Min({n}) = n
  BY DEF Min
<1>2. ASSUME a.kind = "Ok" PROVE Parsed(<<a>>, value) = Ok(value)
  <2>1. {i \in DOMAIN <<a>> : <<a>>[i].kind # "Ok"} = {}
    BY <1>2
  <2> QED BY <2>1 DEF Parsed
<1>3. ASSUME a.kind = "Err" PROVE Parsed(<<a>>, value).kind = "Err"
  <2>1. {i \in DOMAIN <<a>> : <<a>>[i].kind # "Ok"} = {1}
    BY <1>3
  <2>2. Parsed(<<a>>, value) = <<a>>[1]
    BY <1>1, <2>1 DEF Parsed
  <2> QED BY <1>3, <2>2
<1>4. ASSUME a.kind = "Ok", b.kind = "Ok" PROVE Parsed(<<a, b>>, value) = Ok(value)
  <2>1. {i \in DOMAIN <<a, b>> : <<a, b>>[i].kind # "Ok"} = {}
    BY <1>4
  <2> QED BY <2>1 DEF Parsed
<1>5. ASSUME a.kind = "Ok", b.kind = "Err" PROVE Parsed(<<a, b>>, value).kind = "Err"
  <2>1. {i \in DOMAIN <<a, b>> : <<a, b>>[i].kind # "Ok"} = {2}
    BY <1>5
  <2>2. Parsed(<<a, b>>, value) = <<a, b>>[2]
    BY <1>1, <2>1 DEF Parsed
  <2> QED BY <1>5, <2>2
<1>6. ASSUME a.kind = "Ok", b.kind = "Ok", c.kind = "Ok"
      PROVE  Parsed(<<a, b, c>>, value) = Ok(value)
  <2>1. {i \in DOMAIN <<a, b, c>> : <<a, b, c>>[i].kind # "Ok"} = {}
    BY <1>6
  <2> QED BY <2>1 DEF Parsed
<1>7. ASSUME a.kind = "Ok", b.kind = "Ok", c.kind = "Err"
      PROVE  Parsed(<<a, b, c>>, value).kind = "Err"
  <2>1. {i \in DOMAIN <<a, b, c>> : <<a, b, c>>[i].kind # "Ok"} = {3}
    BY <1>7
  <2>2. Parsed(<<a, b, c>>, value) = <<a, b, c>>[3]
    BY <1>1, <2>1 DEF Parsed
  <2> QED BY <1>7, <2>2
<1> QED BY <1>2, <1>3, <1>4, <1>5, <1>6, <1>7

Zeros == [i \in 1..KeyBytes |-> 0]

(* The channel of two keys, of which the second may have arrived cut.      *)
LEMMA ChannelOfCopy ==
    ASSUME NEW s \in Key, NEW t \in Key, NEW copy \in Copies(ToHex(t))
    PROVE  LET result == ChannelIdForLink(OperatorHex, ToHex(s), copy.text) IN
           /\ ~copy.cut => result = Ok(ChannelId(Zeros, s, t))
           /\ copy.cut => result.kind = "Err"
<1>1. Zeros \in Key
  <2>1. 0 \in RawByte
    <3>1. Radix * Radix \in Nat /\ Radix * Radix >= 2 * Radix
      BY RadixAssumption
    <3> QED BY <3>1, RadixAssumption DEF RawByte
  <2> QED BY <2>1 DEF Zeros, Key
<1>2. Hex32(OperatorHex) = Ok(Zeros) /\ Hex32(ToHex(s)) = Ok(s)
  BY <1>1, KeysAreParsed DEF OperatorHex, Zeros
<1>3. Ok(Zeros).kind = "Ok" /\ Ok(Zeros).value = Zeros /\ Ok(s).kind = "Ok" /\ Ok(s).value = s
  BY DEF Ok
<1> DEFINE r == Hex32(copy.text)
           v == ChannelId(Zeros, s, r.value)
<1>4. ChannelIdForLink(OperatorHex, ToHex(s), copy.text) = Parsed(<<Ok(Zeros), Ok(s), r>>, v)
  BY <1>2, <1>3 DEF ChannelIdForLink
<1>5. /\ r.kind = "Ok" => Parsed(<<Ok(Zeros), Ok(s), r>>, v) = Ok(v)
      /\ r.kind = "Err" => Parsed(<<Ok(Zeros), Ok(s), r>>, v).kind = "Err"
  <2> DEFINE o == Ok(Zeros)
             k == Ok(s)
  <2>1. o.kind = "Ok" /\ k.kind = "Ok"
    BY <1>3
  <2> HIDE DEF r, v, o, k
  <2>2. /\ r.kind = "Ok" => Parsed(<<o, k, r>>, v) = Ok(v)
        /\ r.kind = "Err" => Parsed(<<o, k, r>>, v).kind = "Err"
    BY <2>1, ParsedInOrder
  <2> QED BY <2>2 DEF o, k
<1>6. ASSUME ~copy.cut
      PROVE  ChannelIdForLink(OperatorHex, ToHex(s), copy.text) = Ok(ChannelId(Zeros, s, t))
  <2>1. r = Ok(t) /\ Ok(t).kind = "Ok" /\ Ok(t).value = t
    BY <1>6, KeysAreParsed DEF Ok
  <2>2. v = ChannelId(Zeros, s, t) /\ r.kind = "Ok"
    BY <2>1
  <2> HIDE DEF r, v
  <2> QED BY <1>4, <1>5, <2>2
<1>7. ASSUME copy.cut
      PROVE  ChannelIdForLink(OperatorHex, ToHex(s), copy.text).kind = "Err"
  <2>1. r.kind = "Err"
    BY <1>7, KeysAreParsed
  <2> HIDE DEF r, v
  <2> QED BY <1>4, <1>5, <2>1
<1> QED BY <1>6, <1>7

(* An initiator for two keys, of which the second may have arrived cut.    *)
LEMMA InitiatorOfCopy ==
    ASSUME NEW s \in Key, NEW t \in Key, NEW copy \in Copies(ToHex(t))
    PROVE  LET result == NewInitiator(ToHex(s), copy.text) IN
           /\ ~copy.cut => result = Ok([local |-> s, remote |-> t])
           /\ copy.cut => result.kind = "Err"
<1>1. Hex32(ToHex(s)) = Ok(s) /\ Ok(s).kind = "Ok" /\ Ok(s).value = s
  BY KeysAreParsed DEF Ok
<1> DEFINE r == Hex32(copy.text)
           v == [local |-> s, remote |-> r.value]
<1>2. NewInitiator(ToHex(s), copy.text) = Parsed(<<Ok(s), r>>, v)
  BY <1>1 DEF NewInitiator
<1>3. /\ r.kind = "Ok" => Parsed(<<Ok(s), r>>, v) = Ok(v)
      /\ r.kind = "Err" => Parsed(<<Ok(s), r>>, v).kind = "Err"
  <2> HIDE DEF r, v
  <2> QED BY <1>1, ParsedInOrder
<1>4. ASSUME ~copy.cut
      PROVE  NewInitiator(ToHex(s), copy.text) = Ok([local |-> s, remote |-> t])
  <2>1. r = Ok(t) /\ Ok(t).kind = "Ok" /\ Ok(t).value = t
    BY <1>4, KeysAreParsed DEF Ok
  <2>2. v = [local |-> s, remote |-> t] /\ r.kind = "Ok"
    BY <2>1
  <2> HIDE DEF r, v
  <2> QED BY <1>2, <1>3, <2>2
<1>5. ASSUME copy.cut PROVE NewInitiator(ToHex(s), copy.text).kind = "Err"
  <2>1. r.kind = "Err"
    BY <1>5, KeysAreParsed
  <2> HIDE DEF r, v
  <2> QED BY <1>2, <1>3, <2>1
<1> QED BY <1>4, <1>5

(* A member's own key never fails to be parsed.                            *)
LEMMA OwnKeyIsTaken ==
    ASSUME NEW s \in Key, NEW message
    PROVE  /\ NewResponder(ToHex(s)) = Ok([local |-> s])
           /\ HolderSign(ToHex(s), message) = Ok([key |-> s, message |-> message])
<1>1. Hex32(ToHex(s)) = Ok(s) /\ Ok(s).kind = "Ok" /\ Ok(s).value = s
  BY KeysAreParsed DEF Ok
<1> QED BY <1>1, ParsedInOrder DEF NewResponder, HolderSign

(* A grant is one byte longer than a key, and one that was cut is none.    *)
LEMMA JoinOfCopy ==
    ASSUME NEW public \in Key, NEW m, NEW copy \in Copies(ToHex(GrantFor(public)))
    PROVE  LET result == BuildChannelJoinRequest(copy.text, m) IN
           /\ copy.cut \in BOOLEAN
           /\ ~copy.cut => result = Ok([grant |-> GrantFor(public), endpoint |-> m])
           /\ copy.cut => result.kind = "Err"
<1> DEFINE grant == GrantFor(public)
<1>1. public \in Seq(RawByte) /\ Len(public) = KeyBytes /\ KeyBytes \in Nat
  BY KeysAreRaw, RadixAssumption DEF Raw
<1>2. 0 \in RawByte
  <2>1. Radix * Radix \in Nat /\ Radix * Radix >= 2 * Radix
    BY RadixAssumption
  <2> QED BY <2>1, RadixAssumption DEF RawByte
<1>3. grant \in Seq(RawByte) /\ Len(grant) = KeyBytes + 1 /\ Last(grant) = 0
  BY <1>1, <1>2 DEF GrantFor, Last
<1>4. grant \in Raw /\ Len(grant) > 0 /\ GrantDecodes(grant)
  BY <1>1, <1>3 DEF Raw, GrantDecodes
<1>5. ~GrantDecodes(Front(grant))
  <2>1. Len(Front(grant)) = KeyBytes
    BY <1>1, <1>3, FrontOf
  <2> QED BY <1>1, <2>1 DEF GrantDecodes
<1> HIDE DEF grant
<1>6. copy \in Copies(ToHex(grant))
  BY DEF grant
<1>7. ASSUME ~copy.cut
      PROVE  BuildChannelJoinRequest(copy.text, m) = Ok([grant |-> grant, endpoint |-> m])
  <2>1. FromHex(copy.text) = Ok(grant) /\ Ok(grant).kind = "Ok" /\ Ok(grant).value = grant
    BY <1>4, <1>6, <1>7, CopiesAreDecoded DEF Ok
  <2> QED BY <1>4, <2>1, ParsedInOrder DEF BuildChannelJoinRequest
<1>8. ASSUME FromHex(copy.text).kind = "Err"
      PROVE  BuildChannelJoinRequest(copy.text, m).kind = "Err"
  BY <1>8, ParsedInOrder DEF BuildChannelJoinRequest
<1>9. ASSUME FromHex(copy.text) = Ok(Front(grant))
      PROVE  BuildChannelJoinRequest(copy.text, m).kind = "Err"
  BY <1>5, <1>9 DEF BuildChannelJoinRequest, Ok, Err
<1>10. copy.cut \in BOOLEAN /\ (copy.cut => BuildChannelJoinRequest(copy.text, m).kind = "Err")
  BY <1>4, <1>6, <1>8, <1>9, CopiesAreDecoded
<1> QED BY <1>7, <1>10 DEF grant

-----------------------------------------------------------------------------
(* Digits have the values of digits, and a lower-case one is its value.    *)
LEMMA DigitValues ==
    ASSUME NEW c \in TextByte
    PROVE  /\ IsDigit(c) => c.value \in 0..(Radix - 1)
           /\ c.kind = "lower" => c = Lower(c.value)
<1>1. Radix \in Nat /\ FirstLetter \in Nat
  BY RadixAssumption
<1>2. ASSUME NEW d \in 0..(Radix - 1), c = Lower(d)
      PROVE  c.value \in 0..(Radix - 1) /\ c = Lower(c.value)
  BY <1>2 DEF Lower
<1>3. ASSUME NEW d \in FirstLetter..(Radix - 1), c = Upper(d)
      PROVE  c.value \in 0..(Radix - 1) /\ c.kind # "lower"
  BY <1>1, <1>3 DEF Upper
<1>4. ASSUME c \in {Plus, Other, Continuation} \/ \E size \in 2..4 : c = Lead(size)
      PROVE  ~IsDigit(c) /\ c.kind # "lower"
  BY <1>4 DEF Plus, Other, Continuation, Lead, IsDigit
<1> QED BY <1>2, <1>3, <1>4 DEF TextByte

(* The value of a pair that is accepted has the digits of the pair, a plus *)
(* sign counting as a zero.                                                *)
LEMMA PairIsItsDigits ==
    ASSUME NEW s \in HexText, NEW k \in Nat, k > 0, 2 * k <= Len(s), PairValue(s, k) # -1
    PROVE  /\ PairValue(s, k) \in RawByte
           /\ Lower(PairValue(s, k) \div Radix) = Plain(s)[2 * k - 1]
           /\ Lower(PairValue(s, k) % Radix) = Plain(s)[2 * k]
<1> DEFINE first == s[2 * k - 1]
           second == s[2 * k]
           x == PairValue(s, k)
<1>1. /\ Len(s) \in Nat /\ s \in [1..Len(s) -> TextByte]
      /\ 2 * k - 1 \in 1..Len(s) /\ 2 * k \in 1..Len(s)
  BY DEF HexText
<1>2. first \in TextByte /\ second \in TextByte
  BY <1>1
<1>3. (2 * k - 1) % 2 = 1 /\ (2 * k) % 2 = 0
  OBVIOUS
<1>4. /\ Plain(s)[2 * k - 1] = IF IsDigit(first) THEN Lower(first.value)
                               ELSE IF first = Plus THEN Lower(0) ELSE first
      /\ Plain(s)[2 * k] = IF IsDigit(second) THEN Lower(second.value) ELSE second
  BY <1>1, <1>3 DEF Plain
<1>5. /\ IsDigit(second)
      /\ \/ IsDigit(first) /\ x = Radix * first.value + second.value
         \/ ~IsDigit(first) /\ first = Plus /\ x = second.value
  BY DEF PairValue
<1> HIDE DEF first, second, x
<1>6. Radix \in Nat /\ Radix > 0
  BY RadixAssumption
<1>7. second.value \in 0..(Radix - 1)
  BY <1>2, <1>5, DigitValues
<1>8. CASE IsDigit(first)
  <2>1. first.value \in 0..(Radix - 1)
    BY <1>2, <1>8, DigitValues
  <2>2. x = Radix * first.value + second.value
    BY <1>5, <1>8
  <2>3. x \in RawByte /\ x \div Radix = first.value /\ x % Radix = second.value
    BY <1>6, <1>7, <2>1, <2>2, NumberOf DEF RawByte
  <2> QED BY <1>4, <1>5, <1>8, <2>3 DEF x
<1>9. CASE ~IsDigit(first)
  <2>1. x = Radix * 0 + second.value /\ 0 \in 0..(Radix - 1) /\ first = Plus
    BY <1>5, <1>6, <1>7, <1>9
  <2>2. x \in RawByte /\ x \div Radix = 0 /\ x % Radix = second.value
    BY <1>6, <1>7, <2>1, NumberOf DEF RawByte
  <2> QED BY <1>4, <1>5, <1>9, <2>1, <2>2 DEF x
<1> QED BY <1>8, <1>9

(* A text that is accepted says what it is decoded to: encoding that gives *)
(* back the text, its letters in lower case and its plus signs as zeros.   *)
LEMMA AcceptedSays ==
    ASSUME NEW s \in HexText, FromHex(s).kind = "Ok"
    PROVE  ToHex(FromHex(s).value) = Plain(s)
<1> DEFINE n == Len(s) \div 2
           bytes == [k \in 1..n |-> PairValue(s, k)]
<1>1. Len(s) \in Nat /\ s \in [1..Len(s) -> TextByte]
  BY DEF HexText
<1>2. /\ EvenLength(s)
      /\ \A k \in 1..n : PairValue(s, k) # -1
      /\ FromHex(s).value = bytes
  <2> DEFINE bad == {k \in 1..n : Cut(s, k) \/ PairValue(s, k) = -1}
  <2>1. FromHex(s) = IF ~EvenLength(s) THEN Err("odd length")
                     ELSE IF bad = {} THEN Ok(bytes)
                     ELSE IF Cut(s, Min(bad)) THEN Panic ELSE Err("invalid hex character")
    BY DEF FromHex
  <2> HIDE DEF bad, bytes
  <2>2. Panic.kind # "Ok" /\ \A why : Err(why).kind # "Ok"
    BY DEF Err, Panic
  <2>3. EvenLength(s) /\ bad = {}
    BY <2>1, <2>2
  <2>4. FromHex(s).value = bytes
    BY <2>1, <2>3 DEF Ok
  <2>5. \A k \in 1..n : PairValue(s, k) # -1
    BY <2>3 DEF bad
  <2> QED BY <2>3, <2>4, <2>5
<1>3. n \in Nat /\ Len(s) = 2 * n
  BY <1>1, <1>2, Halves DEF EvenLength
<1> HIDE DEF n
<1>4. ASSUME NEW k \in 1..n
      PROVE  /\ bytes[k] \in RawByte
             /\ Lower(bytes[k] \div Radix) = Plain(s)[2 * k - 1]
             /\ Lower(bytes[k] % Radix) = Plain(s)[2 * k]
  <2>1. k \in Nat /\ k > 0 /\ 2 * k <= Len(s) /\ PairValue(s, k) # -1
    BY <1>2, <1>3, <1>4
  <2> QED BY <1>4, <2>1, PairIsItsDigits
<1>5. bytes \in [1..n -> RawByte]
  BY <1>4
<1>6. bytes \in Raw /\ Len(bytes) = n
  BY <1>3, <1>5 DEF Raw
<1> HIDE DEF bytes
<1> DEFINE t == ToHex(bytes)
<1>7. /\ t \in HexText /\ Len(t) = 2 * n /\ Says(t, bytes)
      /\ \A i \in 1..Len(t) : t[i].kind = "lower"
  BY <1>6, HexIsSaid DEF Says
<1> HIDE DEF t
<1>8. t \in [1..(2 * n) -> TextByte]
  BY <1>3, <1>7 DEF HexText
<1>9. \A i \in 1..(2 * n) : t[i] = Lower(t[i].value)
  BY <1>7, <1>8, DigitValues
<1>10. ASSUME NEW i \in 1..(2 * n) PROVE t[i] = Plain(s)[i]
  <2>1. PICK k \in 1..n : i = 2 * k - 1 \/ i = 2 * k
    <3>1. (i + 1) \div 2 \in 1..n
      BY <1>3, <1>10
    <3>2. i = 2 * ((i + 1) \div 2) - 1 \/ i = 2 * ((i + 1) \div 2)
      BY <1>3, <1>10
    <3> QED BY <3>1, <3>2
  <2>2. /\ t[2 * k - 1].value = bytes[k] \div Radix
        /\ t[2 * k].value = bytes[k] % Radix
    BY <1>6, <1>7 DEF Says
  <2>3. t[2 * k - 1] = Lower(bytes[k] \div Radix) /\ t[2 * k] = Lower(bytes[k] % Radix)
    <3>1. 2 * k - 1 \in 1..(2 * n) /\ 2 * k \in 1..(2 * n)
      BY <1>3
    <3> QED BY <1>9, <2>2, <3>1
  <2> QED BY <1>4, <2>1, <2>3
<1>11. Plain(s) = [i \in 1..(2 * n) |-> Plain(s)[i]]
  <2>1. DOMAIN s = 1..(2 * n)
    BY <1>1, <1>3
  <2> QED BY <2>1 DEF Plain
<1>12. t = [i \in 1..(2 * n) |-> t[i]]
  BY <1>8
<1>13. t = Plain(s)
  BY <1>10, <1>11, <1>12
<1> QED BY <1>2, <1>13 DEF t

-----------------------------------------------------------------------------
(* The invariant.  Identities are texts of keys, and every call is what it *)
(* is for the keys of the identities it is about.                          *)
IdentityOf(secret) == [public_hex |-> ToHex(PublicOf(secret)), private_hex |-> ToHex(secret)]

Identity == {IdentityOf(secret) : secret \in Key}
Identities == Seq(Identity) \ {<<>>}

GeneratedInOrder == generated \in 4..Len(SecretsInOrder)

IdentitiesAreGenerated ==
    identities \in [Member -> [holder : Identities, noise : Identities]]

Accepts(c, s, t) ==
    \/ /\ c.function = "channel"
       /\ c.result = Ok(ChannelId(Zeros, PublicOf(s), PublicOf(t)))
    \/ /\ c.function = "initiator"
       /\ c.result = Ok([local |-> s, remote |-> PublicOf(t)])
    \/ /\ c.function = "responder" /\ s = t
       /\ c.result = Ok([local |-> s])
    \/ /\ c.function = "join" /\ s = t
       /\ \E m \in Member : c.result = Ok([grant |-> GrantFor(PublicOf(s)), endpoint |-> m])
    \/ /\ c.function = "sign" /\ s = t
       /\ c.result = Ok([key |-> s, message |-> "challenge"])

IsAbout(c, s, t) ==
    /\ c.own = IdentityOf(s) /\ c.other = IdentityOf(t) /\ c.cut \in BOOLEAN
    /\ IF c.cut THEN c.result.kind = "Err" ELSE Accepts(c, s, t)

CallsAreAboutKeys == \A c \in calls : \E s, t \in Key : IsAbout(c, s, t)

GarbageIsParsed ==
    garbage # NoCall =>
        /\ garbage.text \in Text
        /\ garbage.request = BuildChannelJoinRequest(garbage.text, "endpoint")
        /\ garbage.responder = NewResponder(garbage.text)

IInv == GeneratedInOrder /\ IdentitiesAreGenerated /\ CallsAreAboutKeys /\ GarbageIsParsed

(* The key pairs come from the list, one after the other.                  *)
LEMMA SecretsAreKeys ==
    /\ Len(SecretsInOrder) \in Nat /\ Len(SecretsInOrder) >= 4
    /\ \A n \in 1..Len(SecretsInOrder) : SecretsInOrder[n] \in Key
  BY SecretsAssumption DEF Key, RawByte

(* What the two generating functions make.                                 *)
LEMMA GeneratedIdentity ==
    ASSUME NEW secret \in Key
    PROVE  /\ GenerateHolderIdentity(secret) = IdentityOf(secret)
           /\ GenerateNoiseIdentity(secret) = IdentityOf(secret)
           /\ IdentityOf(secret) \in Identity
  BY DEF GenerateHolderIdentity, GenerateNoiseIdentity, IdentityOf, Identity

(* An identity is the last generated, or one generated before.             *)
LEMMA KnownIdentities ==
    ASSUME IdentitiesAreGenerated, NEW m \in Member
    PROVE  /\ Current(m).holder \in Identity /\ Current(m).noise \in Identity
           /\ ToSet(identities[m].holder) \subseteq Identity
           /\ ToSet(identities[m].noise) \subseteq Identity
<1>1. identities[m].holder \in Identities /\ identities[m].noise \in Identities
  BY DEF IdentitiesAreGenerated
<1>2. ASSUME NEW q \in Identities PROVE Last(q) \in Identity /\ ToSet(q) \subseteq Identity
  <2>1. q \in Seq(Identity) /\ Len(q) \in Nat /\ Len(q) # 0
    BY EmptySeq DEF Identities
  <2> QED BY <2>1 DEF Last, ToSet
<1>3. /\ Current(m).holder = Last(identities[m].holder)
      /\ Current(m).noise = Last(identities[m].noise)
  BY DEF Current
<1> QED BY <1>1, <1>2, <1>3

(* At first everyone has one pair of each kind, and no call was made.      *)
LEMMA InitEstablishesIInv == Init => IInv
<1> SUFFICES ASSUME Init PROVE IInv
  OBVIOUS
<1>1. GeneratedInOrder
  BY SecretsAreKeys DEF Init, GeneratedInOrder
<1>2. IdentitiesAreGenerated
  <2>1. \A n \in 1..4 : /\ GenerateHolderIdentity(SecretsInOrder[n]) \in Identity
                        /\ GenerateNoiseIdentity(SecretsInOrder[n]) \in Identity
    BY SecretsAreKeys, GeneratedIdentity
  <2>2. \A i \in Identity : <<i>> \in Identities
    BY DEF Identities
  <2>3. ASSUME NEW m \in Member
        PROVE  LET n == IF m = "a" THEN 1 ELSE 2 IN
               [holder |-> <<GenerateHolderIdentity(SecretsInOrder[n])>>,
                noise |-> <<GenerateNoiseIdentity(SecretsInOrder[n + 2])>>]
                  \in [holder : Identities, noise : Identities]
    <3>1. \A n \in 1..2 : n \in 1..4 /\ n + 2 \in 1..4
      OBVIOUS
    <3> QED BY <2>1, <2>2, <3>1
  <2> QED BY <2>3 DEF Init, IdentitiesAreGenerated
<1>3. CallsAreAboutKeys
  BY DEF Init, CallsAreAboutKeys
<1>4. GarbageIsParsed
  BY DEF Init, GarbageIsParsed
<1> QED BY <1>1, <1>2, <1>3, <1>4 DEF IInv

(* A call that is recorded changes nothing else.                           *)
LEMMA CallKeepsIInv ==
    ASSUME IInv, NEW function, NEW result, NEW own, NEW other, NEW cut,
           Call(function, result, own, other, cut), NEW s \in Key, NEW t \in Key,
           IsAbout([function |-> function, result |-> result,
                    own |-> own, other |-> other, cut |-> cut], s, t)
    PROVE  IInv'
<1> DEFINE c == [function |-> function, result |-> result,
                 own |-> own, other |-> other, cut |-> cut]
<1>1. calls' = calls \cup {c} /\ UNCHANGED <<generated, identities, garbage>>
  BY DEF Call
<1> HIDE DEF c
<1>2. CallsAreAboutKeys'
  BY <1>1 DEF IInv, CallsAreAboutKeys, c
<1>3. GeneratedInOrder' /\ IdentitiesAreGenerated' /\ GarbageIsParsed'
  BY <1>1 DEF IInv, GeneratedInOrder, IdentitiesAreGenerated, GarbageIsParsed
<1> QED BY <1>2, <1>3 DEF IInv

(* An identity is generated from a key and has its texts.                  *)
LEMMA IdentityTexts ==
    ASSUME NEW i \in Identity
    PROVE  \E s \in Key : /\ i = IdentityOf(s)
                          /\ PublicOf(s) \in Key
                          /\ i.public_hex = ToHex(PublicOf(s))
                          /\ i.private_hex = ToHex(s)
<1>1. PICK s \in Key : i = IdentityOf(s)
  BY DEF Identity
<1>2. PublicOf(s) \in Key
  BY PublicKeys
<1>3. i.public_hex = ToHex(PublicOf(s)) /\ i.private_hex = ToHex(s)
  BY <1>1 DEF IdentityOf
<1> QED BY <1>1, <1>2, <1>3

(* A copy arrives whole or cut.                                            *)
LEMMA CutOrWhole ==
    ASSUME NEW text, NEW copy \in Copies(text)
    PROVE  copy.cut \in BOOLEAN
<1>1. \E cut \in BOOLEAN, t \in {text, Recased(text), Front(text), Front(Front(text))} :
         copy = [cut |-> cut, text |-> t]
  BY DEF Copies
<1> QED BY <1>1

(* Both members compute the channel of the keys they know.                 *)
LEMMA ComputesChannelKeepsIInv ==
    ASSUME IInv, NEW m \in Member, ComputesChannel(m)
    PROVE  IInv'
<1> DEFINE own == Current(m).holder
<1>1. Peer(m) \in Member /\ IdentitiesAreGenerated
  BY DEF Peer, Member, IInv
<1>2. PICK other \in ToSet(identities[Peer(m)].holder) :
      \E copy \in Copies(other.public_hex) :
         Call("channel", ChannelIdForLink(OperatorHex, own.public_hex, copy.text),
              own, other, copy.cut)
  BY DEF ComputesChannel
<1>3. PICK copy \in Copies(other.public_hex) :
         Call("channel", ChannelIdForLink(OperatorHex, own.public_hex, copy.text),
              own, other, copy.cut)
  BY <1>2
<1>4. own \in Identity /\ other \in Identity
  BY <1>1, KnownIdentities
<1> HIDE DEF own
<1>5. PICK s \in Key : own = IdentityOf(s) /\ PublicOf(s) \in Key
                       /\ own.public_hex = ToHex(PublicOf(s))
  BY <1>4, IdentityTexts
<1>6. PICK t \in Key : other = IdentityOf(t) /\ PublicOf(t) \in Key
                       /\ other.public_hex = ToHex(PublicOf(t))
  BY <1>4, IdentityTexts
<1> DEFINE result == ChannelIdForLink(OperatorHex, own.public_hex, copy.text)
<1>7. /\ ~copy.cut => result = Ok(ChannelId(Zeros, PublicOf(s), PublicOf(t)))
      /\ copy.cut => result.kind = "Err"
  <2> DEFINE ps == PublicOf(s)
             pt == PublicOf(t)
  <2>1. /\ ps \in Key /\ pt \in Key /\ copy \in Copies(ToHex(pt))
        /\ own.public_hex = ToHex(ps)
    BY <1>5, <1>6
  <2> HIDE DEF ps, pt
  <2>2. /\ ~copy.cut => ChannelIdForLink(OperatorHex, ToHex(ps), copy.text)
                           = Ok(ChannelId(Zeros, ps, pt))
        /\ copy.cut => ChannelIdForLink(OperatorHex, ToHex(ps), copy.text).kind = "Err"
    BY <2>1, ChannelOfCopy
  <2> QED BY <2>1, <2>2 DEF ps, pt
<1> DEFINE cut == copy.cut
<1>8. cut \in BOOLEAN
  BY CutOrWhole
<1>9. Call("channel", result, own, other, cut)
  BY <1>3
<1> HIDE DEF result, cut
<1>10. IsAbout([function |-> "channel", result |-> result,
                own |-> own, other |-> other, cut |-> cut], s, t)
  BY <1>5, <1>6, <1>7, <1>8 DEF IsAbout, Accepts, cut
<1> QED BY <1>9, <1>10, CallKeepsIInv

(* An initiator is made from the own private and the other's public key.   *)
LEMMA InitiatesKeepsIInv ==
    ASSUME IInv, NEW m \in Member, Initiates(m)
    PROVE  IInv'
<1> DEFINE own == Current(m).noise
<1>1. Peer(m) \in Member /\ IdentitiesAreGenerated
  BY DEF Peer, Member, IInv
<1>2. PICK other \in ToSet(identities[Peer(m)].noise) :
      \E copy \in Copies(other.public_hex) :
         Call("initiator", NewInitiator(own.private_hex, copy.text), own, other, copy.cut)
  BY DEF Initiates
<1>3. PICK copy \in Copies(other.public_hex) :
         Call("initiator", NewInitiator(own.private_hex, copy.text), own, other, copy.cut)
  BY <1>2
<1>4. own \in Identity /\ other \in Identity
  BY <1>1, KnownIdentities
<1> HIDE DEF own
<1>5. PICK s \in Key : own = IdentityOf(s) /\ own.private_hex = ToHex(s)
  BY <1>4, IdentityTexts
<1>6. PICK t \in Key : other = IdentityOf(t) /\ PublicOf(t) \in Key
                       /\ other.public_hex = ToHex(PublicOf(t))
  BY <1>4, IdentityTexts
<1> DEFINE result == NewInitiator(own.private_hex, copy.text)
<1>7. /\ ~copy.cut => result = Ok([local |-> s, remote |-> PublicOf(t)])
      /\ copy.cut => result.kind = "Err"
  <2> DEFINE pt == PublicOf(t)
  <2>1. pt \in Key /\ copy \in Copies(ToHex(pt)) /\ own.private_hex = ToHex(s)
    BY <1>5, <1>6
  <2> HIDE DEF pt
  <2>2. /\ ~copy.cut => NewInitiator(ToHex(s), copy.text) = Ok([local |-> s, remote |-> pt])
        /\ copy.cut => NewInitiator(ToHex(s), copy.text).kind = "Err"
    BY <2>1, InitiatorOfCopy
  <2> QED BY <2>1, <2>2 DEF pt
<1> DEFINE cut == copy.cut
<1>8. cut \in BOOLEAN
  BY CutOrWhole
<1>9. Call("initiator", result, own, other, cut)
  BY <1>3
<1> HIDE DEF result, cut
<1>10. IsAbout([function |-> "initiator", result |-> result,
                own |-> own, other |-> other, cut |-> cut], s, t)
  BY <1>5, <1>6, <1>7, <1>8 DEF IsAbout, Accepts, cut
<1> QED BY <1>9, <1>10, CallKeepsIInv

(* A responder and a signature are made from the own private key.          *)
LEMMA OwnCallsKeepIInv ==
    ASSUME IInv, NEW m \in Member, Responds(m) \/ ProvesPossession(m)
    PROVE  IInv'
<1>1. Current(m).noise \in Identity /\ Current(m).holder \in Identity
  BY KnownIdentities DEF IInv
<1>2. ASSUME Responds(m) PROVE IInv'
  <2> DEFINE own == Current(m).noise
             result == NewResponder(own.private_hex)
  <2>1. Call("responder", result, own, own, FALSE)
    BY <1>2 DEF Responds
  <2>2. PICK s \in Key : own = IdentityOf(s) /\ own.private_hex = ToHex(s)
    BY <1>1, IdentityTexts
  <2>3. result = Ok([local |-> s])
    BY <2>2, OwnKeyIsTaken
  <2> HIDE DEF own, result
  <2>4. IsAbout([function |-> "responder", result |-> result,
                 own |-> own, other |-> own, cut |-> FALSE], s, s)
    BY <2>2, <2>3 DEF IsAbout, Accepts
  <2> QED BY <2>1, <2>4, CallKeepsIInv
<1>3. ASSUME ProvesPossession(m) PROVE IInv'
  <2> DEFINE own == Current(m).holder
             result == HolderSign(own.private_hex, "challenge")
  <2>1. Call("sign", result, own, own, FALSE)
    BY <1>3 DEF ProvesPossession
  <2>2. PICK s \in Key : own = IdentityOf(s) /\ own.private_hex = ToHex(s)
    BY <1>1, IdentityTexts
  <2>3. result = Ok([key |-> s, message |-> "challenge"])
    BY <2>2, OwnKeyIsTaken
  <2> HIDE DEF own, result
  <2>4. IsAbout([function |-> "sign", result |-> result,
                 own |-> own, other |-> own, cut |-> FALSE], s, s)
    BY <2>2, <2>3 DEF IsAbout, Accepts
  <2> QED BY <2>1, <2>4, CallKeepsIInv
<1> QED BY <1>2, <1>3

(* A member joins with a grant for an identity of its own.                 *)
LEMMA JoinsKeepsIInv ==
    ASSUME IInv, NEW m \in Member, Joins(m)
    PROVE  IInv'
<1>1. IdentitiesAreGenerated
  BY DEF IInv
<1>2. PICK own \in ToSet(identities[m].holder) :
      \E copy \in Copies(ToHex(GrantFor(Hex32(own.public_hex).value))) :
         Call("join", BuildChannelJoinRequest(copy.text, m), own, own, copy.cut)
  BY DEF Joins
<1>3. PICK copy \in Copies(ToHex(GrantFor(Hex32(own.public_hex).value))) :
         Call("join", BuildChannelJoinRequest(copy.text, m), own, own, copy.cut)
  BY <1>2
<1>4. own \in Identity
  BY <1>1, KnownIdentities
<1>5. PICK s \in Key : own = IdentityOf(s) /\ PublicOf(s) \in Key
                       /\ own.public_hex = ToHex(PublicOf(s))
  BY <1>4, IdentityTexts
<1>6. Hex32(own.public_hex).value = PublicOf(s)
  <2>1. Hex32(ToHex(PublicOf(s))) = Ok(PublicOf(s))
    BY <1>5, KeysAreParsed
  <2> QED BY <1>5, <2>1 DEF Ok
<1> DEFINE result == BuildChannelJoinRequest(copy.text, m)
           cut == copy.cut
<1>7. /\ cut \in BOOLEAN
      /\ ~cut => result = Ok([grant |-> GrantFor(PublicOf(s)), endpoint |-> m])
      /\ cut => result.kind = "Err"
  <2> DEFINE ps == PublicOf(s)
  <2>1. ps \in Key /\ copy \in Copies(ToHex(GrantFor(ps)))
    BY <1>5, <1>6
  <2> HIDE DEF ps
  <2>2. /\ copy.cut \in BOOLEAN
        /\ ~copy.cut => BuildChannelJoinRequest(copy.text, m)
                          = Ok([grant |-> GrantFor(ps), endpoint |-> m])
        /\ copy.cut => BuildChannelJoinRequest(copy.text, m).kind = "Err"
    BY <2>1, JoinOfCopy
  <2> QED BY <2>2 DEF ps
<1>8. Call("join", result, own, own, cut)
  BY <1>3
<1> HIDE DEF result, cut
<1>9. IsAbout([function |-> "join", result |-> result,
               own |-> own, other |-> own, cut |-> cut], s, s)
  <2> DEFINE c == [function |-> "join", result |-> result,
                   own |-> own, other |-> own, cut |-> cut]
  <2>1. /\ c.function = "join" /\ c.result = result /\ c.own = own
        /\ c.other = own /\ c.cut = cut
    OBVIOUS
  <2> HIDE DEF c
  <2>2. ~cut => Accepts(c, s, s)
    BY <1>7, <2>1 DEF Accepts
  <2>3. IsAbout(c, s, s)
    BY <1>5, <1>7, <2>1, <2>2 DEF IsAbout
  <2> QED BY <2>3 DEF c
<1> QED BY <1>8, <1>9, CallKeepsIInv

(* An identity that is generated again follows those a member had.         *)
LEMMA GenerateAgainKeepsIInv ==
    ASSUME IInv, NEW m \in Member, GenerateAgain(m)
    PROVE  IInv'
<1> DEFINE secret == SecretsInOrder[generated + 1]
<1>1. generated' = generated + 1 /\ generated + 1 \in 5..Len(SecretsInOrder)
  BY SecretsAreKeys DEF IInv, GeneratedInOrder, GenerateAgain
<1>2. generated + 1 \in 1..Len(SecretsInOrder)
  BY <1>1, SecretsAreKeys
<1>3. secret \in Key
  BY <1>2, SecretsAreKeys
<1>4. PICK i \in Identity :
         \/ identities' = [identities EXCEPT ![m].holder = Append(@, i)]
         \/ identities' = [identities EXCEPT ![m].noise = Append(@, i)]
  <2> HIDE DEF secret
  <2>1. \/ identities' = [identities EXCEPT
                ![m].holder = Append(@, GenerateHolderIdentity(secret))]
        \/ identities' = [identities EXCEPT
                ![m].noise = Append(@, GenerateNoiseIdentity(secret))]
    BY DEF GenerateAgain, secret
  <2>2. /\ GenerateHolderIdentity(secret) = IdentityOf(secret)
        /\ GenerateNoiseIdentity(secret) = IdentityOf(secret)
        /\ IdentityOf(secret) \in Identity
    BY <1>3, GeneratedIdentity
  <2> QED BY <2>1, <2>2
<1> HIDE DEF secret
<1>5. ASSUME NEW q \in Identities PROVE Append(q, i) \in Identities
  <2>1. q \in Seq(Identity)
    BY DEF Identities
  <2>2. Append(q, i) \in Seq(Identity) /\ Len(Append(q, i)) = Len(q) + 1 /\ Len(q) \in Nat
    BY <2>1
  <2>3. Append(q, i) # <<>>
    BY <2>2
  <2> QED BY <2>2, <2>3 DEF Identities
<1>6. IdentitiesAreGenerated'
  <2>1. identities \in [Member -> [holder : Identities, noise : Identities]]
    BY DEF IInv, IdentitiesAreGenerated
  <2>2. /\ identities[m] \in [holder : Identities, noise : Identities]
        /\ Append(identities[m].holder, i) \in Identities
        /\ Append(identities[m].noise, i) \in Identities
    BY <1>5, <2>1
  <2>3. /\ [identities[m] EXCEPT !.holder = Append(@, i)]
              \in [holder : Identities, noise : Identities]
        /\ [identities[m] EXCEPT !.noise = Append(@, i)]
              \in [holder : Identities, noise : Identities]
    BY <2>2
  <2>4. \E e \in [holder : Identities, noise : Identities] :
           identities' = [identities EXCEPT ![m] = e]
    BY <1>4, <2>3
  <2>5. identities' \in [Member -> [holder : Identities, noise : Identities]]
    BY <2>1, <2>4
  <2> QED BY <2>5 DEF IdentitiesAreGenerated
<1>7. UNCHANGED <<calls, garbage>>
  BY DEF GenerateAgain
<1>8. GeneratedInOrder'
  BY <1>1, SecretsAreKeys DEF GeneratedInOrder
<1>9. CallsAreAboutKeys' /\ GarbageIsParsed'
  BY <1>7 DEF IInv, CallsAreAboutKeys, GarbageIsParsed
<1> QED BY <1>6, <1>8, <1>9 DEF IInv

(* A text nobody encoded goes to two functions.                            *)
LEMMA GetsGarbageKeepsIInv == IInv /\ GetsGarbage => IInv'
<1> SUFFICES ASSUME IInv, GetsGarbage PROVE IInv'
  OBVIOUS
<1>1. PICK s \in Text :
         garbage' = [kind |-> "call", text |-> s,
                     request |-> BuildChannelJoinRequest(s, "endpoint"),
                     responder |-> NewResponder(s)]
  BY DEF GetsGarbage
<1>2. UNCHANGED <<generated, identities, calls>>
  BY DEF GetsGarbage
<1>3. GarbageIsParsed'
  <2>1. /\ garbage'.text = s
        /\ garbage'.request = BuildChannelJoinRequest(s, "endpoint")
        /\ garbage'.responder = NewResponder(s)
    BY <1>1
  <2> QED BY <2>1 DEF GarbageIsParsed
<1>4. GeneratedInOrder' /\ IdentitiesAreGenerated' /\ CallsAreAboutKeys'
  BY <1>2 DEF IInv, GeneratedInOrder, IdentitiesAreGenerated, CallsAreAboutKeys
<1> QED BY <1>3, <1>4 DEF IInv

(* Every step keeps the invariant, whoever takes it.                       *)
LEMMA StepKeepsIInv == IInv /\ [Next]_vars => IInv'
<1> SUFFICES ASSUME IInv, [Next]_vars PROVE IInv'
  OBVIOUS
<1>1. CASE GetsGarbage
  BY <1>1, GetsGarbageKeepsIInv
<1>2. ASSUME NEW m \in Member, GenerateAgain(m) PROVE IInv'
  BY <1>2, GenerateAgainKeepsIInv
<1>3. ASSUME NEW m \in Member, MemberCalls(m) PROVE IInv'
  <2>1. CASE ComputesChannel(m)
    BY <2>1, ComputesChannelKeepsIInv
  <2>2. CASE Initiates(m)
    BY <2>2, InitiatesKeepsIInv
  <2>3. CASE Responds(m) \/ ProvesPossession(m)
    BY <2>3, OwnCallsKeepIInv
  <2>4. CASE Joins(m)
    BY <2>4, JoinsKeepsIInv
  <2> QED BY <1>3, <2>1, <2>2, <2>3, <2>4 DEF MemberCalls
<1>4. CASE UNCHANGED vars
  BY <1>4 DEF vars, IInv, GeneratedInOrder, IdentitiesAreGenerated,
              CallsAreAboutKeys, GarbageIsParsed
<1> QED BY <1>1, <1>2, <1>3, <1>4 DEF Next

(* The invariant holds in every state.                                     *)
THEOREM Inductive == Spec => []IInv
<1>1. Init => IInv
  BY InitEstablishesIInv
<1>2. IInv /\ [Next]_vars => IInv'
  BY StepKeepsIInv
<1> QED BY <1>1, <1>2, PTL DEF Spec

-----------------------------------------------------------------------------
(* No two private keys make the same identity.                             *)
LEMMA IdentitiesDiffer ==
    ASSUME NEW s \in Key, NEW t \in Key
    PROVE  IdentityOf(s) = IdentityOf(t) <=> s = t
<1>1. ASSUME IdentityOf(s) = IdentityOf(t) PROVE s = t
  <2>1. ToHex(s) = ToHex(t)
    BY <1>1 DEF IdentityOf
  <2>2. Hex32(ToHex(s)) = Ok(s) /\ Hex32(ToHex(t)) = Ok(t)
    BY KeysAreParsed
  <2>3. Ok(s).value = s /\ Ok(t).value = t
    BY DEF Ok
  <2> QED BY <2>1, <2>2, <2>3
<1> QED BY <1>1

(* A pair is the same as another, in one order or the other.               *)
LEMMA SamePair ==
    ASSUME NEW a, NEW b, NEW c, NEW d
    PROVE  {a, b} = {c, d} <=> (a = c /\ b = d) \/ (a = d /\ b = c)
  OBVIOUS

(* What the calls that succeeded returned, from which keys.                *)
LEMMA SuccessIsAboutKeys ==
    ASSUME IInv, NEW function, NEW c \in Succeeded(function)
    PROVE  \E s, t \in Key :
              /\ c.own = IdentityOf(s) /\ c.other = IdentityOf(t)
              /\ c.function = function /\ Accepts(c, s, t)
<1>1. c \in calls /\ c.function = function /\ c.result.kind = "Ok"
  BY DEF Succeeded
<1>2. PICK s \in Key, t \in Key : IsAbout(c, s, t)
  BY <1>1 DEF IInv, CallsAreAboutKeys
<1>3. c.own = IdentityOf(s) /\ c.other = IdentityOf(t) /\ Accepts(c, s, t)
  BY <1>1, <1>2 DEF IsAbout
<1> QED BY <1>1, <1>3

(* The member that owns a grant is named in it.                            *)
LEMMA GrantNamesHolder ==
    ASSUME NEW public \in Key
    PROVE  HolderIn(GrantFor(public)) = public
<1> DEFINE grant == GrantFor(public)
<1>1. public \in Seq(RawByte) /\ Len(public) = KeyBytes /\ KeyBytes \in Nat
  BY KeysAreRaw, RadixAssumption DEF Raw
<1>2. /\ grant \in Seq(RawByte \cup {0}) /\ Len(grant) = KeyBytes + 1
      /\ \A i \in 1..KeyBytes : grant[i] = public[i]
  BY <1>1 DEF GrantFor
<1> HIDE DEF grant
<1>3. /\ Len(Front(grant)) = KeyBytes /\ Front(grant) \in Seq(RawByte \cup {0})
      /\ \A i \in 1..KeyBytes : Front(grant)[i] = grant[i]
  BY <1>1, <1>2, FrontOf
<1>4. Front(grant) = public
  BY <1>1, <1>2, <1>3, SeqEqual
<1> QED BY <1>4 DEF HolderIn, grant

(* Types.                                                                  *)
LEMMA IInvIsTyped == IInv => TypeOK
<1> SUFFICES ASSUME IInv PROVE TypeOK
  OBVIOUS
<1>1. generated \in 4..Len(SecretsInOrder)
  BY DEF IInv, GeneratedInOrder
<1>2. ASSUME NEW key \in Key
      PROVE  /\ Len(ToHex(key)) = 2 * KeyBytes
             /\ \A n \in DOMAIN ToHex(key) : ToHex(key)[n].kind = "lower"
  <2>1. key \in Raw /\ Len(key) = KeyBytes
    BY KeysAreRaw
  <2> DEFINE s == ToHex(key)
  <2>2. s \in Seq(TextByte) /\ Len(s) = 2 * KeyBytes /\ \A n \in 1..Len(s) : s[n].kind = "lower"
    BY <2>1, HexIsSaid DEF HexText, Says
  <2> HIDE DEF s
  <2>3. DOMAIN s = 1..Len(s)
    BY <2>2
  <2> QED BY <2>2, <2>3 DEF s
<1>3. ASSUME NEW i \in Identity PROVE IsIdentity(i)
  <2>1. PICK s \in Key : /\ PublicOf(s) \in Key
                         /\ i.public_hex = ToHex(PublicOf(s))
                         /\ i.private_hex = ToHex(s)
    BY IdentityTexts
  <2>2. \A text \in {i.public_hex, i.private_hex} : \E key \in Key : text = ToHex(key)
    BY <2>1
  <2> QED BY <1>2, <2>2 DEF IsIdentity
<1>4. \A m \in Member, k \in {"holder", "noise"} :
         \A i \in ToSet(identities[m][k]) : IsIdentity(i)
  <2>1. ASSUME NEW m \in Member, NEW k \in {"holder", "noise"},
               NEW i \in ToSet(identities[m][k])
        PROVE  i \in Identity
    <3>1. /\ ToSet(identities[m].holder) \subseteq Identity
          /\ ToSet(identities[m].noise) \subseteq Identity
      BY KnownIdentities DEF IInv
    <3> QED BY <2>1, <3>1
  <2> QED BY <1>3, <2>1
<1>5. ASSUME NEW c \in calls PROVE c.result.kind \in {"Ok", "Err"}
  <2>1. PICK s \in Key, t \in Key : IsAbout(c, s, t)
    BY <1>5 DEF IInv, CallsAreAboutKeys
  <2>2. \A value : Ok(value).kind = "Ok"
    BY DEF Ok
  <2> QED BY <2>1, <2>2 DEF IsAbout, Accepts
<1> QED BY <1>1, <1>4, <1>5 DEF TypeOK

(* Identities are texts of keys, and a call of two members never panics.   *)
THEOREM TypeCorrect == Spec => []TypeOK
  BY Inductive, IInvIsTyped, PTL

(* A text of a key that arrives whole is taken, in either case of letters; *)
(* one that lost one digit or two is refused: no part of a key is a key,   *)
(* and none of a grant a grant.                                            *)
THEOREM OnlyWholeTexts == Spec => []WholeTextsOnly
<1>1. IInv => WholeTextsOnly
  <2> SUFFICES ASSUME IInv, NEW c \in calls PROVE c.result.kind = "Ok" <=> ~c.cut
    BY DEF WholeTextsOnly
  <2>1. PICK s \in Key, t \in Key : IsAbout(c, s, t)
    BY DEF IInv, CallsAreAboutKeys
  <2>2. \A value : Ok(value).kind = "Ok"
    BY DEF Ok
  <2> QED BY <2>1, <2>2 DEF IsAbout, Accepts
<1> QED BY <1>1, Inductive, PTL

(* Two calls give one channel id exactly if they are about the same two    *)
(* identities.                                                             *)
THEOREM Agree == Spec => []ChannelsAgree
<1>1. IInv => ChannelsAgree
  <2> SUFFICES ASSUME IInv, NEW c \in Succeeded("channel"), NEW d \in Succeeded("channel")
               PROVE  c.result = d.result <=> {c.own, c.other} = {d.own, d.other}
    BY DEF ChannelsAgree
  <2>1. \E s, t \in Key :
           /\ c.own = IdentityOf(s) /\ c.other = IdentityOf(t)
           /\ c.function = "channel" /\ Accepts(c, s, t)
    BY SuccessIsAboutKeys
  <2>2. PICK s \in Key, t \in Key :
           /\ c.own = IdentityOf(s) /\ c.other = IdentityOf(t)
           /\ c.result = Ok(ChannelId(Zeros, PublicOf(s), PublicOf(t)))
    BY <2>1 DEF Accepts
  <2>3. \E u, v \in Key :
           /\ d.own = IdentityOf(u) /\ d.other = IdentityOf(v)
           /\ d.function = "channel" /\ Accepts(d, u, v)
    BY SuccessIsAboutKeys
  <2>4. PICK u \in Key, v \in Key :
           /\ d.own = IdentityOf(u) /\ d.other = IdentityOf(v)
           /\ d.result = Ok(ChannelId(Zeros, PublicOf(u), PublicOf(v)))
    BY <2>3 DEF Accepts
  <2>5. {c.own, c.other} = {d.own, d.other} <=> (s = u /\ t = v) \/ (s = v /\ t = u)
    BY <2>2, <2>4, SamePair, IdentitiesDiffer
  <2>6. c.result = d.result <=> {PublicOf(s), PublicOf(t)} = {PublicOf(u), PublicOf(v)}
    BY <2>2, <2>4 DEF Ok, ChannelId
  <2>7. {PublicOf(s), PublicOf(t)} = {PublicOf(u), PublicOf(v)}
           <=> (s = u /\ t = v) \/ (s = v /\ t = u)
    BY SamePair, PublicKeys
  <2> QED BY <2>5, <2>6, <2>7
<1> QED BY <1>1, Inductive, PTL

(* An initiator pins the key of a responder exactly if the responder uses  *)
(* the identity that the initiator was told.                               *)
THEOREM Meet == Spec => []InitiatorMeetsResponder
<1>1. IInv => InitiatorMeetsResponder
  <2> SUFFICES ASSUME IInv, NEW c \in Succeeded("initiator"), NEW d \in Succeeded("responder")
               PROVE  c.result.value.remote = PublicOf(d.result.value.local) <=> c.other = d.own
    BY DEF InitiatorMeetsResponder
  <2>1. \E s, t \in Key :
           /\ c.own = IdentityOf(s) /\ c.other = IdentityOf(t)
           /\ c.function = "initiator" /\ Accepts(c, s, t)
    BY SuccessIsAboutKeys
  <2>2. PICK s \in Key, t \in Key :
           c.other = IdentityOf(t) /\ c.result = Ok([local |-> s, remote |-> PublicOf(t)])
    BY <2>1 DEF Accepts
  <2>3. \E u, v \in Key :
           /\ d.own = IdentityOf(u) /\ d.other = IdentityOf(v)
           /\ d.function = "responder" /\ Accepts(d, u, v)
    BY SuccessIsAboutKeys
  <2>4. PICK u \in Key : d.own = IdentityOf(u) /\ d.result = Ok([local |-> u])
    BY <2>3 DEF Accepts
  <2>5. c.result.value.remote = PublicOf(t) /\ d.result.value.local = u
    BY <2>2, <2>4 DEF Ok
  <2>6. PublicOf(t) = PublicOf(u) <=> t = u
    BY PublicKeys
  <2> QED BY <2>2, <2>4, <2>5, <2>6, IdentitiesDiffer
<1> QED BY <1>1, Inductive, PTL

(* A signature verifies under the key in a grant exactly if the grant is   *)
(* for the identity that signed.                                           *)
THEOREM Possession == Spec => []PossessionIsProven
<1>1. IInv => PossessionIsProven
  <2> SUFFICES ASSUME IInv, NEW c \in Succeeded("join"), NEW d \in Succeeded("sign")
               PROVE  Verifies(HolderIn(c.result.value.grant), d.result.value) <=> c.own = d.own
    BY DEF PossessionIsProven
  <2>1. \E s, t \in Key :
           /\ c.own = IdentityOf(s) /\ c.other = IdentityOf(t)
           /\ c.function = "join" /\ Accepts(c, s, t)
    BY SuccessIsAboutKeys
  <2>2. PICK s \in Key :
           /\ c.own = IdentityOf(s)
           /\ \E m \in Member : c.result = Ok([grant |-> GrantFor(PublicOf(s)), endpoint |-> m])
    BY <2>1 DEF Accepts
  <2>3. \E u, v \in Key :
           /\ d.own = IdentityOf(u) /\ d.other = IdentityOf(v)
           /\ d.function = "sign" /\ Accepts(d, u, v)
    BY SuccessIsAboutKeys
  <2>4. PICK u \in Key :
           d.own = IdentityOf(u) /\ d.result = Ok([key |-> u, message |-> "challenge"])
    BY <2>3 DEF Accepts
  <2>5. c.result.value.grant = GrantFor(PublicOf(s)) /\ d.result.value.key = u
    BY <2>2, <2>4 DEF Ok
  <2>6. HolderIn(GrantFor(PublicOf(s))) = PublicOf(s)
    BY GrantNamesHolder, PublicKeys
  <2>7. PublicOf(s) = PublicOf(u) <=> s = u
    BY PublicKeys
  <2> QED BY <2>2, <2>4, <2>5, <2>6, <2>7, IdentitiesDiffer DEF Verifies
<1> QED BY <1>1, Inductive, PTL

(* Whatever text is taken for a key or a grant says the bytes it is taken  *)
(* for.                                                                    *)
THEOREM AcceptedTextIsMeant == Spec => []AcceptedTextSaysItsBytes
<1>1. IInv => AcceptedTextSaysItsBytes
  <2> SUFFICES ASSUME IInv, garbage # NoCall PROVE AcceptedTextSaysItsBytes
    BY DEF AcceptedTextSaysItsBytes
  <2> DEFINE s == garbage.text
             bytes == FromHex(s)
  <2>1. /\ s \in Text
        /\ garbage.request = BuildChannelJoinRequest(s, "endpoint")
        /\ garbage.responder = NewResponder(s)
    BY DEF IInv, GarbageIsParsed
  <2>2. s \in HexText
    BY <2>1, RadixAssumption DEF Text, HexText
  <2> HIDE DEF s
  <2>3. bytes.kind = "Ok" => ToHex(bytes.value) = Plain(s)
    BY <2>2, AcceptedSays
  <2> HIDE DEF bytes
  <2>4. ASSUME garbage.request.kind = "Ok"
        PROVE  bytes.kind = "Ok" /\ garbage.request.value.grant = bytes.value
    <3> DEFINE accepted == [grant |-> bytes.value, endpoint |-> "endpoint"]
    <3>1. garbage.request = IF bytes.kind = "Ok" /\ ~GrantDecodes(bytes.value)
                            THEN Err("not a grant") ELSE Parsed(<<bytes>>, accepted)
      BY <2>1 DEF BuildChannelJoinRequest, bytes
    <3>2. \A why : Err(why).kind # "Ok"
      BY DEF Err
    <3>3. garbage.request = Parsed(<<bytes>>, accepted)
      BY <2>4, <3>1, <3>2, Zenon
    <3> HIDE DEF accepted
    <3>4. bytes.kind = "Ok"
      <4>1. CASE bytes.kind # "Ok"
        <5>1. {i \in DOMAIN <<bytes>> : <<bytes>>[i].kind # "Ok"} = {1}
          BY <4>1
        <5>2. Min({1}) = 1
          BY DEF Min
        <5>3. garbage.request = bytes
          BY <3>3, <5>1, <5>2 DEF Parsed
        <5> QED BY <2>4, <5>3
      <4> QED BY <4>1
    <3>5. garbage.request = Ok(accepted)
      BY <3>3, <3>4, ParsedInOrder
    <3> QED BY <3>4, <3>5 DEF Ok, accepted
  <2>5. ASSUME garbage.responder.kind = "Ok"
        PROVE  bytes.kind = "Ok" /\ garbage.responder.value.local = bytes.value
    <3> DEFINE r == Hex32(s)
    <3>1. garbage.responder = Parsed(<<r>>, [local |-> r.value])
      BY <2>1 DEF NewResponder
    <3>2. r = bytes \/ r.kind = "Err"
      BY DEF Hex32, Err, bytes
    <3> HIDE DEF r
    <3>3. r.kind = "Ok"
      <4>1. CASE r.kind # "Ok"
        <5>1. {i \in DOMAIN <<r>> : <<r>>[i].kind # "Ok"} = {1}
          BY <4>1
        <5>2. Min({1}) = 1
          BY DEF Min
        <5>3. garbage.responder = r
          BY <3>1, <5>1, <5>2 DEF Parsed
        <5> QED BY <2>5, <5>3
      <4> QED BY <4>1
    <3>4. garbage.responder = Ok([local |-> r.value]) /\ r = bytes
      BY <3>1, <3>2, <3>3, ParsedInOrder
    <3> QED BY <3>3, <3>4 DEF Ok
  <2> QED BY <2>3, <2>4, <2>5 DEF AcceptedTextSaysItsBytes, s
<1> QED BY <1>1, Inductive, PTL

=============================================================================
