------------------------- MODULE IdentityStoreProofs --------------------------
(***************************************************************************)
(* Proofs about IdentityStore, for any number of generated key pairs and   *)
(* of deaths of the process.                                               *)
(***************************************************************************)
EXTENDS IdentityStore, TLAPS

Stored == [KeyName -> Key \cup {NoKey}]

(* A pair is known once it is generated: what is stored or was forgotten   *)
(* is not the pair that is generated next.                                 *)
PairsAreGenerated ==
    /\ \A map \in {prefs, file} : \A n \in KeyName : map[n].pair <= generated
    /\ forgotten \subseteq 1..generated

(* What is on disk and no longer in memory was forgotten, and the two      *)
(* differ only while a write is pending.                                   *)
DiskLagsBehind ==
    /\ \A n \in KeyName :
          file[n] # NoKey /\ prefs[n] # file[n] => file[n].pair \in forgotten
    /\ ~writePending => prefs = file

(* onCreate reaches a line only with the identities ensured before it.     *)
EnsuredSoFar ==
    /\ step \in {"noise", "show"} => HasIdentity("holder")
    /\ step = "show" => HasIdentity("noise")

IInv == TypeOK /\ PairsMatch /\ PairsAreGenerated /\ DiskLagsBehind /\ EnsuredSoFar

-----------------------------------------------------------------------------
(* A stored key is not the absent one, and its pair is not the absent 0.   *)
LEMMA KeysArePresent ==
    \A key \in Key : key # NoKey /\ key.pair # 0 /\ key.pair \in 1..MaxGenerated
  BY DEF Key, NoKey, Kind

(* ... and that of the absent key is 0.                                    *)
LEMMA AbsentPair == NoKey.pair = 0
  BY DEF NoKey

(* putString under the two names of a kind replaces the keys of that kind, *)
(* and only those.                                                         *)
LEMMA PutReplacesOneKind ==
    ASSUME prefs \in Stored, NEW kind \in Kind, NEW pair \in 1..MaxGenerated
    PROVE  /\ Put(kind, pair) \in Stored
           /\ \A k \in Kind, q \in Part :
                 Put(kind, pair)[<<k, q>>] =
                    IF k = kind THEN [kind |-> kind, part |-> q, pair |-> pair]
                    ELSE prefs[<<k, q>>]
<1>1. <<kind, "public">> \in KeyName /\ <<kind, "private">> \in KeyName
  BY DEF KeyName, Part
<1>2. \A q \in Part : [kind |-> kind, part |-> q, pair |-> pair] \in Key
  BY DEF Key
<1>3. "public" \in Part /\ "private" \in Part
  BY DEF Part
<1>4. Put(kind, pair) \in Stored
  BY <1>1, <1>2, <1>3 DEF Put, Stored
<1>5. ASSUME NEW k \in Kind, NEW q \in Part
      PROVE  Put(kind, pair)[<<k, q>>] =
                IF k = kind THEN [kind |-> kind, part |-> q, pair |-> pair]
                ELSE prefs[<<k, q>>]
  BY <1>1 DEF Put, Stored, KeyName, Part
<1> QED BY <1>4, <1>5

(* remove of the two names of a kind leaves the other kind alone.          *)
LEMMA RemoveClearsOneKind ==
    ASSUME prefs \in Stored, NEW kind \in Kind
    PROVE  /\ Remove(kind) \in Stored
           /\ \A k \in Kind, q \in Part :
                 Remove(kind)[<<k, q>>] = IF k = kind THEN NoKey ELSE prefs[<<k, q>>]
<1>1. <<kind, "public">> \in KeyName /\ <<kind, "private">> \in KeyName
  BY DEF KeyName, Part
<1>2. Remove(kind) \in Stored
  BY <1>1 DEF Remove, Stored
<1>3. ASSUME NEW k \in Kind, NEW q \in Part
      PROVE  Remove(kind)[<<k, q>>] = IF k = kind THEN NoKey ELSE prefs[<<k, q>>]
  BY <1>1 DEF Remove, Stored, KeyName, Part
<1> QED BY <1>2, <1>3

(* A preference key is a kind and a part.                                  *)
LEMMA KeyNames == \A n \in KeyName : \E k \in Kind, q \in Part : n = <<k, q>>
  BY DEF KeyName

(* A kind that has no identity is whole, hence has no key at all, and one  *)
(* that has an identity has a public key.                                  *)
LEMMA WholeKinds ==
    ASSUME TypeOK, PairsMatch, NEW k \in Kind
    PROVE  /\ ~HasIdentity(k) => \A q \in Part : prefs[<<k, q>>] = NoKey
           /\ HasIdentity(k) => prefs[<<k, "public">>] \in PublicKey
<1>1. Whole(prefs, k)
  BY DEF PairsMatch
<1>2. <<k, "public">> \in KeyName
  BY DEF KeyName, Part
<1>3. prefs[<<k, "public">>] \in Key \cup {NoKey}
  BY <1>2 DEF TypeOK
<1> QED BY <1>1, <1>3 DEF Whole, HasIdentity, Part, PublicKey, Kind, NoKey

-----------------------------------------------------------------------------
(* The store is empty and onCreate at its beginning.                       *)
LEMMA InitEstablishesIInv == Init => IInv
<1> SUFFICES ASSUME Init PROVE IInv
  OBVIOUS
<1>1. prefs = Empty /\ file = Empty /\ Empty \in Stored
  BY DEF Init, Empty, Stored
<1>2. \A k \in Kind, q \in Part : Empty[<<k, q>>] = NoKey
  BY DEF Empty, KeyName
<1>3. \A n \in KeyName : Empty[n] = NoKey
  BY DEF Empty
<1>4. TypeOK
  <2>1. generated \in 0..MaxGenerated /\ restarts \in 0..MaxRestarts
    BY BoundsAssumption DEF Init
  <2> QED BY <1>1, <2>1 DEF Init, TypeOK, Stored
<1>5. PairsMatch
  BY <1>1, <1>2 DEF PairsMatch, Whole, Part, Kind
<1>6. PairsAreGenerated
  BY <1>1, <1>3 DEF Init, PairsAreGenerated, NoKey
<1>7. DiskLagsBehind
  BY <1>1 DEF DiskLagsBehind
<1>8. EnsuredSoFar
  BY DEF Init, EnsuredSoFar
<1> QED BY <1>4, <1>5, <1>6, <1>7, <1>8 DEF IInv

(* Generating an identity for a kind without one: the keys are new and the *)
(* pair is that of no other key.                                           *)
LEMMA GenerateKeepsIInv ==
    ASSUME IInv, NEW kind \in Kind, ~HasIdentity(kind), GenerateAndStore(kind),
           UNCHANGED <<file, forgotten>>
    PROVE  /\ prefs' \in Stored /\ generated' \in 0..MaxGenerated
           /\ PairsMatch' /\ PairsAreGenerated' /\ DiskLagsBehind'
           /\ prefs'[<<kind, "private">>] # NoKey
<1> DEFINE pair == generated + 1
<1>1. /\ prefs' = Put(kind, pair) /\ writePending' = TRUE
      /\ generated' = pair /\ pair \in 1..MaxGenerated
      /\ generated \in 0..MaxGenerated
  BY BoundsAssumption DEF GenerateAndStore, Apply, IInv, TypeOK
<1>2. /\ prefs \in Stored /\ file \in Stored
      /\ \A n \in KeyName : prefs[n] \in Key \cup {NoKey} /\ file[n] \in Key \cup {NoKey}
  BY DEF IInv, TypeOK, Stored
<1> HIDE DEF pair
<1>3. /\ prefs' \in Stored
      /\ \A k \in Kind, q \in Part :
            prefs'[<<k, q>>] = IF k = kind THEN [kind |-> kind, part |-> q, pair |-> pair]
                               ELSE prefs[<<k, q>>]
  BY <1>1, <1>2, PutReplacesOneKind
<1>4. \A n \in KeyName : prefs[n].pair <= generated /\ prefs[n].pair \in Nat
  BY <1>2, KeysArePresent DEF IInv, PairsAreGenerated, NoKey
<1>5. \A q \in Part : prefs[<<kind, q>>] = NoKey
  BY WholeKinds DEF IInv
<1>6. PairsAreGenerated'
  <2>1. \A n \in KeyName : prefs'[n].pair <= generated'
    <3> SUFFICES ASSUME NEW k \in Kind, NEW q \in Part
                 PROVE  prefs'[<<k, q>>].pair <= generated'
      BY KeyNames
    <3>1. prefs[<<k, q>>].pair <= generated /\ prefs[<<k, q>>].pair \in Nat
      BY <1>4 DEF KeyName
    <3>2. CASE k = kind
      <4>1. prefs'[<<k, q>>] = [kind |-> kind, part |-> q, pair |-> pair]
        BY <1>3, <3>2
      <4> QED BY <1>1, <4>1
    <3>3. CASE k # kind
      <4>1. prefs'[<<k, q>>] = prefs[<<k, q>>]
        BY <1>3, <3>3
      <4> QED BY <1>1, <3>1, <4>1 DEF pair
    <3> QED BY <3>2, <3>3
  <2>2. \A n \in KeyName : file[n].pair <= generated /\ file[n].pair \in Nat
    BY <1>2, KeysArePresent DEF IInv, PairsAreGenerated, NoKey
  <2>3. \A n \in KeyName : file'[n].pair <= generated'
    BY <1>1, <2>2 DEF pair
  <2>4. forgotten' \subseteq 1..generated'
    BY <1>1 DEF IInv, PairsAreGenerated, pair
  <2> QED BY <2>1, <2>3, <2>4 DEF PairsAreGenerated
<1>7. PairsMatch'
  <2>1. ASSUME NEW k \in Kind PROVE Whole(prefs', k)
    BY <1>3 DEF IInv, PairsMatch, Whole, Part
  <2>2. prefs[<<"holder", "private">>].pair <= generated
        /\ prefs[<<"noise", "private">>].pair <= generated
        /\ prefs[<<"holder", "private">>].pair \in Nat
        /\ prefs[<<"noise", "private">>].pair \in Nat
    BY <1>2, KeysArePresent DEF IInv, PairsAreGenerated, KeyName, Kind, Part, NoKey
  <2>3. prefs'[<<"holder", "private">>] # NoKey =>
           prefs'[<<"holder", "private">>].pair # prefs'[<<"noise", "private">>].pair
    BY <1>1, <1>3, <2>2 DEF IInv, PairsMatch, Kind, Part, pair
  <2> QED BY <2>1, <2>3 DEF IInv, PairsMatch, Whole
<1>8. DiskLagsBehind'
  <2>1. ASSUME NEW n \in KeyName, file[n] # NoKey, prefs'[n] # file[n]
        PROVE  file[n].pair \in forgotten
    <3>1. PICK k \in Kind, q \in Part : n = <<k, q>>
      BY KeyNames
    <3>2. prefs[n] # file[n]
      BY <1>3, <1>5, <2>1, <3>1
    <3> QED BY <2>1, <3>2 DEF IInv, DiskLagsBehind
  <2> QED BY <1>1, <2>1 DEF DiskLagsBehind
<1>9. prefs'[<<kind, "private">>] # NoKey
  BY <1>1, <1>3, KeysArePresent DEF Part, Key, NoKey
<1> QED BY <1>1, <1>3, <1>6, <1>7, <1>8, <1>9

(* Forgetting an identity: its keys are absent, its pair is forgotten.     *)
LEMMA ForgetKeepsIInv ==
    ASSUME IInv, NEW kind \in Kind, Forget(kind)
    PROVE  IInv'
<1> DEFINE pair == prefs[<<kind, "private">>].pair
<1>1. /\ prefs' = Remove(kind) /\ writePending' = TRUE /\ step = "done"
      /\ forgotten' = forgotten \cup ({pair} \ {NoKey.pair})
      /\ UNCHANGED <<file, native, step, shown, generated, restarts>>
  BY DEF Forget, Apply
<1>2. /\ prefs \in Stored
      /\ \A n \in KeyName : prefs[n] \in Key \cup {NoKey} /\ file[n] \in Key \cup {NoKey}
  BY DEF IInv, TypeOK, Stored
<1>3. /\ prefs' \in Stored
      /\ \A k \in Kind, q \in Part :
            prefs'[<<k, q>>] = IF k = kind THEN NoKey ELSE prefs[<<k, q>>]
  BY <1>1, <1>2, RemoveClearsOneKind
<1>4. pair # NoKey.pair => pair \in 1..generated /\ pair \in 1..MaxGenerated
  <2>1. <<kind, "private">> \in KeyName
    BY DEF KeyName, Part
  <2>2. pair <= generated /\ prefs[<<kind, "private">>] \in Key \cup {NoKey}
    BY <1>2, <2>1 DEF IInv, PairsAreGenerated
  <2> QED BY <2>2, KeysArePresent DEF IInv, TypeOK
<1>5. TypeOK'
  BY <1>1, <1>3, <1>4 DEF IInv, TypeOK, Stored
<1>6. PairsMatch'
  <2>1. ASSUME NEW k \in Kind PROVE Whole(prefs', k)
    BY <1>3 DEF IInv, PairsMatch, Whole, Part
  <2>2. prefs'[<<"holder", "private">>] # NoKey =>
           prefs'[<<"holder", "private">>].pair # prefs'[<<"noise", "private">>].pair
    <3>1. prefs[<<"holder", "private">>] \in Key \cup {NoKey}
      BY <1>2 DEF KeyName, Kind, Part
    <3> QED BY <1>3, <3>1, KeysArePresent DEF IInv, PairsMatch, Kind, Part, NoKey
  <2> QED BY <1>1, <2>1, <2>2 DEF IInv, PairsMatch, Whole
<1>7. PairsAreGenerated'
  <2>1. \A n \in KeyName : prefs'[n].pair <= generated
    <3> SUFFICES ASSUME NEW k \in Kind, NEW q \in Part
                 PROVE  prefs'[<<k, q>>].pair <= generated
      BY KeyNames
    <3>1. <<k, q>> \in KeyName
      BY DEF KeyName
    <3> QED BY <1>3, <3>1 DEF IInv, TypeOK, PairsAreGenerated, NoKey
  <2> QED BY <1>1, <1>4, <2>1 DEF IInv, PairsAreGenerated
<1>8. DiskLagsBehind'
  <2>1. ASSUME NEW n \in KeyName, file[n] # NoKey, prefs'[n] # file[n]
        PROVE  file[n].pair \in forgotten'
    <3>1. PICK k \in Kind, q \in Part : n = <<k, q>>
      BY KeyNames
    <3>2. CASE prefs[n] # file[n]
      BY <1>1, <2>1, <3>2 DEF IInv, DiskLagsBehind
    <3>3. CASE prefs[n] = file[n]
      <4>1. k = kind
        BY <1>3, <2>1, <3>1, <3>3
      <4>2. prefs[n].pair = pair
        BY <2>1, <3>1, <3>3, <4>1 DEF IInv, PairsMatch, Whole, Part
      <4>3. file[n].pair # NoKey.pair
        BY <1>2, <2>1, KeysArePresent DEF NoKey
      <4> QED BY <1>1, <3>3, <4>2, <4>3
    <3> QED BY <3>2, <3>3
  <2> QED BY <1>1, <2>1 DEF DiskLagsBehind
<1>9. EnsuredSoFar'
  BY <1>1 DEF EnsuredSoFar
<1> QED BY <1>5, <1>6, <1>7, <1>8, <1>9 DEF IInv

(* A line of onCreate that makes sure of one identity.                     *)
LEMMA EnsureKeepsIInv ==
    ASSUME IInv, NEW kind \in Kind, Ensure(kind)
    PROVE  IInv'
<1>1. /\ step = kind
      /\ UNCHANGED <<file, native, shown, forgotten, restarts>>
  BY DEF Ensure
<1>2. CASE HasIdentity(kind)
  <2>1. step' = After(kind) /\ UNCHANGED <<prefs, writePending, generated>>
    BY <1>2 DEF Ensure
  <2>2. EnsuredSoFar'
    BY <1>1, <1>2, <2>1 DEF EnsuredSoFar, IInv, HasIdentity, After, Kind
  <2>3. step' \in {"holder", "noise", "show", "done"}
    BY <2>1 DEF After
  <2>4. TypeOK'
    BY <1>1, <2>1, <2>3 DEF IInv, TypeOK
  <2> QED BY <1>1, <2>1, <2>2, <2>4
          DEF IInv, PairsMatch, Whole, PairsAreGenerated, DiskLagsBehind
<1>3. CASE ~HasIdentity(kind) /\ native
  <2>1. GenerateAndStore(kind) /\ step' = After(kind)
    BY <1>3 DEF Ensure
  <2>2. /\ prefs' \in Stored /\ generated' \in 0..MaxGenerated
        /\ PairsMatch' /\ PairsAreGenerated' /\ DiskLagsBehind'
        /\ prefs'[<<kind, "private">>] # NoKey
    BY <1>1, <1>3, <2>1, GenerateKeepsIInv
  <2>3. kind = "noise" => prefs'[<<"holder", "private">>] = prefs[<<"holder", "private">>]
    <3>1. prefs' = Put(kind, generated + 1) /\ generated + 1 \in 1..MaxGenerated
      BY <2>1, BoundsAssumption DEF GenerateAndStore, Apply, IInv, TypeOK
    <3> QED BY <3>1, PutReplacesOneKind DEF IInv, TypeOK, Stored, Kind, Part
  <2>4. EnsuredSoFar'
    BY <1>1, <2>1, <2>2, <2>3 DEF EnsuredSoFar, IInv, HasIdentity, After, Kind
  <2>5. step' \in {"holder", "noise", "show", "done"} /\ writePending' \in BOOLEAN
    BY <2>1 DEF After, GenerateAndStore, Apply
  <2>6. TypeOK'
    BY <1>1, <2>2, <2>5 DEF IInv, TypeOK, Stored
  <2> QED BY <2>2, <2>4, <2>6 DEF IInv
<1>4. CASE ~HasIdentity(kind) /\ ~native
  <2>1. step' = "done" /\ UNCHANGED <<prefs, writePending, generated>>
    BY <1>4 DEF Ensure, AfterLinkError
  <2> QED BY <1>1, <2>1 DEF IInv, TypeOK, PairsMatch, Whole, PairsAreGenerated,
                            DiskLagsBehind, EnsuredSoFar, HasIdentity
<1> QED BY <1>2, <1>3, <1>4

(* The screen is written when both identities are ensured.                 *)
LEMMA ShowStatusKeepsIInv == IInv /\ ShowStatus => IInv'
<1> SUFFICES ASSUME IInv, ShowStatus PROVE IInv'
  OBVIOUS
<1>1. \A k \in Kind : Shows(k) \in PublicKey
  BY WholeKinds DEF IInv, ShowStatus, EnsuredSoFar, Kind, Shows
<1>2. /\ shown' = [k \in Kind |-> Shows(k)] /\ step' = "done"
      /\ UNCHANGED <<prefs, file, writePending, native, generated, forgotten, restarts>>
  BY DEF ShowStatus
<1>3. shown' \in [Kind -> PublicKey]
  BY <1>1, <1>2
<1>4. TypeOK'
  BY <1>2, <1>3 DEF IInv, TypeOK
<1> QED BY <1>2, <1>4 DEF IInv, PairsMatch, Whole, PairsAreGenerated,
                          DiskLagsBehind, EnsuredSoFar

(* Every step keeps the invariant.                                         *)
LEMMA StepKeepsIInv == IInv /\ [Next]_vars => IInv'
<1> SUFFICES ASSUME IInv, [Next]_vars PROVE IInv'
  OBVIOUS
<1>1. CASE Recreate
  BY <1>1 DEF Recreate, IInv, TypeOK, PairsMatch, Whole, PairsAreGenerated,
              DiskLagsBehind, EnsuredSoFar
<1>2. CASE WriteToDisk
  <2>1. /\ file' = prefs /\ ~writePending'
        /\ UNCHANGED <<prefs, native, step, shown, generated, forgotten, restarts>>
    BY <1>2 DEF WriteToDisk
  <2>2. TypeOK'
    BY <1>2, <2>1 DEF WriteToDisk, IInv, TypeOK
  <2>3. PairsMatch' /\ PairsAreGenerated'
    BY <2>1 DEF IInv, PairsMatch, Whole, PairsAreGenerated
  <2> QED BY <2>1, <2>2, <2>3 DEF IInv, DiskLagsBehind, EnsuredSoFar, HasIdentity
<1>3. CASE Restart
  <2>1. /\ restarts < MaxRestarts /\ restarts' = restarts + 1
        /\ prefs' = file /\ ~writePending' /\ native' \in BOOLEAN
        /\ step' = "holder" /\ shown' = NothingShown
        /\ UNCHANGED <<file, generated, forgotten>>
    BY <1>3 DEF Restart
  <2>2. TypeOK'
    <3>1. restarts' \in 0..MaxRestarts
      BY <2>1, BoundsAssumption DEF IInv, TypeOK
    <3> QED BY <1>3, <2>1, <3>1 DEF Restart, IInv, TypeOK
  <2>3. PairsMatch' /\ PairsAreGenerated'
    BY <2>1 DEF IInv, PairsMatch, Whole, PairsAreGenerated
  <2> QED BY <2>1, <2>2, <2>3 DEF IInv, DiskLagsBehind, EnsuredSoFar
<1>4. CASE UNCHANGED vars
  BY <1>4 DEF vars, IInv, TypeOK, PairsMatch, Whole, PairsAreGenerated,
              DiskLagsBehind, EnsuredSoFar, HasIdentity
<1> QED BY <1>1, <1>2, <1>3, <1>4, EnsureKeepsIInv, ForgetKeepsIInv, ShowStatusKeepsIInv
        DEF Next

-----------------------------------------------------------------------------
(* The invariant holds in every reachable state: pairs stay whole, new     *)
(* pairs are new, and the disk lags behind by what was added or forgotten. *)
THEOREM Inductive == Spec => []IInv
BY InitEstablishesIInv, StepKeepsIInv, PTL DEF Spec

(* The types, and that the screen shows both public keys or neither.       *)
THEOREM TypeCorrect == Spec => []TypeOK
<1>1. IInv => TypeOK
  BY DEF IInv
<1> QED BY <1>1, Inductive, PTL

(* Wherever the process dies and whatever is written late, a private key   *)
(* is never found without its own public key, in memory or on disk.        *)
THEOREM PairsStayWhole == Spec => []PairsMatch
<1>1. IInv => PairsMatch
  BY DEF IInv
<1> QED BY <1>1, Inductive, PTL

(* An identity stays until it is forgotten or dies unwritten: the disk     *)
(* changes only by a write of the memory and DiskLagsBehind says how those *)
(* differ, and a generation only fills a place that is empty.              *)
THEOREM IdentitiesAreKept == Spec => IdentityIsKept
<1> DEFINE KeptOnDisk(n) ==
              file[n] # NoKey /\ file'[n] # file[n] => file[n].pair \in forgotten
           KeptInMemory(n) ==
              prefs[n] # NoKey /\ prefs'[n] # prefs[n] =>
                 \/ prefs[n].pair \in forgotten'
                 \/ /\ writePending /\ restarts' # restarts
                    /\ prefs'[n] = NoKey \/ prefs'[n].pair \in forgotten
           Kept == \A n \in KeyName :
                      /\ KeptOnDisk(n)
                      /\ KeptInMemory(n)
<1>1. ASSUME IInv, Next, NEW n \in KeyName PROVE KeptOnDisk(n)
  <2> SUFFICES ASSUME file' # file PROVE KeptOnDisk(n)
    OBVIOUS
  <2>1. WriteToDisk
    BY <1>1 DEF Next, Ensure, Forget, ShowStatus, Recreate, Restart
  <2> QED BY <1>1, <2>1 DEF WriteToDisk, IInv, DiskLagsBehind
<1>2. ASSUME IInv, Next, NEW n \in KeyName PROVE KeptInMemory(n)
  <2> SUFFICES ASSUME prefs[n] # NoKey, prefs'[n] # prefs[n]
               PROVE  \/ prefs[n].pair \in forgotten'
                      \/ /\ writePending /\ restarts' # restarts
                         /\ prefs'[n] = NoKey \/ prefs'[n].pair \in forgotten
    OBVIOUS
  <2>1. PICK k \in Kind, q \in Part : n = <<k, q>>
    BY KeyNames
  <2>2. prefs \in Stored /\ prefs[n] \in Key
    BY <1>2 DEF IInv, TypeOK, Stored
  <2>3. ASSUME NEW kind \in Kind, Ensure(kind) PROVE FALSE
    <3>1. ~HasIdentity(kind) /\ GenerateAndStore(kind)
      BY <2>3 DEF Ensure
    <3>2. prefs' = Put(kind, generated + 1) /\ generated + 1 \in 1..MaxGenerated
      BY <1>2, <3>1, BoundsAssumption DEF GenerateAndStore, Apply, IInv, TypeOK
    <3>3. k = kind
      <4>1. prefs'[n] = IF k = kind THEN [kind |-> kind, part |-> q, pair |-> generated + 1]
                        ELSE prefs[<<k, q>>]
        BY <2>1, <2>2, <3>2, PutReplacesOneKind
      <4> QED BY <2>1, <4>1
    <3>4. prefs[<<kind, q>>] = NoKey
      BY <1>2, <3>1, WholeKinds DEF IInv
    <3> QED BY <2>1, <3>3, <3>4
  <2>4. ASSUME NEW kind \in Kind, Forget(kind) PROVE prefs[n].pair \in forgotten'
    <3>1. /\ prefs' = Remove(kind)
          /\ forgotten' = forgotten \cup ({prefs[<<kind, "private">>].pair} \ {NoKey.pair})
      BY <2>4 DEF Forget, Apply
    <3>2. k = kind
      BY <2>1, <2>2, <3>1, RemoveClearsOneKind
    <3>3. prefs[n].pair = prefs[<<kind, "private">>].pair
      <4>1. Whole(prefs, kind)
        BY <1>2 DEF IInv, PairsMatch
      <4> QED BY <2>1, <3>2, <4>1 DEF Whole, Part
    <3>4. prefs[n].pair # NoKey.pair
      BY <2>2, KeysArePresent, AbsentPair
    <3> QED BY <3>1, <3>3, <3>4
  <2>5. CASE Restart
    <3>1. prefs' = file /\ restarts' = restarts + 1 /\ restarts \in Nat
      BY <1>2, <2>5, BoundsAssumption DEF Restart, IInv, TypeOK
    <3>2. writePending /\ (file[n] = NoKey \/ file[n].pair \in forgotten)
      BY <1>2, <3>1 DEF IInv, DiskLagsBehind
    <3> QED BY <3>1, <3>2
  <2>6. CASE ShowStatus \/ Recreate \/ WriteToDisk
    BY <2>6 DEF ShowStatus, Recreate, WriteToDisk
  <2> QED BY <1>2, <2>3, <2>4, <2>5, <2>6 DEF Next
<1>3. IInv /\ [Next]_vars => [Kept]_vars
  <2> SUFFICES ASSUME IInv, Next PROVE Kept
    OBVIOUS
  <2> HIDE DEF KeptOnDisk, KeptInMemory
  <2> QED BY <1>1, <1>2
<1> QED BY <1>3, Inductive, PTL DEF Spec, IdentityIsKept

(* A forgotten identity is back in memory only after a death of the        *)
(* process that came before the write: what onCreate generates is new.     *)
THEOREM ForgottenStaysForgotten == Spec => ForgottenReturnsOnlyFromDisk
<1> DEFINE Returns == \A n \in KeyName :
                         prefs'[n] # prefs[n] /\ prefs'[n].pair \in forgotten =>
                            writePending /\ prefs'[n] = file[n]
<1>1. IInv /\ [Next]_vars => [Returns]_vars
  <2> SUFFICES ASSUME IInv, Next,
                      NEW n \in KeyName, prefs'[n] # prefs[n], prefs'[n].pair \in forgotten
               PROVE  writePending /\ prefs'[n] = file[n]
    OBVIOUS
  <2>1. PICK k \in Kind, q \in Part : n = <<k, q>>
    BY KeyNames
  <2>2. ASSUME NEW kind \in Kind, Ensure(kind) PROVE FALSE
    <3>1. GenerateAndStore(kind)
      BY <2>2 DEF Ensure
    <3>2. prefs' = Put(kind, generated + 1) /\ generated + 1 \in 1..MaxGenerated
      BY <3>1, BoundsAssumption DEF GenerateAndStore, Apply, IInv, TypeOK
    <3>3. prefs'[n] = [kind |-> kind, part |-> q, pair |-> generated + 1]
      BY <2>1, <3>2, PutReplacesOneKind DEF IInv, TypeOK, Stored
    <3> QED BY <3>3 DEF IInv, TypeOK, PairsAreGenerated
  <2>3. ASSUME NEW kind \in Kind, Forget(kind) PROVE FALSE
    <3>1. prefs'[n] = NoKey
      BY <2>1, <2>3, RemoveClearsOneKind DEF Forget, Apply, IInv, TypeOK, Stored
    <3> QED BY <3>1 DEF IInv, PairsAreGenerated, NoKey
  <2>4. CASE Restart
    BY <2>4 DEF Restart, IInv, DiskLagsBehind
  <2>5. CASE ShowStatus \/ Recreate \/ WriteToDisk
    BY <2>5 DEF ShowStatus, Recreate, WriteToDisk
  <2> QED BY <2>2, <2>3, <2>4, <2>5 DEF Next
<1> QED BY <1>1, Inductive, PTL DEF Spec, ForgottenReturnsOnlyFromDisk

-----------------------------------------------------------------------------
(* The register of a kind holds the pair of its private key, as long as    *)
(* the keys are whole.                                                     *)
LEMMA RegisterValue ==
    ASSUME NEW map, \A k \in Kind : Whole(map, k)
    PROVE  RegisterOf(map) = [k \in Kind |-> map[<<k, "private">>].pair]
  BY DEF RegisterOf

(* The store implements the register: generating fills the empty register  *)
(* of one kind, forgetting empties one, and writing, dying and showing     *)
(* touch neither value.                                                    *)
THEOREM Refinement == Spec => ImplementsRegister
<1>1. Init => Register!Init
  <2> SUFFICES ASSUME Init PROVE Register!Init
    OBVIOUS
  <2>1. prefs = file /\ \A k \in Kind, q \in Part : prefs[<<k, q>>] = NoKey
    BY DEF Init, Empty, KeyName
  <2>2. \A k \in Kind : prefs[<<k, "public">>] = NoKey /\ prefs[<<k, "private">>] = NoKey
    BY <2>1 DEF Part
  <2>3. \A k \in Kind : Whole(prefs, k) /\ prefs[<<k, "private">>].pair = 0
    BY <2>2, AbsentPair DEF Whole
  <2>4. RegisterOf(prefs) = [k \in Kind |-> prefs[<<k, "private">>].pair]
    BY <2>3, RegisterValue
  <2>5. RegisterOf(prefs) = [k \in Kind |-> 0]
    BY <2>3, <2>4
  <2>6. RegisterOf(file) = [k \in Kind |-> 0]
    BY <2>1, <2>5
  <2> QED BY <2>5, <2>6 DEF Register!Init
<1>2. IInv /\ IInv' /\ [Next]_vars => [Register!Next]_(Register!vars)
  <2> SUFFICES ASSUME IInv, IInv', [Next]_vars
               PROVE  Register!Next \/ UNCHANGED <<RegisterOf(prefs), RegisterOf(file)>>
    BY DEF Register!vars
  <2>1. /\ RegisterOf(prefs) = [k \in Kind |-> prefs[<<k, "private">>].pair]
        /\ RegisterOf(prefs)' = [k \in Kind |-> prefs'[<<k, "private">>].pair]
    BY RegisterValue DEF IInv, PairsMatch
  <2>2. ASSUME NEW kind \in Kind, Ensure(kind)
        PROVE  Register!Next \/ UNCHANGED <<RegisterOf(prefs), RegisterOf(file)>>
    <3>1. UNCHANGED RegisterOf(file)
      BY <2>2 DEF Ensure, RegisterOf, Whole
    <3>2. CASE UNCHANGED prefs
      BY <3>1, <3>2 DEF RegisterOf, Whole
    <3>3. CASE ~HasIdentity(kind) /\ GenerateAndStore(kind)
      <4>1. prefs' = Put(kind, generated + 1) /\ generated + 1 \in 1..MaxGenerated
        BY <3>3, BoundsAssumption DEF GenerateAndStore, Apply, IInv, TypeOK
      <4>2. ASSUME NEW k \in Kind
            PROVE  prefs'[<<k, "private">>].pair =
                      IF k = kind THEN generated + 1 ELSE prefs[<<k, "private">>].pair
        <5>1. \A q \in Part : prefs'[<<k, q>>] =
                 IF k = kind THEN [kind |-> kind, part |-> q, pair |-> generated + 1]
                 ELSE prefs[<<k, q>>]
          BY <4>1, PutReplacesOneKind DEF IInv, TypeOK, Stored
        <5>2. CASE k = kind
          <6>1. prefs'[<<k, "private">>] =
                   [kind |-> kind, part |-> "private", pair |-> generated + 1]
            BY <5>1, <5>2 DEF Part
          <6> QED BY <5>2, <6>1
        <5>3. CASE k # kind
          <6>1. prefs'[<<k, "private">>] = prefs[<<k, "private">>]
            BY <5>1, <5>3 DEF Part
          <6> QED BY <5>3, <6>1
        <5> QED BY <5>2, <5>3
      <4>3. RegisterOf(prefs)' = [RegisterOf(prefs) EXCEPT ![kind] = generated + 1]
        BY <2>1, <4>2
      <4>4. RegisterOf(prefs)[kind] = 0
        BY <2>1, <3>3 DEF HasIdentity, NoKey
      <4>5. Register!Fill(kind)
        BY <3>1, <4>1, <4>3, <4>4 DEF Register!Fill
      <4> QED BY <4>5 DEF Register!Next
    <3> QED BY <2>2, <3>2, <3>3 DEF Ensure
  <2>3. ASSUME NEW kind \in Kind, Forget(kind)
        PROVE  Register!Next
    <3>1. UNCHANGED RegisterOf(file)
      BY <2>3 DEF Forget, RegisterOf, Whole
    <3>2. \A k \in Kind : prefs'[<<k, "private">>].pair =
             IF k = kind THEN 0 ELSE prefs[<<k, "private">>].pair
      <4>1. prefs \in Stored /\ "private" \in Part /\ prefs' = Remove(kind)
        BY <2>3 DEF Forget, Apply, IInv, TypeOK, Stored, Part
      <4>2. \A k \in Kind : prefs'[<<k, "private">>] =
               IF k = kind THEN NoKey ELSE prefs[<<k, "private">>]
        BY <4>1, RemoveClearsOneKind
      <4> QED BY <4>2, AbsentPair
    <3>3. RegisterOf(prefs)' = [RegisterOf(prefs) EXCEPT ![kind] = 0]
      BY <2>1, <3>2
    <3>4. Register!Forget(kind)
      BY <3>1, <3>3 DEF Register!Forget
    <3> QED BY <3>4 DEF Register!Next
  <2>4. CASE WriteToDisk
    BY <2>4 DEF WriteToDisk, Register!Next, Register!Flush, RegisterOf, Whole
  <2>5. CASE Restart
    BY <2>5 DEF Restart, Register!Next, Register!Restart, RegisterOf, Whole
  <2>6. CASE ShowStatus \/ Recreate \/ UNCHANGED vars
    BY <2>6 DEF ShowStatus, Recreate, vars, RegisterOf, Whole
  <2> QED BY <2>2, <2>3, <2>4, <2>5, <2>6 DEF Next
<1> QED BY <1>1, <1>2, Inductive, PTL DEF Spec, ImplementsRegister, Register!Spec

=============================================================================
