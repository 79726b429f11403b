---------------------------- MODULE KeyBoundary -----------------------------
(***************************************************************************)
(* The functions of rust-core/src/lib.rs that take keys and grants as hex, *)
(* and two members of a channel who call them: each generates identities,  *)
(* perhaps anew, and gets the other's public texts, perhaps outdated, in   *)
(* the other case, or cut.                                                 *)
(*                                                                         *)
(* The cryptography (ed25519_dalek, snow, ct_common) is external and       *)
(* symbolic: a public key determines its private key, a signature and a    *)
(* channel id determine what they were made from.  The functions keep no   *)
(* state, so the state is the history of the calls.                        *)
(***************************************************************************)
EXTENDS HexCodec

CONSTANTS
    SecretsInOrder,  \* the private keys generated, one after the other
    MaxCalls         \* bound: calls recorded; each property relates two

ASSUME SecretsAssumption ==
    /\ SecretsInOrder \in Seq([1..KeyBytes -> 0..(Radix * Radix - 1)])
    /\ IsInjective(SecretsInOrder)
    /\ Len(SecretsInOrder) >= 4

Member == {"a", "b"}
Peer(m) == IF m = "a" THEN "b" ELSE "a"

VARIABLES
    generated,   \* how many of the secrets are in use
    identities,  \* the holder and the noise identities of a member, oldest first
    calls,       \* the calls made, with their results
    garbage      \* a call with a text nobody encoded, or NoCall

vars == <<generated, identities, calls, garbage>>

NoCall == [kind |-> "none"]

-----------------------------------------------------------------------------
(* External: keys, handshakes, channel ids, grants.                        *)

PublicOf(secret) == [i \in DOMAIN secret |-> (secret[i] + Radix + 1) % (Radix * Radix)]

Verifies(public, signature) == public = PublicOf(signature.key)

OperatorHex == ToHex([i \in 1..KeyBytes |-> 0])

ChannelId(operator, a, b) == [operator |-> operator, link |-> {a, b}]

(* A grant names the holder's public key and ends with the operator's seal. *)
GrantFor(public) == Append(public, 0)
GrantDecodes(bytes) == Len(bytes) = KeyBytes + 1 /\ Last(bytes) = 0
HolderIn(grant) == Front(grant)

(* How a text arrives.                                                     *)
Recased(s) == [i \in DOMAIN s |->
                  IF s[i].value >= FirstLetter THEN Upper(s[i].value) ELSE s[i]]

Copies(s) == { [cut |-> FALSE, text |-> s], [cut |-> FALSE, text |-> Recased(s)],
               [cut |-> TRUE, text |-> Front(s)],
               [cut |-> TRUE, text |-> Front(Front(s))] }

-----------------------------------------------------------------------------
(* The exported functions.  Arguments are parsed in order; the first that  *)
(* fails decides.                                                          *)

Parsed(results, value) ==
    LET bad == {i \in DOMAIN results : results[i].kind # "Ok"} IN
    IF bad = {} THEN Ok(value) ELSE results[Min(bad)]

(* Slips, as in HexCodec.                                                  *)
LinkToItself(operator, a, b) ==
    Parsed(<<Hex32(operator), Hex32(a), Hex32(b)>>,
           ChannelId(Hex32(operator).value, Hex32(a).value, Hex32(a).value))
KeysSwapped(local, remote) ==
    Parsed(<<Hex32(local), Hex32(remote)>>,
           [local |-> Hex32(remote).value, remote |-> Hex32(local).value])
HalvesSwapped(secret) ==
    [public_hex |-> ToHex(secret), private_hex |-> ToHex(PublicOf(secret))]

GenerateHolderIdentity(secret) ==
    [public_hex |-> ToHex(PublicOf(secret)), private_hex |-> ToHex(secret)]

GenerateNoiseIdentity(secret) ==
    [public_hex |-> ToHex(PublicOf(secret)), private_hex |-> ToHex(secret)]

ChannelIdForLink(operator, a, b) ==
    Parsed(<<Hex32(operator), Hex32(a), Hex32(b)>>,
           ChannelId(Hex32(operator).value, Hex32(a).value, Hex32(b).value))

NewInitiator(local, remote) ==
    Parsed(<<Hex32(local), Hex32(remote)>>,
           [local |-> Hex32(local).value, remote |-> Hex32(remote).value])

NewResponder(local) == Parsed(<<Hex32(local)>>, [local |-> Hex32(local).value])

HolderSign(private, message) ==
    Parsed(<<Hex32(private)>>, [key |-> Hex32(private).value, message |-> message])

BuildChannelJoinRequest(grant, endpoint) ==
    LET bytes == FromHex(grant) IN
    IF bytes.kind = "Ok" /\ ~GrantDecodes(bytes.value) THEN Err("not a grant")
    ELSE Parsed(<<bytes>>, [grant |-> bytes.value, endpoint |-> endpoint])

-----------------------------------------------------------------------------
Init ==
    /\ generated = 4
    /\ identities = [m \in Member |->
          LET n == IF m = "a" THEN 1 ELSE 2 IN
          [holder |-> <<GenerateHolderIdentity(SecretsInOrder[n])>>,
           noise |-> <<GenerateNoiseIdentity(SecretsInOrder[n + 2])>>]]
    /\ calls = {}
    /\ garbage = NoCall

(* A member forgets an identity and generates another.                     *)
GenerateAgain(m) ==
    /\ generated < Len(SecretsInOrder)
    /\ generated' = generated + 1
    /\ LET secret == SecretsInOrder[generated + 1] IN
       \/ identities' = [identities EXCEPT
             ![m].holder = Append(@, GenerateHolderIdentity(secret))]
       \/ identities' = [identities EXCEPT
             ![m].noise = Append(@, GenerateNoiseIdentity(secret))]
    /\ UNCHANGED <<calls, garbage>>

Current(m) == [k \in {"holder", "noise"} |-> Last(identities[m][k])]

(* own and other are the identities a call is about, cut says whether the  *)
(* text of the second arrived whole.                                       *)
Call(function, result, own, other, cut) ==
    /\ Cardinality(calls) < MaxCalls
    /\ calls' = calls \cup {[function |-> function, result |-> result,
                             own |-> own, other |-> other, cut |-> cut]}
    /\ UNCHANGED <<generated, identities, garbage>>

ComputesChannel(m) ==
    LET own == Current(m).holder IN
    \E other \in ToSet(identities[Peer(m)].holder) :
        \E copy \in Copies(other.public_hex) :
            Call("channel", ChannelIdForLink(OperatorHex, own.public_hex, copy.text),
                 own, other, copy.cut)

Initiates(m) ==
    LET own == Current(m).noise IN
    \E other \in ToSet(identities[Peer(m)].noise) :
        \E copy \in Copies(other.public_hex) :
            Call("initiator", NewInitiator(own.private_hex, copy.text),
                 own, other, copy.cut)

Responds(m) ==
    LET own == Current(m).noise IN
    Call("responder", NewResponder(own.private_hex), own, own, FALSE)

(* The backend granted the channel to an identity the member has or had.   *)
Joins(m) ==
    \E own \in ToSet(identities[m].holder) :
        \E copy \in Copies(ToHex(GrantFor(Hex32(own.public_hex).value))) :
            Call("join", BuildChannelJoinRequest(copy.text, m), own, own, copy.cut)

ProvesPossession(m) ==
    LET own == Current(m).holder IN
    Call("sign", HolderSign(own.private_hex, "challenge"), own, own, FALSE)

(* A text nobody encoded, given to two of the functions.  Bound: nothing   *)
(* else happens in such a behaviour; the functions keep no state.          *)
GetsGarbage ==
    /\ garbage = NoCall /\ calls = {} /\ generated = 4
    /\ \E s \in Text :
          garbage' = [kind |-> "call", text |-> s,
                      request |-> BuildChannelJoinRequest(s, "endpoint"),
                      responder |-> NewResponder(s)]
    /\ UNCHANGED <<generated, identities, calls>>

MemberCalls(m) ==
    \/ ComputesChannel(m)
    \/ Initiates(m)
    \/ Responds(m)
    \/ Joins(m)
    \/ ProvesPossession(m)

Next ==
    \/ GetsGarbage
    \/ /\ garbage = NoCall
       /\ \E m \in Member : GenerateAgain(m) \/ MemberCalls(m)

Spec == Init /\ [][Next]_vars

-----------------------------------------------------------------------------
IsIdentity(i) ==
    \A text \in {i.public_hex, i.private_hex} :
        Len(text) = 2 * KeyBytes /\ \A n \in DOMAIN text : text[n].kind = "lower"

TypeOK ==
    /\ generated \in 4..Len(SecretsInOrder)
    /\ \A m \in Member, k \in {"holder", "noise"} :
          \A i \in ToSet(identities[m][k]) : IsIdentity(i)
    /\ \A c \in calls : c.result.kind \in {"Ok", "Err"}

(* A call whose texts arrived whole is accepted, in either case of letters *)
(* and whatever zeros the keys begin with; one with a text that was cut is *)
(* refused.                                                                *)
WholeTextsOnly == \A c \in calls : c.result.kind = "Ok" <=> ~c.cut

Succeeded(function) == {c \in calls : c.function = function /\ c.result.kind = "Ok"}

(* lib.rs:92-94, "no coordination round-trip is needed to agree on it":    *)
(* two calls give one channel id exactly if they are about the same two    *)
(* identities, whoever makes them and however the texts are cased; a       *)
(* member with an outdated identity of the other ends up elsewhere.        *)
ChannelsAgree ==
    \A c, d \in Succeeded("channel") :
        c.result = d.result <=> {c.own, c.other} = {d.own, d.other}

(* An initiator pins the key of a responder exactly if the responder uses  *)
(* the identity that the initiator was told.                               *)
InitiatorMeetsResponder ==
    \A c \in Succeeded("initiator"), d \in Succeeded("responder") :
        c.result.value.remote = PublicOf(d.result.value.local) <=> c.other = d.own

(* The answer to the possession challenge verifies under the key in the    *)
(* grant exactly if the grant is for the identity that signs: one that was *)
(* generated again after the grant proves nothing.                         *)
PossessionIsProven ==
    \A c \in Succeeded("join"), d \in Succeeded("sign") :
        Verifies(HolderIn(c.result.value.grant), d.result.value) <=> c.own = d.own

(* Whatever text is taken for a key or a grant says, digit by digit, the   *)
(* bytes it is taken for: to_hex gives it back, in lower case and with a   *)
(* zero for the plus sign that a pair may begin with.                      *)
Plain(s) ==
    [i \in DOMAIN s |-> IF IsDigit(s[i]) THEN Lower(s[i].value)
                        ELSE IF s[i] = Plus /\ i % 2 = 1 THEN Lower(0) ELSE s[i]]

AcceptedTextSaysItsBytes ==
    garbage # NoCall =>
        /\ garbage.request.kind = "Ok" =>
              ToHex(garbage.request.value.grant) = Plain(garbage.text)
        /\ garbage.responder.kind = "Ok" =>
              ToHex(garbage.responder.value.local) = Plain(garbage.text)

(* lib.rs:441-445, a test named "rejects_garbage_grant_hex_instead_of_     *)
(* panicking" that "proves malformed input is a clean Err, not a panic".   *)
GarbageIsAnError ==
    garbage # NoCall => garbage.request # Panic /\ garbage.responder # Panic

=============================================================================
