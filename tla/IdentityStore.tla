---------------------------- MODULE IdentityStore ----------------------------
(***************************************************************************)
(* KeyStoreIdentity, its encrypted preferences, and MainActivity.onCreate, *)
(* which loads or generates the two identities of this device.             *)
(*                                                                         *)
(* The class is used from the app's main thread only, so its calls never   *)
(* overlap; what runs concurrently is the thread that writes the           *)
(* preferences to disk, and the death of the process at any point.         *)
(*                                                                         *)
(* EncryptedSharedPreferences is external: apply() changes the map in      *)
(* memory at once and as a whole, and schedules one write of that map,     *)
(* which replaces the file as a whole; encryption is transparent.          *)
(***************************************************************************)
EXTENDS Naturals

CONSTANTS
    MaxGenerated,   \* bound: key pairs generated
    MaxRestarts     \* bound: deaths of the process

ASSUME BoundsAssumption == MaxGenerated \in Nat /\ MaxRestarts \in Nat

Kind == {"holder", "noise"}
Part == {"public", "private"}

(* The preference keys of KeyStoreIdentity's companion object.             *)
KeyName == Kind \X Part

(* A key is known by the pair it was generated in; NoKey is an absent one. *)
Key == [kind : Kind, part : Part, pair : 1..MaxGenerated]
NoKey == [kind |-> "none", part |-> "none", pair |-> 0]

VARIABLES
    prefs,         \* the preferences in memory
    file,          \* the preferences on disk
    writePending,  \* an apply() has not reached the disk
    native,        \* this process could load the Rust library
    step,          \* where onCreate is
    shown,         \* the public keys on the status screen
    (* history and bounds *)
    generated,     \* pairs generated so far
    forgotten,     \* the pairs the user asked to forget
    restarts

vars == <<prefs, file, writePending, native, step, shown,
          generated, forgotten, restarts>>

NothingShown == [k \in Kind |-> NoKey]
PublicKey == {key \in Key : key.part = "public"}

(* The types; the screen shows a public key of each kind, or the text that *)
(* replaces both after an UnsatisfiedLinkError, never one of the two.      *)
TypeOK ==
    /\ prefs \in [KeyName -> Key \cup {NoKey}]
    /\ file \in [KeyName -> Key \cup {NoKey}]
    /\ writePending \in BOOLEAN
    /\ native \in BOOLEAN
    /\ step \in {"holder", "noise", "show", "done"}
    /\ shown \in {NothingShown} \cup [Kind -> PublicKey]
    /\ generated \in 0..MaxGenerated
    /\ forgotten \subseteq 1..MaxGenerated
    /\ restarts \in 0..MaxRestarts

Empty == [n \in KeyName |-> NoKey]

Init ==
    /\ prefs = Empty /\ file = Empty /\ writePending = FALSE
    /\ native \in BOOLEAN
    /\ step = "holder" /\ shown = NothingShown
    /\ generated = 0 /\ forgotten = {} /\ restarts = 0

-----------------------------------------------------------------------------
(* Slips a maintainer could make in the definitions below, used only to    *)
(* confirm that some property notices them.                                *)

NeverHasIdentity(kind) == FALSE
PutUnderHolder(kind, pair) ==
    [prefs EXCEPT ![<<kind, "public">>]  = [kind |-> kind, part |-> "public", pair |-> pair],
                  ![<<"holder", "private">>] =
                      [kind |-> kind, part |-> "private", pair |-> pair]]
RemoveEverything(kind) == Empty
OnlyAdditionsApplied(map) ==
    /\ prefs' = map
    /\ writePending' = (writePending \/ \E n \in KeyName : prefs[n] = NoKey /\ map[n] # NoKey)
ContinueAfterLinkError(kind) == IF kind = "holder" THEN "noise" ELSE "show"

-----------------------------------------------------------------------------
(* KeyStoreIdentity.                                                       *)

HasIdentity(kind) == prefs[<<kind, "private">>] # NoKey

Put(kind, pair) ==
    [prefs EXCEPT ![<<kind, "public">>]  = [kind |-> kind, part |-> "public", pair |-> pair],
                  ![<<kind, "private">>] = [kind |-> kind, part |-> "private", pair |-> pair]]

Remove(kind) ==
    [prefs EXCEPT ![<<kind, "public">>] = NoKey, ![<<kind, "private">>] = NoKey]

Apply(map) == prefs' = map /\ writePending' = TRUE

(* generateAndStoreHolderIdentity, generateAndStoreNoiseIdentity *)
GenerateAndStore(kind) ==
    /\ generated < MaxGenerated
    /\ generated' = generated + 1
    /\ Apply(Put(kind, generated + 1))

(* forgetHolderIdentity, forgetNoiseIdentity: nothing in the app calls     *)
(* them yet; a caller on the main thread runs between two onCreates.       *)
Forget(kind) ==
    /\ step = "done"
    /\ Apply(Remove(kind))
    /\ forgotten' = forgotten \cup ({prefs[<<kind, "private">>].pair} \ {NoKey.pair})
    /\ UNCHANGED <<file, native, step, shown, generated, restarts>>

-----------------------------------------------------------------------------
(* MainActivity.onCreate.                                                  *)

AfterLinkError(kind) == "done"

After(kind) == IF kind = "holder" THEN "noise" ELSE "show"

(* It makes sure of the holder identity, then of the noise identity, then  *)
(* shows both.  A kind already stored is left alone; generating one        *)
(* without the native library throws UnsatisfiedLinkError, which skips the *)
(* rest.                                                                   *)
Ensure(kind) ==
    /\ step = kind
    /\ \/ /\ HasIdentity(kind)
          /\ step' = After(kind)
          /\ UNCHANGED <<prefs, writePending, generated>>
       \/ /\ ~HasIdentity(kind) /\ native
          /\ GenerateAndStore(kind)
          /\ step' = After(kind)
       \/ /\ ~HasIdentity(kind) /\ ~native
          /\ step' = AfterLinkError(kind)
          /\ UNCHANGED <<prefs, writePending, generated>>
    /\ UNCHANGED <<file, native, shown, forgotten, restarts>>

(* The status text, the first characters of both public keys.              *)
Shows(k) == prefs[<<k, "public">>]

ShowStatus ==
    /\ step = "show"
    /\ shown' = [k \in Kind |-> Shows(k)]
    /\ step' = "done"
    /\ UNCHANGED <<prefs, file, writePending, native, generated, forgotten, restarts>>

(* The activity is created again in a living process (a rotation, a second *)
(* launch): a new onCreate, a new screen.                                  *)
Recreate ==
    /\ step = "done"
    /\ step' = "holder" /\ shown' = NothingShown
    /\ UNCHANGED <<prefs, file, writePending, native, generated, forgotten, restarts>>

-----------------------------------------------------------------------------
(* The system.                                                             *)

WriteToDisk ==
    /\ writePending
    /\ file' = prefs /\ writePending' = FALSE
    /\ UNCHANGED <<prefs, native, step, shown, generated, forgotten, restarts>>

(* The process dies and the app is started again, perhaps after an update  *)
(* that brings or loses the native library.                                *)
Restart ==
    /\ restarts < MaxRestarts
    /\ restarts' = restarts + 1
    /\ prefs' = file /\ writePending' = FALSE
    /\ native' \in BOOLEAN
    /\ step' = "holder" /\ shown' = NothingShown
    /\ UNCHANGED <<file, generated, forgotten>>

Next ==
    \/ \E kind \in Kind : Ensure(kind) \/ Forget(kind)
    \/ ShowStatus
    \/ Recreate
    \/ WriteToDisk
    \/ Restart

Spec == Init /\ [][Next]_vars

-----------------------------------------------------------------------------
(* The public and the private key of an identity come from one generated   *)
(* pair, are there both or neither, in memory as on disk, and the holder   *)
(* identity is never the noise identity.                                   *)
Whole(map, k) ==
    LET public == map[<<k, "public">>]
        private == map[<<k, "private">>] IN
    \/ public = NoKey /\ private = NoKey
    \/ /\ public.kind = k /\ public.part = "public"
       /\ private.kind = k /\ private.part = "private"
       /\ public.pair = private.pair

PairsMatch ==
    \A map \in {prefs, file} :
        /\ \A k \in Kind : Whole(map, k)
        /\ map[<<"holder", "private">>] # NoKey =>
             map[<<"holder", "private">>].pair # map[<<"noise", "private">>].pair

(* An identity in use is lost in two ways only: the user asks to forget it,*)
(* or the process dies before the write that apply() has only scheduled;   *)
(* then its place is empty, or taken again by one forgotten before, never  *)
(* by another live one.  An identity on disk is replaced or removed there  *)
(* only after it was forgotten, whatever else happens: restarts, failing   *)
(* native libraries, other writes.                                         *)
IdentityIsKept ==
    [][\A n \in KeyName :
          /\ file[n] # NoKey /\ file'[n] # file[n] => file[n].pair \in forgotten
          /\ prefs[n] # NoKey /\ prefs'[n] # prefs[n] =>
                \/ prefs[n].pair \in forgotten'
                \/ /\ writePending /\ restarts' # restarts
                   /\ prefs'[n] = NoKey \/ prefs'[n].pair \in forgotten]_vars

(* A forgotten identity comes back in one case only: the process died      *)
(* before its removal reached the disk.  Neither a later generation nor a  *)
(* write that comes late brings it back.                                   *)
ForgottenReturnsOnlyFromDisk ==
    [][\A n \in KeyName :
          prefs'[n] # prefs[n] /\ prefs'[n].pair \in forgotten =>
              writePending /\ prefs'[n] = file[n]]_vars

(* The store implements a register of whole pairs for each kind.           *)
RegisterOf(map) ==
    [k \in Kind |-> IF Whole(map, k) THEN map[<<k, "private">>].pair ELSE MaxGenerated + 1]

Register == INSTANCE IdentityRegister
            WITH loaded <- RegisterOf(prefs), durable <- RegisterOf(file),
                 Pair <- 1..MaxGenerated, None <- 0

ImplementsRegister == Register!Spec

=============================================================================
