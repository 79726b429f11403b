# Formal models of CADS-webconference-android

TLA+ models of the Rust core (`rust-core/`) and of the Android side
(`android/`) of this repository: what each part does, step by step. TLC checks
every property on small instances; TLAPS proves every one of them that is not a
liveness property for all values of the constants (any thresholds, any number of
threads and messages, any text, any length of keys). Paths below are relative to
the repository;
`lib.rs` and `transport_fallback.rs` are under `rust-core/src/`, the Kotlin
files under `android/app/src/main/kotlin/org/bunsenbrenner/cads/webconference/`.

Contents: 1 inventory, 2 modules and how they correspond to the code, 3 runs
and bounds, 4 fairness, 5 proofs, 6 disagreements found, 7 what is not
modelled, 8 plan.

## 1. Inventory

The repository holds a library and a scaffold. The library (Rust, exported
through UniFFI) has the cryptographic session, the signaling codec and the
transport fallback. The scaffold (Kotlin) keeps the device's identities and can
show an incoming call. What would connect them (WebSocket, ICE observer, timer,
direct-channel worker, listener loop) is named in doc comments and not written:
`ARCHITECTURE.md` gap 1, `call/IncomingCallService.kt:36-41`.

### Transport fallback controller (`transport_fallback.rs`)

- State: `ControllerState { current, ice, fallback_triggered,
  early_status_emitted }` behind one `Mutex`.
- Operations: `new`, `on_ice_state_changed`, `on_direct_channel_result`,
  `on_tick`, `current_state`. Each holds the lock for its whole body and returns a
  clone of the state.
- Callers: the WebRTC stack's observer, a timer, the worker that tries the
  direct channel. They are different threads; nothing orders them.
- Hard: a WebRTC connection racing the direct channel's verdict; ICE failure
  and timer announcing the same fallback; ticks that come late or straddle two
  thresholds; a fallback that is used up; waiting for an answer that no tick
  can replace; the returned state is used after the lock is released, so two
  threads may show theirs in the other order.
- Correct when: the direct channel is tried at most once and over a fresh
  signaling socket; a connecting user is never left without a status; an abandoned
  call has no attempt left that could still answer, and its text is true (of WebRTC
  it is not always: section 6); elapsed time never undoes a connection; nothing but
  an unanswered attempt at the direct channel keeps a call undecided; the screen
  ends up with the state the call is in.

### Noise session (`lib.rs:118-226`)

- State: `NoiseHandshake` (a `Mutex<Option<HandshakeState>>`), then
  `NoiseTransport` (a `Mutex<TransportState>` with snow's two counters).
- Operations: `new_initiator`, `new_responder`, `write_message`,
  `read_message`, `is_finished`, `into_transport`, `encrypt`, `decrypt`.
- Interaction: the ends exchange the two messages of Noise IK, then signaling
  messages, through a relay. The lock covers one call only: another thread can
  run between an `encrypt` and the sending of its result.
- Hard: `into_transport` empties the `Option` before it can fail; messages
  overtaken, lost or repeated; counters after a refused message; two transports
  from one handshake; an end that starts again while messages of the old
  session travel.
- Correct when: in a session, no counter is used twice and what is received is a
  prefix of what was sent; an orderly driver on an orderly relay gets a session, which
  delivers everything as long as the threads of an end do not overtake one another.

### Signaling wire format (`lib.rs:260-391`)

- No state. `encode_signal_*` and `decode_signal_message` map a `SignalMessage`
  to bytes and back; both ends use them inside an encrypted session.
- Hard: lengths cast to `u8`/`u16`, sentinels for absent values, input that
  stops at any byte or goes on after the message; a session's own limit on the
  length of a message.
- Correct when: a message whose texts fit comes back as it was, but for the two values
  that are the format's signs of an absent field; the
  beginning of a message is never a message; nothing is decoded that was not
  in the bytes.

### Hex codec and the functions that take hex (`lib.rs:31-106`, `130-152`, `228-258`)

- No state. `to_hex`, `from_hex`, `hex32`; `generate_holder_identity`,
  `generate_noise_identity`, `channel_id_for_link`, `new_initiator`,
  `new_responder`, `holder_sign`, `build_channel_join_request`: every key and
  grant crosses the Kotlin boundary as hex.
- Interaction: two members exchange public texts by ways the repository does not
  fix, and compute, each alone, what must agree.
- Hard: byte offsets into a UTF-8 string; leading zeros and the case of letters;
  texts cut on the way; an identity generated again while the other member still
  has the old text.
- Correct when: malformed text is an `Err`; accepted text says the bytes it is taken
  for; two calls agree exactly if they are about the same identities.

### Identity store and status screen (`identity/KeyStoreIdentity.kt`, `MainActivity.kt`)

- State: two key pairs (holder, Noise) in encrypted preferences: a map in
  memory and a file that `apply()` updates later.
- Operations: `has…Identity`, `generateAndStore…Identity`, `…PublicHex`,
  `forget…Identity`; `MainActivity.onCreate` calls them in order and gives up at
  the first `UnsatisfiedLinkError`.
- Hard: the process dying before the write; a native library missing in one
  run and there in the next; one kind's calls touching the other's.
- Correct when: public and private half always belong together; an identity stays until
  it is forgotten, unless the process dies before it is written; the user sees one
  identity.

### Incoming call (`call/IncomingCallNotifications.kt`, `IncomingCallActivity.kt`, `IncomingCallService.kt`)

- State: the notification channel, notification 1001, three `PendingIntent`s,
  one `singleTask` activity, one sticky foreground service.
- Operations: `show`, `dismiss`, the activity's `onCreate`, its two buttons,
  the service's `onStartCommand`.
- Hard: `PendingIntent`s shared by request code; an intent that reaches a
  living activity; a second caller; the process killed while ringing or
  listening.
- Correct when: what is accepted is the call the user saw; nothing but a living
  ringing screen keeps a prompt from being answered in the notification; the listener
  comes back.

### Not modelled, and why

See section 7: message framing (a wrapper of external code), the ICE server list
(`ice.rs`), the channel-join sequence (a doc comment only), build and CI.

## 2. Modules

| Module | What it is | Code |
| --- | --- | --- |
| `TransportFallback` | the controller alone: one action per method, no caller | `transport_fallback.rs` |
| `CallSetup` | the controller composed with ICE, timer, worker and socket | the same, and the platform its comments ask for |
| `CallScreen` | the controller composed with threads that deliver its states late, and the screen | the same |
| `CallProgress` | abstract: five phases, one attempt at the direct channel | what `CallSetup` and `CallScreen` implement |
| `TransportFallbackProofs` | lemmas about the controller, for the two that follow | |
| `CallSetupProofs`, `CallScreenProofs` | theorems about `CallSetup` and `CallScreen` | |
| `NoiseSession` | both ends' handshake and transport objects, their threads, the relay | `lib.rs:118-226` |
| `SecureChannel` | abstract: per direction, received is a prefix of sent | what `NoiseSession` implements, session by session |
| `NoiseSessionProofs` | theorems about `NoiseSession` | |
| `SignalCodec` | encoder and decoder, and a peer whose bytes may be cut or extended | `lib.rs:260-391` |
| `SignalCodecProofs` | theorems about `SignalCodec` | |
| `HexCodec` | `to_hex`, `from_hex`, `hex32` on UTF-8 texts | `lib.rs:31-52` |
| `KeyBoundary` | the exported functions over hex, two members who call them | `lib.rs:54-106`, `130-152`, `228-258` |
| `KeyBoundaryProofs` | theorems about `HexCodec` and `KeyBoundary` | |
| `IdentityStore` | preferences, file, `onCreate`, process death | `KeyStoreIdentity.kt`, `MainActivity.kt` |
| `IdentityRegister` | abstract: a register of whole pairs per kind | what `IdentityStore` implements |
| `IdentityStoreProofs` | theorems about `IdentityStore` | |
| `IncomingCall` | notification, activity, service, system | `call/*.kt` |
| `IncomingCallProofs` | theorems about `IncomingCall` | |
| `MCNoiseSession`, `MCSignalCodec`, `MCKeyBoundary` | values for TLC | |

`PROJECT.json` ("map") names the lines behind every definition. The choices a
reader should know of:

**Transport fallback.** A text shown to the user is a name for that text
(`"TimedOut"` for transport_fallback.rs:122, `"BothFailed"` for 106, and so on):
properties ask which text is shown, never how it reads. Each method is one
action because it holds the lock throughout. `OnIceStateChanged` and `OnTick`
have one disjunct per arm of the code's `match` and `if` chain, the arm that
changes nothing included. `current_state()` changes nothing; `CallScreen` reads it
when a screen is opened.

`CallSetup` adds the platform, kept as weak as the controller's comments allow: ICE
reports any change of its state, or none ever, but never the state before it began
again (`IceMoves`; a failed one may revive, as after an ICE restart); the timer calls
`on_tick` with the true elapsed time, at most `tickGap` apart; the worker acts on an
announced fallback at any later moment, opens a new signaling connection if the state
says so, and reports its result once, late, or never; the signaling socket may go
stale at any moment. `statusAt`, `announcements` and `triedOn` only record history.

`CallSetup` shows a change in the step that makes it. `CallScreen` does not: a method
returns a clone, the caller's thread holds it (`inFlight`) and delivers it at any
later moment, so a newer state may be overwritten by an older one. (The comment at
transport_fallback.rs:78-79, "same value `current_state()` would return right after",
holds only if nobody else calls in between.) Each thread delivers one result before
it calls again; a thread's own results stay in order. The worker starts when a
delivered state asks for the direct channel for the first time. Clock and socket
are left out: of time it keeps that elapsed times never decrease.

**Noise session.** snow is external and modelled by what the code relies on: a
handshake object takes calls in turn and refuses others unharmed; a transport
seals with a counter it advances on success only, and opens exactly the
message with the counter it expects. Payloads of handshake messages are empty.
A call that returns an error and changes nothing is a stuttering step, so the
only failing calls that appear are those with an effect: `into_transport` before
the handshake is finished (it leaves `None` behind), and messages that are taken
off the wire and refused. With `Faulty`, the wire keeps every message ever sent
and hands over any of them, in any order, again and again, or never: that covers
loss, delay, repetition and reordering with one definition.

An end may start again (`StartAgain`): a new handshake object with the next number.
The old transport stays in use until the new handshake yields another, and a thread
uses the transport that is there at the moment of its call. A session is named by
the numbers of the two objects that agreed on it. IK mixes fresh keys of both into
the session key, so a message opens only in its own session, an initiator accepts
only an answer to its own opening, and a responder may read any opening, also one of
an object the initiator has dropped.

**Signal codec.** A byte is a number below `Base`, so that `as u8` and `as u16` wrap
around (`% Base`, `% Base^2`) at lengths TLC can reach; texts are sequences of
bytes with a two-byte character, so that cutting one is noticed as
`String::from_utf8` notices it. An `Option` is a sequence of at most one element.

**Hex codec.** A text is the sequence of its UTF-8 bytes, as `str::len` counts and a
slice indexes them; a byte has a kind and a value, and a character of several bytes
is a lead byte, which says how many, with its continuation bytes. A slice that
begins or ends at a continuation byte cuts a character: that is Rust's
`is_char_boundary`, and the slice panics. The leading plus sign that
`u8::from_str_radix` takes is modelled.

**Key boundary.** Keys are the code's byte strings in small; the cryptography on
them is symbolic: a public key, a signature or a channel id determines what it was
made from. The functions keep no state, so the state is the identities and a history
of calls. A call uses the caller's newest identity and any identity the other ever
had, whose text arrives whole, in capitals, or cut by one or two digits.

**Identity store.** A key is the number of the pair it was generated in, with its
kind and half. `apply()` is a change of the map and a pending write; `WriteToDisk`
may come at any time, `Restart` loses what is pending and may bring or lose the
native library. `Recreate` is a new `onCreate` in a living process.

**Incoming call.** `Show` models what the missing listener would call
(`IncomingCallService.kt:36-41`). Android's rules are external: one notification per
id, one `PendingIntent` per request code and action, whose extras
`FLAG_UPDATE_CURRENT` replaces, and a living `singleTask` activity that gets a new
intent in `onNewIntent` only, which is not overridden. `Ring` is the launch of the
full-screen intent, by the system or by the user's touch.

The definitions under "Slips" in a module are wrong versions of one definition,
each a bug a maintainer could write; `PROJECT.json` ("mutants") says which property
fails when the slip replaces the original. Nothing else uses them.

## 3. Runs

All with `tlc -workers 2 -config <cfg> <module>`.

### Runs that pass

| Run | Module, cfg | Instance | States | Shows |
| --- | --- | --- | --- | --- |
| `call_setup` | `CallSetup` | thresholds 3, 6, 20; tick gaps 2 and 16; clock to 22 | 441,114 | all orders of ICE reports, ticks, worker and socket |
| `call_screen` | `CallScreen` | thresholds 3, 6, 20; ticks at 2, 3, 6 and 20 | 8,649 | all orders of calls and deliveries |
| `noise_session` | `MCNoiseSession`, `NoiseSession.cfg` | two threads and one handshake object per end, 3 messages from the initiator and 1 back, one of three texts oversize | 17,411 | with an orderly relay: safety, delivery, and what stops it |
| `noise_session_faulty` | `MCNoiseSession`, `NoiseSessionFaulty.cfg` | two threads and two handshake objects per end, 2 messages from the initiator, faulty relay, `into_transport` at any time | 104,904 (with symmetry) | safety only |
| `signal_codec` | `MCSignalCodec` | base 6; every message over 12 texts; every byte string up to 6 bytes | 80,569 | the codec's properties |
| `key_boundary` | `MCKeyBoundary`, `KeyBoundary.cfg` | radix 4, keys of one byte, 6 key pairs, 2 calls; every UTF-8 text of up to 5 bytes | 36,551 | the functions over hex |
| `identity_store` | `IdentityStore` | 5 pairs, 2 deaths of the process | 23,665 | storage properties |
| `incoming_call` | `IncomingCall` | 2 callers, 3 calls, 2 kills | 540 | prompt and listener |

What they check:

- `OneFreshDirectAttempt`: the fallback is announced at most once and the attempt
  never uses a socket older than the announcement (root cause 2 of the bug the
  module is written against, transport_fallback.rs:12-15).
- `NeverSilentWhileConnecting`: root cause 1, as a bound: while connecting, the last
  change shown is younger than the longer interval between thresholds plus the
  timer's lateness. With the code's numbers and prompt ticks: 3 seconds.
- `PunctualCallTriesDirectChannel`: with ticks at most `AbandonMs - FallbackTriggerMs`
  (14 s) apart, the abandon branch of `on_tick` is never taken: a call is given up
  only after the direct channel failed. The 16 s gap shows that the bound matters.
- `AbandonedLeavesNoAttempt`: a call given up as "both failed" has had the verdict of its
  direct channel, and one that timed out never ordered it, nor has a report of WebRTC
  behind it that the controller reacts to, however late the tick. The property is
  silent about WebRTC in a call given up as "both failed": there the text may be
  untrue, which is disagreement 1 of section 6.
- `ConnectionLostOnlyByFailureReport`: time never undoes a connection.
- `KeepsPromise`: refinement of `CallProgress`.
- `UndecidedMeansUnanswered` (liveness): a call stays undecided for ever only while its
  direct channel has been started and never answers. Silent ICE does not keep it so, the
  timer forces the fallback, and no answer leaves it undecided. Nothing bounds the wait
  for that answer; that the run allows it to be missing is what makes this visible.
- `NothingShownTooEarly`: neither the screen nor a snapshot on its way is ahead of a
  controller that is still connecting. `UsedFallbackIsTried`: the one announcement is
  not lost between the thread that caused it and the worker. `ScreenSettles`: an old
  snapshot may overwrite a new one, but in the end the screen shows the state of the
  call. What sees to it is that `on_tick` returns the state in every phase, those
  that ignore time included (transport_fallback.rs:118-120), and a timer that goes on
  ticking. Nothing obliges it to, so the property is a disjunction: the screen settles,
  or the timer stops (`TimerStops`), after which a wrong screen may stay.
- `NoNonceReuse`, `OpenedByBothHandshakes`, `ImplementsChannel` (refinement of one
  `SecureChannel` per session and direction, so that nothing leaks from one session
  into another), `SessionOpens` (liveness).
- `EveryMessageArrives` (liveness): what was encrypted is decrypted by the peer, past
  refused oversize messages, unless two threads of the sender were once both between
  `encrypt` and their send, or two of the receiver between the wire and `decrypt`
  (`Overlap`). The two threads of the run do overtake one another, the direction then
  stalls for good, and nothing else stalls it.
- `RoundTrip`, `NoMessageFromItsBeginning`, `NothingInvented`: for every message whose texts
  fit their lengths. `Canonical` says what a receiver is told of it: `Some("")` and
  `Some(65535)` are the signs of an absent field and come back as `None`, no other value
  does, and no `None` comes back as a value. `SealedTextsAreWhole`: the
  codec over the session. The u16 prefix would cut a long SDP silently, but a session
  refuses it first (lib.rs:116, 209-216); only the u8 prefix of `sdp_mid` can go wrong.
- `WholeTextsOnly`, `AcceptedTextSaysItsBytes`: which texts are taken and for what.
  `ChannelsAgree`, `InitiatorMeetsResponder`, `PossessionIsProven`: two calls fit together
  exactly if they are about the same identities; each is an equivalence, so that it
  also says what an outdated identity leads to.
- `PairsMatch`, `ImplementsRegister`; `TypeOK`: the screen
  shows both public keys or neither, also when the native library is lost between
  two generations. `IdentityIsKept`: an identity in use is lost only because it is
  forgotten or because the process dies before its write, and then no other live one
  takes its place; one on disk stays there until it is forgotten.
  `ForgottenReturnsOnlyFromDisk`: a forgotten identity comes back
  only if the process died before the write.
- `DecisionIsForTheCallerSeen`, `ListenerComesBack`. `PromptStaysOnlyBehindItsScreen`
  (liveness): presses in the notification get rid of a prompt, unless the ringing screen
  is up again and again. A living screen swallows the presses (section 6); kills and
  second calls do not.

### Runs that exhibit a disagreement

`both_failed_race`, `both_down_unshown`, `texts_verbatim`, `hex_panics`: one property
each, stating what a comment or test says; section 6.

### Bounds, and why they are enough

- Clock: one unit is a second of the code's milliseconds, the thresholds are the
  code's divided by 1000. The clock stops at 22, two units after the last
  threshold, after which no method compares the elapsed time with anything. The
  proofs do without a bound that matters: they hold for every `MaxNow`.
- Tick gaps 2 and 16: below and above `AbandonMs - FallbackTriggerMs` = 14, so that
  every branch of `on_tick` is taken.
- Elapsed times of `CallScreen`: one in each interval that `on_tick` tells apart.
- Messages: with an orderly relay three from the initiator, so that a refused oversize
  message can fall before, between and after delivered ones, and one back, so that the
  directions meet; with a faulty relay two, the
  fewest that can be reordered, repeated, or lost one without the other. There only
  the initiator encrypts: the directions of a session share no key and no counter,
  and both ends run the same code. Two handshake objects per end: either end, or
  both, start again, and all four sessions they can agree on occur. With two threads,
  every pair of methods interleaves.
- `Base` 6: the 1-byte prefix wraps at 6 and the 2-byte one at 36; the texts lie at
  0, 1, 2, 3, B-1, B, B^2-5 (the longest SDP a session takes), B^2-4, B^2-1, B^2 and
  B^2+2 bytes, the mids at B-1, B, B+1, B+3. Byte
  strings of up to 6 bytes contain a whole ICE candidate and every shorter input.
- 5 pairs and 2 deaths: each kind is generated, lost, generated again, forgotten and
  generated again. 3 calls of 2 callers: the same caller again and another one,
  while the first rings. 2 kills: one while listening, one while ringing.
- Hex: radix 4, so that a byte has two digits, one of which is a letter with two
  cases; keys of one byte and grants of two, hence texts of 4 bytes and one more, all
  of them: a character of four bytes fits with a digit on either side. The key pairs
  have private and public keys that begin with a zero digit, or end with one. Each
  property relates two calls, so two are recorded; two identities are generated
  again.

Deadlock is checked in `call_setup`, `call_screen` and `incoming_call` and in the
violation runs of the first (the timer, the screen's next call and the app's start
go on for ever). It is not in the codecs (one call and done) and `KeyBoundary` (two
calls), in the session (handshakes that failed, everything sent and bounds reached:
nothing is left to do) nor in the identity store (bounds on pairs and deaths).

## 4. Fairness

Fairness is assumed of what the code or its documents oblige, and of little else; where
a property needs more, the need is written into the property, as what else may have
happened.

- `CallSetup`: weak fairness of the clock, the timer and the worker's start, which the
  comments ask of the caller (transport_fallback.rs:12-17, 110-112). None of the direct
  channel's answer: 99-100 ask for it, nothing enforces it, and `on_tick` ignores every
  phase but `Connecting`. None of ICE: it may be silent for ever.
- `CallScreen`: weak fairness of the delivery of what a thread holds: a thread that has
  called a method goes on to show what it got. None of the timer, of the worker's
  answer, of ICE, nor of opening the screen again.
- `NoiseSession`: weak fairness of the driver's handshake steps and of sending,
  receiving and decrypting; none of `Encrypt` (nobody has to talk). Liveness is
  claimed for a relay that keeps order and a driver that asks `is_finished` first;
  `noise_session_faulty` claims none.
- `IncomingCall`: weak fairness of `onStartCommand` (the system delivers it), and of
  pressing a notification's action while there is one. The latter obliges nobody: it is
  what the question "do the presses help?" supposes. No fairness of the screen's
  buttons, of leaving it, or of the system's kills, calls and launches.
- `IdentityStore`, `SignalCodec`, `KeyBoundary`: none; only safety is claimed.

## 5. Proofs

Checked by `tlapm` (SMT, Zenon and, for the temporal steps, LS4). Every proof module
has the same shape: an inductive invariant `IInv`, `InitEstablishesIInv`,
`StepKeepsIInv` with a case or a lemma per action, `Inductive == Spec => []IInv`, and
the theorems that follow from it. Each `IInv` was checked by TLC, on the instances of
section 3, before it was proved.

| Module | For every | Theorems about the properties of the runs |
| --- | --- | --- |
| `CallSetupProofs` | thresholds, tick gaps, clock bound | `TypeCorrect`, `FreshAttempt`, `BoundedSilence`, `PunctualTries`, `NoAttemptLeft`, `OnlyFailureDisconnects`, `Refinement` |
| `CallScreenProofs` | thresholds, elapsed times | `TypeCorrect`, `ShowsNothingTooEarly`, `Refinement` |
| `NoiseSessionProofs` | set of threads, set of texts, number of handshakes and messages, either relay, either driver | `TypeCorrect`, `CountersAreFresh`, `BothTookPart`, `Refinement` |
| `SignalCodecProofs` | base of a byte above 4, set of texts, string of bytes | `TypeCorrect`, `RoundTrips`, `DelimitsItself`, `InventsNothing`, `SessionsCarryWholeTexts` |
| `KeyBoundaryProofs` | radix, length of keys, list of private keys, text | `TypeCorrect`, `OnlyWholeTexts`, `Agree`, `Meet`, `Possession`, `AcceptedTextIsMeant` |
| `IdentityStoreProofs` | number of pairs and of deaths | `TypeCorrect`, `PairsStayWhole`, `IdentitiesAreKept`, `ForgottenStaysForgotten`, `Refinement` |
| `IncomingCallProofs` | set of callers, number of calls and kills | `TypeCorrect`, `DecidesForTheCallerSeen` |

`TransportFallbackProofs` has what the two modules about calls share: each method
keeps the controller's type, and none of them makes a call connecting again.

### Assumptions

All are ASSUMEs of the modules that declare the constants, and TLC evaluates them in
every run of those modules.

- `ThresholdsAssumption`: 0 < early < fallback < abandon (transport_fallback.rs:44-46).
  `PlatformAssumption`, `ElapsedAssumption`, `BoundsAssumption`,
  `CallBoundsAssumption`: times and bounds are natural numbers, tick gaps positive.
- `SessionAssumption`: the oversize texts are among the texts, the switches are
  Boolean, there is at least one handshake object.
- `BaseAssumption`: the four message types (lib.rs:280-283) are bytes;
  `TextsAssumption`: a text is a UTF-8 string, a message's m-line index fits a u16.
  Both hold by Rust's types.
- `RadixAssumption`: there are two digits at least, the letters are the last of them,
  a key is not empty. `SecretsAssumption`: private keys have the length of a key, and
  no two that are generated are equal (32 random bytes each, lib.rs:68 and 85); there
  are enough for the initial state. The proofs do not use that they differ: two
  equal keys make one identity.

The external code is part of the models, not of the assumptions: a proof about a
session says nothing of snow, and one about a channel id nothing of ct_common, beyond
what section 2 says they are modelled to do.

### Arguments

**Call setup.** `TypeOK` is inductive by itself, none of the others is: `BoundedSilence`,
say, needs to know that a connecting call's last tick was below the fallback threshold
and that its early status, if due at that tick, was emitted. `IInv` adds three parts.

- `Ledger`: `fallback_triggered`, the announcement count, the worker's order, the
  attempt and its socket move together; a connecting call has not used its
  fallback. It gives `FreshAttempt`.
- `Timing`: the last tick and the last status are in the past, the clock is at most
  `tickGap` past the last tick, and a connecting call is behind none of the
  thresholds. It gives `BoundedSilence`.
- `Verdicts`: a call that is connecting, or timed out, has had no report of WebRTC that
  decides, and one given up as "both failed" has its direct channel's verdict. It gives
  `PunctualTries` and, with `Ledger`, `NoAttemptLeft`.

`Refinement` maps `phase` to the kind of `current` and `attempt` to `AttemptOf`, and
needs `Ledger`: without it an announcement could come with an attempt already made.

**Call screen.** A snapshot that announces the fallback may be delivered long after the
controller has moved on, and starts the worker then. `AnnouncedByFallback` says that
nobody holds such a snapshot, and no attempt was made, unless the controller has used
its fallback, and that a connecting controller has not: so no late delivery puts
anything on the screen of a call that is still connecting, and none lets the abstract
attempt begin in a phase that does not allow it.

**Noise session.** Four parts, each about what an object can no longer do:

- `HandshakesAgree`: a handshake message on its way was written by the object it names,
  at the position it names, and an object that has finished did so with an object that
  wrote to it. With it, an end that opens a session takes part in one that its peer's
  object agreed on (`BothTookPart`).
- `SessionsAreSpent`: the handshake object of an open transport, and of every session in
  which anything was sealed or opened, has been consumed. `into_transport` on a fresh
  object therefore starts a session with empty logs, and cannot reset a counter that
  was in use (`CountersAreFresh`). This is what `Option::take` at lib.rs:191 is for.
- `CountersCount`: the counters of a transport are the lengths of its session's logs.
- `DataIsSealed`: each data message on the wire, in a thread's hands before it is sent or
  after it was received, is an entry of the log of who sealed it. This holds however
  the relay repeats, drops or reorders, because it speaks of entries, not of order.

`Refinement`: a message that opens has the counter the receiver expects, and is the
entry of the sender's log with that counter; so what was opened grows by the next entry
of what was sealed, in each session and direction separately.

**Signaling codec.** The invariant is small (what was sent is a message, what arrived
are bytes, what was decoded is the decoding of what arrived) and the work is in lemmas
about the two functions: a big-endian number below its limit survives
(`NumberSurvives`), one that is read back has the same digits (`DigitsSurvive`), a
prefixed text is read back with what follows it (`TextSurvives`) and whatever is read was
there (`TextWasThere`). `DecodesToItself`: what `encode_inner` writes for a representable
message, with any bytes after it, decodes to that message. `DecodedWasThere`: bytes that
decode begin with the encoding of a representable message. The two give
`DelimitsItself`: a message that were also the beginning of another would decode twice.
`Representable` is a notion of the proofs: texts that fit, and neither of the two values
that are signs. `CanonicalIsRepresentable` brings every message whose texts fit down to
it: what the receiver is told of it is representable and has the same encoding.

**Functions over hex.** `CallsAreAboutKeys`: a recorded call has, for some private keys
of the two identities it is about, exactly the result the function is meant to have,
or an error if its text was cut. Its lemmas: `SaidIsDecoded` (a text with the digits of
some bytes, in either case, is decoded to them), `HexIsSaid` and `RecasedIsSaid`
(`to_hex` writes such a text, and capitals do not change what it says), `CutIsShorter` (a
text that lost a digit has an odd length, one that lost two says one byte less, and so
is no key). The agreements then follow because texts determine keys and keys texts.
`AcceptedSays` is about any text whatever, one with characters of several bytes
included: what is accepted says, digit by digit, what it is decoded to.

**Identity store.** `PairsAreGenerated` (the next pair is one that nobody has stored or
forgotten), `DiskLagsBehind` (what the file has and the map has not was forgotten, and
without a pending write they are equal) and `EnsuredSoFar` (`onCreate` passes a kind only
when the kind is there). `DiskLagsBehind` is why a restart can bring back nothing but
what was there or what was forgotten (`IdentitiesAreKept`, `ForgottenStaysForgotten`), and
`EnsuredSoFar` is why the screen shows two keys and not one (`TypeCorrect`).

**Incoming call.** `ExtrasMatchPrompt`: the extras of the two notification actions name
the caller on the notification, also after the process died. They live outside the
process, so neither the activity's nor the service's state could say it.

### What stays with TLC

The liveness properties: `UndecidedMeansUnanswered`, `UsedFallbackIsTried`,
`ScreenSettles`, `SessionOpens`, `EveryMessageArrives`,
`PromptStaysOnlyBehindItsScreen`, `ListenerComesBack` (there are no proof rules here
for fairness and ENABLED), and the four disagreements of section 6, which are
counterexamples. Every other property of a passing run is a theorem.

## 6. Disagreements between the code and what is said of it

With a run that shows a shortest example:

1. `both_failed_race`: WebRTC connects late, while the direct channel is being
   tried; the direct channel's failure then turns the connected call into
   `Abandoned("Both … failed")` (transport_fallback.rs:103; line 26 says "Both
   transports failed").
2. `both_down_unshown`: a call revived by WebRTC after its fallback failed has no
   reaction left to an ICE failure: it stays `WebRtcConnected` with both transports
   down (transport_fallback.rs:87; 26-28 promises a visible state).
3. `texts_verbatim`: `push_u8_str` casts the length and appends the whole text, so an
   `sdp_mid` of 256 bytes or more arrives as other fields, without an error
   (lib.rs:291; 262 says "verbatim").
4. `hex_panics`: a text of even byte length whose pairs cut a multi-byte character
   panics in `from_hex` (lib.rs:42; the test at 441-445 says malformed input is an
   `Err`).
Met while modelling and not given a run:

- A timer more than 14 s late gives a call up as timed out with the direct channel
  untried (transport_fallback.rs:121), although line 26 reads "Both transports
  failed".
- transport_fallback.rs:11 promises "never more than `MAX_SILENT_MS`" without a
  status; the constant does not exist, and no status is emitted while falling back.
- `Some("")` as `sdp_mid` comes back as `None` (lib.rs:331, 350), and so does `Some(65535)`
  as m-line index, while the test at lib.rs:472-473 says of its `None`s that they prove
  "None isn't confused with Some(0)/Some("")". `RoundTrip` states it, by `Canonical`.
- An identity shown as persisted is another one after a crash, because `apply()`
  writes later (KeyStoreIdentity.kt:63; 49 says "immediately"). `IdentityIsKept` says
  that this and forgetting are the only ways to lose it.
- Accept or Decline pressed in the notification while the ringing screen lives does
  nothing: `onCreate` alone looks at the action and `onNewIntent` is not overridden
  (IncomingCallActivity.kt:53; 13-18 say that they dismiss the notification and close
  the screen). `PressAction` models it, and `PromptStaysOnlyBehindItsScreen` says that it
  is all that can keep a pressed prompt up.
- The state a method returns is not what `current_state()` returns right after, if
  another thread calls in between (transport_fallback.rs:78-79).
- `from_hex("+f")` is accepted: `from_str_radix` takes a plus sign.
- A second caller replaces the notification while the screen goes on ringing for
  the first; answering the first dismisses the second unseen.
- An identity that was forgotten is back if the process dies before the write.

## 7. Not modelled

- `frame_message`: hands its argument to `ct_common`, which is not in the repository;
  nothing here reads a frame.
- `ice.rs`: a pure function that builds a list of one or two entries; its unit tests
  cover both cases.
- Errors of snow's constructors for keys of the right length; the meaning of a grant
  beyond the holder it names.
- The join sequence: lib.rs:244-250 describes it; no code performs it.
- The text of messages, layouts, logging; encryption itself; revocation of a
  permission; more than one call at a time through one controller (the code makes
  one controller per call).
- Build files, packaging, the bindings generator and CI.

## 8. Plan

Done, in this order: `TransportFallback`, `CallSetup` and `CallProgress` with their
proofs (the most important behaviour: what a user sees of a call), `NoiseSession`
and `SecureChannel`, `SignalCodec`, `HexCodec`, `IdentityStore` and `IdentityRegister`,
`IncomingCall`; then `CallScreen`, the sessions of `NoiseSession` that start again,
`KeyBoundary`, the session's limit in `SignalCodec`.

Next, the model: what a decoded message means for a call (an offer that rings in
`IncomingCall`, a bye that ends it) once the code that connects them is written.

Then the proofs, in the order of section 5: the call's setup and screen, the
session, the codec, the store, the prompt, the functions over hex.

Next, proofs: nothing that a run checks as a safety property is left. What would say
more is a session whose two ends are also the codec's peers: that an orderly relay
and a careful driver hand every representable message over as it was sent, as one
theorem instead of the two that it would follow from.
