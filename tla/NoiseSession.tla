---------------------------- MODULE NoiseSession ----------------------------
(***************************************************************************)
(* The Noise_IK session of rust-core/src/lib.rs: a NoiseHandshake object   *)
(* at each end, turned into a NoiseTransport by into_transport, and the    *)
(* encrypted messages that then travel between the ends.  An end may give  *)
(* up and start again with a new handshake object, while messages of the   *)
(* old session are still on their way.                                     *)
(*                                                                         *)
(* Both objects are shared between the threads of the app; every method    *)
(* holds the object's Mutex for its whole body and is one atomic action.   *)
(* The lock is NOT held between encrypting a message and sending it, nor   *)
(* between taking a message off the wire and decrypting it.                *)
(*                                                                         *)
(* snow is external: a handshake object accepts calls only in turn and a   *)
(* call it refuses leaves it as it was; a transport seals with a counter   *)
(* it advances on success only, and opens a message only if it was sealed  *)
(* in the same session with the counter value it expects.  A session is    *)
(* known by the numbers of the two handshake objects that agreed on it,    *)
(* the initiator's first: IK mixes fresh keys of both into it, and an      *)
(* initiator takes only an answer to its own opening.  A method that       *)
(* returns an error without changing anything is a stuttering step and has *)
(* no action.                                                              *)
(***************************************************************************)
EXTENDS Naturals, Sequences, FiniteSetsExt

CONSTANTS
    Threads,        \* the app's threads at each end
    Plaintexts,     \* the messages an end may want to send
    Oversize,       \* those too long for one Noise message
    Faulty,         \* the relay may delay, reorder, repeat and lose messages
    CarefulDriver,  \* into_transport is called only once is_finished() is true
    MaxHandshakes,  \* bound: handshake objects an end creates
    MaxSealed       \* bound: for each end, the messages it encrypts

End == {"initiator", "responder"}

ASSUME SessionAssumption ==
    /\ Oversize \subseteq Plaintexts
    /\ Faulty \in BOOLEAN
    /\ CarefulDriver \in BOOLEAN
    /\ MaxHandshakes \in Nat \ {0}
    /\ MaxSealed \in [End -> Nat]

Peer(e) == IF e = "initiator" THEN "responder" ELSE "initiator"

VARIABLES
    handshake,  \* the app's latest NoiseHandshake: its number, the Option
                \* behind the Mutex, snow's position in the two-message
                \* pattern, and the number of the object that it read from
    transport,  \* the app's latest NoiseTransport: does it exist, its session,
                \* and snow's two counters
    wire,       \* the messages travelling to an end
    sending,    \* what a thread has encrypted and not sent yet
    receiving,  \* what a thread has taken off the wire and not decrypted yet
    (* history *)
    sealed,     \* what an end encrypted in a session, with the counter used
    opened      \* what an end decrypted in a session

vars == <<handshake, transport, wire, sending, receiving, sealed, opened>>

Number == 1..MaxHandshakes
NoNumber == 0
Session == Number \X Number
SessionEnd == Session \X End

HandshakeMessage ==
    [kind : {"handshake"}, position : 0..1, from : Number, to : Number \cup {NoNumber}]
DataMessage == [kind : {"data"}, session : Session, nonce : Nat, text : Plaintexts]
SealedText == [nonce : Nat, text : Plaintexts]
Message == HandshakeMessage \cup DataMessage
Nothing == [kind |-> "nothing"]

HandshakeObject ==
    [number : Number, inner : {"Some", "None"}, position : 0..2,
     peer : Number \cup {NoNumber}]
TransportObject == [session : Session, sendNonce : Nat, recvNonce : Nat]
NoTransport == [session |-> <<NoNumber, NoNumber>>]
IsOpen(e) == transport[e] # NoTransport

TypeOK ==
    /\ handshake \in [End -> HandshakeObject]
    /\ transport \in [End -> TransportObject \cup {NoTransport}]
    /\ wire \in IF Faulty THEN [End -> SUBSET Message] ELSE [End -> Seq(Message)]
    /\ sending \in [End -> [Threads -> DataMessage \cup {Nothing}]]
    /\ receiving \in [End -> [Threads -> Message \cup {Nothing}]]
    /\ sealed \in [SessionEnd -> Seq(SealedText)]
    /\ opened \in [SessionEnd -> Seq(Plaintexts)]

(* new_initiator, new_responder *)
NewHandshake(n) ==
    [number |-> n, inner |-> "Some", position |-> 0, peer |-> NoNumber]

Init ==
    /\ handshake = [e \in End |-> NewHandshake(1)]
    /\ transport = [e \in End |-> NoTransport]
    /\ wire = [e \in End |-> IF Faulty THEN {} ELSE <<>>]
    /\ sending = [e \in End |-> [t \in Threads |-> Nothing]]
    /\ receiving = [e \in End |-> [t \in Threads |-> Nothing]]
    /\ sealed = [x \in SessionEnd |-> <<>>]
    /\ opened = [x \in SessionEnd |-> <<>>]

(* The session that a finished handshake at e agreed on.                   *)
SessionOf(e) ==
    IF e = "initiator" THEN <<handshake[e].number, handshake[e].peer>>
    ELSE <<handshake[e].peer, handshake[e].number>>

-----------------------------------------------------------------------------
(* Slips a maintainer could make in the definitions below, used only to    *)
(* confirm that some property notices them.                                *)

WriteOutOfTurn(e) == TRUE
FinishedAfterOne(e) == handshake[e].position >= 1
OpensAnyLater(e, m) ==
    /\ m.kind = "data" /\ m.session = transport[e].session
    /\ m.nonce >= transport[e].recvNonce
NonceOnFailureToo(e, p) == transport[e].sendNonce + 1
HandshakeKept(e) == handshake[e]
IncompleteAccepted(e) == TRUE

-----------------------------------------------------------------------------
(* The wire.  The relay splices two sockets and keeps their order: the     *)
(* wire is a sequence.  A faulty one hands over any message sent so far,   *)
(* in any order, any number of times, or never: the wire is a set.         *)

Arriving(e) ==
    IF Faulty THEN wire[e]
    ELSE IF wire[e] = <<>> THEN {} ELSE {Head(wire[e])}

HandsOver(e) == IF Faulty THEN UNCHANGED wire ELSE wire' = [wire EXCEPT ![e] = Tail(@)]

Dispatch(e, m) ==
    wire' = [wire EXCEPT ![Peer(e)] = IF Faulty THEN @ \cup {m} ELSE Append(@, m)]

-----------------------------------------------------------------------------
(* NoiseHandshake.  IK has two messages: the initiator writes at position  *)
(* 0, the responder at position 1.                                         *)

MyTurnToWrite(e) ==
    handshake[e].position = IF e = "initiator" THEN 0 ELSE 1

MyTurnToRead(e) ==
    handshake[e].position = IF e = "initiator" THEN 1 ELSE 0

Finished(e) == handshake[e].position = 2

IsFinished(e) == Finished(e)

(* The app drops what it has and creates a new object.  A transport that   *)
(* it has stays in use until the new handshake yields another.             *)
StartAgain(e) ==
    /\ handshake[e].number < MaxHandshakes
    /\ handshake' = [handshake EXCEPT ![e] = NewHandshake(@.number + 1)]
    /\ UNCHANGED <<transport, wire, sending, receiving, sealed, opened>>

(* write_message, and the driver's sending of its result.                  *)
WriteMessage(e) ==
    /\ handshake[e].inner = "Some"
    /\ MyTurnToWrite(e)
    /\ handshake' = [handshake EXCEPT ![e].position = @ + 1]
    /\ Dispatch(e, [kind |-> "handshake", position |-> handshake[e].position,
                    from |-> handshake[e].number, to |-> handshake[e].peer])
    /\ UNCHANGED <<transport, sending, receiving, sealed, opened>>

Fits(e, m) ==
    /\ m.kind = "handshake" /\ m.position = handshake[e].position
    /\ m.position = 1 => m.to = handshake[e].number

(* read_message of a message off the wire, until the handshake is          *)
(* finished.  A message it refuses is gone, the handshake unharmed.        *)
ReadMessage(e) ==
    /\ handshake[e].inner = "Some" /\ ~Finished(e)
    /\ \E m \in Arriving(e) :
          /\ HandsOver(e)
          /\ IF MyTurnToRead(e) /\ Fits(e, m)
             THEN handshake' = [handshake EXCEPT ![e].position = @ + 1,
                                                 ![e].peer = m.from]
             ELSE UNCHANGED handshake
    /\ UNCHANGED <<transport, sending, receiving, sealed, opened>>

(* into_transport takes the handshake out of its Option before it asks     *)
(* whether it is finished: an early call fails and leaves nothing behind.  *)
Consumed(e) == [handshake[e] EXCEPT !.inner = "None"]

Completed(e) == Finished(e)

FreshTransport(e) == [session |-> SessionOf(e), sendNonce |-> 0, recvNonce |-> 0]

IntoTransport(e) ==
    /\ handshake[e].inner = "Some"
    /\ CarefulDriver => IsFinished(e)
    /\ handshake' = [handshake EXCEPT ![e] = Consumed(e)]
    /\ transport' = IF Completed(e)
                    THEN [transport EXCEPT ![e] = FreshTransport(e)] ELSE transport
    /\ UNCHANGED <<wire, sending, receiving, sealed, opened>>

-----------------------------------------------------------------------------
(* NoiseTransport, and the threads that use it.                            *)

NonceAfterFailure(e, p) == transport[e].sendNonce

SealedBy(e) == MapThenSumSet(LAMBDA s : Len(sealed[<<s, e>>]), Session)

(* encrypt: an oversize message is refused and uses up no counter.         *)
Encrypt(e, t) ==
    /\ IsOpen(e) /\ sending[e][t] = Nothing
    /\ SealedBy(e) < MaxSealed[e]
    /\ \E p \in Plaintexts :
          LET n == transport[e].sendNonce
              m == [kind |-> "data", session |-> transport[e].session,
                    nonce |-> n, text |-> p] IN
          IF p \in Oversize
          THEN /\ transport' = [transport EXCEPT ![e].sendNonce = NonceAfterFailure(e, p)]
               /\ UNCHANGED <<sending, sealed>>
          ELSE /\ transport' = [transport EXCEPT ![e].sendNonce = n + 1]
               /\ sending' = [sending EXCEPT ![e][t] = m]
               /\ sealed' = [sealed EXCEPT ![<<m.session, e>>] =
                               Append(@, [nonce |-> n, text |-> p])]
    /\ UNCHANGED <<handshake, wire, receiving, opened>>

Send(e, t) ==
    /\ sending[e][t] # Nothing
    /\ Dispatch(e, sending[e][t])
    /\ sending' = [sending EXCEPT ![e][t] = Nothing]
    /\ UNCHANGED <<handshake, transport, receiving, sealed, opened>>

Receive(e, t) ==
    /\ IsOpen(e) /\ receiving[e][t] = Nothing
    /\ \E m \in Arriving(e) :
          /\ HandsOver(e)
          /\ receiving' = [receiving EXCEPT ![e][t] = m]
    /\ UNCHANGED <<handshake, transport, sending, sealed, opened>>

Opens(e, m) ==
    /\ m.kind = "data" /\ m.session = transport[e].session
    /\ m.nonce = transport[e].recvNonce

Decrypt(e, t) ==
    LET m == receiving[e][t] IN
    /\ m # Nothing
    /\ receiving' = [receiving EXCEPT ![e][t] = Nothing]
    /\ IF Opens(e, m)
       THEN /\ transport' = [transport EXCEPT ![e].recvNonce = @ + 1]
            /\ opened' = [opened EXCEPT ![<<m.session, e>>] = Append(@, m.text)]
       ELSE UNCHANGED <<transport, opened>>
    /\ UNCHANGED <<handshake, wire, sending, sealed>>

-----------------------------------------------------------------------------
Next ==
    \E e \in End :
        \/ StartAgain(e)
        \/ WriteMessage(e)
        \/ ReadMessage(e)
        \/ IntoTransport(e)
        \/ \E t \in Threads :
              \/ Encrypt(e, t)
              \/ Send(e, t)
              \/ Receive(e, t)
              \/ Decrypt(e, t)

Spec == Init /\ [][Next]_vars

(* The driver completes the handshake and opens the transport, and what a  *)
(* thread has encrypted or taken off the wire it sends or decrypts.        *)
(* Nobody has to encrypt anything.                                         *)
Fairness ==
    \A e \in End :
        /\ WF_vars(WriteMessage(e))
        /\ WF_vars(ReadMessage(e))
        /\ WF_vars(IntoTransport(e))
        /\ \A t \in Threads :
              WF_vars(Send(e, t)) /\ WF_vars(Receive(e, t)) /\ WF_vars(Decrypt(e, t))

FairSpec == Spec /\ Fairness

-----------------------------------------------------------------------------
(* No counter is used twice in a session: whatever the threads, whatever   *)
(* calls fail and however often the ends start again, no two messages are  *)
(* sealed under the same key with the same counter.                        *)
NoNonceReuse ==
    \A x \in SessionEnd : \A i, j \in 1..Len(sealed[x]) :
        sealed[x][i].nonce = sealed[x][j].nonce => i = j

(* An end has a transport only if the objects that its session names took  *)
(* part in one handshake: a responder's object that is still there read    *)
(* the opening of that initiator and wrote its answer, an initiator's      *)
(* object that is still there wrote the opening.                           *)
OpenedByBothHandshakes ==
    LET i == handshake["initiator"]
        r == handshake["responder"]
        Names(e) == transport[e].session IN
    /\ \A e \in End : IsOpen(e) => Names(e) \in Session
    /\ IsOpen("initiator") => \/ Names("initiator")[2] < r.number
                              \/ Names("initiator") = <<r.peer, r.number>> /\ r.position = 2
    /\ IsOpen("responder") => \/ Names("responder")[1] < i.number
                              \/ Names("responder")[1] = i.number /\ i.position >= 1

(* In each session, threads, network faults and messages of other sessions *)
(* can only shorten what is received, never change, repeat or reorder it.  *)
Texts(log) == [i \in 1..Len(log) |-> log[i].text]

PeerIn(x) == <<x[1], Peer(x[2])>>

Channel == INSTANCE SecureChannel
           WITH End <- SessionEnd, Peer <- PeerIn,
                sent <- [x \in SessionEnd |-> Texts(sealed[x])], received <- opened

ImplementsChannel == Channel!Spec

(* A careful driver on a relay that keeps order always gets its session.   *)
SessionOpens == <>(\A e \in End : IsOpen(e))

(* On a relay that keeps order, everything encrypted is decrypted by the   *)
(* peer, in spite of encryptions that failed in between, whichever threads *)
(* do it.  A message is left undecrypted for ever in one case only: two    *)
(* threads of one end were at some moment both between encrypt and their   *)
(* send, or between taking a message off the wire and decrypt, where no    *)
(* lock is held and one may overtake the other.                            *)
Overlap(held) == \E t, u \in Threads : t # u /\ held[t] # Nothing /\ held[u] # Nothing

EveryMessageArrives ==
    \A x \in SessionEnd :
        \/ <>(Overlap(sending[x[2]]) \/ Overlap(receiving[Peer(x[2])]))
        \/ \A n \in 1..MaxSealed[x[2]] :
               Len(sealed[x]) >= n ~> Len(opened[PeerIn(x)]) >= n

=============================================================================
