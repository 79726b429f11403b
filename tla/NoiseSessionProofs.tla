-------------------------- MODULE NoiseSessionProofs --------------------------
(***************************************************************************)
(* Proofs about NoiseSession, for any number of threads, handshake objects *)
(* and messages, with an orderly and with a faulty relay.                  *)
(***************************************************************************)
EXTENDS NoiseSession, SequenceTheorems, TLAPS

(* The messages on their way to an end, whatever the relay does to them.   *)
Carried(e) == IF Faulty THEN wire[e] ELSE {wire[e][i] : i \in 1..Len(wire[e])}

(* The handshake objects of the past are known by their numbers only; of   *)
(* the present ones the state says how far they are.                       *)
OwnNumber(s, e) == IF e = "initiator" THEN s[1] ELSE s[2]

WroteOpening(n) ==
    \/ n < handshake["initiator"].number
    \/ n = handshake["initiator"].number /\ handshake["initiator"].position >= 1

WroteAnswer(n, to) ==
    \/ n < handshake["responder"].number
    \/ /\ n = handshake["responder"].number
       /\ handshake["responder"].position = 2 /\ handshake["responder"].peer = to

(* into_transport was called on it: it will yield no transport any more.   *)
Spent(e, n) ==
    \/ n < handshake[e].number
    \/ n = handshake[e].number /\ handshake[e].inner = "None"

(* A handshake message, and what an object read, was written by the object *)
(* that it names.                                                          *)
HandshakesAgree ==
    /\ \A m \in Carried("responder") :
          m.kind = "handshake" => m.position = 0 /\ WroteOpening(m.from)
    /\ \A m \in Carried("initiator") :
          m.kind = "handshake" => m.position = 1 /\ WroteAnswer(m.from, m.to)
    /\ LET r == handshake["responder"] IN
       r.position >= 1 => r.peer \in Number /\ WroteOpening(r.peer)
    /\ LET i == handshake["initiator"] IN
       i.position = 2 => i.peer \in Number /\ WroteAnswer(i.peer, i.number)

(* Each session of a transport, and each one in which an end has sealed or *)
(* opened anything, comes of an object that is spent: the next transport   *)
(* gets a session that is new to its end.                                  *)
SessionsAreSpent ==
    /\ \A e \in End : IsOpen(e) => Spent(e, OwnNumber(transport[e].session, e))
    /\ \A s \in Session, e \in End :
          sealed[<<s, e>>] # <<>> \/ opened[<<s, e>>] # <<>> => Spent(e, OwnNumber(s, e))

(* snow's counters count the messages of the session.                      *)
CountersCount ==
    /\ \A e \in End : IsOpen(e) =>
          /\ transport[e].sendNonce = Len(sealed[<<transport[e].session, e>>])
          /\ transport[e].recvNonce = Len(opened[<<transport[e].session, e>>])
    /\ \A x \in SessionEnd : \A i \in 1..Len(sealed[x]) : sealed[x][i].nonce = i - 1

(* Whatever is in a thread's hands or on the wire was sealed by the other  *)
(* end, as the message that its counter says.                              *)
IsSealed(m, e) ==
    LET log == sealed[<<m.session, e>>] IN
    m.nonce + 1 \in 1..Len(log) /\ log[m.nonce + 1].text = m.text

DataIsSealed ==
    \A e \in End :
        /\ \A m \in Carried(e) : m.kind = "data" => IsSealed(m, Peer(e))
        /\ \A t \in Threads :
              /\ receiving[e][t].kind = "data" => IsSealed(receiving[e][t], Peer(e))
              /\ sending[e][t].kind = "data" => IsSealed(sending[e][t], e)

IInv ==
    /\ TypeOK
    /\ HandshakesAgree
    /\ OpenedByBothHandshakes
    /\ SessionsAreSpent
    /\ CountersCount
    /\ DataIsSealed

-----------------------------------------------------------------------------
(* The values of the model.                                                *)
LEMMA PeerIsEnd == \A e \in End : Peer(e) \in End /\ Peer(Peer(e)) = e /\ Peer(e) # e
  BY DEF End, Peer

(* A handshake message, a message of a transport and nothing differ.       *)
LEMMA MessageKinds ==
    /\ \A m \in HandshakeMessage : m.kind = "handshake"
    /\ \A m \in DataMessage : m.kind = "data"
    /\ \A m \in Message : m # Nothing
    /\ Nothing.kind = "nothing"
<1>1. \A m \in HandshakeMessage : m.kind = "handshake"
  BY DEF HandshakeMessage
<1>2. \A m \in DataMessage : m.kind = "data"
  BY DEF DataMessage
<1>3. Nothing.kind = "nothing"
  BY DEF Nothing
<1> QED BY <1>1, <1>2, <1>3 DEF Message

(* An end without a transport expects messages of no session.              *)
LEMMA OpenTransport ==
    ASSUME TypeOK, NEW e \in End
    PROVE  /\ transport[e].session \in Session <=> IsOpen(e)
           /\ IsOpen(e) => transport[e] \in TransportObject
<1>1. NoTransport.session \notin Session
  BY SessionAssumption DEF NoTransport, Session, Number, NoNumber
<1>2. transport[e] \in TransportObject \cup {NoTransport}
  BY DEF TypeOK
<1> QED BY <1>1, <1>2 DEF IsOpen, TransportObject

-----------------------------------------------------------------------------
(* The wire.  Sending adds one message to what is carried to the other     *)
(* end, taking one off adds none, and what arrives is carried.             *)
WireTypeOK == wire \in IF Faulty THEN [End -> SUBSET Message] ELSE [End -> Seq(Message)]

(* What the relay hands over is one of the messages it carries.            *)
LEMMA ArrivingIsCarried ==
    ASSUME WireTypeOK, NEW e \in End, NEW m \in Arriving(e)
    PROVE  m \in Carried(e) /\ m \in Message
<1>1. CASE Faulty
  BY <1>1 DEF WireTypeOK, Arriving, Carried
<1>2. CASE ~Faulty
  <2>1. wire[e] \in Seq(Message) /\ wire[e] # <<>> /\ m = Head(wire[e])
    BY <1>2 DEF WireTypeOK, Arriving
  <2>2. m = wire[e][1] /\ 1 \in 1..Len(wire[e])
    BY <2>1
  <2> QED BY <1>2, <2>1, <2>2 DEF Carried
<1> QED BY <1>1, <1>2

(* A message that is sent is all that comes on to the wire.                *)
LEMMA DispatchAddsOne ==
    ASSUME WireTypeOK, NEW e \in End, NEW m \in Message, Dispatch(e, m)
    PROVE  /\ WireTypeOK'
           /\ \A d \in End : \A c \in Carried(d)' :
                 c \in Carried(d) \/ (d = Peer(e) /\ c = m)
<1>1. CASE Faulty
  <2>1. wire' = [wire EXCEPT ![Peer(e)] = @ \cup {m}] /\ wire \in [End -> SUBSET Message]
    BY <1>1 DEF Dispatch, WireTypeOK
  <2> QED BY <1>1, <2>1, PeerIsEnd DEF WireTypeOK, Carried
<1>2. CASE ~Faulty
  <2>1. wire' = [wire EXCEPT ![Peer(e)] = Append(@, m)] /\ wire \in [End -> Seq(Message)]
    BY <1>2 DEF Dispatch, WireTypeOK
  <2>2. wire' \in [End -> Seq(Message)]
    BY <2>1, PeerIsEnd
  <2>3. ASSUME NEW d \in End, NEW i \in 1..Len(wire'[d])
        PROVE  \/ wire'[d][i] \in {wire[d][j] : j \in 1..Len(wire[d])}
               \/ d = Peer(e) /\ wire'[d][i] = m
    <3>1. CASE d # Peer(e)
      BY <2>1, <2>3, <3>1
    <3>2. CASE d = Peer(e)
      <4>1. wire'[d] = Append(wire[d], m) /\ wire[d] \in Seq(Message)
        BY <2>1, <3>2
      <4> QED BY <2>3, <3>2, <4>1
    <3> QED BY <3>1, <3>2
  <2> QED BY <1>2, <2>2, <2>3 DEF WireTypeOK, Carried
<1> QED BY <1>1, <1>2

(* Handing a message over brings no other one on to the wire.              *)
LEMMA HandingOverAddsNone ==
    ASSUME WireTypeOK, NEW e \in End, NEW m \in Arriving(e), HandsOver(e)
    PROVE  WireTypeOK' /\ \A d \in End : Carried(d)' \subseteq Carried(d)
<1>1. CASE Faulty
  BY <1>1 DEF HandsOver, WireTypeOK, Carried
<1>2. CASE ~Faulty
  <2>1. /\ wire' = [wire EXCEPT ![e] = Tail(@)] /\ wire \in [End -> Seq(Message)]
        /\ wire[e] # <<>>
    BY <1>2 DEF HandsOver, WireTypeOK, Arriving
  <2>2. wire' \in [End -> Seq(Message)]
    BY <2>1
  <2>3. ASSUME NEW d \in End, NEW i \in 1..Len(wire'[d])
        PROVE  wire'[d][i] \in {wire[d][j] : j \in 1..Len(wire[d])}
    <3>1. CASE d # e
      BY <2>1, <2>3, <3>1
    <3>2. CASE d = e
      <4>1. wire'[d] = Tail(wire[d]) /\ wire[d] \in Seq(Message) /\ wire[d] # <<>>
        BY <2>1, <3>2
      <4>2. i + 1 \in 1..Len(wire[d]) /\ wire'[d][i] = wire[d][i + 1]
        BY <2>3, <4>1
      <4> QED BY <4>2
    <3> QED BY <3>1, <3>2
  <2> QED BY <1>2, <2>2, <2>3 DEF WireTypeOK, Carried
<1> QED BY <1>1, <1>2

-----------------------------------------------------------------------------
(* A handshake object that moves on, or takes down its peer, and a         *)
(* transport that counts a message, remain what they are.                  *)
LEMMA MovedOn ==
    ASSUME NEW h \in HandshakeObject, h.position \in 0..1
    PROVE  [h EXCEPT !.position = @ + 1] \in HandshakeObject
  BY DEF HandshakeObject

(* The same for an object that also takes down who it read from, with the  *)
(* fields that it has then.                                                *)
LEMMA MovedOnWithPeer ==
    ASSUME NEW h \in HandshakeObject, h.position \in 0..1, NEW n \in Number
    PROVE  /\ [h EXCEPT !.position = @ + 1, !.peer = n] \in HandshakeObject
           /\ [h EXCEPT !.position = @ + 1, !.peer = n].number = h.number
           /\ [h EXCEPT !.position = @ + 1, !.peer = n].inner = h.inner
           /\ [h EXCEPT !.position = @ + 1, !.peer = n].position = h.position + 1
           /\ [h EXCEPT !.position = @ + 1, !.peer = n].peer = n
<1> DEFINE g == [h EXCEPT !.position = @ + 1]
<1>1. /\ g \in HandshakeObject /\ g.number = h.number
      /\ g.inner = h.inner /\ g.position = h.position + 1
  BY MovedOn DEF HandshakeObject
<1>2. [h EXCEPT !.position = @ + 1, !.peer = n] = [g EXCEPT !.peer = n]
  OBVIOUS
<1> HIDE DEF g
<1>3. /\ [g EXCEPT !.peer = n] \in HandshakeObject
      /\ [g EXCEPT !.peer = n].number = g.number
      /\ [g EXCEPT !.peer = n].inner = g.inner
      /\ [g EXCEPT !.peer = n].position = g.position
      /\ [g EXCEPT !.peer = n].peer = n
  BY <1>1 DEF HandshakeObject
<1> QED BY <1>1, <1>2, <1>3

(* The fields of the objects.                                              *)
LEMMA ObjectFields ==
    \A h \in HandshakeObject :
        /\ h.number \in Number /\ h.number \in Nat
        /\ h.position \in Nat /\ h.position \in 0..2
        /\ h.peer \in Number \cup {NoNumber}
        /\ h.inner \in {"Some", "None"}
  BY DEF HandshakeObject, Number

(* Sealing counts one more message sent.                                   *)
LEMMA CountedSealing ==
    ASSUME NEW x \in TransportObject
    PROVE  [x EXCEPT !.sendNonce = @ + 1] \in TransportObject
  BY DEF TransportObject

(* Opening counts one more message received.                               *)
LEMMA CountedOpening ==
    ASSUME NEW x \in TransportObject
    PROVE  [x EXCEPT !.recvNonce = @ + 1] \in TransportObject
  BY DEF TransportObject

-----------------------------------------------------------------------------
(* What encrypt and decrypt do when they do not fail.  An oversize message *)
(* and one that does not open leave no trace in snow and in the logs.      *)
SentBy(e, p) == [kind |-> "data", session |-> transport[e].session,
                 nonce |-> transport[e].sendNonce, text |-> p]

Seals(e, t, p) ==
    /\ p \in Plaintexts \ Oversize
    /\ transport' = [transport EXCEPT ![e] = [transport[e] EXCEPT !.sendNonce = @ + 1]]
    /\ sending' = [sending EXCEPT ![e] = [sending[e] EXCEPT ![t] = SentBy(e, p)]]
    /\ sealed' = [sealed EXCEPT ![<<transport[e].session, e>>] =
                    Append(sealed[<<transport[e].session, e>>],
                           [nonce |-> transport[e].sendNonce, text |-> p])]

(* encrypt seals one message of an open transport, or changes nothing.     *)
LEMMA EncryptSeals ==
    ASSUME TypeOK, NEW e \in End, NEW t \in Threads, Encrypt(e, t)
    PROVE  /\ transport[e] \in TransportObject /\ IsOpen(e)
           /\ <<transport[e].session, e>> \in SessionEnd
           /\ UNCHANGED <<handshake, wire, receiving, opened>>
           /\ \/ UNCHANGED <<transport, sending, sealed>>
              \/ \E p \in Plaintexts : Seals(e, t, p)
<1>1. /\ transport[e] \in TransportObject /\ IsOpen(e)
      /\ <<transport[e].session, e>> \in SessionEnd
      /\ UNCHANGED <<handshake, wire, receiving, opened>>
  BY OpenTransport DEF Encrypt, TransportObject, SessionEnd
<1>2. PICK p \in Plaintexts :
        LET n == transport[e].sendNonce
            m == [kind |-> "data", session |-> transport[e].session,
                  nonce |-> n, text |-> p] IN
        IF p \in Oversize
        THEN /\ transport' = [transport EXCEPT ![e].sendNonce = NonceAfterFailure(e, p)]
             /\ UNCHANGED <<sending, sealed>>
        ELSE /\ transport' = [transport EXCEPT ![e].sendNonce = n + 1]
             /\ sending' = [sending EXCEPT ![e][t] = m]
             /\ sealed' = [sealed EXCEPT ![<<m.session, e>>] =
                             Append(@, [nonce |-> n, text |-> p])]
  BY DEF Encrypt
<1>3. CASE p \in Oversize
  <2>1. transport' = [transport EXCEPT ![e] = transport[e]]
    BY <1>1, <1>2, <1>3 DEF NonceAfterFailure, TransportObject
  <2>2. transport' = transport
    BY <2>1 DEF TypeOK
  <2> QED BY <1>1, <1>2, <1>3, <2>2
<1>4. CASE p \notin Oversize
  <2>1. Seals(e, t, p)
    BY <1>2, <1>4 DEF Seals, SentBy
  <2> QED BY <1>1, <2>1
<1> QED BY <1>3, <1>4

OpensNext(e, t) ==
    LET m == receiving[e][t] IN
    /\ transport' = [transport EXCEPT ![e] = [transport[e] EXCEPT !.recvNonce = @ + 1]]
    /\ opened' = [opened EXCEPT ![<<m.session, e>>] = Append(opened[<<m.session, e>>], m.text)]

(* decrypt takes the message out of the thread's hands, and opens it if it *)
(* is the next one of the session of an open transport.                    *)
LEMMA DecryptOpens ==
    ASSUME TypeOK, NEW e \in End, NEW t \in Threads, Decrypt(e, t)
    PROVE  /\ UNCHANGED <<handshake, wire, sending, sealed>>
           /\ receiving' = [receiving EXCEPT ![e] = [receiving[e] EXCEPT ![t] = Nothing]]
           /\ \/ UNCHANGED <<transport, opened>>
              \/ /\ receiving[e][t] \in DataMessage /\ Opens(e, receiving[e][t])
                 /\ transport[e] \in TransportObject /\ IsOpen(e)
                 /\ <<receiving[e][t].session, e>> \in SessionEnd
                 /\ OpensNext(e, t)
<1> DEFINE m == receiving[e][t]
<1>1. /\ UNCHANGED <<handshake, wire, sending, sealed>>
      /\ receiving' = [receiving EXCEPT ![e] = [receiving[e] EXCEPT ![t] = Nothing]]
  BY DEF Decrypt
<1>2. CASE Opens(e, m)
  <2>1. m \in DataMessage
    BY <1>2, MessageKinds DEF TypeOK, Decrypt, Opens, Message
  <2>2. m.session \in Session /\ m.session = transport[e].session
    BY <1>2, <2>1 DEF Opens, DataMessage
  <2>3. /\ transport[e] \in TransportObject /\ IsOpen(e) /\ <<m.session, e>> \in SessionEnd
    BY <2>2, OpenTransport DEF SessionEnd
  <2>4. OpensNext(e, t)
    BY <1>2 DEF Decrypt, OpensNext
  <2> QED BY <1>1, <1>2, <2>1, <2>3, <2>4
<1>3. CASE ~Opens(e, m)
  BY <1>1, <1>3 DEF Decrypt
<1> QED BY <1>2, <1>3

-----------------------------------------------------------------------------
(* Every step keeps the types.                                             *)
LEMMA WireTyped == TypeOK => WireTypeOK
  BY DEF TypeOK, WireTypeOK

(* The type invariant is inductive, given that a finished handshake knows  *)
(* the object it read from: that is what its session is made of.           *)
LEMMA StepTyped ==
    ASSUME TypeOK, HandshakesAgree, [Next]_vars
    PROVE  TypeOK'
<1> USE SessionAssumption DEF TypeOK
<1>1. ASSUME NEW e \in End, StartAgain(e) PROVE TypeOK'
  <2>1. NewHandshake(handshake[e].number + 1) \in HandshakeObject
    BY <1>1 DEF StartAgain, NewHandshake, HandshakeObject, Number
  <2> QED BY <1>1, <2>1 DEF StartAgain
<1>2. ASSUME NEW e \in End, WriteMessage(e) PROVE TypeOK'
  <2> DEFINE m == [kind |-> "handshake", position |-> handshake[e].position,
                   from |-> handshake[e].number, to |-> handshake[e].peer]
  <2>1. handshake[e] \in HandshakeObject /\ handshake[e].position \in 0..1
    BY <1>2 DEF WriteMessage, MyTurnToWrite
  <2>2. m \in Message
    BY <2>1 DEF Message, HandshakeMessage, HandshakeObject
  <2>3. WireTypeOK'
    BY <1>2, <2>2, DispatchAddsOne, WireTyped DEF WriteMessage
  <2>4. [handshake[e] EXCEPT !.position = @ + 1] \in HandshakeObject
    BY <2>1, MovedOn
  <2>5. handshake' = [handshake EXCEPT ![e] = [handshake[e] EXCEPT !.position = @ + 1]]
    BY <1>2 DEF WriteMessage
  <2> QED BY <1>2, <2>3, <2>4, <2>5 DEF WriteMessage, WireTypeOK
<1>3. ASSUME NEW e \in End, ReadMessage(e) PROVE TypeOK'
  <2>1. PICK m \in Arriving(e) :
           /\ HandsOver(e)
           /\ IF MyTurnToRead(e) /\ Fits(e, m)
              THEN handshake' = [handshake EXCEPT ![e].position = @ + 1, ![e].peer = m.from]
              ELSE UNCHANGED handshake
    BY <1>3 DEF ReadMessage
  <2>2. WireTypeOK' /\ m \in Message
    BY <2>1, HandingOverAddsNone, ArrivingIsCarried, WireTyped
  <2>3. handshake' \in [End -> HandshakeObject]
    <3>1. CASE MyTurnToRead(e) /\ Fits(e, m)
      <4> DEFINE h == [handshake[e] EXCEPT !.position = @ + 1, !.peer = m.from]
      <4>1. handshake[e] \in HandshakeObject /\ handshake[e].position \in 0..1
        BY <3>1 DEF MyTurnToRead
      <4>2. m.from \in Number
        BY <2>2, <3>1, MessageKinds DEF Fits, Message, HandshakeMessage
      <4>3. h \in HandshakeObject
        BY <4>1, <4>2, MovedOnWithPeer
      <4>4. handshake' = [handshake EXCEPT ![e] = h]
        BY <2>1, <3>1
      <4> QED BY <4>3, <4>4
    <3> QED BY <2>1, <3>1
  <2> QED BY <1>3, <2>2, <2>3 DEF ReadMessage, WireTypeOK
<1>4. ASSUME NEW e \in End, IntoTransport(e) PROVE TypeOK'
  <2>1. Finished(e) => SessionOf(e) \in Session
    BY DEF HandshakesAgree, Finished, SessionOf, Session, End, HandshakeObject
  <2>2. transport' \in [End -> TransportObject \cup {NoTransport}]
    BY <1>4, <2>1 DEF IntoTransport, Completed, FreshTransport, TransportObject
  <2>3. Consumed(e) \in HandshakeObject
    BY DEF Consumed, HandshakeObject
  <2> QED BY <1>4, <2>2, <2>3 DEF IntoTransport
<1>5. ASSUME NEW e \in End, NEW t \in Threads, Encrypt(e, t) PROVE TypeOK'
  <2> DEFINE x == <<transport[e].session, e>>
  <2>1. transport[e] \in TransportObject /\ x \in SessionEnd
    BY <1>5, EncryptSeals
  <2>2. CASE UNCHANGED <<transport, sending, sealed>>
    BY <1>5, <2>2, EncryptSeals
  <2>3. ASSUME NEW p \in Plaintexts, Seals(e, t, p) PROVE TypeOK'
    <3>1. [transport[e] EXCEPT !.sendNonce = @ + 1] \in TransportObject
      BY <2>1, CountedSealing
    <3>2. SentBy(e, p) \in DataMessage
      BY <2>1, <2>3 DEF SentBy, DataMessage, TransportObject
    <3>3. [nonce |-> transport[e].sendNonce, text |-> p] \in SealedText
      BY <2>1, <2>3 DEF SealedText, TransportObject
    <3>4. transport' \in [End -> TransportObject \cup {NoTransport}]
      BY <2>3, <3>1 DEF Seals
    <3>5. sending' \in [End -> [Threads -> DataMessage \cup {Nothing}]]
      BY <2>3, <3>2 DEF Seals
    <3>6. sealed' \in [SessionEnd -> Seq(SealedText)]
      BY <2>1, <2>3, <3>3 DEF Seals
    <3> QED BY <1>5, <3>4, <3>5, <3>6, EncryptSeals
  <2> QED BY <1>5, <2>2, <2>3, EncryptSeals
<1>6. ASSUME NEW e \in End, NEW t \in Threads, Send(e, t) PROVE TypeOK'
  <2>1. sending[e][t] \in Message /\ Dispatch(e, sending[e][t])
    BY <1>6 DEF Send, Message
  <2>2. WireTypeOK'
    BY <2>1, DispatchAddsOne, WireTyped
  <2> QED BY <1>6, <2>2 DEF Send, WireTypeOK
<1>7. ASSUME NEW e \in End, NEW t \in Threads, Receive(e, t) PROVE TypeOK'
  <2>1. PICK m \in Arriving(e) :
           HandsOver(e) /\ receiving' = [receiving EXCEPT ![e][t] = m]
    BY <1>7 DEF Receive
  <2>2. WireTypeOK' /\ m \in Message
    BY <2>1, HandingOverAddsNone, ArrivingIsCarried, WireTyped
  <2> QED BY <1>7, <2>1, <2>2 DEF Receive, WireTypeOK
<1>8. ASSUME NEW e \in End, NEW t \in Threads, Decrypt(e, t) PROVE TypeOK'
  <2> DEFINE m == receiving[e][t]
             x == <<m.session, e>>
  <2>0. receiving' = [receiving EXCEPT ![e] = [receiving[e] EXCEPT ![t] = Nothing]]
    BY <1>8, DecryptOpens
  <2>1. receiving' \in [End -> [Threads -> Message \cup {Nothing}]]
    BY <2>0
  <2>2. CASE UNCHANGED <<transport, opened>>
    BY <1>8, <2>1, <2>2, DecryptOpens
  <2>3. CASE m \in DataMessage /\ transport[e] \in TransportObject /\ x \in SessionEnd
             /\ OpensNext(e, t)
    <3>1. [transport[e] EXCEPT !.recvNonce = @ + 1] \in TransportObject
      BY <2>3, CountedOpening
    <3>2. m.text \in Plaintexts
      BY <2>3 DEF DataMessage
    <3>3. transport' \in [End -> TransportObject \cup {NoTransport}]
      BY <2>3, <3>1 DEF OpensNext
    <3>4. opened' \in [SessionEnd -> Seq(Plaintexts)]
      BY <2>3, <3>2 DEF OpensNext
    <3> QED BY <1>8, <2>1, <3>3, <3>4, DecryptOpens
  <2> QED BY <1>8, <2>2, <2>3, DecryptOpens
<1>9. CASE UNCHANGED vars
  BY <1>9 DEF vars
<1> QED BY <1>1, <1>2, <1>3, <1>4, <1>5, <1>6, <1>7, <1>8, <1>9 DEF Next

-----------------------------------------------------------------------------
(* The steps of a handshake object, field by field: an end starts with a   *)
(* new object, or the one it has is written to or read from in its turn,   *)
(* or is spent.                                                            *)
Anew(e) ==
    LET h == handshake[e]
        g == handshake'[e] IN
    g.number > h.number /\ g.position = 0 /\ g.inner = "Some"

Spends(e) ==
    LET h == handshake[e]
        g == handshake'[e] IN
    /\ g.number = h.number /\ g.position = h.position /\ g.peer = h.peer
    /\ h.inner = "Some" /\ g.inner = "None"

MovesOn(e, n) ==
    LET h == handshake[e]
        g == handshake'[e] IN
    /\ h.position \in 0..1 /\ g.position = h.position + 1
    /\ g.number = h.number /\ g.peer = n /\ g.inner = h.inner

(* Starting again replaces the end's handshake object and touches nothing  *)
(* else.                                                                   *)
LEMMA StartAgainIsAnew ==
    ASSUME TypeOK, NEW e \in End, StartAgain(e)
    PROVE  /\ Anew(e) /\ UNCHANGED <<transport, wire, sending, receiving, sealed, opened>>
           /\ \A d \in End \ {e} : handshake'[d] = handshake[d]
  BY DEF TypeOK, StartAgain, Anew, NewHandshake, HandshakeObject, Number

(* write_message moves the object on by one message, in its turn.          *)
LEMMA WriteMovesOn ==
    ASSUME TypeOK, NEW e \in End, WriteMessage(e)
    PROVE  /\ MovesOn(e, handshake[e].peer) /\ MyTurnToWrite(e)
           /\ UNCHANGED <<transport, sending, receiving, sealed, opened>>
           /\ \A d \in End \ {e} : handshake'[d] = handshake[d]
<1>1. handshake[e] \in HandshakeObject /\ handshake[e].position \in 0..1
  BY DEF TypeOK, WriteMessage, MyTurnToWrite
<1>2. handshake' = [handshake EXCEPT ![e] = [handshake[e] EXCEPT !.position = @ + 1]]
  BY DEF WriteMessage
<1>3. handshake'[e] = [handshake[e] EXCEPT !.position = @ + 1]
  BY <1>2 DEF TypeOK
<1>4. MovesOn(e, handshake[e].peer)
  BY <1>1, <1>3 DEF MovesOn, HandshakeObject
<1> QED BY <1>2, <1>4 DEF TypeOK, WriteMessage

(* read_message moves the object on if the message it takes off the wire   *)
(* fits, and otherwise leaves it alone.                                    *)
LEMMA ReadMovesOn ==
    ASSUME TypeOK, NEW e \in End, ReadMessage(e)
    PROVE  /\ UNCHANGED <<transport, sending, receiving, sealed, opened>>
           /\ WireTypeOK' /\ \A d \in End : Carried(d)' \subseteq Carried(d)
           /\ \/ UNCHANGED handshake
              \/ \E m \in Carried(e) \cap HandshakeMessage :
                    /\ MyTurnToRead(e) /\ Fits(e, m) /\ MovesOn(e, m.from)
                    /\ \A d \in End \ {e} : handshake'[d] = handshake[d]
<1>1. PICK m \in Arriving(e) :
         /\ HandsOver(e)
         /\ IF MyTurnToRead(e) /\ Fits(e, m)
            THEN handshake' = [handshake EXCEPT ![e].position = @ + 1, ![e].peer = m.from]
            ELSE UNCHANGED handshake
  BY DEF ReadMessage
<1>2. /\ WireTypeOK' /\ m \in Message /\ m \in Carried(e)
      /\ \A d \in End : Carried(d)' \subseteq Carried(d)
  BY <1>1, HandingOverAddsNone, ArrivingIsCarried, WireTyped
<1>3. CASE MyTurnToRead(e) /\ Fits(e, m)
  <2> DEFINE g == [handshake[e] EXCEPT !.position = @ + 1, !.peer = m.from]
  <2>1. handshake[e] \in HandshakeObject /\ handshake[e].position \in 0..1
    BY <1>3 DEF TypeOK, MyTurnToRead
  <2>2. m \in HandshakeMessage /\ m.from \in Number
    BY <1>2, <1>3, MessageKinds DEF Fits, Message, HandshakeMessage
  <2>3. /\ g.number = handshake[e].number /\ g.inner = handshake[e].inner
        /\ g.position = handshake[e].position + 1 /\ g.peer = m.from
    BY <2>1, <2>2, MovedOnWithPeer
  <2>4. handshake' = [handshake EXCEPT ![e] = g]
    BY <1>1, <1>3
  <2> HIDE DEF g
  <2>5. handshake'[e] = g /\ \A d \in End \ {e} : handshake'[d] = handshake[d]
    BY <2>4 DEF TypeOK
  <2>6. MovesOn(e, m.from)
    BY <2>1, <2>3, <2>5 DEF MovesOn
  <2> QED BY <1>2, <1>3, <2>2, <2>5, <2>6 DEF ReadMessage
<1> QED BY <1>1, <1>2, <1>3 DEF ReadMessage

(* into_transport spends the object, whether or not it yields a transport. *)
LEMMA IntoTransportSpends ==
    ASSUME TypeOK, NEW e \in End, IntoTransport(e)
    PROVE  /\ Spends(e) /\ UNCHANGED <<wire, sending, receiving, sealed, opened>>
           /\ \A d \in End \ {e} : handshake'[d] = handshake[d]
           /\ \/ UNCHANGED transport
              \/ Finished(e) /\ transport' = [transport EXCEPT ![e] = FreshTransport(e)]
<1>1. handshake[e] \in HandshakeObject
  BY DEF TypeOK
<1>2. handshake' = [handshake EXCEPT ![e] = [handshake[e] EXCEPT !.inner = "None"]]
  BY DEF IntoTransport, Consumed
<1>3. handshake'[e] = [handshake[e] EXCEPT !.inner = "None"]
  BY <1>2 DEF TypeOK
<1>4. Spends(e)
  BY <1>1, <1>3 DEF Spends, HandshakeObject, IntoTransport
<1> QED BY <1>2, <1>4 DEF TypeOK, IntoTransport, Completed

(* Whatever the step, an end's handshake object makes one of these.        *)
LEMMA HandshakeSteps ==
    ASSUME TypeOK, [Next]_vars, NEW d \in End
    PROVE  \/ handshake'[d] = handshake[d]
           \/ Anew(d)
           \/ Spends(d)
           \/ MyTurnToWrite(d) /\ MovesOn(d, handshake[d].peer)
           \/ \E m \in Carried(d) \cap HandshakeMessage :
                 MyTurnToRead(d) /\ Fits(d, m) /\ MovesOn(d, m.from)
<1>1. ASSUME NEW e \in End, StartAgain(e)
      PROVE  handshake'[d] = handshake[d] \/ Anew(d)
  BY <1>1, StartAgainIsAnew
<1>2. ASSUME NEW e \in End, WriteMessage(e)
      PROVE  handshake'[d] = handshake[d] \/ (MyTurnToWrite(d) /\ MovesOn(d, handshake[d].peer))
  BY <1>2, WriteMovesOn
<1>3. ASSUME NEW e \in End, ReadMessage(e)
      PROVE  \/ handshake'[d] = handshake[d]
             \/ \E m \in Carried(d) \cap HandshakeMessage :
                   MyTurnToRead(d) /\ Fits(d, m) /\ MovesOn(d, m.from)
  BY <1>3, ReadMovesOn
<1>4. ASSUME NEW e \in End, IntoTransport(e)
      PROVE  handshake'[d] = handshake[d] \/ Spends(d)
  BY <1>4, IntoTransportSpends
<1> QED BY <1>1, <1>2, <1>3, <1>4 DEF Next, Encrypt, Send, Receive, Decrypt, vars

(* Nothing that is said of handshake objects is ever taken back: what was  *)
(* written stays written, and what is spent stays spent.                   *)
Onward(e) ==
    LET h == handshake[e]
        g == handshake'[e] IN
    \/ g.number > h.number
    \/ /\ g.number = h.number /\ g.position >= h.position
       /\ h.inner = "None" => g.inner = "None"
       /\ h.position = 2 => g.position = 2 /\ g.peer = h.peer

(* Every step takes a handshake object onward.                             *)
LEMMA StepIsOnward ==
    ASSUME TypeOK, [Next]_vars, NEW d \in End
    PROVE  Onward(d)
<1>1. handshake[d] \in HandshakeObject
  BY DEF TypeOK
<1>2. handshake[d].number \in Nat /\ handshake[d].position \in 0..2
  BY <1>1, ObjectFields
<1>3. handshake'[d] = handshake[d] \/ Anew(d) \/ Spends(d) \/ (\E n : MovesOn(d, n))
  BY HandshakeSteps
<1> QED BY <1>2, <1>3 DEF Anew, Spends, MovesOn, Onward

(* What was written, and what is spent, holds from then on.                *)
LEMMA WrittenStaysWritten ==
    ASSUME TypeOK, TypeOK', [Next]_vars
    PROVE  /\ \A n \in Number : WroteOpening(n) => WroteOpening(n)'
           /\ \A n \in Number : \A to : WroteAnswer(n, to) => WroteAnswer(n, to)'
           /\ \A e \in End, n \in Number : Spent(e, n) => Spent(e, n)'
<1>1. \A e \in End : Onward(e)
  BY StepIsOnward
<1>2. \A e \in End : handshake[e] \in HandshakeObject /\ handshake'[e] \in HandshakeObject
  BY DEF TypeOK
<1>3. \A e \in End : /\ handshake[e].number \in Nat /\ handshake'[e].number \in Nat
                     /\ handshake[e].position \in Nat /\ handshake'[e].position \in Nat
  BY <1>2, ObjectFields
<1>4. \A n \in Number : n \in Nat
  BY DEF Number
<1>5. "initiator" \in End /\ "responder" \in End
  BY DEF End
<1>6. ASSUME NEW n \in Number, WroteOpening(n) PROVE WroteOpening(n)'
  <2>1. /\ n \in Nat /\ Onward("initiator")
        /\ handshake["initiator"].number \in Nat /\ handshake'["initiator"].number \in Nat
        /\ handshake["initiator"].position \in Nat /\ handshake'["initiator"].position \in Nat
    BY <1>1, <1>3, <1>4, <1>5
  <2> QED BY <1>6, <2>1 DEF WroteOpening, Onward
<1>7. ASSUME NEW n \in Number, NEW to, WroteAnswer(n, to) PROVE WroteAnswer(n, to)'
  <2>1. /\ n \in Nat /\ Onward("responder")
        /\ handshake["responder"].number \in Nat /\ handshake'["responder"].number \in Nat
    BY <1>1, <1>3, <1>4, <1>5
  <2> QED BY <1>7, <2>1 DEF WroteAnswer, Onward
<1>8. ASSUME NEW e \in End, NEW n \in Number, Spent(e, n) PROVE Spent(e, n)'
  <2>1. /\ n \in Nat /\ Onward(e)
        /\ handshake[e].number \in Nat /\ handshake'[e].number \in Nat
    BY <1>1, <1>3, <1>4
  <2> QED BY <1>8, <2>1 DEF Spent, Onward
<1> QED BY <1>6, <1>7, <1>8

(* What is on its way to an end after a step was on its way before, or is  *)
(* written or sent by the other end in this step.                          *)
WrittenBy(e) == [kind |-> "handshake", position |-> handshake[e].position,
                 from |-> handshake[e].number, to |-> handshake[e].peer]

(* The wire carries messages only.                                         *)
LEMMA CarriedAreMessages ==
    ASSUME TypeOK, NEW d \in End, NEW c \in Carried(d)
    PROVE  c \in Message
  BY DEF TypeOK, Carried

(* Nothing gets on to the wire but what an end writes or sends.            *)
LEMMA WhatIsCarriedWasSent ==
    ASSUME TypeOK, [Next]_vars, NEW d \in End, NEW c \in Carried(d)'
    PROVE  \/ c \in Carried(d)
           \/ \E e \in End : d = Peer(e) /\ WriteMessage(e) /\ c = WrittenBy(e)
           \/ \E e \in End, t \in Threads :
                 /\ d = Peer(e) /\ Send(e, t)
                 /\ c = sending[e][t] /\ c \in DataMessage
<1> DEFINE WasSent ==
           \/ c \in Carried(d)
           \/ \E e \in End : d = Peer(e) /\ WriteMessage(e) /\ c = WrittenBy(e)
           \/ \E e \in End, t \in Threads :
                 /\ d = Peer(e) /\ Send(e, t)
                 /\ c = sending[e][t] /\ c \in DataMessage
<1>1. ASSUME NEW e \in End, WriteMessage(e) PROVE WasSent
  <2>1. handshake[e] \in HandshakeObject /\ handshake[e].position \in 0..1
    BY <1>1 DEF TypeOK, WriteMessage, MyTurnToWrite
  <2>2. WrittenBy(e) \in Message
    BY <2>1 DEF WrittenBy, Message, HandshakeMessage, HandshakeObject
  <2>3. Dispatch(e, WrittenBy(e))
    BY <1>1 DEF WriteMessage, WrittenBy
  <2> QED BY <1>1, <2>2, <2>3, DispatchAddsOne, WireTyped
<1>2. ASSUME NEW e \in End, NEW t \in Threads, Send(e, t) PROVE WasSent
  <2>1. sending[e][t] \in DataMessage /\ Dispatch(e, sending[e][t])
    BY <1>2 DEF TypeOK, Send
  <2> QED BY <1>2, <2>1, DispatchAddsOne, WireTyped DEF Message
<1>3. ASSUME NEW e \in End, ReadMessage(e) PROVE WasSent
  BY <1>3, ReadMovesOn
<1>4. ASSUME NEW e \in End, NEW t \in Threads, Receive(e, t) PROVE WasSent
  BY <1>4, HandingOverAddsNone, WireTyped DEF Receive
<1>5. CASE UNCHANGED wire
  BY <1>5 DEF Carried
<1> QED
  BY <1>1, <1>2, <1>3, <1>4, <1>5
  DEF Next, StartAgain, IntoTransport, Encrypt, Decrypt, vars

-----------------------------------------------------------------------------
(* Every step keeps what the ends have heard of each other true: an        *)
(* opening or an answer is sent as it is written, and is not forgotten     *)
(* while it is on its way or held by the one who read it.                  *)
LEMMA StepKeepsAgreement ==
    ASSUME TypeOK, TypeOK', HandshakesAgree, [Next]_vars
    PROVE  HandshakesAgree'
<1> DEFINE i == handshake["initiator"]
           r == handshake["responder"]
           OpeningsAgree == \A m \in Carried("responder") :
               m.kind = "handshake" => m.position = 0 /\ WroteOpening(m.from)
           AnswersAgree == \A m \in Carried("initiator") :
               m.kind = "handshake" => m.position = 1 /\ WroteAnswer(m.from, m.to)
           ResponderAgrees == r.position >= 1 => r.peer \in Number /\ WroteOpening(r.peer)
           InitiatorAgrees == i.position = 2 => i.peer \in Number /\ WroteAnswer(i.peer, i.number)
<1>1. OpeningsAgree /\ AnswersAgree /\ ResponderAgrees /\ InitiatorAgrees
  BY DEF HandshakesAgree
<1>2. SUFFICES OpeningsAgree' /\ AnswersAgree' /\ ResponderAgrees' /\ InitiatorAgrees'
  BY DEF HandshakesAgree
<1>3. /\ "initiator" \in End /\ "responder" \in End
      /\ i \in HandshakeObject /\ r \in HandshakeObject
      /\ i' \in HandshakeObject /\ r' \in HandshakeObject
  BY DEF TypeOK, End
<1>4. \A m \in Message : m.kind = "handshake" => m \in HandshakeMessage /\ m.from \in Number
  BY MessageKinds DEF Message, HandshakeMessage
<1>5. ASSUME NEW m \in Carried("responder")', m.kind = "handshake"
      PROVE  m.position = 0 /\ WroteOpening(m.from)'
  <2>1. CASE m \in Carried("responder")
    BY <1>1, <1>3, <1>4, <1>5, <2>1, CarriedAreMessages, WrittenStaysWritten
  <2>2. CASE WriteMessage("initiator") /\ m = WrittenBy("initiator")
    <3>1. MovesOn("initiator", i.peer) /\ i.position = 0
      BY <1>3, <2>2, WriteMovesOn DEF MyTurnToWrite
    <3> QED BY <2>2, <3>1 DEF WrittenBy, MovesOn, WroteOpening
  <2>3. m \notin DataMessage
    BY <1>5, MessageKinds
  <2>4. \A e \in End : "responder" = Peer(e) => e = "initiator"
    BY DEF End, Peer
  <2> QED BY <1>3, <2>1, <2>2, <2>3, <2>4, WhatIsCarriedWasSent
<1>6. ASSUME NEW m \in Carried("initiator")', m.kind = "handshake"
      PROVE  m.position = 1 /\ WroteAnswer(m.from, m.to)'
  <2>1. CASE m \in Carried("initiator")
    BY <1>1, <1>3, <1>4, <1>6, <2>1, CarriedAreMessages, WrittenStaysWritten
  <2>2. CASE WriteMessage("responder") /\ m = WrittenBy("responder")
    <3>1. MovesOn("responder", r.peer) /\ r.position = 1
      BY <1>3, <2>2, WriteMovesOn DEF MyTurnToWrite
    <3> QED BY <2>2, <3>1 DEF WrittenBy, MovesOn, WroteAnswer
  <2>3. m \notin DataMessage
    BY <1>6, MessageKinds
  <2>4. \A e \in End : "initiator" = Peer(e) => e = "responder"
    BY DEF End, Peer
  <2> QED BY <1>3, <2>1, <2>2, <2>3, <2>4, WhatIsCarriedWasSent
<1>7. ASSUME r'.position >= 1, NEW n, n = r'.peer
      PROVE  n \in Number /\ WroteOpening(n)'
  <2>1. CASE n = r.peer /\ r.position >= 1
    <3>1. n \in Number /\ WroteOpening(n)
      BY <1>1, <2>1 DEF WroteOpening
    <3> QED BY <3>1, WrittenStaysWritten
  <2>2. ASSUME NEW m \in Carried("responder") \cap HandshakeMessage, n = m.from
        PROVE  n \in Number /\ WroteOpening(n)'
    <3>1. m.from \in Number /\ WroteOpening(m.from)
      BY <1>1, <1>4, <2>2, MessageKinds DEF Message
    <3> QED BY <2>2, <3>1, WrittenStaysWritten
  <2>3. ~Anew("responder")
    BY <1>7 DEF Anew
  <2>4. Spends("responder") => n = r.peer /\ r.position >= 1
    BY <1>7 DEF Spends
  <2>5. MyTurnToWrite("responder") /\ MovesOn("responder", r.peer)
          => n = r.peer /\ r.position >= 1
    BY <1>7 DEF MyTurnToWrite, MovesOn
  <2>6. \A k : MovesOn("responder", k) => n = k
    BY <1>7 DEF MovesOn
  <2> QED BY <1>3, <1>7, <2>1, <2>2, <2>3, <2>4, <2>5, <2>6, HandshakeSteps
<1>8. ASSUME i'.position = 2, NEW n, n = i'.peer, NEW k, k = i'.number
      PROVE  n \in Number /\ WroteAnswer(n, k)'
  <2>1. CASE n = i.peer /\ k = i.number /\ i.position = 2
    <3>1. n \in Number /\ WroteAnswer(n, k)
      BY <1>1, <2>1 DEF WroteAnswer
    <3> QED BY <3>1, WrittenStaysWritten
  <2>2. ASSUME NEW m \in Carried("initiator") \cap HandshakeMessage,
               Fits("initiator", m), MovesOn("initiator", m.from)
        PROVE  n \in Number /\ WroteAnswer(n, k)'
    <3>1. /\ m.from \in Number /\ m.position = 1 /\ WroteAnswer(m.from, m.to)
      BY <1>1, <1>4, <2>2, MessageKinds DEF Message
    <3>2. n = m.from /\ k = m.to
      BY <1>8, <2>2, <3>1 DEF MovesOn, Fits
    <3>3. n \in Number /\ WroteAnswer(n, k)
      BY <3>1, <3>2
    <3> QED BY <3>3, WrittenStaysWritten
  <2>3. ~Anew("initiator")
    BY <1>8 DEF Anew
  <2>4. Spends("initiator") => n = i.peer /\ k = i.number /\ i.position = 2
    BY <1>8 DEF Spends
  <2>5. ~(MyTurnToWrite("initiator") /\ MovesOn("initiator", i.peer))
    BY <1>8 DEF MyTurnToWrite, MovesOn
  <2> QED BY <1>3, <1>8, <2>1, <2>2, <2>3, <2>4, <2>5, HandshakeSteps
<1>9. OpeningsAgree' /\ AnswersAgree'
  BY <1>5, <1>6 DEF WroteOpening, WroteAnswer
<1>10. ResponderAgrees'
  BY <1>7 DEF WroteOpening
<1>11. InitiatorAgrees'
  BY <1>8 DEF WroteAnswer
<1> QED BY <1>9, <1>10, <1>11

-----------------------------------------------------------------------------
(* The sessions of the transports.  OpenedByBothHandshakes in the words of *)
(* the invariant's other parts: an open initiator has had an answer to its *)
(* opening, an open responder an opening.                                  *)
LEMMA OpenedMeans ==
    ASSUME TypeOK
    PROVE  OpenedByBothHandshakes <=>
             /\ IsOpen("initiator") =>
                  WroteAnswer(transport["initiator"].session[2], transport["initiator"].session[1])
             /\ IsOpen("responder") => WroteOpening(transport["responder"].session[1])
<1> DEFINE r == handshake["responder"]
           s == transport["initiator"].session
<1>1. \A e \in End : IsOpen(e) => transport[e].session \in Session
  BY OpenTransport
<1>2. "initiator" \in End /\ "responder" \in End
  BY DEF End
<1>3. ASSUME IsOpen("initiator")
      PROVE  (s[2] < r.number \/ (s = <<r.peer, r.number>> /\ r.position = 2))
               <=> WroteAnswer(s[2], s[1])
  <2>1. s \in Number \X Number
    BY <1>1, <1>2, <1>3 DEF Session
  <2> HIDE DEF r, s
  <2>2. s = <<r.peer, r.number>> <=> s[1] = r.peer /\ s[2] = r.number
    BY <2>1
  <2> QED BY <2>2 DEF WroteAnswer, r
<1> QED BY <1>1, <1>3 DEF OpenedByBothHandshakes, WroteOpening

(* The transport that an end gets is for the session its handshake agreed  *)
(* on, and what an open transport is for changes in no other way.          *)
LEMMA TransportSteps ==
    ASSUME TypeOK, TypeOK', [Next]_vars, NEW d \in End, IsOpen(d)'
    PROVE  \/ IsOpen(d) /\ transport'[d].session = transport[d].session
           \/ /\ IntoTransport(d) /\ Finished(d) /\ Spends(d)
              /\ transport'[d] = FreshTransport(d)
              /\ UNCHANGED <<sealed, opened>>
<1> DEFINE Goal == \/ IsOpen(d) /\ transport'[d].session = transport[d].session
                   \/ /\ IntoTransport(d) /\ Finished(d) /\ Spends(d)
                      /\ transport'[d] = FreshTransport(d)
                      /\ UNCHANGED <<sealed, opened>>
<1>1. CASE transport'[d] = transport[d]
  BY <1>1 DEF IsOpen
<1>2. ASSUME NEW e \in End, IntoTransport(e) PROVE Goal
  BY <1>1, <1>2, IntoTransportSpends DEF TypeOK
<1>3. ASSUME NEW e \in End, NEW t \in Threads, Encrypt(e, t) PROVE Goal
  <2>1. ASSUME NEW p \in Plaintexts, Seals(e, t, p), e = d PROVE Goal
    <3>1. transport'[d] = [transport[d] EXCEPT !.sendNonce = @ + 1]
      BY <2>1 DEF TypeOK, Seals
    <3>2. IsOpen(d) /\ transport[d] \in TransportObject
      BY <1>3, <2>1, EncryptSeals
    <3> QED BY <3>1, <3>2 DEF TransportObject
  <2>2. ASSUME NEW p \in Plaintexts, Seals(e, t, p), e # d
        PROVE  transport'[d] = transport[d]
    BY <2>2 DEF TypeOK, Seals
  <2> QED BY <1>1, <1>3, <2>1, <2>2, EncryptSeals
<1>4. ASSUME NEW e \in End, NEW t \in Threads, Decrypt(e, t) PROVE Goal
  <2>1. CASE OpensNext(e, t) /\ e = d /\ IsOpen(d) /\ transport[d] \in TransportObject
    <3>1. transport'[d] = [transport[d] EXCEPT !.recvNonce = @ + 1]
      BY <2>1 DEF TypeOK, OpensNext
    <3> QED BY <2>1, <3>1 DEF TransportObject
  <2>2. ASSUME OpensNext(e, t), e # d
        PROVE  transport'[d] = transport[d]
    BY <2>2 DEF TypeOK, OpensNext
  <2> QED BY <1>1, <1>4, <2>1, <2>2, DecryptOpens
<1> QED
  BY <1>1, <1>2, <1>3, <1>4
  DEF Next, StartAgain, WriteMessage, ReadMessage, Send, Receive, vars

(* A session that both objects took part in is what into_transport opens,  *)
(* and no later step of either object takes its part back.                 *)
LEMMA StepKeepsOpened ==
    ASSUME TypeOK, TypeOK', HandshakesAgree, OpenedByBothHandshakes, [Next]_vars
    PROVE  OpenedByBothHandshakes'
<1>1. "initiator" \in End /\ "responder" \in End
  BY DEF End
<1>2. ASSUME IsOpen("initiator")',
             NEW n, n = transport'["initiator"].session[2],
             NEW k, k = transport'["initiator"].session[1]
      PROVE  WroteAnswer(n, k)'
  <2>1. ASSUME IsOpen("initiator"),
               transport'["initiator"].session = transport["initiator"].session
        PROVE  n \in Number /\ WroteAnswer(n, k)
    <3>1. transport["initiator"].session \in Session
      BY <1>1, <2>1, OpenTransport
    <3>2. WroteAnswer(transport["initiator"].session[2], transport["initiator"].session[1])
      BY <2>1, OpenedMeans
    <3> QED BY <1>2, <2>1, <3>1, <3>2 DEF Session
  <2>2. ASSUME Finished("initiator"), transport'["initiator"] = FreshTransport("initiator")
        PROVE  n \in Number /\ WroteAnswer(n, k)
    <3>1. n = handshake["initiator"].peer /\ k = handshake["initiator"].number
      BY <1>2, <2>2 DEF FreshTransport, SessionOf
    <3> QED BY <2>2, <3>1 DEF HandshakesAgree, Finished
  <2> QED BY <1>1, <1>2, <2>1, <2>2, TransportSteps, WrittenStaysWritten
<1>3. ASSUME IsOpen("responder")', NEW n, n = transport'["responder"].session[1]
      PROVE  WroteOpening(n)'
  <2>1. ASSUME IsOpen("responder"),
               transport'["responder"].session = transport["responder"].session
        PROVE  n \in Number /\ WroteOpening(n)
    <3>1. transport["responder"].session \in Session
      BY <1>1, <2>1, OpenTransport
    <3>2. WroteOpening(transport["responder"].session[1])
      BY <2>1, OpenedMeans
    <3> QED BY <1>3, <2>1, <3>1, <3>2 DEF Session
  <2>2. ASSUME Finished("responder"), transport'["responder"] = FreshTransport("responder")
        PROVE  n \in Number /\ WroteOpening(n)
    <3>1. n = handshake["responder"].peer
      BY <1>3, <2>2 DEF FreshTransport, SessionOf
    <3> QED BY <2>2, <3>1 DEF HandshakesAgree, Finished
  <2> QED BY <1>1, <1>3, <2>1, <2>2, TransportSteps, WrittenStaysWritten
<1>4. (OpenedByBothHandshakes <=>
             /\ IsOpen("initiator") =>
                  WroteAnswer(transport["initiator"].session[2], transport["initiator"].session[1])
             /\ IsOpen("responder") => WroteOpening(transport["responder"].session[1]))'
  BY OpenedMeans, PTL
<1> QED BY <1>2, <1>3, <1>4 DEF WroteAnswer, WroteOpening

-----------------------------------------------------------------------------
(* The logs of the sessions.  What a step seals or opens is of the session *)
(* of the end's transport, and comes after what the log holds.             *)
LEMMA LogSteps ==
    ASSUME TypeOK, [Next]_vars, NEW x \in SessionEnd
    PROVE  /\ \/ sealed'[x] = sealed[x]
              \/ /\ IsOpen(x[2]) /\ transport[x[2]] \in TransportObject
                 /\ transport[x[2]].session = x[1]
                 /\ \E p \in Plaintexts :
                       sealed'[x] = Append(sealed[x],
                                           [nonce |-> transport[x[2]].sendNonce, text |-> p])
           /\ \/ opened'[x] = opened[x]
              \/ IsOpen(x[2]) /\ transport[x[2]].session = x[1]
<1> DEFINE SealedGoal ==
               \/ sealed'[x] = sealed[x]
               \/ /\ IsOpen(x[2]) /\ transport[x[2]] \in TransportObject
                  /\ transport[x[2]].session = x[1]
                  /\ \E p \in Plaintexts :
                        sealed'[x] = Append(sealed[x],
                                            [nonce |-> transport[x[2]].sendNonce, text |-> p])
           OpenedGoal ==
               \/ opened'[x] = opened[x]
               \/ IsOpen(x[2]) /\ transport[x[2]].session = x[1]
<1>1. x[1] \in Session /\ x[2] \in End /\ x = <<x[1], x[2]>>
  BY DEF SessionEnd
<1>2. ASSUME NEW e \in End, NEW t \in Threads, Encrypt(e, t) PROVE SealedGoal /\ OpenedGoal
  <2>1. ASSUME NEW p \in Plaintexts, Seals(e, t, p) PROVE SealedGoal
    <3>1. CASE x = <<transport[e].session, e>>
      <4>1. sealed'[x] = Append(sealed[x], [nonce |-> transport[e].sendNonce, text |-> p])
        BY <2>1, <3>1 DEF Seals, TypeOK
      <4>2. x[2] = e /\ x[1] = transport[e].session
        BY <3>1
      <4>3. IsOpen(e) /\ transport[e] \in TransportObject
        BY <1>2, EncryptSeals
      <4> QED BY <4>1, <4>2, <4>3
    <3>2. CASE x # <<transport[e].session, e>>
      BY <2>1, <3>2 DEF Seals, TypeOK
    <3> QED BY <3>1, <3>2
  <2> QED BY <1>2, <2>1, EncryptSeals
<1>3. ASSUME NEW e \in End, NEW t \in Threads, Decrypt(e, t) PROVE SealedGoal /\ OpenedGoal
  <2>1. ASSUME OpensNext(e, t), Opens(e, receiving[e][t]), IsOpen(e) PROVE OpenedGoal
    <3>1. CASE x = <<receiving[e][t].session, e>>
      <4>1. x[2] = e /\ x[1] = receiving[e][t].session
        BY <3>1
      <4> QED BY <2>1, <4>1 DEF Opens
    <3>2. CASE x # <<receiving[e][t].session, e>>
      BY <2>1, <3>2 DEF OpensNext, TypeOK
    <3> QED BY <3>1, <3>2
  <2> QED BY <1>3, <2>1, DecryptOpens
<1>4. CASE UNCHANGED <<sealed, opened>>
  BY <1>4
<1> QED
  BY <1>2, <1>3, <1>4
  DEF Next, StartAgain, WriteMessage, ReadMessage, IntoTransport, Send, Receive, vars

(* Opening a transport spends its object, and logs grow in the sessions of *)
(* open transports only.                                                   *)
LEMMA StepKeepsSpent ==
    ASSUME TypeOK, TypeOK', HandshakesAgree, SessionsAreSpent, [Next]_vars
    PROVE  SessionsAreSpent'
<1>1. ASSUME NEW e \in End, IsOpen(e)', NEW n, n = OwnNumber(transport'[e].session, e)
      PROVE  Spent(e, n)'
  <2>1. ASSUME IsOpen(e), transport'[e].session = transport[e].session PROVE Spent(e, n)'
    <3>1. n = OwnNumber(transport[e].session, e) /\ n \in Number
      BY <1>1, <2>1, OpenTransport DEF OwnNumber, Session
    <3>2. Spent(e, n)
      BY <2>1, <3>1 DEF SessionsAreSpent, OwnNumber, Spent
    <3> QED BY <3>1, <3>2, WrittenStaysWritten
  <2>2. ASSUME Spends(e), transport'[e] = FreshTransport(e) PROVE Spent(e, n)'
    <3>1. n = handshake[e].number
      BY <1>1, <2>2 DEF FreshTransport, SessionOf, OwnNumber, End
    <3> QED BY <2>2, <3>1 DEF Spends, Spent
  <2> QED BY <1>1, <2>1, <2>2, TransportSteps
<1>2. ASSUME NEW s \in Session, NEW e \in End,
             sealed'[<<s, e>>] # <<>> \/ opened'[<<s, e>>] # <<>>
      PROVE  Spent(e, OwnNumber(s, e))'
  <2>1. OwnNumber(s, e) \in Number /\ <<s, e>> \in SessionEnd
    BY DEF OwnNumber, Session, SessionEnd
  <2>2. Spent(e, OwnNumber(s, e))
    <3>1. CASE sealed'[<<s, e>>] = sealed[<<s, e>>] /\ opened'[<<s, e>>] = opened[<<s, e>>]
      BY <1>2, <3>1 DEF SessionsAreSpent
    <3>2. CASE IsOpen(e) /\ transport[e].session = s
      BY <3>2 DEF SessionsAreSpent, OwnNumber, Spent
    <3>3. <<s, e>>[1] = s /\ <<s, e>>[2] = e
      OBVIOUS
    <3> QED BY <2>1, <3>1, <3>2, <3>3, LogSteps
  <2> QED BY <2>1, <2>2, WrittenStaysWritten
<1> QED BY <1>1, <1>2 DEF SessionsAreSpent, OwnNumber, Spent

-----------------------------------------------------------------------------
(* snow's counters start with an empty log, for a session that is new to   *)
(* the end, and go with the log from there.                                *)
CountsAt(d) ==
    IsOpen(d) =>
        /\ transport[d].sendNonce = Len(sealed[<<transport[d].session, d>>])
        /\ transport[d].recvNonce = Len(opened[<<transport[d].session, d>>])

NoncesAt(x) == \A i \in 1..Len(sealed[x]) : sealed[x][i].nonce = i - 1

(* CountersCount, by end and by log.                                       *)
LEMMA CountersMean ==
    CountersCount <=> (\A d \in End : CountsAt(d)) /\ (\A x \in SessionEnd : NoncesAt(x))
  BY DEF CountersCount, CountsAt, NoncesAt

(* A fresh transport counts from zero, and the logs of its session are     *)
(* empty: its object was not spent until now.                              *)
LEMMA IntoTransportCounts ==
    ASSUME IInv, NEW e \in End, IntoTransport(e), NEW d \in End, CountsAt(d)
    PROVE  CountsAt(d)'
<1> USE DEF IInv
<1>1. CASE transport'[d] = transport[d]
  BY <1>1, IntoTransportSpends DEF CountsAt, IsOpen
<1>2. CASE d = e /\ Finished(e) /\ transport' = [transport EXCEPT ![e] = FreshTransport(e)]
  <2> DEFINE s == SessionOf(e)
  <2>1. s \in Session /\ OwnNumber(s, e) = handshake[e].number
    <3>1. handshake[e] \in HandshakeObject
      BY DEF TypeOK
    <3>2. handshake[e].number \in Number /\ handshake[e].peer \in Number
      BY <1>2, <3>1, ObjectFields DEF HandshakesAgree, Finished, End
    <3> QED BY <3>2 DEF SessionOf, Session, OwnNumber
  <2>2. ~Spent(e, OwnNumber(s, e))
    <3>1. handshake[e].number \in Nat
      BY ObjectFields DEF TypeOK
    <3> QED BY <2>1, <3>1 DEF Spent, IntoTransport
  <2>3. sealed[<<s, e>>] = <<>> /\ opened[<<s, e>>] = <<>>
    BY <2>1, <2>2 DEF SessionsAreSpent
  <2>4. transport'[e] = FreshTransport(e)
    BY <1>2 DEF TypeOK
  <2>5. /\ transport'[e].session = s
        /\ transport'[e].sendNonce = 0 /\ transport'[e].recvNonce = 0
    BY <2>4 DEF FreshTransport
  <2>6. UNCHANGED <<sealed, opened>>
    BY IntoTransportSpends
  <2> HIDE DEF s
  <2> QED BY <1>2, <2>3, <2>5, <2>6 DEF CountsAt
<1> QED BY <1>1, <1>2, IntoTransportSpends DEF TypeOK

(* Sealing adds to the log the counter value that the log's length is.     *)
LEMMA SealsCounts ==
    ASSUME IInv, NEW e \in End, NEW t \in Threads, NEW p \in Plaintexts, Seals(e, t, p),
           transport[e] \in TransportObject, IsOpen(e),
           <<transport[e].session, e>> \in SessionEnd, UNCHANGED opened
    PROVE  /\ \A d \in End : CountsAt(d)'
           /\ \A x \in SessionEnd : NoncesAt(x)'
<1> DEFINE y == <<transport[e].session, e>>
           v == [nonce |-> transport[e].sendNonce, text |-> p]
<1>1. sealed' = [sealed EXCEPT ![y] = Append(sealed[y], v)] /\ sealed[y] \in Seq(SealedText)
  BY DEF IInv, TypeOK, Seals
<1>2. transport[e].sendNonce = Len(sealed[y]) /\ v.nonce = Len(sealed[y])
  BY DEF IInv, CountersCount
<1>3. /\ transport'[e] = [transport[e] EXCEPT !.sendNonce = @ + 1]
      /\ \A d \in End \ {e} : transport'[d] = transport[d]
  BY DEF IInv, TypeOK, Seals
<1>4. /\ transport'[e].session = transport[e].session
      /\ transport'[e].sendNonce = transport[e].sendNonce + 1
      /\ transport'[e].recvNonce = transport[e].recvNonce
  BY <1>3 DEF TransportObject
<1>5. /\ sealed'[y] = Append(sealed[y], v)
      /\ \A x \in SessionEnd \ {y} : sealed'[x] = sealed[x]
  BY <1>1 DEF IInv, TypeOK
<1>6. ASSUME NEW x \in SessionEnd, NEW i \in 1..Len(sealed'[x])
      PROVE  sealed'[x][i].nonce = i - 1
  <2>1. CASE x = y
    <3> HIDE DEF v
    <3>1. CASE i \in 1..Len(sealed[y])
      <4>1. sealed'[x][i] = sealed[y][i]
        BY <1>1, <1>5, <2>1, <3>1
      <4> QED BY <2>1, <3>1, <4>1 DEF IInv, CountersCount
    <3>2. CASE i = Len(sealed[y]) + 1
      <4>1. sealed'[x][i] = v
        BY <1>1, <1>5, <2>1, <3>2
      <4>2. Len(sealed[y]) \in Nat
        BY <1>1
      <4> QED BY <1>2, <3>2, <4>1, <4>2
    <3> QED BY <1>1, <1>5, <1>6, <2>1, <3>1, <3>2
  <2>2. CASE x # y
    BY <1>5, <1>6, <2>2 DEF IInv, CountersCount
  <2> QED BY <2>1, <2>2
<1>7. ASSUME NEW d \in End, IsOpen(d)'
      PROVE  /\ transport'[d].sendNonce = Len(sealed'[<<transport'[d].session, d>>])
             /\ transport'[d].recvNonce = Len(opened[<<transport'[d].session, d>>])
  <2>1. CASE d = e
    <3>1. Len(sealed'[y]) = Len(sealed[y]) + 1
      BY <1>1, <1>5
    <3>2. transport[e].recvNonce = Len(opened[y])
      BY DEF IInv, CountersCount
    <3> QED BY <1>2, <1>4, <2>1, <3>1, <3>2
  <2>2. CASE d # e
    <3>1. IsOpen(d) /\ transport'[d] = transport[d]
      BY <1>3, <1>7, <2>2 DEF IsOpen
    <3>2. <<transport[d].session, d>> \in SessionEnd \ {y}
      BY <2>2, <3>1, OpenTransport DEF IInv, SessionEnd
    <3> QED BY <1>5, <3>1, <3>2 DEF IInv, CountersCount
  <2> QED BY <2>1, <2>2
<1> QED BY <1>6, <1>7 DEF CountsAt, NoncesAt

(* Opening counts on with the log of what was opened.                      *)
LEMMA OpensCounts ==
    ASSUME IInv, NEW e \in End, NEW t \in Threads, OpensNext(e, t),
           Opens(e, receiving[e][t]), transport[e] \in TransportObject, IsOpen(e),
           <<receiving[e][t].session, e>> \in SessionEnd, UNCHANGED sealed,
           receiving[e][t] \in DataMessage, NEW d \in End
    PROVE  CountsAt(d)'
<1> DEFINE m == receiving[e][t]
           y == <<m.session, e>>
<1>1. /\ opened' = [opened EXCEPT ![y] = Append(opened[y], m.text)]
      /\ opened[y] \in Seq(Plaintexts) /\ m.session = transport[e].session
      /\ m.text \in Plaintexts
  BY DEF IInv, TypeOK, OpensNext, Opens, DataMessage
<1>2. /\ transport'[e] = [transport[e] EXCEPT !.recvNonce = @ + 1]
      /\ \A c \in End \ {e} : transport'[c] = transport[c]
  BY DEF IInv, TypeOK, OpensNext
<1>3. /\ transport'[e].session = transport[e].session
      /\ transport'[e].sendNonce = transport[e].sendNonce
      /\ transport'[e].recvNonce = transport[e].recvNonce + 1
  BY <1>2 DEF TransportObject
<1>4. /\ opened'[y] = Append(opened[y], m.text)
      /\ \A x \in SessionEnd \ {y} : opened'[x] = opened[x]
  BY <1>1 DEF IInv, TypeOK
<1>5. ASSUME IsOpen(d)'
      PROVE  /\ transport'[d].sendNonce = Len(sealed[<<transport'[d].session, d>>])
             /\ transport'[d].recvNonce = Len(opened'[<<transport'[d].session, d>>])
  <2>1. CASE d = e
    <3>1. Len(opened'[y]) = Len(opened[y]) + 1
      BY <1>1, <1>4
    <3>2. transport[e].recvNonce = Len(opened[y]) /\ transport[e].sendNonce = Len(sealed[y])
      BY <1>1 DEF IInv, CountersCount
    <3> QED BY <1>1, <1>3, <2>1, <3>1, <3>2
  <2>2. CASE d # e
    <3>1. IsOpen(d) /\ transport'[d] = transport[d]
      BY <1>2, <1>5, <2>2 DEF IsOpen
    <3>2. <<transport[d].session, d>> \in SessionEnd \ {y}
      BY <2>2, <3>1, OpenTransport DEF IInv, SessionEnd
    <3> QED BY <1>4, <3>1, <3>2 DEF IInv, CountersCount
  <2> QED BY <2>1, <2>2
<1> QED BY <1>5 DEF CountsAt

(* The counters go with the logs over every step.                          *)
LEMMA StepKeepsCounters ==
    ASSUME IInv, [Next]_vars
    PROVE  CountersCount'
<1> DEFINE Counts == (\A d \in End : CountsAt(d)') /\ (\A x \in SessionEnd : NoncesAt(x)')
<1>1. TypeOK /\ (\A d \in End : CountsAt(d)) /\ (\A x \in SessionEnd : NoncesAt(x))
  BY CountersMean DEF IInv
<1>2. UNCHANGED sealed => \A x \in SessionEnd : NoncesAt(x)'
  BY <1>1 DEF NoncesAt
<1>3. ASSUME UNCHANGED <<transport, sealed, opened>> PROVE Counts
  BY <1>1, <1>2, <1>3 DEF CountsAt, IsOpen
<1>4. ASSUME NEW e \in End, IntoTransport(e) PROVE Counts
  BY <1>1, <1>2, <1>4, IntoTransportCounts, IntoTransportSpends
<1>5. ASSUME NEW e \in End, NEW t \in Threads, Encrypt(e, t) PROVE Counts
  BY <1>1, <1>3, <1>5, EncryptSeals, SealsCounts
<1>6. ASSUME NEW e \in End, NEW t \in Threads, Decrypt(e, t) PROVE Counts
  BY <1>1, <1>2, <1>3, <1>6, DecryptOpens, OpensCounts
<1>7. Counts
  BY <1>3, <1>4, <1>5, <1>6
  DEF Next, StartAgain, WriteMessage, ReadMessage, Send, Receive, vars
<1> QED BY <1>7 DEF CountersCount, CountsAt, NoncesAt

-----------------------------------------------------------------------------
(* What was sealed stays sealed, so that a message in somebody's hands or  *)
(* on the wire is at all times one of its sender's.                        *)
LEMMA SealedStaysSealed ==
    ASSUME TypeOK, [Next]_vars, NEW m \in DataMessage, NEW e \in End, IsSealed(m, e)
    PROVE  IsSealed(m, e)'
<1> DEFINE x == <<m.session, e>>
<1>1. x \in SessionEnd /\ sealed[x] \in Seq(SealedText)
  BY DEF TypeOK, SessionEnd, DataMessage
<1>2. ASSUME NEW v, sealed'[x] = Append(sealed[x], v) PROVE IsSealed(m, e)'
  <2>1. Len(sealed'[x]) = Len(sealed[x]) + 1 /\ Len(sealed[x]) \in Nat
    BY <1>1, <1>2
  <2>2. m.nonce + 1 \in 1..Len(sealed[x])
    BY DEF IsSealed
  <2>3. sealed'[x][m.nonce + 1] = sealed[x][m.nonce + 1]
    BY <1>1, <1>2, <2>2
  <2> QED BY <2>1, <2>2, <2>3 DEF IsSealed
<1>3. CASE sealed'[x] = sealed[x]
  BY <1>3 DEF IsSealed
<1> HIDE DEF x
<1> QED BY <1>1, <1>2, <1>3, LogSteps

(* A message changes hands, from the thread that sealed it to the wire and *)
(* to a thread at the other end, as the message that was sealed.           *)
LEMMA StepKeepsSealed ==
    ASSUME IInv, [Next]_vars
    PROVE  DataIsSealed'
<1>1. TypeOK /\ DataIsSealed
  BY DEF IInv
<1>2. ASSUME NEW e \in End, NEW m \in Carried(e)', m.kind = "data"
      PROVE  IsSealed(m, Peer(e))'
  <2>1. CASE m \in Carried(e)
    <3>1. m \in DataMessage /\ IsSealed(m, Peer(e))
      BY <1>1, <1>2, <2>1, CarriedAreMessages, MessageKinds DEF Message, DataIsSealed
    <3> QED BY <1>1, <3>1, PeerIsEnd, SealedStaysSealed
  <2>2. ASSUME NEW d \in End, NEW t \in Threads, e = Peer(d), m = sending[d][t],
               m \in DataMessage
        PROVE  IsSealed(m, Peer(e))'
    <3>1. IsSealed(m, d) /\ Peer(e) = d
      BY <1>1, <1>2, <2>2, PeerIsEnd DEF DataIsSealed
    <3> QED BY <1>1, <2>2, <3>1, SealedStaysSealed
  <2>3. \A d \in End : m # WrittenBy(d)
    BY <1>2 DEF WrittenBy
  <2> QED BY <1>1, <2>1, <2>2, <2>3, WhatIsCarriedWasSent
<1>3. ASSUME NEW e \in End, NEW t \in Threads, NEW m, m = receiving'[e][t], m.kind = "data"
      PROVE  IsSealed(m, Peer(e))'
  <2>1. CASE m = receiving[e][t]
    <3>1. m \in DataMessage
      BY <1>1, <1>3, <2>1, MessageKinds DEF TypeOK, Message
    <3>2. IsSealed(m, Peer(e))
      BY <1>1, <1>3, <2>1 DEF DataIsSealed
    <3> QED BY <1>1, <3>1, <3>2, PeerIsEnd, SealedStaysSealed
  <2>2. CASE m \in Carried(e)
    <3>1. m \in DataMessage /\ IsSealed(m, Peer(e))
      BY <1>1, <1>3, <2>2, CarriedAreMessages, MessageKinds DEF Message, DataIsSealed
    <3> QED BY <1>1, <3>1, PeerIsEnd, SealedStaysSealed
  <2>3. ASSUME NEW d \in End, NEW u \in Threads, Receive(d, u)
        PROVE  m = receiving[e][t] \/ m \in Carried(e)
    <3>1. PICK c \in Arriving(d) : receiving' = [receiving EXCEPT ![d][u] = c]
      BY <2>3 DEF Receive
    <3>2. c \in Carried(d)
      BY <1>1, <3>1, ArrivingIsCarried, WireTyped
    <3> QED BY <1>1, <1>3, <3>1, <3>2 DEF TypeOK
  <2>4. ASSUME NEW d \in End, NEW u \in Threads, Decrypt(d, u)
        PROVE  m = receiving[e][t] \/ m = Nothing
    <3>1. receiving' = [receiving EXCEPT ![d] = [receiving[d] EXCEPT ![u] = Nothing]]
      BY <1>1, <2>4, DecryptOpens
    <3> QED BY <1>1, <1>3, <3>1 DEF TypeOK
  <2>5. m # Nothing
    BY <1>3, MessageKinds
  <2>6. UNCHANGED receiving => m = receiving[e][t]
    BY <1>3
  <2> QED
    BY <2>1, <2>2, <2>3, <2>4, <2>5, <2>6
    DEF Next, StartAgain, WriteMessage, ReadMessage, IntoTransport, Encrypt, Send, vars
<1>4. ASSUME NEW e \in End, NEW t \in Threads, NEW m, m = sending'[e][t], m.kind = "data"
      PROVE  IsSealed(m, e)'
  <2>1. CASE m = sending[e][t]
    <3>1. m \in DataMessage
      BY <1>1, <1>4, <2>1, MessageKinds DEF TypeOK
    <3>2. IsSealed(m, e)
      BY <1>1, <1>4, <2>1 DEF DataIsSealed
    <3> QED BY <1>1, <3>1, <3>2, SealedStaysSealed
  <2>2. ASSUME NEW d \in End, NEW u \in Threads, Encrypt(d, u), sending'[e][t] # sending[e][t]
        PROVE  IsSealed(m, e)'
    <3>1. PICK p \in Plaintexts : Seals(d, u, p)
      BY <1>1, <2>2, EncryptSeals
    <3>2. e = d /\ t = u /\ m = SentBy(e, p)
      BY <1>1, <1>4, <2>2, <3>1 DEF TypeOK, Seals
    <3> DEFINE x == <<transport[e].session, e>>
               v == [nonce |-> transport[e].sendNonce, text |-> p]
    <3>3. x \in SessionEnd /\ IsOpen(e)
      BY <1>1, <2>2, <3>2, EncryptSeals
    <3>4. sealed'[x] = Append(sealed[x], v) /\ sealed[x] \in Seq(SealedText)
      BY <1>1, <3>1, <3>2, <3>3 DEF TypeOK, Seals
    <3>5. transport[e].sendNonce = Len(sealed[x])
      BY <3>3 DEF IInv, CountersCount
    <3>6. /\ m.session = transport[e].session /\ m.nonce = Len(sealed[x]) /\ m.text = v.text
      BY <3>2, <3>5 DEF SentBy
    <3> HIDE DEF x, v
    <3>7. /\ Len(sealed'[x]) = Len(sealed[x]) + 1 /\ Len(sealed[x]) \in Nat
          /\ sealed'[x][Len(sealed[x]) + 1] = v
      BY <3>4
    <3> QED BY <3>6, <3>7 DEF IsSealed, x
  <2>3. ASSUME NEW d \in End, NEW u \in Threads, Send(d, u)
        PROVE  m = sending[e][t] \/ m = Nothing
    BY <1>1, <1>4, <2>3 DEF Send, TypeOK
  <2>4. ASSUME NEW d \in End, NEW u \in Threads, Decrypt(d, u) PROVE UNCHANGED sending
    BY <2>4 DEF Decrypt
  <2>5. m # Nothing
    BY <1>4, MessageKinds
  <2> QED
    BY <1>4, <2>1, <2>2, <2>3, <2>4, <2>5
    DEF Next, StartAgain, WriteMessage, ReadMessage, IntoTransport, Receive, vars
<1> DEFINE Wired == \A e \in End : \A m \in Carried(e) : m.kind = "data" => IsSealed(m, Peer(e))
           Taken == \A e \in End, t \in Threads :
               receiving[e][t].kind = "data" => IsSealed(receiving[e][t], Peer(e))
           Held == \A e \in End, t \in Threads :
               sending[e][t].kind = "data" => IsSealed(sending[e][t], e)
<1>5. Wired'
  BY <1>2 DEF IsSealed
<1>6. Taken'
  BY <1>3 DEF IsSealed
<1>7. Held'
  BY <1>4 DEF IsSealed
<1> QED BY <1>5, <1>6, <1>7 DEF DataIsSealed

-----------------------------------------------------------------------------
(* Nothing is on its way and nothing is open at the start.                 *)
LEMMA InitEstablishesIInv == Init => IInv
<1> SUFFICES ASSUME Init PROVE IInv
  OBVIOUS
<1>1. /\ \A e \in End : handshake[e] = NewHandshake(1) /\ ~IsOpen(e)
      /\ \A e \in End, t \in Threads :
            sending[e][t] = Nothing /\ receiving[e][t] = Nothing
      /\ \A x \in SessionEnd : sealed[x] = <<>> /\ opened[x] = <<>>
  BY DEF Init, IsOpen
<1>2. NewHandshake(1) \in HandshakeObject
  BY SessionAssumption DEF NewHandshake, HandshakeObject, Number
<1>3. \A e \in End : Carried(e) = {}
  BY DEF Init, Carried
<1>4. TypeOK
  <2>1. wire \in IF Faulty THEN [End -> SUBSET Message] ELSE [End -> Seq(Message)]
    <3>1. CASE Faulty
      BY <3>1 DEF Init
    <3>2. CASE ~Faulty
      BY <3>2 DEF Init
    <3> QED BY <3>1, <3>2
  <2>2. handshake \in [End -> HandshakeObject]
    BY <1>2 DEF Init
  <2> QED BY <2>1, <2>2 DEF Init, TypeOK
<1>5. HandshakesAgree
  BY <1>1, <1>3 DEF HandshakesAgree, NewHandshake, End
<1>6. OpenedByBothHandshakes
  BY <1>1 DEF OpenedByBothHandshakes, End
<1>7. SessionsAreSpent
  BY <1>1 DEF SessionsAreSpent, SessionEnd
<1>8. CountersCount
  <2>1. \A x \in SessionEnd : Len(sealed[x]) = 0
    BY <1>1
  <2>2. \A x \in SessionEnd : 1..Len(sealed[x]) = {}
    BY <2>1
  <2> QED BY <1>1, <2>2 DEF CountersCount
<1>9. DataIsSealed
  BY <1>1, <1>3, MessageKinds DEF DataIsSealed
<1> QED BY <1>4, <1>5, <1>6, <1>7, <1>8, <1>9 DEF IInv

(* The parts of the invariant keep each other true over every step.        *)
LEMMA StepKeepsIInv == IInv /\ [Next]_vars => IInv'
<1> SUFFICES ASSUME IInv, [Next]_vars PROVE IInv'
  OBVIOUS
<1>1. TypeOK'
  BY StepTyped DEF IInv
<1> QED
  BY <1>1, StepKeepsAgreement, StepKeepsOpened, StepKeepsSpent, StepKeepsCounters,
     StepKeepsSealed DEF IInv

(* The invariant holds in every reachable state, whatever the relay does,  *)
(* however often the ends start again, and with into_transport called too  *)
(* early or in time.                                                       *)
THEOREM Inductive == Spec => []IInv
BY InitEstablishesIInv, StepKeepsIInv, PTL DEF Spec

(* Every variable keeps its type.                                          *)
THEOREM TypeCorrect == Spec => []TypeOK
<1>1. IInv => TypeOK
  BY DEF IInv
<1> QED BY <1>1, Inductive, PTL

(* No two messages of a session are sealed by the same end with the same   *)
(* counter: not by two threads at a time, not after an encryption that     *)
(* failed, and not by a transport that replaces an earlier one.            *)
THEOREM CountersAreFresh == Spec => []NoNonceReuse
<1>1. IInv => NoNonceReuse
  <2> SUFFICES ASSUME IInv, NEW x \in SessionEnd,
                      NEW i \in 1..Len(sealed[x]), NEW j \in 1..Len(sealed[x]),
                      sealed[x][i].nonce = sealed[x][j].nonce
               PROVE  i = j
    BY DEF NoNonceReuse
  <2>1. i - 1 = j - 1
    BY DEF IInv, CountersCount
  <2>2. i \in Int /\ j \in Int
    BY DEF IInv, TypeOK
  <2> QED BY <2>1, <2>2
<1> QED BY <1>1, Inductive, PTL

(* A transport comes of one handshake that both objects it names took part *)
(* in.                                                                     *)
THEOREM BothTookPart == Spec => []OpenedByBothHandshakes
<1>1. IInv => OpenedByBothHandshakes
  BY DEF IInv
<1> QED BY <1>1, Inductive, PTL

-----------------------------------------------------------------------------
(* The texts of a log.                                                     *)
LEMMA TextsOfLog ==
    ASSUME NEW log \in Seq(SealedText)
    PROVE  /\ Texts(log) \in Seq(Plaintexts) /\ Len(Texts(log)) = Len(log)
           /\ \A i \in 1..Len(log) : Texts(log)[i] = log[i].text
<1>0. \A i \in 1..Len(log) : log[i] \in SealedText
  OBVIOUS
<1>1. \A i \in 1..Len(log) : log[i].text \in Plaintexts
  BY <1>0 DEF SealedText
<1>2. Texts(log) \in [1..Len(log) -> Plaintexts] /\ Len(log) \in Nat
  BY <1>1 DEF Texts
<1> QED BY <1>2 DEF Texts

(* The texts of a log that grows by one message grow by its text.          *)
LEMMA TextsOfAppend ==
    ASSUME NEW log \in Seq(SealedText), NEW v \in SealedText
    PROVE  Texts(Append(log, v)) = Append(Texts(log), v.text)
<1> DEFINE more == Append(log, v)
<1>1. /\ more \in Seq(SealedText) /\ Len(more) = Len(log) + 1 /\ Len(log) \in Nat
      /\ \A i \in 1..Len(log) : more[i] = log[i]
      /\ more[Len(log) + 1] = v /\ v.text \in Plaintexts
  BY DEF SealedText
<1> HIDE DEF more
<1>2. /\ Texts(log) \in Seq(Plaintexts) /\ Len(Texts(log)) = Len(log)
      /\ Texts(more) \in Seq(Plaintexts) /\ Len(Texts(more)) = Len(log) + 1
  BY <1>1, TextsOfLog
<1>3. \A i \in 1..Len(log) + 1 : Texts(more)[i] = Append(Texts(log), v.text)[i]
  BY <1>1, <1>2, TextsOfLog
<1>4. Append(Texts(log), v.text) \in Seq(Plaintexts)
      /\ Len(Append(Texts(log), v.text)) = Len(log) + 1
  BY <1>1, <1>2
<1>5. Texts(more) = Append(Texts(log), v.text)
  BY <1>2, <1>3, <1>4, SeqEqual
<1> QED BY <1>5 DEF more

(* Each session is a channel in both directions: encrypting adds to what   *)
(* its end has sent, decrypting hands on the next of what the other end    *)
(* has sent, and all else - failing calls, new handshakes, the relay's     *)
(* delays and repetitions - happens behind the channel's back.             *)
THEOREM Refinement == Spec => ImplementsChannel
<1> DEFINE Sent == [x \in SessionEnd |-> Texts(sealed[x])]
<1>1. Init => Channel!Init
  <2> SUFFICES ASSUME Init PROVE Channel!Init
    OBVIOUS
  <2>1. \A x \in SessionEnd : sealed[x] = <<>>
    BY DEF Init
  <2>2. Texts(<<>>) = <<>>
    BY DEF Texts
  <2> QED BY <2>1, <2>2 DEF Init, Channel!Init
<1>2. IInv /\ [Next]_vars => [Channel!Next]_(Channel!vars)
  <2> SUFFICES ASSUME IInv, [Next]_vars
               PROVE  Channel!Next \/ UNCHANGED <<Sent, opened>>
    BY DEF Channel!vars
  <2>1. TypeOK
    BY DEF IInv
  <2>2. CASE UNCHANGED <<sealed, opened>>
    BY <2>2
  <2>3. ASSUME NEW e \in End, NEW t \in Threads, NEW p \in Plaintexts, Seals(e, t, p),
               Encrypt(e, t)
        PROVE  Channel!Next
    <3> DEFINE x == <<transport[e].session, e>>
               v == [nonce |-> transport[e].sendNonce, text |-> p]
    <3>1. x \in SessionEnd /\ transport[e] \in TransportObject /\ UNCHANGED opened
      BY <2>1, <2>3, EncryptSeals
    <3>2. v \in SealedText /\ v.text = p
      BY <3>1 DEF SealedText, TransportObject
    <3>3. sealed' = [sealed EXCEPT ![x] = Append(sealed[x], v)]
      BY <2>3 DEF Seals
    <3>4. sealed \in [SessionEnd -> Seq(SealedText)]
      BY <2>1 DEF TypeOK
    <3> HIDE DEF x, v
    <3>5. Texts(sealed'[x]) = Append(Texts(sealed[x]), p)
      BY <3>1, <3>2, <3>3, <3>4, TextsOfAppend
    <3>6. \A y \in SessionEnd \ {x} : sealed'[y] = sealed[y]
      BY <3>3, <3>4
    <3>7. Sent' = [Sent EXCEPT ![x] = Append(@, p)]
      BY <3>1, <3>5, <3>6
    <3>8. Channel!Send(x)
      BY <3>1, <3>7 DEF Channel!Send
    <3> QED BY <3>1, <3>8 DEF Channel!Next
  <2>4. ASSUME NEW e \in End, NEW t \in Threads, OpensNext(e, t),
               receiving[e][t] \in DataMessage, Opens(e, receiving[e][t]), IsOpen(e),
               UNCHANGED sealed
        PROVE  Channel!Next
    <3> DEFINE m == receiving[e][t]
               x == <<m.session, e>>
               y == <<m.session, Peer(e)>>
    <3>1. x \in SessionEnd /\ y \in SessionEnd /\ PeerIn(x) = y
      BY <2>4, PeerIsEnd DEF SessionEnd, DataMessage, PeerIn
    <3>2. m.nonce = Len(opened[x])
      BY <2>4 DEF IInv, CountersCount, Opens
    <3>3. m.nonce + 1 \in 1..Len(sealed[y]) /\ sealed[y][m.nonce + 1].text = m.text
      BY <2>4, MessageKinds DEF IInv, DataIsSealed, IsSealed
    <3>4. sealed[y] \in Seq(SealedText)
      BY <2>1, <3>1 DEF TypeOK
    <3>5. opened' = [opened EXCEPT ![x] = Append(@, m.text)]
      BY <2>4 DEF OpensNext
    <3> HIDE DEF m, x, y
    <3>6. /\ Len(opened[x]) + 1 <= Len(Texts(sealed[y]))
          /\ Texts(sealed[y])[Len(opened[x]) + 1] = m.text
      BY <3>2, <3>3, <3>4, TextsOfLog
    <3>7. Channel!Receive(x)
      BY <2>4, <3>1, <3>5, <3>6 DEF Channel!Receive
    <3> QED BY <3>1, <3>7 DEF Channel!Next
  <2>5. ASSUME NEW e \in End, NEW t \in Threads, Encrypt(e, t)
        PROVE  Channel!Next \/ UNCHANGED <<Sent, opened>>
    BY <2>1, <2>2, <2>3, <2>5, EncryptSeals
  <2>6. ASSUME NEW e \in End, NEW t \in Threads, Decrypt(e, t)
        PROVE  Channel!Next \/ UNCHANGED <<Sent, opened>>
    BY <2>1, <2>2, <2>4, <2>6, DecryptOpens
  <2> QED
    BY <2>2, <2>5, <2>6
    DEF Next, StartAgain, WriteMessage, ReadMessage, IntoTransport, Send, Receive, vars
<1> QED BY <1>1, <1>2, Inductive, PTL DEF Spec, ImplementsChannel, Channel!Spec

=============================================================================
