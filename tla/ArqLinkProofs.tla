---------------------------- MODULE ArqLinkProofs ----------------------------
(***************************************************************************)
(* Theorems about ArqLink, for every value of its constants that           *)
(* LinkConstants and ArqConstants admit.                                   *)
(***************************************************************************)
EXTENDS ArqLink, LinkLayerProofs

(* The two nodes are each other's peer (RecomputeRole). *)
LEMMA PeerType == ASSUME NEW n \in Node PROVE Peer(n) \in Node /\ Peer(n) # n
BY ArqConstants DEF Peer, Node, ArqConstants

(* Setup leaves both links well typed. *)
LEMMA InitType == Init => TypeOK
<1> SUFFICES ASSUME Init PROVE TypeOK
  OBVIOUS
<1>1. PICK w \in Windows : ll = [n \in Node |-> Carrying(n, w)]
  BY DEF Init
<1>2. w \in 1 .. MAXWIN /\ 1 \in 0 .. EPOCHS - 1
  BY ArqConstants, LinkConstants DEF ArqConstants, LinkConstants
<1>3. NewLink(w, 1) \in Endpoint /\ Fits(NewLink(w, 1))
  BY <1>2, NewLinkType
<1>4. Done % SEQMOD \in Seqs /\ 0 \in Seqs /\ {0, 1} \subseteq 0 .. EPOCHS - 1
  BY ArqConstants, LinkConstants DEF Seqs, ArqConstants, LinkConstants
<1>5. \A n \in Node : Carrying(n, w) \in Endpoint /\ Fits(Carrying(n, w))
  <2> TAKE n \in Node
  <2>1. PICK b \in Seqs, r \in Seqs, p \in 0 .. EPOCHS - 1 :
          Carrying(n, w) = [NewLink(w, 1) EXCEPT !.base = b, !.next = b,
                                                 !.rxNext = r, !.peerEpoch = p]
    BY <1>4 DEF Carrying
  <2> HIDE DEF Carrying
  <2>2. Carrying(n, w) \in Endpoint
    BY <1>3, <2>1 DEF Endpoint
  <2>3. Fits(Carrying(n, w))
    BY <1>3, <2>1 DEF Fits, Endpoint
  <2> QED BY <2>2, <2>3
<1>6. ll \in [Node -> Endpoint] /\ \A n \in Node : Fits(ll[n])
  BY <1>1, <1>5
<1>7. air \in [Node -> Seq(AirFrame)] /\ \A n \in Node : Len(air[n]) <= AIRCAP
  BY ArqConstants DEF Init, ArqConstants
<1>8. fed \in [Node -> Nat] /\ out \in [Node -> Seq(Chunks)]
  <2>1. UpTo(Done) \in Seq(Chunks) /\ <<>> \in Seq(Chunks)
    BY ArqConstants DEF UpTo, Chunks, ArqConstants
  <2> QED BY <2>1, ArqConstants DEF Init, ArqConstants
<1> QED BY <1>6, <1>7, <1>8, ArqConstants DEF Init, TypeOK, Fits, Phases, ArqConstants

(* A transmission only appends a well-typed frame to a ring with room, or  *)
(* loses it.                                                               *)
LEMMA TransmitType ==
  ASSUME TypeOK, NEW n \in Node, NEW f \in AirFrame, Transmit(n, f)
  PROVE  /\ air' \in [Node -> Seq(AirFrame)] /\ \A m \in Node : Len(air'[m]) <= AIRCAP
         /\ sent' \in [Node -> BOOLEAN]
         /\ budget' \in [loss: Nat, early: Nat, retune: Nat]
<1>1. /\ air \in [Node -> Seq(AirFrame)] /\ \A m \in Node : Len(air[m]) <= AIRCAP
      /\ sent \in [Node -> BOOLEAN]
      /\ budget \in [loss: Nat, early: Nat, retune: Nat]
  BY DEF TypeOK
<1>2. sent' \in [Node -> BOOLEAN]
  BY <1>1 DEF Transmit, AirFrame
<1>3. budget' \in [loss: Nat, early: Nat, retune: Nat]
  BY <1>1 DEF Transmit
<1>4. CASE air' = air
  BY <1>1, <1>2, <1>3, <1>4
<1>5. CASE /\ Reaches(Peer(n))
           /\ air' = [air EXCEPT ![Peer(n)] = Append(@, f)]
  <2> DEFINE p == Peer(n)
  <2>1. p \in Node
    BY PeerType
  <2>2. Len(air[p]) < AIRCAP /\ Len(air[p]) \in Nat
    BY <1>1, <1>5, <2>1 DEF Reaches
  <2>3. Append(air[p], f) \in Seq(AirFrame) /\ Len(Append(air[p], f)) <= AIRCAP
    BY <1>1, <2>1, <2>2, AppendProperties, ArqConstants DEF ArqConstants
  <2> HIDE DEF p
  <2>4. air' = [air EXCEPT ![p] = Append(air[p], f)]
    BY <1>5 DEF p
  <2> QED BY <1>1, <1>2, <1>3, <2>1, <2>3, <2>4
<1> QED BY <1>4, <1>5 DEF Transmit

(* Every step of a node or of its host keeps every variable in its type    *)
(* and every ring, window and queue within its capacity.                   *)
LEMMA StepType ==
  ASSUME TypeOK, NEW n \in Node, LoopStep(n) \/ HostWrite(n) \/ Retune(n)
  PROVE  TypeOK'
<1> DEFINE e == ll[n]
           g == Fill(ll[n])
<1>1. /\ ll \in [Node -> Endpoint] /\ \A m \in Node : Fits(ll[m])
      /\ air \in [Node -> Seq(AirFrame)] /\ \A m \in Node : Len(air[m]) <= AIRCAP
      /\ phase \in [Node -> Phases]
      /\ sent \in [Node -> BOOLEAN]
      /\ fed \in [Node -> Nat] /\ out \in [Node -> Seq(Chunks)]
      /\ budget \in [loss: Nat, early: Nat, retune: Nat]
  BY DEF TypeOK, Fits
<1>2. e \in Endpoint /\ Fits(e) /\ g \in Endpoint /\ Fits(g)
  BY <1>1, FillType
<1>3. ASSUME NEW h, h \in Endpoint, Fits(h), ll' = [ll EXCEPT ![n] = h]
      PROVE  ll' \in [Node -> Endpoint] /\ \A m \in Node : Fits(ll'[m])
  BY <1>1, <1>3
<1>4. ASSUME NEW p \in Phases, phase' = [phase EXCEPT ![n] = p]
      PROVE  phase' \in [Node -> Phases]
  BY <1>1, <1>4
<1> HIDE DEF e, g
<1>5. CASE HostWrite(n)
  <2>1. fed[n] + 1 \in Chunks /\ CanWrite(e)
    BY <1>1, <1>5 DEF HostWrite, Chunks, e
  <2>2. ll' = [ll EXCEPT ![n] = Write(e, fed[n] + 1)]
    BY <1>5 DEF HostWrite, e
  <2>3. Write(e, fed[n] + 1) \in Endpoint /\ Fits(Write(e, fed[n] + 1))
    BY <1>2, <2>1, WriteType
  <2>4. ll' \in [Node -> Endpoint] /\ \A m \in Node : Fits(ll'[m])
    BY <1>3, <2>2, <2>3
  <2> QED BY <1>1, <1>5, <2>4, SMTT(20) DEF HostWrite, TypeOK, Fits
<1>6. CASE Retune(n)
  <2>1. PICK w \in Windows : ll' = [ll EXCEPT ![n] = SetTiming(e, w)]
    BY <1>6 DEF Retune, e
  <2>2. SetTiming(e, w) \in Endpoint /\ Fits(SetTiming(e, w))
    BY <1>2, SetTimingType, ArqConstants DEF ArqConstants
  <2>3. ll' \in [Node -> Endpoint] /\ \A m \in Node : Fits(ll'[m])
    BY <1>3, <2>1, <2>2
  <2>4. budget' \in [loss: Nat, early: Nat, retune: Nat]
    <3>1. budget.retune > 0 /\ budget' = [budget EXCEPT !.retune = @ - 1]
      BY <1>6 DEF Retune
    <3>2. budget.loss \in Nat /\ budget.early \in Nat /\ budget.retune - 1 \in Nat
      BY <1>1, <3>1
    <3>3. budget' = [loss |-> budget.loss, early |-> budget.early,
                     retune |-> budget.retune - 1]
      BY <1>1, <3>1
    <3> QED BY <3>2, <3>3
  <2> QED BY <1>1, <1>6, <2>3, <2>4 DEF Retune, TypeOK, Fits
<1>7. CASE StartTurn(n)
  <2>1. ll' \in [Node -> Endpoint] /\ \A m \in Node : Fits(ll'[m])
    BY <1>2, <1>3, <1>7, BeginTurnType DEF StartTurn, e
  <2>2. phase' \in [Node -> Phases]
    BY <1>4, <1>7 DEF StartTurn, Phases
  <2> QED BY <1>1, <1>7, <2>1, <2>2 DEF StartTurn, TypeOK, Fits
<1>8. CASE SendSome(n)
  <2>1. PICK i \in 1 .. Len(g.win) : SendData(n, i)
    BY <1>8 DEF SendSome, g
  <2>2. /\ i \in 1 .. Len(g.win) /\ ll' = [ll EXCEPT ![n] = Picked(g, i)]
        /\ Transmit(n, DataFrame(g, i)) /\ UNCHANGED <<phase, fed, out>>
    BY <2>1 DEF SendData, g
  <2>3. DataFrame(g, i) \in AirFrame
    BY <1>2, <2>2, DataFrameType
  <2>4. ll' \in [Node -> Endpoint] /\ \A m \in Node : Fits(ll'[m])
    BY <1>2, <1>3, <2>2, PickedType
  <2> QED BY <1>1, <2>2, <2>3, <2>4, TransmitType DEF TypeOK, Fits
<1>9. CASE SendAck(n)
  <2>1. /\ ll' = [ll EXCEPT ![n] = AckSent(g)]
        /\ Transmit(n, BareFrame(g)) /\ UNCHANGED <<phase, fed, out>>
    BY <1>9 DEF SendAck, g
  <2>2. ll' \in [Node -> Endpoint] /\ \A m \in Node : Fits(ll'[m])
    BY <1>2, <1>3, <2>1, AckSentType
  <2>3. BareFrame(g) \in AirFrame
    BY <1>2, BareFrameType
  <2> QED BY <1>1, <2>1, <2>2, <2>3, TransmitType DEF TypeOK, Fits
<1>10. CASE SendPoll(n)
  <2>1. /\ ll' = [ll EXCEPT ![n] = g] /\ phase' = [phase EXCEPT ![n] = "turned"]
        /\ Transmit(n, BareFrame(g)) /\ UNCHANGED <<fed, out>>
    BY <1>10 DEF SendPoll, g
  <2>2. ll' \in [Node -> Endpoint] /\ \A m \in Node : Fits(ll'[m])
    BY <1>2, <1>3, <2>1
  <2>3. BareFrame(g) \in AirFrame
    BY <1>2, BareFrameType
  <2>4. phase' \in [Node -> Phases]
    BY <1>4, <2>1 DEF Phases
  <2> QED BY <1>1, <2>1, <2>2, <2>3, <2>4, TransmitType DEF TypeOK, Fits
<1>11. CASE EndBurst(n)
  <2>1. ll' = [ll EXCEPT ![n] = g] /\ phase' = [phase EXCEPT ![n] = "turned"]
    BY <1>11 DEF EndBurst, g
  <2>2. ll' \in [Node -> Endpoint] /\ \A m \in Node : Fits(ll'[m])
    BY <1>2, <1>3, <2>1
  <2>3. phase' \in [Node -> Phases]
    BY <1>4, <2>1 DEF Phases
  <2> QED BY <1>1, <1>11, <2>2, <2>3 DEF EndBurst, TypeOK, Fits
<1>12. CASE Listen(n)
  <2>1. phase' \in [Node -> Phases]
    BY <1>4, <1>12 DEF Listen, Phases
  <2> QED BY <1>1, <1>12, <2>1 DEF Listen, TypeOK, Fits
<1>13. CASE Receive(n)
  <2>1. /\ air[n] # <<>> /\ air[n] \in Seq(AirFrame) /\ Len(air[n]) \in Nat
        /\ Len(air[n]) <= AIRCAP
    BY <1>1, <1>13 DEF Receive
  <2>2. /\ Head(air[n]) \in AirFrame /\ Tail(air[n]) \in Seq(AirFrame)
        /\ Len(Tail(air[n])) <= AIRCAP
    BY <2>1, HeadTailProperties, ArqConstants DEF ArqConstants
  <2>3. OnRx(e, Head(air[n])) \in Endpoint /\ Fits(OnRx(e, Head(air[n])))
    BY <1>2, <2>2, OnRxType
  <2>4. ll' \in [Node -> Endpoint] /\ \A m \in Node : Fits(ll'[m])
    BY <1>3, <1>13, <2>3 DEF Receive, e
  <2>5. phase' \in [Node -> Phases]
    BY <1>4, <1>13 DEF Receive, Phases
  <2>6. air' \in [Node -> Seq(AirFrame)] /\ \A m \in Node : Len(air'[m]) <= AIRCAP
    BY <1>1, <1>13, <2>2 DEF Receive
  <2> QED BY <1>1, <1>13, <2>4, <2>5, <2>6 DEF Receive, TypeOK, Fits
<1>14. CASE Silence(n)
  <2>1. phase' \in [Node -> Phases]
    BY <1>4, <1>14 DEF Silence, Phases
  <2>2. budget' \in [loss: Nat, early: Nat, retune: Nat]
    <3>1. \/ budget' = budget
          \/ budget.early > 0 /\ budget' = [budget EXCEPT !.early = @ - 1]
      BY <1>14 DEF Silence
    <3>2. CASE budget' = budget
      BY <1>1, <3>2
    <3>3. CASE budget.early > 0 /\ budget' = [budget EXCEPT !.early = @ - 1]
      <4>1. budget.loss \in Nat /\ budget.early - 1 \in Nat /\ budget.retune \in Nat
        BY <1>1, <3>3
      <4>2. budget' = [loss |-> budget.loss, early |-> budget.early - 1,
                       retune |-> budget.retune]
        BY <1>1, <3>3
      <4> QED BY <4>1, <4>2
    <3> QED BY <3>1, <3>2, <3>3
  <2> QED BY <1>1, <1>14, <2>1, <2>2 DEF Silence, TypeOK, Fits
<1>15. CASE PumpRead(n)
  <2>1. PICK k \in 1 .. Len(e.rring) :
          /\ out' = [out EXCEPT ![n] = @ \o SubSeq(e.rring, 1, k)]
          /\ ll' = [ll EXCEPT ![n] = Read(e, k)]
    BY <1>15 DEF PumpRead, e
  <2>2. e.rring \in Seq(Chunks) /\ Len(e.rring) \in Nat
    BY <1>2 DEF Endpoint
  <2>3. ll' \in [Node -> Endpoint] /\ \A m \in Node : Fits(ll'[m])
    <3>1. k \in 0 .. Len(e.rring)
      BY <2>2
    <3> QED BY <1>2, <1>3, <2>1, <3>1, ReadType
  <2>4. SubSeq(e.rring, 1, k) \in Seq(Chunks)
    <3>1. \A i \in 1 .. k : e.rring[i] \in Chunks
      BY <2>2
    <3> QED BY <2>2, <3>1, SubSeqProperties
  <2>5. out[n] \o SubSeq(e.rring, 1, k) \in Seq(Chunks)
    <3>1. out[n] \in Seq(Chunks)
      BY <1>1
    <3> QED BY <2>4, <3>1, ConcatProperties
  <2>6. out' \in [Node -> Seq(Chunks)]
    BY <1>1, <2>1, <2>5
  <2> QED BY <1>1, <1>15, <2>3, <2>6 DEF PumpRead, TypeOK, Fits
<1>16. CASE PumpDone(n)
  <2>1. BeginTurn(e) \in Endpoint /\ Fits(BeginTurn(e))
    BY <1>2, BeginTurnType
  <2>2. ll' \in [Node -> Endpoint] /\ \A m \in Node : Fits(ll'[m])
    BY <1>1, <1>3, <1>16, <2>1 DEF PumpDone, e
  <2>3. phase' \in [Node -> Phases]
    BY <1>4, <1>16 DEF PumpDone, Phases
  <2> QED BY <1>1, <1>16, <2>2, <2>3 DEF PumpDone, TypeOK, Fits
<1> QED BY <1>5, <1>6, <1>7, <1>8, <1>9, <1>10, <1>11, <1>12, <1>13, <1>14,
           <1>15, <1>16 DEF LoopStep

(* Every reachable state is well typed, no ring or window ever holds more  *)
(* than it can (no RPush or SPush past the end, no frame past win_[15]),   *)
(* and every sequence number stays in its 8-bit range.                     *)
THEOREM TypeCorrect == Spec => []TypeOK
<1>1. Init => TypeOK
  BY InitType
<1>2. TypeOK /\ [Next]_vars => TypeOK'
  <2>1. TypeOK /\ Next => TypeOK'
    BY StepType DEF Next
  <2>2. TypeOK /\ UNCHANGED vars => TypeOK'
    BY DEF TypeOK, vars
  <2> QED BY <2>1, <2>2
<1> QED BY <1>1, <1>2, PTL DEF Spec

-----------------------------------------------------------------------------
(* The endpoints agree: Init, then one lemma per kind of step.             *)

(* Two fresh halves agree. *)
LEMMA FreshAgreed ==
  ASSUME NEW d \in Nat, NEW s, NEW r, s.win = <<>>, s.sring = <<>>,
         s.base = SeqOf(d), s.next = SeqOf(d), r.rxNext = SeqOf(d),
         \A t \in Slots : ~ r.rx[t].held
  PROVE  Agreed(s, d, r, d, <<>>, <<>>)
<1>1. Len(s.win) = 0 /\ Len(s.sring) = 0 /\ d + 0 = d /\ Buffered(r) = {}
  BY DEF Buffered
<1>2. SendsFrom(s, d)
  BY <1>1 DEF SendsFrom
<1>3. HoldsFrom(r, d)
  BY DEF HoldsFrom
<1>4. AckedHeld(s, d, r, d)
  BY <1>1 DEF AckedHeld, Holds
<1>5. DataInFlight(<<>>, r, d, d + Len(s.win)) /\ AcksInFlight(<<>>, s, d, r, d)
  BY DEF DataInFlight, AcksInFlight
<1> QED BY <1>1, <1>2, <1>3, <1>4, <1>5 DEF Agreed

(* The first chunk has number 0.                                           *)
LEMMA SeqOfZero == SeqOf(0) = 0
BY Moduli DEF SeqOf

(* The peer is the other node.                                             *)
LEMMA PeerIs ==
  ASSUME NEW n \in Node
  PROVE  (n = Initiator /\ Peer(n) = Responder) \/ (n = Responder /\ Peer(n) = Initiator)
<1>1. Initiator # Responder /\ (n = Initiator \/ n = Responder)
  BY ArqConstants DEF ArqConstants, Node
<1>2. CASE n = Initiator
  BY <1>2 DEF Peer
<1>3. CASE n = Responder
  BY <1>1, <1>3 DEF Peer
<1> QED BY <1>1, <1>2, <1>3

(* The links agree when Setup is done, and after Done chunks.              *)
LEMMA InitAgrees == Init => IInv
<1> SUFFICES ASSUME Init PROVE IInv
  OBVIOUS
<1>1. TypeOK
  BY InitType
<1>2. PICK w \in Windows : ll = [n \in Node |-> Carrying(n, w)]
  BY DEF Init
<1>3. Initiator # Responder /\ Done \in Nat /\ w \in 1 .. MAXWIN
  BY ArqConstants DEF ArqConstants
<1> DEFINE D(n) == IF n = Initiator THEN Done ELSE 0
<1>4. ASSUME NEW n \in Node
      PROVE  /\ ll[n].win = <<>> /\ ll[n].sring = <<>> /\ ll[n].rring = <<>>
             /\ ll[n].base = SeqOf(D(n)) /\ ll[n].next = SeqOf(D(n))
             /\ ll[n].rxNext = SeqOf(D(Peer(n)))
             /\ \A t \in Slots : ~ ll[n].rx[t].held
             /\ ll[n].myEpoch = 1 /\ ll[n].peerEpoch \in {0, 1}
  <2>1. ll[n] = Carrying(n, w)
    BY <1>2
  <2>2. (n = Initiator /\ Peer(n) = Responder) \/ (n = Responder /\ Peer(n) = Initiator)
    BY <1>3, PeerIs
  <2> DEFINE z == Done % SEQMOD
             N == NewLink(w, 1)
  <2>3. z = SeqOf(Done) /\ SeqOf(0) = 0
    BY SeqOfZero DEF SeqOf
  <2> HIDE DEF z
  <2>4. PICK b, r, p : 
          /\ Carrying(n, w) = [N EXCEPT !.base = b, !.next = b, !.rxNext = r, !.peerEpoch = p]
          /\ b = SeqOf(D(n)) /\ r = SeqOf(D(Peer(n))) /\ p \in {0, 1}
    <3> DEFINE b == IF n = Initiator THEN z ELSE 0
               r == IF n = Responder THEN z ELSE 0
               p == IF Done > 0 THEN 1 ELSE 0
    <3>1. Carrying(n, w) = [N EXCEPT !.base = b, !.next = b, !.rxNext = r, !.peerEpoch = p]
      BY DEF Carrying, z
    <3>2. b = SeqOf(D(n)) /\ r = SeqOf(D(Peer(n)))
      BY <1>3, <2>2, <2>3
    <3>3. p \in {0, 1}
      OBVIOUS
    <3> HIDE DEF b, r, p, N, D
    <3> QED BY <3>1, <3>2, <3>3
  <2>5. /\ N.win = <<>> /\ N.sring = <<>> /\ N.rring = <<>>
        /\ N.rx = [s \in Slots |-> FreeSlot] /\ N.myEpoch = 1
        /\ DOMAIN N = {"window", "sring", "win", "base", "next", "rxNext", "rx",
                       "rring", "ackPending", "ackSentTurn", "myEpoch", "peerEpoch",
                       "peerReset"}
    BY DEF NewLink
  <2> HIDE DEF N, D
  <2>6. \A t \in Slots : ~ N.rx[t].held
    BY <2>5 DEF FreeSlot
  <2>7. /\ ll[n].win = N.win /\ ll[n].sring = N.sring /\ ll[n].rring = N.rring
        /\ ll[n].base = b /\ ll[n].next = b /\ ll[n].rxNext = r
        /\ ll[n].rx = N.rx /\ ll[n].myEpoch = N.myEpoch /\ ll[n].peerEpoch = p
    <3>1. N \in Endpoint
      BY <1>3, NewLinkType, LinkConstants DEF N, LinkConstants
    <3> QED BY <2>1, <2>4, <3>1 DEF Endpoint
  <2> QED BY <2>4, <2>5, <2>6, <2>7
<1>5. ASSUME NEW n \in Node
      PROVE  /\ air[n] = <<>> /\ fed[n] = D(n) /\ out[n] = UpTo(D(Peer(n)))
  <2>1. (n = Initiator /\ Peer(n) = Responder) \/ (n = Responder /\ Peer(n) = Initiator)
    BY <1>3, PeerIs
  <2>2. UpTo(0) = <<>>
    BY DEF UpTo
  <2> QED BY <1>3, <2>1, <2>2 DEF Init
<1>6. OneEpoch
  BY <1>4, <1>5 DEF OneEpoch
<1>7. ASSUME NEW n \in Node PROVE Agree(n)
  <2> DEFINE p == Peer(n)
  <2>1. p \in Node /\ Peer(p) = n /\ D(n) \in Nat
    BY <1>3 DEF Peer, Node
  <2> HIDE DEF p
  <2>2. UpTo(D(n)) \in Seq(Nat) /\ Len(UpTo(D(n))) = D(n)
    <3>1. \A x \in Nat : UpTo(x) \in Seq(Nat) /\ Len(UpTo(x)) = x
      BY DEF UpTo
    <3> HIDE DEF D
    <3> QED BY <2>1, <3>1
  <2>3. /\ out[p] = UpTo(D(n)) /\ ll[p].rring = <<>>
    BY <1>4, <1>5, <2>1
  <2> HIDE DEF D
  <2>4. Got(p) = D(n)
    BY <2>1, <2>2, <2>3 DEF Got
  <2>5. Gone(n) = D(n)
    <3>1. fed[n] = D(n) /\ Len(ll[n].sring) = 0 /\ Len(ll[n].win) = 0
      BY <1>4, <1>5
    <3> QED BY <2>1, <3>1 DEF Gone, Numbered
  <2>6. out[p] \o ll[p].rring = UpTo(Got(p))
    BY <2>2, <2>3, <2>4
  <2>7. Agreed(ll[n], D(n), ll[p], D(n), <<>>, <<>>)
    <3>1. ll[p].rxNext = SeqOf(D(n)) /\ \A t \in Slots : ~ ll[p].rx[t].held
      BY <1>4, <2>1
    <3> QED BY <1>4, <2>1, <3>1, FreshAgreed
  <2>8. air[n] = <<>> /\ air[p] = <<>>
    BY <1>5, <2>1
  <2> QED BY <2>1, <2>4, <2>5, <2>6, <2>7, <2>8 DEF Agree, p
<1> QED BY <1>1, <1>6, <1>7 DEF IInv

(* What the invariant says of one node and its peer. *)
LEMMA Unfold ==
  ASSUME IInv, NEW n \in Node
  PROVE  /\ ll[n] \in Endpoint /\ Fits(ll[n]) /\ air[n] \in Seq(AirFrame)
         /\ fed[n] \in Nat /\ out[n] \in Seq(Chunks) /\ Len(ll[n].rring) \in Nat
         /\ Len(ll[n].sring) \in Nat /\ Len(ll[n].win) \in Nat
         /\ Peer(n) \in Node /\ Peer(n) # n /\ Peer(Peer(n)) = n
         /\ Got(n) \in Nat /\ Gone(n) \in Nat
         /\ fed[n] = Gone(n) + Len(ll[n].win) + Len(ll[n].sring)
         /\ ll[n].myEpoch = 1 /\ ll[n].peerEpoch \in {0, 1}
         /\ \A i \in 1 .. Len(air[n]) : air[n][i].epoch = 1
<1>1. /\ ll[n] \in Endpoint /\ Fits(ll[n]) /\ air[n] \in Seq(AirFrame)
      /\ fed[n] \in Nat /\ out[n] \in Seq(Chunks)
  BY DEF IInv, TypeOK, Fits
<1>2. Len(ll[n].rring) \in Nat /\ Len(ll[n].sring) \in Nat /\ Len(ll[n].win) \in Nat
  <2>1. ll[n].rring \in Seq(Chunks) /\ ll[n].sring \in Seq(Chunks)
    BY <1>1 DEF Endpoint
  <2> QED BY <1>1, <2>1, WinType
<1>3. Len(out[n]) \in Nat
  BY <1>1
<1>4. Got(n) \in Nat
  <2> DEFINE x == Len(out[n])
             y == Len(ll[n].rring)
  <2>1. x \in Nat /\ y \in Nat
    BY <1>2, <1>3
  <2> HIDE DEF x, y
  <2>2. x + y \in Nat
    BY <2>1
  <2> QED BY <2>2 DEF Got, x, y
<1>5. Gone(n) \in Nat
  BY DEF IInv, Agree
<1>6. fed[n] = Gone(n) + Len(ll[n].win) + Len(ll[n].sring)
  <2> DEFINE l == Len(ll[n].win)
             z == Len(ll[n].sring)
  <2>1. l \in Int /\ z \in Int /\ fed[n] \in Int /\ Gone(n) = fed[n] - z - l
    BY <1>1, <1>2 DEF Gone, Numbered
  <2> HIDE DEF l, z
  <2> DEFINE x == fed[n]
             y == Gone(n)
  <2>2. x \in Int /\ y = x - z - l
    BY <2>1
  <2> HIDE DEF x, y
  <2>3. x = y + l + z
    BY <2>1, <2>2
  <2> QED BY <2>3 DEF x, y, l, z
<1>7. Peer(n) \in Node /\ Peer(n) # n /\ Peer(Peer(n)) = n
  BY PeerIs, PeerType
<1>8. /\ ll[n].myEpoch = 1 /\ ll[n].peerEpoch \in {0, 1}
      /\ \A i \in 1 .. Len(air[n]) : air[n][i].epoch = 1
  BY DEF IInv, OneEpoch
<1> QED BY <1>1, <1>2, <1>4, <1>5, <1>6, <1>7, <1>8

(* n changes its send half and may put the frame f into the air. *)
Sends(n, t, f) ==
  /\ ll' = [ll EXCEPT ![n] = t]
  /\ air' = air \/ air' = [air EXCEPT ![Peer(n)] = Append(@, f)]
  /\ out' = out /\ fed'[Peer(n)] = fed[Peer(n)]
  /\ fed'[n] = Gone(n) + Len(t.win) + Len(t.sring)

(* Such a step keeps both directions in agreement, when f says what n      *)
(* holds and carries a chunk of n's window.                                *)
LEMMA SendKeeps ==
  ASSUME IInv, NEW n \in Node, NEW t \in Endpoint, Fits(t), NEW f \in AirFrame, Sends(n, t, f),
         SendsFrom(t, Gone(n)), Continues(t, ll[n]),
         RecvHalf(t) = RecvHalf(ll[n]), Epochs(t) = Epochs(ll[n]),
         f.epoch = 1, f.ack = t.rxNext, f.sack = Sack(t),
         f.data => \E i \in 1 .. Len(t.win) : f.pay = t.win[i].pay /\ f.seq = t.win[i].seq
  PROVE  OneEpoch' /\ \A m \in Node : Agree(m)'
<1> DEFINE p == Peer(n)
           e == ll[n]
           r == ll[p]
           b == Gone(n)
           c == Gone(p)
           g == Got(p)
           h == Got(n)
           qn == air[n]
           qp == air[p]
<1>1. /\ e \in Endpoint /\ Fits(e) /\ qn \in Seq(AirFrame) /\ h \in Nat /\ b \in Nat
      /\ p \in Node /\ p # n /\ Peer(p) = n /\ e.myEpoch = 1 /\ e.peerEpoch \in {0, 1}
      /\ \A i \in 1 .. Len(qn) : qn[i].epoch = 1
  BY Unfold
<1>2. /\ r \in Endpoint /\ Fits(r) /\ qp \in Seq(AirFrame) /\ g \in Nat /\ c \in Nat
      /\ r.myEpoch = 1 /\ r.peerEpoch \in {0, 1}
      /\ \A i \in 1 .. Len(qp) : qp[i].epoch = 1
  BY <1>1, Unfold
<1>3. Node = {n, p}
  BY <1>1, PeerIs DEF Node
<1>4. /\ Agreed(e, b, r, g, qp, qn) /\ out[p] \o r.rring = UpTo(g)
      /\ Agreed(r, c, e, h, qn, qp) /\ out[n] \o e.rring = UpTo(h)
  <2>1. Agree(n) /\ Agree(p)
    BY <1>1 DEF IInv
  <2> QED BY <1>1, <2>1 DEF Agree
<1>5. /\ ll'[n] = t /\ ll'[p] = r /\ out' = out /\ air'[n] = qn
      /\ air'[p] \in {qp, Append(qp, f)}
  <2>1. ll \in [Node -> Endpoint] /\ air \in [Node -> Seq(AirFrame)]
    BY DEF IInv, TypeOK
  <2> QED BY <1>1, <2>1 DEF Sends
<1>6. t.rring = e.rring /\ t.myEpoch = 1 /\ t.peerEpoch \in {0, 1}
  BY <1>1 DEF RecvHalf, Epochs
<1>7. Got(n)' = h /\ Got(p)' = g
  BY <1>5, <1>6 DEF Got
<1>8. Gone(n)' = b /\ Gone(p)' = c
  <2>1. Gone(p)' = c
    BY <1>5 DEF Gone, Numbered, Sends
  <2>2. Len(t.win) \in Nat /\ Len(t.sring) \in Nat
    <3>1. t.sring \in Seq(Chunks)
      BY DEF Endpoint
    <3> QED BY <3>1, WinType
  <2> DEFINE l == Len(t.win)
             z == Len(t.sring)
             x == fed'[n]
  <2>3. Gone(n)' = x - z - l /\ x = b + l + z /\ l \in Int /\ z \in Int
    BY <1>5, <2>2 DEF Gone, Numbered, Sends
  <2> HIDE DEF l, z, x, b
  <2>4. x - z - l = b
    BY <1>1, <2>3
  <2> QED BY <2>1, <2>3, <2>4
<1> HIDE DEF p, e, r, b, c, g, h, qn, qp
<1>9. Agreed(t, b, r, g, qp, qn)
  <2>1. SendsFrom(t, b) /\ Continues(t, e)
    BY DEF b, e
  <2> QED BY <1>1, <1>2, <1>4, <2>1, SenderMoves DEF Continues
<1>10. Agreed(r, c, t, h, qn, qp)
  <2>1. RecvHalf(t) = RecvHalf(e)
    BY DEF e
  <2> QED BY <1>4, <2>1, AgreedHalves
<1>11. Agreed(t, b, r, g, Append(qp, f), qn)
  <2>1. /\ SendsFrom(t, b) /\ HoldsFrom(r, g)
        /\ \A x \in Buffered(r) \union {g} : x <= b + Len(t.win)
        /\ AckedHeld(t, b, r, g)
        /\ DataInFlight(qp, r, g, b + Len(t.win))
        /\ AcksInFlight(qn, t, b, r, g)
    BY <1>9 DEF Agreed
  <2>2. f.data => \E i \in 1 .. Len(t.win) : f.pay = b + i /\ f.seq = SeqOf(b + i - 1)
    BY <2>1 DEF SendsFrom
  <2>3. Len(t.win) <= MAXWIN
    BY DEF Fits
  <2>4. DataInFlight(Append(qp, f), r, g, b + Len(t.win))
    BY <1>1, <1>2, <2>1, <2>2, <2>3, DataAppend
  <2> QED BY <2>1, <2>4 DEF Agreed
<1>12. Agreed(r, c, t, h, qn, Append(qp, f))
  <2>1. /\ SendsFrom(r, c) /\ HoldsFrom(t, h)
        /\ \A x \in Buffered(t) \union {h} : x <= c + Len(r.win)
        /\ AckedHeld(r, c, t, h)
        /\ DataInFlight(qn, t, h, c + Len(r.win))
        /\ AcksInFlight(qp, r, c, t, h)
    BY <1>10 DEF Agreed
  <2>2. AcksInFlight(Append(qp, f), r, c, t, h)
    BY <1>1, <1>2, <2>1, AckAppend
  <2> QED BY <2>1, <2>2 DEF Agreed
<1>13. /\ Agreed(t, b, r, g, air'[p], qn) /\ Agreed(r, c, t, h, qn, air'[p])
  BY <1>5, <1>9, <1>10, <1>11, <1>12
<1>14. \A i \in 1 .. Len(air'[p]) : air'[p][i].epoch = 1
  <2>1. CASE air'[p] = qp
    BY <1>2, <2>1
  <2>2. CASE air'[p] = Append(qp, f)
    <3> DEFINE q == Append(qp, f)
    <3>1. \A i \in 1 .. Len(q) : \/ i \in 1 .. Len(qp) /\ q[i] = qp[i]
                                 \/ i = Len(qp) + 1 /\ q[i] = f
      BY <1>2, AppendIs
    <3> HIDE DEF q
    <3>2. \A i \in 1 .. Len(q) : q[i].epoch = 1
      BY <1>2, <3>1
    <3> QED BY <2>2, <3>2 DEF q
  <2> QED BY <1>5, <2>1, <2>2
<1>15. OneEpoch'
  BY <1>1, <1>2, <1>3, <1>5, <1>6, <1>14 DEF OneEpoch
<1>16. Agree(n)'
  <2>1. Peer(n) = p
    BY DEF p
  <2>2. out'[p] \o ll'[p].rring = UpTo(g)
    BY <1>4, <1>5
  <2> QED BY <1>1, <1>5, <1>7, <1>8, <1>13, <2>1, <2>2 DEF Agree
<1>17. Agree(p)'
  <2>1. out'[n] \o ll'[n].rring = UpTo(h)
    BY <1>4, <1>5, <1>6
  <2> QED BY <1>1, <1>2, <1>5, <1>7, <1>8, <1>13, <2>1 DEF Agree
<1> QED BY <1>3, <1>15, <1>16, <1>17

(* The stream grows by the chunks that follow it. *)
LEMMA StreamGrows ==
  ASSUME NEW o \in Seq(Chunks), NEW q \in Seq(Chunks), NEW h \in Nat, NEW n \in Nat,
         o \o q = UpTo(h)
  PROVE  LET u == q \o [k \in 1 .. n |-> h + k]
         IN u \in Seq(Chunks) /\ o \o u = UpTo(h + n) /\ Len(o) + Len(u) = h + n
<1> DEFINE more == [k \in 1 .. n |-> h + k]
           all  == UpTo(h) \o more
<1>1. \A x \in Nat : UpTo(x) \in Seq(Chunks) /\ Len(UpTo(x)) = x /\ \A i \in 1 .. x : UpTo(x)[i] = i
  BY DEF UpTo, Chunks
<1>2. more \in Seq(Chunks) /\ Len(more) = n /\ \A k \in 1 .. n : more[k] = h + k
  BY DEF Chunks
<1> HIDE DEF more
<1>3. (o \o q) \o more = o \o (q \o more)
  <2>1. o \in Seq(Chunks) /\ q \in Seq(Chunks) /\ more \in Seq(Chunks)
    BY <1>2
  <2> QED BY ONLY <2>1, ConcatAssociative
<1>4. UpTo(h) \in Seq(Chunks) /\ UpTo(h + n) \in Seq(Chunks) /\ h + n \in Nat
  BY <1>1
<1>5. /\ all \in Seq(Chunks) /\ Len(all) = h + n
      /\ \A i \in 1 .. Len(UpTo(h)) : all[i] = UpTo(h)[i]
      /\ \A i \in 1 .. Len(more) : all[Len(UpTo(h)) + i] = more[i]
  <2>1. /\ all \in Seq(Chunks) /\ Len(all) = Len(UpTo(h)) + Len(more)
        /\ \A i \in 1 .. Len(UpTo(h)) : all[i] = UpTo(h)[i]
        /\ \A i \in 1 .. Len(more) : all[Len(UpTo(h)) + i] = more[i]
    <3>1. UpTo(h) \in Seq(Chunks) /\ more \in Seq(Chunks)
      BY <1>2, <1>4
    <3> DEFINE p == UpTo(h)
    <3> HIDE DEF p
    <3>2. /\ p \o more \in Seq(Chunks) /\ Len(p \o more) = Len(p) + Len(more)
          /\ \A i \in 1 .. Len(p) : (p \o more)[i] = p[i]
          /\ \A i \in 1 .. Len(more) : (p \o more)[Len(p) + i] = more[i]
      <4>1. p \in Seq(Chunks) /\ more \in Seq(Chunks)
        BY <3>1 DEF p
      <4> QED BY ONLY <4>1, ConcatIs
    <3> QED BY <3>2 DEF p
  <2> QED BY <1>1, <1>2, <2>1
<1> HIDE DEF all
<1>6. \A i \in 1 .. h + n : all[i] = i
  <2> SUFFICES ASSUME NEW i \in 1 .. h + n PROVE all[i] = i
    OBVIOUS
  <2>1. CASE i <= h
    <3>1. i \in 1 .. h
      BY <2>1
    <3>2. UpTo(h)[i] = i /\ Len(UpTo(h)) = h
      BY <1>1, <3>1
    <3> QED BY <1>5, <3>1, <3>2
  <2>2. CASE i > h
    <3> DEFINE k == i - h
    <3>1. k \in 1 .. n /\ h + k = i
      BY <2>2
    <3> HIDE DEF k
    <3>2. all[h + k] = more[k]
      BY <1>1, <1>2, <1>5, <3>1
    <3> QED BY <1>2, <3>1, <3>2
  <2> QED BY <2>1, <2>2
<1>7. all = UpTo(h + n)
  <2>1. \A i \in 1 .. h + n : UpTo(h + n)[i] = i
    BY <1>1, <1>4
  <2>2. Len(UpTo(h + n)) = h + n
    BY <1>1, <1>4
  <2> QED BY <1>4, <1>5, <1>6, <2>1, <2>2, SeqEqual
<1>8. q \o more \in Seq(Chunks)
  BY <1>2, ConcatIs
<1>9. Len(o) + Len(q \o more) = h + n
  <2>1. Len(o \o (q \o more)) = Len(o) + Len(q \o more)
    BY <1>8, ConcatIs
  <2>2. o \o (q \o more) = all
    BY <1>3 DEF all
  <2> QED BY <1>5, <2>1, <2>2
<1> QED BY <1>3, <1>7, <1>8, <1>9 DEF all, more

(* What is read moves from the ring to the stream. *)
LEMMA StreamReads ==
  ASSUME NEW o \in Seq(Chunks), NEW q \in Seq(Chunks), NEW j \in 0 .. Len(q)
  PROVE  LET a == SubSeq(q, 1, j)
             b == SubSeq(q, j + 1, Len(q))
         IN /\ o \o a \in Seq(Chunks) /\ b \in Seq(Chunks) /\ (o \o a) \o b = o \o q
<1> DEFINE a == SubSeq(q, 1, j)
           b == SubSeq(q, j + 1, Len(q))
<1>1. a \in Seq(Chunks) /\ b \in Seq(Chunks)
  <2>1. /\ \A i \in 1 .. j : q[i] \in Chunks
        /\ \A i \in j + 1 .. Len(q) : q[i] \in Chunks
    <3>1. Len(q) \in Nat /\ \A i \in 1 .. Len(q) : q[i] \in Chunks
      OBVIOUS
    <3>2. 1 .. j \subseteq 1 .. Len(q) /\ j + 1 .. Len(q) \subseteq 1 .. Len(q)
      BY <3>1
    <3> QED BY <3>1, <3>2
  <2> QED BY <2>1, SubSeqProperties
<1>2. a \o b = q
  <2>1. SubSeq(q, 1, Len(q)) = q
    BY SubSeqFull
  <2>2. SubSeq(q, 1, j) \o SubSeq(q, j + 1, Len(q)) = SubSeq(q, 1, Len(q))
    <3>1. /\ Len(q) \in Nat /\ 1 \in 1 .. Len(q) + 1 /\ j \in 1 - 1 .. Len(q)
          /\ Len(q) \in j .. Len(q)
      OBVIOUS
    <3> QED BY <3>1, ConcatAdjacentSubSeq
  <2> QED BY <2>1, <2>2
<1> HIDE DEF a, b
<1>3. (o \o a) \o b = o \o (a \o b)
  BY <1>1, ConcatAssociative, SMTT(20)
<1>4. o \o a \in Seq(Chunks)
  BY <1>1, ConcatIs
<1> QED BY <1>1, <1>2, <1>3, <1>4 DEF a, b

(* OnRx, seen from both directions: as a sender the node takes the ack, as *)
(* a receiver the chunk.                                                   *)
LEMMA OnRxIs ==
  ASSUME NEW e \in Endpoint, Fits(e), e.myEpoch = 1, e.peerEpoch \in {0, 1},
         NEW r \in Endpoint, Fits(r), NEW b \in Nat, NEW g \in Nat,
         NEW c \in Nat, NEW h \in Nat,
         NEW qn \in Seq(AirFrame), NEW qp \in Seq(AirFrame), qn # <<>>,
         Head(qn).epoch = 1,
         Agreed(e, b, r, g, qp, qn), Agreed(r, c, e, h, qn, qp)
  PROVE  LET t == OnRx(e, Head(qn))
         IN /\ t.myEpoch = 1 /\ t.peerEpoch = 1 /\ t.sring = e.sring
            /\ \E m \in 0 .. Len(e.win) : /\ Len(t.win) = Len(e.win) - m
                                          /\ Agreed(t, b + m, r, g, qp, Tail(qn))
            /\ \E n \in Nat : /\ t.rring = e.rring \o [k \in 1 .. n |-> h + k]
                              /\ Agreed(r, c, t, h + n, Tail(qn), qp)
<1> DEFINE f == Head(qn)
           q == Tail(qn)
           k == TrackEpoch(e, 1)
           a == AckProcess(k, f.ack, f.sack)
           t == OnRx(e, f)
<1>1. /\ f \in AirFrame /\ q \in Seq(AirFrame) /\ Len(q) \in Nat
  BY QueueTail
<1>2. t = IF f.data THEN TakeData(a, f) ELSE a
  BY DEF OnRx
<1>3. /\ k \in Endpoint /\ Fits(k) /\ SendHalf(k) = SendHalf(e) /\ RecvHalf(k) = RecvHalf(e)
      /\ k.myEpoch = 1 /\ k.peerEpoch = 1
  <2>1. 1 \in 1 .. EPOCHS - 1
    BY LinkConstants DEF LinkConstants
  <2> QED BY <2>1, TrackEpochType, TrackEpochIs
<1> HIDE DEF k
<1>4. f.ack \in Seqs /\ f.sack \in SUBSET (0 .. MAXWIN - 2) /\ f.seq \in Seqs /\ f.pay \in Nat
  <2> HIDE DEF f
  <2> QED BY <1>1 DEF AirFrame, Chunks
<1>5. a \in Endpoint /\ Fits(a)
  BY <1>3, <1>4, AckProcessType
<1>6. /\ RecvHalf(a) = RecvHalf(e) /\ a.sring = e.sring /\ a.rring = e.rring
      /\ a.myEpoch = 1 /\ a.peerEpoch = 1 /\ k.win = e.win
  <2>1. RecvHalf(a) = RecvHalf(k) /\ Epochs(a) = Epochs(k) /\ a.sring = k.sring
    BY <1>3, AckProcessKeeps
  <2> HIDE DEF a
  <2> QED BY <1>3, <2>1 DEF SendHalf, RecvHalf, Epochs
<1>7. \E m \in 0 .. Len(e.win) : /\ Len(a.win) = Len(e.win) - m
                                 /\ Agreed(a, b + m, r, g, qp, q)
  <2>1. Agreed(k, b, r, g, qp, qn)
    BY <1>3, AgreedHalves
  <2> QED BY <1>3, <1>6, <2>1, AckTaken
<1>8. Agreed(r, c, a, h, q, qp) /\ DataInFlight(qn, a, h, c + Len(r.win))
  <2>1. Agreed(r, c, a, h, qn, qp)
    BY <1>6, AgreedHalves
  <2> HIDE DEF q, a, f
  <2>2. DataInFlight(qn, a, h, c + Len(r.win))
    BY <2>1 DEF Agreed
  <2>3. DataInFlight(q, a, h, c + Len(r.win))
    BY <2>2, DataTail DEF q
  <2> QED BY <2>1, <2>2, <2>3 DEF Agreed
<1> HIDE DEF a
<1>9. CASE ~f.data
  <2>1. t = a
    BY <1>2, <1>9
  <2>2. a.rring \in Seq(Chunks)
    BY <1>5 DEF Endpoint
  <2> DEFINE none == [j \in 1 .. 0 |-> h + j]
  <2>3. none = <<>>
    OBVIOUS
  <2> HIDE DEF none
  <2>4. a.rring = e.rring \o none
    BY <1>6, <2>2, <2>3
  <2>5. h + 0 = h
    OBVIOUS
  <2>6. Agreed(r, c, a, h + 0, q, qp)
    BY <1>8, <2>5
  <2>7. \E n \in Nat : /\ t.rring = e.rring \o [j \in 1 .. n |-> h + j]
                       /\ Agreed(r, c, t, h + n, q, qp)
    BY <2>1, <2>4, <2>6 DEF none
  <2> HIDE DEF t
  <2> QED BY <1>6, <1>7, <2>1, <2>7 DEF t
<1>10. CASE f.data
  <2>1. t = TakeData(a, f)
    BY <1>2, <1>10
  <2>2. /\ f.pay \in 1 .. c + Len(r.win) /\ f.seq = SeqOf(f.pay - 1)
        /\ h < f.pay + MAXWIN
        /\ \A i \in 1 .. Len(q) : q[i].data => f.pay < q[i].pay + MAXWIN
    BY <1>8, <1>10, DataTail
  <2> HIDE DEF f, q
  <2>3. HoldsFrom(a, h) /\ AckedHeld(r, c, a, h)
    BY <1>8 DEF Agreed
  <2>4. MAXWIN \in Nat \ {0} /\ Len(r.win) \in Nat /\ Len(r.win) <= MAXWIN
    BY Moduli, WinType DEF Fits
  <2>5. c <= h + MAXWIN
    <3>1. CASE c = 0
      BY <2>4, <3>1
    <3>2. CASE c # 0
      <4>1. c \in 1 .. c
        BY <3>2
      <4>2. Holds(a, h, c)
        BY <2>3, <4>1 DEF AckedHeld
      <4>3. \A x \in Buffered(a) : x \in h + 1 .. h + MAXWIN
        BY <1>5, <2>3, BufferedType
      <4> QED BY <2>4, <4>2, <4>3 DEF Holds
    <3> QED BY <3>1, <3>2
  <2>6. f.pay >= 1 /\ f.pay <= h + 2 * MAXWIN
    <3>1. Len(r.win) \in Nat /\ MAXWIN \in Nat /\ Len(r.win) <= MAXWIN
      BY <2>4
    <3>2. f.pay \in Nat /\ f.pay >= 1 /\ f.pay <= c + Len(r.win)
      BY <1>4, <2>2, <3>1
    <3> QED BY <2>5, <3>1, <3>2
  <2>7. /\ SendHalf(t) = SendHalf(a) /\ Epochs(t) = Epochs(a)
        /\ \E n \in Nat, new \in {{}, {f.pay}} :
             /\ t.rring = a.rring \o [j \in 1 .. n |-> h + j]
             /\ HoldsFrom(t, h + n)
             /\ Buffered(t) = {x \in Buffered(a) \union new : x > h + n}
             /\ \A j \in 1 .. n : h + j \in Buffered(a) \union new
    <3> DEFINE u == TakeData(a, f)
    <3>1. /\ a \in Endpoint /\ Fits(a) /\ h \in Nat /\ HoldsFrom(a, h) /\ f \in AirFrame
          /\ f.pay >= 1 /\ f.seq = SeqOf(f.pay - 1)
          /\ h < f.pay + MAXWIN /\ f.pay <= h + 2 * MAXWIN
      BY <1>1, <1>5, <2>2, <2>3, <2>6
    <3>2. /\ SendHalf(u) = SendHalf(a) /\ Epochs(u) = Epochs(a)
          /\ \E n \in Nat, new \in {{}, {f.pay}} :
               /\ u.rring = a.rring \o [j \in 1 .. n |-> h + j]
               /\ HoldsFrom(u, h + n)
               /\ Buffered(u) = {x \in Buffered(a) \union new : x > h + n}
               /\ \A j \in 1 .. n : h + j \in Buffered(a) \union new
      BY ONLY <3>1, TakeDataIs
    <3> HIDE DEF u
    <3>3. u = t
      BY <2>1 DEF u
    <3> HIDE DEF t
    <3> QED BY <3>2, <3>3
  <2>8. PICK n \in Nat, new \in {{}, {f.pay}} :
             /\ t.rring = a.rring \o [j \in 1 .. n |-> h + j]
             /\ HoldsFrom(t, h + n)
             /\ Buffered(t) = {x \in Buffered(a) \union new : x > h + n}
             /\ \A j \in 1 .. n : h + j \in Buffered(a) \union new
    BY <2>7
  <2>9. t \in Endpoint
    BY <1>1, <1>5, <2>1, TakeDataType
  <2> HIDE DEF t
  <2>10. /\ new \in SUBSET Nat
         /\ \A x \in new : /\ x <= c + Len(r.win)
                           /\ \A i \in 1 .. Len(q) : q[i].data => x < q[i].pay + MAXWIN
    <3>1. f.pay \in Nat /\ f.pay <= c + Len(r.win)
      BY <1>4, <2>2, <2>4
    <3>2. \A i \in 1 .. Len(q) : q[i].data => f.pay < q[i].pay + MAXWIN
      BY <1>4, <2>2
    <3>3. CASE new = {}
      BY ONLY <3>3
    <3>4. CASE new = {f.pay}
      BY ONLY <3>1, <3>2, <3>4
    <3> QED BY ONLY <2>8, <3>3, <3>4
  <2>11. Agreed(r, c, t, h + n, q, qp)
    BY <1>1, <1>5, <1>8, <2>4, <2>8, <2>9, <2>10, ReceiverMoves
  <2>12. t.sring = a.sring /\ t.win = a.win /\ t.myEpoch = 1 /\ t.peerEpoch = 1
    BY <1>6, <2>7 DEF SendHalf, Epochs
  <2>13. \E m \in 0 .. Len(e.win) : /\ Len(t.win) = Len(e.win) - m
                                    /\ Agreed(t, b + m, r, g, qp, q)
    <3>1. PICK m \in 0 .. Len(e.win) : Len(a.win) = Len(e.win) - m /\ Agreed(a, b + m, r, g, qp, q)
      BY <1>7
    <3>2. Agreed(t, b + m, r, g, qp, q)
      BY <2>7, <3>1, AgreedHalves
    <3> QED BY <2>12, <3>1, <3>2
  <2>14. t.rring = e.rring \o [j \in 1 .. n |-> h + j]
    BY <1>6, <2>8
  <2> QED BY <1>6, <2>11, <2>12, <2>13, <2>14 DEF t, f, q
<1> QED BY <1>9, <1>10

(* Receive: one node takes a frame. *)
LEMMA ReceiveKeeps ==
  ASSUME IInv, NEW n \in Node, Receive(n)
  PROVE  OneEpoch' /\ \A m \in Node : Agree(m)'
<1> DEFINE p == Peer(n)
           e == ll[n]
           r == ll[p]
           b == Gone(n)
           c == Gone(p)
           g == Got(p)
           h == Got(n)
           qn == air[n]
           qp == air[p]
           t == OnRx(e, Head(qn))
           q == Tail(qn)
<1>1. /\ e \in Endpoint /\ Fits(e) /\ qn \in Seq(AirFrame) /\ h \in Nat /\ b \in Nat
      /\ p \in Node /\ p # n /\ Peer(p) = n /\ e.myEpoch = 1 /\ e.peerEpoch \in {0, 1}
      /\ \A i \in 1 .. Len(qn) : qn[i].epoch = 1
      /\ out[n] \in Seq(Chunks) /\ fed[n] \in Nat
      /\ fed[n] = b + Len(e.win) + Len(e.sring)
      /\ Len(e.win) \in Nat /\ Len(e.sring) \in Nat
  BY Unfold
<1>2. /\ r \in Endpoint /\ Fits(r) /\ qp \in Seq(AirFrame) /\ g \in Nat /\ c \in Nat
      /\ r.myEpoch = 1 /\ r.peerEpoch \in {0, 1}
      /\ \A i \in 1 .. Len(qp) : qp[i].epoch = 1
  BY <1>1, Unfold
<1>3. Node = {n, p}
  BY <1>1, PeerIs DEF Node
<1>4. /\ Agreed(e, b, r, g, qp, qn) /\ out[p] \o r.rring = UpTo(g)
      /\ Agreed(r, c, e, h, qn, qp) /\ out[n] \o e.rring = UpTo(h)
  <2>1. Agree(n) /\ Agree(p)
    BY <1>1 DEF IInv
  <2> QED BY <1>1, <2>1 DEF Agree
<1>5. /\ ll'[n] = t /\ ll'[p] = r /\ out' = out /\ fed' = fed /\ air'[n] = q /\ air'[p] = qp
      /\ qn # <<>>
  <2>1. ll \in [Node -> Endpoint] /\ air \in [Node -> Seq(AirFrame)]
    BY DEF IInv, TypeOK
  <2> QED BY <1>1, <2>1 DEF Receive
<1> HIDE DEF p, e, r, b, c, g, h
<1>6. /\ Head(qn) = qn[1] /\ 1 \in 1 .. Len(qn)
      /\ Len(q) \in Nat /\ \A i \in 1 .. Len(q) : i + 1 \in 1 .. Len(qn) /\ q[i] = qn[i + 1]
  BY <1>1, <1>5, QueueTail
<1>7. /\ t.myEpoch = 1 /\ t.peerEpoch = 1 /\ t.sring = e.sring
      /\ \E m \in 0 .. Len(e.win) : /\ Len(t.win) = Len(e.win) - m
                                    /\ Agreed(t, b + m, r, g, qp, q)
      /\ \E k \in Nat : /\ t.rring = e.rring \o [j \in 1 .. k |-> h + j]
                        /\ Agreed(r, c, t, h + k, q, qp)
  <2>1. Head(qn).epoch = 1
    BY <1>1, <1>6
  <2> HIDE DEF qn, qp
  <2>2. /\ e \in Endpoint /\ Fits(e) /\ e.myEpoch = 1 /\ e.peerEpoch \in {0, 1}
        /\ r \in Endpoint /\ Fits(r) /\ b \in Nat /\ g \in Nat /\ c \in Nat /\ h \in Nat
        /\ qn \in Seq(AirFrame) /\ qp \in Seq(AirFrame) /\ qn # <<>> /\ Head(qn).epoch = 1
        /\ Agreed(e, b, r, g, qp, qn) /\ Agreed(r, c, e, h, qn, qp)
    BY <1>1, <1>2, <1>4, <1>5, <2>1
  <2> QED BY ONLY <2>2, OnRxIs
<1>8. PICK m \in 0 .. Len(e.win) : /\ Len(t.win) = Len(e.win) - m
                                   /\ Agreed(t, b + m, r, g, qp, q)
  BY <1>7
<1>9. PICK k \in Nat : /\ t.rring = e.rring \o [j \in 1 .. k |-> h + j]
                       /\ Agreed(r, c, t, h + k, q, qp)
  BY <1>7
<1> HIDE DEF t, q, qn, qp
<1>10. OneEpoch'
  <2>1. \A i \in 1 .. Len(q) : q[i].epoch = 1
    BY <1>1, <1>6
  <2> QED BY <1>2, <1>3, <1>5, <1>7, <2>1 DEF OneEpoch, qp
<1>11. out[n] \o t.rring = UpTo(h + k) /\ Len(out[n]) + Len(t.rring) = h + k
  <2>1. e.rring \in Seq(Chunks)
    BY <1>1 DEF Endpoint
  <2> DEFINE o == out[n]
             rr == e.rring
             tr == t.rring
  <2>2. /\ o \in Seq(Chunks) /\ rr \in Seq(Chunks) /\ h \in Nat /\ k \in Nat /\ o \o rr = UpTo(h)
    BY <1>1, <1>4, <2>1
  <2>3. tr = rr \o [j \in 1 .. k |-> h + j]
    BY <1>9
  <2> HIDE DEF o, rr, tr
  <2>4. o \o tr = UpTo(h + k) /\ Len(o) + Len(tr) = h + k
    BY ONLY <2>2, <2>3, StreamGrows, ZenonT(30)
  <2> QED BY <2>4 DEF o, tr
<1>12. Got(n)' = h + k /\ Got(p)' = g
  BY <1>5, <1>11 DEF Got, g, r, p
<1>13. Gone(n)' = b + m /\ Gone(p)' = c
  <2>1. Gone(p)' = c
    BY <1>5 DEF Gone, Numbered, c, r
  <2> DEFINE x == fed[n]
             l == Len(e.win)
             z == Len(e.sring)
  <2>2. Gone(n)' = x - z - (l - m)
    BY <1>5, <1>7, <1>8 DEF Gone, Numbered
  <2>3. x = b + l + z /\ l \in Nat /\ z \in Nat /\ b \in Nat /\ m \in 0 .. l
    BY <1>1
  <2> HIDE DEF x, l, z
  <2>4. x - z - (l - m) = b + m /\ b + m \in Nat
    BY <2>3
  <2> QED BY <2>1, <2>2, <2>4
<1>14. b + m \in Nat
  BY <1>1, <1>8
<1>15. Agree(n)'
  <2>1. Peer(n) = p
    BY DEF p
  <2>2. out'[p] \o ll'[p].rring = UpTo(g)
    BY <1>4, <1>5
  <2> QED BY <1>5, <1>8, <1>12, <1>13, <1>14, <2>1, <2>2 DEF Agree
<1>16. Agree(p)'
  <2>1. out'[n] \o ll'[n].rring = UpTo(h + k)
    BY <1>5, <1>11
  <2> QED BY <1>1, <1>2, <1>5, <1>9, <1>12, <1>13, <2>1 DEF Agree
<1> QED BY <1>3, <1>10, <1>15, <1>16

(* PumpRead: one Read() moves chunks of the ring to the host. *)
LEMMA ReadKeepsAll ==
  ASSUME IInv, NEW n \in Node, PumpRead(n)
  PROVE  OneEpoch' /\ \A m \in Node : Agree(m)'
<1> DEFINE p == Peer(n)
           e == ll[n]
           r == ll[p]
           b == Gone(n)
           c == Gone(p)
           g == Got(p)
           h == Got(n)
           qn == air[n]
           qp == air[p]
<1>1. /\ e \in Endpoint /\ Fits(e) /\ qn \in Seq(AirFrame) /\ h \in Nat /\ b \in Nat
      /\ p \in Node /\ p # n /\ Peer(p) = n /\ e.myEpoch = 1 /\ e.peerEpoch \in {0, 1}
      /\ \A i \in 1 .. Len(qn) : qn[i].epoch = 1
      /\ out[n] \in Seq(Chunks) /\ Len(e.rring) \in Nat
  BY Unfold
<1>2. /\ r \in Endpoint /\ Fits(r) /\ qp \in Seq(AirFrame) /\ g \in Nat /\ c \in Nat
      /\ r.myEpoch = 1 /\ r.peerEpoch \in {0, 1}
      /\ \A i \in 1 .. Len(qp) : qp[i].epoch = 1
  BY <1>1, Unfold
<1>3. Node = {n, p}
  BY <1>1, PeerIs DEF Node
<1>4. /\ Agreed(e, b, r, g, qp, qn) /\ out[p] \o r.rring = UpTo(g)
      /\ Agreed(r, c, e, h, qn, qp) /\ out[n] \o e.rring = UpTo(h)
  <2>1. Agree(n) /\ Agree(p)
    BY <1>1 DEF IInv
  <2> QED BY <1>1, <2>1 DEF Agree
<1>5. PICK j \in 1 .. Len(e.rring) :
        /\ out' = [out EXCEPT ![n] = @ \o SubSeq(e.rring, 1, j)]
        /\ ll' = [ll EXCEPT ![n] = Read(e, j)]
  BY DEF PumpRead
<1> DEFINE t == Read(e, j)
           o == out[n] \o SubSeq(e.rring, 1, j)
           left == SubSeq(e.rring, j + 1, Len(e.rring))
<1>6. /\ ll'[n] = t /\ ll'[p] = r /\ out'[n] = o /\ out'[p] = out[p] /\ fed' = fed /\ air' = air
  <2>1. ll \in [Node -> Endpoint] /\ out \in [Node -> Seq(Chunks)]
    BY DEF IInv, TypeOK
  <2> QED BY <1>1, <1>5, <2>1 DEF PumpRead
<1> HIDE DEF p, e, r, b, c, g, h
<1>7. j \in 0 .. Len(e.rring) /\ e.rring \in Seq(Chunks) /\ HoldsFrom(e, h)
  BY <1>1, <1>4 DEF Endpoint, Agreed
<1>8. /\ t \in Endpoint /\ SendHalf(t) = SendHalf(e) /\ Epochs(t) = Epochs(e)
  BY <1>1, <1>7, ReadType, ReadKeeps
<1>9. PICK k \in Nat :
        /\ t.rring = left \o [i \in 1 .. k |-> h + i]
        /\ HoldsFrom(t, h + k)
        /\ Buffered(t) = {x \in Buffered(e) : x > h + k}
        /\ \A i \in 1 .. k : h + i \in Buffered(e)
  BY <1>1, <1>7, ReadIs
<1>10. o \in Seq(Chunks) /\ left \in Seq(Chunks) /\ o \o left = UpTo(h)
  BY <1>1, <1>4, <1>7, StreamReads
<1> HIDE DEF t, o, left
<1>11. /\ t.win = e.win /\ t.sring = e.sring
       /\ t.myEpoch = 1 /\ t.peerEpoch \in {0, 1}
  BY <1>1, <1>8 DEF SendHalf, Epochs
<1>12. Agreed(r, c, t, h + k, qn, qp)
  <2>1. /\ Buffered(t) = {x \in Buffered(e) \union {} : x > h + k}
        /\ \A i \in 1 .. k : h + i \in Buffered(e) \union {}
    BY <1>9
  <2>2. /\ {} \in SUBSET Nat /\ Len(r.win) <= MAXWIN
    BY <1>2 DEF Fits
  <2> HIDE DEF qn, qp
  <2> QED BY <1>1, <1>2, <1>4, <1>8, <1>9, <2>1, <2>2, ReceiverMoves
<1>13. Agreed(t, b, r, g, qp, qn)
  BY <1>4, <1>8, AgreedHalves
<1>14. o \o t.rring = UpTo(h + k) /\ Len(o) + Len(t.rring) = h + k
  <2> DEFINE tr == t.rring
  <2>1. /\ o \in Seq(Chunks) /\ left \in Seq(Chunks) /\ h \in Nat /\ k \in Nat
        /\ o \o left = UpTo(h)
    BY <1>1, <1>9, <1>10
  <2>2. tr = left \o [i \in 1 .. k |-> h + i]
    BY <1>9
  <2> HIDE DEF tr
  <2>3. o \o tr = UpTo(h + k) /\ Len(o) + Len(tr) = h + k
    BY ONLY <2>1, <2>2, StreamGrows, ZenonT(30)
  <2> QED BY <2>3 DEF tr
<1>15. Got(n)' = h + k /\ Got(p)' = g
  BY <1>6, <1>14 DEF Got, g, r
<1>16. Gone(n)' = b /\ Gone(p)' = c
  BY <1>6, <1>11 DEF Gone, Numbered, b, c, r, e
<1>17. OneEpoch'
  BY <1>1, <1>2, <1>3, <1>6, <1>11 DEF OneEpoch
<1>18. Agree(n)'
  <2>1. Peer(n) = p
    BY DEF p
  <2>2. out'[p] \o ll'[p].rring = UpTo(g)
    BY <1>4, <1>6
  <2> QED BY <1>1, <1>6, <1>13, <1>15, <1>16, <2>1, <2>2 DEF Agree
<1>19. Agree(p)'
  <2>1. out'[n] \o ll'[n].rring = UpTo(h + k)
    BY <1>6, <1>14
  <2> QED BY <1>1, <1>2, <1>6, <1>12, <1>15, <1>16, <2>1 DEF Agree
<1> QED BY <1>3, <1>17, <1>18, <1>19

(* Every step keeps the inductive invariant. *)
LEMMA StepAgrees ==
  ASSUME IInv, NEW n \in Node, LoopStep(n) \/ HostWrite(n) \/ Retune(n)
  PROVE  IInv'
<1> DEFINE e == ll[n]
           b == Gone(n)
           x == Fill(e)
           ack == BareFrame(x)
<1>1. TypeOK /\ ll \in [Node -> Endpoint] /\ fed \in [Node -> Nat]
  BY DEF IInv, TypeOK
<1>2. TypeOK'
  <2>1. TypeOK /\ (LoopStep(n) \/ HostWrite(n) \/ Retune(n))
    BY <1>1
  <2> QED BY ONLY <2>1, StepType
<1>3. /\ e \in Endpoint /\ Fits(e) /\ b \in Nat /\ fed[n] \in Nat
      /\ Len(e.win) \in Nat /\ Len(e.sring) \in Nat
      /\ fed[n] = b + Len(e.win) + Len(e.sring)
      /\ e.myEpoch = 1 /\ e.peerEpoch \in {0, 1} /\ Peer(n) \in Node /\ Peer(n) # n
  BY Unfold
<1>4. SendsFrom(e, b)
  BY DEF IInv, Agree, Agreed
<1> HIDE DEF e, b
<1>5. /\ x \in Endpoint /\ Fits(x) /\ SendsFrom(x, b) /\ Continues(x, e)
      /\ RecvHalf(x) = RecvHalf(e) /\ Epochs(x) = Epochs(e) /\ x.myEpoch = 1
      /\ Len(x.win) + Len(x.sring) = Len(e.win) + Len(e.sring)
      /\ Len(x.win) \in Nat /\ Len(x.sring) \in Nat
      /\ fed[n] = b + Len(x.win) + Len(x.sring)
  <2>1. /\ x \in Endpoint /\ Fits(x) /\ RecvHalf(x) = RecvHalf(e) /\ Epochs(x) = Epochs(e)
    BY <1>3, FillType, FillKeeps
  <2>2. /\ SendsFrom(x, b) /\ Continues(x, e)
        /\ Len(x.win) + Len(x.sring) = Len(e.win) + Len(e.sring)
    BY <1>3, <1>4, FillIs DEF Continues
  <2> HIDE DEF x
  <2>3. Len(x.win) \in Nat /\ Len(x.sring) \in Nat
    <3>1. x.sring \in Seq(Chunks)
      BY <2>1 DEF Endpoint
    <3> QED BY <2>1, <3>1, WinType
  <2>4. x.myEpoch = 1
    BY <1>3, <2>1 DEF Epochs
  <2> DEFINE u == Len(x.win)
             v == Len(x.sring)
             w == Len(e.win)
             y == Len(e.sring)
             z == fed[n]
  <2>5. /\ u \in Nat /\ v \in Nat /\ w \in Nat /\ y \in Nat /\ z = b + w + y /\ u + v = w + y
    BY <1>3, <2>2, <2>3
  <2> HIDE DEF u, v, w, y, z
  <2>6. z = b + u + v
    BY <1>3, <2>5
  <2> QED BY <2>1, <2>2, <2>3, <2>4, <2>6 DEF u, v, z
<1> HIDE DEF x
<1>6. /\ ack \in AirFrame /\ ack.epoch = 1 /\ ~ack.data
      /\ ack.ack = x.rxNext /\ ack.sack = Sack(x)
  BY <1>5, BareFrameType, BareFrameIs
<1> HIDE DEF ack
<1>7. CASE Receive(n)
  BY <1>2, <1>7, ReceiveKeeps DEF IInv
<1>8. CASE PumpRead(n)
  BY <1>2, <1>8, ReadKeepsAll DEF IInv
<1>9. CASE UNCHANGED <<ll, air, fed, out>>
  <2>1. OneEpoch /\ \A m \in Node : Agree(m)
    BY DEF IInv
  <2>2. OneEpoch' /\ \A m \in Node : Agree(m)'
    BY <1>9, <2>1 DEF OneEpoch, Agree, Got, Gone, Numbered
  <2> QED BY <1>2, <2>2 DEF IInv
<1>10. ASSUME NEW t \in Endpoint, Fits(t), NEW f \in AirFrame, Sends(n, t, f),
              SendsFrom(t, b), Continues(t, e), RecvHalf(t) = RecvHalf(e), Epochs(t) = Epochs(e),
              f.epoch = 1, f.ack = t.rxNext, f.sack = Sack(t),
              f.data => \E i \in 1 .. Len(t.win) : f.pay = t.win[i].pay /\ f.seq = t.win[i].seq
       PROVE  IInv'
  <2>1. OneEpoch' /\ \A m \in Node : Agree(m)'
    BY <1>10, SendKeeps DEF e, b
  <2> QED BY <1>2, <2>1 DEF IInv
<1>11. ASSUME NEW t \in Endpoint, Fits(t), ll' = [ll EXCEPT ![n] = t], air' = air, out' = out,
              fed'[n] = b + Len(t.win) + Len(t.sring), fed'[Peer(n)] = fed[Peer(n)],
              SendsFrom(t, b), Continues(t, e), RecvHalf(t) = RecvHalf(e), Epochs(t) = Epochs(e)
       PROVE  IInv'
  <2> DEFINE f == BareFrame(t)
  <2>1. /\ f \in AirFrame /\ f.epoch = 1 /\ ~f.data /\ f.ack = t.rxNext /\ f.sack = Sack(t)
    <3>1. t.myEpoch = 1
      BY <1>3, <1>11 DEF Epochs
    <3> QED BY <3>1, BareFrameType, BareFrameIs
  <2> HIDE DEF f
  <2>2. Sends(n, t, f)
    BY <1>11 DEF Sends, b
  <2> QED BY <1>10, <1>11, <2>1, <2>2
<1>12. CASE HostWrite(n)
  <2> DEFINE t == Write(e, fed[n] + 1)
  <2>1. ll' = [ll EXCEPT ![n] = t] /\ CanWrite(e) /\ fed' = [fed EXCEPT ![n] = fed[n] + 1]
        /\ air' = air /\ out' = out
    BY <1>12 DEF HostWrite, e
  <2> DEFINE x0 == fed[n]
             u == Len(e.win)
             v == Len(e.sring)
  <2>2. x0 + 1 \in Nat /\ x0 + 1 = b + u + v + 1 /\ u \in Nat /\ v \in Nat
    <3>1. x0 \in Nat /\ u \in Nat /\ v \in Nat /\ b \in Nat /\ x0 = b + u + v
      BY <1>3
    <3> HIDE DEF x0, u, v
    <3> QED BY <3>1
  <2>3. t \in Endpoint /\ Fits(t)
    BY <1>3, <2>1, <2>2, WriteType DEF Chunks
  <2>4. /\ SendsFrom(t, b) /\ t.win = e.win /\ Len(t.sring) = Len(e.sring) + 1
        /\ RecvHalf(t) = RecvHalf(e) /\ Epochs(t) = Epochs(e)
    BY <1>3, <1>4, <2>2, WriteIs
  <2> HIDE DEF t
  <2>5. fed'[n] = b + Len(t.win) + Len(t.sring) /\ fed'[Peer(n)] = fed[Peer(n)]
    <3>1. fed'[n] = x0 + 1 /\ fed'[Peer(n)] = fed[Peer(n)]
      BY <1>1, <1>3, <2>1
    <3>2. Len(t.win) = u /\ Len(t.sring) = v + 1
      BY <2>4
    <3> HIDE DEF x0, u, v
    <3>3. b + u + (v + 1) = b + u + v + 1
      BY <1>3, <2>2
    <3> QED BY <2>2, <3>1, <3>2, <3>3
  <2>6. Continues(t, e)
    BY <1>3, <2>4 DEF Continues
  <2> QED BY <1>11, <2>1, <2>3, <2>4, <2>5, <2>6
<1>13. CASE Retune(n)
  <2>1. PICK w \in Windows : ll' = [ll EXCEPT ![n] = SetTiming(e, w)]
    BY <1>13 DEF Retune, e
  <2> DEFINE t == SetTiming(e, w)
  <2>2. t \in Endpoint /\ Fits(t)
    BY <1>3, SetTimingType, ArqConstants DEF ArqConstants
  <2>3. SendHalf(t) = SendHalf(e) /\ RecvHalf(t) = RecvHalf(e) /\ Epochs(t) = Epochs(e)
    BY <1>3, SetTimingIs
  <2>4. ll' = [ll EXCEPT ![n] = t] /\ air' = air /\ fed' = fed /\ out' = out
    BY <1>13, <2>1 DEF Retune
  <2> HIDE DEF t
  <2>5. /\ t.win = e.win /\ t.sring = e.sring /\ t.base = e.base /\ t.next = e.next
    BY <2>3 DEF SendHalf
  <2>6. SendsFrom(t, b)
    BY <1>4, <2>5 DEF SendsFrom
  <2>7. Continues(t, e)
    BY <1>3, <2>5 DEF Continues
  <2>8. fed'[n] = b + Len(t.win) + Len(t.sring)
    BY <1>3, <2>4, <2>5
  <2> QED BY <1>11, <2>2, <2>3, <2>4, <2>6, <2>7, <2>8
<1>14. ASSUME ll' = [ll EXCEPT ![n] = BeginTurn(e)], UNCHANGED <<air, fed, out>>
       PROVE  IInv'
  <2> DEFINE t == BeginTurn(e)
  <2>1. /\ t \in Endpoint /\ Fits(t) /\ SendsFrom(t, b) /\ Continues(t, e)
        /\ Len(t.win) = Len(e.win) /\ t.sring = e.sring
        /\ RecvHalf(t) = RecvHalf(e) /\ Epochs(t) = Epochs(e)
    BY <1>3, <1>4, BeginTurnType, BeginTurnIs
  <2> HIDE DEF t
  <2>2. ll' = [ll EXCEPT ![n] = t]
    BY <1>14 DEF t
  <2> QED BY <1>3, <1>11, <1>14, <2>1, <2>2
<1>15. CASE StartTurn(n)
  BY <1>14, <1>15 DEF StartTurn, e
<1>16. ASSUME NEW f, Transmit(n, f)
       PROVE  air' = air \/ air' = [air EXCEPT ![Peer(n)] = Append(@, f)]
  BY <1>16 DEF Transmit
<1>17. CASE SendSome(n)
  <2>1. PICK i \in 1 .. Len(x.win) : SendData(n, i)
    BY <1>17 DEF SendSome, x, e
  <2> DEFINE t == Picked(x, i)
             f == DataFrame(x, i)
  <2>2. /\ ll' = [ll EXCEPT ![n] = t] /\ Transmit(n, f) /\ UNCHANGED <<phase, fed, out>>
    BY <2>1 DEF SendData, x, e
  <2>3. /\ t \in Endpoint /\ Fits(t) /\ SendsFrom(t, b) /\ Continues(t, x)
        /\ Len(t.win) = Len(x.win) /\ t.sring = x.sring
        /\ RecvHalf(t) = RecvHalf(x) /\ Epochs(t) = Epochs(x)
    BY <1>5, PickedType, PickedIs
  <2>4. /\ f \in AirFrame /\ f.epoch = 1 /\ f.pay = x.win[i].pay /\ f.seq = x.win[i].seq
        /\ f.ack = x.rxNext /\ f.sack = Sack(x)
    BY <1>5, DataFrameType, DataFrameIs
  <2> HIDE DEF t, f
  <2>5. t.rxNext = x.rxNext /\ Sack(t) = Sack(x)
    BY <2>3, SackHalf
  <2>6. f.pay = t.win[i].pay /\ f.seq = t.win[i].seq /\ i \in 1 .. Len(t.win)
    BY <1>5, <2>3, <2>4 DEF SendsFrom
  <2>7. Continues(t, e)
    BY <1>3, <1>5, <2>3 DEF Continues
  <2>8. Sends(n, t, f)
    BY <1>5, <1>16, <2>2, <2>3 DEF Sends, b
  <2> QED BY <1>5, <1>10, <2>3, <2>4, <2>5, <2>6, <2>7, <2>8
<1>18. CASE SendAck(n)
  <2> DEFINE t == AckSent(x)
  <2>1. ll' = [ll EXCEPT ![n] = t] /\ Transmit(n, ack) /\ UNCHANGED <<fed, out>>
    BY <1>18 DEF SendAck, x, e, ack
  <2>2. /\ t \in Endpoint /\ Fits(t) /\ SendHalf(t) = SendHalf(x)
        /\ RecvHalf(t) = RecvHalf(x) /\ Epochs(t) = Epochs(x)
    BY <1>5, AckSentType, AckSentIs
  <2> HIDE DEF t
  <2>3. t.win = x.win /\ t.sring = x.sring /\ t.base = x.base /\ t.next = x.next
    BY <2>2 DEF SendHalf
  <2>4. SendsFrom(t, b) /\ Continues(t, e)
    BY <1>5, <2>3 DEF SendsFrom, Continues
  <2>5. t.rxNext = x.rxNext /\ Sack(t) = Sack(x)
    BY <2>2, SackHalf
  <2>6. Sends(n, t, ack)
    BY <1>5, <1>16, <2>1, <2>3 DEF Sends, b
  <2> QED BY <1>5, <1>6, <1>10, <2>2, <2>4, <2>5, <2>6
<1>19. CASE SendPoll(n)
  <2>1. ll' = [ll EXCEPT ![n] = x] /\ Transmit(n, ack) /\ UNCHANGED <<fed, out>>
    BY <1>19 DEF SendPoll, x, e, ack
  <2>2. Sends(n, x, ack)
    BY <1>5, <1>16, <2>1 DEF Sends, b
  <2> QED BY <1>5, <1>6, <1>10, <2>2
<1>20. CASE EndBurst(n)
  <2>1. ll' = [ll EXCEPT ![n] = x] /\ UNCHANGED <<air, fed, out>>
    BY <1>20 DEF EndBurst, x, e
  <2> QED BY <1>5, <1>11, <2>1
<1>21. CASE PumpDone(n)
  <2>1. CASE n = Responder
    BY <1>14, <1>21, <2>1 DEF PumpDone, e
  <2>2. CASE n # Responder
    BY <1>9, <1>21, <2>2 DEF PumpDone
  <2> QED BY <2>1, <2>2
<1>22. CASE Listen(n) \/ Silence(n)
  BY <1>9, <1>22 DEF Listen, Silence
<1> QED BY <1>7, <1>8, <1>12, <1>13, <1>15, <1>17, <1>18, <1>19, <1>20, <1>21, <1>22
    DEF LoopStep

(* A chunk count: what a node has in order never exceeds what its peer's   *)
(* host has written.                                                       *)
LEMMA GotIsFed ==
  ASSUME IInv, NEW n \in Node
  PROVE  /\ Got(Peer(n)) <= fed[n] /\ Got(n) <= fed[Peer(n)]
<1>1. ASSUME NEW m \in Node
      PROVE  Got(Peer(m)) <= fed[m]
  <2> DEFINE g == Got(Peer(m))
             b == Gone(m)
             l == Len(ll[m].win)
             z == Len(ll[m].sring)
  <2>1. /\ b \in Nat /\ l \in Nat /\ z \in Nat /\ fed[m] = b + l + z
        /\ Peer(m) \in Node
    BY Unfold
  <2>2. g \in Nat
    BY <2>1, Unfold
  <2>3. g <= b + l
    BY DEF IInv, Agree, Agreed
  <2> HIDE DEF g, b, l, z
  <2>4. g <= b + l + z
    BY <2>1, <2>2, <2>3
  <2> QED BY <2>1, <2>4 DEF g
<1>2. Peer(n) \in Node /\ Peer(Peer(n)) = n
  BY Unfold
<1>3. Got(Peer(n)) <= fed[n]
  BY <1>1
<1>4. Got(n) <= fed[Peer(n)]
  BY <1>1, <1>2
<1> QED BY <1>3, <1>4

(* What each of the two safety properties needs of the inductive           *)
(* invariant.                                                              *)
LEMMA InOrderHolds == IInv => InOrder
<1> SUFFICES ASSUME IInv, NEW n \in Node
             PROVE  LET got == out[n] \o ll[n].rring
                    IN got = UpTo(Len(got)) /\ Len(got) <= fed[Peer(n)]
  BY DEF InOrder
<1> DEFINE got == out[n] \o ll[n].rring
<1>1. got = UpTo(Got(n))
  <2>1. Peer(n) \in Node /\ Peer(Peer(n)) = n
    BY Unfold
  <2>2. Agree(Peer(n))
    BY <2>1 DEF IInv
  <2> QED BY <2>1, <2>2 DEF Agree
<1>2. Got(n) \in Nat /\ Got(n) <= fed[Peer(n)]
  BY Unfold, GotIsFed
<1>3. Len(UpTo(Got(n))) = Got(n)
  BY <1>2 DEF UpTo
<1> QED BY <1>1, <1>2, <1>3

(* What is acked is held: read off both directions of Agree.               *)
LEMMA AckedIsHeldHolds == IInv => AckedIsHeld
<1> SUFFICES ASSUME IInv, NEW n \in Node
             PROVE  /\ \A c \in 1 .. Gone(n) : Has(Peer(n), c)
                    /\ \A i \in 1 .. Len(ll[n].win) :
                         ll[n].win[i].acked => Has(Peer(n), ll[n].win[i].pay)
  BY DEF AckedIsHeld
<1>1. AckedHeld(ll[n], Gone(n), ll[Peer(n)], Got(Peer(n)))
  BY DEF IInv, Agree, Agreed
<1> QED BY <1>1 DEF AckedHeld, Has

(* The invariant is inductive.                                             *)
LEMMA NextAgrees == IInv /\ [Next]_vars => IInv'
<1>1. IInv /\ Next => IInv'
  <2> SUFFICES ASSUME IInv, NEW n \in Node, LoopStep(n) \/ HostWrite(n) \/ Retune(n)
               PROVE  IInv'
    BY DEF Next
  <2> QED BY ONLY IInv, n \in Node, LoopStep(n) \/ HostWrite(n) \/ Retune(n), StepAgrees
<1>2. IInv /\ UNCHANGED vars => IInv'
  BY SMTT(20) DEF IInv, TypeOK, OneEpoch, Agree, Got, Gone, Numbered, vars
<1> QED BY <1>1, <1>2

(* In every reachable state the two endpoints and the frames between them  *)
(* agree, in both directions, on which chunk every 8-bit sequence number   *)
(* stands for, no queued number is old enough to be taken for a later one, *)
(* and no ring or window holds more than it can.                           *)
THEOREM EndpointsAgree == Spec => []IInv
BY InitAgrees, NextAgrees, PTL DEF Spec

(* Whatever the radio loses, delays or lets collide, and however often a   *)
(* frame is sent again: each host is given a prefix of what the other      *)
(* wrote, in order, with nothing twice and nothing missing, for every      *)
(* window size, ring size and sequence width of LinkConstants.             *)
THEOREM StreamInOrder == Spec => []InOrder
BY EndpointsAgree, InOrderHolds, PTL

(* The sender lets go of a chunk, or stops repeating it, only when the     *)
(* receiver holds it: AckProcess never takes a stale cumulative ack or     *)
(* SACK bit, read modulo SEQMOD, for a later one.                          *)
THEOREM NothingAckedIsLost == Spec => []AckedIsHeld
BY EndpointsAgree, AckedIsHeldHolds, PTL

-----------------------------------------------------------------------------
(* The refinement. *)

(* A link that has carried Done chunks is a pipe that has.                 *)
LEMMA PipeInit == Init => FromInitiator!Init /\ FromResponder!Init
<1> SUFFICES ASSUME Init PROVE FromInitiator!Init /\ FromResponder!Init
  OBVIOUS
<1>1. Initiator # Responder /\ Done \in Nat
  BY ArqConstants DEF ArqConstants
<1>2. fed[Initiator] = Done /\ fed[Responder] = 0 /\ out[Responder] = UpTo(Done) /\ out[Initiator] = <<>>
  BY <1>1 DEF Init, Node
<1> QED BY <1>1, <1>2 DEF FromInitiator!Init, FromResponder!Init, UpTo

(* Only HostWrite and PumpRead touch what the pipe sees. *)
LEMMA PipeStutters ==
  ASSUME TypeOK, NEW n \in Node, LoopStep(n) \/ HostWrite(n) \/ Retune(n)
  PROVE  \/ UNCHANGED <<fed, out>>
         \/ fed' = [fed EXCEPT ![n] = @ + 1] /\ out' = out
         \/ PumpRead(n)
BY DEF LoopStep, HostWrite, Retune, StartTurn, SendSome, SendData, SendAck,
       SendPoll, EndBurst, Listen, Receive, Silence, PumpDone, Transmit

(* What PumpRead passes on is the next chunks of the peer's stream. *)
LEMMA PumpDelivers ==
  ASSUME IInv, NEW n \in Node, PumpRead(n)
  PROVE  /\ fed' = fed
         /\ \E o \in Seq(Chunks) : out' = [out EXCEPT ![n] = o]
         /\ \E k \in 1 .. fed[Peer(n)] - Len(out[n]) :
              out'[n] = out[n] \o [i \in 1 .. k |-> Len(out[n]) + i]
<1> DEFINE o == out[n]
           q == ll[n].rring
           l == Len(o)
           z == Len(q)
           d == fed[Peer(n)]
<1>1. PICK k \in 1 .. z : out' = [out EXCEPT ![n] = @ \o SubSeq(q, 1, k)]
  BY DEF PumpRead
<1>2. /\ o \in Seq(Chunks) /\ q \in Seq(Chunks) /\ l \in Nat /\ z \in Nat /\ d \in Nat
      /\ out \in [Node -> Seq(Chunks)]
  <2>1. ll[n] \in Endpoint /\ Peer(n) \in Node
    BY Unfold
  <2>2. fed \in [Node -> Nat] /\ out \in [Node -> Seq(Chunks)]
    BY DEF IInv, TypeOK
  <2> QED BY <2>1, <2>2 DEF Endpoint
<1>3. l + z <= d /\ o \o q = UpTo(l + z)
  <2>1. Peer(n) \in Node /\ Peer(Peer(n)) = n
    BY Unfold
  <2>2. Agree(Peer(n)) /\ Got(n) <= d
    BY <2>1, GotIsFed DEF IInv
  <2> QED BY <2>1, <2>2 DEF Agree, Got
<1> DEFINE a == SubSeq(q, 1, k)
           t == [i \in 1 .. k |-> l + i]
<1>4. o \o a \in Seq(Chunks)
  <2>1. o \in Seq(Chunks) /\ q \in Seq(Chunks) /\ k \in 0 .. Len(q)
    BY <1>1, <1>2
  <2> QED BY ONLY <2>1, StreamReads
<1>5. \A i \in 1 .. z : q[i] = l + i
  <2> SUFFICES ASSUME NEW i \in 1 .. z PROVE q[i] = l + i
    OBVIOUS
  <2>1. (o \o q)[l + i] = q[i]
    BY <1>2, ConcatIs
  <2>2. UpTo(l + z)[l + i] = l + i
    <3> HIDE DEF l, z
    <3>1. l + i \in 1 .. l + z
      BY <1>2
    <3> QED BY <3>1 DEF UpTo
  <2> QED BY <1>3, <2>1, <2>2
<1>6. a = t
  <2>1. a \in Seq(Chunks) /\ Len(a) = k /\ \A i \in 1 .. k : a[i] = q[i]
    <3>1. \A i \in 1 .. k : q[i] \in Chunks
      BY <1>1, <1>2
    <3> QED BY <1>1, <1>2, <3>1, SubSeqProperties
  <2>2. \A i \in 1 .. k : a[i] = l + i
    BY <1>1, <1>2, <1>5, <2>1
  <2>3. t \in Seq(Nat) /\ Len(t) = k /\ \A i \in 1 .. k : t[i] = l + i
    <3> HIDE DEF l
    <3> QED BY <1>1, <1>2
  <2> HIDE DEF a, t
  <2>4. a \in Seq(Nat)
    BY <2>1 DEF Chunks
  <2> QED BY <2>1, <2>2, <2>3, <2>4, SeqEqual
<1>7. out'[n] = o \o t
  <2> HIDE DEF t
  <2> QED BY <1>1, <1>2, <1>6
<1>8. k \in 1 .. d - l
  <2> HIDE DEF d, l, z
  <2> QED BY <1>1, <1>2, <1>3
<1>9. out' = [out EXCEPT ![n] = o \o a]
  BY <1>1
<1> QED BY <1>4, <1>7, <1>8, <1>9 DEF PumpRead

(* A step of the link is a step of each pipe, or none. *)
LEMMA StepPipes ==
  ASSUME IInv, NEW n \in Node, LoopStep(n) \/ HostWrite(n) \/ Retune(n)
  PROVE  /\ [FromInitiator!Next]_<<fed[Initiator], out[Responder]>>
         /\ [FromResponder!Next]_<<fed[Responder], out[Initiator]>>
<1>1. Initiator # Responder /\ Node = {Initiator, Responder}
  BY ArqConstants DEF ArqConstants, Node
<1>2. fed \in [Node -> Nat] /\ out \in [Node -> Seq(Chunks)] /\ TypeOK
  BY DEF IInv, TypeOK
<1>3. CASE UNCHANGED <<fed, out>>
  BY <1>3
<1>4. CASE fed' = [fed EXCEPT ![n] = @ + 1] /\ out' = out
  <2>1. /\ (n = Initiator /\ fed'[Initiator] = fed[Initiator] + 1 /\ fed'[Responder] = fed[Responder])
           \/ (n = Responder /\ fed'[Responder] = fed[Responder] + 1 /\ fed'[Initiator] = fed[Initiator])
    BY <1>1, <1>2, <1>4
  <2> QED BY <1>4, <2>1 DEF FromInitiator!Next, FromInitiator!Write, FromResponder!Next, FromResponder!Write
<1>5. CASE PumpRead(n)
  <2>1. /\ fed' = fed
        /\ \E o \in Seq(Chunks) : out' = [out EXCEPT ![n] = o]
        /\ \E k \in 1 .. fed[Peer(n)] - Len(out[n]) :
             out'[n] = out[n] \o [i \in 1 .. k |-> Len(out[n]) + i]
    BY <1>5, PumpDelivers
  <2>2. CASE n = Initiator
    <3>1. Peer(n) = Responder
      BY <2>2 DEF Peer
    <3>2. out'[Responder] = out[Responder]
      BY <1>1, <1>2, <2>1, <2>2
    <3>3. FromResponder!Deliver
      BY <2>1, <2>2, <3>1 DEF FromResponder!Deliver
    <3> QED BY <2>1, <3>2, <3>3 DEF FromResponder!Next
  <2>3. CASE n = Responder
    <3>1. Peer(n) = Initiator
      BY <1>1, <2>3 DEF Peer
    <3>2. out'[Initiator] = out[Initiator]
      BY <1>1, <1>2, <2>1, <2>3
    <3>3. FromInitiator!Deliver
      BY <2>1, <2>3, <3>1 DEF FromInitiator!Deliver
    <3> QED BY <2>1, <3>2, <3>3 DEF FromInitiator!Next
  <2> QED BY <1>1, <2>2, <2>3
<1> QED BY <1>2, <1>3, <1>4, <1>5, PipeStutters

(* The safety half of ImplementsPipes: whatever happens underneath, all    *)
(* that the two hosts see of the link is one reliable ordered pipe in each *)
(* direction (that everything written is delivered in the end stays with   *)
(* TLC).                                                                   *)
THEOREM ImplementsPipesSafely == Spec => FromInitiator!Spec /\ FromResponder!Spec
<1>1. Init => FromInitiator!Init /\ FromResponder!Init
  BY PipeInit
<1>2. IInv /\ [Next]_vars => /\ [FromInitiator!Next]_<<fed[Initiator], out[Responder]>>
                             /\ [FromResponder!Next]_<<fed[Responder], out[Initiator]>>
  <2>1. IInv /\ Next => /\ [FromInitiator!Next]_<<fed[Initiator], out[Responder]>>
                        /\ [FromResponder!Next]_<<fed[Responder], out[Initiator]>>
    BY StepPipes DEF Next
  <2>2. UNCHANGED vars => UNCHANGED <<fed[Initiator], out[Responder], fed[Responder], out[Initiator]>>
    BY DEF vars
  <2> QED BY <2>1, <2>2
<1> QED BY <1>1, <1>2, EndpointsAgree, PTL DEF Spec, FromInitiator!Spec, FromResponder!Spec
=============================================================================
