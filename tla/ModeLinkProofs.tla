--------------------------- MODULE ModeLinkProofs ---------------------------
(***************************************************************************)
(* For every table of modes, every size of the rings and any number of     *)
(* losses and requests: the nibbles name modes of the table, and two ends  *)
(* that are at rest are on the same mode, where nothing but losses         *)
(* disturbs them and no recovery moves one of them on its own.             *)
(***************************************************************************)
EXTENDS ModeLink, TLAPS

USE ModesAssumption, NodeAssumption, TableAssumption
-----------------------------------------------------------------------------
(* The nibble.                                                             *)

(* What CtrlEncode makes of a mode, the three decoders take apart again.   *)
LEMMA RoundTrip ==
  ASSUME NEW m \in Modes, NEW ack \in BOOLEAN
  PROVE  LET c == CtrlEncode(m, ack)
         IN  /\ c \in Stamps /\ c # 0
             /\ CtrlPresent(c) /\ CtrlModeIdx(c) = m /\ (CtrlIsAck(c) <=> ack)
  <1>1. m \in 0 .. 6
    OBVIOUS
  <1> DEFINE c == CtrlEncode(m, ack)
  <1>2. c \in Stamps
    BY DEF Stamps
  <1>3. c = 2 * (m + 1) + (IF ack THEN 1 ELSE 0)
    <2>1. (m + 1) % 8 = m + 1
      BY ONLY <1>1
    <2> QED
      BY <1>1, <2>1 DEF CtrlEncode
  <1> HIDE DEF c
  <1>4. c \div 2 = m + 1 /\ m + 1 # 0 /\ c # 0 /\ (c % 2 = 1 <=> ack)
    <2>1. (2 * (m + 1) + 1) \div 2 = m + 1 /\ (2 * (m + 1) + 1) % 2 = 1
      BY ONLY <1>1
    <2>2. (2 * (m + 1)) \div 2 = m + 1 /\ (2 * (m + 1)) % 2 = 0
      BY ONLY <1>1
    <2>3. CASE ack
      BY ONLY <1>1, <1>3, <2>1, <2>3
    <2>4. CASE ~ack
      <3>1. c = 2 * (m + 1)
        BY ONLY <1>1, <1>3, <2>4
      <3> QED
        BY ONLY <1>1, <2>2, <2>4, <3>1
    <2> QED
      BY <2>3, <2>4
  <1>5. CtrlPresent(c) /\ CtrlModeIdx(c) = m /\ (CtrlIsAck(c) <=> ack)
    <2>1. (m + 1) - 1 = m
      BY ONLY <1>1
    <2> QED
      BY ONLY <1>4, <2>1 DEF CtrlPresent, CtrlModeIdx, CtrlIsAck
  <1> QED
    BY <1>2, <1>4, <1>5 DEF c

(* The empty nibble, which is also what encodes no mode.                   *)
LEMMA EmptyNibble ==
  /\ 0 \in Stamps /\ ~CtrlPresent(0) /\ CtrlModeIdx(0) = None /\ ~CtrlIsAck(0)
  /\ \A ack \in BOOLEAN : CtrlEncode(None, ack) = 0
  <1>1. 0 \div 2 = 0 /\ 0 % 2 = 0
    OBVIOUS
  <1> QED
    BY <1>1 DEF Stamps, CtrlPresent, CtrlModeIdx, CtrlIsAck, CtrlEncode, None

(* A nibble of the table is empty, or names a mode.                        *)
LEMMA StampIs ==
  ASSUME NEW c \in Stamps
  PROVE  \/ c = 0
         \/ \E m \in Modes, ack \in BOOLEAN : c = CtrlEncode(m, ack)
  BY DEF Stamps

LEMMA NoneIsNoMode == None \notin Modes
  BY DEF None

(* The two ends.                                                           *)
LEMMA TwoEnds ==
  /\ Initiator \in Node /\ Responder \in Node /\ Initiator # Responder
  /\ Peer(Initiator) = Responder /\ Peer(Responder) = Initiator
  <1>1. Peer(Initiator) \in Node /\ Peer(Initiator) # Initiator
    <2>1. \E p \in Node : p # Initiator
      BY DEF Node
    <2> QED
      BY <2>1 DEF Peer
  <1>2. Peer(Responder) \in Node /\ Peer(Responder) # Responder
    <2>1. \E p \in Node : p # Responder
      BY DEF Node
    <2> QED
      BY <2>1 DEF Peer
  <1> QED
    BY <1>1, <1>2 DEF Node
-----------------------------------------------------------------------------
(* The engine's types.                                                     *)

LEMMA BeginType == ASSUME NEW m \in Modes PROVE Begin(m) \in Switches
  BY DEF Begin, Switches, None

LEMMA RequestType ==
  ASSUME NEW s \in Switches, NEW m \in Modes
  PROVE  Request(s, m) \in Switches
  BY DEF Request, Switches

LEMMA AbortType == ASSUME NEW s \in Switches PROVE Abort(s) \in Switches
  BY DEF Abort, Switches, None

LEMMA ServiceType == ASSUME NEW s \in Switches PROVE Service(s) \in Switches
  BY NoneIsNoMode DEF Service, Switches, None

LEMMA PollExpiredType == ASSUME NEW s \in Switches PROVE PollExpired(s) \in Switches
  BY DEF PollExpired, Switches

LEMMA AfterSendType == ASSUME NEW s \in Switches PROVE AfterSend(s) \in Switches
  BY DEF AfterSend, Switches, None

LEMMA TxCtrlType == ASSUME NEW s \in Switches PROVE TxCtrl(s) \in Stamps
  <1>1. CASE s.owe_ack # None
    <2>1. s.owe_ack \in Modes
      BY <1>1 DEF Switches
    <2> QED
      BY <1>1, <2>1, RoundTrip DEF TxCtrl
  <1>2. CASE s.owe_ack = None /\ s.target # None
    <2>1. s.target \in Modes
      BY <1>2 DEF Switches
    <2> QED
      BY <1>2, <2>1, RoundTrip DEF TxCtrl
  <1>3. CASE s.owe_ack = None /\ s.target = None
    BY <1>3, EmptyNibble DEF TxCtrl
  <1> QED
    BY <1>1, <1>2, <1>3

LEMMA AfterRecvType ==
  ASSUME NEW s \in Switches, NEW c \in Stamps, NEW i \in BOOLEAN
  PROVE  AfterRecv(s, c, i) \in Switches
  <1>1. CtrlPresent(c) => CtrlModeIdx(c) \in Modes
    BY StampIs, RoundTrip, EmptyNibble
  <1> DEFINE m == CtrlModeIdx(c)
             kept == [s EXCEPT !.probation = FALSE]
  <1>2. kept \in Switches
    BY DEF Switches
  <1>3. CtrlPresent(c) => [kept EXCEPT !.apply = m, !.target = None] \in Switches
    BY <1>1, <1>2 DEF Switches
  <1>4. CtrlPresent(c) => [kept EXCEPT !.owe_ack = m, !.armed = m] \in Switches
    BY <1>1, <1>2 DEF Switches
  <1> HIDE DEF m
  <1> QED
    BY <1>2, <1>3, <1>4 DEF AfterRecv, m
-----------------------------------------------------------------------------
(* Rings.                                                                  *)

LEMMA TailIs ==
  ASSUME NEW S, NEW q \in Seq(S), q # <<>>
  PROVE  /\ Head(q) \in S /\ Head(q) = q[1] /\ 1 \in 1 .. Len(q)
         /\ Tail(q) \in Seq(S) /\ Len(Tail(q)) = Len(q) - 1 /\ Len(q) \in Nat
         /\ \A i \in 1 .. Len(Tail(q)) : i + 1 \in 1 .. Len(q) /\ Tail(q)[i] = q[i + 1]
  OBVIOUS

LEMMA EmptyIs == ASSUME NEW S, NEW q \in Seq(S), Len(q) = 0 PROVE q = <<>>
  OBVIOUS

LEMMA AppendIs ==
  ASSUME NEW S, NEW q \in Seq(S), NEW f \in S
  PROVE  /\ Append(q, f) \in Seq(S) /\ Len(Append(q, f)) = Len(q) + 1 /\ Len(q) \in Nat
         /\ Append(q, f)[Len(q) + 1] = f /\ Append(q, f) # <<>>
         /\ \A i \in 1 .. Len(q) : Append(q, f)[i] = q[i]
  OBVIOUS

Stamped == [ctrl : Stamps, more : BOOLEAN, valid : BOOLEAN]

(* Off the front of a burst: when its last frame is taken, nothing is left. *)
LEMMA BurstTail ==
  ASSUME NEW q \in Seq(Stamped), q # <<>>, LastEnds(q)
  PROVE  /\ LastEnds(Tail(q)) /\ (Ended(Tail(q)) => Ended(q))
         /\ ~Head(q).more => Ended(q) /\ Tail(q) = <<>>
  <1>1. LastEnds(Tail(q)) /\ (Ended(Tail(q)) => Ended(q))
    BY TailIs DEF LastEnds, Ended
  <1>2. ASSUME ~Head(q).more PROVE Ended(q) /\ Tail(q) = <<>>
    <2>1. Ended(q) /\ Len(q) = 1
      BY <1>2, TailIs DEF LastEnds, Ended
    <2>2. Len(Tail(q)) = 0 /\ Tail(q) \in Seq(Stamped)
      BY <2>1, TailIs
    <2> QED
      BY <2>1, <2>2, EmptyIs
  <1> QED
    BY <1>1, <1>2

(* On the end of one that has not ended. *)
LEMMA BurstAppend ==
  ASSUME NEW q \in Seq(Stamped), NEW f \in Stamped, LastEnds(q), ~Ended(q)
  PROVE  LastEnds(Append(q, f)) /\ (Ended(Append(q, f)) => ~f.more)
  BY AppendIs DEF LastEnds, Ended
-----------------------------------------------------------------------------
(* Types.                                                                  *)

LEMMA TypeInit == Init => TypeOK
  <1> SUFFICES ASSUME Init PROVE TypeOK
    OBVIOUS
  <1>1. ring \in [Node -> Seq(Stamped)] /\ \A n \in Node : Len(ring[n]) = 0
    BY DEF Init
  <1>2. set.most \in Nat /\ set.asks \in Nat
    BY SettingsAssumption DEF Init
  <1>3. ms \in [Node -> Switches]
    BY BeginType DEF Init
  <1> QED
    BY <1>1, <1>2, <1>3, EmptyNibble, RingAssumption DEF Init, TypeOK, Stamped

(* What a frame sent does to the rings and the budget, whoever sends it.   *)
LEMMA TransmitType ==
  ASSUME TypeOK, NEW n \in Node, NEW f \in Stamped, Transmit(n, f)
  PROVE  /\ ring' \in [Node -> Seq(Stamped)] /\ \A k \in Node : Len(ring'[k]) <= RINGCAP
         /\ budget' \in [{"fault", "request"} -> Nat]
  <1>1. Peer(n) \in Node
    BY TwoEnds DEF Node
  <1>2. /\ ring \in [Node -> Seq(Stamped)] /\ \A k \in Node : Len(ring[k]) <= RINGCAP
        /\ budget \in [{"fault", "request"} -> Nat]
    BY DEF TypeOK, Stamped
  <1>3. CASE Hears(Peer(n)) /\ Arrives(Peer(n), f) /\ UNCHANGED budget
    <2>1. ring[Peer(n)] \in Seq(Stamped) /\ Len(ring[Peer(n)]) < RINGCAP
      BY <1>1, <1>2, <1>3 DEF Arrives
    <2>2. ring' = [ring EXCEPT ![Peer(n)] = Append(ring[Peer(n)], f)]
      BY <1>3 DEF Arrives
    <2>3. Append(ring[Peer(n)], f) \in Seq(Stamped) /\ Len(Append(ring[Peer(n)], f)) <= RINGCAP
      BY <2>1, AppendIs, RingAssumption
    <2> QED
      BY <1>1, <1>2, <1>3, <2>2, <2>3
  <1>4. CASE UNCHANGED <<ring, budget>>
    BY <1>2, <1>4
  <1>5. CASE Fault("loss") /\ UNCHANGED ring
    BY <1>2, <1>5 DEF Fault, Spend
  <1> QED
    BY <1>3, <1>4, <1>5 DEF Transmit

LEMMA TimerType ==
  ASSUME TypeOK, TimerRunsOut
  PROVE  budget' \in [{"fault", "request"} -> Nat]
  BY DEF TimerRunsOut, Fault, Spend, TypeOK

(* A turn that ends leaves the engine, the nibble and the place typed.     *)
LEMMA TurnEndsType ==
  ASSUME TypeOK, NEW n \in Node, NEW got \in BOOLEAN, NEW c \in Stamps, TurnEnds(n, got, c)
  PROVE  /\ ms' \in [Node -> Switches] /\ nib' \in [Node -> Stamps]
         /\ pc' \in [Node -> {"top", "first", "last", "listen"}] /\ heard' \in [Node -> BOOLEAN]
  <1>1. ms[Initiator] \in Switches /\ ms[Responder] \in Switches
    BY TwoEnds DEF TypeOK
  <1>2. CASE n = Initiator
    <2>1. Service(IF got THEN AfterRecv(ms[Initiator], c, TRUE) ELSE ms[Initiator]) \in Switches
      BY <1>1, AfterRecvType, ServiceType
    <2> QED
      BY <1>2, <2>1 DEF TurnEnds, InitiatorEnds, TypeOK
  <1>3. CASE n # Initiator
    <2>1. AfterRecv(ms[Responder], c, FALSE) \in Switches
      BY <1>1, AfterRecvType
    <2>2. TxCtrl(AfterRecv(ms[Responder], c, FALSE)) \in Stamps
      BY <2>1, TxCtrlType
    <2> QED
      BY <1>3, <2>1, <2>2 DEF TurnEnds, ResponderReplies, TypeOK
  <1> QED
    BY <1>2, <1>3

(* Every step keeps the types: AfterRecv is handed only what TxCtrl made.  *)
LEMMA TypeStep == TypeOK /\ [Next]_vars => TypeOK'
  <1> SUFFICES ASSUME TypeOK, [Next]_vars PROVE TypeOK'
    OBVIOUS
  <1>1. ASSUME NEW n \in Node, ProbationEnds(n) PROVE TypeOK'
    <2>1. Service(PollExpired(ms[n])) \in Switches
      BY PollExpiredType, ServiceType DEF TypeOK
    <2> QED
      BY <1>1, <2>1, TimerType DEF ProbationEnds, TypeOK
  <1>2. ASSUME NEW n \in Node, MaybeRendezvous(n) PROVE TypeOK'
    BY <1>2, TimerType, BeginType, EmptyNibble DEF MaybeRendezvous, TypeOK
  <1>3. ASSUME NEW n \in Node, Restart(n), budget' \in [{"fault", "request"} -> Nat]
        PROVE  TypeOK'
    <2>1. Begin(Boot) \in Switches
      BY BeginType
    <2>2. <<>> \in Seq([ctrl : Stamps, more : BOOLEAN, valid : BOOLEAN]) /\ Len(<<>>) = 0
      OBVIOUS
    <2>3. ring' \in [Node -> Seq([ctrl : Stamps, more : BOOLEAN, valid : BOOLEAN])]
      BY <1>3, <2>2 DEF Restart, TypeOK
    <2>4. \A k \in Node : Len(ring'[k]) <= RINGCAP
      BY <1>3, <2>2, RingAssumption DEF Restart, TypeOK
    <2>5. /\ ms' \in [Node -> Switches] /\ nib' \in [Node -> Stamps] /\ rxCtrl' \in [Node -> Stamps]
      BY <1>3, <2>1, EmptyNibble DEF Restart, TypeOK
    <2> QED
      BY <1>3, <2>3, <2>4, <2>5 DEF Restart, TypeOK
  <1>4. ASSUME NEW n \in Node, MaybeReboot(n) PROVE TypeOK'
    BY <1>3, <1>4 DEF MaybeReboot, TypeOK
  <1>5. ASSUME NEW n \in Node, PowerCycle(n) PROVE TypeOK'
    <2>1. budget' \in [{"fault", "request"} -> Nat]
      BY <1>5 DEF PowerCycle, Fault, Spend, TypeOK
    <2> QED
      BY <1>3, <1>5, <2>1 DEF PowerCycle
  <1>6. ASSUME NEW m \in Modes, AskFor(m) PROVE TypeOK'
    <2>1. Request(ms[Initiator], m) \in Switches
      BY TwoEnds, RequestType DEF TypeOK
    <2>2. budget' \in [{"fault", "request"} -> Nat]
      BY <1>6 DEF AskFor, Spend, TypeOK
    <2>3. ms' \in [Node -> Switches]
      BY <1>6, <2>1 DEF AskFor, TypeOK
    <2> QED
      BY <1>6, <2>2, <2>3 DEF AskFor, TypeOK
  <1>7. CASE GiveUp
    <2>1. Abort(ms[Initiator]) \in Switches
      BY TwoEnds, AbortType DEF TypeOK
    <2> QED
      BY <1>7, <2>1, TimerType DEF GiveUp, TypeOK
  <1>8. CASE StartBurst
    <2>1. TxCtrl(ms[Initiator]) \in Stamps
      BY TwoEnds, TxCtrlType DEF TypeOK
    <2> QED
      BY <1>8, <2>1 DEF StartBurst, TypeOK
  <1>9. ASSUME NEW n \in Node, SendFirst(n) PROVE TypeOK'
    <2>1. [ctrl |-> nib[n], more |-> TRUE, valid |-> TRUE] \in Stamped
      BY DEF TypeOK, Stamped
    <2>2. /\ ring' \in [Node -> Seq(Stamped)] /\ \A k \in Node : Len(ring'[k]) <= RINGCAP
          /\ budget' \in [{"fault", "request"} -> Nat]
      BY <1>9, <2>1, TransmitType DEF SendFirst
    <2> QED
      BY <1>9, <2>2 DEF SendFirst, TypeOK, Stamped
  <1>10. ASSUME NEW n \in Node, SendLast(n) PROVE TypeOK'
    <2>1. [ctrl |-> nib[n], more |-> FALSE, valid |-> TRUE] \in Stamped
      BY DEF TypeOK, Stamped
    <2>2. /\ ring' \in [Node -> Seq(Stamped)] /\ \A k \in Node : Len(ring'[k]) <= RINGCAP
          /\ budget' \in [{"fault", "request"} -> Nat]
      BY <1>10, <2>1, TransmitType DEF SendLast
    <2>3. Service(AfterSend(ms[n])) \in Switches
      BY AfterSendType, ServiceType DEF TypeOK
    <2>4. ms' \in [Node -> Switches]
      BY <1>10, <2>3 DEF SendLast, TypeOK
    <2>5. pc' \in [Node -> {"top", "first", "last", "listen"}]
      BY <1>10 DEF SendLast, TypeOK
    <2> QED
      BY <1>10, <2>2, <2>4, <2>5 DEF SendLast, TypeOK, Stamped
  <1>11. ASSUME NEW n \in Node, Receive(n) PROVE TypeOK'
    <2>1. ring[n] \in Seq(Stamped) /\ ring[n] # <<>> /\ Len(ring[n]) <= RINGCAP
      BY <1>11 DEF Receive, TypeOK, Stamped
    <2>2. Head(ring[n]) \in Stamped /\ Tail(ring[n]) \in Seq(Stamped)
          /\ Len(Tail(ring[n])) <= RINGCAP
      BY <2>1, TailIs, RingAssumption
    <2>3. ring' \in [Node -> Seq(Stamped)] /\ \A k \in Node : Len(ring'[k]) <= RINGCAP
      BY <1>11, <2>2 DEF Receive, TypeOK, Stamped
    <2>4. rxCtrl' \in [Node -> Stamps] /\ linked' \in [Node -> BOOLEAN]
      BY <1>11, <2>2 DEF Receive, Accept, TypeOK, Stamped
    <2>5. /\ ms' \in [Node -> Switches] /\ nib' \in [Node -> Stamps]
          /\ pc' \in [Node -> {"top", "first", "last", "listen"}] /\ heard' \in [Node -> BOOLEAN]
      <3>1. CASE ~Head(ring[n]).more
        <4>1. TurnEnds(n, TRUE, rxCtrl'[n]) /\ rxCtrl'[n] \in Stamps
          BY <1>11, <2>4, <3>1 DEF Receive
        <4> QED
          BY <4>1, TurnEndsType
      <3>2. CASE Head(ring[n]).more
        BY <1>11, <3>2 DEF Receive, TypeOK
      <3> QED
        BY <3>1, <3>2
    <2> QED
      BY <1>11, <2>3, <2>4, <2>5 DEF Receive, TypeOK, Stamped
  <1>12. ASSUME NEW n \in Node, Silence(n) PROVE TypeOK'
    <2>1. TurnEnds(n, heard[n], rxCtrl[n]) /\ heard[n] \in BOOLEAN /\ rxCtrl[n] \in Stamps
      BY <1>12 DEF Silence, TypeOK
    <2>2. budget' \in [{"fault", "request"} -> Nat]
      BY <1>12 DEF Silence, Fault, Spend, TypeOK
    <2>3. /\ ms' \in [Node -> Switches] /\ nib' \in [Node -> Stamps]
          /\ pc' \in [Node -> {"top", "first", "last", "listen"}] /\ heard' \in [Node -> BOOLEAN]
      BY <2>1, TurnEndsType
    <2> QED
      BY <1>12, <2>2, <2>3 DEF Silence, TypeOK
  <1>13. ASSUME NEW n \in Node, NoiseArrives(n) PROVE TypeOK'
    <2>1. ring[n] \in Seq(Stamped) /\ Len(ring[n]) < RINGCAP /\ Noise \in Stamped
      BY <1>13, EmptyNibble DEF NoiseArrives, Arrives, TypeOK, Stamped, Noise
    <2>2. Append(ring[n], Noise) \in Seq(Stamped) /\ Len(Append(ring[n], Noise)) <= RINGCAP
      BY <2>1, AppendIs, RingAssumption
    <2>3. ring' \in [Node -> Seq(Stamped)] /\ \A k \in Node : Len(ring'[k]) <= RINGCAP
      BY <1>13, <2>2 DEF NoiseArrives, Arrives, TypeOK, Stamped
    <2>4. budget' \in [{"fault", "request"} -> Nat]
      BY <1>13 DEF NoiseArrives, Fault, Spend, TypeOK
    <2> QED
      BY <1>13, <2>3, <2>4 DEF NoiseArrives, TypeOK, Stamped
  <1>14. CASE UNCHANGED vars
    BY <1>14 DEF vars, TypeOK
  <1> QED
    BY <1>1, <1>2, <1>4, <1>5, <1>6, <1>7, <1>8, <1>9, <1>10, <1>11, <1>12, <1>13, <1>14
    DEF Next, Handshake, Recovery, Turn
-----------------------------------------------------------------------------
(* What a turn makes of each end's half of the engine.                     *)

(* An engine with nothing due, that owes the ACK of what it has armed.     *)
Own(s) == s.apply = None /\ s.owe_ack = s.armed

Engine(s, current, prev, target, armed) ==
  /\ s.current = current /\ s.prev = prev /\ s.target = target /\ s.armed = armed /\ Own(s)

Left(s, m) == IF m # s.current THEN s.current ELSE s.prev

(* What is due is entered, on probation.                                   *)
LEMMA Serviced ==
  ASSUME NEW s \in Switches, s.apply # None
  PROVE  LET new == Service(s)
         IN  /\ new.current = s.apply /\ new.prev = Left(s, s.apply) /\ new.target = s.target
             /\ new.armed = s.armed /\ new.owe_ack = s.owe_ack /\ new.apply = None
             /\ new.probation
  BY DEF Service, Switches, Left

LEMMA NothingDue ==
  ASSUME NEW s \in Switches, s.apply = None
  PROVE  Service(s) = s
  BY DEF Service

(* The initiator: an acknowledged request is entered, on probation;        *)
(* anything else it hears ends its probation and no more.                  *)
LEMMA InitiatorHears ==
  ASSUME NEW s \in Switches, NEW c \in Stamps, Own(s), s.armed = None,
         c = 0 \/ (s.target # None /\ c = CtrlEncode(s.target, TRUE))
  PROVE  LET new == Service(AfterRecv(s, c, TRUE))
         IN  /\ c = 0 => Engine(new, s.current, s.prev, s.target, None) /\ ~new.probation
             /\ c # 0 => Engine(new, s.target, Left(s, s.target), None, None) /\ new.probation
  <1> DEFINE after == AfterRecv(s, c, TRUE)
  <1>1. CASE c = 0
    <2>1. after = [s EXCEPT !.probation = FALSE]
      BY <1>1, EmptyNibble DEF AfterRecv
    <2>2. Engine(after, s.current, s.prev, s.target, None) /\ ~after.probation
          /\ after \in Switches
      BY <2>1 DEF Switches, Engine, Own
    <2> HIDE DEF after
    <2>3. Service(after) = after
      BY <2>2, NothingDue DEF Engine, Own
    <2> QED
      BY <1>1, <2>2, <2>3 DEF after
  <1>2. CASE c # 0
    <2>1. s.target \in Modes /\ c = CtrlEncode(s.target, TRUE)
      BY <1>2 DEF Switches
    <2>2. CtrlPresent(c) /\ CtrlModeIdx(c) = s.target /\ CtrlIsAck(c)
      BY <2>1, RoundTrip
    <2>3. after = [[s EXCEPT !.probation = FALSE] EXCEPT !.apply = s.target, !.target = None]
      BY <2>2 DEF AfterRecv
    <2>4. /\ after \in Switches /\ after.apply = s.target /\ after.target = None
          /\ after.armed = None /\ after.owe_ack = None
          /\ after.current = s.current /\ after.prev = s.prev
      BY <2>1, <2>3 DEF Switches, Own
    <2> HIDE DEF after
    <2>5. after.apply # None /\ Left(after, after.apply) = Left(s, s.target)
      BY <2>1, <2>4, NoneIsNoMode DEF Left
    <2>6. Engine(Service(after), s.target, Left(s, s.target), None, None)
          /\ Service(after).probation
      BY <2>4, <2>5, Serviced DEF Engine, Own
    <2> QED
      BY <1>2, <2>6 DEF after
  <1> QED
    BY <1>1, <1>2

(* The responder arms what it is asked for, and nothing else.              *)
LEMMA ResponderHears ==
  ASSUME NEW s \in Switches, NEW m \in Modes \union {None}, Own(s), s.armed = None,
         m # s.current
  PROVE  LET new == AfterRecv(s, CtrlEncode(m, FALSE), FALSE)
         IN  Engine(new, s.current, s.prev, s.target, m) /\ ~new.probation
  <1> DEFINE new == AfterRecv(s, CtrlEncode(m, FALSE), FALSE)
  <1>1. CASE m = None
    <2>1. new = [s EXCEPT !.probation = FALSE]
      BY <1>1, EmptyNibble DEF AfterRecv
    <2> QED
      BY <1>1, <2>1 DEF Switches, Engine, Own
  <1>2. CASE m # None
    <2>1. LET c == CtrlEncode(m, FALSE)
          IN  CtrlPresent(c) /\ CtrlModeIdx(c) = m /\ ~CtrlIsAck(c)
      BY <1>2, RoundTrip
    <2>2. new = [[s EXCEPT !.probation = FALSE] EXCEPT !.owe_ack = m, !.armed = m]
      BY <1>2, <2>1 DEF AfterRecv
    <2> QED
      BY <1>2, <2>2 DEF Switches, Engine, Own
  <1> QED
    BY <1>1, <1>2

(* A probation that ends goes back, and starts another.                    *)
LEMMA ProbationReverts ==
  ASSUME NEW s \in Switches, Own(s), s.armed = None, s.probation
  PROVE  LET new == Service(PollExpired(s))
         IN  Engine(new, s.prev, Left(s, s.prev), s.target, None) /\ new.probation
  <1> DEFINE p == PollExpired(s)
  <1>1. p \in Switches
    BY PollExpiredType
  <1>2. /\ p.apply = s.prev /\ p.current = s.current /\ p.prev = s.prev /\ p.target = s.target
        /\ p.armed = None /\ p.owe_ack = None
    BY DEF PollExpired, Switches, Own
  <1> HIDE DEF p
  <1>3. p.apply # None /\ Left(p, p.apply) = Left(s, s.prev)
    BY <1>2, NoneIsNoMode DEF Left, Switches
  <1>4. Engine(Service(p), s.prev, Left(s, s.prev), s.target, None) /\ Service(p).probation
    BY <1>1, <1>2, <1>3, Serviced DEF Engine, Own
  <1> QED
    BY <1>4 DEF p

(* The responder enters what it has armed when its answer has been sent.   *)
LEMMA ResponderSwitches ==
  ASSUME NEW s \in Switches, Own(s)
  PROVE  LET new == Service(AfterSend(s))
         IN  /\ s.armed = None => new = s
             /\ s.armed # None => /\ Engine(new, s.armed, Left(s, s.armed), s.target, None)
                                  /\ new.probation
  <1>1. CASE s.armed = None
    BY <1>1, NothingDue DEF AfterSend, Own
  <1>2. CASE s.armed # None
    <2> DEFINE a == AfterSend(s)
    <2>1. a \in Switches
      BY AfterSendType
    <2>2. /\ a.apply = s.armed /\ a.current = s.current /\ a.prev = s.prev
          /\ a.target = s.target /\ a.armed = None /\ a.owe_ack = None
      BY <1>2 DEF AfterSend, Switches
    <2> HIDE DEF a
    <2>3. a.apply # None /\ Left(a, a.apply) = Left(s, s.armed)
      BY <1>2, <2>2 DEF Left
    <2>4. Engine(Service(a), s.armed, Left(s, s.armed), s.target, None) /\ Service(a).probation
      BY <2>1, <2>2, <2>3, Serviced DEF Engine, Own
    <2> QED
      BY <1>2, <2>4 DEF a
  <1> QED
    BY <1>1, <1>2
-----------------------------------------------------------------------------
(* The handshake, step by step, where nothing but losses disturbs it.      *)

(* What the invariant says of the two ends, by name.                       *)
LEMMA Ends ==
  ASSUME TypeOK, HandshakeHolds
  PROVE  /\ ms[Initiator] \in Switches /\ Own(ms[Initiator]) /\ ms[Initiator].armed = None
         /\ ms[Responder] \in Switches /\ Own(ms[Responder]) /\ ms[Responder].target = None
         /\ pc[Responder] \notin Sending => ms[Responder].armed = None
         /\ \A n \in Node : ring[n] \in Seq(Stamped) /\ LastEnds(ring[n])
  <1>1. /\ ms[Initiator] \in Switches /\ ms[Responder] \in Switches
        /\ \A n \in Node : ring[n] \in Seq(Stamped)
    BY TwoEnds DEF TypeOK, Stamped
  <1>2. /\ Own(ms[Initiator]) /\ ms[Initiator].armed = None
        /\ Own(ms[Responder]) /\ ms[Responder].target = None
    BY TwoEnds DEF HandshakeHolds, OwnHalves, Own
  <1>3. pc[Responder] \notin Sending => ms[Responder].armed = None
    BY DEF HandshakeHolds, RequestsAreTrue
  <1> QED
    BY <1>1, <1>2, <1>3 DEF HandshakeHolds, TurnsAlternate

(* Only the modes and the engines decide who hears whom.                   *)
LEMMA OnlyLossesDisturb ==
  ASSUME OnlyLosses
  PROVE  /\ TimerRunsOut => ~SameMode
         /\ ~Fault("early") /\ ~Fault("noise") /\ ~Fault("reboot")
         /\ ~Recovery
  BY DEF OnlyLosses, TimerRunsOut, Fault, Recovery, MaybeRendezvous, MaybeReboot, PowerCycle

LEMMA StartBurstKeeps ==
  ASSUME TypeOK, HandshakeHolds, StartBurst
  PROVE  HandshakeHolds'
  <1>1. /\ pc[Initiator] = "top" /\ pc'[Initiator] = "first" /\ pc'[Responder] = pc[Responder]
        /\ nib'[Initiator] = TxCtrl(ms[Initiator]) /\ nib'[Responder] = nib[Responder]
        /\ UNCHANGED <<ms, rxCtrl, heard, ring>>
    BY TwoEnds DEF StartBurst, TypeOK
  <1>2. pc[Responder] = "top"
    BY <1>1 DEF HandshakeHolds, TurnsAlternate, Sending, TypeOK, Node
  <1>3. TxCtrl(ms[Initiator]) \in {0, CtrlEncode(ms[Initiator].target, FALSE)}
    BY Ends DEF Own, TxCtrl
  <1>4. OwnHalves'
    BY <1>1 DEF HandshakeHolds, OwnHalves
  <1>5. TurnsAlternate'
    BY <1>1, <1>2 DEF HandshakeHolds, TurnsAlternate, SameMode, Answered, Sending, LastEnds, Ended
  <1>6. RequestsAreTrue'
    BY <1>1, <1>2, <1>3 DEF HandshakeHolds, RequestsAreTrue, IsRequest, Sending
  <1>7. AnswersAreTrue'
    BY <1>1, <1>2 DEF HandshakeHolds, AnswersAreTrue, AnswerOf
  <1>8. ApartOnProbation'
    BY <1>1, <1>2 DEF HandshakeHolds, ApartOnProbation, SameMode, Answered
  <1> QED
    BY <1>4, <1>5, <1>6, <1>7, <1>8 DEF HandshakeHolds

LEMMA AskForKeeps ==
  ASSUME TypeOK, HandshakeHolds, NEW m \in Modes, AskFor(m)
  PROVE  HandshakeHolds'
  <1>1. /\ ~Busy(ms[Initiator]) /\ m # ms[Initiator].current
        /\ ms' = [ms EXCEPT ![Initiator] = [ms[Initiator] EXCEPT !.target = m]]
        /\ UNCHANGED <<pc, nib, rxCtrl, heard, ring>>
    BY DEF AskFor, Request
  <1>2. /\ ms[Initiator].target = None /\ ~ms[Initiator].probation
        /\ ms'[Responder] = ms[Responder]
        /\ LET new == ms'[Initiator]
           IN  /\ new.target = m /\ Own(new) /\ new.armed = None /\ ~new.probation
               /\ new.current = ms[Initiator].current /\ new.prev = ms[Initiator].prev
    BY <1>1, TwoEnds, Ends DEF Busy, Own, Switches, TypeOK
  <1>3. CtrlEncode(ms[Initiator].target, FALSE) = 0
    BY <1>2, EmptyNibble
  <1>4. OwnHalves'
    BY <1>1, <1>2, Ends, NoneIsNoMode DEF HandshakeHolds, OwnHalves, Own, Node
  <1>5. TurnsAlternate'
    BY <1>1, <1>2 DEF HandshakeHolds, TurnsAlternate, SameMode, Answered
  <1>6. RequestsAreTrue'
    BY <1>1, <1>2, <1>3 DEF HandshakeHolds, RequestsAreTrue, IsRequest
  <1>7. AnswersAreTrue'
    BY <1>1, <1>2 DEF HandshakeHolds, AnswersAreTrue, AnswerOf
  <1>8. ApartOnProbation'
    BY <1>1, <1>2, TwoEnds DEF HandshakeHolds, ApartOnProbation, SameMode, Answered, Node
  <1> QED
    BY <1>4, <1>5, <1>6, <1>7, <1>8 DEF HandshakeHolds

LEMMA GiveUpKeeps ==
  ASSUME TypeOK, OnlyLosses, HandshakeHolds, GiveUp
  PROVE  HandshakeHolds'
  <1>1. /\ pc[Initiator] = "top" /\ ~SameMode
        /\ ms' = [ms EXCEPT ![Initiator] = Abort(ms[Initiator])]
        /\ UNCHANGED <<pc, nib, rxCtrl, heard, ring>>
    BY OnlyLossesDisturb DEF GiveUp
  <1>2. /\ ms'[Responder] = ms[Responder]
        /\ LET new == ms'[Initiator]
           IN  /\ new.target = None /\ Own(new) /\ new.armed = None
               /\ new.probation = ms[Initiator].probation
               /\ new.current = ms[Initiator].current /\ new.prev = ms[Initiator].prev
    BY <1>1, TwoEnds, Ends DEF Abort, Own, Switches, TypeOK
  <1>3. pc[Responder] = "top" /\ ring[Responder] = <<>> /\ ~Answered
    BY <1>1 DEF HandshakeHolds, ApartOnProbation, TurnsAlternate
  <1>4. ring[Initiator] = <<>> /\ ~heard[Initiator] /\ Len(ring[Initiator]) = 0
        /\ Len(ring[Responder]) = 0
    BY <1>3 DEF Answered
  <1>5. OwnHalves'
    BY <1>2, Ends DEF HandshakeHolds, OwnHalves, Own, Node
  <1>6. TurnsAlternate'
    BY <1>1, <1>2 DEF HandshakeHolds, TurnsAlternate, SameMode, Answered
  <1>7. RequestsAreTrue'
    BY <1>1, <1>2, <1>3, <1>4, Ends DEF RequestsAreTrue, Sending
  <1>8. AnswersAreTrue'
    BY <1>1, <1>4 DEF AnswersAreTrue
  <1>9. ApartOnProbation'
    BY <1>1, <1>2, TwoEnds DEF HandshakeHolds, ApartOnProbation, SameMode, Answered, Node
  <1> QED
    BY <1>5, <1>6, <1>7, <1>8, <1>9 DEF HandshakeHolds

(* A probation that ends where the two are apart joins them.               *)
LEMMA ProbationEndsKeeps ==
  ASSUME TypeOK, OnlyLosses, HandshakeHolds, NEW n \in Node, ProbationEnds(n)
  PROVE  HandshakeHolds'
  <1> DEFINE p == Peer(n)
  <1>1. /\ pc[n] = "top" /\ ms[n].probation /\ ~SameMode
        /\ ms' = [ms EXCEPT ![n] = Service(PollExpired(ms[n]))]
        /\ UNCHANGED <<pc, nib, rxCtrl, heard, ring>>
    BY OnlyLossesDisturb DEF ProbationEnds
  <1>2. p \in Node /\ p # n /\ Node = {n, p}
    BY TwoEnds DEF Node
  <1>3. ms[n] \in Switches /\ Own(ms[n]) /\ ms[n].armed = None /\ ms[n].prev = ms[p].current
    <2>1. pc[Responder] = "top" /\ ms[n].prev = ms[p].current
      BY <1>1 DEF HandshakeHolds, ApartOnProbation
    <2> QED
      BY <2>1, Ends DEF Node, Sending
  <1>4. /\ Engine(ms'[n], ms[p].current, Left(ms[n], ms[n].prev), ms[n].target, None)
        /\ ms'[n].probation /\ ms'[p] = ms[p]
    <2>1. ms'[n] = Service(PollExpired(ms[n])) /\ ms'[p] = ms[p]
      BY <1>1, <1>2 DEF TypeOK
    <2> QED
      BY <1>1, <1>3, <2>1, ProbationReverts
  <1> HIDE DEF p
  <1>5. SameMode'
    BY <1>2, <1>4 DEF SameMode, Engine, Node
  <1>6. pc[Responder] = "top" /\ ring[Responder] = <<>>
    BY <1>1 DEF HandshakeHolds, ApartOnProbation, TurnsAlternate
  <1>7. Left(ms[n], ms[n].prev) = ms[n].current
    BY <1>1, <1>2, <1>3 DEF Left, SameMode, Node
  <1>8. /\ n = Initiator => ms[Initiator].target = None /\ ring[Initiator] = <<>> /\ ~heard[Initiator]
        /\ ms'[Initiator].target = ms[Initiator].target
    <2>1. n = Initiator => ms[Initiator].target = None
      BY <1>1 DEF HandshakeHolds, OwnHalves
    <2>2. n = Initiator => ~Answered
      BY <1>1 DEF HandshakeHolds, TurnsAlternate
    <2>3. ms'[Initiator].target = ms[Initiator].target
      BY <1>2, <1>4 DEF Engine, Node
    <2> QED
      BY <2>1, <2>2, <2>3 DEF Answered
  <1>9. OwnHalves'
    BY <1>2, <1>4, <1>8 DEF HandshakeHolds, OwnHalves, Engine, Own, Node
  <1>10. TurnsAlternate'
    BY <1>1, <1>5 DEF HandshakeHolds, TurnsAlternate, Answered
  <1>11. RequestsAreTrue'
    <2>1. ms'[Responder].armed = None /\ ms[Responder].armed = None
      BY <1>2, <1>4, <1>6, Ends DEF Engine, Node, Sending
    <2> QED
      BY <1>1, <1>6, <1>8, <2>1 DEF HandshakeHolds, RequestsAreTrue, IsRequest
  <1>12. AnswersAreTrue'
    <2>1. CASE n = Initiator
      BY <1>1, <1>8, <2>1 DEF AnswersAreTrue
    <2>2. CASE n = Responder
      <3>1. /\ ms'[Responder].probation
            /\ {ms'[Responder].current, ms'[Responder].prev}
                 = {ms[Responder].current, ms[Responder].prev}
        BY <1>2, <1>3, <1>4, <1>7, <2>2 DEF Engine
      <3>2. \A c : AnswerOf(c) => AnswerOf(c)'
        BY <1>1, <1>6, <1>8, <3>1 DEF AnswerOf
      <3> QED
        BY <1>1, <3>2 DEF HandshakeHolds, AnswersAreTrue
    <2> QED
      BY <2>1, <2>2 DEF Node
  <1>13. ApartOnProbation'
    BY <1>5 DEF ApartOnProbation
  <1> QED
    BY <1>9, <1>10, <1>11, <1>12, <1>13 DEF HandshakeHolds

(* Where a frame may have gone: to the peer's ring, or nowhere.            *)
LEMMA Transmitted ==
  ASSUME TypeOK, NEW n \in Node, NEW f \in Stamped, Transmit(n, f)
  PROVE  LET p == Peer(n)
         IN  /\ ring'[n] = ring[n]
             /\ \/ ring'[p] = ring[p]
                \/ SameMode /\ pc[p] \notin Sending /\ ring'[p] = Append(ring[p], f)
  <1>1. Peer(n) \in Node /\ Peer(n) # n
    BY TwoEnds DEF Node
  <1> QED
    BY <1>1 DEF Transmit, Hears, Arrives, TypeOK

(* The initiator sends: its request, if it has one, to a responder that    *)
(* hears all of the burst before it answers.                               *)
LEMMA InitiatorSendsKeeps ==
  ASSUME TypeOK, HandshakeHolds, NEW more \in BOOLEAN, pc[Initiator] \in Sending,
         Transmit(Initiator, [ctrl |-> nib[Initiator], more |-> more, valid |-> TRUE]),
         pc' = [pc EXCEPT ![Initiator] = IF more THEN "last" ELSE "listen"],
         UNCHANGED <<ms, nib, rxCtrl>>, heard'[Initiator] = FALSE \/ UNCHANGED heard
  PROVE  HandshakeHolds'
  <1> DEFINE f == [ctrl |-> nib[Initiator], more |-> more, valid |-> TRUE]
             q == ring[Responder]
  <1>1. f \in Stamped /\ q \in Seq(Stamped) /\ LastEnds(q) /\ f.valid /\ f.more = more
        /\ f.ctrl = nib[Initiator]
    BY Ends, TwoEnds DEF TypeOK, Stamped
  <1>2. /\ pc'[Initiator] = IF more THEN "last" ELSE "listen"
        /\ pc'[Responder] = pc[Responder] /\ ~Answered /\ ~Answered'
        /\ pc[Responder] \notin Sending /\ ~Ended(q) /\ IsRequest(nib[Initiator])
        /\ ring'[Initiator] = ring[Initiator] /\ Len(ring'[Initiator]) = 0
        /\ ~heard'[Initiator]
    <2>1. ~Answered /\ pc[Responder] \notin Sending /\ ~Ended(q) /\ IsRequest(nib[Initiator])
      BY DEF HandshakeHolds, TurnsAlternate, RequestsAreTrue, Sending
    <2>2. ring'[Initiator] = ring[Initiator]
      BY <1>1, TwoEnds, Transmitted
    <2>3. ring[Initiator] = <<>> /\ ~heard[Initiator]
      BY <2>1 DEF Answered
    <2> QED
      BY <2>1, <2>2, <2>3, TwoEnds DEF Answered, TypeOK
  <1>3. \/ ring'[Responder] = q
        \/ SameMode /\ ring'[Responder] = Append(q, f)
    BY <1>1, TwoEnds, Transmitted
  <1> HIDE DEF f
  <1>4. /\ LastEnds(ring'[Responder]) /\ (Ended(ring'[Responder]) => ~more)
        /\ ring'[Responder] # <<>> => SameMode
        /\ \A i \in 1 .. Len(ring'[Responder]) :
             ring'[Responder][i].valid /\ IsRequest(ring'[Responder][i].ctrl)
    <2>1. \A i \in 1 .. Len(q) : q[i].valid /\ IsRequest(q[i].ctrl)
      BY TwoEnds DEF HandshakeHolds, TurnsAlternate, RequestsAreTrue
    <2>2. q # <<>> => SameMode
      BY DEF HandshakeHolds, TurnsAlternate
    <2> HIDE DEF q
    <2>3. CASE ring'[Responder] = q
      BY <1>1, <1>2, <2>1, <2>2, <2>3
    <2>4. CASE SameMode /\ ring'[Responder] = Append(q, f)
      <3>1. LastEnds(Append(q, f)) /\ (Ended(Append(q, f)) => ~f.more)
        BY <1>1, <1>2, BurstAppend
      <3>2. \A i \in 1 .. Len(Append(q, f)) :
              Append(q, f)[i].valid /\ IsRequest(Append(q, f)[i].ctrl)
        <4> SUFFICES ASSUME NEW i \in 1 .. Len(Append(q, f))
                     PROVE  Append(q, f)[i].valid /\ IsRequest(Append(q, f)[i].ctrl)
          OBVIOUS
        <4>1. CASE i \in 1 .. Len(q)
          BY <1>1, <2>1, <4>1, AppendIs
        <4>2. CASE i = Len(q) + 1
          BY <1>1, <1>2, <4>2, AppendIs
        <4>3. i \in 1 .. Len(q) \/ i = Len(q) + 1
          BY <1>1, AppendIs
        <4> QED
          BY <4>1, <4>2, <4>3
      <3> QED
        BY <1>1, <2>4, <3>1, <3>2
    <2> QED
      BY <1>3, <2>3, <2>4 DEF q
  <1>5. OwnHalves'
    BY DEF HandshakeHolds, OwnHalves
  <1>6. TurnsAlternate'
    <2>1. \A n \in Node : /\ LastEnds(ring'[n])
                          /\ \A i \in 1 .. Len(ring'[n]) : ring'[n][i].valid
      BY <1>2, <1>4 DEF HandshakeHolds, TurnsAlternate, Node
    <2>2. pc[Responder] = "listen" => SameMode
      BY DEF HandshakeHolds, TurnsAlternate
    <2>3. ~Ended(ring'[Initiator])
      BY <1>2 DEF Ended
    <2> QED
      BY <1>2, <1>4, <2>1, <2>2, <2>3 DEF TurnsAlternate, SameMode
  <1>7. RequestsAreTrue'
    <2>1. /\ ms[Responder].armed = None /\ \A c : IsRequest(c) => IsRequest(c)'
          /\ pc[Responder] = "listen" => IsRequest(rxCtrl[Responder])
      BY <1>2, Ends DEF IsRequest, HandshakeHolds, RequestsAreTrue
    <2> QED
      BY <1>2, <1>4, <2>1 DEF RequestsAreTrue
  <1>8. AnswersAreTrue'
    BY <1>2 DEF AnswersAreTrue
  <1>9. ApartOnProbation'
    BY <1>2 DEF HandshakeHolds, ApartOnProbation, SameMode
  <1> QED
    BY <1>5, <1>6, <1>7, <1>8, <1>9 DEF HandshakeHolds

(* The frames of the responder's answer, the last of which it switches     *)
(* after: what is then on its way names the mode it has gone to.           *)
LEMMA ResponderSendsKeeps ==
  ASSUME TypeOK, HandshakeHolds, NEW more \in BOOLEAN, pc[Responder] \in Sending,
         Transmit(Responder, [ctrl |-> nib[Responder], more |-> more, valid |-> TRUE]),
         pc' = [pc EXCEPT ![Responder] = IF more THEN "last" ELSE "top"],
         ms' = IF more THEN ms
               ELSE [ms EXCEPT ![Responder] = Service(AfterSend(ms[Responder]))],
         UNCHANGED <<nib, rxCtrl>>, heard'[Initiator] = heard[Initiator]
  PROVE  HandshakeHolds'
  <1> DEFINE f == [ctrl |-> nib[Responder], more |-> more, valid |-> TRUE]
             q == ring[Initiator]
             R == ms[Responder]
             S == ms'[Responder]
             Good == {c \in Stamps : AnswerOf(c)'}
  <1>1. f \in Stamped /\ q \in Seq(Stamped) /\ LastEnds(q) /\ f.valid /\ f.more = more
        /\ f.ctrl = nib[Responder]
    BY Ends, TwoEnds DEF TypeOK, Stamped
  <1>2. /\ SameMode /\ pc[Initiator] = "listen" /\ ring[Responder] = <<>> /\ ~Ended(q)
        /\ nib[Responder] = (IF R.armed = None THEN 0 ELSE CtrlEncode(R.armed, TRUE))
        /\ R.armed # None => R.armed = ms[Initiator].target
    BY DEF HandshakeHolds, TurnsAlternate, RequestsAreTrue, Sending
  <1>3. /\ pc'[Initiator] = "listen" /\ pc'[Responder] = IF more THEN "last" ELSE "top"
        /\ ring'[Responder] = <<>> /\ Len(ring'[Responder]) = 0
        /\ ms'[Initiator] = ms[Initiator]
    <2>1. ring'[Responder] = ring[Responder]
      BY <1>1, TwoEnds, Transmitted
    <2>2. ms'[Initiator] = ms[Initiator]
      BY TwoEnds DEF TypeOK
    <2>3. pc'[Initiator] = pc[Initiator] /\ pc'[Responder] = IF more THEN "last" ELSE "top"
      BY TwoEnds DEF TypeOK
    <2> QED
      BY <1>2, <2>1, <2>2, <2>3
  <1>4. ring'[Initiator] = q \/ ring'[Initiator] = Append(q, f)
    BY <1>1, TwoEnds, Transmitted
  <1>5. /\ R.armed = None => S = R
        /\ R.armed # None /\ more => S = R
        /\ R.armed # None /\ ~more => Engine(S, R.armed, R.current, None, None) /\ S.probation
    <2>1. S = IF more THEN R ELSE Service(AfterSend(R))
      BY TwoEnds DEF TypeOK
    <2>2. R.armed # None => R.armed # R.current
      BY <1>2 DEF HandshakeHolds, OwnHalves, SameMode
    <2>3. R.armed # None => Left(R, R.armed) = R.current
      BY <2>2 DEF Left
    <2> HIDE DEF R
    <2> HIDE DEF S
    <2>4. R \in Switches /\ Own(R) /\ R.target = None
      BY Ends DEF R
    <2> QED
      BY <2>1, <2>3, <2>4, ResponderSwitches
  <1> HIDE DEF f
  <1>6. \A c : AnswerOf(c) => AnswerOf(c)'
    <2>1. ASSUME NEW c, AnswerOf(c), c # 0 PROVE AnswerOf(c)'
      <3>1. /\ ms[Initiator].target # None /\ c = CtrlEncode(ms[Initiator].target, TRUE)
            /\ pc[Responder] = "last" /\ R.armed = ms[Initiator].target
        BY <2>1 DEF AnswerOf, Sending
      <3>2. CASE more
        BY <1>3, <1>5, <3>1, <3>2 DEF AnswerOf
      <3>3. CASE ~more
        BY <1>3, <1>5, <3>1, <3>3 DEF AnswerOf, Engine
      <3> QED
        BY <3>2, <3>3
    <2> QED
      BY <2>1 DEF AnswerOf
  <1>7. AnswerOf(nib[Responder])'
    <2>1. CASE R.armed = None
      BY <1>2, <2>1 DEF AnswerOf
    <2>2. CASE R.armed # None
      <3>1. nib[Responder] = CtrlEncode(ms[Initiator].target, TRUE) /\ ms[Initiator].target # None
        BY <1>2, <2>2
      <3>2. CASE more
        BY <1>2, <1>3, <1>5, <2>2, <3>1, <3>2 DEF AnswerOf
      <3>3. CASE ~more
        BY <1>2, <1>3, <1>5, <2>2, <3>1, <3>3 DEF AnswerOf, Engine
      <3> QED
        BY <3>2, <3>3
    <2> QED
      BY <2>1, <2>2
  <1>8. /\ LastEnds(ring'[Initiator]) /\ (Ended(ring'[Initiator]) => ~more)
        /\ \A i \in 1 .. Len(ring'[Initiator]) :
             ring'[Initiator][i].valid /\ ring'[Initiator][i].ctrl \in Good
    <2>1. \A i \in 1 .. Len(q) : q[i].valid /\ q[i].ctrl \in Stamps /\ AnswerOf(q[i].ctrl)
      <3>1. \A i \in 1 .. Len(q) : q[i] \in Stamped
        BY <1>1
      <3>2. \A i \in 1 .. Len(q) : q[i].ctrl \in Stamps
        BY <3>1 DEF Stamped
      <3> QED
        BY <3>2, TwoEnds DEF HandshakeHolds, TurnsAlternate, AnswersAreTrue
    <2>2. \A i \in 1 .. Len(q) : q[i].valid /\ q[i].ctrl \in Good
      BY <1>6, <2>1
    <2> HIDE DEF q
    <2>0. f.ctrl \in Good
      BY <1>1, <1>7 DEF Stamped
    <2> HIDE DEF Good
    <2>3. CASE ring'[Initiator] = q
      BY <1>1, <1>2, <2>2, <2>3
    <2>4. CASE ring'[Initiator] = Append(q, f)
      <3>1. LastEnds(Append(q, f)) /\ (Ended(Append(q, f)) => ~f.more)
        BY <1>1, <1>2, BurstAppend
      <3>2. ASSUME NEW i \in 1 .. Len(Append(q, f))
            PROVE  Append(q, f)[i].valid /\ Append(q, f)[i].ctrl \in Good
        <4>1. CASE i \in 1 .. Len(q)
          <5>1. Append(q, f)[i] = q[i]
            BY <1>1, <4>1, AppendIs
          <5> QED
            BY <2>2, <4>1, <5>1
        <4>2. CASE i = Len(q) + 1
          <5>1. Append(q, f)[i] = f
            BY <1>1, <4>2, AppendIs
          <5> QED
            BY <1>1, <2>0, <5>1
        <4>3. i \in 1 .. Len(q) \/ i = Len(q) + 1
          BY <1>1, AppendIs
        <4> QED
          BY <4>1, <4>2, <4>3
      <3> QED
        BY <1>1, <2>4, <3>1, <3>2
    <2> QED
      BY <1>4, <2>3, <2>4 DEF q
  <1>9. OwnHalves'
    <2>1. S.apply = None /\ S.target = None /\ S.owe_ack = S.armed
      BY <1>5, Ends DEF Engine, Own
    <2> QED
      BY <1>3, <2>1 DEF HandshakeHolds, OwnHalves, Node
  <1>10. (pc'[Responder] \in Sending => SameMode') /\ ring'[Responder] = <<>>
    <2>1. more => ms' = ms
      OBVIOUS
    <2> QED
      BY <1>2, <1>3, <2>1 DEF SameMode, Sending
  <1>11. TurnsAlternate'
    <2>1. \A n \in Node : /\ LastEnds(ring'[n])
                          /\ \A i \in 1 .. Len(ring'[n]) : ring'[n][i].valid
      BY <1>3, <1>8 DEF LastEnds, Node
    <2>2. ~Ended(ring'[Responder])
      BY <1>3 DEF Ended
    <2> QED
      BY <1>3, <1>8, <1>10, <2>1, <2>2 DEF TurnsAlternate
  <1>12. RequestsAreTrue'
    <2>1. /\ S.armed # None => more /\ S = R
          /\ more => S = R
      BY <1>5 DEF Engine
    <2>2. /\ R.armed # None => R.armed = ms[Initiator].target /\ ~R.probation
      BY DEF HandshakeHolds, RequestsAreTrue
    <2>3. /\ pc'[Initiator] \notin Sending /\ pc'[Responder] # "listen"
          /\ nib'[Responder] = nib[Responder] /\ Len(ring'[Responder]) = 0
          /\ more => pc'[Responder] \in Sending
          /\ ~more => pc'[Responder] \notin Sending
      BY <1>3 DEF Sending
    <2>4. S.armed # None => /\ pc'[Responder] \in Sending /\ S.armed = ms'[Initiator].target
                            /\ ~S.probation
      BY <1>3, <2>1, <2>2, <2>3
    <2>5. pc'[Responder] \in Sending
            => nib'[Responder] = IF S.armed = None THEN 0 ELSE CtrlEncode(S.armed, TRUE)
      BY <1>2, <2>1, <2>3
    <2>6. \A i \in 1 .. Len(ring'[Responder]) : IsRequest(ring[Responder][i].ctrl)'
      BY <2>3
    <2> QED
      BY <2>3, <2>4, <2>5, <2>6 DEF RequestsAreTrue
  <1>13. AnswersAreTrue'
    <2>1. \A c \in Good : AnswerOf(c)'
      OBVIOUS
    <2>2. heard[Initiator] => rxCtrl[Initiator] \in Good
      BY <1>6, TwoEnds DEF HandshakeHolds, AnswersAreTrue, TypeOK
    <2> HIDE DEF Good
    <2> QED
      BY <1>8, <2>1, <2>2 DEF AnswersAreTrue
  <1>14. ApartOnProbation'
    <2>1. CASE S = R
      BY <1>2, <1>3, <2>1 DEF ApartOnProbation, SameMode
    <2>2. CASE R.armed # None /\ ~more
      <3>1. /\ S.probation /\ S.prev = ms'[Initiator].current /\ pc'[Responder] = "top"
            /\ ~ms'[Initiator].probation
        BY <1>2, <1>3, <1>5, <2>2 DEF Engine, SameMode, HandshakeHolds, OwnHalves
      <3> QED
        BY <3>1, TwoEnds DEF ApartOnProbation, Node
    <2> QED
      BY <1>5, <2>1, <2>2
  <1> QED
    BY <1>9, <1>11, <1>12, <1>13, <1>14 DEF HandshakeHolds

(* The initiator's turn ends, with all of the answer taken or none: an ACK *)
(* joins it to the responder, or to where that is going back to.           *)
LEMMA InitiatorEndsKeeps ==
  ASSUME TypeOK, HandshakeHolds, NEW got \in BOOLEAN, NEW c \in Stamps,
         InitiatorEnds(got, c), pc[Initiator] = "listen",
         got => AnswerOf(c), got /\ ~SameMode => ms[Responder].probation,
         pc[Responder] = "top", ring[Responder] = <<>>,
         ring'[Initiator] = <<>>, ring'[Responder] = <<>>
  PROVE  HandshakeHolds'
  <1> DEFINE I == ms[Initiator]
             J == ms'[Initiator]
             R == ms[Responder]
  <1>1. /\ pc'[Initiator] = "top" /\ pc'[Responder] = "top" /\ heard'[Initiator] = FALSE
        /\ nib' = nib /\ ms'[Responder] = R
        /\ J = Service(IF got THEN AfterRecv(I, c, TRUE) ELSE I)
        /\ Len(ring'[Initiator]) = 0 /\ Len(ring'[Responder]) = 0
    BY TwoEnds DEF InitiatorEnds, TypeOK
  <1>2. /\ I \in Switches /\ Own(I) /\ I.armed = None /\ R.armed = None
        /\ got => c = 0 \/ (I.target # None /\ c = CtrlEncode(I.target, TRUE))
        /\ got /\ c # 0 => R.probation /\ I.target \in {R.current, R.prev}
        /\ I.target # None => ~I.probation /\ I.target # I.current
    BY Ends DEF AnswerOf, Sending, HandshakeHolds, OwnHalves
  <1>3. \/ got /\ c # 0 /\ Engine(J, I.target, I.current, None, None) /\ J.probation
        \/ got /\ c = 0 /\ Engine(J, I.current, I.prev, I.target, None) /\ ~J.probation
        \/ ~got /\ J = I
    <2>1. CASE ~got
      BY <1>1, <1>2, <2>1, NothingDue DEF Own
    <2>2. CASE got
      <3>1. J = Service(AfterRecv(I, c, TRUE))
        BY <1>1, <2>2
      <3>2. c # 0 => Left(I, I.target) = I.current
        BY <1>2, <2>2 DEF Left
      <3> HIDE DEF I
      <3> HIDE DEF J
      <3>3. /\ c = 0 => Engine(J, I.current, I.prev, I.target, None) /\ ~J.probation
            /\ c # 0 => Engine(J, I.target, Left(I, I.target), None, None) /\ J.probation
        BY <1>2, <2>2, <3>1, InitiatorHears
      <3> QED
        BY <2>2, <3>2, <3>3
    <2> QED
      BY <2>1, <2>2
  <1>4. OwnHalves'
    <2>1. /\ J.apply = None /\ J.armed = None /\ J.owe_ack = None
          /\ J.target # None => ~J.probation /\ J.target # J.current
      BY <1>2, <1>3 DEF Engine, Own
    <2> QED
      BY <1>1, <2>1, TwoEnds DEF HandshakeHolds, OwnHalves, Node
  <1>5. TurnsAlternate'
    <2>1. \A n \in Node : /\ LastEnds(ring'[n])
                          /\ \A i \in 1 .. Len(ring'[n]) : ring'[n][i].valid
      BY <1>1 DEF LastEnds, Node
    <2>2. ~Ended(ring'[Responder]) /\ ~Ended(ring'[Initiator]) /\ ~Answered'
      BY <1>1 DEF Ended, Answered
    <2> QED
      BY <1>1, <2>1, <2>2 DEF TurnsAlternate, Sending
  <1>6. RequestsAreTrue'
    BY <1>1, <1>2 DEF RequestsAreTrue, Sending
  <1>7. AnswersAreTrue'
    BY <1>1 DEF AnswersAreTrue
  <1>8. ApartOnProbation'
    <2> SUFFICES ASSUME ~SameMode'
                 PROVE  /\ R.probation \/ J.probation
                        /\ J.probation => J.prev = R.current
                        /\ R.probation => R.prev = J.current
      BY <1>1, TwoEnds DEF ApartOnProbation, Node, Answered
    <2>1. J.current # R.current
      BY <1>1 DEF SameMode
    <2>2. ~SameMode => /\ R.probation => R.prev = I.current
                       /\ I.probation => I.prev = R.current
                       /\ R.probation \/ I.probation
      BY TwoEnds DEF HandshakeHolds, ApartOnProbation, Node
    <2>3. CASE got /\ c # 0
      <3>1. /\ J.current = I.target /\ J.prev = I.current /\ J.probation /\ R.probation
            /\ I.target = R.prev /\ I.target # I.current
        BY <1>2, <1>3, <2>1, <2>3 DEF Engine
      <3>2. SameMode
        BY <2>2, <3>1
      <3> QED
        BY <3>1, <3>2 DEF SameMode
    <2>4. CASE got /\ c = 0
      <3>1. J.current = I.current /\ ~J.probation
        BY <1>3, <2>4 DEF Engine
      <3>2. ~SameMode
        BY <2>1, <3>1 DEF SameMode
      <3> QED
        BY <2>2, <2>4, <3>1, <3>2
    <2>5. CASE ~got
      <3>1. J = I
        BY <1>3, <2>5
      <3>2. ~SameMode
        BY <2>1, <3>1 DEF SameMode
      <3> QED
        BY <2>2, <3>1, <3>2
    <2> QED
      BY <2>3, <2>4, <2>5
  <1> QED
    BY <1>4, <1>5, <1>6, <1>7, <1>8 DEF HandshakeHolds

(* The responder turns round: it has heard all of the burst, and arms what *)
(* the initiator asks for.                                                 *)
LEMMA ResponderRepliesKeeps ==
  ASSUME TypeOK, HandshakeHolds, NEW c \in Stamps, ResponderReplies(c),
         SameMode, pc[Initiator] = "listen", pc[Responder] \notin Sending, IsRequest(c),
         ~Answered, ring'[Initiator] = ring[Initiator], ring'[Responder] = <<>>
  PROVE  HandshakeHolds'
  <1> DEFINE I == ms[Initiator]
             R == ms[Responder]
             S == ms'[Responder]
  <1>1. /\ pc'[Initiator] = "listen" /\ pc'[Responder] = "first" /\ heard' = heard
        /\ nib'[Initiator] = nib[Initiator] /\ nib'[Responder] = TxCtrl(S)
        /\ ms'[Initiator] = I /\ S = AfterRecv(R, c, FALSE)
        /\ Len(ring'[Responder]) = 0
    BY TwoEnds DEF ResponderReplies, TypeOK
  <1>2. /\ R \in Switches /\ Own(R) /\ R.armed = None /\ R.target = None
        /\ I.target \in Modes \union {None} /\ I.target # R.current
        /\ c = CtrlEncode(I.target, FALSE) \/ (c = 0 /\ I.target # None)
    <2>1. I.target \in Modes \union {None}
      BY Ends DEF Switches
    <2>2. R.current # None /\ I.current = R.current
      BY Ends, NoneIsNoMode DEF Switches, SameMode
    <2>3. I.target # None => I.target # I.current
      BY DEF HandshakeHolds, OwnHalves
    <2>4. c = CtrlEncode(I.target, FALSE) \/ (c = 0 /\ I.target # None)
      BY EmptyNibble DEF IsRequest
    <2> QED
      BY <2>1, <2>2, <2>3, <2>4, Ends
  <1>3. \E m \in {None, I.target} :
          Engine(S, R.current, R.prev, None, m) /\ ~S.probation
    <2> HIDE DEF R
    <2>1. CASE c = CtrlEncode(I.target, FALSE)
      <3>1. Engine(S, R.current, R.prev, None, I.target) /\ ~S.probation
        BY <1>1, <1>2, <2>1, ResponderHears
      <3> QED
        BY <3>1
    <2>2. CASE c = 0
      <3>1. c = CtrlEncode(None, FALSE) /\ None # R.current
        BY <2>2, Ends, EmptyNibble, NoneIsNoMode DEF Switches, R
      <3>2. Engine(S, R.current, R.prev, None, None) /\ ~S.probation
        BY <1>1, <1>2, <3>1, ResponderHears
      <3> QED
        BY <3>2
    <2> QED
      BY <1>2, <2>1, <2>2
  <1>4. /\ S.target = None /\ S.apply = None /\ S.owe_ack = S.armed /\ ~S.probation
        /\ S.current = R.current /\ S.armed \in {None, I.target}
    BY <1>3 DEF Engine, Own
  <1> HIDE DEF S
  <1>5. nib'[Responder] = IF S.armed = None THEN 0 ELSE CtrlEncode(S.armed, TRUE)
    BY <1>1, <1>4 DEF TxCtrl
  <1>6. SameMode' /\ ring[Initiator] = <<>> /\ ~heard[Initiator] /\ Len(ring[Initiator]) = 0
    BY <1>1, <1>4 DEF SameMode, Answered, S
  <1>7. OwnHalves'
    BY <1>1, <1>4 DEF HandshakeHolds, OwnHalves, Node, S
  <1>8. TurnsAlternate'
    <2>1. \A n \in Node : /\ LastEnds(ring'[n])
                          /\ \A i \in 1 .. Len(ring'[n]) : ring'[n][i].valid
      BY <1>1, <1>6 DEF LastEnds, Node
    <2>2. ~Ended(ring'[Responder]) /\ ~Ended(ring'[Initiator]) /\ ~Answered'
      BY <1>1, <1>6 DEF Ended, Answered
    <2> QED
      BY <1>1, <1>6, <2>1, <2>2 DEF TurnsAlternate, Sending
  <1>9. RequestsAreTrue'
    <2>1. /\ pc'[Initiator] \notin Sending /\ pc'[Responder] \in Sending
          /\ pc'[Responder] # "listen"
      BY <1>1 DEF Sending
    <2>2. S.armed # None => S.armed = ms'[Initiator].target /\ ~S.probation
      BY <1>1, <1>4
    <2>3. \A i \in 1 .. Len(ring'[Responder]) : IsRequest(ring[Responder][i].ctrl)'
      BY <1>1
    <2> QED
      BY <1>5, <2>1, <2>2, <2>3 DEF RequestsAreTrue, S
  <1>10. AnswersAreTrue'
    BY <1>1, <1>6 DEF AnswersAreTrue
  <1>11. ApartOnProbation'
    BY <1>6 DEF ApartOnProbation
  <1> QED
    BY <1>7, <1>8, <1>9, <1>10, <1>11 DEF HandshakeHolds

(* A frame is popped: in the middle of a burst it is noted, at its end the *)
(* turn ends.                                                              *)
LEMMA ReceiveKeeps ==
  ASSUME TypeOK, HandshakeHolds, NEW n \in Node, Receive(n)
  PROVE  HandshakeHolds'
  <1> DEFINE q == ring[n]
             f == Head(q)
  <1>1. /\ q \in Seq(Stamped) /\ q # <<>> /\ LastEnds(q)
        /\ f \in Stamped /\ f = q[1] /\ 1 \in 1 .. Len(q)
        /\ \A k \in Node : k # n => ring'[k] = ring[k]
        /\ ring'[n] = Tail(q) /\ Tail(q) \in Seq(Stamped)
        /\ \A i \in 1 .. Len(Tail(q)) : i + 1 \in 1 .. Len(q) /\ Tail(q)[i] = q[i + 1]
    <2>1. q \in Seq(Stamped) /\ q # <<>> /\ LastEnds(q)
      BY Ends DEF Receive
    <2>2. ring' = [ring EXCEPT ![n] = Tail(q)]
      BY DEF Receive
    <2>3. ring'[n] = Tail(q) /\ \A k \in Node : k # n => ring'[k] = ring[k]
      BY <2>2 DEF TypeOK
    <2> HIDE DEF q
    <2> QED
      BY <2>1, <2>3, TailIs DEF q
  <1>2. f.valid /\ \A i \in 1 .. Len(Tail(q)) : Tail(q)[i].valid
    <2>1. \A i \in 1 .. Len(q) : q[i].valid
      BY DEF HandshakeHolds, TurnsAlternate
    <2> HIDE DEF q
    <2> QED
      BY <1>1, <2>1
  <1>3. /\ LastEnds(Tail(q)) /\ (Ended(Tail(q)) => Ended(q))
        /\ ~f.more => Ended(q) /\ Tail(q) = <<>>
    <2> HIDE DEF q
    <2> QED
      BY <1>1, BurstTail
  <1>4. /\ rxCtrl'[n] = f.ctrl /\ f.ctrl \in Stamps
        /\ \A k \in Node : k # n => rxCtrl'[k] = rxCtrl[k]
    BY <1>1, <1>2 DEF Receive, Accept, TypeOK, Stamped
  <1>5. CASE n = Initiator
    <2>1. /\ pc[Initiator] = "listen" /\ Answered /\ pc[Responder] \in {"top", "last"}
          /\ ring[Responder] = <<>> /\ ring'[Responder] = <<>>
      BY <1>1, <1>5, TwoEnds DEF HandshakeHolds, TurnsAlternate, Answered
    <2>2. AnswerOf(f.ctrl) /\ \A i \in 1 .. Len(Tail(q)) : AnswerOf(Tail(q)[i].ctrl)
      <3>1. \A i \in 1 .. Len(q) : AnswerOf(q[i].ctrl)
        BY <1>5 DEF HandshakeHolds, AnswersAreTrue
      <3> HIDE DEF q
      <3> QED
        BY <1>1, <3>1
    <2>3. ~SameMode => ms[Responder].probation
      BY <2>1 DEF HandshakeHolds, ApartOnProbation
    <2>4. CASE ~f.more
      <3>1. InitiatorEnds(TRUE, f.ctrl) /\ ring'[Initiator] = <<>>
        BY <1>1, <1>3, <1>4, <1>5, <2>4 DEF Receive, TurnEnds
      <3>2. pc[Responder] = "top"
        BY <1>3, <1>5, <2>4 DEF HandshakeHolds, TurnsAlternate
      <3> QED
        BY <1>4, <2>1, <2>2, <2>3, <3>1, <3>2, InitiatorEndsKeeps
    <2>5. CASE f.more
      <3>1. /\ heard' = [heard EXCEPT ![n] = TRUE] /\ pc' = [pc EXCEPT ![n] = "listen"]
            /\ UNCHANGED <<ms, nib>>
        BY <2>5 DEF Receive
      <3>2. /\ heard'[Initiator] = TRUE /\ pc'[Initiator] = "listen"
            /\ pc'[Responder] = pc[Responder]
        BY <1>5, <3>1, TwoEnds DEF TypeOK
      <3>3. OwnHalves'
        BY <3>1 DEF HandshakeHolds, OwnHalves
      <3>4. TurnsAlternate'
        <4>1. \A k \in Node : /\ LastEnds(ring'[k])
                              /\ \A i \in 1 .. Len(ring'[k]) : ring'[k][i].valid
          BY <1>1, <1>2, <1>3 DEF HandshakeHolds, TurnsAlternate
        <4>2. /\ pc[Responder] \in Sending => SameMode
              /\ pc[Responder] # "listen"
              /\ Ended(ring'[Initiator]) => pc[Responder] = "top"
              /\ ~Ended(ring[Responder]) \/ pc[Initiator] = "listen"
          BY <1>1, <1>3, <1>5, <2>1 DEF HandshakeHolds, TurnsAlternate
        <4> QED
          BY <2>1, <3>1, <3>2, <4>1, <4>2 DEF TurnsAlternate, SameMode
      <3>5. RequestsAreTrue'
        <4>1. rxCtrl'[Responder] = rxCtrl[Responder] /\ ring'[Responder] = ring[Responder]
          BY <1>4, <1>5, <2>1, TwoEnds
        <4> QED
          BY <2>1, <3>1, <3>2, <4>1 DEF HandshakeHolds, RequestsAreTrue, IsRequest, Sending
      <3>6. AnswersAreTrue'
        <4>2. rxCtrl'[Initiator] = f.ctrl /\ ring'[Initiator] = Tail(q)
          BY <1>1, <1>4, <1>5
        <4> HIDE DEF f
        <4> HIDE DEF q
        <4> QED
          BY <2>2, <3>1, <3>2, <4>2 DEF AnswersAreTrue, AnswerOf
      <3>7. ApartOnProbation'
        BY <2>1, <2>3, <3>1, <3>2 DEF HandshakeHolds, ApartOnProbation, SameMode
      <3> QED
        BY <3>3, <3>4, <3>5, <3>6, <3>7 DEF HandshakeHolds
    <2> QED
      BY <2>4, <2>5
  <1>6. CASE n = Responder
    <2>1. /\ SameMode /\ pc[Initiator] \in {"last", "listen"} /\ ~Answered
          /\ pc[Responder] \notin Sending /\ ring'[Initiator] = ring[Initiator]
      BY <1>1, <1>6, TwoEnds DEF HandshakeHolds, TurnsAlternate
    <2>2. IsRequest(f.ctrl) /\ \A i \in 1 .. Len(Tail(q)) : IsRequest(Tail(q)[i].ctrl)
      <3>1. \A i \in 1 .. Len(q) : IsRequest(q[i].ctrl)
        BY <1>6 DEF HandshakeHolds, RequestsAreTrue
      <3> HIDE DEF q
      <3> QED
        BY <1>1, <3>1
    <2>3. CASE ~f.more
      <3>1. ResponderReplies(f.ctrl) /\ ring'[Responder] = <<>>
        BY <1>1, <1>3, <1>4, <1>6, <2>3, TwoEnds DEF Receive, TurnEnds
      <3>2. pc[Initiator] = "listen"
        BY <1>3, <1>6, <2>3 DEF HandshakeHolds, TurnsAlternate
      <3> QED
        BY <1>4, <2>1, <2>2, <3>1, <3>2, ResponderRepliesKeeps
    <2>4. CASE f.more
      <3>1. /\ heard' = [heard EXCEPT ![n] = TRUE] /\ pc' = [pc EXCEPT ![n] = "listen"]
            /\ UNCHANGED <<ms, nib>>
        BY <2>4 DEF Receive
      <3>2. /\ heard'[Initiator] = heard[Initiator] /\ pc'[Responder] = "listen"
            /\ pc'[Initiator] = pc[Initiator] /\ ~Answered' /\ Len(ring[Initiator]) = 0
            /\ ring[Initiator] = <<>> /\ ~heard[Initiator]
        BY <1>6, <2>1, <3>1, TwoEnds DEF TypeOK, Answered
      <3>3. OwnHalves'
        BY <3>1 DEF HandshakeHolds, OwnHalves
      <3>4. TurnsAlternate'
        <4>1. \A k \in Node : /\ LastEnds(ring'[k])
                              /\ \A i \in 1 .. Len(ring'[k]) : ring'[k][i].valid
          BY <1>1, <1>2, <1>3 DEF HandshakeHolds, TurnsAlternate
        <4>2. Ended(ring'[Responder]) => pc[Initiator] = "listen"
          BY <1>1, <1>3, <1>6 DEF HandshakeHolds, TurnsAlternate
        <4>3. ~Ended(ring'[Initiator])
          BY <2>1, <3>2 DEF Ended
        <4> QED
          BY <2>1, <3>1, <3>2, <4>1, <4>2, <4>3 DEF TurnsAlternate, SameMode, Sending
      <3>5. RequestsAreTrue'
        <4>1. rxCtrl'[Responder] = f.ctrl /\ ring'[Responder] = Tail(q)
              /\ ms[Responder].armed = None
          BY <1>1, <1>4, <1>6, <2>1, Ends
        <4> HIDE DEF f
        <4> HIDE DEF q
        <4>2. pc[Initiator] \in Sending => IsRequest(nib[Initiator])
          BY DEF HandshakeHolds, RequestsAreTrue
        <4> QED
          BY <2>2, <3>1, <3>2, <4>1, <4>2 DEF RequestsAreTrue, IsRequest, Sending
      <3>6. AnswersAreTrue'
        BY <2>1, <3>2 DEF AnswersAreTrue
      <3>7. ApartOnProbation'
        BY <2>1, <3>1 DEF ApartOnProbation, SameMode
      <3> QED
        BY <3>3, <3>4, <3>5, <3>6, <3>7 DEF HandshakeHolds
    <2> QED
      BY <2>3, <2>4
  <1> QED
    BY <1>5, <1>6 DEF Node

(* A timer ends the turn; without an early one, nothing more can come.     *)
LEMMA SilenceKeeps ==
  ASSUME TypeOK, OnlyLosses, HandshakeHolds, NEW n \in Node, Silence(n)
  PROVE  HandshakeHolds'
  <1>1. /\ pc[n] = "listen" /\ ring[n] = <<>> /\ ~PeerActive(n)
        /\ TurnEnds(n, heard[n], rxCtrl[n]) /\ ring' = ring
        /\ heard[n] \in BOOLEAN /\ rxCtrl[n] \in Stamps
    BY OnlyLossesDisturb DEF Silence, TypeOK
  <1>2. CASE n = Initiator
    <2>1. pc[Responder] = "top" /\ ring[Responder] = <<>>
      <3>1. CASE SameMode
        BY <1>1, <1>2, <3>1, TwoEnds DEF PeerActive, Sending, TypeOK
      <3>2. CASE ~SameMode
        BY <3>2 DEF HandshakeHolds, ApartOnProbation, TurnsAlternate
      <3> QED
        BY <3>1, <3>2
    <2>2. heard[Initiator] => AnswerOf(rxCtrl[Initiator])
      BY DEF HandshakeHolds, AnswersAreTrue
    <2>3. heard[Initiator] /\ ~SameMode => ms[Responder].probation
      BY DEF HandshakeHolds, ApartOnProbation, Answered
    <2>4. InitiatorEnds(heard[Initiator], rxCtrl[Initiator])
      BY <1>1, <1>2 DEF TurnEnds
    <2> QED
      BY <1>1, <1>2, <2>1, <2>2, <2>3, <2>4, InitiatorEndsKeeps
  <1>3. CASE n = Responder
    <2>1. SameMode /\ pc[Initiator] \in {"last", "listen"} /\ ~Answered
      BY <1>1, <1>3 DEF HandshakeHolds, TurnsAlternate
    <2>2. pc[Initiator] = "listen"
      BY <1>1, <1>3, <2>1, TwoEnds DEF PeerActive, Sending
    <2>3. IsRequest(rxCtrl[Responder])
      BY <1>1, <1>3 DEF HandshakeHolds, RequestsAreTrue
    <2>4. ResponderReplies(rxCtrl[Responder])
      BY <1>1, <1>3, TwoEnds DEF TurnEnds
    <2> QED
      BY <1>1, <1>3, <2>1, <2>2, <2>3, <2>4, ResponderRepliesKeeps DEF Sending
  <1> QED
    BY <1>2, <1>3 DEF Node
-----------------------------------------------------------------------------
LEMMA ModeInvInit == Init => ModeInv
  <1> SUFFICES ASSUME Init PROVE ModeInv
    OBVIOUS
  <1>1. \A n \in Node : ms[n] = Begin(Boot) /\ pc[n] = "top" /\ heard[n] = FALSE /\ ring[n] = <<>>
    BY DEF Init
  <1>2. SameMode /\ ~Answered
    BY <1>1, TwoEnds DEF SameMode, Answered
  <1>3. \A n \in Node : Len(ring[n]) = 0
    BY <1>1
  <1>4. OwnHalves
    BY <1>1, TwoEnds DEF OwnHalves, Begin
  <1>5. TurnsAlternate
    BY <1>1, <1>2, <1>3, TwoEnds DEF TurnsAlternate, LastEnds, Ended, Sending
  <1>6. RequestsAreTrue
    <2>1. /\ pc[Initiator] \notin Sending /\ pc[Responder] \notin Sending
          /\ pc[Responder] # "listen" /\ Len(ring[Responder]) = 0
      BY <1>1, <1>3, TwoEnds DEF Sending
    <2>2. ms[Responder].armed = None
      BY <1>1, TwoEnds DEF Begin
    <2> QED
      BY <2>1, <2>2 DEF RequestsAreTrue
  <1>7. AnswersAreTrue
    BY <1>1, <1>3, TwoEnds DEF AnswersAreTrue
  <1>8. ApartOnProbation
    BY <1>2 DEF ApartOnProbation
  <1> QED
    BY <1>4, <1>5, <1>6, <1>7, <1>8, TypeInit DEF ModeInv, HandshakeHolds

LEMMA ModeInvStep == ModeInv /\ [Next]_vars => ModeInv'
  <1> SUFFICES ASSUME ModeInv, [Next]_vars PROVE ModeInv'
    OBVIOUS
  <1>1. TypeOK /\ TypeOK'
    BY TypeStep DEF ModeInv
  <1>2. OnlyLosses' <=> OnlyLosses
    <2>1. set' = set
      BY DEF Next, Handshake, Recovery, Turn, vars, ProbationEnds, MaybeRendezvous, Restart,
             MaybeReboot, PowerCycle, AskFor, GiveUp, StartBurst, SendFirst, SendLast, Receive,
             Silence, NoiseArrives
    <2> QED
      BY <2>1 DEF OnlyLosses
  <1> SUFFICES ASSUME OnlyLosses PROVE HandshakeHolds'
    BY <1>1, <1>2 DEF ModeInv
  <1>3. HandshakeHolds
    BY DEF ModeInv
  <1>4. ASSUME NEW n \in Node, SendFirst(n) PROVE HandshakeHolds'
    <2>1. /\ pc[n] \in Sending
          /\ Transmit(n, [ctrl |-> nib[n], more |-> TRUE, valid |-> TRUE])
          /\ pc' = [pc EXCEPT ![n] = "last"]
          /\ UNCHANGED <<ms, nib, rxCtrl>> /\ UNCHANGED heard
      BY <1>4 DEF SendFirst, Sending
    <2>2. CASE n = Initiator
      BY <1>1, <1>3, <2>1, <2>2, InitiatorSendsKeeps
    <2>3. CASE n = Responder
      BY <1>1, <1>3, <2>1, <2>3, ResponderSendsKeeps
    <2> QED
      BY <2>2, <2>3 DEF Node
  <1>5. ASSUME NEW n \in Node, SendLast(n) PROVE HandshakeHolds'
    <2>1. /\ pc[n] \in Sending
          /\ Transmit(n, [ctrl |-> nib[n], more |-> FALSE, valid |-> TRUE])
          /\ UNCHANGED <<nib, rxCtrl>> /\ heard' = [heard EXCEPT ![n] = FALSE]
      BY <1>5 DEF SendLast
    <2>2. CASE n = Initiator
      <3>1. pc' = [pc EXCEPT ![Initiator] = "listen"] /\ UNCHANGED ms /\ heard'[Initiator] = FALSE
        BY <1>1, <1>5, <2>1, <2>2 DEF SendLast, TypeOK
      <3> QED
        BY <1>1, <1>3, <2>1, <2>2, <3>1, InitiatorSendsKeeps
    <2>3. CASE n = Responder
      <3>1. /\ pc' = [pc EXCEPT ![Responder] = "top"]
            /\ ms' = [ms EXCEPT ![Responder] = Service(AfterSend(ms[Responder]))]
            /\ heard'[Initiator] = heard[Initiator]
        BY <1>1, <1>5, <2>1, <2>3, TwoEnds DEF SendLast, TypeOK
      <3> QED
        BY <1>1, <1>3, <2>1, <2>3, <3>1, ResponderSendsKeeps
    <2> QED
      BY <2>2, <2>3 DEF Node
  <1>6. ASSUME UNCHANGED vars PROVE HandshakeHolds'
    BY <1>3, <1>6 DEF vars, HandshakeHolds, OwnHalves, TurnsAlternate, RequestsAreTrue,
          AnswersAreTrue, ApartOnProbation, SameMode, Answered, IsRequest, AnswerOf
  <1>7. ASSUME NEW n \in Node PROVE ~NoiseArrives(n) /\ ~Recovery
    BY OnlyLossesDisturb DEF NoiseArrives
  <1>8. ASSUME NEW n \in Node, Turn(n) PROVE HandshakeHolds'
    BY <1>1, <1>3, <1>4, <1>5, <1>8, StartBurstKeeps, ReceiveKeeps, SilenceKeeps DEF Turn
  <1> QED
    BY <1>1, <1>3, <1>6, <1>7, <1>8, ProbationEndsKeeps, AskForKeeps, GiveUpKeeps, TwoEnds
    DEF Next, Handshake

(* modeswitch.h: what a nibble names is a mode of the table, and the       *)
(* handshake's own invariant holds wherever nothing but losses disturbs it. *)
THEOREM HandshakeSound == Spec => []ModeInv
  BY ModeInvInit, ModeInvStep, PTL DEF Spec

(* docs/MODE_SWITCH_SPEC.md, SAFETY: with no switch in flight and no       *)
(* probation pending the two ends are on the same mode.  Another pair's    *)
(* frames refute it (the run mode_neighbours), as a timer that is early    *)
(* and a restart do, so that the installations without a recovery are      *)
(* assumed to meet with losses only.                                       *)
THEOREM EndsAgreeAtRest ==
  ASSUME \A s \in Settings : s.ladder = {} => s.faults \subseteq {"loss"}
  PROVE  Spec => []QuiescentAgree
  <1>1. ModeInv => QuiescentAgree
    <2> SUFFICES ASSUME ModeInv, Quiescent, set.ladder = {} PROVE SameMode
      BY DEF QuiescentAgree
    <2>1. set \in Settings
      BY DEF ModeInv, TypeOK
    <2>2. HandshakeHolds
      BY <2>1 DEF ModeInv, OnlyLosses
    <2> QED
      BY <2>2 DEF HandshakeHolds, ApartOnProbation, Quiescent, Busy
  <1> QED
    BY <1>1, ModeInvInit, ModeInvStep, PTL DEF Spec
=============================================================================
