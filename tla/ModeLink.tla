------------------------------ MODULE ModeLink ------------------------------
(***************************************************************************)
(* Two nodes that change their PHY mode together over a half-duplex link   *)
(* on which a frame reaches only a receiver in the sender's mode.  The     *)
(* turn loops of fw_device.cpp are kept frame by frame, with the payload   *)
(* left out: a frame is its control nibble and its F_MORE flag.  The       *)
(* radio's mode is always the engine's current mode, because every caller  *)
(* of ApplyModeByIndex tells the engine.                                   *)
(***************************************************************************)
EXTENDS ModeSwitch, Sequences, FiniteSets

CONSTANTS Initiator, Responder,
          Medium,       \* the rendezvous mode
          Ludicrous,    \* the GFSK modes
          Boot,         \* the mode saved in flash
          RINGCAP,      \* frames the ring holds (the model's bound)
          Settings      \* the installations to look at, each a record
                        \*   auto: the nodes with FEAT_ADR set
                        \*   ladder: the recoveries at work, of Recoveries
                        \*   faults: what may go wrong, of Disturbances
                        \*   most: bound, how often in all
                        \*   asks: bound, modes asked for by AT+MODE or ADR

Node == {Initiator, Responder}

Recoveries == {"rendezvous", "reboot"}

(* A frame lost, another pair's frame, a silence timer that runs out while *)
(* the two can hear each other, a power cycle.                             *)
Disturbances == {"loss", "noise", "early", "reboot"}

ASSUME NodeAssumption == Initiator # Responder
ASSUME RingAssumption == RINGCAP \in Nat
ASSUME SettingsAssumption ==
  \A s \in Settings : /\ s.auto \subseteq Node /\ s.ladder \subseteq Recoveries
                       /\ s.faults \subseteq Disturbances
                       /\ s.most \in Nat /\ s.asks \in Nat
ASSUME TableAssumption == Medium \in Modes /\ Ludicrous \subseteq Modes /\ Boot \in Modes

VARIABLES ms,       \* each node's mode-switch engine
          pc,       \* where each node's loop is
          nib,      \* the nibble stamped on this turn's frames
          rxCtrl,   \* the nibble of the last frame the link accepted
          heard,    \* Rx returned a frame this turn, whatever it was
          ring,     \* frames received and not yet popped
          linked,   \* heard a valid frame since boot
          set,      \* the installation, one of Settings; it never changes
          budget    \* what is left of the bounds above

vars == <<ms, pc, nib, rxCtrl, heard, ring, linked, set, budget>>

Peer(n) == CHOOSE p \in Node : p # n

Frame == [ctrl : Nibbles, more : BOOLEAN, valid : BOOLEAN]

(* A frame that OnRx rejects, another pair's or one that fails to decode:  *)
(* it tells nothing and does not end a burst.                              *)
Noise == [ctrl |-> 0, more |-> TRUE, valid |-> FALSE]

Sending == {"first", "last"}

Init == /\ ms = [n \in Node |-> Begin(Boot)]
        /\ pc = [n \in Node |-> "top"]
        /\ nib = [n \in Node |-> 0]
        /\ rxCtrl = [n \in Node |-> 0]
        /\ heard = [n \in Node |-> FALSE]
        /\ ring = [n \in Node |-> <<>>]
        /\ linked = [n \in Node |-> FALSE]
        /\ set \in Settings
        /\ budget = [fault |-> set.most, request |-> set.asks]

SameMode == ms[Initiator].current = ms[Responder].current

Spend(what) == /\ budget[what] > 0
               /\ budget' = [budget EXCEPT ![what] = @ - 1]

Fault(kind) == kind \in set.faults /\ Spend("fault")

(* A silence timer runs out of its own accord when the two are deaf to     *)
(* each other; while they share a mode it takes a slow or unlucky peer.    *)
TimerRunsOut == IF SameMode THEN Fault("early") ELSE UNCHANGED budget
-----------------------------------------------------------------------------
(* The top of both loops. *)
ProbationEnds(n) ==
  /\ pc[n] = "top" /\ ms[n].probation
  /\ TimerRunsOut
  /\ ms' = [ms EXCEPT ![n] = Service(PollExpired(@))]
  /\ UNCHANGED <<pc, nib, rxCtrl, heard, ring, linked, set>>

(* A fallback for GFSK only. *)
MayRendezvous_GfskOnly(n) == ms[n].current \in Ludicrous

MayRendezvous(n) == n \in set.auto \/ ms[n].current \in Ludicrous

MaybeRendezvous(n) ==
  /\ "rendezvous" \in set.ladder
  /\ pc[n] = "top" /\ MayRendezvous(n) /\ ms[n].current # Medium
  /\ TimerRunsOut
  /\ ms' = [ms EXCEPT ![n] = Begin(Medium)]
  /\ rxCtrl' = [rxCtrl EXCEPT ![n] = 0]
  /\ UNCHANGED <<pc, nib, heard, ring, linked, set>>

Restart(n) ==
  /\ ms' = [ms EXCEPT ![n] = Begin(Boot)]
  /\ pc' = [pc EXCEPT ![n] = "top"]
  /\ nib' = [nib EXCEPT ![n] = 0]
  /\ rxCtrl' = [rxCtrl EXCEPT ![n] = 0]
  /\ heard' = [heard EXCEPT ![n] = FALSE]
  /\ ring' = [ring EXCEPT ![n] = <<>>]
  /\ linked' = [linked EXCEPT ![n] = FALSE]
  /\ UNCHANGED set

MaybeReboot(n) ==
  /\ "reboot" \in set.ladder
  /\ pc[n] = "top" /\ linked[n] /\ ~SameMode
  /\ Restart(n)
  /\ UNCHANGED budget

PowerCycle(n) == Fault("reboot") /\ Restart(n)

(* AT+MODE on the initiator, or DriveAdr; AT also runs from the idle hook. *)
AskFor(m) ==
  /\ Spend("request")
  /\ ~Busy(ms[Initiator]) /\ m # ms[Initiator].current
  /\ ms' = [ms EXCEPT ![Initiator] = Request(@, m)]
  /\ UNCHANGED <<pc, nib, rxCtrl, heard, ring, linked, set>>

(* DriveAdr gives up a switch that has been in flight for too long. *)
GiveUp ==
  /\ pc[Initiator] = "top" /\ Initiator \in set.auto /\ Busy(ms[Initiator])
  /\ TimerRunsOut
  /\ ms' = [ms EXCEPT ![Initiator] = Abort(@)]
  /\ UNCHANGED <<pc, nib, rxCtrl, heard, ring, linked, set>>
-----------------------------------------------------------------------------
(* The transmit half of a turn. *)
StartBurst ==
  /\ pc[Initiator] = "top"
  /\ nib' = [nib EXCEPT ![Initiator] = TxCtrl(ms[Initiator])]
  /\ pc' = [pc EXCEPT ![Initiator] = "first"]
  /\ UNCHANGED <<ms, rxCtrl, heard, ring, linked, budget, set>>

Hears(n) == SameMode /\ pc[n] \notin Sending

Arrives(n, f) == /\ Len(ring[n]) < RINGCAP
                 /\ ring' = [ring EXCEPT ![n] = Append(@, f)]

(* Radio::Tx: off the air at a receiver that is deaf, in another mode or   *)
(* full; else received, or dropped by the channel.                         *)
Transmit(n, f) ==
  LET p == Peer(n)
  IN \/ Hears(p) /\ Arrives(p, f) /\ UNCHANGED budget
     \/ ~(Hears(p) /\ Len(ring[p]) < RINGCAP) /\ UNCHANGED <<ring, budget>>
     \/ Hears(p) /\ Fault("loss") /\ UNCHANGED ring

(* A burst is one frame or two; the state after it is the caller's. *)
SendFirst(n) ==
  /\ pc[n] = "first"
  /\ Transmit(n, [ctrl |-> nib[n], more |-> TRUE, valid |-> TRUE])
  /\ pc' = [pc EXCEPT ![n] = "last"]
  /\ UNCHANGED <<ms, nib, rxCtrl, heard, linked, set>>

SendLast(n) ==
  /\ pc[n] \in Sending
  /\ Transmit(n, [ctrl |-> nib[n], more |-> FALSE, valid |-> TRUE])
  /\ IF n = Initiator
     THEN /\ pc' = [pc EXCEPT ![n] = "listen"]
          /\ UNCHANGED ms
     ELSE /\ pc' = [pc EXCEPT ![n] = "top"]
          /\ ms' = [ms EXCEPT ![n] = Service(AfterSend(@))]
  /\ heard' = [heard EXCEPT ![n] = FALSE]
  /\ UNCHANGED <<nib, rxCtrl, linked, set>>
-----------------------------------------------------------------------------
(* The receive half of a turn. *)
Accept(n, f) ==
  /\ rxCtrl' = [rxCtrl EXCEPT ![n] = IF f.valid THEN f.ctrl ELSE @]
  /\ linked' = [linked EXCEPT ![n] = @ \/ f.valid]

(* The initiator's turn ends: the switch engine hears of the turn, if      *)
(* anything was received, and a committed switch is applied.               *)
InitiatorEnds(got, ctrl) ==
  /\ ms' = [ms EXCEPT ![Initiator] =
              Service(IF got THEN AfterRecv(@, ctrl, TRUE) ELSE @)]
  /\ pc' = [pc EXCEPT ![Initiator] = "top"]
  /\ heard' = [heard EXCEPT ![Initiator] = FALSE]
  /\ UNCHANGED nib

(* The responder turns round: the nibble it stamps is its answer. *)
ResponderReplies(ctrl) ==
  LET next == AfterRecv(ms[Responder], ctrl, FALSE)
  IN /\ ms' = [ms EXCEPT ![Responder] = next]
     /\ nib' = [nib EXCEPT ![Responder] = TxCtrl(next)]
     /\ pc' = [pc EXCEPT ![Responder] = "first"]
     /\ UNCHANGED heard

TurnEnds(n, got, ctrl) ==
  IF n = Initiator THEN InitiatorEnds(got, ctrl) ELSE ResponderReplies(ctrl)

Listens(n) == pc[n] = "listen" \/ (n = Responder /\ pc[n] = "top")

Receive(n) ==
  /\ Listens(n) /\ ring[n] # <<>>
  /\ ring' = [ring EXCEPT ![n] = Tail(@)]
  /\ LET f == Head(ring[n])
     IN /\ Accept(n, f)
        /\ IF ~f.more
           THEN TurnEnds(n, TRUE, rxCtrl'[n])
           ELSE /\ heard' = [heard EXCEPT ![n] = TRUE]
                /\ pc' = [pc EXCEPT ![n] = "listen"]
                /\ UNCHANGED <<ms, nib>>
  /\ UNCHANGED <<set, budget>>

(* More of a burst, or an answer, may still come. *)
PeerActive(n) == /\ SameMode
                 /\ \/ pc[Peer(n)] \in Sending
                    \/ n = Initiator /\ (ring[Responder] # <<>> \/ pc[Responder] = "listen")

(* turn_rx_ms or interframe_ms runs out. *)
Silence(n) ==
  /\ pc[n] = "listen" /\ ring[n] = <<>>
  /\ IF PeerActive(n) THEN Fault("early") ELSE UNCHANGED budget
  /\ TurnEnds(n, heard[n], rxCtrl[n])
  /\ UNCHANGED <<rxCtrl, ring, linked, set>>

(* Another pair's frame, or one damaged in a way the radio's CRC misses. *)
NoiseArrives(n) ==
  /\ pc[n] \notin Sending /\ Fault("noise") /\ Arrives(n, Noise)
  /\ UNCHANGED <<ms, pc, nib, rxCtrl, heard, linked, set>>
-----------------------------------------------------------------------------
Turn(n) == \/ n = Initiator /\ StartBurst
           \/ SendFirst(n) \/ SendLast(n) \/ Receive(n) \/ Silence(n)

(* The handshake on its own, and the recoveries beneath it. *)
Handshake == \/ \E n \in Node : Turn(n) \/ ProbationEnds(n) \/ NoiseArrives(n)
             \/ \E m \in Modes : AskFor(m)
             \/ GiveUp

Recovery == \E n \in Node : MaybeRendezvous(n) \/ MaybeReboot(n) \/ PowerCycle(n)

Next == Handshake \/ Recovery

Spec == Init /\ [][Next]_vars

(* The loops run, and a clock of silence that has run out is looked at on  *)
(* every pass of the loop: it is strongly fair although the loop is        *)
(* elsewhere in between.                                                   *)
Fairness == /\ \A n \in Node : /\ WF_vars(Turn(n)) /\ WF_vars(SendLast(n))
                               /\ SF_vars(ProbationEnds(n))
                               /\ SF_vars(MaybeRendezvous(n))
                               /\ SF_vars(MaybeReboot(n))
            /\ SF_vars(GiveUp)

FairSpec == Spec /\ Fairness
-----------------------------------------------------------------------------
(* The nibbles that TxCtrl makes of the modes of the table.                *)
Stamps == {0} \union {CtrlEncode(m, ack) : m \in Modes, ack \in BOOLEAN}

(* Types: a nibble, encoded by TxCtrl and decoded by AfterRecv, only ever  *)
(* names a mode of the table; no ring outgrows its bound.                  *)
TypeOK ==
  /\ ms \in [Node -> Switches]
  /\ pc \in [Node -> {"top", "first", "last", "listen"}]
  /\ nib \in [Node -> Stamps] /\ rxCtrl \in [Node -> Stamps]
  /\ heard \in [Node -> BOOLEAN]
  /\ ring \in [Node -> Seq([ctrl : Stamps, more : BOOLEAN, valid : BOOLEAN])]
  /\ \A n \in Node : Len(ring[n]) <= RINGCAP
  /\ linked \in [Node -> BOOLEAN] /\ set \in Settings
  /\ budget \in [{"fault", "request"} -> Nat]

Quiescent == \A n \in Node : ~Busy(ms[n])

(* docs/MODE_SWITCH_SPEC.md, SAFETY: with no switch in flight and no       *)
(* probation pending the two ends are on the same mode, as long as no      *)
(* recovery (MaybeRendezvous, MaybeReboot) moves one of them on its own.   *)
QuiescentAgree == Quiescent /\ set.ladder = {} => SameMode

(* What the handshake keeps where nothing but losses disturbs it and no    *)
(* recovery is at work, so that QuiescentAgree holds there.                *)
OnlyLosses == set.ladder = {} /\ set.faults \subseteq {"loss"}

(* Each end uses its own half of the engine; a switch that is due is       *)
(* applied within the step that makes it due.                              *)
OwnHalves ==
  /\ \A n \in Node : ms[n].apply = None
  /\ ms[Initiator].armed = None /\ ms[Initiator].owe_ack = None
  /\ ms[Responder].target = None
  /\ ms[Responder].owe_ack = ms[Responder].armed
  /\ ms[Initiator].target # None
       => ~ms[Initiator].probation /\ ms[Initiator].target # ms[Initiator].current

(* The turns alternate: who transmits is listened to, and has heard all    *)
(* of the other's burst, which ends with its last frame.                   *)
LastEnds(frames) == \A i \in 1 .. Len(frames) : ~frames[i].more => i = Len(frames)
Ended(frames) == \E i \in 1 .. Len(frames) : ~frames[i].more
Answered == ring[Initiator] # <<>> \/ heard[Initiator]

TurnsAlternate ==
  /\ \A n \in Node : LastEnds(ring[n]) /\ \A i \in 1 .. Len(ring[n]) : ring[n][i].valid
  /\ pc[Responder] \in Sending
       => SameMode /\ pc[Initiator] = "listen" /\ ring[Responder] = <<>>
  /\ pc[Responder] = "listen" \/ ring[Responder] # <<>>
       => SameMode /\ pc[Initiator] \in {"last", "listen"} /\ ~Answered
  /\ Ended(ring[Responder]) => pc[Initiator] = "listen"
  /\ Ended(ring[Initiator]) => pc[Responder] = "top"
  /\ Answered => pc[Initiator] = "listen" /\ pc[Responder] \in {"top", "last"}

(* A request under way is the initiator's; the responder arms what it has  *)
(* been asked for, and says so in every frame of its answer.               *)
IsRequest(ctrl) == ctrl \in {0, CtrlEncode(ms[Initiator].target, FALSE)}

RequestsAreTrue ==
  /\ pc[Initiator] \in Sending => IsRequest(nib[Initiator])
  /\ \A i \in 1 .. Len(ring[Responder]) : IsRequest(ring[Responder][i].ctrl)
  /\ pc[Responder] = "listen" => IsRequest(rxCtrl[Responder])
  /\ LET armed == ms[Responder].armed
     IN  /\ armed # None => /\ pc[Responder] \in Sending /\ armed = ms[Initiator].target
                            /\ ~ms[Responder].probation
         /\ pc[Responder] \in Sending
              => nib[Responder] = IF armed = None THEN 0 ELSE CtrlEncode(armed, TRUE)

(* An answer on its way to the initiator is about its request, and comes   *)
(* from a responder that is about to switch, has switched, or has come     *)
(* back since and would go there again.                                    *)
AnswerOf(ctrl) ==
  \/ ctrl = 0
  \/ LET m == ms[Initiator].target
         r == ms[Responder]
     IN  /\ m # None /\ ctrl = CtrlEncode(m, TRUE)
         /\ \/ pc[Responder] = "last" /\ r.armed = m
            \/ pc[Responder] = "top" /\ r.probation /\ m \in {r.current, r.prev}

AnswersAreTrue ==
  /\ \A i \in 1 .. Len(ring[Initiator]) : AnswerOf(ring[Initiator][i].ctrl)
  /\ heard[Initiator] => AnswerOf(rxCtrl[Initiator])

(* Ends in two modes: one of them is on probation, each that is came from  *)
(* the other's mode, and the responder waits with nothing in its ring.     *)
ApartOnProbation ==
  ~SameMode =>
    /\ \E n \in Node : ms[n].probation
    /\ \A n \in Node : ms[n].probation => ms[n].prev = ms[Peer(n)].current
    /\ pc[Responder] = "top"
    /\ Answered => ms[Responder].probation

HandshakeHolds == /\ OwnHalves /\ TurnsAlternate /\ RequestsAreTrue /\ AnswersAreTrue
                  /\ ApartOnProbation

ModeInv == TypeOK /\ (OnlyLosses => HandshakeHolds)

(* docs/MODE_SWITCH_SPEC.md, LIVENESS: once the channel stops dropping     *)
(* frames both ends come to rest on the same mode.                         *)
Reconverges == <>[](Quiescent /\ SameMode)
=============================================================================
