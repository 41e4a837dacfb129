------------------------------- MODULE ArqLink -------------------------------
(***************************************************************************)
(* Two link-layer endpoints over one half-duplex radio channel: the turn   *)
(* engine of Device::LoopInitiator / LoopResponder (src/fw_device.cpp,     *)
(* the same protocol as lib/linklayer/modem.h), the frame ring the radio   *)
(* task fills and Radio::Rx pops, and the host's two ends of the stream.   *)
(*                                                                         *)
(* A radio hears nothing between Radio::Tx (which leaves it in standby)    *)
(* and the next Radio::Rx (which re-arms it): a frame sent in that window  *)
(* is gone, so two nodes that both believe it is their turn talk over each *)
(* other.  Any other loss is an RF loss, counted against MaxLoss.          *)
(***************************************************************************)
EXTENDS LinkLayer

CONSTANTS
  Initiator, Responder,   \* the two nodes
  Windows,                \* window sizes DeriveTiming may pick for a mode
  Load,                   \* Load[n]: chunks node n's host writes in all
  Done,                   \* how many of the initiator's are through already
  AIRCAP,                 \* frames the radio task's ring holds
  MaxLoss,                \* bound: frames lost to RF in a behaviour
  MaxEarly,               \* bound: timeouts and replies that win a race
  MaxRetune               \* bound: window changes in a behaviour

Node == {Initiator, Responder}

ASSUME ArqConstants ==
  /\ Initiator # Responder
  /\ Windows # {} /\ Windows \subseteq 1 .. MAXWIN
  /\ Load \in [Node -> Nat] /\ Done \in Nat
  /\ AIRCAP \in Nat \ {0}
  /\ MaxLoss \in Nat /\ MaxEarly \in Nat /\ MaxRetune \in Nat

VARIABLES
  ll,       \* ll[n]: n's link-layer endpoint
  air,      \* air[n]: frames in n's radio ring, oldest first
  phase,    \* phase[n]: where n is in its turn loop
  sent,     \* sent[n]: n transmitted a frame this turn
  fed,      \* fed[n]: how many chunks n's host has written
  out,      \* out[n]: history, every chunk n has passed to its host
  budget    \* what is left of MaxLoss, MaxEarly and MaxRetune

vars == <<ll, air, phase, sent, fed, out, budget>>

Peer(n) == IF n = Initiator THEN Responder ELSE Initiator

(* "idle": between turns (initiator) or before any frame of the peer's     *)
(* burst (responder); "tx": sending a burst; "turned": burst sent, radio   *)
(* not yet listening; "rx": inside the peer's burst; "pump": the burst has *)
(* ended and PumpLinkOut is due.                                           *)
Phases == {"idle", "tx", "turned", "rx", "pump"}

(* Types and capacities: neither ring, window nor radio queue outgrows the *)
(* storage the code gives it, and sequence numbers, however Fill, Drain    *)
(* and AckProcess move them, stay within their width.                      *)
TypeOK ==
  /\ ll \in [Node -> Endpoint]
  /\ \A n \in Node : /\ Len(ll[n].sring) <= RINGCAP /\ Len(ll[n].rring) <= RINGCAP
                     /\ Len(ll[n].win) <= MAXWIN /\ Len(air[n]) <= AIRCAP
  /\ air \in [Node -> Seq(AirFrame)]
  /\ phase \in [Node -> Phases]
  /\ sent \in [Node -> BOOLEAN]
  /\ fed \in [Node -> Nat]
  /\ out \in [Node -> Seq(Chunks)]
  /\ budget \in [loss: Nat, early: Nat, retune: Nat]

UpTo(k) == [i \in 1 .. k |-> i]

(* Two fresh links, once the initiator's first Done chunks have been       *)
(* carried, read and acked: Done = 0 is the state after Setup.             *)
Carrying(n, w) ==
  LET at(node) == IF n = node THEN Done % SEQMOD ELSE 0
  IN [NewLink(w, 1) EXCEPT !.base = at(Initiator), !.next = at(Initiator),
                           !.rxNext = at(Responder),
                           !.peerEpoch = IF Done > 0 THEN 1 ELSE 0]

Init ==
  /\ \E w \in Windows : ll = [n \in Node |-> Carrying(n, w)]
  /\ air = [n \in Node |-> <<>>]
  /\ phase = [n \in Node |-> "idle"]
  /\ sent = [n \in Node |-> FALSE]
  /\ fed = [n \in Node |-> IF n = Initiator THEN Done ELSE 0]
  /\ out = [n \in Node |-> IF n = Responder THEN UpTo(Done) ELSE <<>>]
  /\ budget = [loss |-> MaxLoss, early |-> MaxEarly, retune |-> MaxRetune]

-----------------------------------------------------------------------------
(* The channel. *)

(* rx_armed_ is clear from Radio::Tx to the next Radio::Rx.  A node that   *)
(* still has fresh frames to send hears nothing.  One whose burst is over, *)
(* or may be, re-arms within a loop pass: a frame that starts before it    *)
(* has is a lost race, counted against MaxEarly.                           *)
Deaf(n)    == phase[n] = "tx" /\ sent[n] /\ MustPick(Fill(ll[n]))
Arming(n)  == phase[n] = "turned" \/ (phase[n] = "tx" /\ sent[n])
Reaches(n) == ~Deaf(n) /\ Len(air[n]) < AIRCAP

(* Radio::Tx: the frame reaches the peer's ring if the peer is receiving   *)
(* and its ring has a free slot, unless RF or the race loses it.           *)
Transmit(n, f) ==
  /\ sent' = [sent EXCEPT ![n] = TRUE]
  /\ \/ /\ air' = IF Reaches(Peer(n)) THEN [air EXCEPT ![Peer(n)] = Append(@, f)]
                                      ELSE air
        /\ UNCHANGED budget
     \/ /\ Reaches(Peer(n)) /\ budget.loss > 0
        /\ budget' = [budget EXCEPT !.loss = @ - 1]
        /\ UNCHANGED air
     \/ /\ Reaches(Peer(n)) /\ Arming(Peer(n)) /\ budget.early > 0
        /\ budget' = [budget EXCEPT !.early = @ - 1]
        /\ UNCHANGED air

-----------------------------------------------------------------------------
(* The host side, serviced by Host::Poll from the loop and, re-entrantly,  *)
(* from the radio's idle hook: it can run between any two steps.           *)

HostWrite(n) ==                                  \* IngestToLink -> Write
  /\ fed[n] < Load[n] /\ CanWrite(ll[n])
  /\ ll' = [ll EXCEPT ![n] = Write(@, fed[n] + 1)]
  /\ fed' = [fed EXCEPT ![n] = @ + 1]
  /\ UNCHANGED <<air, phase, sent, out, budget>>

Retune(n) ==         \* ApplyLinkTiming: a mode change re-derives the window
  /\ budget.retune > 0
  /\ \E w \in Windows : /\ w # ll[n].window
                        /\ ll' = [ll EXCEPT ![n] = SetTiming(@, w)]
  /\ budget' = [budget EXCEPT !.retune = @ - 1]
  /\ UNCHANGED <<air, phase, sent, fed, out>>

-----------------------------------------------------------------------------
(* A transmit turn. *)

StartTurn(n) ==                        \* the initiator's turn gap is over
  /\ n = Initiator /\ phase[n] = "idle"
  /\ phase' = [phase EXCEPT ![n] = "tx"]
  /\ ll' = [ll EXCEPT ![n] = BeginTurn(@)]
  /\ sent' = [sent EXCEPT ![n] = FALSE]
  /\ UNCHANGED <<air, fed, out, budget>>

SendData(n, i) ==                      \* NextTx picks frame i of the window
  LET e == Fill(ll[n])
  IN /\ phase[n] = "tx"
     /\ i \in 1 .. Len(e.win) /\ MayPick(e, i)
     /\ ll' = [ll EXCEPT ![n] = Picked(e, i)]
     /\ Transmit(n, DataFrame(e, i))
     /\ UNCHANGED <<phase, fed, out>>

SendAck(n) ==                          \* NextTx falls through to a lone ack
  LET e == Fill(ll[n])
  IN /\ phase[n] = "tx" /\ ~MustPick(e) /\ OwesAck(e)
     /\ ll' = [ll EXCEPT ![n] = AckSent(e)]
     /\ Transmit(n, BareFrame(e))
     /\ UNCHANGED <<phase, fed, out>>

SendPoll(n) ==                         \* nothing was sent: MakePoll
  LET e == Fill(ll[n])
  IN /\ phase[n] = "tx" /\ ~MustPick(e) /\ ~OwesAck(e) /\ ~sent[n]
     /\ ll' = [ll EXCEPT ![n] = e]
     /\ Transmit(n, BareFrame(e))
     /\ phase' = [phase EXCEPT ![n] = "turned"]
     /\ UNCHANGED <<fed, out>>

EndBurst(n) ==                         \* NextTx has nothing more
  LET e == Fill(ll[n])
  IN /\ phase[n] = "tx" /\ ~MustPick(e) /\ ~OwesAck(e) /\ sent[n]
     /\ ll' = [ll EXCEPT ![n] = e]
     /\ phase' = [phase EXCEPT ![n] = "turned"]
     /\ UNCHANGED <<air, sent, fed, out, budget>>

Listen(n) ==                           \* the first Radio::Rx re-arms the radio
  /\ phase[n] = "turned"
  /\ phase' = [phase EXCEPT ![n] = IF n = Initiator THEN "rx" ELSE "idle"]
  /\ UNCHANGED <<ll, air, sent, fed, out, budget>>

-----------------------------------------------------------------------------
(* A receive turn. *)

Listening(n) == phase[n] = "rx" \/ (n = Responder /\ phase[n] = "idle")

Receive(n) ==              \* Radio::Rx pops a frame; F_MORE clear ends the burst
  /\ Listening(n) /\ air[n] # <<>>
  /\ ll' = [ll EXCEPT ![n] = OnRx(@, Head(air[n]))]
  /\ air' = [air EXCEPT ![n] = Tail(@)]
  /\ phase' = [phase EXCEPT ![n] = IF Head(air[n]).more THEN "rx" ELSE "pump"]
  /\ UNCHANGED <<sent, fed, out, budget>>

(* Nothing more is coming to n: the peer has finished its burst and, if it *)
(* is the responder, has no frame left that would make it answer.          *)
PeerSilent(n) ==
  IF n = Initiator
  THEN phase[Responder] \in {"idle", "turned"} /\ air[Responder] = <<>>
  ELSE phase[Initiator] # "tx"

Silence_ResponderOnly(n) ==     \* mutant: the initiator waits without a limit
  /\ n = Responder
  /\ phase[n] = "rx" /\ air[n] = <<>>
  /\ IF PeerSilent(n) THEN UNCHANGED budget
     ELSE /\ budget.early > 0
          /\ budget' = [budget EXCEPT !.early = @ - 1]
  /\ phase' = [phase EXCEPT ![n] = "pump"]
  /\ UNCHANGED <<ll, air, sent, fed, out>>

Silence(n) ==              \* Radio::Rx timed out inside the peer's burst
  /\ phase[n] = "rx" /\ air[n] = <<>>
  /\ IF PeerSilent(n) THEN UNCHANGED budget
     ELSE /\ budget.early > 0
          /\ budget' = [budget EXCEPT !.early = @ - 1]
  /\ phase' = [phase EXCEPT ![n] = "pump"]
  /\ UNCHANGED <<ll, air, sent, fed, out>>

(* One pass of PumpLinkOut's loop: Read() as much as the host output ring  *)
(* takes.                                                                  *)
PumpRead(n) ==
  /\ phase[n] = "pump"
  /\ \E k \in 1 .. Len(ll[n].rring) :
       /\ out' = [out EXCEPT ![n] = @ \o SubSeq(ll[n].rring, 1, k)]
       /\ ll' = [ll EXCEPT ![n] = Read(@, k)]
  /\ UNCHANGED <<air, phase, sent, fed, budget>>

(* The loop ends when the host ring is full, which it may be at any time,  *)
(* or a Read() comes back empty; the responder goes straight into its own  *)
(* burst.                                                                  *)
PumpDone(n) ==
  /\ phase[n] = "pump"
  /\ IF n = Responder
     THEN /\ ll' = [ll EXCEPT ![n] = BeginTurn(@)]
          /\ phase' = [phase EXCEPT ![n] = "tx"]
          /\ sent' = [sent EXCEPT ![n] = FALSE]
     ELSE /\ phase' = [phase EXCEPT ![n] = "idle"]
          /\ UNCHANGED <<ll, sent>>
  /\ UNCHANGED <<air, fed, out, budget>>

-----------------------------------------------------------------------------
SendSome(n) == \E i \in 1 .. Len(Fill(ll[n]).win) : SendData(n, i)

LoopStep(n) ==              \* what the node's main loop does next
  \/ StartTurn(n) \/ SendSome(n) \/ SendAck(n) \/ SendPoll(n) \/ EndBurst(n)
  \/ Listen(n) \/ Receive(n) \/ Silence(n) \/ PumpRead(n) \/ PumpDone(n)

Next ==
  \E n \in Node : LoopStep(n) \/ HostWrite(n) \/ Retune(n)

Spec == Init /\ [][Next]_vars

(* The loops never stop (the watchdog resets a node whose loop does), a    *)
(* host output ring is not full at every turn (a terminal reads it, or     *)
(* with DTR down HostTxDrain discards it), and the retransmit timer of the *)
(* oldest frame expires on some turn.                                      *)
Fairness ==
  \A n \in Node : /\ WF_vars(LoopStep(n))
                  /\ SF_vars(PumpRead(n))
                  /\ SF_vars(SendData(n, 1))

FairSpec == Spec /\ Fairness

-----------------------------------------------------------------------------
(* Safety. *)

Got(n)      == Len(out[n]) + Len(ll[n].rring)   \* chunks n has in order
Numbered(n) == fed[n] - Len(ll[n].sring)        \* chunks n has given a number
Gone(n)     == Numbered(n) - Len(ll[n].win)     \* chunks n has let go of

(* A host is given exactly the peer's chunks, in order, none twice and     *)
(* none missing, whatever the radio loses and however turns overlap        *)
(* (OnRx, DrainInOrder, Read).                                             *)
InOrder ==
  \A n \in Node :
    LET got == out[n] \o ll[n].rring
    IN got = UpTo(Len(got)) /\ Len(got) <= fed[Peer(n)]

(* Chunk c has reached node n: passed on, waiting in the ring, or buffered *)
(* out of order.                                                           *)
Has(n, c) == Holds(ll[n], Got(n), c)

(* What a sender has let go of, or marked acked, the receiver really has:  *)
(* no stale, reordered or partial ack makes NextTx or AckProcess forget a  *)
(* chunk that only the sender held, and the receiver never discards a      *)
(* frame it has SACKed.                                                    *)
AckedIsHeld ==
  \A n \in Node :
    LET w == ll[n].win
    IN /\ \A c \in 1 .. Gone(n) : Has(Peer(n), c)
       /\ \A i \in 1 .. Len(w) : w[i].acked => Has(Peer(n), w[i].pay)

(* The inductive invariant: in each direction the two endpoints and what   *)
(* is in the air between them agree on the chunks behind the 8-bit numbers,*)
(* and no epoch ever changes.                                              *)
Agree(n) ==
  LET p == Peer(n)
  IN /\ out[p] \o ll[p].rring = UpTo(Got(p))
     /\ Gone(n) \in Nat
     /\ Agreed(ll[n], Gone(n), ll[p], Got(p), air[p], air[n])

OneEpoch ==
  \A n \in Node : /\ ll[n].myEpoch = 1 /\ ll[n].peerEpoch \in {0, 1}
                  /\ \A i \in 1 .. Len(air[n]) : air[n][i].epoch = 1

IInv == TypeOK /\ OneEpoch /\ \A n \in Node : Agree(n)

(* Liveness. *)

(* Send windows drain: acks keep coming even when no data flows back, so   *)
(* a sender does not retransmit for ever.                                  *)
WindowDrains ==
  \A n \in Node : (ll[n].win # <<>>) ~> (ll[n].win = <<>>)

(* Neither node waits for ever for a turn: a lost hand-off frame or two    *)
(* bursts talking over each other never leave both ends listening.         *)
TurnsContinue == \A n \in Node : []<>(phase[n] = "tx")

(* The link implements one reliable ordered pipe in each direction, safety *)
(* and liveness: every step is a write, an in-order delivery or a stutter  *)
(* of the pipe, whatever the two ARQs, turns and losses do underneath.     *)
FromInitiator == INSTANCE SerialPipe WITH fed <- fed[Initiator], out <- out[Responder]
FromResponder == INSTANCE SerialPipe WITH fed <- fed[Responder], out <- out[Initiator]
ImplementsPipes == FromInitiator!LiveSpec /\ FromResponder!LiveSpec
=============================================================================
