------------------------------ MODULE LinkLayer ------------------------------
(***************************************************************************)
(* One endpoint of the Selective-Repeat ARQ (class LinkLayer of            *)
(* lib/linklayer/linklayer.h) as operators on an endpoint record: each     *)
(* operator takes the object's state and returns the state one call of the *)
(* method leaves behind.  ArqLink and LinkReset compose two endpoints.     *)
(*                                                                         *)
(* Data.  A "chunk" stands for the up to MAXPAY bytes that NextTx takes    *)
(* from the send ring for one frame; both rings hold chunks.  Compression, *)
(* AEAD sealing and address filtering do not change which frames the two   *)
(* paired nodes accept from each other and are left out.                   *)
(***************************************************************************)
EXTENDS Integers, Sequences, FiniteSets

CONSTANTS
  MAXWIN,    \* receive slots, and the cap on the send window   (code: 16)
  SEQMOD,    \* size of the sequence space, a multiple of MAXWIN (code: 256)
  RINGCAP,   \* chunks a send or receive ring can hold
  EPOCHS     \* number of epoch values, 0 (unknown) included    (code: 256)

ASSUME LinkConstants ==
  /\ MAXWIN \in Nat \ {0}
  /\ SEQMOD \in Nat /\ 2 * MAXWIN < SEQMOD
  /\ RINGCAP \in Nat \ {0}
  /\ EPOCHS \in Nat /\ EPOCHS >= 2

\* A slot index, seq & (MAXWIN - 1), does not jump where seq wraps.
ASSUME SlotConstants == SEQMOD % MAXWIN = 0

Seqs   == 0 .. SEQMOD - 1
Slots  == 0 .. MAXWIN - 1
Chunks == Nat                 \* the k-th chunk a host writes is the number k

TxFrame == [seq: Seqs, pay: Chunks, sent: BOOLEAN, turn: BOOLEAN,
            acked: BOOLEAN, fast: BOOLEAN]
RxSlot  == [held: BOOLEAN, seq: Seqs, pay: Chunks]
AirFrame == [epoch: 1 .. EPOCHS - 1, data: BOOLEAN, more: BOOLEAN, seq: Seqs,
             pay: Chunks, ack: Seqs, sack: SUBSET (0 .. MAXWIN - 2)]

Endpoint ==
  [window: 1 .. MAXWIN,                   \* cfg_.window
   sring: Seq(Chunks), win: Seq(TxFrame), \* s_buf_; win_[0 .. inflight_)
   base: Seqs, next: Seqs,                \* base_seq_, next_seq_
   rxNext: Seqs, rx: [Slots -> RxSlot],   \* rx_next_, rx_
   rring: Seq(Chunks),                    \* r_buf_
   ackPending: BOOLEAN, ackSentTurn: BOOLEAN,
   myEpoch: 1 .. EPOCHS - 1, peerEpoch: 0 .. EPOCHS - 1,
   peerReset: BOOLEAN]

-----------------------------------------------------------------------------
(* Arithmetic and small helpers. *)

SeqAdd_NoWrap(s, k) == s + k              \* mutant: a counter wider than uint8_t
SeqAdd(s, k) == (s + k) % SEQMOD          \* uint8_t addition
SeqDist(a, b) == (a - b) % SEQMOD         \* (uint8_t)(a - b)
Least(a, b) == IF a <= b THEN a ELSE b

(* How many of 1, 2, .., n are in S before the first that is not: the      *)
(* value of a loop counter that stops at the first miss.                   *)
PrefixLength(S, n) == Cardinality({k \in 1 .. n : 1 .. k \subseteq S})

FreeSlot == [held |-> FALSE, seq |-> 0, pay |-> 0]
NewFrame(s, p) == [seq |-> s, pay |-> p, sent |-> FALSE, turn |-> FALSE,
                   acked |-> FALSE, fast |-> FALSE]

(* Init(Config): everything cleared; the configured epoch with 0 mapped to *)
(* 1, and no peer epoch known.                                             *)
NewLink(w, epoch) ==
  [window |-> w, sring |-> <<>>, win |-> <<>>, base |-> 0, next |-> 0,
   rxNext |-> 0, rx |-> [s \in Slots |-> FreeSlot], rring |-> <<>>,
   ackPending |-> FALSE, ackSentTurn |-> FALSE,
   myEpoch |-> IF epoch = 0 THEN 1 ELSE epoch, peerEpoch |-> 0,
   peerReset |-> FALSE]

(* NewSession(): drop everything queued, in flight and received, and bump  *)
(* our epoch.  The peer's epoch and the peer-reset edge are kept.          *)
NewSession(e) ==
  [NewLink(e.window, (e.myEpoch + 1) % EPOCHS)
     EXCEPT !.peerEpoch = e.peerEpoch, !.peerReset = e.peerReset]

(* SetTiming(): a new window size; frames in flight stay in flight. *)
SetTiming(e, w) == [e EXCEPT !.window = w]

-----------------------------------------------------------------------------
(* Host side: Write() and Read(). *)

CanWrite(e) == Len(e.sring) < RINGCAP
Write(e, c) == [e EXCEPT !.sring = Append(@, c)]

Held(e, s) == e.rx[s % MAXWIN].held /\ e.rx[s % MAXWIN].seq = s

(* Mutant: no RFree() check, so RPush drops what does not fit. *)
Drain_NoRoomCheck(e) ==
  LET run == {k \in 1 .. MAXWIN : Held(e, SeqAdd(e.rxNext, k - 1))}
      n   == PrefixLength(run, MAXWIN)
      At(k) == SeqAdd(e.rxNext, k - 1) % MAXWIN
      all == e.rring \o [k \in 1 .. n |-> e.rx[At(k)].pay]
  IN [e EXCEPT !.rring  = SubSeq(all, 1, Least(RINGCAP, Len(all))),
               !.rx     = [s \in Slots |-> IF \E k \in 1 .. n : s = At(k)
                                           THEN FreeSlot ELSE e.rx[s]],
               !.rxNext = SeqAdd(@, n)]

(* DrainInOrder(): move the contiguous run of buffered frames from         *)
(* rx_next_ into the receive ring for as long as the ring has room.        *)
Drain(e) ==
  LET run == {k \in 1 .. MAXWIN : Held(e, SeqAdd(e.rxNext, k - 1))}
      n   == Least(RINGCAP - Len(e.rring), PrefixLength(run, MAXWIN))
      At(k) == SeqAdd(e.rxNext, k - 1) % MAXWIN
  IN [e EXCEPT !.rring  = @ \o [k \in 1 .. n |-> e.rx[At(k)].pay],
               !.rx     = [s \in Slots |-> IF \E k \in 1 .. n : s = At(k)
                                           THEN FreeSlot ELSE e.rx[s]],
               !.rxNext = SeqAdd(@, n)]

(* Read(): pop up to k chunks, then drain what backpressure was holding. *)
Read(e, k) == Drain([e EXCEPT !.rring = SubSeq(@, k + 1, Len(@))])

-----------------------------------------------------------------------------
(* Transmit side: BeginTurn(), NextTx(), MakePoll(). *)

BeginTurn(e) ==
  [e EXCEPT !.win = [i \in 1 .. Len(e.win) |-> [e.win[i] EXCEPT !.turn = FALSE]],
            !.ackSentTurn = FALSE]

(* NextTx, first loop: fill the window with fresh frames. *)
Fill(e) ==
  LET room == e.window - Len(e.win)
      n    == IF room <= 0 THEN 0 ELSE Least(room, Len(e.sring))
  IN [e EXCEPT !.win   = @ \o [k \in 1 .. n |->
                                 NewFrame(SeqAdd(e.next, k - 1), e.sring[k])],
               !.next  = SeqAdd(@, n),
               !.sring = SubSeq(@, n + 1, Len(@))]

(* NextTx, second loop: the first unacked frame not yet sent this turn     *)
(* that is new, flagged for fast resend, or timed out.  A frame that was   *)
(* sent before may or may not have timed out, so a later frame is picked   *)
(* only past frames that are neither new nor flagged.                      *)
Waiting(f) == ~f.acked /\ ~f.turn
Urgent(f)  == ~f.sent \/ f.fast
MayPick_NoTimer(e, i) ==               \* mutant: no retransmit timeout
  /\ Waiting(e.win[i]) /\ Urgent(e.win[i])
  /\ \A j \in 1 .. i - 1 : Waiting(e.win[j]) => ~Urgent(e.win[j])
MayPick(e, i) ==
  /\ Waiting(e.win[i])
  /\ \A j \in 1 .. i - 1 : Waiting(e.win[j]) => ~Urgent(e.win[j])
MustPick(e) == \E i \in 1 .. Len(e.win) : Waiting(e.win[i]) /\ Urgent(e.win[i])

(* MoreToSend(): is another FRESH frame waiting this turn? *)
MoreToSend(e, i) ==
  \E j \in 1 .. Len(e.win) : j # i /\ Waiting(e.win[j]) /\ ~e.win[j].sent

Sack(e) == {k \in 0 .. MAXWIN - 2 : Held(e, SeqAdd(e.rxNext, 1 + k))}

(* Encode(): the header every frame carries. *)
Header(e, data, more, s, p) ==
  [epoch |-> e.myEpoch, data |-> data, more |-> more, seq |-> s, pay |-> p,
   ack |-> e.rxNext, sack |-> Sack(e)]

Picked(e, i) ==      \* the endpoint once frame i has been handed to the radio
  [e EXCEPT !.win[i].turn = TRUE, !.win[i].sent = TRUE, !.win[i].fast = FALSE,
            !.ackPending = FALSE]
DataFrame(e, i) ==
  Header(e, TRUE, MoreToSend(e, i), e.win[i].seq, e.win[i].pay)

OwesAck(e)  == e.ackPending /\ ~e.ackSentTurn
AckSent(e)  == [e EXCEPT !.ackSentTurn = TRUE, !.ackPending = FALSE]
BareFrame(e) == Header(e, FALSE, FALSE, 0, 0)      \* lone ack, and MakePoll()

-----------------------------------------------------------------------------
(* Receive side: OnRx(). *)

(* Mutant: a cumulative ack of the whole window is taken for a stale one. *)
AckProcess_CumOffByOne(e, ack, sack) ==
  LET cum    == SeqDist(ack, e.base)
      marked == [i \in 1 .. Len(e.win) |->
                   [e.win[i] EXCEPT !.acked =
                      \/ @
                      \/ cum < Len(e.win) /\ i <= cum
                      \/ \E k \in sack : e.win[i].seq = SeqAdd(ack, 1 + k)]]
      gone   == PrefixLength({i \in 1 .. Len(e.win) : marked[i].acked}, Len(e.win))
  IN [e EXCEPT !.win  = SubSeq(marked, gone + 1, Len(e.win)),
               !.base = SeqAdd(@, gone)]

(* AckProcess(): mark, slide, then flag the frames a later ack skipped. *)
AckProcess(e, ack, sack) ==
  LET cum    == SeqDist(ack, e.base)
      marked == [i \in 1 .. Len(e.win) |->
                   [e.win[i] EXCEPT !.acked =
                      \/ @
                      \/ cum <= Len(e.win) /\ i <= cum
                      \/ \E k \in sack : e.win[i].seq = SeqAdd(ack, 1 + k)]]
      gone   == PrefixLength({i \in 1 .. Len(e.win) : marked[i].acked}, Len(e.win))
      rest   == SubSeq(marked, gone + 1, Len(e.win))
  IN [e EXCEPT
        !.win  = [i \in 1 .. Len(rest) |->
                    [rest[i] EXCEPT !.fast =
                       \/ @
                       \/ /\ rest[i].sent /\ ~rest[i].acked
                          /\ \E j \in i + 1 .. Len(rest) : rest[j].acked]],
        !.base = SeqAdd(@, gone)]

(* Mutant: only the sending half restarts, the receive window stays. *)
TrackEpoch_SendOnly(e, epoch) ==
  IF e.peerEpoch = 0 THEN [e EXCEPT !.peerEpoch = epoch]
  ELSE IF epoch = e.peerEpoch THEN e
  ELSE [e EXCEPT !.next = 0, !.base = 0, !.win = <<>>,
                 !.peerEpoch = epoch, !.peerReset = TRUE]

(* The epoch block: a first contact is recorded; a change restarts both    *)
(* directions of the ARQ but keeps the rings.                              *)
TrackEpoch(e, epoch) ==
  IF e.peerEpoch = 0 THEN [e EXCEPT !.peerEpoch = epoch]
  ELSE IF epoch = e.peerEpoch THEN e
  ELSE [e EXCEPT !.rxNext = 0, !.next = 0, !.base = 0, !.win = <<>>,
                 !.ackPending = FALSE, !.rx = [s \in Slots |-> FreeSlot],
                 !.peerEpoch = epoch, !.peerReset = TRUE]

(* The F_DATA block: buffer a frame inside the receive window unless its   *)
(* slot already holds that sequence number, deliver what is in order, and  *)
(* owe an ack either way.                                                  *)
TakeData(e, f) ==
  LET slot     == f.seq % MAXWIN
      buffered == IF Held(e, f.seq) THEN e
                  ELSE [e EXCEPT !.rx[slot] =
                          [held |-> TRUE, seq |-> f.seq, pay |-> f.pay]]
      kept     == IF SeqDist(f.seq, e.rxNext) < MAXWIN THEN Drain(buffered) ELSE e
  IN [kept EXCEPT !.ackPending = TRUE]

OnRx(e, f) ==
  LET known == TrackEpoch(e, f.epoch)
      acked == AckProcess(known, f.ack, f.sack)
  IN IF f.data THEN TakeData(acked, f) ELSE acked

-----------------------------------------------------------------------------
(* Two endpoints in agreement.  The 8-bit numbers they exchange stand for  *)
(* chunk numbers that no endpoint keeps: b chunks the sender s has let go  *)
(* of, g chunks the receiver r has in order, n chunks that have a number.  *)

SeqOf(a)   == a % SEQMOD      \* the number of chunk a + 1
PlaceOf(a) == a % MAXWIN      \* and the slot it is buffered in

Buffered(r) == {r.rx[t].pay : t \in {u \in Slots : r.rx[u].held}}
Holds(r, g, c) == c <= g \/ c \in Buffered(r)

(* s sends the chunks after b, in order: those of its window carry their   *)
(* number, those of its ring follow.                                       *)
SendsFrom(s, b) ==
  /\ s.base = SeqOf(b) /\ s.next = SeqOf(b + Len(s.win))
  /\ \A i \in 1 .. Len(s.win) : /\ s.win[i].pay = b + i
                                /\ s.win[i].seq = SeqOf(b + i - 1)
  /\ \A k \in 1 .. Len(s.sring) : s.sring[k] = b + Len(s.win) + k

(* r expects chunk g + 1 next, and what it has buffered are chunks of the  *)
(* receive window, each in the slot of its number.                         *)
HoldsFrom(r, g) ==
  /\ r.rxNext = SeqOf(g)
  /\ \A t \in Slots : r.rx[t].held =>
       LET c == r.rx[t].pay
       IN /\ c \in g + 1 .. g + MAXWIN
          /\ r.rx[t].seq = SeqOf(c - 1) /\ t = PlaceOf(c - 1)

(* r has what s has let go of and what s has marked acked. *)
AckedHeld(s, b, r, g) ==
  /\ \A c \in 1 .. b : Holds(r, g, c)
  /\ \A i \in 1 .. Len(s.win) : s.win[i].acked => Holds(r, g, s.win[i].pay)

(* The data frames of queue q are numbered right, and none is so old that  *)
(* its number may pass for one of the window when its turn comes.          *)
DataInFlight(q, r, g, n) ==
  \A i \in 1 .. Len(q) : q[i].data =>
    LET c == q[i].pay
    IN /\ c \in 1 .. n /\ q[i].seq = SeqOf(c - 1)
       /\ g < c + MAXWIN
       /\ \A d \in Buffered(r) : d < c + MAXWIN
       /\ \A j \in 1 .. i - 1 : q[j].data => q[j].pay < c + MAXWIN

(* How many chunks the cumulative ack of f stands for: the last number not *)
(* beyond g that it can be.                                                *)
AckNo(g, f) == g - SeqDist(g, f.ack)

(* The acks of queue q never go back, say nothing that r does not hold,    *)
(* and none is so old that its number may pass for one of the window.      *)
AcksInFlight(q, s, b, r, g) ==
  \A i \in 1 .. Len(q) :
    LET a == AckNo(g, q[i])
    IN /\ b <= a + MAXWIN
       /\ \A k \in 1 .. Len(s.win) : s.win[k].acked => s.win[k].pay <= a + MAXWIN
       /\ \A j \in 1 .. i - 1 : AckNo(g, q[j]) <= a
       /\ \A k \in q[i].sack : Holds(r, g, a + 2 + k)

(* One direction of the link: sender s, receiver r, the frames data on     *)
(* their way from s to r and acks on their way back.                       *)
Agreed(s, b, r, g, data, acks) ==
  LET n == b + Len(s.win)
  IN /\ SendsFrom(s, b) /\ HoldsFrom(r, g)
     /\ \A c \in Buffered(r) \union {g} : c <= n
     /\ AckedHeld(s, b, r, g)
     /\ DataInFlight(data, r, g, n)
     /\ AcksInFlight(acks, s, b, r, g)
=============================================================================
