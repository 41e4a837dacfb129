--------------------------- MODULE LinkLayerProofs ---------------------------
(***************************************************************************)
(* Lemmas about the operators of LinkLayer: what each method leaves of a   *)
(* well-typed endpoint.  Proved for every MAXWIN, SEQMOD, RINGCAP and      *)
(* EPOCHS that LinkConstants admits.                                       *)
(***************************************************************************)
EXTENDS LinkLayer, FiniteSetTheorems, SequenceTheorems, TLAPS

(* The bounds that go with the record type: neither ring holds more than   *)
(* it can, and win_ never has more than MAXWIN frames.                     *)
Fits(e) == /\ Len(e.sring) <= RINGCAP /\ Len(e.rring) <= RINGCAP
           /\ Len(e.win) <= MAXWIN

(* uint8_t addition and distance stay in the sequence space. *)
LEMMA SeqArith ==
  ASSUME NEW a \in Int, NEW b \in Int
  PROVE  SeqAdd(a, b) \in Seqs /\ SeqDist(a, b) \in Seqs
BY LinkConstants DEF SeqAdd, SeqDist, Seqs, LinkConstants

(* seq & (MAXWIN - 1) is a slot. *)
LEMMA SlotOf == ASSUME NEW s \in Seqs PROVE s % MAXWIN \in Slots
BY LinkConstants DEF Seqs, Slots, LinkConstants

(* A function on 1 .. n is a sequence of length n. *)
LEMMA FunctionIsSeq ==
  ASSUME NEW S, NEW n \in Nat, NEW g \in [1 .. n -> S]
  PROVE  g \in Seq(S) /\ Len(g) = n
OBVIOUS

(* PrefixLength(S, n) counts the leading members of 1..n that are in S. *)
LEMMA PrefixLengthType ==
  ASSUME NEW S, NEW n \in Nat
  PROVE  PrefixLength(S, n) \in 0 .. n
<1> DEFINE P == {k \in 1 .. n : 1 .. k \subseteq S}
<1>1. IsFiniteSet(1 .. n) /\ Cardinality(1 .. n) = n
  BY FS_Interval
<1>2. P \in SUBSET (1 .. n)
  OBVIOUS
<1>3. IsFiniteSet(P) /\ Cardinality(P) <= n
  <2> HIDE DEF P
  <2> QED BY <1>1, <1>2, FS_Subset
<1>4. Cardinality(P) \in Nat
  <2> HIDE DEF P
  <2> QED BY <1>3, FS_CardinalityType
<1> QED BY <1>3, <1>4 DEF PrefixLength

(* PrefixLength counts up to the first miss: all before are in, the next   *)
(* is not.                                                                 *)
LEMMA PrefixLengthValue ==
  ASSUME NEW S, NEW n \in Nat
  PROVE  /\ 1 .. PrefixLength(S, n) \subseteq S
         /\ PrefixLength(S, n) < n => PrefixLength(S, n) + 1 \notin S
<1> DEFINE P == {k \in 1 .. n : 1 .. k \subseteq S}
           c == Cardinality(P)
<1>1. c \in 0 .. n
  BY PrefixLengthType DEF PrefixLength
<1>2. IsFiniteSet(P)
  <2>1. IsFiniteSet(1 .. n) /\ P \in SUBSET (1 .. n)
    BY FS_Interval
  <2> HIDE DEF P
  <2> QED BY <2>1, FS_Subset
<1>3. \A k \in P : k <= c
  <2> SUFFICES ASSUME NEW k \in P PROVE k <= c
    OBVIOUS
  <2>1. 1 .. k \in SUBSET P
    OBVIOUS
  <2>2. k \in Nat /\ Cardinality(1 .. k) = k
    BY FS_Interval
  <2>3. Cardinality(1 .. k) <= Cardinality(P)
    <3> HIDE DEF P
    <3> QED BY <1>2, <2>1, FS_Subset
  <2> QED BY <2>2, <2>3
<1>4. \A k \in 1 .. c : k \in P
  <2> SUFFICES ASSUME NEW k \in 1 .. c, k \notin P PROVE FALSE
    OBVIOUS
  <2>1. P \in SUBSET (1 .. k - 1)
    <3> SUFFICES ASSUME NEW j \in P PROVE j \in 1 .. k - 1
      OBVIOUS
    <3>1. j \in 1 .. n /\ 1 .. j \subseteq S
      OBVIOUS
    <3>2. ~ (k <= j)
      <4> SUFFICES ASSUME k <= j PROVE FALSE
        OBVIOUS
      <4>1. k \in 1 .. n /\ 1 .. k \subseteq 1 .. j
        BY <3>1, <1>1
      <4> QED BY <3>1, <4>1
    <3> QED BY <3>1, <3>2, <1>1
  <2>2. IsFiniteSet(1 .. k - 1) /\ Cardinality(1 .. k - 1) = k - 1
    <3>1. k \in Int /\ k >= 1
      BY <1>1
    <3> HIDE DEF c
    <3> QED BY <3>1, FS_Interval
  <2>3. Cardinality(P) <= k - 1
    <3> HIDE DEF P
    <3> QED BY <2>1, <2>2, FS_Subset
  <2> QED BY <2>3, <1>1
<1>5. 1 .. c \subseteq S
  <2> SUFFICES ASSUME NEW k \in 1 .. c PROVE k \in S
    OBVIOUS
  <2>1. 1 .. k \subseteq S /\ k \in 1 .. k
    BY <1>4, <1>1
  <2> QED BY <2>1
<1>6. c < n => c + 1 \notin S
  <2> SUFFICES ASSUME c < n, c + 1 \in S PROVE FALSE
    OBVIOUS
  <2>1. 1 .. c + 1 \subseteq S
    BY <1>1, <1>5
  <2>2. c + 1 \in P
    BY <2>1, <1>1
  <2> QED BY <2>2, <1>3, <1>1
<1> QED BY <1>5, <1>6 DEF PrefixLength

-----------------------------------------------------------------------------
(* Each operator maps a well-typed endpoint to a well-typed endpoint.  The *)
(* epoch values are only copied, or bumped by NewSession.                  *)

(* Init keeps the endpoint well typed, its rings and window within bounds. *)
LEMMA NewLinkType ==
  ASSUME NEW w \in 1 .. MAXWIN, NEW epoch \in 0 .. EPOCHS - 1
  PROVE  NewLink(w, epoch) \in Endpoint /\ Fits(NewLink(w, epoch))
<1>1. FreeSlot \in RxSlot
  BY LinkConstants DEF FreeSlot, RxSlot, Seqs, Chunks, LinkConstants
<1>2. 0 \in Seqs /\ <<>> \in Seq(Chunks) /\ <<>> \in Seq(TxFrame)
  BY LinkConstants DEF Seqs, LinkConstants
<1>3. (IF epoch = 0 THEN 1 ELSE epoch) \in 1 .. EPOCHS - 1 /\ 0 \in 0 .. EPOCHS - 1
  BY LinkConstants DEF LinkConstants
<1>4. NewLink(w, epoch) \in Endpoint
  BY <1>1, <1>2, <1>3 DEF NewLink, Endpoint
<1>5. Fits(NewLink(w, epoch))
  BY LinkConstants DEF NewLink, Fits, LinkConstants
<1> QED BY <1>4, <1>5

(* SetTiming keeps the endpoint well typed, its rings and window within    *)
(* bounds.                                                                 *)
LEMMA SetTimingType ==
  ASSUME NEW e \in Endpoint, Fits(e), NEW w \in 1 .. MAXWIN
  PROVE  SetTiming(e, w) \in Endpoint /\ Fits(SetTiming(e, w))
BY DEF SetTiming, Endpoint, Fits

(* Write keeps the endpoint well typed, its rings and window within        *)
(* bounds.                                                                 *)
LEMMA WriteType ==
  ASSUME NEW e \in Endpoint, Fits(e), CanWrite(e), NEW c \in Chunks
  PROVE  Write(e, c) \in Endpoint /\ Fits(Write(e, c))
<1>1. e.sring \in Seq(Chunks) /\ Len(e.sring) < RINGCAP
  BY DEF Endpoint, CanWrite
<1>2. Append(e.sring, c) \in Seq(Chunks) /\ Len(Append(e.sring, c)) <= RINGCAP
  BY <1>1, AppendProperties, LinkConstants DEF LinkConstants
<1> QED BY <1>2 DEF Write, Endpoint, Fits

(* DrainInOrder keeps the endpoint well typed, its rings and window within *)
(* bounds.                                                                 *)
LEMMA DrainType ==
  ASSUME NEW e \in Endpoint, Fits(e)
  PROVE  Drain(e) \in Endpoint /\ Fits(Drain(e))
<1> DEFINE run   == {k \in 1 .. MAXWIN : Held(e, SeqAdd(e.rxNext, k - 1))}
           n     == Least(RINGCAP - Len(e.rring), PrefixLength(run, MAXWIN))
           At(k) == SeqAdd(e.rxNext, k - 1) % MAXWIN
           more  == [k \in 1 .. n |-> e.rx[At(k)].pay]
           left  == [s \in Slots |-> IF \E k \in 1 .. n : s = At(k)
                                     THEN FreeSlot ELSE e.rx[s]]
<1>1. /\ e.rring \in Seq(Chunks) /\ Len(e.rring) <= RINGCAP /\ Len(e.rring) \in Nat
      /\ e.rx \in [Slots -> RxSlot] /\ e.rxNext \in Int
  BY DEF Endpoint, Fits, Seqs
<1>2. n \in Nat /\ n <= RINGCAP - Len(e.rring)
  <2>1. PrefixLength(run, MAXWIN) \in 0 .. MAXWIN
    BY PrefixLengthType, LinkConstants DEF LinkConstants
  <2> HIDE DEF run
  <2> QED BY <1>1, <2>1, LinkConstants DEF Least, LinkConstants
<1> HIDE DEF n
<1>3. \A k \in 1 .. n : At(k) \in Slots
  <2> SUFFICES ASSUME NEW k \in 1 .. n PROVE At(k) \in Slots
    OBVIOUS
  <2>1. k - 1 \in Int
    BY <1>2
  <2> QED BY <1>1, <2>1, SeqArith, SlotOf
<1>4. more \in Seq(Chunks) /\ Len(more) = n
  <2>1. \A k \in 1 .. n : e.rx[At(k)].pay \in Chunks
    BY <1>1, <1>3 DEF RxSlot
  <2> QED BY <1>2, <2>1
<1>5. FreeSlot \in RxSlot
  BY LinkConstants DEF FreeSlot, RxSlot, Seqs, Chunks, LinkConstants
<1>6. left \in [Slots -> RxSlot]
  BY <1>1, <1>5
<1>7. e.rring \o more \in Seq(Chunks) /\ Len(e.rring \o more) <= RINGCAP
  <2> HIDE DEF more
  <2>1. /\ e.rring \o more \in Seq(Chunks)
        /\ Len(e.rring \o more) = Len(e.rring) + Len(more)
    BY <1>1, <1>4, ConcatProperties
  <2> QED BY <1>1, <1>2, <1>4, <2>1, LinkConstants DEF LinkConstants
<1>8. SeqAdd(e.rxNext, n) \in Seqs
  BY <1>1, <1>2, SeqArith
<1>9. Drain(e) = [e EXCEPT !.rring = e.rring \o more, !.rx = left,
                           !.rxNext = SeqAdd(e.rxNext, n)]
  BY DEF Drain, n
<1> HIDE DEF more, left
<1> QED BY <1>6, <1>7, <1>8, <1>9 DEF Endpoint, Fits

(* Read keeps the endpoint well typed, its rings and window within bounds. *)
LEMMA ReadType ==
  ASSUME NEW e \in Endpoint, Fits(e), NEW k \in 0 .. Len(e.rring)
  PROVE  Read(e, k) \in Endpoint /\ Fits(Read(e, k))
<1> DEFINE s == SubSeq(e.rring, k + 1, Len(e.rring))
           p == [e EXCEPT !.rring = s]
<1>1. e.rring \in Seq(Chunks) /\ Len(e.rring) <= RINGCAP /\ Len(e.rring) \in Nat
  BY DEF Endpoint, Fits
<1>2. s \in Seq(Chunks) /\ Len(s) <= RINGCAP
  <2>1. \A i \in k + 1 .. Len(e.rring) : e.rring[i] \in Chunks
    BY <1>1
  <2>2. s \in Seq(Chunks) /\ Len(s) = IF k + 1 <= Len(e.rring) THEN Len(e.rring) - k ELSE 0
    BY <1>1, <2>1, SubSeqProperties
  <2> QED BY <1>1, <2>2, LinkConstants DEF LinkConstants
<1> HIDE DEF s
<1>3. p \in Endpoint /\ Fits(p)
  BY <1>2 DEF Endpoint, Fits
<1> HIDE DEF p
<1>4. Read(e, k) = Drain(p)
  BY DEF Read, p, s
<1> QED BY <1>3, <1>4, DrainType

(* BeginTurn keeps the endpoint well typed, its rings and window within    *)
(* bounds.                                                                 *)
LEMMA BeginTurnType ==
  ASSUME NEW e \in Endpoint, Fits(e)
  PROVE  BeginTurn(e) \in Endpoint /\ Fits(BeginTurn(e))
<1> DEFINE w == [i \in 1 .. Len(e.win) |-> [e.win[i] EXCEPT !.turn = FALSE]]
<1>1. e.win \in Seq(TxFrame) /\ Len(e.win) \in Nat
  BY DEF Endpoint
<1>2. \A i \in 1 .. Len(e.win) : [e.win[i] EXCEPT !.turn = FALSE] \in TxFrame
  <2> SUFFICES ASSUME NEW i \in 1 .. Len(e.win)
               PROVE  [e.win[i] EXCEPT !.turn = FALSE] \in TxFrame
    OBVIOUS
  <2>1. e.win[i] \in TxFrame
    BY <1>1
  <2> QED BY <2>1 DEF TxFrame
<1>3. w \in Seq(TxFrame) /\ Len(w) = Len(e.win)
  BY <1>1, <1>2
<1> HIDE DEF w
<1>4. BeginTurn(e) = [e EXCEPT !.win = w, !.ackSentTurn = FALSE]
  BY DEF BeginTurn, w
<1> QED BY <1>3, <1>4 DEF Endpoint, Fits

(* NextTx's first loop keeps the endpoint well typed, its rings and window *)
(* within bounds.                                                          *)
LEMMA FillType ==
  ASSUME NEW e \in Endpoint, Fits(e)
  PROVE  Fill(e) \in Endpoint /\ Fits(Fill(e))
<1> DEFINE room == e.window - Len(e.win)
           n    == IF room <= 0 THEN 0 ELSE Least(room, Len(e.sring))
           new  == [k \in 1 .. n |-> NewFrame(SeqAdd(e.next, k - 1), e.sring[k])]
           left == SubSeq(e.sring, n + 1, Len(e.sring))
<1>1. /\ e.win \in Seq(TxFrame) /\ Len(e.win) \in Nat /\ Len(e.win) <= MAXWIN
      /\ e.sring \in Seq(Chunks) /\ Len(e.sring) \in Nat /\ Len(e.sring) <= RINGCAP
      /\ e.window \in 1 .. MAXWIN /\ e.next \in Int
  BY DEF Endpoint, Fits, Seqs
<1>2. /\ n \in Nat /\ n <= Len(e.sring)
      /\ Len(e.win) + n <= MAXWIN
  BY <1>1, LinkConstants, SMTT(20) DEF Least, LinkConstants
<1> HIDE DEF n
<1>3. \A k \in 1 .. n : NewFrame(SeqAdd(e.next, k - 1), e.sring[k]) \in TxFrame
  <2> SUFFICES ASSUME NEW k \in 1 .. n
               PROVE  NewFrame(SeqAdd(e.next, k - 1), e.sring[k]) \in TxFrame
    OBVIOUS
  <2>1. SeqAdd(e.next, k - 1) \in Seqs
    BY <1>1, <1>2, SeqArith
  <2>2. e.sring[k] \in Chunks
    BY <1>1, <1>2
  <2> QED BY <2>1, <2>2 DEF NewFrame, TxFrame
<1>4. new \in Seq(TxFrame) /\ Len(new) = n
  BY <1>2, <1>3
<1> HIDE DEF new
<1>5. e.win \o new \in Seq(TxFrame) /\ Len(e.win \o new) <= MAXWIN
  <2>1. /\ e.win \o new \in Seq(TxFrame)
        /\ Len(e.win \o new) = Len(e.win) + Len(new)
    BY <1>1, <1>4, ConcatProperties
  <2> QED BY <1>2, <1>4, <2>1
<1>6. left \in Seq(Chunks) /\ Len(left) <= RINGCAP
  <2>1. \A i \in n + 1 .. Len(e.sring) : e.sring[i] \in Chunks
    BY <1>1, <1>2
  <2>2. /\ left \in Seq(Chunks)
        /\ Len(left) = IF n + 1 <= Len(e.sring) THEN Len(e.sring) - n ELSE 0
    BY <1>1, <1>2, <2>1, SubSeqProperties
  <2> QED BY <1>1, <1>2, <2>2, LinkConstants DEF LinkConstants
<1>7. SeqAdd(e.next, n) \in Seqs
  BY <1>1, <1>2, SeqArith
<1>8. Fill(e) = [e EXCEPT !.win = e.win \o new, !.next = SeqAdd(e.next, n),
                          !.sring = left]
  BY DEF Fill, n, new, left
<1> HIDE DEF left
<1> QED BY <1>1, <1>5, <1>6, <1>7, <1>8 DEF Endpoint, Fits

(* NextTx's choice of a frame keeps the endpoint well typed, its rings and *)
(* window within bounds.                                                   *)
LEMMA PickedType ==
  ASSUME NEW e \in Endpoint, Fits(e), NEW i \in 1 .. Len(e.win)
  PROVE  Picked(e, i) \in Endpoint /\ Fits(Picked(e, i))
<1> DEFINE f == [e.win[i] EXCEPT !.turn = TRUE, !.sent = TRUE, !.fast = FALSE]
           w == [e.win EXCEPT ![i] = f]
<1>1. e.win \in Seq(TxFrame) /\ e.win[i] \in TxFrame
  BY DEF Endpoint
<1>2. f \in TxFrame
  BY <1>1 DEF TxFrame
<1> HIDE DEF f
<1>3. w \in Seq(TxFrame) /\ Len(w) = Len(e.win)
  BY <1>1, <1>2, ExceptSeq
<1>4. Picked(e, i) = [e EXCEPT !.win = w, !.ackPending = FALSE]
  BY <1>1, ZenonT(30) DEF Picked, f, Endpoint
<1> HIDE DEF w
<1> QED BY <1>3, <1>4 DEF Endpoint, Fits

(* NextTx's lone ack keeps the endpoint well typed, its rings and window   *)
(* within bounds.                                                          *)
LEMMA AckSentType ==
  ASSUME NEW e \in Endpoint, Fits(e)
  PROVE  AckSent(e) \in Endpoint /\ Fits(AckSent(e))
BY DEF AckSent, Endpoint, Fits

(* Encode builds a well-formed frame. *)
LEMMA HeaderType ==
  ASSUME NEW e \in Endpoint, NEW data \in BOOLEAN, NEW more \in BOOLEAN,
         NEW s \in Seqs, NEW p \in Chunks
  PROVE  Header(e, data, more, s, p) \in AirFrame
BY DEF Header, AirFrame, Sack, Endpoint

(* A data frame of the window is well formed. *)
LEMMA DataFrameType ==
  ASSUME NEW e \in Endpoint, NEW i \in 1 .. Len(e.win)
  PROVE  DataFrame(e, i) \in AirFrame
<1>1. e.win[i] \in TxFrame
  BY DEF Endpoint
<1>2. e.win[i].seq \in Seqs /\ e.win[i].pay \in Chunks
  BY <1>1 DEF TxFrame
<1>3. MoreToSend(e, i) \in BOOLEAN
  BY DEF MoreToSend
<1> QED BY <1>2, <1>3, HeaderType DEF DataFrame

(* A lone ack or poll is well formed. *)
LEMMA BareFrameType ==
  ASSUME NEW e \in Endpoint
  PROVE  BareFrame(e) \in AirFrame
<1>1. 0 \in Seqs /\ 0 \in Chunks
  BY LinkConstants DEF Seqs, Chunks, LinkConstants
<1> QED BY <1>1, HeaderType DEF BareFrame

(* OnRx's epoch block keeps the endpoint well typed, its rings and window  *)
(* within bounds.                                                          *)
LEMMA TrackEpochType ==
  ASSUME NEW e \in Endpoint, Fits(e), NEW epoch \in 1 .. EPOCHS - 1
  PROVE  TrackEpoch(e, epoch) \in Endpoint /\ Fits(TrackEpoch(e, epoch))
<1>1. CASE e.peerEpoch = 0
  <2>1. epoch \in 0 .. EPOCHS - 1
    OBVIOUS
  <2>2. TrackEpoch(e, epoch) = [e EXCEPT !.peerEpoch = epoch]
    BY <1>1 DEF TrackEpoch
  <2> QED BY <2>1, <2>2 DEF Endpoint, Fits
<1>2. CASE e.peerEpoch # 0 /\ epoch = e.peerEpoch
  BY <1>2 DEF TrackEpoch
<1>3. CASE e.peerEpoch # 0 /\ epoch # e.peerEpoch
  <2>1. 0 \in Seqs /\ FreeSlot \in RxSlot /\ <<>> \in Seq(TxFrame) /\ Len(<<>>) <= MAXWIN
    BY LinkConstants DEF FreeSlot, RxSlot, Seqs, Chunks, LinkConstants
  <2>2. [s \in Slots |-> FreeSlot] \in [Slots -> RxSlot]
    BY <2>1
  <2>3. epoch \in 0 .. EPOCHS - 1
    OBVIOUS
  <2> QED BY <1>3, <2>1, <2>2, <2>3 DEF TrackEpoch, Endpoint, Fits
<1> QED BY <1>1, <1>2, <1>3

(* AckProcess keeps the endpoint well typed, its rings and window within   *)
(* bounds.                                                                 *)
LEMMA AckProcessType ==
  ASSUME NEW e \in Endpoint, Fits(e), NEW ack \in Seqs, NEW sack
  PROVE  AckProcess(e, ack, sack) \in Endpoint /\ Fits(AckProcess(e, ack, sack))
<1> DEFINE cum == SeqDist(ack, e.base)
           mark(i) == \/ e.win[i].acked
                      \/ cum <= Len(e.win) /\ i <= cum
                      \/ \E k \in sack : e.win[i].seq = SeqAdd(ack, 1 + k)
           marked == [i \in 1 .. Len(e.win) |-> [e.win[i] EXCEPT !.acked = mark(i)]]
           gone   == PrefixLength({i \in 1 .. Len(e.win) : marked[i].acked}, Len(e.win))
           rest   == SubSeq(marked, gone + 1, Len(e.win))
           fast(i) == \/ rest[i].fast
                      \/ /\ rest[i].sent /\ ~rest[i].acked
                         /\ \E j \in i + 1 .. Len(rest) : rest[j].acked
           final  == [i \in 1 .. Len(rest) |-> [rest[i] EXCEPT !.fast = fast(i)]]
<1>1. /\ e.win \in Seq(TxFrame) /\ Len(e.win) \in Nat /\ Len(e.win) <= MAXWIN
      /\ e.base \in Int /\ ack \in Int
  BY DEF Endpoint, Fits, Seqs
<1>2. marked \in Seq(TxFrame) /\ Len(marked) = Len(e.win)
  <2>1. ASSUME NEW i \in 1 .. Len(e.win)
        PROVE  [e.win[i] EXCEPT !.acked = mark(i)] \in TxFrame
    <3>1. e.win[i] \in TxFrame
      BY <1>1
    <3>2. mark(i) \in BOOLEAN
      BY <3>1 DEF TxFrame
    <3> HIDE DEF mark
    <3> QED BY <3>1, <3>2 DEF TxFrame
  <2>2. marked \in [1 .. Len(e.win) -> TxFrame]
    <3> HIDE DEF mark
    <3> QED BY <2>1
  <2> HIDE DEF marked
  <2> QED BY <1>1, <2>2, FunctionIsSeq
<1>3. gone \in 0 .. Len(e.win)
  BY <1>1, PrefixLengthType
<1> HIDE DEF marked, gone
<1>4. rest \in Seq(TxFrame) /\ Len(rest) \in Nat /\ Len(rest) <= Len(e.win)
  <2>1. \A i \in gone + 1 .. Len(e.win) : marked[i] \in TxFrame
    BY <1>1, <1>2, <1>3
  <2>2. /\ rest \in Seq(TxFrame)
        /\ Len(rest) = IF gone + 1 <= Len(e.win) THEN Len(e.win) - gone ELSE 0
    BY <1>1, <1>3, <2>1, SubSeqProperties
  <2> QED BY <1>1, <1>3, <2>2
<1> HIDE DEF rest
<1>5. final \in Seq(TxFrame) /\ Len(final) = Len(rest)
  <2>1. ASSUME NEW i \in 1 .. Len(rest)
        PROVE  [rest[i] EXCEPT !.fast = fast(i)] \in TxFrame
    <3>1. rest[i] \in TxFrame
      BY <1>4
    <3>2. fast(i) \in BOOLEAN
      BY <3>1 DEF TxFrame
    <3> HIDE DEF fast
    <3> QED BY <3>1, <3>2 DEF TxFrame
  <2>2. final \in [1 .. Len(rest) -> TxFrame]
    <3> HIDE DEF fast
    <3> QED BY <2>1
  <2> HIDE DEF final
  <2> QED BY <1>4, <2>2, FunctionIsSeq
<1>6. SeqAdd(e.base, gone) \in Seqs
  BY <1>1, <1>3, SeqArith
<1>7. AckProcess(e, ack, sack) = [e EXCEPT !.win = final, !.base = SeqAdd(e.base, gone)]
  BY DEF AckProcess, final, rest, gone, marked
<1> HIDE DEF final
<1>8. Len(final) <= MAXWIN
  BY <1>1, <1>4, <1>5, LinkConstants DEF LinkConstants
<1> QED BY <1>5, <1>6, <1>7, <1>8 DEF Endpoint, Fits

(* OnRx's data block keeps the endpoint well typed, its rings and window   *)
(* within bounds.                                                          *)
LEMMA TakeDataType ==
  ASSUME NEW e \in Endpoint, Fits(e), NEW f \in AirFrame
  PROVE  TakeData(e, f) \in Endpoint /\ Fits(TakeData(e, f))
<1> DEFINE slot     == f.seq % MAXWIN
           buffered == IF Held(e, f.seq) THEN e
                       ELSE [e EXCEPT !.rx[slot] =
                               [held |-> TRUE, seq |-> f.seq, pay |-> f.pay]]
           kept     == IF SeqDist(f.seq, e.rxNext) < MAXWIN THEN Drain(buffered) ELSE e
<1>1. f.seq \in Seqs /\ f.pay \in Chunks /\ slot \in Slots
  BY SlotOf DEF AirFrame
<1>2. buffered \in Endpoint /\ Fits(buffered)
  <2>1. [held |-> TRUE, seq |-> f.seq, pay |-> f.pay] \in RxSlot
    BY <1>1 DEF RxSlot
  <2> QED BY <1>1, <2>1 DEF Endpoint, Fits
<1> HIDE DEF buffered
<1>3. kept \in Endpoint /\ Fits(kept)
  BY <1>2, DrainType
<1> HIDE DEF kept
<1>4. TakeData(e, f) = [kept EXCEPT !.ackPending = TRUE]
  BY DEF TakeData, kept, buffered
<1> QED BY <1>3, <1>4 DEF Endpoint, Fits

(* OnRx keeps the endpoint well typed, its rings and window within bounds. *)
LEMMA OnRxType ==
  ASSUME NEW e \in Endpoint, Fits(e), NEW f \in AirFrame
  PROVE  OnRx(e, f) \in Endpoint /\ Fits(OnRx(e, f))
<1> DEFINE known == TrackEpoch(e, f.epoch)
           acked == AckProcess(known, f.ack, f.sack)
<1>1. f.epoch \in 1 .. EPOCHS - 1 /\ f.ack \in Seqs
  BY DEF AirFrame
<1>2. known \in Endpoint /\ Fits(known)
  BY <1>1, TrackEpochType
<1> HIDE DEF known
<1>3. acked \in Endpoint /\ Fits(acked)
  BY <1>1, <1>2, AckProcessType
<1> HIDE DEF acked
<1>4. OnRx(e, f) = IF f.data THEN TakeData(acked, f) ELSE acked
  BY DEF OnRx, acked, known
<1> QED BY <1>3, <1>4, TakeDataType

-----------------------------------------------------------------------------
(* Numbers: what the 8-bit sequence numbers say of the chunks they stand   *)
(* for.                                                                    *)

(* Division with a remainder: all that the proofs need of % and \div. *)
LEMMA Division ==
  ASSUME NEW M \in Nat \ {0}, NEW a \in Int
  PROVE  \E q \in Int, r \in 0 .. M - 1 : a = M * q + r /\ a % M = r
<1>1. (a \div M) \in Int /\ a % M \in 0 .. M - 1
  OBVIOUS
<1>2. a = M * (a \div M) + (a % M)
  OBVIOUS
<1> QED BY <1>1, <1>2

(* What is left of a multiple and a remainder.                             *)
LEMMA Remainder ==
  ASSUME NEW M \in Nat \ {0}, NEW q \in Int, NEW r \in 0 .. M - 1
  PROVE  (M * q + r) % M = r
OBVIOUS

(* Two numbers less than M apart that agree modulo M are the same. *)
LEMMA ModUnique ==
  ASSUME NEW M \in Nat \ {0}, NEW a \in Int, NEW b \in Int,
         a % M = b % M, a - b < M, b - a < M
  PROVE  a = b
<1>1. PICK q \in Int, r \in 0 .. M - 1 : a = M * q + r /\ a % M = r
  BY Division
<1>2. PICK p \in Int, s \in 0 .. M - 1 : b = M * p + s /\ b % M = s
  BY Division
<1>3. r = s
  BY <1>1, <1>2
<1>4. ASSUME NEW k \in Int, k >= 1 PROVE M * k >= M
  BY <1>4
<1>5. ~ (q - p >= 1)
  <2>1. a - b = M * (q - p)
    BY <1>1, <1>2, <1>3
  <2> QED BY <2>1, <1>4
<1>6. ~ (p - q >= 1)
  <2>1. b - a = M * (p - q)
    BY <1>1, <1>2, <1>3
  <2> QED BY <2>1, <1>4
<1>7. q = p
  BY <1>5, <1>6
<1> QED BY <1>1, <1>2, <1>3, <1>7

(* A remainder may be taken before or after an addition. *)
LEMMA ModShift ==
  ASSUME NEW M \in Nat \ {0}, NEW a \in Int, NEW k \in Int
  PROVE  ((a % M) + k) % M = (a + k) % M
<1>1. PICK q \in Int, r \in 0 .. M - 1 : a = M * q + r /\ a % M = r
  BY Division
<1>2. PICK p \in Int, s \in 0 .. M - 1 : r + k = M * p + s /\ (r + k) % M = s
  BY Division
<1>3. q + p \in Int /\ M * (q + p) = M * q + M * p
  OBVIOUS
<1>4. a + k = M * (q + p) + s
  BY <1>1, <1>2, <1>3
<1>5. (a + k) % M = s
  BY <1>3, <1>4, Remainder
<1> QED BY <1>1, <1>2, <1>5

(* The slot of a number does not depend on its wrap. *)
LEMMA SlotWrap ==
  ASSUME NEW a \in Int
  PROVE  SeqOf(a) % MAXWIN = PlaceOf(a)
<1> USE LinkConstants DEF LinkConstants
<1>1. PICK q \in Int, r \in 0 .. SEQMOD - 1 : a = SEQMOD * q + r /\ a % SEQMOD = r
  BY Division
<1>2. PICK w \in Int : SEQMOD = MAXWIN * w
  BY Division, SlotConstants
<1>3. PICK p \in Int, s \in 0 .. MAXWIN - 1 : r = MAXWIN * p + s /\ r % MAXWIN = s
  BY Division
<1>4. a = MAXWIN * (w * q + p) + s
  <2>1. a = (MAXWIN * w) * q + MAXWIN * p + s
    BY <1>1, <1>2, <1>3
  <2>2. (MAXWIN * w) * q = MAXWIN * (w * q)
    OBVIOUS
  <2>3. MAXWIN * (w * q + p) = MAXWIN * (w * q) + MAXWIN * p
    OBVIOUS
  <2> QED BY <2>1, <2>2, <2>3
<1>5. w * q + p \in Int
  OBVIOUS
<1>6. a % MAXWIN = s
  BY <1>4, <1>5, Remainder
<1> QED BY <1>1, <1>3, <1>6 DEF SeqOf, PlaceOf

(* What the width, the window and the ring are.                            *)
LEMMA Moduli == /\ SEQMOD \in Nat \ {0} /\ MAXWIN \in Nat \ {0} /\ RINGCAP \in Nat \ {0}
                /\ 2 * MAXWIN < SEQMOD
BY LinkConstants DEF LinkConstants

(* The 8-bit sum and distance of two chunk counts' low bytes.              *)
LEMMA SumOf ==
  ASSUME NEW a \in Int, NEW k \in Int
  PROVE  SeqOf(a) \in Seqs /\ SeqAdd(SeqOf(a), k) = SeqOf(a + k)
<1>1. SEQMOD \in Nat \ {0}
  BY Moduli
<1>2. a % SEQMOD \in Seqs
  BY <1>1 DEF Seqs
<1>3. ((a % SEQMOD) + k) % SEQMOD = (a + k) % SEQMOD
  BY <1>1, ModShift
<1> QED BY <1>2, <1>3 DEF SeqAdd, SeqOf

(* The distance of two low bytes is the low byte of the distance.          *)
LEMMA DistOf ==
  ASSUME NEW a \in Int, NEW b \in Int
  PROVE  SeqDist(a % SEQMOD, b % SEQMOD) = (a - b) % SEQMOD
<1>0. SEQMOD \in Nat \ {0}
  BY Moduli
<1>1. PICK q \in Int, r \in 0 .. SEQMOD - 1 : b = SEQMOD * q + r /\ b % SEQMOD = r
  BY <1>0, Division
<1>2. -r \in Int /\ a - r \in Int /\ a - r = a + (-r)
  BY <1>0
<1>3. PICK p \in Int, s \in 0 .. SEQMOD - 1 : a - r = SEQMOD * p + s /\ (a - r) % SEQMOD = s
  BY <1>0, <1>2, Division
<1>4. p - q \in Int /\ SEQMOD * (p - q) = SEQMOD * p - SEQMOD * q
  BY <1>0
<1>5. a - b = SEQMOD * (p - q) + s
  BY <1>0, <1>1, <1>3, <1>4
<1>6. (a - b) % SEQMOD = s
  BY <1>0, <1>4, <1>5, Remainder
<1>7. ((a % SEQMOD) + (-r)) % SEQMOD = (a + (-r)) % SEQMOD
  BY <1>0, <1>2, ModShift
<1>8. a % SEQMOD \in Int
  BY <1>0
<1>9. (a % SEQMOD) - r = (a % SEQMOD) + (-r)
  BY <1>0, <1>8
<1> QED BY <1>1, <1>2, <1>3, <1>6, <1>7, <1>9 DEF SeqDist

(* How the distance of two nearby numbers reads: from 0 up when a is not   *)
(* behind b, from SEQMOD down when it is.                                  *)
LEMMA DistIs ==
  ASSUME NEW a \in Int, NEW b \in Int
  PROVE  /\ a - b \in 0 .. SEQMOD - 1 => SeqDist(SeqOf(a), SeqOf(b)) = a - b
         /\ b - a \in 1 .. SEQMOD => SeqDist(SeqOf(a), SeqOf(b)) = a - b + SEQMOD
<1>0. SEQMOD \in Nat \ {0} /\ a - b \in Int
  BY Moduli
<1>1. SeqDist(SeqOf(a), SeqOf(b)) = (a - b) % SEQMOD
  BY DistOf DEF SeqOf
<1>2. ASSUME a - b \in 0 .. SEQMOD - 1 PROVE (a - b) % SEQMOD = a - b
  BY <1>0, <1>2
<1>3. ASSUME b - a \in 1 .. SEQMOD PROVE (a - b) % SEQMOD = a - b + SEQMOD
  <2>1. a - b = SEQMOD * (-1) + (a - b + SEQMOD)
    BY <1>0
  <2>2. a - b + SEQMOD \in 0 .. SEQMOD - 1 /\ -1 \in Int
    BY <1>0, <1>3
  <2> QED BY <1>0, <2>1, <2>2, Remainder
<1> QED BY <1>1, <1>2, <1>3

(* Numbers that share a low byte and are less than SEQMOD apart are one.   *)
LEMMA SeqUnique ==
  ASSUME NEW a \in Int, NEW b \in Int, SeqOf(a) = SeqOf(b),
         a - b < SEQMOD, b - a < SEQMOD
  PROVE  a = b
BY Moduli, ModUnique DEF SeqOf

(* Numbers that share a slot and are less than MAXWIN apart are one. *)
LEMMA SlotUnique ==
  ASSUME NEW a \in Int, NEW b \in Int, PlaceOf(a) = PlaceOf(b),
         a - b < MAXWIN, b - a < MAXWIN
  PROVE  a = b
BY Moduli, ModUnique DEF PlaceOf

(* The types of what is buffered. *)
LEMMA BufferedType ==
  ASSUME NEW r \in Endpoint, NEW g \in Nat, HoldsFrom(r, g), NEW c \in Buffered(r)
  PROVE  c \in g + 1 .. g + MAXWIN
BY DEF Buffered, HoldsFrom

(* A chunk of the receive window is buffered exactly when the slot of its  *)
(* number holds that number, and then the slot holds that chunk.           *)
LEMMA HeldIs ==
  ASSUME NEW r \in Endpoint, NEW g \in Nat, HoldsFrom(r, g),
         NEW c \in g + 1 .. g + MAXWIN
  PROVE  LET t == SeqOf(c - 1) % MAXWIN
         IN /\ t \in Slots /\ t = PlaceOf(c - 1)
            /\ Held(r, SeqOf(c - 1)) <=> c \in Buffered(r)
            /\ r.rx[t].held <=> c \in Buffered(r)
            /\ r.rx[t].held => r.rx[t].pay = c /\ r.rx[t].seq = SeqOf(c - 1)
<1> DEFINE t == SeqOf(c - 1) % MAXWIN
<1>0. /\ SEQMOD \in Nat \ {0} /\ MAXWIN \in Nat \ {0} /\ 2 * MAXWIN < SEQMOD
      /\ c \in Int /\ c - 1 \in Int
  BY Moduli
<1>1. t = PlaceOf(c - 1)
  BY <1>0, SlotWrap
<1>2. t \in Slots
  BY <1>0, SumOf, SlotOf
<1>3. ASSUME NEW u \in Slots, r.rx[u].held, u = t PROVE r.rx[u].pay = c
  <2>1. r.rx[u].pay \in g + 1 .. g + MAXWIN /\ u = PlaceOf(r.rx[u].pay - 1)
    BY <1>3 DEF HoldsFrom
  <2> DEFINE d == r.rx[u].pay
  <2>2. d - 1 \in Int /\ PlaceOf(d - 1) = PlaceOf(c - 1)
    BY <1>0, <1>1, <1>3, <2>1
  <2>3. (d - 1) - (c - 1) < MAXWIN /\ (c - 1) - (d - 1) < MAXWIN
    BY <1>0, <2>1
  <2>a. d \in Int
    BY <1>0, <2>1
  <2> HIDE DEF d
  <2>4. d - 1 = c - 1
    BY <1>0, <2>2, <2>3, SlotUnique
  <2>5. d = c
    BY <1>0, <2>a, <2>4
  <2> QED BY <2>5 DEF d
<1>4. ASSUME NEW u \in Slots, r.rx[u].held, r.rx[u].pay = c PROVE u = t
  BY <1>1, <1>4 DEF HoldsFrom
<1>5. r.rx[t].held => r.rx[t].pay = c /\ r.rx[t].seq = SeqOf(c - 1)
  BY <1>2, <1>3 DEF HoldsFrom
<1> HIDE DEF t
<1>6. r.rx[t].held <=> c \in Buffered(r)
  BY <1>2, <1>4, <1>5 DEF Buffered
<1>7. Held(r, SeqOf(c - 1)) <=> r.rx[t].held
  BY <1>5 DEF Held, t
<1> QED BY <1>1, <1>2, <1>5, <1>6, <1>7 DEF t

(* What Encode's SACK says is what is buffered beyond the next chunk. *)
LEMMA SackIs ==
  ASSUME NEW r \in Endpoint, NEW g \in Nat, HoldsFrom(r, g), NEW k \in Sack(r)
  PROVE  k \in 0 .. MAXWIN - 2 /\ g + 2 + k \in Buffered(r)
<1>0. MAXWIN \in Nat \ {0}
  BY Moduli
<1>1. k \in 0 .. MAXWIN - 2 /\ Held(r, SeqAdd(r.rxNext, 1 + k))
  BY DEF Sack
<1>2. g \in Int /\ 1 + k \in Int /\ r.rxNext = SeqOf(g)
  BY <1>1, <1>0 DEF HoldsFrom
<1>3. SeqAdd(r.rxNext, 1 + k) = SeqOf(g + (1 + k))
  BY <1>2, SumOf
<1>4. g + (1 + k) = (g + 2 + k) - 1 /\ g + 2 + k \in g + 1 .. g + MAXWIN
  BY <1>0, <1>1
<1> QED BY <1>1, <1>3, <1>4, HeldIs

(* DrainInOrder passes on the chunks g + 1 .. g + n, for some n, all of    *)
(* them buffered before; what was buffered beyond them stays buffered.     *)
LEMMA DrainIs ==
  ASSUME NEW r \in Endpoint, Fits(r), NEW g \in Nat, HoldsFrom(r, g)
  PROVE  \E n \in Nat :
           /\ Drain(r).rring = r.rring \o [k \in 1 .. n |-> g + k]
           /\ HoldsFrom(Drain(r), g + n)
           /\ Buffered(Drain(r)) = {c \in Buffered(r) : c > g + n}
           /\ \A k \in 1 .. n : g + k \in Buffered(r)
<1> DEFINE run   == {k \in 1 .. MAXWIN : Held(r, SeqAdd(r.rxNext, k - 1))}
           m     == PrefixLength(run, MAXWIN)
           n     == Least(RINGCAP - Len(r.rring), m)
           At(k) == SeqAdd(r.rxNext, k - 1) % MAXWIN
           more  == [k \in 1 .. n |-> r.rx[At(k)].pay]
           left  == [s \in Slots |-> IF \E k \in 1 .. n : s = At(k)
                                     THEN FreeSlot ELSE r.rx[s]]
<1>0. /\ SEQMOD \in Nat \ {0} /\ MAXWIN \in Nat \ {0} /\ RINGCAP \in Nat
      /\ Len(r.rring) \in Nat /\ Len(r.rring) <= RINGCAP /\ r.rxNext = SeqOf(g)
  BY Moduli DEF Endpoint, Fits, HoldsFrom
<1>1. m \in 0 .. MAXWIN /\ 1 .. m \subseteq run
  <2> HIDE DEF run
  <2> QED BY <1>0, PrefixLengthType, PrefixLengthValue
<1>2. n \in Nat /\ n <= m
  <2> HIDE DEF m
  <2> QED BY <1>0, <1>1 DEF Least
<1>3. Drain(r) = [r EXCEPT !.rring = r.rring \o more, !.rx = left,
                           !.rxNext = SeqAdd(r.rxNext, n)]
  BY DEF Drain
<1> HIDE DEF m, n
<1>4. ASSUME NEW k \in 1 .. n
      PROVE  /\ At(k) \in Slots /\ At(k) = PlaceOf(g + k - 1)
             /\ r.rx[At(k)].held /\ r.rx[At(k)].pay = g + k /\ g + k \in Buffered(r)
  <2>1. k \in run /\ k \in 1 .. MAXWIN
    BY <1>0, <1>1, <1>2
  <2>2. Held(r, SeqAdd(r.rxNext, k - 1))
    BY <2>1
  <2>3. g \in Int /\ k - 1 \in Int /\ g + (k - 1) = (g + k) - 1
    BY <1>2
  <2>4. SeqAdd(r.rxNext, k - 1) = SeqOf((g + k) - 1)
    BY <1>0, <2>3, SumOf
  <2>5. g + k \in g + 1 .. g + MAXWIN
    BY <1>0, <2>1
  <2>6. g + k \in Buffered(r)
    BY <2>2, <2>4, <2>5, HeldIs
  <2> QED BY <2>4, <2>5, <2>6, HeldIs
<1>5. more = [k \in 1 .. n |-> g + k]
  BY <1>4
<1>6. ASSUME NEW s \in Slots, r.rx[s].held
      PROVE  (\E k \in 1 .. n : s = At(k)) <=> r.rx[s].pay <= g + n
  <2>1. r.rx[s].pay \in g + 1 .. g + MAXWIN /\ s = PlaceOf(r.rx[s].pay - 1)
    BY <1>6 DEF HoldsFrom
  <2>2. ASSUME NEW k \in 1 .. n, s = At(k) PROVE r.rx[s].pay <= g + n
    BY <1>2, <1>4, <2>2
  <2>3. ASSUME r.rx[s].pay <= g + n PROVE \E k \in 1 .. n : s = At(k)
    <3> DEFINE c == r.rx[s].pay
               k == c - g
    <3>0. c \in Int /\ g + 1 <= c /\ c <= g + n
      BY <1>0, <2>1, <2>3
    <3> HIDE DEF c
    <3>1. k \in 1 .. n /\ g + k = c
      BY <1>2, <3>0
    <3>2. At(k) = PlaceOf(g + k - 1)
      BY <3>1, <1>4
    <3> HIDE DEF k
    <3>3. s = At(k)
      BY <2>1, <3>1, <3>2 DEF c
    <3> QED BY <3>1, <3>3
  <2> QED BY <2>2, <2>3
<1>7. Drain(r).rring = r.rring \o [k \in 1 .. n |-> g + k]
  BY <1>3, <1>5 DEF Endpoint
<1>8. Drain(r).rx = left /\ Drain(r).rxNext = SeqAdd(r.rxNext, n)
  BY <1>3 DEF Endpoint
<1>9. ASSUME NEW s \in Slots
      PROVE  /\ left[s].held <=> r.rx[s].held /\ r.rx[s].pay > g + n
             /\ left[s].held => left[s] = r.rx[s]
  <2>1. r.rx[s].held => r.rx[s].pay \in Int
    BY DEF HoldsFrom
  <2>2. left[s] = IF \E k \in 1 .. n : s = At(k) THEN FreeSlot ELSE r.rx[s]
    OBVIOUS
  <2>3. ~ FreeSlot.held
    BY DEF FreeSlot
  <2>4. (\E k \in 1 .. n : s = At(k)) => r.rx[s].held
    BY <1>4
  <2> HIDE DEF left, At
  <2>5. CASE \E k \in 1 .. n : s = At(k)
    BY <1>2, <1>6, <2>1, <2>2, <2>3, <2>4, <2>5
  <2>6. CASE ~ \E k \in 1 .. n : s = At(k)
    <3>1. left[s] = r.rx[s]
      BY <2>2, <2>6
    <3>2. r.rx[s].held => r.rx[s].pay > g + n
      BY <1>2, <1>6, <2>1, <2>6
    <3> QED BY <3>1, <3>2
  <2> QED BY <2>5, <2>6
<1> HIDE DEF left
<1>10. HoldsFrom(Drain(r), g + n)
  <2>1. Drain(r).rxNext = SeqOf(g + n)
    BY <1>0, <1>2, <1>8, SumOf
  <2>2. ASSUME NEW s \in Slots, left[s].held
        PROVE  /\ left[s].pay \in g + n + 1 .. g + n + MAXWIN
               /\ left[s].seq = SeqOf(left[s].pay - 1)
               /\ s = PlaceOf(left[s].pay - 1)
    <3>1. left[s] = r.rx[s] /\ r.rx[s].held /\ r.rx[s].pay > g + n
      BY <1>9, <2>2
    <3>2. /\ r.rx[s].pay \in g + 1 .. g + MAXWIN
          /\ r.rx[s].seq = SeqOf(r.rx[s].pay - 1)
          /\ s = PlaceOf(r.rx[s].pay - 1)
      BY <3>1 DEF HoldsFrom
    <3> QED BY <1>0, <1>2, <3>1, <3>2
  <2> QED BY <1>8, <2>1, <2>2 DEF HoldsFrom
<1>11. Buffered(Drain(r)) = {c \in Buffered(r) : c > g + n}
  BY <1>8, <1>9 DEF Buffered
<1> QED BY <1>2, <1>4, <1>7, <1>10, <1>11

-----------------------------------------------------------------------------
(* What each operation of an endpoint does to the chunks it holds.         *)

(* The send half of an endpoint, *)
SendHalf(e) == <<e.sring, e.win, e.base, e.next>>
(* its receive half *)
RecvHalf(e) == <<e.rring, e.rx, e.rxNext>>
(* and the epochs it knows *)
Epochs(e)   == <<e.myEpoch, e.peerEpoch>>

(* Drain and Read are the receive half's; the others are the send half's.  *)
LEMMA DrainKeeps ==
  ASSUME NEW e \in Endpoint
  PROVE  SendHalf(Drain(e)) = SendHalf(e) /\ Epochs(Drain(e)) = Epochs(e)
<1>1. PICK a, b, c : Drain(e) = [e EXCEPT !.rring = a, !.rx = b, !.rxNext = c]
  BY Zenon DEF Drain
<1> QED BY <1>1 DEF Endpoint, SendHalf, Epochs

(* Read leaves the send half and the epochs alone.                         *)
LEMMA ReadKeeps ==
  ASSUME NEW e \in Endpoint, Fits(e), NEW k \in 0 .. Len(e.rring)
  PROVE  SendHalf(Read(e, k)) = SendHalf(e) /\ Epochs(Read(e, k)) = Epochs(e)
<1> DEFINE s == SubSeq(e.rring, k + 1, Len(e.rring))
           p == [e EXCEPT !.rring = s]
<1>1. s \in Seq(Chunks)
  <2>1. e.rring \in Seq(Chunks) /\ Len(e.rring) \in Nat
    BY DEF Endpoint
  <2>2. \A i \in k + 1 .. Len(e.rring) : e.rring[i] \in Chunks
    BY <2>1
  <2> QED BY <2>1, <2>2, SubSeqProperties
<1> HIDE DEF s
<1>2. p \in Endpoint /\ SendHalf(p) = SendHalf(e) /\ Epochs(p) = Epochs(e)
  BY <1>1 DEF Endpoint, SendHalf, Epochs
<1>3. Read(e, k) = Drain(p)
  BY DEF Read, p, s
<1> HIDE DEF p
<1> QED BY <1>2, <1>3, DrainKeeps

(* Fill leaves the receive half and the epochs alone.                      *)
LEMMA FillKeeps ==
  ASSUME NEW e \in Endpoint
  PROVE  RecvHalf(Fill(e)) = RecvHalf(e) /\ Epochs(Fill(e)) = Epochs(e)
<1>1. PICK a, b, c : Fill(e) = [e EXCEPT !.win = a, !.next = b, !.sring = c]
  BY Zenon DEF Fill
<1> QED BY <1>1 DEF Endpoint, RecvHalf, Epochs

(* So does AckProcess, which also leaves what is yet to be numbered.       *)
LEMMA AckProcessKeeps ==
  ASSUME NEW e \in Endpoint, NEW ack, NEW sack
  PROVE  LET a == AckProcess(e, ack, sack)
         IN RecvHalf(a) = RecvHalf(e) /\ Epochs(a) = Epochs(e) /\ a.sring = e.sring /\ a.next = e.next
<1>1. PICK a, b : AckProcess(e, ack, sack) = [e EXCEPT !.win = a, !.base = b]
  BY Zenon DEF AckProcess
<1> QED BY <1>1 DEF Endpoint, RecvHalf, Epochs

(* Read gives up the k oldest chunks of the ring, then drains. *)
LEMMA ReadIs ==
  ASSUME NEW r \in Endpoint, Fits(r), NEW g \in Nat, HoldsFrom(r, g),
         NEW j \in 0 .. Len(r.rring)
  PROVE  \E n \in Nat :
           /\ Read(r, j).rring = SubSeq(r.rring, j + 1, Len(r.rring))
                                   \o [k \in 1 .. n |-> g + k]
           /\ HoldsFrom(Read(r, j), g + n)
           /\ Buffered(Read(r, j)) = {c \in Buffered(r) : c > g + n}
           /\ \A k \in 1 .. n : g + k \in Buffered(r)
<1> DEFINE s == SubSeq(r.rring, j + 1, Len(r.rring))
           p == [r EXCEPT !.rring = s]
<1>1. r.rring \in Seq(Chunks) /\ Len(r.rring) <= RINGCAP /\ Len(r.rring) \in Nat
  BY DEF Endpoint, Fits
<1>2. s \in Seq(Chunks) /\ Len(s) <= RINGCAP
  <2>1. \A i \in j + 1 .. Len(r.rring) : r.rring[i] \in Chunks
    BY <1>1
  <2>2. s \in Seq(Chunks) /\ Len(s) = IF j + 1 <= Len(r.rring) THEN Len(r.rring) - j ELSE 0
    BY <1>1, <2>1, SubSeqProperties
  <2> QED BY <1>1, <2>2, Moduli
<1>3. Read(r, j) = Drain(p)
  BY DEF Read
<1> HIDE DEF s
<1>4. p \in Endpoint /\ Fits(p) /\ p.rring = s /\ p.rx = r.rx /\ p.rxNext = r.rxNext
  BY <1>2 DEF Endpoint, Fits
<1> HIDE DEF p
<1>5. HoldsFrom(p, g) /\ Buffered(p) = Buffered(r)
  BY <1>4 DEF HoldsFrom, Buffered
<1>6. PICK n \in Nat :
           /\ Drain(p).rring = p.rring \o [k \in 1 .. n |-> g + k]
           /\ HoldsFrom(Drain(p), g + n)
           /\ Buffered(Drain(p)) = {c \in Buffered(p) : c > g + n}
           /\ \A k \in 1 .. n : g + k \in Buffered(p)
  BY <1>4, <1>5, DrainIs
<1> QED BY <1>3, <1>4, <1>5, <1>6 DEF s

(* OnRx's data block takes a frame for the chunk it carries: it buffers it *)
(* when, and only when, that chunk is in the receive window.               *)
LEMMA TakeDataIs ==
  ASSUME NEW r \in Endpoint, Fits(r), NEW g \in Nat, HoldsFrom(r, g),
         NEW f \in AirFrame, f.pay >= 1, f.seq = SeqOf(f.pay - 1),
         g < f.pay + MAXWIN, f.pay <= g + 2 * MAXWIN
  PROVE  /\ SendHalf(TakeData(r, f)) = SendHalf(r) /\ Epochs(TakeData(r, f)) = Epochs(r)
         /\ \E n \in Nat, new \in {{}, {f.pay}} :
              /\ TakeData(r, f).rring = r.rring \o [k \in 1 .. n |-> g + k]
              /\ HoldsFrom(TakeData(r, f), g + n)
              /\ Buffered(TakeData(r, f)) = {c \in Buffered(r) \union new : c > g + n}
              /\ \A k \in 1 .. n : g + k \in Buffered(r) \union new
<1> DEFINE c        == f.pay
           slot     == f.seq % MAXWIN
           buffered == IF Held(r, f.seq) THEN r
                       ELSE [r EXCEPT !.rx[slot] =
                               [held |-> TRUE, seq |-> f.seq, pay |-> f.pay]]
           kept     == IF SeqDist(f.seq, r.rxNext) < MAXWIN THEN Drain(buffered) ELSE r
<1>0. /\ SEQMOD \in Nat \ {0} /\ MAXWIN \in Nat \ {0} /\ 2 * MAXWIN < SEQMOD
      /\ c \in Nat /\ r.rxNext = SeqOf(g) /\ f.seq \in Seqs
  BY Moduli DEF AirFrame, Chunks, HoldsFrom
<1>1. TakeData(r, f) = [kept EXCEPT !.ackPending = TRUE]
  BY DEF TakeData
<1>2. SeqDist(f.seq, r.rxNext) < MAXWIN <=> c \in g + 1 .. g + MAXWIN
  <2>1. c - 1 \in Int /\ SeqDist(f.seq, r.rxNext) = SeqDist(SeqOf(c - 1), SeqOf(g))
    BY <1>0
  <2>2. CASE c - 1 >= g
    <3>1. (c - 1) - g \in 0 .. SEQMOD - 1
      BY <1>0, <2>2
    <3>2. SeqDist(SeqOf(c - 1), SeqOf(g)) = (c - 1) - g
      BY <2>1, <3>1, DistIs
    <3> HIDE DEF c
    <3> QED BY <1>0, <2>1, <2>2, <3>2
  <2>3. CASE c - 1 < g
    <3>1. g - (c - 1) \in 1 .. SEQMOD
      BY <1>0, <2>3
    <3>2. SeqDist(SeqOf(c - 1), SeqOf(g)) = (c - 1) - g + SEQMOD
      BY <2>1, <3>1, DistIs
    <3>3. g < c + MAXWIN
      OBVIOUS
    <3> HIDE DEF c
    <3> QED BY <1>0, <2>1, <2>3, <3>2, <3>3
  <2> QED BY <1>0, <2>2, <2>3
<1> HIDE DEF kept
<1>3. CASE c \in g + 1 .. g + MAXWIN
  <2>1. /\ slot \in Slots /\ slot = PlaceOf(c - 1)
        /\ Held(r, f.seq) <=> c \in Buffered(r)
        /\ r.rx[slot].held <=> c \in Buffered(r)
    BY <1>3, HeldIs
  <2>2. kept = Drain(buffered)
    BY <1>2, <1>3 DEF kept
  <2>3. /\ buffered \in Endpoint /\ Fits(buffered) /\ buffered.rring = r.rring
        /\ buffered.rxNext = r.rxNext
        /\ SendHalf(buffered) = SendHalf(r) /\ Epochs(buffered) = Epochs(r)
    <3>1. [held |-> TRUE, seq |-> f.seq, pay |-> f.pay] \in RxSlot
      BY <1>0 DEF RxSlot, Chunks
    <3> HIDE DEF slot
    <3> QED BY <2>1, <3>1 DEF Endpoint, Fits, SendHalf, Epochs
  <2>4. HoldsFrom(buffered, g) /\ Buffered(buffered) = Buffered(r) \union {c}
    <3>1. CASE Held(r, f.seq)
      BY <2>1, <3>1
    <3>2. CASE ~ Held(r, f.seq)
      <4> DEFINE x == [held |-> TRUE, seq |-> f.seq, pay |-> f.pay]
      <4>1. /\ \A t \in Slots : t # slot => buffered.rx[t] = r.rx[t]
            /\ buffered.rx[slot] = x
        BY <2>1, <3>2 DEF Endpoint
      <4>2. ~ r.rx[slot].held
        BY <2>1, <3>2
      <4>3. x.held /\ x.pay = c /\ x.seq = SeqOf(c - 1)
        OBVIOUS
      <4> HIDE DEF buffered, x, slot, c
      <4>4. HoldsFrom(buffered, g)
        BY <1>3, <2>1, <2>3, <4>1, <4>3 DEF HoldsFrom
      <4>5. Buffered(buffered) = Buffered(r) \union {c}
        BY <2>1, <4>1, <4>2, <4>3 DEF Buffered
      <4> QED BY <4>4, <4>5
    <3> QED BY <3>1, <3>2
  <2> HIDE DEF buffered
  <2>5. PICK n \in Nat :
           /\ Drain(buffered).rring = buffered.rring \o [k \in 1 .. n |-> g + k]
           /\ HoldsFrom(Drain(buffered), g + n)
           /\ Buffered(Drain(buffered)) = {d \in Buffered(buffered) : d > g + n}
           /\ \A k \in 1 .. n : g + k \in Buffered(buffered)
    BY <2>3, <2>4, DrainIs
  <2>6. Drain(buffered) \in Endpoint
    BY <2>3, DrainType
  <2>7. SendHalf(Drain(buffered)) = SendHalf(r) /\ Epochs(Drain(buffered)) = Epochs(r)
    BY <2>3, DrainKeeps
  <2>8. /\ TakeData(r, f).rring = kept.rring /\ TakeData(r, f).rx = kept.rx
        /\ TakeData(r, f).rxNext = kept.rxNext /\ Epochs(TakeData(r, f)) = Epochs(kept)
        /\ SendHalf(TakeData(r, f)) = SendHalf(kept)
    BY <1>1, <2>2, <2>6 DEF Endpoint, SendHalf, Epochs
  <2>9. /\ HoldsFrom(TakeData(r, f), g + n) 
        /\ Buffered(TakeData(r, f)) = Buffered(kept)
    BY <2>2, <2>5, <2>8 DEF HoldsFrom, Buffered
  <2> QED BY <2>2, <2>3, <2>4, <2>5, <2>7, <2>8, <2>9
<1>4. CASE c \notin g + 1 .. g + MAXWIN
  <2>1. kept = r
    BY <1>2, <1>4 DEF kept
  <2>2. /\ TakeData(r, f).rring = r.rring /\ TakeData(r, f).rx = r.rx
        /\ TakeData(r, f).rxNext = r.rxNext /\ Epochs(TakeData(r, f)) = Epochs(r)
        /\ SendHalf(TakeData(r, f)) = SendHalf(r)
    BY <1>1, <2>1 DEF Endpoint, SendHalf, Epochs
  <2>3. r.rring \in Seq(Chunks)
    BY DEF Endpoint
  <2>4. [k \in 1 .. 0 |-> g + k] = <<>> /\ r.rring \o <<>> = r.rring
    BY <2>3
  <2>5. HoldsFrom(TakeData(r, f), g + 0) /\ Buffered(TakeData(r, f)) = Buffered(r)
    BY <2>2 DEF HoldsFrom, Buffered
  <2>6. Buffered(r) = {d \in Buffered(r) \union {} : d > g + 0}
    BY BufferedType
  <2>7. TakeData(r, f).rring = r.rring \o [k \in 1 .. 0 |-> g + k]
    BY <2>2, <2>4
  <2>8. Buffered(TakeData(r, f)) = {d \in Buffered(r) \union {} : d > g + 0}
    BY <2>5, <2>6
  <2>9. 0 \in Nat /\ {} \in {{}, {f.pay}} /\ \A k \in 1 .. 0 : g + k \in Buffered(r) \union {}
    OBVIOUS
  <2> QED BY ONLY <2>2, <2>5, <2>7, <2>8, <2>9
<1> QED BY <1>3, <1>4

(* Concatenation and suffixes, element by element. *)
LEMMA ConcatIs ==
  ASSUME NEW S, NEW p \in Seq(S), NEW q \in Seq(S)
  PROVE  /\ p \o q \in Seq(S) /\ Len(p \o q) = Len(p) + Len(q)
         /\ \A i \in 1 .. Len(p) : (p \o q)[i] = p[i]
         /\ \A i \in 1 .. Len(q) : (p \o q)[Len(p) + i] = q[i]
         /\ \A i \in 1 .. Len(p) + Len(q) : i > Len(p) => (p \o q)[i] = q[i - Len(p)]
BY ConcatProperties

(* What is left of a sequence without its first m elements.                *)
LEMMA SuffixIs ==
  ASSUME NEW S, NEW q \in Seq(S), NEW m \in 0 .. Len(q)
  PROVE  /\ SubSeq(q, m + 1, Len(q)) \in Seq(S)
         /\ Len(SubSeq(q, m + 1, Len(q))) = Len(q) - m
         /\ \A i \in 1 .. Len(q) - m : SubSeq(q, m + 1, Len(q))[i] = q[m + i]
<1>1. \A i \in m + 1 .. Len(q) : q[i] \in S
  OBVIOUS
<1>2. Len(q) \in Nat /\ m + 1 \in 1 .. Len(q) + 1
  OBVIOUS
<1> DEFINE t == SubSeq(q, m + 1, Len(q))
<1>3. /\ t \in Seq(S)
      /\ Len(t) = IF m + 1 <= Len(q) THEN Len(q) - (m + 1) + 1 ELSE 0
      /\ \A i \in 1 .. Len(q) - (m + 1) + 1 : t[i] = q[(m + 1) + i - 1]
  BY <1>1, <1>2, SubSeqProperties
<1> HIDE DEF t
<1>4. Len(q) - (m + 1) + 1 = Len(q) - m /\ (m + 1 <= Len(q) \/ Len(q) - m = 0)
  BY <1>2
<1>5. \A i \in 1 .. Len(q) - m : t[i] = q[m + i]
  <2> SUFFICES ASSUME NEW i \in 1 .. Len(q) - m PROVE t[i] = q[m + i]
    OBVIOUS
  <2>1. (m + 1) + i - 1 = m + i
    BY <1>2
  <2>2. t[i] = q[(m + 1) + i - 1]
    BY <1>3, <1>4
  <2> QED BY <2>1, <2>2
<1>6. Len(t) = Len(q) - m
  BY <1>2, <1>3, <1>4
<1> QED BY <1>3, <1>5, <1>6 DEF t

(* Only the numbers of the window matter to SendsFrom. *)
LEMMA SendsSame ==
  ASSUME NEW s, NEW t, NEW b, SendsFrom(s, b),
         t.base = s.base, t.next = s.next, t.sring = s.sring, Len(t.win) = Len(s.win),
         \A i \in 1 .. Len(s.win) : t.win[i].pay = s.win[i].pay /\ t.win[i].seq = s.win[i].seq
  PROVE  SendsFrom(t, b)
BY DEF SendsFrom

(* NextTx's first loop numbers the next chunks of the ring. *)
LEMMA FillIs ==
  ASSUME NEW s \in Endpoint, Fits(s), NEW b \in Nat, SendsFrom(s, b)
  PROVE  LET f == Fill(s)
         IN /\ SendsFrom(f, b) /\ f.base = s.base
            /\ Len(f.win) + Len(f.sring) = Len(s.win) + Len(s.sring)
            /\ Len(f.win) >= Len(s.win)
            /\ \A i \in 1 .. Len(f.win) :
                 f.win[i].acked => i <= Len(s.win) /\ s.win[i].acked
<1> DEFINE room == s.window - Len(s.win)
           n    == IF room <= 0 THEN 0 ELSE Least(room, Len(s.sring))
           new  == [k \in 1 .. n |-> NewFrame(SeqAdd(s.next, k - 1), s.sring[k])]
           left == SubSeq(s.sring, n + 1, Len(s.sring))
           w    == s.win \o new
           l    == Len(s.win)
<1>1. /\ s.win \in Seq(TxFrame) /\ l \in Nat /\ l <= MAXWIN /\ l = Len(s.win)
      /\ s.sring \in Seq(Chunks) /\ Len(s.sring) \in Nat
      /\ s.window \in 1 .. MAXWIN /\ MAXWIN \in Nat
      /\ s.next = SeqOf(b + l) /\ s.base = SeqOf(b)
  BY Moduli DEF Endpoint, Fits, SendsFrom
<1>2. n \in Nat /\ n <= Len(s.sring)
  BY <1>1 DEF Least
<1>3. Fill(s) = [s EXCEPT !.win = w, !.next = SeqAdd(s.next, n), !.sring = left]
  BY DEF Fill
<1> HIDE DEF n, l
<1>4. /\ Len(new) = n /\ \A k \in 1 .. n : new[k] = NewFrame(SeqAdd(s.next, k - 1), s.sring[k])
      /\ new \in Seq(TxFrame)
  <2>1. \A k \in 1 .. n : NewFrame(SeqAdd(s.next, k - 1), s.sring[k]) \in TxFrame
    <3> SUFFICES ASSUME NEW k \in 1 .. n
                 PROVE  NewFrame(SeqAdd(s.next, k - 1), s.sring[k]) \in TxFrame
      OBVIOUS
    <3>1. s.next \in Int /\ k - 1 \in Int /\ s.sring[k] \in Chunks
      BY <1>1, <1>2 DEF Endpoint, Seqs
    <3>2. SeqAdd(s.next, k - 1) \in Seqs
      BY <3>1, SeqArith
    <3> QED BY <3>1, <3>2 DEF NewFrame, TxFrame
  <2> QED BY <1>2, <2>1
<1>5. \A k \in 1 .. n : /\ new[k].pay = b + l + k
                        /\ new[k].seq = SeqOf(b + l + k - 1)
                        /\ ~ new[k].acked
  <2> SUFFICES ASSUME NEW k \in 1 .. n
               PROVE  /\ new[k].pay = b + l + k /\ new[k].seq = SeqOf(b + l + k - 1)
                      /\ ~ new[k].acked
    OBVIOUS
  <2>1. SeqAdd(s.next, k - 1) = SeqOf((b + l) + (k - 1))
    <3>1. b + l \in Int /\ k - 1 \in Int
      BY <1>1, <1>2
    <3> QED BY <1>1, <3>1, SumOf
  <2>2. (b + l) + (k - 1) = b + l + k - 1
    BY <1>1, <1>2
  <2>3. s.sring[k] = b + l + k
    BY <1>1, <1>2 DEF SendsFrom
  <2>4. new[k] = NewFrame(SeqOf(b + l + k - 1), b + l + k)
    BY <1>4, <2>1, <2>2, <2>3
  <2> HIDE DEF new
  <2> QED BY <2>4 DEF NewFrame
<1> HIDE DEF new
<1>6. /\ Len(w) = l + n
      /\ \A i \in 1 .. l : w[i] = s.win[i]
      /\ \A i \in 1 .. l + n : i > l => w[i] = new[i - l]
  <2>1. /\ Len(w) = Len(s.win) + Len(new)
        /\ \A i \in 1 .. Len(s.win) : w[i] = s.win[i]
        /\ \A i \in 1 .. Len(s.win) + Len(new) :
              i > Len(s.win) => w[i] = new[i - Len(s.win)]
    <3>1. s.win \in Seq(TxFrame) /\ new \in Seq(TxFrame)
      BY <1>1, <1>4
    <3> QED BY ONLY <3>1, ConcatIs DEF w
  <2> HIDE DEF w
  <2> QED BY <1>1, <1>4, <2>1
<1>7. /\ Len(left) = Len(s.sring) - n
      /\ \A k \in 1 .. Len(s.sring) - n : left[k] = s.sring[n + k]
  <2>1. n \in 0 .. Len(s.sring)
    BY <1>1, <1>2
  <2> QED BY <1>1, <2>1, SuffixIs
<1> HIDE DEF w, left
<1>8. /\ Fill(s).win = w /\ Fill(s).next = SeqAdd(s.next, n) /\ Fill(s).sring = left
      /\ Fill(s).base = s.base
  BY <1>3 DEF Endpoint
<1>9. SeqAdd(s.next, n) = SeqOf(b + Len(w))
  <2>1. b + l \in Int /\ n \in Int /\ (b + l) + n = b + Len(w)
    BY <1>1, <1>2, <1>6
  <2>2. SeqAdd(SeqOf(b + l), n) = SeqOf((b + l) + n)
    BY <2>1, SumOf
  <2> QED BY <1>1, <2>1, <2>2
<1>10. \A i \in 1 .. Len(w) : w[i].pay = b + i /\ w[i].seq = SeqOf(b + i - 1)
  <2> SUFFICES ASSUME NEW i \in 1 .. Len(w)
               PROVE  w[i].pay = b + i /\ w[i].seq = SeqOf(b + i - 1)
    OBVIOUS
  <2>1. CASE i <= l
    <3>1. i \in 1 .. l /\ w[i] = s.win[i]
      BY <1>1, <1>6, <2>1
    <3> QED BY <1>1, <3>1 DEF SendsFrom
  <2>2. CASE i > l
    <3> DEFINE k == i - l
    <3>0. i \in Int /\ i <= l + n /\ l \in Int /\ n \in Int /\ b \in Int
      BY <1>1, <1>2, <1>6
    <3>1. /\ k \in 1 .. n /\ b + l + k = b + i
          /\ b + l + k - 1 = b + i - 1
      BY <2>2, <3>0
    <3>2. w[i] = new[k]
      BY <1>1, <1>6, <2>2
    <3> HIDE DEF k
    <3>3. new[k].pay = b + l + k /\ new[k].seq = SeqOf(b + l + k - 1)
      BY <1>5, <3>1
    <3> QED BY <3>1, <3>2, <3>3
  <2> QED BY <1>1, <1>2, <2>1, <2>2
<1>11. \A k \in 1 .. Len(left) : left[k] = b + Len(w) + k
  <2> SUFFICES ASSUME NEW k \in 1 .. Len(left) PROVE left[k] = b + Len(w) + k
    OBVIOUS
  <2>1. n + k \in 1 .. Len(s.sring) /\ left[k] = s.sring[n + k]
    BY <1>1, <1>2, <1>7
  <2>2. s.sring[n + k] = b + l + (n + k)
    BY <1>1, <2>1 DEF SendsFrom
  <2>3. b + l + (n + k) = b + Len(w) + k
    <3>1. k \in Int /\ b \in Int /\ l \in Int /\ n \in Int /\ Len(w) = l + n
      BY <1>1, <1>2, <1>6, <1>7
    <3> QED BY ONLY <3>1
  <2> QED BY <2>1, <2>2, <2>3
<1>12. \A i \in 1 .. Len(w) : w[i].acked => i <= l /\ s.win[i].acked
  <2> SUFFICES ASSUME NEW i \in 1 .. Len(w), w[i].acked PROVE i <= l /\ s.win[i].acked
    OBVIOUS
  <2>1. CASE i <= l
    BY <1>1, <1>6, <2>1
  <2>2. CASE i > l
    <3>1. i \in Int /\ i > l /\ i <= l + n /\ l \in Int /\ n \in Int
      BY <1>1, <1>2, <1>6, <2>2
    <3>2. i - l \in 1 .. n
      BY ONLY <3>1
    <3>3. w[i] = new[i - l]
      BY <1>6, <2>2
    <3> QED BY <1>5, <3>2, <3>3
  <2> QED BY <1>1, <1>2, <2>1, <2>2
<1>13. Len(w) + Len(left) = l + Len(s.sring) /\ Len(w) >= l
  <2> DEFINE x == Len(w)
             y == Len(left)
             z == Len(s.sring)
  <2>1. l \in Int /\ n \in Nat /\ z \in Int /\ x = l + n /\ y = z - n
    BY <1>1, <1>2, <1>6, <1>7
  <2> HIDE DEF x, y, z
  <2>2. x + y = l + z /\ x >= l
    BY ONLY <2>1
  <2> QED BY <2>2 DEF x, y, z
<1>14. SendsFrom(Fill(s), b)
  BY <1>1, <1>8, <1>9, <1>10, <1>11 DEF SendsFrom
<1> QED
  <2> DEFINE f == Fill(s)
  <2> HIDE DEF f
  <2>1. /\ f.win = w /\ f.sring = left /\ f.base = s.base /\ SendsFrom(f, b)
        /\ l = Len(s.win)
    BY <1>1, <1>8, <1>14 DEF f
  <2>2. Len(f.win) + Len(f.sring) = Len(s.win) + Len(s.sring) /\ Len(f.win) >= Len(s.win)
    BY <1>13, <2>1
  <2>3. \A i \in 1 .. Len(f.win) : f.win[i].acked => i <= Len(s.win) /\ s.win[i].acked
    BY <1>12, <2>1
  <2> QED BY <2>1, <2>2, <2>3 DEF f

(* What a frame says of chunk c, when its ack stands for a. *)
Said(a, sack, c) == c <= a \/ \E k \in sack : c = a + 2 + k

(* AckProcess takes an ack and a SACK for the chunks they stand for: it    *)
(* lets go of the first m of the window, and marks and lets go of nothing  *)
(* that the frame does not say, or an earlier one did not.                 *)
LEMMA AckProcessIs ==
  ASSUME NEW s \in Endpoint, Fits(s), NEW b \in Nat, SendsFrom(s, b),
         NEW a \in Int, b <= a + MAXWIN, a <= b + Len(s.win),
         NEW sack \in SUBSET (0 .. MAXWIN - 2)
  PROVE  LET t == AckProcess(s, SeqOf(a), sack)
         IN \E m \in 0 .. Len(s.win) :
              /\ SendsFrom(t, b + m) /\ Len(t.win) = Len(s.win) - m
              /\ \A i \in 1 .. m : s.win[i].acked \/ Said(a, sack, b + i)
              /\ \A i \in 1 .. Len(t.win) :
                   t.win[i].acked => s.win[m + i].acked \/ Said(a, sack, b + m + i)
<1> DEFINE ack == SeqOf(a)
           cum == SeqDist(ack, s.base)
           l   == Len(s.win)
           said(c) == c <= a \/ \E k \in sack : c = a + 2 + k
           mark(i) == \/ s.win[i].acked
                      \/ cum <= Len(s.win) /\ i <= cum
                      \/ \E k \in sack : s.win[i].seq = SeqAdd(ack, 1 + k)
           marked == [i \in 1 .. Len(s.win) |-> [s.win[i] EXCEPT !.acked = mark(i)]]
           m      == PrefixLength({i \in 1 .. Len(s.win) : marked[i].acked}, Len(s.win))
           rest   == SubSeq(marked, m + 1, Len(s.win))
           fast(i) == \/ rest[i].fast
                      \/ /\ rest[i].sent /\ ~rest[i].acked
                         /\ \E j \in i + 1 .. Len(rest) : rest[j].acked
           final  == [i \in 1 .. Len(rest) |-> [rest[i] EXCEPT !.fast = fast(i)]]
           t      == AckProcess(s, ack, sack)
<1>0. /\ SEQMOD \in Nat \ {0} /\ MAXWIN \in Nat \ {0} /\ 2 * MAXWIN < SEQMOD
      /\ s.win \in Seq(TxFrame) /\ l \in Nat /\ l <= MAXWIN /\ l = Len(s.win)
      /\ s.base = SeqOf(b) /\ ack = SeqOf(a) /\ a <= b + l /\ b <= a + MAXWIN
  BY Moduli DEF Endpoint, Fits, SendsFrom
<1>1. t = [s EXCEPT !.win = final, !.base = SeqAdd(s.base, m)]
  BY DEF AckProcess
<1>2. ASSUME NEW i \in 1 .. l
      PROVE  mark(i) <=> s.win[i].acked \/ said(b + i)
  <2>1. cum <= l /\ i <= cum <=> b + i <= a
    <3>1. CASE a >= b
      <4>1. a - b \in 0 .. SEQMOD - 1
        BY <1>0, <3>1
      <4>2. cum = a - b
        BY <1>0, <4>1, DistIs
      <4> HIDE DEF cum
      <4> QED BY <1>0, <3>1, <4>2
    <3>2. CASE a < b
      <4>1. b - a \in 1 .. SEQMOD
        BY <1>0, <3>2
      <4>2. cum = a - b + SEQMOD
        BY <1>0, <4>1, DistIs
      <4> HIDE DEF cum
      <4> QED BY <1>0, <3>2, <4>2
    <3> QED BY <1>0, <3>1, <3>2
  <2>2. ASSUME NEW k \in sack
        PROVE  s.win[i].seq = SeqAdd(ack, 1 + k) <=> b + i = a + 2 + k
    <3>1. k \in 0 .. MAXWIN - 2 /\ k \in Int /\ 1 + k \in Int
      BY <1>0
    <3>2. SeqAdd(ack, 1 + k) = SeqOf(a + (1 + k))
      BY <3>1, SumOf
    <3>3. s.win[i].seq = SeqOf(b + i - 1)
      BY DEF SendsFrom
    <3> DEFINE x == b + i - 1
               y == a + (1 + k)
    <3>4. x \in Int /\ y \in Int /\ x - y < SEQMOD /\ y - x < SEQMOD
      BY <1>0, <3>1
    <3>5. x = y <=> b + i = a + 2 + k
      BY <1>0, <3>1
    <3> HIDE DEF x, y
    <3>6. SeqOf(x) = SeqOf(y) => x = y
      BY <3>4, SeqUnique
    <3> QED BY <3>2, <3>3, <3>5, <3>6 DEF x, y
  <2> HIDE DEF cum, l, ack
  <2> QED BY <2>1, <2>2 DEF l
<1> HIDE DEF mark, said
<1>3. /\ Len(marked) = l /\ marked \in Seq(TxFrame)
      /\ \A i \in 1 .. l : marked[i] = [s.win[i] EXCEPT !.acked = mark(i)]
  <2>1. ASSUME NEW i \in 1 .. l PROVE [s.win[i] EXCEPT !.acked = mark(i)] \in TxFrame
    <3>1. s.win[i] \in TxFrame
      BY <1>0
    <3>2. mark(i) \in BOOLEAN
      BY <1>0, <3>1 DEF mark, TxFrame
    <3> QED BY <3>1, <3>2 DEF TxFrame
  <2>2. marked \in [1 .. l -> TxFrame]
    BY <2>1
  <2> HIDE DEF marked
  <2>3. marked \in Seq(TxFrame) /\ Len(marked) = l
    BY <1>0, <2>2, FunctionIsSeq
  <2> QED BY <2>3 DEF marked
<1>4. \A i \in 1 .. l : /\ marked[i].pay = s.win[i].pay /\ marked[i].seq = s.win[i].seq
                        /\ marked[i].acked = mark(i)
  <2> SUFFICES ASSUME NEW i \in 1 .. l
               PROVE  /\ marked[i].pay = s.win[i].pay /\ marked[i].seq = s.win[i].seq
                      /\ marked[i].acked = mark(i)
    OBVIOUS
  <2>1. s.win[i] \in TxFrame /\ marked[i] = [s.win[i] EXCEPT !.acked = mark(i)]
    BY <1>0, <1>3
  <2> HIDE DEF marked, l
  <2> QED BY <2>1 DEF TxFrame
<1> HIDE DEF marked
<1>5. m \in 0 .. l /\ \A i \in 1 .. m : marked[i].acked
  <2> DEFINE S == {i \in 1 .. l : marked[i].acked}
  <2>1. PrefixLength(S, l) \in 0 .. l /\ 1 .. PrefixLength(S, l) \subseteq S
    BY <1>0, PrefixLengthType, PrefixLengthValue
  <2> QED BY <2>1
<1> HIDE DEF m
<1>6. Len(rest) = l - m /\ \A i \in 1 .. l - m : rest[i] = marked[m + i]
  <2>1. m \in 0 .. Len(marked) /\ rest = SubSeq(marked, m + 1, Len(marked))
    BY <1>0, <1>3, <1>5
  <2>2. /\ Len(SubSeq(marked, m + 1, Len(marked))) = Len(marked) - m
        /\ \A i \in 1 .. Len(marked) - m :
             SubSeq(marked, m + 1, Len(marked))[i] = marked[m + i]
    BY ONLY <1>3, <2>1, SuffixIs
  <2> HIDE DEF rest, l
  <2> QED BY <1>3, <2>1, <2>2
<1>7. /\ Len(final) = l - m
      /\ \A i \in 1 .. l - m : final[i] = [rest[i] EXCEPT !.fast = fast(i)]
  <2>1. l - m \in Nat
    BY <1>0, <1>5
  <2> HIDE DEF rest, fast
  <2> QED BY <1>6, <2>1
<1>8. \A i \in 1 .. l - m : /\ final[i].pay = s.win[m + i].pay
                            /\ final[i].seq = s.win[m + i].seq
                            /\ final[i].acked = mark(m + i)
  <2> SUFFICES ASSUME NEW i \in 1 .. l - m
               PROVE  /\ final[i].pay = s.win[m + i].pay
                      /\ final[i].seq = s.win[m + i].seq
                      /\ final[i].acked = mark(m + i)
    OBVIOUS
  <2>1. m + i \in 1 .. l
    BY <1>0, <1>5
  <2>2. rest[i] = [s.win[m + i] EXCEPT !.acked = mark(m + i)] /\ s.win[m + i] \in TxFrame
    <3> HIDE DEF rest
    <3>1. rest[i] = marked[m + i]
      BY <1>6
    <3>2. marked[m + i] = [s.win[m + i] EXCEPT !.acked = mark(m + i)]
      BY <1>3, <2>1
    <3> QED BY <1>0, <2>1, <3>1, <3>2
  <2>3. final[i] = [rest[i] EXCEPT !.fast = fast(i)]
    BY <1>7
  <2> HIDE DEF final, rest, fast, l
  <2> QED BY <2>2, <2>3 DEF TxFrame
<1> HIDE DEF final, rest
<1>9. /\ t.win = final /\ t.base = SeqAdd(s.base, m) /\ t.next = s.next /\ t.sring = s.sring
  BY <1>1 DEF Endpoint
<1>10. t.base = SeqOf(b + m)
  BY <1>0, <1>5, <1>9, SumOf
<1>11. (b + m) + (l - m) = b + l /\ l - m \in Nat
  <2>1. b \in Int /\ m \in Int /\ l \in Int /\ m <= l
    BY <1>0, <1>5
  <2> HIDE DEF l
  <2> QED BY ONLY <2>1
<1>12. ASSUME NEW i \in 1 .. l - m
       PROVE  final[i].pay = (b + m) + i /\ final[i].seq = SeqOf((b + m) + i - 1)
  <2>1. m + i \in 1 .. l /\ b + (m + i) = (b + m) + i
    <3>1. b \in Int /\ m \in Nat /\ l \in Int /\ i \in 1 .. l - m
      BY <1>0, <1>5
    <3> HIDE DEF l
    <3> QED BY ONLY <3>1
  <2>2. s.win[m + i].pay = b + (m + i) /\ s.win[m + i].seq = SeqOf(b + (m + i) - 1)
    BY <2>1 DEF SendsFrom
  <2>3. final[i].pay = s.win[m + i].pay /\ final[i].seq = s.win[m + i].seq
    BY <1>8
  <2>4. SeqOf(b + (m + i) - 1) = SeqOf((b + m) + i - 1)
    <3>1. b + (m + i) - 1 = (b + m) + i - 1
      <4>1. b \in Int /\ m \in Int /\ i \in Int
        BY <1>0, <1>5
      <4> QED BY ONLY <4>1
    <3> QED BY ONLY <3>1
  <2> QED BY ONLY <2>1, <2>2, <2>3, <2>4
<1>13. /\ s.next = SeqOf(b + l)
       /\ \A k \in 1 .. Len(s.sring) : s.sring[k] = b + l + k
  BY DEF SendsFrom
<1>14. SendsFrom(t, b + m) /\ Len(t.win) = Len(s.win) - m
  <2>1. t.win = final /\ Len(t.win) = l - m /\ t.next = s.next /\ t.sring = s.sring
    BY <1>7, <1>9
  <2> HIDE DEF t, l
  <2>2. SendsFrom(t, b + m)
    BY <1>10, <1>11, <1>12, <1>13, <2>1 DEF SendsFrom
  <2> QED BY <1>0, <2>1, <2>2 DEF l
<1>15. \A i \in 1 .. m : s.win[i].acked \/ said(b + i)
  BY <1>0, <1>2, <1>4, <1>5, SMTT(20)
<1>16. \A i \in 1 .. Len(t.win) : t.win[i].acked => s.win[m + i].acked \/ said(b + m + i)
  <2> SUFFICES ASSUME NEW i \in 1 .. l - m, mark(m + i)
               PROVE  s.win[m + i].acked \/ said(b + m + i)
    BY <1>7, <1>8, <1>9
  <2>1. m + i \in 1 .. l /\ b + (m + i) = b + m + i
    BY <1>0, <1>5
  <2> QED BY <1>2, <2>1
<1> QED BY <1>5, <1>14, <1>15, <1>16 DEF said, Said

(* The cumulative ack of a frame stands for the last number not beyond g   *)
(* that is its ack modulo SEQMOD.                                          *)
LEMMA AckNoIs ==
  ASSUME NEW g \in Int, NEW f, f.ack \in Seqs
  PROVE  /\ AckNo(g, f) \in Int /\ AckNo(g, f) <= g /\ g - AckNo(g, f) < SEQMOD
         /\ SeqOf(AckNo(g, f)) = f.ack
<1> DEFINE x == f.ack
           d == SeqDist(g, x)
<1>1. SEQMOD \in Nat \ {0} /\ x \in 0 .. SEQMOD - 1 /\ x \in Int
  BY Moduli DEF Seqs
<1> HIDE DEF x
<1>2. g - x \in Int
  BY <1>1
<1>3. PICK q \in Int, r \in 0 .. SEQMOD - 1 :
        g - x = SEQMOD * q + r /\ (g - x) % SEQMOD = r
  BY <1>1, <1>2, Division
<1>4. d = r
  BY <1>3 DEF SeqDist
<1>5. g - d = SEQMOD * q + x
  <2>1. SEQMOD * q \in Int
    BY <1>1
  <2> DEFINE y == SEQMOD * q
  <2> HIDE DEF y, d
  <2>2. y \in Int /\ g - x = y + r
    BY <1>3, <2>1 DEF y
  <2>3. g - r = y + x
    BY <1>1, <1>3, <2>2
  <2> QED BY <1>4, <2>3 DEF y
<1>6. SeqOf(g - d) = x
  BY <1>1, <1>5, Remainder DEF SeqOf
<1>7. d \in 0 .. SEQMOD - 1
  BY <1>4
<1>8. AckNo(g, f) = g - d
  BY DEF AckNo, x
<1> HIDE DEF d
<1>9. g - d \in Int /\ g - d <= g /\ g - (g - d) < SEQMOD
  BY <1>1, <1>7
<1> QED BY <1>6, <1>8, <1>9 DEF x

(* It is that number whatever g is, as long as g is not too far on. *)
LEMMA AckNoOf ==
  ASSUME NEW g \in Int, NEW a \in Int, NEW f, f.ack = SeqOf(a), a <= g, g - a < SEQMOD
  PROVE  AckNo(g, f) = a
<1>1. f.ack \in Seqs /\ SEQMOD \in Nat \ {0}
  BY SumOf, Moduli
<1> DEFINE c == AckNo(g, f)
<1>2. c \in Int /\ c <= g /\ g - c < SEQMOD /\ SeqOf(c) = SeqOf(a)
  BY <1>1, AckNoIs
<1> HIDE DEF c
<1>3. c - a < SEQMOD /\ a - c < SEQMOD
  BY <1>1, <1>2
<1>4. c = a
  BY <1>2, <1>3, SeqUnique
<1> QED BY <1>4 DEF c

(* The window of an endpoint. *)
LEMMA WinType ==
  ASSUME NEW s \in Endpoint
  PROVE  /\ s.win \in Seq(TxFrame) /\ Len(s.win) \in Nat
         /\ \A i \in 1 .. Len(s.win) : s.win[i] \in TxFrame /\ s.win[i].pay \in Nat
<1>1. s.win \in Seq(TxFrame)
  BY DEF Endpoint
<1>2. \A i \in 1 .. Len(s.win) : s.win[i] \in TxFrame
  BY <1>1
<1>3. \A x \in TxFrame : x.pay \in Nat
  BY DEF TxFrame, Chunks
<1> QED BY <1>1, <1>2, <1>3

(* A step of the sender that lets go of nothing and marks nothing acked    *)
(* leaves the direction in agreement.                                      *)
LEMMA SenderMoves ==
  ASSUME NEW s \in Endpoint, NEW b \in Nat, NEW r \in Endpoint, NEW g \in Nat,
         NEW data \in Seq(AirFrame), NEW acks, Agreed(s, b, r, g, data, acks),
         NEW t \in Endpoint, SendsFrom(t, b), Len(t.win) >= Len(s.win),
         \A i \in 1 .. Len(t.win) : t.win[i].acked => i <= Len(s.win) /\ s.win[i].acked
  PROVE  Agreed(t, b, r, g, data, acks)
<1> DEFINE n == b + Len(s.win)
           m == b + Len(t.win)
<1>0. /\ SendsFrom(s, b) /\ HoldsFrom(r, g)
      /\ \A c \in Buffered(r) \union {g} : c <= n
      /\ AckedHeld(s, b, r, g)
      /\ DataInFlight(data, r, g, n)
      /\ AcksInFlight(acks, s, b, r, g)
  BY DEF Agreed
<1>1. Len(s.win) \in Nat /\ Len(t.win) \in Nat /\ n \in Nat /\ m \in Nat /\ n <= m
  <2>1. Len(s.win) \in Nat /\ Len(t.win) \in Nat
    BY WinType
  <2> QED BY <2>1
<1> HIDE DEF n, m
<1>2. \A i \in 1 .. Len(t.win) : t.win[i].acked =>
        /\ i \in 1 .. Len(s.win) /\ s.win[i].acked /\ t.win[i].pay = s.win[i].pay
  BY <1>0, <1>1 DEF SendsFrom
<1>3. AckedHeld(t, b, r, g)
  BY <1>0, <1>2 DEF AckedHeld
<1>4. AcksInFlight(acks, t, b, r, g)
  BY <1>0, <1>2 DEF AcksInFlight
<1>5. \A c \in Buffered(r) \union {g} : c <= m
  <2>1. \A c \in Buffered(r) \union {g} : c \in Int
    BY <1>0, BufferedType
  <2> QED BY <1>0, <1>1, <2>1
<1>6. DataInFlight(data, r, g, m)
  <2>1. \A i : data[i].pay \in 1 .. n => data[i].pay \in 1 .. m
    BY <1>1
  <2> QED BY <1>0, <2>1 DEF DataInFlight
<1> QED BY <1>0, <1>3, <1>4, <1>5, <1>6 DEF Agreed, m

(* A frame popped from a queue leaves the rest in agreement. *)
LEMMA QueueTail ==
  ASSUME NEW S, NEW q \in Seq(S), q # <<>>
  PROVE  /\ Tail(q) \in Seq(S) /\ Len(Tail(q)) = Len(q) - 1 /\ Len(Tail(q)) \in Nat
         /\ Head(q) = q[1] /\ Head(q) \in S /\ 1 \in 1 .. Len(q)
         /\ \A i \in 1 .. Len(Tail(q)) : i + 1 \in 1 .. Len(q) /\ Tail(q)[i] = q[i + 1]
<1>1. Len(q) \in Nat \ {0}
  OBVIOUS
<1> QED BY <1>1, HeadTailProperties

(* Appending to a queue. *)
LEMMA AppendIs ==
  ASSUME NEW S, NEW q \in Seq(S), NEW x \in S
  PROVE  LET p == Append(q, x)
         IN /\ p \in Seq(S) /\ Len(p) = Len(q) + 1
            /\ \A i \in 1 .. Len(p) : \/ i \in 1 .. Len(q) /\ p[i] = q[i]
                                      \/ i = Len(q) + 1 /\ p[i] = x
<1>1. Len(q) \in Nat
  OBVIOUS
<1>2. /\ Append(q, x) \in Seq(S) /\ Len(Append(q, x)) = Len(q) + 1
      /\ \A i \in 1 .. Len(q) : Append(q, x)[i] = q[i]
      /\ Append(q, x)[Len(q) + 1] = x
  BY AppendProperties
<1> QED BY <1>1, <1>2

(* Taking the oldest frame: the rest of the data queue is still in order,  *)
(* and what that frame says of itself and of those behind it.              *)
LEMMA DataTail ==
  ASSUME NEW q \in Seq(AirFrame), q # <<>>, NEW r, NEW g, NEW n, DataInFlight(q, r, g, n)
  PROVE  /\ DataInFlight(Tail(q), r, g, n)
         /\ Head(q).data => /\ Head(q).pay \in 1 .. n /\ Head(q).seq = SeqOf(Head(q).pay - 1)
                            /\ g < Head(q).pay + MAXWIN
                            /\ \A i \in 1 .. Len(Tail(q)) :
                                 Tail(q)[i].data => Head(q).pay < Tail(q)[i].pay + MAXWIN
<1> DEFINE p == Tail(q)
<1>1. /\ p \in Seq(AirFrame) /\ Len(p) = Len(q) - 1 /\ Len(p) \in Nat
      /\ Head(q) = q[1] /\ Head(q) \in AirFrame /\ 1 \in 1 .. Len(q)
      /\ \A i \in 1 .. Len(p) : i + 1 \in 1 .. Len(q) /\ p[i] = q[i + 1]
  BY QueueTail
<1> HIDE DEF p
<1>2. ASSUME NEW i \in 1 .. Len(p), p[i].data
      PROVE  LET c == p[i].pay
             IN /\ c \in 1 .. n /\ p[i].seq = SeqOf(c - 1)
                /\ g < c + MAXWIN
                /\ \A d \in Buffered(r) : d < c + MAXWIN
                /\ \A j \in 1 .. i - 1 : p[j].data => p[j].pay < c + MAXWIN
                /\ q[1].data => q[1].pay < c + MAXWIN
  <2>1. i + 1 \in 1 .. Len(q) /\ p[i] = q[i + 1] /\ q[i + 1].data
    BY <1>1, <1>2
  <2>2. LET c == q[i + 1].pay
        IN /\ c \in 1 .. n /\ q[i + 1].seq = SeqOf(c - 1)
           /\ g < c + MAXWIN
           /\ \A d \in Buffered(r) : d < c + MAXWIN
           /\ \A j \in 1 .. (i + 1) - 1 : q[j].data => q[j].pay < c + MAXWIN
    BY <2>1 DEF DataInFlight
  <2>3. \A j \in 1 .. i - 1 : j + 1 \in 1 .. (i + 1) - 1 /\ p[j] = q[j + 1]
    BY <1>1
  <2>4. 1 \in 1 .. (i + 1) - 1
    OBVIOUS
  <2> QED BY <2>1, <2>2, <2>3, <2>4
<1>3. DataInFlight(p, r, g, n)
  BY <1>2 DEF DataInFlight
<1>4. q[1].data => /\ q[1].pay \in 1 .. n /\ q[1].seq = SeqOf(q[1].pay - 1)
                   /\ g < q[1].pay + MAXWIN
  BY <1>1 DEF DataInFlight
<1> QED BY <1>1, <1>2, <1>3, <1>4 DEF p

(* The same for the acks.                                                  *)
LEMMA AcksTail ==
  ASSUME NEW q \in Seq(AirFrame), q # <<>>, NEW s, NEW b, NEW r, NEW g \in Nat,
         AcksInFlight(q, s, b, r, g)
  PROVE  LET a == AckNo(g, Head(q))
         IN /\ AcksInFlight(Tail(q), s, b, r, g)
            /\ b <= a + MAXWIN
            /\ \A k \in Head(q).sack : Holds(r, g, a + 2 + k)
            /\ \A i \in 1 .. Len(Tail(q)) : a <= AckNo(g, Tail(q)[i])
<1> DEFINE p == Tail(q)
<1>1. /\ p \in Seq(AirFrame) /\ Len(p) = Len(q) - 1 /\ Len(p) \in Nat
      /\ Head(q) = q[1] /\ Head(q) \in AirFrame /\ 1 \in 1 .. Len(q)
      /\ \A i \in 1 .. Len(p) : i + 1 \in 1 .. Len(q) /\ p[i] = q[i + 1]
  BY QueueTail
<1> HIDE DEF p
<1>2. ASSUME NEW i \in 1 .. Len(p)
      PROVE  LET a == AckNo(g, p[i])
             IN /\ b <= a + MAXWIN
                /\ \A k \in 1 .. Len(s.win) : s.win[k].acked => s.win[k].pay <= a + MAXWIN
                /\ \A j \in 1 .. i - 1 : AckNo(g, p[j]) <= a
                /\ \A k \in p[i].sack : Holds(r, g, a + 2 + k)
                /\ AckNo(g, q[1]) <= a
  <2>1. i + 1 \in 1 .. Len(q) /\ p[i] = q[i + 1]
    BY <1>1
  <2>2. LET a == AckNo(g, q[i + 1])
        IN /\ b <= a + MAXWIN
           /\ \A k \in 1 .. Len(s.win) : s.win[k].acked => s.win[k].pay <= a + MAXWIN
           /\ \A j \in 1 .. (i + 1) - 1 : AckNo(g, q[j]) <= a
           /\ \A k \in q[i + 1].sack : Holds(r, g, a + 2 + k)
    BY <2>1 DEF AcksInFlight
  <2>3. \A j \in 1 .. i - 1 : j + 1 \in 1 .. (i + 1) - 1 /\ p[j] = q[j + 1]
    BY <1>1
  <2>4. 1 \in 1 .. (i + 1) - 1
    OBVIOUS
  <2> QED BY <2>1, <2>2, <2>3, <2>4
<1>3. AcksInFlight(p, s, b, r, g)
  BY <1>2 DEF AcksInFlight
<1>4. LET a == AckNo(g, q[1])
      IN b <= a + MAXWIN /\ \A k \in q[1].sack : Holds(r, g, a + 2 + k)
  BY <1>1 DEF AcksInFlight
<1> QED BY <1>1, <1>2, <1>3, <1>4 DEF p

(* A data frame of the window joins the queue in agreement. *)
LEMMA DataAppend ==
  ASSUME NEW q \in Seq(AirFrame), NEW s \in Endpoint, NEW b \in Nat, Len(s.win) <= MAXWIN,
         NEW r \in Endpoint, NEW g \in Nat, HoldsFrom(r, g),
         \A c \in Buffered(r) \union {g} : c <= b + Len(s.win),
         DataInFlight(q, r, g, b + Len(s.win)),
         NEW f \in AirFrame,
         f.data => \E i \in 1 .. Len(s.win) : f.pay = b + i /\ f.seq = SeqOf(b + i - 1)
  PROVE  DataInFlight(Append(q, f), r, g, b + Len(s.win))
<1> DEFINE n == b + Len(s.win)
           p == Append(q, f)
<1>0. /\ MAXWIN \in Nat \ {0} /\ Len(s.win) \in Nat /\ Len(q) \in Nat
      /\ \A c \in Buffered(r) : c \in Int
  BY Moduli, WinType, BufferedType
<1>1. /\ Len(p) = Len(q) + 1
      /\ \A i \in 1 .. Len(p) : \/ i \in 1 .. Len(q) /\ p[i] = q[i]
                                \/ i = Len(q) + 1 /\ p[i] = f
  BY AppendIs
<1>2. n \in Int /\ n <= b + MAXWIN
  <2>1. b \in Int /\ Len(s.win) \in Int /\ MAXWIN \in Int
    BY <1>0
  <2> QED BY <2>1
<1> HIDE DEF p, n
<1>3. f.data => /\ f.pay \in 1 .. n /\ f.seq = SeqOf(f.pay - 1) /\ n < f.pay + MAXWIN
  <2> SUFFICES ASSUME f.data
               PROVE  f.pay \in 1 .. n /\ f.seq = SeqOf(f.pay - 1) /\ n < f.pay + MAXWIN
    OBVIOUS
  <2>1. PICK i \in 1 .. Len(s.win) : f.pay = b + i /\ f.seq = SeqOf(b + i - 1)
    OBVIOUS
  <2> DEFINE l == Len(s.win)
  <2>2. l \in Nat /\ i \in 1 .. l /\ n = b + l /\ l <= MAXWIN /\ f.pay = b + i
    BY <1>0, <2>1 DEF n
  <2> HIDE DEF l
  <2> QED BY <1>0, <2>1, <2>2
<1>4. \A c \in Buffered(r) \union {g} : c <= n
  BY DEF n
<1> SUFFICES ASSUME NEW i \in 1 .. Len(p), p[i].data
             PROVE  /\ p[i].pay \in 1 .. n /\ p[i].seq = SeqOf(p[i].pay - 1)
                    /\ g < p[i].pay + MAXWIN
                    /\ \A d \in Buffered(r) : d < p[i].pay + MAXWIN
                    /\ \A j \in 1 .. i - 1 : p[j].data => p[j].pay < p[i].pay + MAXWIN
  BY DEF DataInFlight, p, n
<1>5. \A j \in 1 .. i - 1 : j \in 1 .. Len(q) /\ p[j] = q[j]
  <2> SUFFICES ASSUME NEW j \in 1 .. i - 1 PROVE j \in 1 .. Len(q) /\ p[j] = q[j]
    OBVIOUS
  <2>1. j \in 1 .. Len(p) /\ j # Len(q) + 1
    BY <1>0, <1>1
  <2> QED BY <1>1, <2>1
<1>6. DataInFlight(q, r, g, n)
  BY DEF n
<1>7. CASE i \in 1 .. Len(q) /\ p[i] = q[i]
  BY <1>5, <1>6, <1>7 DEF DataInFlight
<1>8. CASE i = Len(q) + 1 /\ p[i] = f
  <2>1. f.data /\ f.pay \in Int
    BY <1>3, <1>8
  <2>2. \A c \in Buffered(r) \union {g} : c < f.pay + MAXWIN
    BY <1>0, <1>2, <1>3, <1>4, <2>1
  <2>3. \A j \in 1 .. i - 1 : p[j].data => p[j].pay \in 1 .. n
    BY <1>5, <1>6 DEF DataInFlight
  <2>4. \A j \in 1 .. i - 1 : p[j].data => p[j].pay < f.pay + MAXWIN
    BY <1>0, <1>2, <1>3, <2>1, <2>3, SMTT(20)
  <2> QED BY <1>3, <1>8, <2>1, <2>2, <2>4
<1> QED BY <1>1, <1>7, <1>8

(* A frame that the receiver sends says what it holds, and joins the acks  *)
(* in agreement.                                                           *)
LEMMA AckAppend ==
  ASSUME NEW q \in Seq(AirFrame), NEW s \in Endpoint, NEW b \in Nat, SendsFrom(s, b),
         NEW r \in Endpoint, NEW g \in Nat, HoldsFrom(r, g),
         AckedHeld(s, b, r, g), AcksInFlight(q, s, b, r, g),
         NEW f \in AirFrame, f.ack = r.rxNext, f.sack = Sack(r)
  PROVE  AcksInFlight(Append(q, f), s, b, r, g)
<1> DEFINE p == Append(q, f)
<1>0. SEQMOD \in Nat \ {0} /\ MAXWIN \in Nat \ {0} /\ Len(q) \in Nat
  BY Moduli
<1>1. /\ Len(p) = Len(q) + 1
      /\ \A i \in 1 .. Len(p) : \/ i \in 1 .. Len(q) /\ p[i] = q[i]
                                \/ i = Len(q) + 1 /\ p[i] = f
  BY AppendIs
<1> HIDE DEF p
<1>2. AckNo(g, f) = g
  <2>1. f.ack = SeqOf(g) /\ g \in Int /\ g <= g /\ g - g < SEQMOD
    BY <1>0 DEF HoldsFrom
  <2> QED BY <2>1, AckNoOf
<1>3. \A c \in Int : Holds(r, g, c) => c <= g + MAXWIN
  <2>1. \A c \in Buffered(r) : c \in g + 1 .. g + MAXWIN
    BY BufferedType
  <2> QED BY <1>0, <2>1 DEF Holds
<1>4. b <= g + MAXWIN
  <2>1. CASE b = 0
    BY <1>0, <2>1
  <2>2. CASE b # 0
    <3>1. b \in 1 .. b /\ b \in Int
      BY <2>2
    <3> QED BY <1>3, <3>1 DEF AckedHeld
  <2> QED BY <2>1, <2>2
<1>5. \A k \in 1 .. Len(s.win) : s.win[k].acked => s.win[k].pay <= g + MAXWIN
  <2>1. \A k \in 1 .. Len(s.win) : s.win[k].pay \in Int
    BY WinType
  <2> QED BY <1>3, <2>1 DEF AckedHeld
<1>6. \A k \in Sack(r) : Holds(r, g, g + 2 + k)
  BY SackIs DEF Holds
<1>7. \A j \in 1 .. Len(q) : AckNo(g, q[j]) <= g
  <2> SUFFICES ASSUME NEW j \in 1 .. Len(q) PROVE AckNo(g, q[j]) <= g
    OBVIOUS
  <2>1. q[j] \in AirFrame /\ g \in Int
    OBVIOUS
  <2>2. q[j].ack \in Seqs
    BY <2>1 DEF AirFrame
  <2> QED BY <2>1, <2>2, AckNoIs
<1> SUFFICES ASSUME NEW i \in 1 .. Len(p)
             PROVE  LET a == AckNo(g, p[i])
                    IN /\ b <= a + MAXWIN
                       /\ \A k \in 1 .. Len(s.win) :
                            s.win[k].acked => s.win[k].pay <= a + MAXWIN
                       /\ \A j \in 1 .. i - 1 : AckNo(g, p[j]) <= a
                       /\ \A k \in p[i].sack : Holds(r, g, a + 2 + k)
  BY DEF AcksInFlight, p
<1>8. \A j \in 1 .. i - 1 : j \in 1 .. Len(q) /\ p[j] = q[j]
  <2> SUFFICES ASSUME NEW j \in 1 .. i - 1 PROVE j \in 1 .. Len(q) /\ p[j] = q[j]
    OBVIOUS
  <2>1. j \in 1 .. Len(p) /\ j # Len(q) + 1
    BY <1>0, <1>1
  <2> QED BY <1>1, <2>1
<1>9. CASE i \in 1 .. Len(q) /\ p[i] = q[i]
  BY <1>8, <1>9 DEF AcksInFlight
<1>10. CASE i = Len(q) + 1 /\ p[i] = f
  BY <1>2, <1>4, <1>5, <1>6, <1>7, <1>8, <1>10
<1> QED BY <1>1, <1>9, <1>10

(* A receiver that takes the chunks new, and passes the next n on, leaves  *)
(* the direction in agreement.                                             *)
LEMMA ReceiverMoves ==
  ASSUME NEW s \in Endpoint, Len(s.win) <= MAXWIN, NEW b \in Nat,
         NEW r \in Endpoint, NEW g \in Nat, NEW u \in Endpoint, NEW n \in Nat,
         NEW data \in Seq(AirFrame), NEW acks \in Seq(AirFrame),
         Agreed(s, b, r, g, data, acks),
         NEW new \in SUBSET Nat,
         \A c \in new : /\ c <= b + Len(s.win)
                        /\ \A i \in 1 .. Len(data) : data[i].data => c < data[i].pay + MAXWIN,
         HoldsFrom(u, g + n),
         Buffered(u) = {c \in Buffered(r) \union new : c > g + n},
         \A k \in 1 .. n : g + k \in Buffered(r) \union new
  PROVE  Agreed(s, b, u, g + n, data, acks)
<1> DEFINE h == g + n
           l == b + Len(s.win)
<1>0. /\ SendsFrom(s, b) /\ HoldsFrom(r, g)
      /\ \A c \in Buffered(r) \union {g} : c <= l
      /\ AckedHeld(s, b, r, g)
      /\ DataInFlight(data, r, g, l)
      /\ AcksInFlight(acks, s, b, r, g)
  BY DEF Agreed
<1>1. /\ SEQMOD \in Nat \ {0} /\ MAXWIN \in Nat \ {0} /\ 2 * MAXWIN < SEQMOD
      /\ Len(s.win) \in Nat /\ \A c \in Buffered(r) : c \in Int
  BY <1>0, Moduli, WinType, BufferedType
<1>2. /\ l \in Nat /\ l <= b + MAXWIN /\ h \in Nat /\ g <= h
  <2>1. Len(s.win) \in Nat /\ MAXWIN \in Nat
    BY <1>1
  <2> QED BY <2>1
<1>3. h \in Buffered(r) \union {g} \union new
  <2>1. CASE n = 0
    BY <2>1
  <2>2. CASE n # 0
    <3>1. n \in 1 .. n
      BY <2>2
    <3> QED BY <3>1
  <2> QED BY <2>1, <2>2
<1>4. /\ \A c \in new : c <= l
      /\ Buffered(u) = {c \in Buffered(r) \union new : c > h} /\ HoldsFrom(u, h)
  OBVIOUS
<1> HIDE DEF h, l
<1>5. \A c \in Buffered(u) \union {h} : c \in Buffered(r) \union {g} \union new
  BY <1>3, <1>4
<1>6. \A c \in Buffered(u) \union {h} : c <= l
  BY <1>0, <1>4, <1>5
<1>7. \A c \in Int : Holds(r, g, c) => Holds(u, h, c)
  <2> SUFFICES ASSUME NEW c \in Int, Holds(r, g, c) PROVE Holds(u, h, c)
    OBVIOUS
  <2>1. c <= g => c <= h
    BY <1>2
  <2>2. c <= h \/ c > h
    BY <1>2
  <2> QED BY <1>4, <2>1, <2>2 DEF Holds
<1>8. AckedHeld(s, b, u, h)
  <2>1. \A c \in 1 .. b : c \in Int
    OBVIOUS
  <2>2. \A i \in 1 .. Len(s.win) : s.win[i].pay \in Int
    BY WinType
  <2> QED BY <1>0, <1>7, <2>1, <2>2 DEF AckedHeld
<1>9. DataInFlight(data, u, h, l)
  <2>1. ASSUME NEW i \in 1 .. Len(data), data[i].data, NEW c \in Buffered(u) \union {h}
        PROVE  c < data[i].pay + MAXWIN
    <3>1. CASE c \in Buffered(r)
      BY <1>0, <2>1, <3>1 DEF DataInFlight
    <3>2. CASE c = g
      BY <1>0, <2>1, <3>2 DEF DataInFlight
    <3>3. CASE c \in new
      BY <2>1, <3>3
    <3> QED BY <1>5, <3>1, <3>2, <3>3
  <2> QED BY <1>0, <2>1 DEF DataInFlight
<1>10. ASSUME NEW i \in 1 .. Len(acks) 
       PROVE  AckNo(h, acks[i]) = AckNo(g, acks[i]) /\ AckNo(g, acks[i]) \in Int
  <2> DEFINE f == acks[i]
             a == AckNo(g, f)
  <2>0. f \in AirFrame /\ g \in Int
    OBVIOUS
  <2>1. f.ack \in Seqs
    <3> HIDE DEF f
    <3> QED BY <2>0 DEF AirFrame
  <2>2. b <= a + MAXWIN
    BY <1>0 DEF AcksInFlight
  <2> HIDE DEF f
  <2>3. a \in Int /\ a <= g /\ SeqOf(a) = f.ack
    BY <2>0, <2>1, AckNoIs
  <2> HIDE DEF a
  <2>4. h \in Int /\ a <= h /\ h - a < SEQMOD
    <3>1. h <= l
      BY <1>6
    <3> QED BY <1>1, <1>2, <2>2, <2>3, <3>1
  <2>5. AckNo(h, f) = a
    BY <2>3, <2>4, AckNoOf
  <2> QED BY <2>3, <2>5 DEF a, f
<1>11. AcksInFlight(acks, s, b, u, h)
  <2> SUFFICES ASSUME NEW i \in 1 .. Len(acks)
               PROVE  LET a == AckNo(h, acks[i])
                      IN /\ b <= a + MAXWIN
                         /\ \A k \in 1 .. Len(s.win) :
                              s.win[k].acked => s.win[k].pay <= a + MAXWIN
                         /\ \A j \in 1 .. i - 1 : AckNo(h, acks[j]) <= a
                         /\ \A k \in acks[i].sack : Holds(u, h, a + 2 + k)
    BY DEF AcksInFlight
  <2> DEFINE a == AckNo(g, acks[i])
  <2>1. /\ b <= a + MAXWIN
        /\ \A k \in 1 .. Len(s.win) : s.win[k].acked => s.win[k].pay <= a + MAXWIN
        /\ \A j \in 1 .. i - 1 : AckNo(g, acks[j]) <= a
        /\ \A k \in acks[i].sack : Holds(r, g, a + 2 + k)
    BY <1>0 DEF AcksInFlight
  <2>2. AckNo(h, acks[i]) = a /\ a \in Int
    BY <1>10
  <2>3. \A j \in 1 .. i - 1 : j \in 1 .. Len(acks)
    OBVIOUS
  <2>4. \A k \in acks[i].sack : k \in Int
    <3>1. acks[i] \in AirFrame
      OBVIOUS
    <3>2. acks[i].sack \in SUBSET (0 .. MAXWIN - 2)
      BY <3>1 DEF AirFrame
    <3> QED BY <1>1, <3>2
  <2> HIDE DEF a
  <2>5. \A k \in acks[i].sack : a + 2 + k \in Int
    BY <2>2, <2>4
  <2>6. \A j \in 1 .. i - 1 : AckNo(h, acks[j]) = AckNo(g, acks[j])
    BY <1>10, <2>3
  <2>7. \A k \in acks[i].sack : Holds(u, h, a + 2 + k)
    BY <1>7, <2>1, <2>5 
  <2> QED BY <2>1, <2>2, <2>6, <2>7
<1> QED BY <1>0, <1>4, <1>6, <1>8, <1>9, <1>11 DEF Agreed, h, l

(* A sender that takes the next ack lets go of the first m chunks of its   *)
(* window, and the direction stays in agreement.                           *)
LEMMA AckTaken ==
  ASSUME NEW s \in Endpoint, Fits(s), NEW b \in Nat,
         NEW r \in Endpoint, NEW g \in Nat,
         NEW data \in Seq(AirFrame), NEW acks \in Seq(AirFrame), acks # <<>>,
         Agreed(s, b, r, g, data, acks)
  PROVE  LET f == Head(acks)
             t == AckProcess(s, f.ack, f.sack)
         IN \E m \in 0 .. Len(s.win) : /\ Len(t.win) = Len(s.win) - m
                                       /\ Agreed(t, b + m, r, g, data, Tail(acks))
<1> DEFINE f == Head(acks)
           q == Tail(acks)
           t == AckProcess(s, f.ack, f.sack)
           a == AckNo(g, f)
           w == Len(s.win)
<1>0. /\ SendsFrom(s, b) /\ HoldsFrom(r, g)
      /\ \A c \in Buffered(r) \union {g} : c <= b + w
      /\ AckedHeld(s, b, r, g)
      /\ DataInFlight(data, r, g, b + w)
      /\ AcksInFlight(acks, s, b, r, g)
  BY DEF Agreed
<1>1. /\ q \in Seq(AirFrame) /\ f \in AirFrame /\ Len(q) \in Nat
      /\ f.ack \in Seqs /\ f.sack \in SUBSET (0 .. MAXWIN - 2) /\ f = acks[1]
      /\ 1 \in 1 .. Len(acks)
  <2>1. q \in Seq(AirFrame) /\ f \in AirFrame /\ Len(q) \in Nat /\ f = acks[1] /\ 1 \in 1 .. Len(acks)
    BY QueueTail
  <2> HIDE DEF f
  <2> QED BY <2>1 DEF AirFrame
<1>2. /\ SEQMOD \in Nat \ {0} /\ MAXWIN \in Nat \ {0}
      /\ w \in Nat /\ \A c \in Buffered(r) : c \in Int
  BY <1>0, Moduli, WinType, BufferedType
<1>3. /\ AcksInFlight(q, s, b, r, g) /\ b <= a + MAXWIN
      /\ \A k \in f.sack : Holds(r, g, a + 2 + k)
      /\ \A i \in 1 .. Len(q) : a <= AckNo(g, q[i])
  BY <1>0, AcksTail
<1> HIDE DEF f, q
<1>4. a \in Int /\ a <= g /\ SeqOf(a) = f.ack
  BY <1>1, AckNoIs
<1>5. a <= b + w
  <2>1. g <= b + w
    BY <1>0
  <2> QED BY <1>2, <1>4, <2>1
<1> HIDE DEF a
<1> DEFINE said(c) == Said(a, f.sack, c)
<1>6. PICK m \in 0 .. w :
        /\ SendsFrom(t, b + m) /\ Len(t.win) = w - m
        /\ \A i \in 1 .. m : s.win[i].acked \/ said(b + i)
        /\ \A i \in 1 .. Len(t.win) : t.win[i].acked => s.win[m + i].acked \/ said(b + m + i)
  <2>1. AckProcess(s, SeqOf(a), f.sack) = t
    BY <1>4
  <2> DEFINE y == AckProcess(s, SeqOf(a), f.sack)
  <2>2. \E m \in 0 .. Len(s.win) :
           /\ SendsFrom(y, b + m) /\ Len(y.win) = Len(s.win) - m
           /\ \A i \in 1 .. m : s.win[i].acked \/ said(b + i)
           /\ \A i \in 1 .. Len(y.win) :
                y.win[i].acked => s.win[m + i].acked \/ said(b + m + i)
    <3>1. /\ s \in Endpoint /\ Fits(s) /\ b \in Nat /\ SendsFrom(s, b) /\ a \in Int
          /\ b <= a + MAXWIN /\ a <= b + Len(s.win) /\ f.sack \in SUBSET (0 .. MAXWIN - 2)
      BY <1>0, <1>1, <1>3, <1>4, <1>5
    <3> QED BY ONLY <3>1, AckProcessIs, ZenonT(30)
  <2> HIDE DEF y, said
  <2>3. y = t
    BY <2>1 DEF y
  <2> HIDE DEF t
  <2> QED BY <2>2, <2>3
<1> HIDE DEF t, w
<1>7. \A c \in Int : said(c) => Holds(r, g, c) /\ c <= a + MAXWIN
  <2> SUFFICES ASSUME NEW c \in Int, said(c) PROVE Holds(r, g, c) /\ c <= a + MAXWIN
    OBVIOUS
  <2>0. c <= a \/ \E k \in f.sack : c = a + 2 + k
    BY DEF Said
  <2>1. CASE c <= a
    BY <1>2, <1>4, <2>1 DEF Holds
  <2>2. CASE \E k \in f.sack : c = a + 2 + k
    <3>1. PICK k \in f.sack : c = a + 2 + k
      BY <2>2
    <3>2. k \in 0 .. MAXWIN - 2
      BY <1>1
    <3>3. c <= a + MAXWIN
      BY <1>2, <1>4, <3>1, <3>2
    <3> QED BY <1>3, <3>1, <3>3
  <2> QED BY <2>0, <2>1, <2>2
<1> HIDE DEF said
<1>8. /\ w = Len(s.win)
      /\ \A i \in 1 .. w : s.win[i].pay = b + i
      /\ \A i \in 1 .. w : s.win[i].acked => Holds(r, g, b + i)
  BY <1>0 DEF SendsFrom, AckedHeld, w
<1>9. \A i \in 1 .. w - m : t.win[i].pay = b + m + i
  BY <1>6 DEF SendsFrom
<1>10. \A i \in 1 .. m : Holds(r, g, b + i)
  <2> SUFFICES ASSUME NEW i \in 1 .. m PROVE Holds(r, g, b + i)
    OBVIOUS
  <2>1. i \in 1 .. w /\ b + i \in Int
    BY <1>2, <1>6
  <2> QED BY <1>6, <1>7, <1>8, <2>1
<1>11. \A i \in 1 .. w - m : t.win[i].acked => s.win[m + i].acked \/ said(b + m + i)
  BY <1>6
<1>12. \A i \in 1 .. w - m : /\ m + i \in 1 .. w /\ b + m + i \in Int
                             /\ b + m + i = b + (m + i)
  BY <1>2, <1>6
<1>13. AckedHeld(t, b + m, r, g)
  <2>1. \A c \in 1 .. b + m : Holds(r, g, c)
    <3> SUFFICES ASSUME NEW c \in 1 .. b + m PROVE Holds(r, g, c)
      OBVIOUS
    <3>1. CASE c <= b
      <4>1. c \in 1 .. b
        BY <3>1
      <4> QED BY <1>0, <4>1 DEF AckedHeld
    <3>2. CASE c > b
      <4> DEFINE i == c - b
      <4>1. i \in 1 .. m /\ c = b + i
        BY <1>2, <3>2
      <4> HIDE DEF i
      <4> QED BY <1>10, <4>1
    <3> QED BY <3>1, <3>2
  <2>2. \A i \in 1 .. w - m : t.win[i].acked => Holds(r, g, t.win[i].pay)
    <3> SUFFICES ASSUME NEW i \in 1 .. w - m, t.win[i].acked
                 PROVE  Holds(r, g, b + m + i)
      BY <1>9
    <3> QED BY <1>7, <1>8, <1>11, <1>12
  <2> QED BY <1>6, <2>1, <2>2 DEF AckedHeld
<1>14. AcksInFlight(q, t, b + m, r, g)
  <2> SUFFICES ASSUME NEW i \in 1 .. Len(q)
               PROVE  LET x == AckNo(g, q[i])
                      IN /\ b + m <= x + MAXWIN
                         /\ \A k \in 1 .. Len(t.win) :
                              t.win[k].acked => t.win[k].pay <= x + MAXWIN
                         /\ \A j \in 1 .. i - 1 : AckNo(g, q[j]) <= x
                         /\ \A k \in q[i].sack : Holds(r, g, x + 2 + k)
    BY DEF AcksInFlight
  <2> DEFINE x == AckNo(g, q[i])
  <2>1. /\ b <= x + MAXWIN
        /\ \A k \in 1 .. Len(s.win) : s.win[k].acked => s.win[k].pay <= x + MAXWIN
        /\ \A j \in 1 .. i - 1 : AckNo(g, q[j]) <= x
        /\ \A k \in q[i].sack : Holds(r, g, x + 2 + k)
    BY <1>3 DEF AcksInFlight
  <2>2. x \in Int /\ a <= x
    <3>1. q[i] \in AirFrame /\ g \in Int
      BY <1>1
    <3>2. q[i].ack \in Seqs
      BY <3>1 DEF AirFrame
    <3> QED BY <1>3, <3>1, <3>2, AckNoIs
  <2> HIDE DEF x
  <2>3. \A c \in Int : said(c) => c <= x + MAXWIN
    BY <1>2, <1>4, <1>7, <2>2
  <2>4. \A k \in 1 .. w : s.win[k].acked => b + k <= x + MAXWIN
    BY <1>8, <2>1
  <2>5. b + m <= x + MAXWIN
    <3>1. CASE m = 0
      BY <2>1, <3>1
    <3>2. CASE m # 0
      <4>1. m \in 1 .. m /\ m \in 1 .. w /\ b + m \in Int
        BY <1>2, <1>6, <3>2
      <4> QED BY <1>6, <2>3, <2>4, <4>1
    <3> QED BY <3>1, <3>2
  <2>6. \A k \in 1 .. w - m : t.win[k].acked => t.win[k].pay <= x + MAXWIN
    <3> SUFFICES ASSUME NEW k \in 1 .. w - m, t.win[k].acked
                 PROVE  b + m + k <= x + MAXWIN
      BY <1>9
    <3> QED BY <1>11, <1>12, <2>3, <2>4
  <2> QED BY <1>6, <2>1, <2>5, <2>6 DEF x
<1>15. (b + m) + Len(t.win) = b + w
  <2>1. b \in Int /\ m \in Int /\ w \in Int /\ Len(t.win) = w - m
    BY <1>2, <1>6
  <2> QED BY ONLY <2>1
<1>16. Agreed(t, b + m, r, g, data, q)
  BY <1>0, <1>6, <1>13, <1>14, <1>15 DEF Agreed
<1> QED BY <1>6, <1>8, <1>16 DEF t, f, q

(* Agreement is about the send half of the one endpoint and the receive    *)
(* half of the other.                                                      *)
LEMMA AgreedHalves ==
  ASSUME NEW s, NEW t, NEW b, NEW r, NEW u, NEW g, NEW data, NEW acks,
         SendHalf(t) = SendHalf(s), RecvHalf(u) = RecvHalf(r),
         Agreed(s, b, r, g, data, acks)
  PROVE  Agreed(t, b, u, g, data, acks)
<1>1. /\ t.sring = s.sring /\ t.win = s.win /\ t.base = s.base /\ t.next = s.next
      /\ u.rring = r.rring /\ u.rx = r.rx /\ u.rxNext = r.rxNext
  BY DEF SendHalf, RecvHalf
<1>2. /\ SendsFrom(t, b) <=> SendsFrom(s, b)
      /\ HoldsFrom(u, g) <=> HoldsFrom(r, g)
      /\ Buffered(u) = Buffered(r)
  BY <1>1 DEF SendsFrom, HoldsFrom, Buffered
<1>3. \A c : Holds(u, g, c) <=> Holds(r, g, c)
  BY <1>2 DEF Holds
<1>4. AckedHeld(s, b, r, g) => AckedHeld(t, b, u, g)
  BY <1>1, <1>3 DEF AckedHeld
<1>5. \A n : DataInFlight(data, r, g, n) => DataInFlight(data, u, g, n)
  BY <1>2 DEF DataInFlight
<1>6. AcksInFlight(acks, s, b, r, g) => AcksInFlight(acks, t, b, u, g)
  BY <1>1, <1>3 DEF AcksInFlight
<1> QED BY <1>1, <1>2, <1>4, <1>5, <1>6 DEF Agreed

(* The SACK an endpoint sends is its receive half's. *)
LEMMA SackHalf ==
  ASSUME NEW r, NEW u, RecvHalf(u) = RecvHalf(r)
  PROVE  Sack(u) = Sack(r) /\ u.rxNext = r.rxNext
<1>1. u.rx = r.rx /\ u.rxNext = r.rxNext
  BY DEF RecvHalf
<1> QED BY <1>1 DEF Sack, Held

(* t is s with no chunk let go of and none marked acked. *)
Continues(t, s) ==
  /\ Len(t.win) >= Len(s.win)
  /\ \A i \in 1 .. Len(t.win) : t.win[i].acked => i <= Len(s.win) /\ s.win[i].acked

(* SetTiming changes the window size, no half and no epoch.                *)
LEMMA SetTimingIs ==
  ASSUME NEW e \in Endpoint, NEW w
  PROVE  LET t == SetTiming(e, w)
         IN SendHalf(t) = SendHalf(e) /\ RecvHalf(t) = RecvHalf(e) /\ Epochs(t) = Epochs(e)
BY DEF SetTiming, SendHalf, RecvHalf, Epochs, Endpoint

(* AckSent only notes that the ack went out.                               *)
LEMMA AckSentIs ==
  ASSUME NEW e \in Endpoint
  PROVE  LET t == AckSent(e)
         IN SendHalf(t) = SendHalf(e) /\ RecvHalf(t) = RecvHalf(e) /\ Epochs(t) = Epochs(e)
BY DEF AckSent, SendHalf, RecvHalf, Epochs, Endpoint

(* BeginTurn clears the turn marks of the window and nothing else.         *)
LEMMA BeginTurnIs ==
  ASSUME NEW e \in Endpoint, NEW b, SendsFrom(e, b)
  PROVE  LET t == BeginTurn(e)
         IN /\ SendsFrom(t, b) /\ Continues(t, e) /\ Len(t.win) = Len(e.win)
            /\ t.sring = e.sring /\ RecvHalf(t) = RecvHalf(e) /\ Epochs(t) = Epochs(e)
<1> DEFINE t == BeginTurn(e)
           w == [i \in 1 .. Len(e.win) |-> [e.win[i] EXCEPT !.turn = FALSE]]
<1>1. t = [e EXCEPT !.win = w, !.ackSentTurn = FALSE]
  BY DEF BeginTurn
<1>2. Len(e.win) \in Nat /\ \A i \in 1 .. Len(e.win) : e.win[i] \in TxFrame
  BY WinType
<1>3. Len(w) = Len(e.win)
  BY <1>2
<1>4. \A i \in 1 .. Len(e.win) : /\ w[i].pay = e.win[i].pay /\ w[i].seq = e.win[i].seq
                                 /\ w[i].acked = e.win[i].acked
  BY <1>2 DEF TxFrame
<1> HIDE DEF w
<1>5. /\ t.win = w /\ t.base = e.base /\ t.next = e.next /\ t.sring = e.sring
      /\ RecvHalf(t) = RecvHalf(e) /\ Epochs(t) = Epochs(e)
  BY <1>1 DEF Endpoint, RecvHalf, Epochs
<1> HIDE DEF t
<1>6. SendsFrom(t, b)
  BY <1>3, <1>4, <1>5, SendsSame
<1>7. Continues(t, e)
  BY <1>2, <1>3, <1>4, <1>5 DEF Continues
<1> QED BY <1>3, <1>5, <1>6, <1>7 DEF t

(* Picking a frame marks it sent; its chunk, number and ack stay.          *)
LEMMA PickedIs ==
  ASSUME NEW e \in Endpoint, NEW b, SendsFrom(e, b), NEW i \in 1 .. Len(e.win)
  PROVE  LET t == Picked(e, i)
         IN /\ SendsFrom(t, b) /\ Continues(t, e) /\ Len(t.win) = Len(e.win)
            /\ t.sring = e.sring /\ RecvHalf(t) = RecvHalf(e) /\ Epochs(t) = Epochs(e)
<1> DEFINE t == Picked(e, i)
           x == [e.win[i] EXCEPT !.turn = TRUE, !.sent = TRUE, !.fast = FALSE]
           w == [e.win EXCEPT ![i] = x]
<1>1. t = [e EXCEPT !.win = w, !.ackPending = FALSE]
  BY WinType, ZenonT(30) DEF Picked, Endpoint
<1>2. /\ e.win \in Seq(TxFrame) /\ Len(e.win) \in Nat
      /\ \A j \in 1 .. Len(e.win) : e.win[j] \in TxFrame
  BY WinType
<1>3. /\ x \in TxFrame /\ x.pay = e.win[i].pay /\ x.seq = e.win[i].seq
      /\ x.acked = e.win[i].acked
  BY <1>2 DEF TxFrame
<1> HIDE DEF x
<1>4. Len(w) = Len(e.win) /\ \A j \in 1 .. Len(e.win) : w[j] = IF j = i THEN x ELSE e.win[j]
  BY <1>2, <1>3
<1>5. \A j \in 1 .. Len(e.win) : /\ w[j].pay = e.win[j].pay /\ w[j].seq = e.win[j].seq
                                 /\ w[j].acked = e.win[j].acked
  BY <1>3, <1>4
<1> HIDE DEF w
<1>6. /\ t.win = w /\ t.base = e.base /\ t.next = e.next /\ t.sring = e.sring
      /\ RecvHalf(t) = RecvHalf(e) /\ Epochs(t) = Epochs(e)
  BY <1>1 DEF Endpoint, RecvHalf, Epochs
<1> HIDE DEF t
<1>7. SendsFrom(t, b)
  BY <1>4, <1>5, <1>6, SendsSame
<1>8. Continues(t, e)
  BY <1>2, <1>4, <1>5, <1>6 DEF Continues
<1> QED BY <1>4, <1>6, <1>7, <1>8 DEF t

(* Write adds the chunk after the last to the ring.                        *)
LEMMA WriteIs ==
  ASSUME NEW e \in Endpoint, NEW b \in Nat, SendsFrom(e, b),
         NEW c \in Nat, c = b + Len(e.win) + Len(e.sring) + 1
  PROVE  LET t == Write(e, c)
         IN /\ SendsFrom(t, b) /\ t.win = e.win /\ Len(t.sring) = Len(e.sring) + 1
            /\ RecvHalf(t) = RecvHalf(e) /\ Epochs(t) = Epochs(e)
<1> DEFINE t == Write(e, c)
           q == Append(e.sring, c)
<1>1. e.sring \in Seq(Nat) /\ Len(e.sring) \in Nat
  BY DEF Endpoint, Chunks
<1>2. /\ Len(q) = Len(e.sring) + 1
      /\ \A i \in 1 .. Len(q) : \/ i \in 1 .. Len(e.sring) /\ q[i] = e.sring[i]
                                \/ i = Len(e.sring) + 1 /\ q[i] = c
  BY <1>1, AppendIs
<1> HIDE DEF q
<1>3. \A k \in 1 .. Len(q) : q[k] = b + Len(e.win) + k
  <2> SUFFICES ASSUME NEW k \in 1 .. Len(q) PROVE q[k] = b + Len(e.win) + k
    OBVIOUS
  <2>1. CASE k \in 1 .. Len(e.sring) /\ q[k] = e.sring[k]
    BY <2>1 DEF SendsFrom
  <2>2. CASE k = Len(e.sring) + 1 /\ q[k] = c
    <3> DEFINE l == Len(e.win)
               z == Len(e.sring)
    <3>1. l \in Int /\ z \in Int /\ b \in Int /\ k = z + 1 /\ c = b + l + z + 1
      BY <1>1, <2>2, WinType
    <3> HIDE DEF l, z
    <3>2. c = b + l + k
      BY ONLY <3>1
    <3> QED BY <2>2, <3>2 DEF l
  <2> QED BY <1>2, <2>1, <2>2
<1>4. t = [e EXCEPT !.sring = q]
  BY DEF Write, q
<1>5. /\ t.win = e.win /\ t.base = e.base /\ t.next = e.next /\ t.sring = q
      /\ RecvHalf(t) = RecvHalf(e) /\ Epochs(t) = Epochs(e)
  BY <1>4 DEF Endpoint, RecvHalf, Epochs
<1> HIDE DEF t
<1>6. SendsFrom(t, b)
  BY <1>3, <1>5 DEF SendsFrom
<1> QED BY <1>2, <1>5, <1>6 DEF t

(* A frame of the one epoch there is never resets the receive half.        *)
LEMMA TrackEpochIs ==
  ASSUME NEW e \in Endpoint, e.peerEpoch \in {0, 1}, e.myEpoch = 1
  PROVE  LET t == TrackEpoch(e, 1)
         IN /\ SendHalf(t) = SendHalf(e) /\ RecvHalf(t) = RecvHalf(e)
            /\ t.myEpoch = 1 /\ t.peerEpoch = 1
<1>1. CASE e.peerEpoch = 0
  <2>1. TrackEpoch(e, 1) = [e EXCEPT !.peerEpoch = 1]
    BY <1>1 DEF TrackEpoch
  <2> QED BY <2>1 DEF SendHalf, RecvHalf, Endpoint
<1>2. CASE e.peerEpoch = 1
  <2>1. TrackEpoch(e, 1) = e
    BY <1>2 DEF TrackEpoch
  <2> QED BY <1>2, <2>1
<1> QED BY <1>1, <1>2

(* What a data frame carries: the chunk, its number, and the ack.          *)
LEMMA DataFrameIs ==
  ASSUME NEW e, NEW i
  PROVE  LET f == DataFrame(e, i)
         IN /\ f.epoch = e.myEpoch /\ f.data /\ f.seq = e.win[i].seq /\ f.pay = e.win[i].pay
            /\ f.ack = e.rxNext /\ f.sack = Sack(e)
BY DEF DataFrame, Header

(* What a lone ack or a poll carries.                                      *)
LEMMA BareFrameIs ==
  ASSUME NEW e
  PROVE  LET f == BareFrame(e)
         IN /\ f.epoch = e.myEpoch /\ ~f.data /\ f.ack = e.rxNext /\ f.sack = Sack(e)
BY DEF BareFrame, Header
=============================================================================
