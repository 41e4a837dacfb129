--------------------------- MODULE HostPipeProofs ---------------------------
(***************************************************************************)
(* The host pipe, for every size of its rings and reads: what a terminal   *)
(* types reaches the link in order, each byte once, or is a command, or is *)
(* counted as dropped; and a full ring loses what its policy gives up.     *)
(*                                                                         *)
(* AtFilter takes a read byte by byte.  That something holds after each    *)
(* byte is shown by the least byte after which it would not.               *)
(***************************************************************************)
EXTENDS HostPipe, WellFoundedInduction, NaturalsInduction, SequenceTheorems, TLAPS

-----------------------------------------------------------------------------
(* Numbers.                                                                *)

(* The smaller and the larger of two.                                      *)
LEMMA OfTwo ==
  ASSUME NEW a \in Int, NEW b \in Int
  PROVE  /\ Min({a, b}) = IF a <= b THEN a ELSE b
         /\ Max({a, b}) = IF a >= b THEN a ELSE b
  <1>1. CASE a <= b
    <2>1. \A x \in {a, b} : (\A y \in {a, b} : x <= y) <=> x = a
      BY <1>1
    <2>2. \A x \in {a, b} : (\A y \in {a, b} : x >= y) <=> x = b
      BY <1>1
    <2> QED
      BY <1>1, <2>1, <2>2 DEF Min, Max
  <1>2. CASE ~(a <= b)
    <2>1. \A x \in {a, b} : (\A y \in {a, b} : x <= y) <=> x = b
      BY <1>2
    <2>2. \A x \in {a, b} : (\A y \in {a, b} : x >= y) <=> x = a
      BY <1>2
    <2> QED
      BY <1>2, <2>1, <2>2 DEF Min, Max
  <1> QED
    BY <1>1, <1>2

(* A place that is past the end of the storage goes on at its start.       *)
LEMMA Around ==
  ASSUME NEW a \in 0 .. 2 * CAP - 1
  PROVE  a % CAP = IF a < CAP THEN a ELSE a - CAP
  <1>1. CAP \in Nat \ {0}
    BY CapAssumption
  <1>2. \A q \in Int, r \in 0 .. CAP - 1 : (CAP * q + r) % CAP = r
    BY <1>1
  <1>3. CASE a < CAP
    <2>1. a \in 0 .. CAP - 1 /\ a = CAP * 0 + a
      BY <1>1, <1>3
    <2> QED
      BY <1>2, <1>3, <2>1
  <1>4. CASE a >= CAP
    <2>1. a - CAP \in 0 .. CAP - 1 /\ a = CAP * 1 + (a - CAP)
      BY <1>1, <1>4
    <2>2. (CAP * 1 + (a - CAP)) % CAP = a - CAP
      BY ONLY <1>2, <2>1, 1 \in Int
    <2>3. a % CAP = a - CAP
      BY ONLY <2>1, <2>2
    <2>4. ~(a < CAP)
      BY <1>1, <1>4
    <2> QED
      BY ONLY <2>3, <2>4
  <1> QED
    BY <1>1, <1>3, <1>4

(* How far a place is from where the next byte goes.                       *)
LEMMA Away ==
  ASSUME NEW h \in 0 .. CAP - 1, NEW i \in 0 .. CAP - 1
  PROVE  (i + CAP - h) % CAP = IF i >= h THEN i - h ELSE i + CAP - h
  <1>1. CAP \in Nat
    BY CapAssumption
  <1>2. i + CAP - h \in 0 .. 2 * CAP - 1
    BY <1>1
  <1>3. (i + CAP - h) % CAP = IF i + CAP - h < CAP THEN i + CAP - h ELSE i + CAP - h - CAP
    BY ONLY <1>1, <1>2, h \in 0 .. CAP - 1, i \in 0 .. CAP - 1, Around
  <1> QED
    BY ONLY <1>1, <1>3, h \in 0 .. CAP - 1, i \in 0 .. CAP - 1

(* What is between the two indices after n more bytes, and whether the     *)
(* place of the k-th byte is one of theirs.                                *)
LEMMA AddedAt ==
  ASSUME NEW h \in 0 .. CAP - 1, NEW t \in 0 .. CAP - 1, NEW n \in Nat,
         NEW c \in Nat, c = IF h >= t THEN h - t ELSE h + CAP - t, n + c < CAP
  PROVE  LET e == IF h + n < CAP THEN h + n ELSE h + n - CAP
         IN  /\ c + n = IF e >= t THEN e - t ELSE e + CAP - t
             /\ \A k \in 1 .. c + n :
                  LET p == IF t + k - 1 < CAP THEN t + k - 1 ELSE t + k - 1 - CAP
                      f == IF p >= h THEN p - h ELSE p + CAP - h
                  IN  IF k <= c THEN f >= n ELSE f + 1 = k - c
  <1>1. CAP \in Nat
    BY CapAssumption
  <1> QED
    BY ONLY <1>1, h \in 0 .. CAP - 1, t \in 0 .. CAP - 1, n \in Nat, c \in Nat,
            c = IF h >= t THEN h - t ELSE h + CAP - t, n + c < CAP

(* Some numbers have a least.                                              *)
LEMMA Least ==
  ASSUME NEW T \in SUBSET Nat, T # {}
  PROVE  \E m \in T : \A k \in T : m <= k
  <1> DEFINE R == OpToRel(<, Nat)
  <1>1. IsWellFoundedOn(R, Nat)
    BY NatLessThanWellFounded
  <1>2. \A x, y \in Nat : <<y, x>> \in R <=> y < x
    BY DEF OpToRel
  <1> HIDE DEF R
  <1>3. PICK x \in T : \A y \in T : ~(<<y, x>> \in R)
    BY <1>1, WFMin
  <1>4. \A y \in T : ~(y < x)
    BY ONLY <1>2, <1>3, T \in SUBSET Nat
  <1>5. \A y \in T : x <= y
    BY ONLY <1>4, T \in SUBSET Nat, x \in T
  <1> QED
    BY <1>5
-----------------------------------------------------------------------------
(* The ring of bytes.                                                      *)

(* The place of the k-th byte in the storage.                              *)
At(r, k) == IF r.tail + k - 1 < CAP THEN r.tail + k - 1 ELSE r.tail + k - 1 - CAP

(* What is in the ring, byte by byte.                                      *)
LEMMA RingIs ==
  ASSUME NEW Byte, NEW r \in Rings(Byte)
  PROVE  /\ Count(r) = IF r.head >= r.tail THEN r.head - r.tail ELSE r.head + CAP - r.tail
         /\ Count(r) \in 0 .. CAP - 1 /\ Free(r) = CAP - 1 - Count(r)
         /\ Contents(r) \in Seq(Byte) /\ Len(Contents(r)) = Count(r)
         /\ \A k \in 1 .. Count(r) : At(r, k) \in Slots /\ Contents(r)[k] = r.buf[At(r, k)]
  <1>1. CAP \in Nat /\ CAP >= 2 /\ r.head \in 0 .. CAP - 1 /\ r.tail \in 0 .. CAP - 1
        /\ r.buf \in [Slots -> Byte]
    BY CapAssumption DEF Rings, Slots
  <1>2. /\ Count(r) = IF r.head >= r.tail THEN r.head - r.tail ELSE r.head + CAP - r.tail
        /\ Count(r) \in 0 .. CAP - 1
    <2>1. r.head + CAP - r.tail \in 0 .. 2 * CAP - 1
      BY <1>1
    <2>2. (r.head + CAP - r.tail) % CAP = IF r.head + CAP - r.tail < CAP
            THEN r.head + CAP - r.tail ELSE r.head + CAP - r.tail - CAP
      BY <1>1, <2>1, Around
    <2> QED
      BY <1>1, <2>2 DEF Count
  <1> DEFINE n == Count(r)
  <1>3. \A k \in 1 .. n : /\ At(r, k) \in Slots
                          /\ (r.tail + k - 1) % CAP = At(r, k)
    <2> SUFFICES ASSUME NEW k \in 1 .. n
                 PROVE  At(r, k) \in Slots /\ (r.tail + k - 1) % CAP = At(r, k)
      OBVIOUS
    <2>1. r.tail + k - 1 \in 0 .. 2 * CAP - 1
      BY <1>1, <1>2
    <2>2. (r.tail + k - 1) % CAP = IF r.tail + k - 1 < CAP THEN r.tail + k - 1
                                   ELSE r.tail + k - 1 - CAP
      BY <1>1, <1>2, <2>1, Around
    <2>3. IF r.tail + k - 1 < CAP THEN r.tail + k - 1 \in 0 .. CAP - 1
          ELSE r.tail + k - 1 - CAP \in 0 .. CAP - 1
      BY ONLY <1>1, <2>1
    <2> QED
      BY ONLY <2>2, <2>3 DEF At, Slots
  <1>4. Contents(r) = [k \in 1 .. n |-> r.buf[At(r, k)]]
    BY <1>3 DEF Contents
  <1>5. \A k \in 1 .. n : r.buf[At(r, k)] \in Byte
    BY <1>1, <1>3
  <1> HIDE DEF n
  <1>6. n \in Nat
    BY <1>1, <1>2 DEF n
  <1>7. /\ [k \in 1 .. n |-> r.buf[At(r, k)]] \in Seq(Byte)
        /\ Len([k \in 1 .. n |-> r.buf[At(r, k)]]) = n
    BY <1>5, <1>6, LenProperties, SeqDef
  <1> QED
    BY <1>2, <1>3, <1>4, <1>7 DEF Free, n

(* Drop takes from the front.                                              *)
LEMMA DropIs ==
  ASSUME NEW Byte, NEW r \in Rings(Byte), NEW n \in 0 .. Count(r)
  PROVE  /\ Drop(r, n) \in Rings(Byte)
         /\ Count(Drop(r, n)) = Count(r) - n
         /\ \A k \in 1 .. Count(r) - n : Contents(Drop(r, n))[k] = Contents(r)[k + n]
  <1> DEFINE d == Drop(r, n)
  <1>1. CAP \in Nat /\ CAP >= 2 /\ r.head \in 0 .. CAP - 1 /\ r.tail \in 0 .. CAP - 1
        /\ r.buf \in [Slots -> Byte]
    BY CapAssumption DEF Rings, Slots
  <1>2. /\ Count(r) = IF r.head >= r.tail THEN r.head - r.tail ELSE r.head + CAP - r.tail
        /\ Count(r) \in 0 .. CAP - 1
    BY RingIs
  <1>3. r.tail + n \in 0 .. 2 * CAP - 1
    BY <1>1, <1>2
  <1>4. (r.tail + n) % CAP = IF r.tail + n < CAP THEN r.tail + n ELSE r.tail + n - CAP
    BY <1>1, <1>2, <1>3, Around
  <1>5. r = [buf |-> r.buf, head |-> r.head, tail |-> r.tail]
    BY DEF Rings
  <1>6. d = [buf |-> r.buf, head |-> r.head, tail |-> (r.tail + n) % CAP]
    BY <1>5 DEF Drop
  <1>7. d \in Rings(Byte)
    <2>1. (r.tail + n) % CAP \in 0 .. CAP - 1
      BY ONLY <1>1, <1>3, <1>4
    <2> HIDE DEF d
    <2> QED
      BY ONLY <1>1, <1>6, <2>1 DEF Rings, Slots
  <1>8. d.buf = r.buf /\ d.head = r.head
        /\ d.tail = IF r.tail + n < CAP THEN r.tail + n ELSE r.tail + n - CAP
    BY <1>4, <1>6
  <1> HIDE DEF d
  <1>9. Count(d) = IF d.head >= d.tail THEN d.head - d.tail ELSE d.head + CAP - d.tail
    BY <1>7, RingIs
  <1>10. Count(d) = Count(r) - n
    BY <1>1, <1>2, <1>8, <1>9
  <1>11. ASSUME NEW k \in 1 .. Count(r) - n
         PROVE  Contents(d)[k] = Contents(r)[k + n]
    <2>1. k + n \in 1 .. Count(r) /\ k \in 1 .. Count(d)
      BY <1>2, <1>10
    <2>2. At(d, k) = At(r, k + n)
      BY <1>1, <1>2, <1>8, <2>1 DEF At
    <2>3. Contents(d)[k] = d.buf[At(d, k)]
      BY <1>7, <2>1, RingIs
    <2>4. Contents(r)[k + n] = r.buf[At(r, k + n)]
      BY <2>1, RingIs
    <2> QED
      BY <1>8, <2>2, <2>3, <2>4
  <1> QED
    BY <1>7, <1>10, <1>11 DEF d

(* Store adds at the end, around the end of the storage.                   *)
LEMMA StoreIs ==
  ASSUME NEW Byte, NEW r \in Rings(Byte), NEW s \in Seq(Byte), Len(s) <= Free(r)
  PROVE  /\ Store(r, s) \in Rings(Byte)
         /\ Count(Store(r, s)) = Count(r) + Len(s)
         /\ \A k \in 1 .. Count(r) + Len(s) :
              Contents(Store(r, s))[k] = IF k <= Count(r) THEN Contents(r)[k] ELSE s[k - Count(r)]
  <1> DEFINE place(i) == ((i + CAP - r.head) % CAP) + 1
             buf == [i \in Slots |-> IF place(i) <= Len(s) THEN s[place(i)] ELSE r.buf[i]]
             d == Store(r, s)
  <1>1. CAP \in Nat /\ CAP >= 2 /\ r.head \in 0 .. CAP - 1 /\ r.tail \in 0 .. CAP - 1
        /\ r.buf \in [Slots -> Byte]
    BY CapAssumption DEF Rings, Slots
  <1>2. /\ Count(r) = IF r.head >= r.tail THEN r.head - r.tail ELSE r.head + CAP - r.tail
        /\ Count(r) \in 0 .. CAP - 1 /\ Free(r) = CAP - 1 - Count(r)
    BY RingIs
  <1>3. Len(s) \in Nat /\ \A k \in 1 .. Len(s) : s[k] \in Byte
    BY LenProperties, ElementOfSeq
  <1>4. \A i \in Slots : place(i) = IF i >= r.head THEN i - r.head + 1 ELSE i + CAP - r.head + 1
    <2> SUFFICES ASSUME NEW i \in Slots
                 PROVE  place(i) = IF i >= r.head THEN i - r.head + 1 ELSE i + CAP - r.head + 1
      OBVIOUS
    <2>1. i \in 0 .. CAP - 1
      BY DEF Slots
    <2>2. (i + CAP - r.head) % CAP = IF i >= r.head THEN i - r.head ELSE i + CAP - r.head
      BY ONLY <1>1, <2>1, Away
    <2> QED
      BY ONLY <2>2, place(i) = ((i + CAP - r.head) % CAP) + 1
  <1> HIDE DEF place
  <1> DEFINE e == r.head + Len(s)
  <1>5. e \in 0 .. 2 * CAP - 1
    BY <1>1, <1>2, <1>3
  <1> HIDE DEF e
  <1>6. e % CAP = IF e < CAP THEN e ELSE e - CAP
    BY ONLY <1>5, Around
  <1>7. r = [buf |-> r.buf, head |-> r.head, tail |-> r.tail]
    BY DEF Rings
  <1>8. d = [buf |-> buf, head |-> e % CAP, tail |-> r.tail]
    <2>1. d = [r EXCEPT !.buf = buf, !.head = e % CAP]
      BY DEF Store, place, e
    <2> HIDE DEF d, buf
    <2> QED
      BY <1>7, <2>1
  <1>9. buf \in [Slots -> Byte]
    <2> SUFFICES ASSUME NEW i \in Slots
                 PROVE  (IF place(i) <= Len(s) THEN s[place(i)] ELSE r.buf[i]) \in Byte
      OBVIOUS
    <2>1. i \in 0 .. CAP - 1
      BY DEF Slots
    <2>2. place(i) >= 1 /\ place(i) \in Int
      <3>1. place(i) = IF i >= r.head THEN i - r.head + 1 ELSE i + CAP - r.head + 1
        BY <1>4
      <3> QED
        BY <1>1, <2>1, <3>1
    <2> QED
      BY <1>1, <1>3, <2>2
  <1>10. e % CAP = IF r.head + Len(s) < CAP THEN r.head + Len(s) ELSE r.head + Len(s) - CAP
    BY ONLY <1>1, <1>3, <1>6 DEF e
  <1>11. d.tail = r.tail /\ d.buf = buf
         /\ d.head = IF r.head + Len(s) < CAP THEN r.head + Len(s) ELSE r.head + Len(s) - CAP
    BY <1>8, <1>10
  <1>12. d \in Rings(Byte)
    <2>1. e % CAP \in Slots
      BY ONLY <1>1, <1>5, <1>6 DEF Slots
    <2> QED
      BY <1>1, <1>8, <1>9, <2>1 DEF Rings, Slots
  <1>13. \A i \in Slots : d.buf[i] = IF place(i) <= Len(s) THEN s[place(i)] ELSE r.buf[i]
    BY <1>11
  <1> HIDE DEF d, buf
  <1>14. Count(d) = IF d.head >= d.tail THEN d.head - d.tail ELSE d.head + CAP - d.tail
    BY <1>12, RingIs
  <1>15. /\ Count(d) = Count(r) + Len(s)
         /\ \A k \in 1 .. Count(r) + Len(s) :
               LET p == IF r.tail + k - 1 < CAP THEN r.tail + k - 1 ELSE r.tail + k - 1 - CAP
                   f == IF p >= r.head THEN p - r.head ELSE p + CAP - r.head
               IN  IF k <= Count(r) THEN f >= Len(s) ELSE f + 1 = k - Count(r)
    <2>1. Count(r) \in Nat /\ Len(s) + Count(r) < CAP
      BY <1>1, <1>2, <1>3
    <2>2. ASSUME NEW h, h = r.head, NEW t, t = r.tail, NEW n, n = Len(s), NEW c, c = Count(r)
          PROVE  LET g == IF h + n < CAP THEN h + n ELSE h + n - CAP
                 IN  /\ c + n = IF g >= t THEN g - t ELSE g + CAP - t
                     /\ \A k \in 1 .. c + n :
                          LET p == IF t + k - 1 < CAP THEN t + k - 1 ELSE t + k - 1 - CAP
                              f == IF p >= h THEN p - h ELSE p + CAP - h
                          IN  IF k <= c THEN f >= n ELSE f + 1 = k - c
      <3>1. /\ h \in 0 .. CAP - 1 /\ t \in 0 .. CAP - 1 /\ n \in Nat /\ c \in Nat
            /\ c = (IF h >= t THEN h - t ELSE h + CAP - t) /\ n + c < CAP
        BY ONLY <1>1, <1>2, <1>3, <2>1, <2>2
      <3> QED
        BY ONLY <3>1, CapAssumption, AddedAt
    <2> QED
      BY ONLY <1>11, <1>14, <2>2
  <1>16. ASSUME NEW k \in 1 .. Count(r) + Len(s)
         PROVE  Contents(d)[k] = IF k <= Count(r) THEN Contents(r)[k] ELSE s[k - Count(r)]
    <2>1. k \in 1 .. Count(d)
      BY <1>15
    <2>2. At(d, k) \in Slots /\ Contents(d)[k] = d.buf[At(d, k)]
      BY <1>12, <2>1, RingIs
    <2>3. At(d, k) = At(r, k)
      BY <1>11 DEF At
    <2>4. At(r, k) \in Slots
      BY <2>2, <2>3
    <2>5. place(At(r, k)) = IF At(r, k) >= r.head THEN At(r, k) - r.head + 1
                            ELSE At(r, k) + CAP - r.head + 1
      BY <1>4, <2>4
    <2>6. /\ At(r, k) \in 0 .. CAP - 1 /\ k \in Int /\ k >= 1 /\ k <= Count(r) + Len(s)
          /\ At(r, k) = IF r.tail + k - 1 < CAP THEN r.tail + k - 1 ELSE r.tail + k - 1 - CAP
      BY <1>2, <1>3, <2>4 DEF At, Slots
    <2>7. LET f == IF At(r, k) >= r.head THEN At(r, k) - r.head ELSE At(r, k) + CAP - r.head
         IN  IF k <= Count(r) THEN f >= Len(s) ELSE f + 1 = k - Count(r)
      BY ONLY <1>15, k \in 1 .. Count(r) + Len(s) DEF At
    <2>8. CASE k <= Count(r)
      <3>1. place(At(r, k)) > Len(s)
        BY ONLY <1>1, <1>3, <2>5, <2>6, <2>7, <2>8
      <3>2. d.buf[At(r, k)] = r.buf[At(r, k)]
        <4>1. ~(place(At(r, k)) <= Len(s))
          BY <1>1, <1>3, <2>4, <2>5, <3>1 DEF Slots
        <4> QED
          BY <1>13, <2>4, <4>1
      <3>3. Contents(r)[k] = r.buf[At(r, k)]
        BY <1>2, <2>8, RingIs
      <3> QED
        BY <2>2, <2>3, <2>8, <3>2, <3>3
    <2>9. CASE k > Count(r)
      <3>1. place(At(r, k)) = k - Count(r)
        BY ONLY <1>1, <1>2, <2>5, <2>6, <2>7, <2>9
      <3>2. k - Count(r) <= Len(s)
        BY <1>2, <1>3
      <3>3. d.buf[At(r, k)] = s[k - Count(r)]
        BY <1>13, <2>4, <3>1, <3>2
      <3>4. ~(k <= Count(r))
        BY <1>2, <2>9
      <3> QED
        BY <2>2, <2>3, <3>3, <3>4
    <2> QED
      BY <1>2, <2>8, <2>9
  <1> QED
    BY <1>12, <1>15, <1>16 DEF d

(* The bytes of a ring with s behind them, and that d has all of them from *)
(* the one after lo to the end or less.                                    *)
Joined(r, s, k) == IF k <= Count(r) THEN Contents(r)[k] ELSE s[k - Count(r)]

Holds(d, r, s, lo) == \A k \in 1 .. Count(d) : Contents(d)[k] = Joined(r, s, k + lo)

(* PushLatest drops the oldest of both and keeps its limit.                *)
LEMMA PushLatestIs ==
  ASSUME NEW Byte, NEW r \in Rings(Byte), NEW s \in Seq(Byte), NEW keep \in Nat
  PROVE  LET q == PushLatest(r, keep, s)
         IN  /\ q.ring \in Rings(Byte) /\ q.dropped \in Nat
             /\ Count(q.ring) + q.dropped = Count(r) + Len(s)
             /\ Count(q.ring) <= keep
             /\ Holds(q.ring, r, s, q.dropped)
  <1> DEFINE limit == Min({keep, CAP - 1})
             n == Len(s)
             over == IF Count(r) + n > limit THEN Count(r) + n - limit ELSE 0
             q == PushLatest(r, keep, s)
  <1>1. CAP \in Nat /\ CAP >= 2 /\ n \in Nat /\ Count(r) \in 0 .. CAP - 1
    BY CapAssumption, LenProperties, RingIs
  <1>2. limit \in Nat /\ limit <= keep /\ limit <= CAP - 1
    <2>1. CAP - 1 \in Int /\ keep \in Int
      BY <1>1
    <2>2. limit = IF keep <= CAP - 1 THEN keep ELSE CAP - 1
      BY <2>1, OfTwo
    <2> QED
      BY <1>1, <2>2
  <1>3. q = IF n >= limit
            THEN [ring |-> Store([r EXCEPT !.tail = r.head], SubSeq(s, n - limit + 1, n)),
                  dropped |-> Count(r) + (n - limit)]
            ELSE [ring |-> Store(Drop(r, over), s), dropped |-> over]
    BY DEF PushLatest
  <1> HIDE DEF limit, n, q
  <1>4. CASE n >= limit
    <2> DEFINE e == [r EXCEPT !.tail = r.head]
               t == SubSeq(s, n - limit + 1, n)
    <2>1. e \in Rings(Byte) /\ Count(e) = 0 /\ Free(e) = CAP - 1
      <3>1. e \in Rings(Byte) /\ e.head = e.tail /\ e.head \in Int
        BY <1>1 DEF Rings, Slots
      <3>2. /\ Count(e) = IF e.head >= e.tail THEN e.head - e.tail ELSE e.head + CAP - e.tail
            /\ Free(e) = CAP - 1 - Count(e)
        BY <3>1, RingIs
      <3> HIDE DEF e
      <3> QED
        BY <1>1, <3>1, <3>2
    <2>2. t \in Seq(Byte) /\ Len(t) = limit
          /\ \A k \in 1 .. limit : t[k] = s[(n - limit) + k]
      <3>1. n - limit + 1 \in 1 .. n + 1 /\ n \in (n - limit + 1) - 1 .. n
        BY <1>1, <1>2, <1>4
      <3>2. /\ t \in Seq(Byte) /\ Len(t) = n - (n - limit + 1) + 1
            /\ \A k \in 1 .. n - (n - limit + 1) + 1 : t[k] = s[(n - limit + 1) + k - 1]
        BY <3>1, SubSeqProperties DEF n
      <3>3. n - (n - limit + 1) + 1 = limit
            /\ \A k \in Int : (n - limit + 1) + k - 1 = (n - limit) + k
        BY <1>1, <1>2
      <3> HIDE DEF t
      <3>4. ASSUME NEW k \in 1 .. limit
            PROVE  t[k] = s[(n - limit) + k]
        <4>1. (n - limit + 1) + k - 1 = (n - limit) + k /\ k \in 1 .. n - (n - limit + 1) + 1
          BY <1>1, <1>2
        <4>2. t[k] = s[(n - limit + 1) + k - 1]
          BY <3>2, <4>1
        <4> QED
          BY ONLY <4>1, <4>2
      <3> QED
        BY <3>2, <3>3, <3>4
    <2>3. q.ring = Store(e, t) /\ q.dropped = Count(r) + (n - limit)
      BY <1>3, <1>4
    <2> HIDE DEF e, t
    <2>4. /\ q.ring \in Rings(Byte) /\ Count(q.ring) = limit
          /\ \A k \in 1 .. limit : Contents(q.ring)[k] = t[k]
      <3>1. Len(t) <= Free(e)
        BY <1>1, <1>2, <2>1, <2>2
      <3>2. /\ q.ring \in Rings(Byte) /\ Count(q.ring) = Count(e) + Len(t)
            /\ \A k \in 1 .. Count(e) + Len(t) :
                  Contents(q.ring)[k] = IF k <= Count(e) THEN Contents(e)[k] ELSE t[k - Count(e)]
        BY <2>1, <2>2, <2>3, <3>1, StoreIs
      <3>3. \A k \in 1 .. limit : ~(k <= 0) /\ k - 0 = k
        BY <1>2
      <3> QED
        BY <1>2, <2>1, <2>2, <3>2, <3>3
    <2>5. q.dropped \in Nat /\ Count(q.ring) + q.dropped = Count(r) + n
      BY <1>1, <1>2, <1>4, <2>3, <2>4
    <2>6. Holds(q.ring, r, s, q.dropped)
      <3> SUFFICES ASSUME NEW k \in 1 .. limit
                   PROVE  Contents(q.ring)[k] = Joined(r, s, k + q.dropped)
        BY <2>4 DEF Holds
      <3>1. ~(k + q.dropped <= Count(r)) /\ k + q.dropped - Count(r) = (n - limit) + k
        BY <1>1, <1>2, <1>4, <2>3
      <3>2. Contents(q.ring)[k] = t[k] /\ t[k] = s[(n - limit) + k]
        BY <2>2, <2>4
      <3>3. Joined(r, s, k + q.dropped) = s[k + q.dropped - Count(r)]
        <4>1. k \in Int /\ q.dropped \in Int /\ Count(r) \in Int
          BY <1>1, <1>2, <2>5
        <4> QED
          BY ONLY <3>1, <4>1 DEF Joined
      <3> QED
        BY ONLY <3>1, <3>2, <3>3
    <2> QED
      BY <1>2, <2>4, <2>5, <2>6 DEF n, q
  <1>5. CASE ~(n >= limit)
    <2> DEFINE e == Drop(r, over)
    <2>1. over \in 0 .. Count(r) /\ n <= CAP - 1 - (Count(r) - over)
          /\ Count(r) - over + n <= limit
      BY <1>1, <1>2, <1>5
    <2>2. q.ring = Store(e, s) /\ q.dropped = over
      BY <1>3, <1>5
    <2> HIDE DEF over
    <2>3. /\ e \in Rings(Byte) /\ Count(e) = Count(r) - over
          /\ \A k \in 1 .. Count(r) - over : Contents(e)[k] = Contents(r)[k + over]
      BY <2>1, DropIs
    <2> HIDE DEF e
    <2>4. Free(e) = CAP - 1 - Count(e)
      BY <2>3, RingIs
    <2>5. /\ q.ring \in Rings(Byte) /\ Count(q.ring) = Count(e) + n
          /\ \A k \in 1 .. Count(e) + n :
                Contents(q.ring)[k] = IF k <= Count(e) THEN Contents(e)[k] ELSE s[k - Count(e)]
      <3>1. Len(s) <= Free(e)
        BY <2>1, <2>3, <2>4 DEF n
      <3> QED
        BY <2>2, <2>3, <3>1, StoreIs DEF n
    <2>6. /\ q.dropped \in Nat /\ Count(q.ring) + q.dropped = Count(r) + n
          /\ Count(q.ring) <= keep
      BY <1>1, <1>2, <2>1, <2>2, <2>3, <2>5
    <2>7. Holds(q.ring, r, s, q.dropped)
      <3> SUFFICES ASSUME NEW k \in 1 .. Count(e) + n
                   PROVE  Contents(q.ring)[k] = Joined(r, s, k + q.dropped)
        BY <2>5 DEF Holds
      <3>1. CASE k <= Count(e)
        <4>1. k \in 1 .. Count(r) - over /\ k + q.dropped <= Count(r)
          BY <1>1, <2>1, <2>2, <2>3, <3>1
        <4> QED
          BY <2>2, <2>3, <2>5, <3>1, <4>1 DEF Joined
      <3>2. CASE ~(k <= Count(e))
        <4>1. ~(k + q.dropped <= Count(r)) /\ k + q.dropped - Count(r) = k - Count(e)
          BY <1>1, <2>1, <2>2, <2>3, <3>2
        <4>2. Contents(q.ring)[k] = s[k - Count(e)]
          BY <2>5, <3>2
        <4>3. Joined(r, s, k + q.dropped) = s[k + q.dropped - Count(r)]
          BY <1>1, <2>1, <2>2, <4>1 DEF Joined
        <4> QED
          BY ONLY <4>1, <4>2, <4>3
      <3> QED
        BY <3>1, <3>2
    <2> QED
      BY <2>5, <2>6, <2>7 DEF n, q
  <1> QED
    BY <1>4, <1>5

(* Push keeps some of what was there and some of what comes, in order; the *)
(* policy says at which end it loses.                                      *)
LEMMA PushIs ==
  ASSUME NEW Byte, NEW r \in Rings(Byte), NEW s \in Seq(Byte),
         NEW p \in [latest : BOOLEAN, keep : Nat]
  PROVE  LET q == Push(r, p, s)
         IN  /\ q.ring \in Rings(Byte) /\ q.dropped \in Nat
             /\ Count(q.ring) + q.dropped = Count(r) + Len(s)
             /\ \/ s = <<>> /\ q.ring = r
                \/ p.latest /\ Count(q.ring) <= p.keep /\ Holds(q.ring, r, s, q.dropped)
                \/ ~p.latest /\ Count(q.ring) >= Count(r) /\ Holds(q.ring, r, s, 0)
  <1> DEFINE q == Push(r, p, s)
             fits == Min({Len(s), Free(r)})
  <1>1. CASE s = <<>>
    <2>1. q = [ring |-> r, dropped |-> 0]
      BY <1>1 DEF Push
    <2>2. Len(s) = 0 /\ Count(r) \in Int
      BY <1>1, RingIs
    <2> QED
      BY <1>1, <2>1, <2>2
  <1>2. CASE s # <<>> /\ p.latest
    <2>1. q = PushLatest(r, p.keep, s)
      BY <1>2 DEF Push
    <2>2. p.keep \in Nat
      OBVIOUS
    <2> QED
      BY <1>2, <2>1, <2>2, PushLatestIs
  <1>3. CASE s # <<>> /\ ~p.latest
    <2>1. q.ring = Store(r, SubSeq(s, 1, fits)) /\ q.dropped = Len(s) - fits
      BY <1>3 DEF Push
    <2>2. CAP \in Nat /\ Len(s) \in Nat /\ Count(r) \in 0 .. CAP - 1 /\ Free(r) = CAP - 1 - Count(r)
      BY CapAssumption, LenProperties, RingIs
    <2>3. fits \in 0 .. Len(s) /\ fits <= Free(r)
      <3>1. fits = IF Len(s) <= Free(r) THEN Len(s) ELSE Free(r)
        <4>1. Len(s) \in Int /\ Free(r) \in Int
          BY <2>2
        <4> QED
          BY <4>1, OfTwo
      <3> HIDE DEF fits
      <3> QED
        BY <2>2, <3>1
    <2> DEFINE t == SubSeq(s, 1, fits)
    <2> HIDE DEF fits, q
    <2>4. t \in Seq(Byte) /\ Len(t) = fits /\ \A k \in 1 .. fits : t[k] = s[k]
      <3>1. 1 \in 1 .. Len(s) + 1 /\ fits \in 1 - 1 .. Len(s)
        BY <2>2, <2>3
      <3>2. /\ t \in Seq(Byte) /\ Len(t) = fits - 1 + 1
            /\ \A k \in 1 .. fits - 1 + 1 : t[k] = s[1 + k - 1]
        BY <3>1, SubSeqProperties
      <3>3. fits - 1 + 1 = fits /\ \A k \in Int : 1 + k - 1 = k
        BY <2>2, <2>3
      <3> HIDE DEF t
      <3> QED
        BY <2>2, <2>3, <3>2, <3>3
    <2> HIDE DEF t
    <2>5. /\ q.ring \in Rings(Byte) /\ Count(q.ring) = Count(r) + fits
          /\ \A k \in 1 .. Count(r) + fits :
                Contents(q.ring)[k] = IF k <= Count(r) THEN Contents(r)[k] ELSE t[k - Count(r)]
      <3>1. Len(t) <= Free(r) /\ q.ring = Store(r, t)
        BY <2>1, <2>3, <2>4 DEF t
      <3> QED
        BY <2>4, <3>1, StoreIs
    <2>6. /\ q.dropped \in Nat /\ Count(q.ring) + q.dropped = Count(r) + Len(s)
          /\ Count(q.ring) >= Count(r)
      BY <2>1, <2>2, <2>3, <2>5
    <2>7. Holds(q.ring, r, s, 0)
      <3> SUFFICES ASSUME NEW k \in 1 .. Count(r) + fits
                   PROVE  Contents(q.ring)[k] = Joined(r, s, k)
        <4>1. \A k \in 1 .. Count(r) + fits : k + 0 = k
          BY <2>2, <2>3
        <4> QED
          BY <2>5, <4>1 DEF Holds
      <3>1. ~(k <= Count(r)) => k - Count(r) \in 1 .. fits
        BY <2>2, <2>3
      <3> QED
        BY <2>4, <2>5, <3>1 DEF Joined
    <2> QED
      BY <1>3, <2>5, <2>6, <2>7 DEF q
  <1> QED
    BY <1>1, <1>2, <1>3
-----------------------------------------------------------------------------
(* The filter.                                                             *)

(* After each byte: a function of how many have been taken.                *)
Run(g, s, bytes, cmd, n) ==
  g = [i \in 0 .. n |-> IF i = 0 THEN s ELSE AtByte(g[i - 1], bytes[i], cmd)]

LEMMA RunExists ==
  ASSUME NEW s, NEW bytes, NEW cmd, NEW n \in Nat
  PROVE  \E g : Run(g, s, bytes, cmd, n)
  <1> DEFINE T == {m \in Nat : ~ \E g : Run(g, s, bytes, cmd, m)}
  <1>1. SUFFICES ASSUME T # {} PROVE FALSE
    OBVIOUS
  <1>2. PICK m \in T : \A k \in T : m <= k
    <2> HIDE DEF T
    <2>1. T \in SUBSET Nat
      BY DEF T
    <2> QED
      BY <1>1, <2>1, Least
  <1>3. m # 0
    <2> DEFINE g == [i \in 0 .. 0 |-> s]
    <2>1. \A i \in 0 .. 0 : i = 0
      OBVIOUS
    <2>2. Run(g, s, bytes, cmd, 0)
      BY <2>1 DEF Run
    <2> QED
      BY <2>2
  <1>4. m \in Nat /\ m - 1 \in Nat /\ ~ (m <= m - 1)
    BY <1>3
  <1>5. m - 1 \notin T
    BY <1>2, <1>4
  <1>6. PICK h : Run(h, s, bytes, cmd, m - 1)
    BY <1>4, <1>5
  <1> DEFINE g == [i \in 0 .. m |-> IF i < m THEN h[i] ELSE AtByte(h[m - 1], bytes[m], cmd)]
  <1>7. ASSUME NEW i \in 0 .. m
        PROVE  g[i] = IF i = 0 THEN s ELSE AtByte(g[i - 1], bytes[i], cmd)
    <2>1. CASE i = m
      <3>1. i # 0 /\ ~(i < m) /\ i - 1 \in 0 .. m /\ i - 1 < m
        BY <1>3, <1>4, <2>1
      <3>2. g[i] = AtByte(h[m - 1], bytes[m], cmd) /\ g[i - 1] = h[i - 1]
        BY <3>1
      <3> QED
        BY <2>1, <3>1, <3>2
    <2>2. CASE i # m
      <3>1. i < m /\ i \in 0 .. m - 1
        BY <1>4, <2>2
      <3>2. g[i] = h[i]
        BY <3>1
      <3>3. h[i] = IF i = 0 THEN s ELSE AtByte(h[i - 1], bytes[i], cmd)
        BY <1>6, <3>1 DEF Run
      <3>4. i # 0 => g[i - 1] = h[i - 1]
        <4>1. i # 0 => i - 1 \in 0 .. m /\ i - 1 < m
          BY <1>4, <3>1
        <4> QED
          BY <4>1
      <3> HIDE DEF g
      <3> QED
        BY <3>2, <3>3, <3>4
    <2> QED
      BY <2>1, <2>2
  <1>8. g = [i \in 0 .. m |-> g[i]]
    OBVIOUS
  <1> HIDE DEF g
  <1>9. Run(g, s, bytes, cmd, m)
    BY <1>7, <1>8 DEF Run
  <1> QED
    BY <1>2, <1>9

LEMMA FilterRuns ==
  ASSUME NEW s, NEW bytes, NEW cmd, Len(bytes) \in Nat
  PROVE  \E g : /\ g[0] = s
                /\ \A i \in 1 .. Len(bytes) : g[i] = AtByte(g[i - 1], bytes[i], cmd)
                /\ AtFilter(s, bytes, cmd) = g[Len(bytes)]
  <1> DEFINE f == CHOOSE g : Run(g, s, bytes, cmd, Len(bytes))
  <1>1. Run(f, s, bytes, cmd, Len(bytes))
    BY RunExists
  <1>2. AtFilter(s, bytes, cmd) = f[Len(bytes)]
    BY DEF AtFilter, Run
  <1> HIDE DEF f
  <1>3. 0 \in 0 .. Len(bytes) /\ \A i \in 1 .. Len(bytes) : i \in 0 .. Len(bytes) /\ i # 0
    OBVIOUS
  <1>4. f[0] = s /\ \A i \in 1 .. Len(bytes) : f[i] = AtByte(f[i - 1], bytes[i], cmd)
    BY <1>1, <1>3 DEF Run
  <1> QED
    BY <1>2, <1>4

(* What the filter works on, with bytes of a set.                          *)
Ats(Byte) == [mode : BOOLEAN, n : 0 .. LINE, plus : Seq(Byte), lead : BOOLEAN]
Outs == [ht : 0 .. HOSTTX, cdc : 0 .. CDC]
Sessions == [was : BOOLEAN, sink : BOOLEAN, testing : BOOLEAN, feed : 0 .. TEST]
Links == [tx : 0 .. LINK, rx : 0 .. LINK]

Filters(Byte) == [at : Ats(Byte), out : Outs, sess : Sessions, link : Links,
                  policy : Policies, eaten : Nat, data : Seq(Byte)]

FilterOK(s, Byte) == s \in Filters(Byte) /\ Len(s.at.plus) <= PLUSES

Lines == Commands \union {[do |-> "other"]}

(* The bytes of this read and before that are not commands.                *)
Held(s) == s.data \o s.at.plus

LEMMA Sizes ==
  /\ LOWFREE \in Nat /\ MARGIN \in Nat /\ HEADROOM \in Nat /\ HEADROOM >= MARGIN
  /\ MaxTyped \in Nat
  /\ BULK \in Nat \ {0} /\ PLUSES \in Nat \ {0} /\ LINE \in Nat \ {0}
  /\ HOSTTX \in Nat \ {0} /\ REPLY \in Nat \ {0} /\ USB \in Nat \ {0}
  /\ CDC \in Nat \ {0} /\ LINK \in Nat \ {0} /\ TEST \in Nat \ {0}
  BY HostAssumption DEF HostAssumption

(* A reply and an echo find room in the output ring.                       *)
LEMMA ReplyFits ==
  ASSUME NEW o \in Outs
  PROVE  AtReply(o) \in Outs /\ Echo(o) \in Outs
  <1>1. o.ht \in 0 .. HOSTTX /\ o.ht + REPLY \in Int /\ HOSTTX - 1 \in Int
    BY Sizes DEF Outs
  <1> DEFINE m == Min({o.ht + REPLY, HOSTTX - 1})
             h == Max({o.ht, m})
  <1>2. m = IF o.ht + REPLY <= HOSTTX - 1 THEN o.ht + REPLY ELSE HOSTTX - 1
    BY ONLY <1>1, OfTwo
  <1> HIDE DEF m
  <1>3. m \in Int /\ m <= HOSTTX
    BY <1>1, <1>2, Sizes
  <1>4. h = IF o.ht >= m THEN o.ht ELSE m
    <2>1. o.ht \in Int
      BY <1>1
    <2> QED
      BY ONLY <1>3, <2>1, OfTwo
  <1>5. AtReply(o) = [o EXCEPT !.ht = h]
    BY DEF AtReply, m
  <1> HIDE DEF h
  <1>6. h \in 0 .. HOSTTX
    BY <1>1, <1>3, <1>4, Sizes
  <1>7. AtReply(o) \in Outs
    BY <1>5, <1>6 DEF Outs
  <1>8. Echo(o) \in Outs
    BY <1>1, Sizes DEF Outs, Echo
  <1> QED
    BY <1>7, <1>8

LEMMA FilterFields ==
  ASSUME NEW Byte, NEW s, FilterOK(s, Byte)
  PROVE  /\ s.at \in Ats(Byte) /\ s.out \in Outs /\ s.sess \in Sessions /\ s.link \in Links
         /\ s.policy \in Policies /\ s.eaten \in Nat /\ s.data \in Seq(Byte)
         /\ s.at.mode \in BOOLEAN /\ s.at.n \in 0 .. LINE /\ s.at.plus \in Seq(Byte)
         /\ s.at.lead \in BOOLEAN /\ Len(s.at.plus) \in 0 .. PLUSES
  <1>1. /\ s.at \in Ats(Byte) /\ s.out \in Outs /\ s.sess \in Sessions /\ s.link \in Links
        /\ s.policy \in Policies /\ s.eaten \in Nat /\ s.data \in Seq(Byte)
    BY DEF FilterOK, Filters
  <1>2. /\ s.at.mode \in BOOLEAN /\ s.at.n \in 0 .. LINE /\ s.at.plus \in Seq(Byte)
        /\ s.at.lead \in BOOLEAN
    BY <1>1 DEF Ats
  <1>3. Len(s.at.plus) \in Nat /\ Len(s.at.plus) <= PLUSES
    BY <1>2, LenProperties DEF FilterOK
  <1> QED
    BY <1>1, <1>2, <1>3, Sizes

(* A command is no byte of the stream, and leaves those of it alone.       *)
LEMMA ExecKeeps ==
  ASSUME NEW Byte, NEW s, FilterOK(s, Byte), NEW cmd \in Lines
  PROVE  LET t == AtExec(s, cmd)
         IN  /\ FilterOK(t, Byte)
             /\ t.data = s.data /\ t.at.plus = s.at.plus /\ t.eaten = s.eaten
  <1>1. /\ s \in Filters(Byte) /\ Len(s.at.plus) <= PLUSES
        /\ AtReply(s.out) \in Outs
    BY FilterFields, ReplyFits DEF FilterOK
  <1> DEFINE t == [s EXCEPT !.out = AtReply(@), !.at.n = 0]
  <1>2. /\ t \in Filters(Byte) /\ t.at.plus = s.at.plus /\ t.data = s.data
        /\ t.eaten = s.eaten
    <2> DEFINE a == [s.at EXCEPT !.n = 0]
    <2>1. s.at \in Ats(Byte) /\ 0 \in 0 .. LINE
      BY <1>1, Sizes DEF Filters
    <2>2. a \in Ats(Byte) /\ a.plus = s.at.plus
      BY <2>1 DEF Ats
    <2>3. t = [s EXCEPT !.out = AtReply(s.out), !.at = a]
      BY <1>1 DEF Filters
    <2> HIDE DEF a, t
    <2> QED
      BY <1>1, <2>2, <2>3 DEF Filters
  <1>3. AtExec(s, cmd) = CASE cmd.do = "ATO" -> Leave(t)
       [] cmd.do = "BUFMODE" -> ApplyBufPolicy(t, cmd.policy)
       [] cmd.do = "SINK" -> [t EXCEPT !.sess.sink = ~@]
       [] cmd.do = "SPEEDTEST" -> [t EXCEPT !.sess.testing = TRUE, !.sess.feed = TEST]
       [] cmd.do = "RELINK" -> [t EXCEPT !.link = [tx |-> 0, rx |-> 0]]
       [] OTHER -> t
    BY DEF AtExec
  <1> HIDE DEF t
  <1>4. CASE cmd.do = "ATO"
    <2>1. AtExec(s, cmd) = [t EXCEPT !.at.mode = FALSE]
      BY <1>3, <1>4 DEF Leave
    <2> QED
      BY <1>1, <1>2, <2>1 DEF FilterOK, Filters, Ats
  <1>5. CASE cmd.do = "BUFMODE"
    <2>1. AtExec(s, cmd) = [t EXCEPT !.policy = cmd.policy]
      BY <1>3, <1>5 DEF ApplyBufPolicy
    <2>2. cmd.policy \in Policies
      BY <1>5, HostAssumption DEF HostAssumption, Lines
    <2> QED
      BY <1>1, <1>2, <2>1, <2>2 DEF FilterOK, Filters
  <1>6. CASE cmd.do = "SINK"
    <2> DEFINE u == [t.sess EXCEPT !.sink = ~@]
    <2>1. AtExec(s, cmd) = [t EXCEPT !.sess = u]
      BY <1>2, <1>3, <1>6 DEF Filters
    <2>2. u \in Sessions
      BY <1>2 DEF Filters, Sessions
    <2> HIDE DEF u
    <2> QED
      BY <1>1, <1>2, <2>1, <2>2 DEF FilterOK, Filters
  <1>7. CASE cmd.do = "SPEEDTEST"
    <2>1. AtExec(s, cmd) = [t EXCEPT !.sess.testing = TRUE, !.sess.feed = TEST]
      BY <1>3, <1>7
    <2> DEFINE e == [t.sess EXCEPT !.testing = TRUE, !.feed = TEST]
    <2>2. t.sess \in Sessions /\ TEST \in 0 .. TEST
      BY <1>2, Sizes DEF Filters
    <2>3. e \in Sessions
      BY <2>2 DEF Sessions
    <2>4. AtExec(s, cmd) = [t EXCEPT !.sess = e]
      BY <1>2, <2>1 DEF Filters
    <2> HIDE DEF e
    <2> QED
      BY <1>1, <1>2, <2>3, <2>4 DEF FilterOK, Filters
  <1>8. CASE cmd.do = "RELINK"
    <2>1. AtExec(s, cmd) = [t EXCEPT !.link = [tx |-> 0, rx |-> 0]]
      BY <1>3, <1>8
    <2>2. [tx |-> 0, rx |-> 0] \in Links
      BY Sizes DEF Links
    <2> QED
      BY <1>1, <1>2, <2>1, <2>2 DEF FilterOK, Filters
  <1>9. CASE cmd.do \notin {"ATO", "BUFMODE", "SINK", "SPEEDTEST", "RELINK"}
    <2>1. AtExec(s, cmd) = t
      BY <1>3, <1>9
    <2> QED
      BY <1>1, <1>2, <2>1 DEF FilterOK
  <1> QED
    BY <1>4, <1>5, <1>6, <1>7, <1>8, <1>9

(* One byte: it is eaten, or it is behind those held so far.               *)
LEMMA ByteKeeps ==
  ASSUME NEW Byte, NEW s, FilterOK(s, Byte), NEW b \in [c : Chars, id : Byte],
         NEW cmd \in Lines
  PROVE  LET t == AtByte(s, b, cmd)
         IN  /\ FilterOK(t, Byte)
             /\ \/ Held(t) = Held(s) /\ t.eaten = s.eaten + 1
                \/ Held(t) = Append(Held(s), b.id) /\ t.eaten = s.eaten
  <1> DEFINE t == AtByte(s, b, cmd)
  <1>1. /\ s \in Filters(Byte) /\ Len(s.at.plus) <= PLUSES /\ b.id \in Byte
        /\ s.data \in Seq(Byte) /\ s.at.plus \in Seq(Byte) /\ s.eaten \in Nat
    BY FilterFields DEF FilterOK
  <1>2. CASE s.at.mode
    <2> DEFINE e == [s EXCEPT !.eaten = @ + 1]
    <2>1. /\ FilterOK(e, Byte) /\ e.data = s.data /\ e.at = s.at
          /\ e.out = s.out /\ e.eaten = s.eaten + 1
      BY <1>1 DEF FilterOK, Filters
    <2>2. t = IF b.c = "eol" THEN IF s.at.n > 0 THEN AtExec(e, cmd) ELSE e
              ELSE IF s.at.n < LINE THEN [e EXCEPT !.at.n = @ + 1, !.out = Echo(@)] ELSE e
      BY <1>2 DEF AtByte, InCommand
    <2> HIDE DEF e
    <2>3. FilterOK(t, Byte) /\ t.data = s.data /\ t.at.plus = s.at.plus /\ t.eaten = s.eaten + 1
      <3>1. CASE t = AtExec(e, cmd)
        BY <2>1, <3>1, ExecKeeps
      <3>2. CASE t = e
        BY <2>1, <3>2
      <3>3. CASE s.at.n < LINE /\ t = [e EXCEPT !.at.n = @ + 1, !.out = Echo(@)]
        <4>1. Echo(e.out) \in Outs /\ e.at.n \in 0 .. LINE /\ e.at.n < LINE
          BY <2>1, <3>3, FilterFields, ReplyFits
        <4>2. e.at.n + 1 \in 0 .. LINE
          BY <4>1, Sizes
        <4> DEFINE a == [e.at EXCEPT !.n = @ + 1]
        <4>3. a \in Ats(Byte) /\ a.plus = e.at.plus
          BY <2>1, <4>2 DEF FilterOK, Filters, Ats
        <4>4. t = [e EXCEPT !.at = a, !.out = Echo(e.out)]
          BY <2>1, <3>3 DEF FilterOK, Filters
        <4> HIDE DEF a, t
        <4> QED
          BY <2>1, <4>1, <4>3, <4>4 DEF FilterOK, Filters
      <3> QED
        BY <2>2, <3>1, <3>2, <3>3
    <2> QED
      BY <2>3 DEF Held
  <1>3. CASE ~s.at.mode /\ b.c = "+" /\ (s.at.plus # <<>> \/ s.at.lead)
    <2>1. t = IF Len(s.at.plus) < PLUSES THEN [s EXCEPT !.at.plus = Append(@, b.id)]
              ELSE [s EXCEPT !.eaten = @ + 1]
      BY <1>3 DEF AtByte, InEscape
    <2>2. CASE Len(s.at.plus) < PLUSES
      <3>1. t = [s EXCEPT !.at.plus = Append(@, b.id)]
        BY <2>1, <2>2
      <3>2. /\ Append(s.at.plus, b.id) \in Seq(Byte)
            /\ Len(Append(s.at.plus, b.id)) <= PLUSES
        BY <1>1, <2>2, AppendProperties, LenProperties, Sizes
      <3>3. /\ FilterOK(t, Byte) /\ t.data = s.data /\ t.eaten = s.eaten
            /\ t.at.plus = Append(s.at.plus, b.id)
        <4> DEFINE a == [s.at EXCEPT !.plus = Append(@, b.id)]
        <4>1. a \in Ats(Byte) /\ a.plus = Append(s.at.plus, b.id)
          BY <1>1, <3>2 DEF FilterOK, Filters, Ats
        <4>2. t = [s EXCEPT !.at = a]
          BY <1>1, <3>1 DEF FilterOK, Filters
        <4> HIDE DEF a, t
        <4> QED
          BY <1>1, <3>2, <4>1, <4>2 DEF FilterOK, Filters
      <3>4. Held(t) = Append(Held(s), b.id)
        <4>1. ASSUME NEW x \in Seq(Byte), NEW y \in Seq(Byte), NEW z \in Byte
              PROVE  x \o Append(y, z) = Append(x \o y, z)
          OBVIOUS
        <4> QED
          BY <1>1, <3>3, <4>1 DEF Held
      <3> QED
        BY <3>3, <3>4
    <2>3. CASE ~(Len(s.at.plus) < PLUSES)
      <3>1. t = [s EXCEPT !.eaten = @ + 1]
        BY <2>1, <2>3
      <3> QED
        BY <1>1, <3>1 DEF FilterOK, Filters, Held
    <2> QED
      BY <2>2, <2>3
  <1>4. CASE ~s.at.mode /\ ~(b.c = "+" /\ (s.at.plus # <<>> \/ s.at.lead))
    <2>1. t = [s EXCEPT !.data = Append(@ \o s.at.plus, b.id),
                        !.at.plus = <<>>, !.at.lead = FALSE]
      BY <1>4 DEF AtByte, AsData
    <2>2. Append(Held(s), b.id) \in Seq(Byte) /\ <<>> \in Seq(Byte) /\ Len(<<>>) <= PLUSES
      BY <1>1, Sizes DEF Held
    <2> DEFINE a == [s.at EXCEPT !.plus = <<>>, !.lead = FALSE]
               d == Append(Held(s), b.id)
    <2>3. t = [s EXCEPT !.data = d, !.at = a]
      BY <1>1, <2>1 DEF Filters, Held
    <2>4. a \in Ats(Byte) /\ a.plus = <<>>
      BY <1>1, <2>2 DEF Filters, Ats
    <2> HIDE DEF a, d
    <2>5. t \in Filters(Byte) /\ t.data = d /\ t.at = a /\ t.eaten = s.eaten
      BY <1>1, <2>2, <2>3, <2>4 DEF Filters, d
    <2>6. /\ t \in Filters(Byte) /\ t.data = Append(Held(s), b.id) /\ t.at.plus = <<>>
          /\ t.eaten = s.eaten
      BY <2>4, <2>5 DEF d
    <2>7. Held(t) = Append(Held(s), b.id)
      BY <2>2, <2>6, ConcatEmptySeq DEF Held
    <2> QED
      BY <2>2, <2>6, <2>7 DEF FilterOK
  <1> QED
    BY <1>2, <1>3, <1>4
-----------------------------------------------------------------------------
(* Order.                                                                  *)

Below(s, t) == \A i \in DOMAIN s, j \in DOMAIN t : s[i] < t[j]

LEMMA Elements ==
  ASSUME NEW Byte, NEW s \in Seq(Byte)
  PROVE  /\ Len(s) \in Nat /\ DOMAIN s = 1 .. Len(s)
         /\ \A k \in 1 .. Len(s) : s[k] \in Byte
  BY LenProperties, ElementOfSeq

LEMMA WiderSeq ==
  ASSUME NEW A, NEW B, A \subseteq B, NEW s \in Seq(A)
  PROVE  s \in Seq(B)
  <1>1. Len(s) \in Nat /\ s \in [1 .. Len(s) -> A]
    BY LenProperties
  <1>2. s \in [1 .. Len(s) -> B]
    BY <1>1
  <1> QED
    BY <1>1, <1>2, SeqDef

LEMMA InConcat ==
  ASSUME NEW Byte, NEW s \in Seq(Byte), NEW t \in Seq(Byte)
  PROVE  /\ s \o t \in Seq(Byte) /\ DOMAIN (s \o t) = 1 .. Len(s) + Len(t)
         /\ Len(s) \in Nat /\ Len(t) \in Nat
         /\ \A i \in 1 .. Len(s) : (s \o t)[i] = s[i]
         /\ \A j \in 1 .. Len(t) : Len(s) + j \in DOMAIN (s \o t) /\ (s \o t)[Len(s) + j] = t[j]
         /\ \A k \in DOMAIN (s \o t) : k \notin 1 .. Len(s)
               => k - Len(s) \in 1 .. Len(t) /\ (s \o t)[k] = t[k - Len(s)]
  <1> DEFINE u == s \o t
  <1>1. /\ u \in Seq(Byte) /\ Len(u) = Len(s) + Len(t)
        /\ \A i \in 1 .. Len(s) + Len(t) : u[i] = IF i <= Len(s) THEN s[i] ELSE t[i - Len(s)]
    BY ConcatProperties
  <1>2. Len(s) \in Nat /\ Len(t) \in Nat /\ DOMAIN u = 1 .. Len(s) + Len(t)
    BY <1>1, Elements
  <1> HIDE DEF u
  <1>3. \A i \in 1 .. Len(s) : u[i] = s[i]
    BY <1>1, <1>2
  <1>4. ASSUME NEW j \in 1 .. Len(t)
        PROVE  Len(s) + j \in DOMAIN u /\ u[Len(s) + j] = t[j]
    <2>1. Len(s) + j \in 1 .. Len(s) + Len(t) /\ ~(Len(s) + j <= Len(s))
          /\ Len(s) + j - Len(s) = j
      BY <1>2
    <2> QED
      BY <1>1, <1>2, <2>1
  <1>5. ASSUME NEW k \in DOMAIN u, k \notin 1 .. Len(s)
        PROVE  k - Len(s) \in 1 .. Len(t) /\ u[k] = t[k - Len(s)]
    <2>1. k \in 1 .. Len(s) + Len(t) /\ ~(k <= Len(s)) /\ k - Len(s) \in 1 .. Len(t)
      BY <1>2, <1>5
    <2> QED
      BY <1>1, <2>1
  <1> QED
    BY <1>1, <1>2, <1>3, <1>4, <1>5 DEF u

LEMMA RisesConcat ==
  ASSUME NEW s \in Seq(Int), NEW t \in Seq(Int)
  PROVE  Rises(s \o t) <=> Rises(s) /\ Rises(t) /\ Below(s, t)
  <1> DEFINE u == s \o t
             m == Len(s)
             n == Len(t)
  <1>1. /\ DOMAIN u = 1 .. m + n /\ m \in Nat /\ n \in Nat
        /\ DOMAIN s = 1 .. m /\ DOMAIN t = 1 .. n
        /\ \A i \in 1 .. m : u[i] = s[i] /\ s[i] \in Int
        /\ \A j \in 1 .. n : u[m + j] = t[j] /\ t[j] \in Int
        /\ \A k \in 1 .. m + n : k \notin 1 .. m => k - m \in 1 .. n /\ u[k] = t[k - m]
    BY InConcat, Elements
  <1> HIDE DEF u, m, n
  <1>2. ASSUME Rises(u) PROVE Rises(s) /\ Rises(t) /\ Below(s, t)
    <2>1. \A i, j \in 1 .. m + n : i < j => u[i] < u[j]
      BY <1>1, <1>2 DEF Rises
    <2>2. ASSUME NEW i \in 1 .. m, NEW j \in 1 .. m, i < j PROVE s[i] < s[j]
      <3>1. i \in 1 .. m + n /\ j \in 1 .. m + n
        BY <1>1
      <3> QED
        BY <1>1, <2>1, <2>2, <3>1
    <2>3. ASSUME NEW i \in 1 .. n, NEW j \in 1 .. n, i < j PROVE t[i] < t[j]
      <3>1. m + i \in 1 .. m + n /\ m + j \in 1 .. m + n /\ m + i < m + j
        BY <1>1, <2>3
      <3> QED
        BY <1>1, <2>1, <3>1
    <2>4. ASSUME NEW i \in 1 .. m, NEW j \in 1 .. n PROVE s[i] < t[j]
      <3>1. i \in 1 .. m + n /\ m + j \in 1 .. m + n /\ i < m + j
        BY <1>1
      <3> QED
        BY <1>1, <2>1, <3>1
    <2> QED
      BY <1>1, <2>2, <2>3, <2>4 DEF Rises, Below
  <1>3. ASSUME Rises(s), Rises(t), Below(s, t) PROVE Rises(u)
    <2> SUFFICES ASSUME NEW i \in 1 .. m + n, NEW j \in 1 .. m + n, i < j
                 PROVE  u[i] < u[j]
      BY <1>1 DEF Rises
    <2>1. CASE i \in 1 .. m /\ j \in 1 .. m
      BY <1>1, <1>3, <2>1 DEF Rises
    <2>2. CASE i \in 1 .. m /\ j \notin 1 .. m
      <3>1. j - m \in 1 .. n /\ u[j] = t[j - m] /\ u[i] = s[i]
        BY <1>1, <2>2
      <3> QED
        BY <1>1, <1>3, <2>2, <3>1 DEF Below
    <2>3. CASE i \notin 1 .. m
      <3>1. j \notin 1 .. m
        BY <1>1, <2>3
      <3>2. j - m \in 1 .. n /\ u[j] = t[j - m] /\ i - m \in 1 .. n /\ u[i] = t[i - m]
            /\ i - m < j - m
        BY <1>1, <2>3, <3>1
      <3> QED
        BY <1>1, <1>3, <3>2 DEF Rises
    <2> QED
      BY <2>1, <2>2, <2>3
  <1> QED
    BY <1>2, <1>3 DEF u

LEMMA BelowConcat ==
  ASSUME NEW s \in Seq(Int), NEW t \in Seq(Int), NEW w \in Seq(Int)
  PROVE  /\ Below(s \o t, w) <=> Below(s, w) /\ Below(t, w)
         /\ Below(w, s \o t) <=> Below(w, s) /\ Below(w, t)
  <1> DEFINE u == s \o t
             m == Len(s)
             n == Len(t)
  <1>1. /\ DOMAIN u = 1 .. m + n /\ m \in Nat /\ n \in Nat
        /\ DOMAIN s = 1 .. m /\ DOMAIN t = 1 .. n
        /\ \A i \in 1 .. m : i \in 1 .. m + n /\ u[i] = s[i]
        /\ \A j \in 1 .. n : m + j \in 1 .. m + n /\ u[m + j] = t[j]
        /\ \A k \in 1 .. m + n : k \notin 1 .. m => k - m \in 1 .. n /\ u[k] = t[k - m]
    BY InConcat, Elements
  <1> HIDE DEF u, m, n
  <1>2. ASSUME Below(u, w) PROVE Below(s, w) /\ Below(t, w)
    BY <1>1, <1>2 DEF Below
  <1>3. ASSUME Below(s, w), Below(t, w) PROVE Below(u, w)
    <2> SUFFICES ASSUME NEW k \in 1 .. m + n, NEW j \in DOMAIN w PROVE u[k] < w[j]
      BY <1>1 DEF Below
    <2> QED
      BY <1>1, <1>3 DEF Below
  <1>4. ASSUME Below(w, u) PROVE Below(w, s) /\ Below(w, t)
    BY <1>1, <1>4 DEF Below
  <1>5. ASSUME Below(w, s), Below(w, t) PROVE Below(w, u)
    <2> SUFFICES ASSUME NEW k \in 1 .. m + n, NEW j \in DOMAIN w PROVE w[j] < u[k]
      BY <1>1 DEF Below
    <2> QED
      BY <1>1, <1>5 DEF Below
  <1> QED
    BY <1>2, <1>3, <1>4, <1>5 DEF u

(* A greater one at the end.                                               *)
LEMMA RisesAppend ==
  ASSUME NEW s \in Seq(Int), NEW x \in Int, Rises(s), \A k \in 1 .. Len(s) : s[k] < x
  PROVE  Rises(Append(s, x))
  <1>1. Append(s, x) = s \o <<x>> /\ <<x>> \in Seq(Int)
    BY AppendIsConcat
  <1>2. Len(<<x>>) = 1 /\ DOMAIN <<x>> = {1} /\ <<x>>[1] = x
    OBVIOUS
  <1>3. Rises(<<x>>)
    BY <1>2 DEF Rises
  <1>4. Below(s, <<x>>)
    BY <1>2, Elements DEF Below
  <1> QED
    BY <1>1, <1>3, <1>4, RisesConcat

(* A read through the filter, from the byte before the first one on: what  *)
(* comes out is of what went in, in order, and the rest is counted.        *)
Ids(bytes) == [k \in DOMAIN bytes |-> bytes[k].id]

From(plus, bytes, n) == {plus[k] : k \in 1 .. Len(plus)} \union {bytes[j].id : j \in 1 .. n}

Filtered(t, s, bytes, n, Byte) ==
  /\ FilterOK(t, Byte) /\ Rises(Held(t))
  /\ Len(Held(t)) + t.eaten = Len(s.at.plus) + s.eaten + n
  /\ \A k \in 1 .. Len(Held(t)) : Held(t)[k] \in From(s.at.plus, bytes, n)

LEMMA IdsAre ==
  ASSUME NEW Byte, NEW bytes \in Seq([c : Chars, id : Byte])
  PROVE  /\ Ids(bytes) \in Seq(Byte) /\ Len(Ids(bytes)) = Len(bytes)
         /\ DOMAIN Ids(bytes) = 1 .. Len(bytes)
         /\ \A k \in 1 .. Len(bytes) : Ids(bytes)[k] = bytes[k].id /\ bytes[k].id \in Byte
  <1>1. /\ Len(bytes) \in Nat /\ DOMAIN bytes = 1 .. Len(bytes)
        /\ \A k \in 1 .. Len(bytes) : bytes[k] \in [c : Chars, id : Byte]
    BY Elements
  <1>2. \A k \in 1 .. Len(bytes) : bytes[k].id \in Byte
    BY <1>1
  <1>3. Ids(bytes) = [k \in 1 .. Len(bytes) |-> bytes[k].id]
    BY <1>1 DEF Ids
  <1>4. Ids(bytes) \in Seq(Byte) /\ Len(Ids(bytes)) = Len(bytes)
    BY <1>1, <1>2, <1>3, SeqDef, LenProperties
  <1> QED
    BY <1>2, <1>3, <1>4

LEMMA FilterIs ==
  ASSUME NEW Byte \in SUBSET Int, NEW s, FilterOK(s, Byte), s.data = <<>>,
         NEW bytes \in Seq([c : Chars, id : Byte]), NEW cmd \in Lines,
         Rises(s.at.plus), Rises(Ids(bytes)), Below(s.at.plus, Ids(bytes))
  PROVE  Filtered(AtFilter(s, bytes, cmd), s, bytes, Len(bytes), Byte)
  <1> DEFINE n == Len(bytes)
             plus == s.at.plus
  <1>1. /\ n \in Nat /\ plus \in Seq(Byte) /\ s.eaten \in Nat /\ s.data \in Seq(Byte)
        /\ \A k \in 1 .. n : bytes[k] \in [c : Chars, id : Byte]
    BY Elements, FilterFields
  <1>2. PICK g : /\ g[0] = s
                 /\ \A i \in 1 .. n : g[i] = AtByte(g[i - 1], bytes[i], cmd)
                 /\ AtFilter(s, bytes, cmd) = g[n]
    BY <1>1, FilterRuns
  <1> DEFINE T == {i \in 0 .. n : ~ Filtered(g[i], s, bytes, i, Byte)}
  <1>3. SUFFICES ASSUME T # {} PROVE FALSE
    <2>1. n \in 0 .. n
      BY <1>1
    <2> QED
      BY <1>2, <2>1
  <1>4. PICK m : m \in T /\ \A k \in T : m <= k
    <2>1. T \in SUBSET Nat
      BY <1>1
    <2> HIDE DEF T
    <2> QED
      BY <1>3, <2>1, Least
  <1>5. m # 0
    <2>1. Held(s) = plus
      BY <1>1, ConcatEmptySeq DEF Held
    <2>2. \A k \in 1 .. Len(plus) : plus[k] \in From(plus, bytes, 0)
      BY DEF From
    <2>3. Len(plus) + s.eaten = Len(plus) + s.eaten + 0
      BY <1>1, LenProperties
    <2>4. Filtered(s, s, bytes, 0, Byte)
      BY <2>1, <2>2, <2>3 DEF Filtered
    <2> QED
      BY <1>2, <1>4, <2>4
  <1>6. m \in 1 .. n /\ m - 1 \in 0 .. n /\ ~(m <= m - 1)
    BY <1>1, <1>4, <1>5
  <1>7. Filtered(g[m - 1], s, bytes, m - 1, Byte)
    BY <1>4, <1>6
  <1> DEFINE p == g[m - 1]
             q == g[m]
             x == bytes[m].id
  <1>8. /\ FilterOK(q, Byte)
        /\ \/ Held(q) = Held(p) /\ q.eaten = p.eaten + 1
           \/ Held(q) = Append(Held(p), x) /\ q.eaten = p.eaten
    <2>1. q = AtByte(p, bytes[m], cmd) /\ FilterOK(p, Byte)
      BY <1>2, <1>6, <1>7 DEF Filtered
    <2> HIDE DEF p, q
    <2> QED
      BY <1>1, <1>6, <2>1, ByteKeeps
  <1>9. /\ FilterOK(p, Byte) /\ Rises(Held(p))
        /\ Len(Held(p)) + p.eaten = Len(plus) + s.eaten + (m - 1)
        /\ \A k \in 1 .. Len(Held(p)) : Held(p)[k] \in From(plus, bytes, m - 1)
    BY <1>7 DEF Filtered
  <1> HIDE DEF p, q
  <1>10. /\ Held(p) \in Seq(Byte) /\ Held(p) \in Seq(Int) /\ Len(Held(p)) \in Nat
         /\ p.eaten \in Nat /\ Len(plus) \in Nat /\ x \in Byte
    <2>1. p.data \in Seq(Byte) /\ p.at.plus \in Seq(Byte) /\ p.eaten \in Nat
      BY <1>9, FilterFields
    <2>2. Held(p) \in Seq(Byte)
      BY <2>1, InConcat DEF Held
    <2>3. Held(p) \in Seq(Int)
      BY <2>2, WiderSeq
    <2> QED
      BY <1>1, <1>6, <2>1, <2>2, <2>3, LenProperties
  <1>11. From(plus, bytes, m - 1) \subseteq From(plus, bytes, m) /\ x \in From(plus, bytes, m)
    <2>1. 1 .. m - 1 \subseteq 1 .. m /\ m \in 1 .. m
      BY <1>6
    <2> QED
      BY <2>1 DEF From
  <1>12. \A y \in From(plus, bytes, m - 1) : y < x
    <2>1. /\ DOMAIN Ids(bytes) = 1 .. n /\ DOMAIN plus = 1 .. Len(plus)
          /\ \A k \in 1 .. n : Ids(bytes)[k] = bytes[k].id
      BY <1>1, IdsAre, Elements
    <2>2. \A k \in 1 .. Len(plus) : plus[k] < x
      BY <1>6, <2>1 DEF Below
    <2>3. ASSUME NEW j \in 1 .. m - 1 PROVE bytes[j].id < x
      <3>1. j \in 1 .. n /\ j < m
        BY <1>6
      <3> QED
        BY <1>6, <2>1, <3>1 DEF Rises
    <2> QED
      BY <2>2, <2>3 DEF From
  <1>13. /\ Len(Held(p)) \in Nat /\ p.eaten \in Nat /\ Len(plus) \in Nat /\ s.eaten \in Nat
         /\ m \in Int /\ Len(Held(p)) + p.eaten = Len(plus) + s.eaten + (m - 1)
    BY <1>1, <1>6, <1>9, <1>10
  <1>14. /\ Len(Held(p)) + (p.eaten + 1) = Len(plus) + s.eaten + m
         /\ (Len(Held(p)) + 1) + p.eaten = Len(plus) + s.eaten + m
    <2> DEFINE h == Len(Held(p))
               e == p.eaten
               l == Len(plus)
               f == s.eaten
    <2>1. h \in Nat /\ e \in Nat /\ l \in Nat /\ f \in Nat /\ m \in Int /\ h + e = l + f + (m - 1)
      BY ONLY <1>13
    <2> HIDE DEF h, e, l, f
    <2>2. h + (e + 1) = l + f + m /\ (h + 1) + e = l + f + m
      BY ONLY <2>1
    <2> QED
      BY ONLY <2>2 DEF h, e, l, f
  <1>15. CASE Held(q) = Held(p) /\ q.eaten = p.eaten + 1
    <2>1. Len(Held(q)) + q.eaten = Len(plus) + s.eaten + m
      <3>1. Len(Held(p)) + (p.eaten + 1) = Len(plus) + s.eaten + m
        BY <1>14
      <3> QED
        BY ONLY <1>15, <3>1
    <2>2. Filtered(q, s, bytes, m, Byte)
      BY <1>8, <1>9, <1>11, <1>15, <2>1 DEF Filtered
    <2> QED
      BY <1>4, <2>2 DEF q
  <1>16. CASE Held(q) = Append(Held(p), x) /\ q.eaten = p.eaten
    <2>1. /\ Len(Held(q)) = Len(Held(p)) + 1
          /\ \A k \in 1 .. Len(Held(p)) : Held(q)[k] = Held(p)[k]
          /\ Held(q)[Len(Held(p)) + 1] = x
      BY <1>10, <1>16, AppendProperties
    <2>2. Len(Held(q)) + q.eaten = Len(plus) + s.eaten + m
      <3>1. (Len(Held(p)) + 1) + p.eaten = Len(plus) + s.eaten + m
        BY <1>14
      <3> QED
        BY ONLY <1>16, <2>1, <3>1
    <2>3. \A k \in 1 .. Len(Held(q)) : Held(q)[k] \in From(plus, bytes, m)
      <3> SUFFICES ASSUME NEW k \in 1 .. Len(Held(q))
                   PROVE  Held(q)[k] \in From(plus, bytes, m)
        OBVIOUS
      <3>1. k \in 1 .. Len(Held(p)) \/ k = Len(Held(p)) + 1
        BY <1>10, <2>1
      <3> QED
        BY <1>9, <1>11, <2>1, <3>1
    <2>4. Rises(Held(q))
      <3>1. \A k \in 1 .. Len(Held(p)) : Held(p)[k] < x
        BY <1>9, <1>12
      <3>2. x \in Int
        BY <1>10
      <3> QED
        BY <1>9, <1>10, <1>16, <3>1, <3>2, RisesAppend
    <2>5. Filtered(q, s, bytes, m, Byte)
      BY <1>8, <2>2, <2>3, <2>4 DEF Filtered
    <2> QED
      BY <1>4, <2>5 DEF q
  <1> QED
    BY <1>8, <1>15, <1>16
-----------------------------------------------------------------------------
(* The line of bytes: what was last given to the link, the ring, the run   *)
(* held back, the USB driver's queue.                                      *)
Order(last, c, p, u) ==
  /\ Rises(c) /\ Rises(p) /\ Rises(u)
  /\ Below(c, p) /\ Below(c, u) /\ Below(p, u)
  /\ Below(<<last>>, c) /\ Below(<<last>>, p) /\ Below(<<last>>, u)

LEMMA LineIs ==
  ASSUME NEW last \in Int, NEW c \in Seq(Int), NEW p \in Seq(Int), NEW u \in Seq(Int)
  PROVE  /\ Rises(<<last>> \o (c \o p \o u)) <=> Order(last, c, p, u)
         /\ Len(c \o p \o u) = Len(c) + Len(p) + Len(u)
  <1>1. /\ <<last>> \in Seq(Int) /\ c \o p \in Seq(Int) /\ (c \o p) \o u \in Seq(Int)
        /\ Len(c \o p) = Len(c) + Len(p) /\ Len((c \o p) \o u) = Len(c \o p) + Len(u)
    BY InConcat, ConcatProperties
  <1>2. Rises(<<last>>)
    BY DEF Rises
  <1>3. /\ Rises(<<last>> \o (c \o p \o u))
             <=> Rises(<<last>>) /\ Rises(c \o p \o u) /\ Below(<<last>>, c \o p \o u)
        /\ Rises(c \o p \o u) <=> Rises(c \o p) /\ Rises(u) /\ Below(c \o p, u)
        /\ Rises(c \o p) <=> Rises(c) /\ Rises(p) /\ Below(c, p)
    BY <1>1, RisesConcat
  <1>4. /\ Below(<<last>>, c \o p \o u) <=> Below(<<last>>, c \o p) /\ Below(<<last>>, u)
        /\ Below(<<last>>, c \o p) <=> Below(<<last>>, c) /\ Below(<<last>>, p)
        /\ Below(c \o p, u) <=> Below(c, u) /\ Below(p, u)
    BY <1>1, BelowConcat
  <1> QED
    BY <1>1, <1>2, <1>3, <1>4 DEF Order

(* A ring that holds some of a rising line, in order, rises.               *)
LEMMA HoldsRises ==
  ASSUME NEW Byte \in SUBSET Int, NEW r \in Rings(Byte), NEW s \in Seq(Byte),
         NEW d \in Rings(Byte), NEW lo \in Nat,
         Count(d) + lo <= Count(r) + Len(s), Holds(d, r, s, lo),
         Rises(Contents(r)), Rises(s), Below(Contents(r), s)
  PROVE  /\ Rises(Contents(d))
         /\ \A k \in DOMAIN Contents(d) :
              \/ \E i \in DOMAIN Contents(r) : Contents(d)[k] = Contents(r)[i]
              \/ \E j \in DOMAIN s : Contents(d)[k] = s[j]
  <1> DEFINE c == Contents(r)
             e == Contents(d)
             m == Count(r)
             n == Len(s)
             l == Count(d)
  <1>1. /\ m \in Nat /\ n \in Nat /\ l \in Nat
        /\ DOMAIN c = 1 .. m /\ DOMAIN s = 1 .. n /\ DOMAIN e = 1 .. l
    <2>1. c \in Seq(Byte) /\ Len(c) = m /\ e \in Seq(Byte) /\ Len(e) = l
      BY RingIs
    <2> QED
      BY <2>1, Elements
  <1>2. \A k \in 1 .. l : e[k] = Joined(r, s, k + lo)
    BY DEF Holds
  <1>3. l + lo <= m + n
    OBVIOUS
  <1>4. /\ \A i, j \in 1 .. m : i < j => c[i] < c[j]
        /\ \A i, j \in 1 .. n : i < j => s[i] < s[j]
        /\ \A i \in 1 .. m, j \in 1 .. n : c[i] < s[j]
    BY <1>1 DEF Rises, Below
  <1>5. \A k \in Int : Joined(r, s, k) = IF k <= m THEN c[k] ELSE s[k - m]
    BY DEF Joined
  <1> HIDE DEF c, e, m, n, l
  <1>6. ASSUME NEW k \in 1 .. l
        PROVE  \/ k + lo \in 1 .. m /\ e[k] = c[k + lo]
               \/ ~(k + lo <= m) /\ k + lo - m \in 1 .. n /\ e[k] = s[k + lo - m]
    <2>1. k + lo \in Int /\ k + lo >= 1 /\ k + lo <= m + n
      BY <1>1, <1>3
    <2>2. e[k] = IF k + lo <= m THEN c[k + lo] ELSE s[k + lo - m]
      <3>1. Joined(r, s, k + lo) = IF k + lo <= m THEN c[k + lo] ELSE s[k + lo - m]
        <4>1. \A x \in Int : x = k + lo => Joined(r, s, x) = IF x <= m THEN c[x] ELSE s[x - m]
          BY <1>5
        <4> QED
          BY <1>1, <2>1, <4>1
      <3>2. e[k] = Joined(r, s, k + lo)
        BY <1>2
      <3> QED
        BY ONLY <3>1, <3>2
    <2>3. k + lo <= m => k + lo \in 1 .. m
      BY <1>1, <2>1
    <2>4. ~(k + lo <= m) => k + lo - m \in 1 .. n
      BY <1>1, <2>1
    <2> QED
      BY <2>2, <2>3, <2>4
  <1>7. ASSUME NEW i \in 1 .. l, NEW j \in 1 .. l, i < j PROVE e[i] < e[j]
    <2>1. /\ i + lo < j + lo /\ i + lo - m < j + lo - m
          /\ ~(i + lo <= m) => ~(j + lo <= m)
      BY <1>1, <1>7
    <2>2. CASE i + lo \in 1 .. m /\ e[i] = c[i + lo]
      <3>1. CASE j + lo \in 1 .. m /\ e[j] = c[j + lo]
        BY <1>4, <2>1, <2>2, <3>1
      <3>2. CASE j + lo - m \in 1 .. n /\ e[j] = s[j + lo - m]
        BY <1>4, <2>2, <3>2
      <3> QED
        BY <1>6, <3>1, <3>2
    <2>3. CASE ~(i + lo <= m) /\ i + lo - m \in 1 .. n /\ e[i] = s[i + lo - m]
      <3>1. j + lo - m \in 1 .. n /\ e[j] = s[j + lo - m]
        <4>1. j + lo \in 1 .. m => j + lo <= m
          OBVIOUS
        <4> QED
          BY <1>6, <2>1, <2>3, <4>1
      <3> QED
        BY <1>4, <2>1, <2>3, <3>1
    <2> QED
      BY <1>6, <2>2, <2>3
  <1>8. Rises(e)
    BY <1>1, <1>7 DEF Rises
  <1>9. \A k \in 1 .. l : (\E i \in 1 .. m : e[k] = c[i]) \/ (\E j \in 1 .. n : e[k] = s[j])
    BY <1>6
  <1> QED
    BY <1>1, <1>8, <1>9 DEF c, e

(* The same of what a push leaves.                                         *)
LEMMA PushRises ==
  ASSUME NEW Byte \in SUBSET Int, NEW r \in Rings(Byte), NEW s \in Seq(Byte),
         NEW p \in [latest : BOOLEAN, keep : Nat],
         Rises(Contents(r)), Rises(s), Below(Contents(r), s)
  PROVE  LET e == Contents(Push(r, p, s).ring)
         IN  /\ Rises(e)
             /\ \A k \in DOMAIN e : \/ \E i \in DOMAIN Contents(r) : e[k] = Contents(r)[i]
                                    \/ \E j \in DOMAIN s : e[k] = s[j]
  <1> DEFINE q == Push(r, p, s)
  <1>1. /\ q.ring \in Rings(Byte) /\ q.dropped \in Nat
        /\ Count(q.ring) + q.dropped = Count(r) + Len(s)
        /\ q.ring = r \/ Holds(q.ring, r, s, q.dropped) \/ Holds(q.ring, r, s, 0)
    BY PushIs
  <1> HIDE DEF q
  <1>2. Count(q.ring) \in Nat /\ Count(r) \in Nat /\ Len(s) \in Nat
    BY <1>1, RingIs, Elements
  <1>3. CASE q.ring = r
    BY <1>3 DEF q
  <1>4. CASE Holds(q.ring, r, s, q.dropped)
    <2>1. Count(q.ring) + q.dropped <= Count(r) + Len(s)
      BY <1>1, <1>2
    <2> QED
      BY <1>1, <1>4, <2>1, HoldsRises DEF q
  <1>5. CASE Holds(q.ring, r, s, 0)
    <2>1. Count(q.ring) + 0 <= Count(r) + Len(s) /\ 0 \in Nat
      BY <1>1, <1>2
    <2> QED
      BY <1>1, <1>5, <2>1, HoldsRises DEF q
  <1> QED
    BY <1>1, <1>3, <1>4, <1>5
-----------------------------------------------------------------------------
(* The state.                                                              *)

(* The line of bytes of a board that has types.                            *)
LEMMA LineOf ==
  ASSUME NEW n \in Nat, NEW last \in 0 .. n, NEW r \in Rings(0 .. n),
         NEW p \in Seq(1 .. n), NEW q \in Seq([c : Chars, id : 1 .. n])
  PROVE  LET w == Contents(r) \o p \o [k \in DOMAIN q |-> q[k].id]
         IN  /\ Rises(<<last>> \o w) <=> Order(last, Contents(r), p, Ids(q))
             /\ Len(w) = Count(r) + Len(p) + Len(q)
             /\ Count(r) \in Nat /\ Len(p) \in Nat /\ Len(q) \in Nat
  <1>1. 1 .. n \subseteq Int /\ 0 .. n \subseteq Int /\ last \in Int
    OBVIOUS
  <1>2. Contents(r) \in Seq(0 .. n) /\ Len(Contents(r)) = Count(r) /\ Count(r) \in Nat
    BY CapAssumption, RingIs
  <1>3. Ids(q) \in Seq(1 .. n) /\ Len(Ids(q)) = Len(q)
    BY IdsAre
  <1>4. Contents(r) \in Seq(Int) /\ p \in Seq(Int) /\ Ids(q) \in Seq(Int)
    BY <1>1, <1>2, <1>3, WiderSeq
  <1>5. Len(p) \in Nat /\ Len(q) \in Nat
    BY Elements
  <1>6. /\ Rises(<<last>> \o (Contents(r) \o p \o Ids(q)))
             <=> Order(last, Contents(r), p, Ids(q))
        /\ Len(Contents(r) \o p \o Ids(q)) = Len(Contents(r)) + Len(p) + Len(Ids(q))
    BY <1>1, <1>4, LineIs
  <1> QED
    BY <1>2, <1>3, <1>5, <1>6 DEF Ids

Counted == typed = linked.n + (Count(ring) + Len(at.plus) + Len(usb)) + idrop + eaten

InLine == Order(linked.last, Contents(ring), at.plus, Ids(usb))

LEMMA StreamIs ==
  TypeOK => (StreamKept <=> InLine /\ Counted)
  <1> SUFFICES ASSUME TypeOK PROVE StreamKept <=> InLine /\ Counted
    OBVIOUS
  <1>1. /\ typed \in Nat /\ linked.last \in 0 .. typed /\ ring \in Rings(0 .. typed)
        /\ at.plus \in Seq(1 .. typed) /\ usb \in Seq([c : Chars, id : 1 .. typed])
    BY Sizes DEF TypeOK
  <1>2. /\ Rises(<<linked.last>> \o Waiting) <=> InLine
        /\ Len(Waiting) = Count(ring) + Len(at.plus) + Len(usb)
    BY <1>1, LineOf DEF Waiting, InLine
  <1> QED
    BY <1>2 DEF StreamKept, Accounted, Counted

LEMMA StreamIsNext ==
  TypeOK' => (StreamKept' <=> InLine' /\ Counted')
  BY StreamIs, PTL
(* A read splits the driver's queue.                                       *)
LEMMA Split ==
  ASSUME NEW Byte \in SUBSET Int, NEW u \in Seq([c : Chars, id : Byte]),
         NEW m \in 0 .. Len(u), Rises(Ids(u))
  PROVE  LET head == SubSeq(u, 1, m)
             rest == SubSeq(u, m + 1, Len(u))
         IN  /\ head \in Seq([c : Chars, id : Byte]) /\ Len(head) = m
             /\ rest \in Seq([c : Chars, id : Byte]) /\ Len(rest) = Len(u) - m
             /\ Rises(Ids(head)) /\ Rises(Ids(rest))
             /\ \A k \in 1 .. m : head[k] = u[k]
             /\ \A k \in 1 .. Len(u) - m : rest[k] = u[m + k]
             /\ \A k \in 1 .. m, j \in 1 .. Len(u) - m : head[k].id < rest[j].id
  <1> DEFINE head == SubSeq(u, 1, m)
             rest == SubSeq(u, m + 1, Len(u))
             n == Len(u)
             Bytes == [c : Chars, id : Byte]
  <1>1. /\ n \in Nat /\ m \in 0 .. n /\ m \in Int /\ 1 \in Int /\ m + 1 \in Int /\ n \in Int
        /\ \A k \in 1 .. n : u[k] \in Bytes
        /\ \A k \in 1 .. m : k \in 1 .. n
        /\ \A k \in m + 1 .. n : k \in 1 .. n
    <2>1. n \in Nat /\ \A k \in 1 .. n : u[k] \in Bytes
      BY Elements
    <2>2. m \in 0 .. n
      OBVIOUS
    <2> HIDE DEF n, Bytes
    <2> QED
      BY <2>1, <2>2
  <1>2. /\ head \in Seq(Bytes) /\ Len(head) = m
        /\ \A k \in 1 .. m : head[k] = u[k]
    <2>1. /\ head \in Seq(Bytes)
          /\ Len(head) = IF 1 <= m THEN m - 1 + 1 ELSE 0
          /\ \A k \in 1 .. (m - 1 + 1) : head[k] = u[1 + k - 1]
      <3>1. \A k \in 1 .. m : u[k] \in Bytes
        BY <1>1
      <3> QED
        BY ONLY <1>1, <3>1, SubSeqProperties
    <2>2. m - 1 + 1 = m /\ \A k \in 1 .. m : 1 + k - 1 = k
      BY <1>1
    <2>3. Len(head) = m
      BY <1>1, <2>1, <2>2
    <2> QED
      BY <2>1, <2>2, <2>3
  <1>3. /\ rest \in Seq(Bytes) /\ Len(rest) = n - m
        /\ \A k \in 1 .. n - m : rest[k] = u[m + k]
    <2>1. /\ rest \in Seq(Bytes)
          /\ Len(rest) = IF m + 1 <= n THEN n - (m + 1) + 1 ELSE 0
          /\ \A k \in 1 .. (n - (m + 1) + 1) : rest[k] = u[m + 1 + k - 1]
      <3>1. \A k \in m + 1 .. n : u[k] \in Bytes
        BY <1>1
      <3> QED
        BY ONLY <1>1, <3>1, SubSeqProperties
    <2>2. n - (m + 1) + 1 = n - m /\ \A k \in 1 .. n - m : m + 1 + k - 1 = m + k
      BY <1>1
    <2>3. Len(rest) = n - m
      BY <1>1, <2>1, <2>2
    <2> QED
      BY <2>1, <2>2, <2>3
  <1>4. \A i, j \in 1 .. n : i < j => u[i].id < u[j].id
    <2>1. DOMAIN Ids(u) = 1 .. n /\ \A k \in 1 .. n : Ids(u)[k] = u[k].id
      BY IdsAre
    <2> QED
      BY ONLY <2>1, Rises(Ids(u)) DEF Rises
  <1> HIDE DEF head, rest, n
  <1>5. Rises(Ids(head))
    <2>1. DOMAIN Ids(head) = 1 .. Len(head) /\ \A k \in 1 .. Len(head) : Ids(head)[k] = head[k].id
      BY <1>2, IdsAre
    <2>2. DOMAIN Ids(head) = 1 .. m /\ \A k \in 1 .. m : Ids(head)[k] = u[k].id /\ k \in 1 .. n
      BY <1>1, <1>2, <2>1
    <2> QED
      BY <1>4, <2>2 DEF Rises
  <1>6. Rises(Ids(rest))
    <2>1. DOMAIN Ids(rest) = 1 .. Len(rest) /\ \A k \in 1 .. Len(rest) : Ids(rest)[k] = rest[k].id
      BY <1>3, IdsAre
    <2>2. /\ DOMAIN Ids(rest) = 1 .. n - m
          /\ \A k \in 1 .. n - m : Ids(rest)[k] = u[m + k].id
      BY <1>3, <2>1
    <2>3. /\ \A k \in 1 .. n - m : m + k \in 1 .. n
          /\ \A i, j \in 1 .. n - m : i < j => m + i < m + j
      BY <1>1
    <2> QED
      BY <1>4, <2>2, <2>3 DEF Rises
  <1>7. ASSUME NEW k \in 1 .. m, NEW j \in 1 .. n - m PROVE head[k].id < rest[j].id
    <2>1. k \in 1 .. n /\ m + j \in 1 .. n /\ k < m + j
      BY <1>1
    <2> QED
      BY <1>2, <1>3, <1>4, <2>1
  <1> QED
    BY <1>2, <1>3, <1>5, <1>6, <1>7 DEF head, rest, n

(* The line after a read that has gone through the filter into the ring.   *)
LEMMA ReadInLine ==
  ASSUME NEW All \in SUBSET Int, NEW Byte \in SUBSET All, NEW last \in Int,
         NEW r \in Rings(All), NEW p \in Seq(Byte), NEW u \in Seq([c : Chars, id : Byte]),
         Order(last, Contents(r), p, Ids(u)), NEW m \in 0 .. Len(u), NEW t,
         FilterOK(t, Byte), Rises(Held(t)),
         \A k \in 1 .. Len(Held(t)) : Held(t)[k] \in From(p, SubSeq(u, 1, m), m),
         NEW pol \in [latest : BOOLEAN, keep : Nat]
  PROVE  /\ Order(last, Contents(Push(r, pol, t.data).ring), t.at.plus,
                  Ids(SubSeq(u, m + 1, Len(u))))
         /\ t.data \in Seq(All) /\ Rises(t.data) /\ Below(Contents(r), t.data)
  <1> DEFINE head == SubSeq(u, 1, m)
             rest == SubSeq(u, m + 1, Len(u))
             c == Contents(r)
             e == Contents(Push(r, pol, t.data).ring)
             F == From(p, head, m)
  <1>1. Byte \in SUBSET Int
    OBVIOUS
  <1>2. /\ Rises(c) /\ Rises(p) /\ Rises(Ids(u))
        /\ Below(c, p) /\ Below(c, Ids(u)) /\ Below(p, Ids(u))
        /\ Below(<<last>>, c) /\ Below(<<last>>, p) /\ Below(<<last>>, Ids(u))
    BY DEF Order
  <1>3. /\ c \in Seq(All) /\ DOMAIN p = 1 .. Len(p) /\ Len(u) \in Nat
        /\ DOMAIN Ids(u) = 1 .. Len(u) /\ \A k \in 1 .. Len(u) : Ids(u)[k] = u[k].id
    <2>1. c \in Seq(All)
      BY RingIs
    <2>2. DOMAIN p = 1 .. Len(p) /\ Len(u) \in Nat
      BY Elements
    <2>3. /\ DOMAIN Ids(u) = 1 .. Len(u)
          /\ \A k \in 1 .. Len(u) : Ids(u)[k] = u[k].id
      BY IdsAre
    <2> QED
      BY <2>1, <2>2, <2>3
  <1>4. /\ rest \in Seq([c : Chars, id : Byte]) /\ Len(rest) = Len(u) - m
        /\ Rises(Ids(rest))
        /\ \A k \in 1 .. m : head[k] = u[k]
        /\ \A k \in 1 .. Len(u) - m : rest[k] = u[m + k]
        /\ \A k \in 1 .. m, j \in 1 .. Len(u) - m : head[k].id < rest[j].id
    BY <1>1, <1>2, Split
  <1>5. /\ DOMAIN Ids(rest) = 1 .. Len(u) - m
        /\ \A k \in 1 .. Len(u) - m :
             Ids(rest)[k] = rest[k].id /\ Ids(rest)[k] = Ids(u)[m + k] /\ m + k \in DOMAIN Ids(u)
    <2>1. \A k \in 1 .. Len(u) - m : m + k \in 1 .. Len(u)
      BY <1>3
    <2> HIDE DEF rest
    <2>2. DOMAIN Ids(rest) = 1 .. Len(rest) /\ \A k \in 1 .. Len(rest) : Ids(rest)[k] = rest[k].id
      BY <1>4, IdsAre
    <2> QED
      BY <1>3, <1>4, <2>1, <2>2
  <1>6. /\ t.data \in Seq(Byte) /\ t.at.plus \in Seq(Byte)
        /\ t.data \in Seq(All) /\ t.data \in Seq(Int) /\ t.at.plus \in Seq(Int)
    <2>1. t.data \in Seq(Byte) /\ t.at.plus \in Seq(Byte)
      BY ONLY FilterOK(t, Byte), FilterFields
    <2>2. Byte \subseteq All /\ Byte \subseteq Int
      BY <1>1
    <2>3. t.data \in Seq(All) /\ t.data \in Seq(Int)
      BY ONLY <2>1, <2>2, WiderSeq
    <2>4. t.at.plus \in Seq(Int)
      BY ONLY <2>1, <2>2, WiderSeq
    <2> QED
      BY ONLY <2>1, <2>3, <2>4
  <1>7. Rises(t.data) /\ Rises(t.at.plus) /\ Below(t.data, t.at.plus)
    BY <1>6, RisesConcat DEF Held
  <1>8. /\ DOMAIN t.data = 1 .. Len(t.data) /\ DOMAIN t.at.plus = 1 .. Len(t.at.plus)
        /\ Len(t.data) \in Nat /\ Len(t.at.plus) \in Nat
        /\ DOMAIN Held(t) = 1 .. Len(Held(t))
        /\ DOMAIN Held(t) = 1 .. Len(t.data) + Len(t.at.plus)
        /\ \A k \in 1 .. Len(t.data) : Held(t)[k] = t.data[k]
        /\ \A k \in 1 .. Len(t.at.plus) :
             Len(t.data) + k \in DOMAIN Held(t) /\ Held(t)[Len(t.data) + k] = t.at.plus[k]
    <2>1. /\ Held(t) \in Seq(Byte)
          /\ DOMAIN Held(t) = 1 .. Len(t.data) + Len(t.at.plus)
          /\ \A k \in 1 .. Len(t.data) : Held(t)[k] = t.data[k]
          /\ \A k \in 1 .. Len(t.at.plus) :
               Len(t.data) + k \in DOMAIN Held(t) /\ Held(t)[Len(t.data) + k] = t.at.plus[k]
      <3> DEFINE a == t.data
                 b == t.at.plus
      <3>1. a \in Seq(Byte) /\ b \in Seq(Byte)
        BY <1>6
      <3> HIDE DEF a, b
      <3>2. /\ a \o b \in Seq(Byte)
            /\ DOMAIN (a \o b) = 1 .. Len(a) + Len(b)
            /\ \A k \in 1 .. Len(a) : (a \o b)[k] = a[k]
            /\ \A k \in 1 .. Len(b) :
                 Len(a) + k \in DOMAIN (a \o b) /\ (a \o b)[Len(a) + k] = b[k]
        BY <3>1, InConcat
      <3> QED
        BY <3>2 DEF a, b, Held
    <2> QED
      BY <1>6, <2>1, Elements
  <1>9. \A k \in DOMAIN t.data : t.data[k] \in F
    <2>1. \A x, y \in Nat : \A k \in 1 .. x : k \in 1 .. x + y
      OBVIOUS
    <2>2. \A k \in 1 .. Len(t.data) : k \in DOMAIN Held(t)
      BY <1>8, <2>1
    <2>3. \A k \in DOMAIN Held(t) : Held(t)[k] \in F
      BY <1>8
    <2> HIDE DEF F
    <2> QED
      BY <1>8, <2>2, <2>3
  <1>10. \A k \in DOMAIN t.at.plus : t.at.plus[k] \in F
    BY <1>8
  <1>11. ASSUME NEW y \in F
         PROVE  /\ \A i \in DOMAIN c : c[i] < y
                /\ last < y
                /\ \A j \in DOMAIN Ids(rest) : y < Ids(rest)[j]
    <2>1. CASE \E k \in 1 .. Len(p) : y = p[k]
      <3>1. PICK k \in DOMAIN p : y = p[k]
        BY <1>3, <2>1
      <3>2. /\ \A i \in DOMAIN c : c[i] < p[k]
            /\ \A j \in DOMAIN Ids(u) : p[k] < Ids(u)[j]
            /\ 1 \in DOMAIN <<last>> /\ <<last>>[1] < p[k]
        BY <1>2 DEF Below
      <3> QED
        BY <1>5, <3>1, <3>2
    <2>2. CASE \E k \in 1 .. m : y = head[k].id
      <3>1. PICK k \in 1 .. m : y = head[k].id
        BY <2>2
      <3>2. k \in DOMAIN Ids(u) /\ y = Ids(u)[k]
        BY <1>3, <1>4, <3>1
      <3>3. /\ \A i \in DOMAIN c : c[i] < Ids(u)[k]
            /\ 1 \in DOMAIN <<last>> /\ <<last>>[1] < Ids(u)[k]
        BY <1>2, <3>2 DEF Below
      <3> QED
        BY <1>4, <1>5, <3>1, <3>2, <3>3
    <2> QED
      BY <2>1, <2>2 DEF From
  <1> HIDE DEF head, rest, F
  <1>12. Below(c, t.data)
    BY <1>9, <1>11 DEF Below
  <1>13. /\ Rises(e)
         /\ \A k \in DOMAIN e : \/ \E i \in DOMAIN c : e[k] = c[i]
                                \/ \E j \in DOMAIN t.data : e[k] = t.data[j]
    BY <1>1, <1>2, <1>6, <1>7, <1>12, PushRises
  <1> HIDE DEF c, e
  <1>14. Below(e, t.at.plus)
    <2>1. Below(c, t.at.plus)
      BY <1>10, <1>11 DEF Below
    <2> QED
      BY <1>7, <1>13, <2>1 DEF Below
  <1>15. Below(e, Ids(rest))
    <2>1. Below(c, Ids(rest))
      BY <1>2, <1>5 DEF Below
    <2>2. Below(t.data, Ids(rest))
      BY <1>9, <1>11 DEF Below
    <2> QED
      BY <1>13, <2>1, <2>2 DEF Below
  <1>16. Below(t.at.plus, Ids(rest))
    BY <1>10, <1>11 DEF Below
  <1>17. Below(<<last>>, e) /\ Below(<<last>>, t.at.plus) /\ Below(<<last>>, Ids(rest))
    <2>1. DOMAIN <<last>> = {1} /\ <<last>>[1] = last
      OBVIOUS
    <2>2. Below(<<last>>, t.data) /\ Below(<<last>>, t.at.plus)
      BY <1>9, <1>10, <1>11, <2>1 DEF Below
    <2>3. Below(<<last>>, e)
      BY <1>2, <1>13, <2>2 DEF Below
    <2>4. Below(<<last>>, Ids(rest))
      BY <1>2, <1>5 DEF Below
    <2> QED
      BY <2>2, <2>3, <2>4
  <1> QED
    BY <1>4, <1>6, <1>7, <1>12, <1>13, <1>14, <1>15, <1>16, <1>17 DEF Order, rest, c, e
-----------------------------------------------------------------------------
(* The actions.                                                            *)

LEMMA Typed ==
  TypeOK => /\ typed \in Nat /\ idrop \in Nat /\ eaten \in Nat /\ linked.n \in Nat
            /\ linked.last \in 0 .. typed
            /\ ring \in Rings(0 .. typed) /\ at \in Ats(1 .. typed)
            /\ at.plus \in Seq(1 .. typed) /\ Len(at.plus) \in 0 .. PLUSES
            /\ at.mode \in BOOLEAN /\ at.n \in 0 .. LINE /\ at.lead \in BOOLEAN
            /\ usb \in Seq([c : Chars, id : 1 .. typed]) /\ Len(usb) \in Nat
            /\ Count(ring) \in Nat
            /\ link \in Links /\ link.tx \in 0 .. LINK /\ link.rx \in 0 .. LINK
            /\ out \in Outs /\ out.ht \in 0 .. HOSTTX /\ out.cdc \in 0 .. CDC
            /\ sess \in Sessions
            /\ sess.was \in BOOLEAN /\ sess.sink \in BOOLEAN
            /\ sess.testing \in BOOLEAN /\ sess.feed \in 0 .. TEST
  <1> SUFFICES ASSUME TypeOK
               PROVE  /\ typed \in Nat /\ idrop \in Nat /\ eaten \in Nat /\ linked.n \in Nat
                      /\ linked.last \in 0 .. typed /\ Count(ring) \in Nat
                      /\ at.plus \in Seq(1 .. typed) /\ Len(at.plus) \in 0 .. PLUSES
                      /\ at.mode \in BOOLEAN /\ at.n \in 0 .. LINE /\ at.lead \in BOOLEAN
                      /\ Len(usb) \in Nat
                      /\ link.tx \in 0 .. LINK /\ link.rx \in 0 .. LINK
                      /\ out.ht \in 0 .. HOSTTX /\ out.cdc \in 0 .. CDC
                      /\ sess.was \in BOOLEAN /\ sess.sink \in BOOLEAN
                      /\ sess.testing \in BOOLEAN /\ sess.feed \in 0 .. TEST
    BY DEF TypeOK, Ats, Links, Outs, Sessions
  <1>1. typed \in Nat /\ idrop \in Nat /\ eaten \in Nat
    BY Sizes DEF TypeOK
  <1>2. linked.n \in Nat /\ linked.last \in 0 .. typed
    BY <1>1 DEF TypeOK
  <1>3. /\ at.plus \in Seq(1 .. typed) /\ Len(at.plus) <= PLUSES
        /\ at.mode \in BOOLEAN /\ at.n \in 0 .. LINE /\ at.lead \in BOOLEAN
    BY DEF TypeOK
  <1>4. Len(at.plus) \in 0 .. PLUSES
    <2>1. Len(at.plus) \in Nat
      BY <1>3, LenProperties
    <2> QED
      BY <1>3, <2>1, Sizes
  <1>5. Len(usb) \in Nat
    <2>1. usb \in Seq([c : Chars, id : 1 .. typed])
      BY DEF TypeOK
    <2> QED
      BY <2>1, LenProperties
  <1>6. Count(ring) \in Nat
    <2>1. ring \in Rings(0 .. typed)
      BY DEF TypeOK
    <2>2. Count(ring) \in 0 .. CAP - 1
      BY <2>1, RingIs
    <2> QED
      BY <2>2, CapAssumption
  <1>7. link.tx \in 0 .. LINK /\ link.rx \in 0 .. LINK /\ out.ht \in 0 .. HOSTTX /\ out.cdc \in 0 .. CDC
    BY DEF TypeOK
  <1>8. /\ sess.was \in BOOLEAN /\ sess.sink \in BOOLEAN
        /\ sess.testing \in BOOLEAN /\ sess.feed \in 0 .. TEST
    BY DEF TypeOK
  <1> QED
    BY <1>1, <1>2, <1>3, <1>4, <1>5, <1>6, <1>7, <1>8

(* What is in the line does not change.                                    *)
LEMMA LineAlone ==
  ASSUME StreamKept, UNCHANGED <<typed, usb, at, ring, idrop, eaten, linked>>
  PROVE  StreamKept'
  BY DEF StreamKept, Accounted, Waiting

LEMMA InitKeeps ==
  Init => TypeOK /\ StreamKept
  <1> SUFFICES ASSUME Init PROVE TypeOK /\ StreamKept
    OBVIOUS
  <1>1. /\ conn = FALSE /\ typed = 0 /\ usb = <<>> /\ poll = "idle"
        /\ at = [mode |-> FALSE, n |-> 0, plus |-> <<>>, lead |-> FALSE]
        /\ ring = [buf |-> [i \in Slots |-> 0], head |-> 0, tail |-> 0]
        /\ policy \in Policies /\ idrop = 0 /\ eaten = 0
        /\ linked = [n |-> 0, last |-> 0]
        /\ link = [tx |-> 0, rx |-> 0]
        /\ out = [ht |-> 0, cdc |-> 0]
        /\ sess = [was |-> FALSE, sink |-> FALSE, testing |-> FALSE, feed |-> 0]
    BY DEF Init
  <1>2. ring \in Rings(0 .. 0) /\ Count(ring) = 0
    <2>1. 0 \in Slots /\ 0 \in 0 .. 0
      BY CapAssumption DEF Slots
    <2>2. ring \in Rings(0 .. 0)
      BY <1>1, <2>1 DEF Rings
    <2>3. Count(ring) = IF ring.head >= ring.tail THEN ring.head - ring.tail ELSE ring.head + CAP - ring.tail
      BY <2>2, RingIs
    <2> QED
      BY <1>1, <2>2, <2>3
  <1>3. Len(<<>>) = 0 /\ \A S : <<>> \in Seq(S)
    OBVIOUS
  <1>4. TypeOK
    <2>1. 0 \in 0 .. MaxTyped /\ 0 \in 0 .. LINE /\ 0 \in 0 .. LINK /\ 0 \in 0 .. HOSTTX
          /\ 0 \in 0 .. CDC /\ 0 \in 0 .. TEST /\ 0 \in 0 .. 0 /\ 0 <= USB /\ 0 <= PLUSES
      BY Sizes
    <2>2. usb \in Seq([c : Chars, id : 1 .. typed]) /\ Len(usb) <= USB
      BY <1>1, <1>3, <2>1
    <2>3. /\ at \in [mode : BOOLEAN, n : 0 .. LINE, plus : Seq(1 .. typed), lead : BOOLEAN]
          /\ Len(at.plus) <= PLUSES
      BY <1>1, <1>3, <2>1
    <2> QED
      BY <1>1, <1>2, <2>1, <2>2, <2>3 DEF TypeOK
  <1>5. InLine
    <2>1. DOMAIN Contents(ring) = {} /\ DOMAIN at.plus = {} /\ DOMAIN Ids(usb) = {}
      <3>1. Contents(ring) \in Seq(0 .. 0) /\ Len(Contents(ring)) = 0
        BY <1>2, RingIs
      <3>2. DOMAIN Contents(ring) = 1 .. 0
        BY <3>1, Elements
      <3> QED
        BY <1>1, <3>2 DEF Ids
    <2> QED
      BY <2>1 DEF InLine, Order, Rises, Below
  <1>6. Counted
    BY <1>1, <1>2, <1>3 DEF Counted
  <1> QED
    BY <1>4, <1>5, <1>6, StreamIs

(* The terminal and the link's other side touch neither the line nor the   *)
(* filter.                                                                 *)
LEMMA AroundKeeps ==
  TypeOK /\ (OpenOrClose \/ TermReads \/ LinkTakes \/ LinkDelivers)
    => TypeOK' /\ UNCHANGED <<typed, usb, at, ring, idrop, eaten, linked>>
  <1> SUFFICES ASSUME TypeOK, OpenOrClose \/ TermReads \/ LinkTakes \/ LinkDelivers
               PROVE  TypeOK' /\ UNCHANGED <<typed, usb, at, ring, idrop, eaten, linked>>
    OBVIOUS
  <1>1. CASE OpenOrClose
    BY <1>1 DEF OpenOrClose, TypeOK
  <1>2. CASE TermReads
    <2>1. out' \in Outs
      <3>1. out \in Outs /\ 0 \in 0 .. CDC
        BY Typed, Sizes
      <3> QED
        BY <1>2, <3>1 DEF TermReads, Outs
    <2> QED
      BY <1>2, <2>1 DEF TermReads, TypeOK, Outs
  <1>3. ASSUME NEW l \in Links, LinkChange(l)
        PROVE  TypeOK' /\ UNCHANGED <<typed, usb, at, ring, idrop, eaten, linked>>
    BY <1>3 DEF LinkChange, TypeOK, Links
  <1>4. CASE LinkTakes
    <2>1. [link EXCEPT !.tx = @ - 1] \in Links
      <3>1. link \in Links /\ link.tx \in 0 .. LINK /\ link.tx > 0
        BY <1>4, Typed DEF LinkTakes
      <3>2. link.tx - 1 \in 0 .. LINK
        BY <3>1, Sizes
      <3> QED
        BY <3>1, <3>2 DEF Links
    <2> QED
      BY <1>3, <1>4, <2>1 DEF LinkTakes
  <1>5. CASE LinkDelivers
    <2>1. [link EXCEPT !.rx = @ + 1] \in Links
      <3>1. link \in Links /\ link.rx \in 0 .. LINK /\ link.rx < LINK
        BY <1>5, Typed DEF LinkDelivers
      <3>2. link.rx + 1 \in 0 .. LINK
        BY <3>1, Sizes
      <3> QED
        BY <3>1, <3>2 DEF Links
    <2> QED
      BY <1>3, <1>5, <2>1 DEF LinkDelivers
  <1> QED
    BY <1>1, <1>2, <1>4, <1>5

LEMMA DrainFits ==
  ASSUME NEW o \in Outs
  PROVE  HostTxDrain(o) \in Outs
  <1> DEFINE w == Min({o.ht, CDC - o.cdc})
  <1>1. o.ht \in 0 .. HOSTTX /\ o.cdc \in 0 .. CDC /\ o.ht \in Int /\ CDC - o.cdc \in Int
    BY Sizes DEF Outs
  <1>2. w = IF o.ht <= CDC - o.cdc THEN o.ht ELSE CDC - o.cdc
    BY ONLY <1>1, OfTwo
  <1>3. HostTxDrain(o) = IF conn THEN [ht |-> o.ht - w, cdc |-> o.cdc + w] ELSE [o EXCEPT !.ht = 0]
    BY DEF HostTxDrain
  <1> HIDE DEF w
  <1>4. o.ht - w \in 0 .. HOSTTX /\ o.cdc + w \in 0 .. CDC /\ 0 \in 0 .. HOSTTX
    BY <1>1, <1>2, Sizes
  <1> QED
    BY <1>3, <1>4 DEF Outs

(* The pump has looked at the room there is.                               *)
LEMMA PumpKeeps ==
  TypeOK /\ PumpLinkOut => TypeOK' /\ UNCHANGED <<typed, usb, at, ring, idrop, eaten, linked>>
  <1> SUFFICES ASSUME TypeOK, PumpLinkOut
               PROVE  TypeOK' /\ UNCHANGED <<typed, usb, at, ring, idrop, eaten, linked>>
    OBVIOUS
  <1>1. /\ link \in Links /\ link.rx \in 0 .. LINK /\ out \in Outs /\ out.ht \in 0 .. HOSTTX
    BY Typed
  <1> DEFINE room == HOSTTX - out.ht
             w == Pumped(out)
  <1>2. room \in Nat /\ room - MARGIN \in Int /\ link.rx \in Int
    BY <1>1, Sizes
  <1>3. w = IF room <= HEADROOM THEN 0
            ELSE IF link.rx <= room - MARGIN THEN link.rx ELSE room - MARGIN
    <2>1. Min({link.rx, room - MARGIN})
            = IF link.rx <= room - MARGIN THEN link.rx ELSE room - MARGIN
      BY ONLY <1>2, OfTwo
    <2> QED
      BY <2>1 DEF Pumped
  <1> HIDE DEF w
  <1>4. link.rx - w \in 0 .. LINK /\ out.ht + w \in 0 .. HOSTTX
    BY <1>1, <1>2, <1>3, Sizes
  <1>5. [link EXCEPT !.rx = 0] \in Links /\ [link EXCEPT !.rx = @ - w] \in Links
    BY <1>1, <1>4, Sizes DEF Links
  <1>6. [out EXCEPT !.ht = @ + w] \in Outs
    BY <1>1, <1>4 DEF Outs
  <1>7. HostTxDrain([out EXCEPT !.ht = @ + w]) \in Outs
    BY <1>6, DrainFits
  <1>8. link' \in Links /\ out' \in Outs
    BY <1>1, <1>5, <1>7 DEF PumpLinkOut, w
  <1> QED
    BY <1>8 DEF PumpLinkOut, TypeOK, Links, Outs

(* What the top of a Poll does to the line: an escape that is complete is  *)
(* taken out of it, the '+' run and nothing else.                          *)
LEMMA TopMoves ==
  ASSUME TypeOK, NEW silent \in BOOLEAN, NEW abandoned \in BOOLEAN, NEW late \in BOOLEAN,
         PollTop(silent, abandoned, late)
  PROVE  /\ at' \in Ats(1 .. typed) /\ Len(at'.plus) <= PLUSES
         /\ eaten' \in Nat /\ Len(at'.plus) + eaten' = Len(at.plus) + eaten
         /\ at'.plus = at.plus \/ at'.plus = <<>>
  <1>1. /\ at \in Ats(1 .. typed) /\ Len(at.plus) \in 0 .. PLUSES /\ at.plus \in Seq(1 .. typed)
        /\ at.mode \in BOOLEAN /\ at.n \in 0 .. LINE /\ at.lead \in BOOLEAN /\ eaten \in Nat
    BY Typed
  <1>2. /\ at' = AtTick(silent, abandoned)
        /\ eaten' = eaten + IF Escaped(silent) THEN PLUSES ELSE 0
    BY DEF PollTop
  <1>3. CASE Escaped(silent)
    <2>1. at' = [mode |-> TRUE, n |-> 0, plus |-> <<>>, lead |-> TRUE]
      BY <1>2, <1>3 DEF AtTick, Escaped
    <2>2. <<>> \in Seq(1 .. typed) /\ Len(<<>>) = 0 /\ 0 \in 0 .. LINE
      BY Sizes
    <2>3. at' \in Ats(1 .. typed) /\ at'.plus = <<>>
      BY <2>1, <2>2 DEF Ats
    <2>4. Len(at.plus) = PLUSES /\ eaten' = eaten + PLUSES
      BY <1>2, <1>3 DEF Escaped
    <2> QED
      BY <1>1, <2>2, <2>3, <2>4, Sizes
  <1>4. CASE ~Escaped(silent)
    <2>1. \/ at' = [at EXCEPT !.mode = FALSE, !.n = 0, !.lead = @ \/ silent]
          \/ at' = [at EXCEPT !.lead = @ \/ silent]
      BY <1>2, <1>4 DEF AtTick
    <2>2. at' \in Ats(1 .. typed) /\ at'.plus = at.plus
      <3>1. 0 \in 0 .. LINE
        BY Sizes
      <3>2. (at.lead \/ silent) \in BOOLEAN
        OBVIOUS
      <3> QED
        BY <1>1, <2>1, <3>1, <3>2 DEF Ats
    <2>3. eaten' = eaten
      BY <1>1, <1>2, <1>4
    <2> QED
      BY <1>1, <2>2, <2>3, Sizes
  <1> QED
    BY <1>3, <1>4

(* The speed test feeds what the link has room for.                        *)
LEMMA TestFits ==
  ASSUME TypeOK, NEW l \in Links, NEW late \in BOOLEAN
  PROVE  LET t == SpeedTest(l, late)
         IN  t.tx \in 0 .. LINK /\ t.feed \in 0 .. TEST /\ t.over \in BOOLEAN
  <1> DEFINE w == Min({sess.feed, LINK - l.tx})
  <1>1. /\ sess.feed \in 0 .. TEST /\ l.tx \in 0 .. LINK
        /\ sess.feed \in Int /\ LINK - l.tx \in Int
    BY Typed, Sizes DEF Links
  <1>2. w = IF sess.feed <= LINK - l.tx THEN sess.feed ELSE LINK - l.tx
    BY ONLY <1>1, OfTwo
  <1>3. SpeedTest(l, late) = [tx |-> l.tx + w, feed |-> sess.feed - w,
                              over |-> (sess.feed = w /\ l.tx + w = 0) \/ late]
    BY DEF SpeedTest
  <1> HIDE DEF w
  <1>4. l.tx + w \in 0 .. LINK /\ sess.feed - w \in 0 .. TEST
    BY <1>1, <1>2, Sizes
  <1>5. ((sess.feed = w /\ l.tx + w = 0) \/ late) \in BOOLEAN
    OBVIOUS
  <1> QED
    BY <1>3, <1>4, <1>5

LEMMA TopFits ==
  ASSUME TypeOK, NEW silent \in BOOLEAN, NEW abandoned \in BOOLEAN, NEW late \in BOOLEAN,
         PollTop(silent, abandoned, late)
  PROVE  link' \in Links /\ out' \in Outs /\ sess' \in Sessions
         /\ poll' \in {"idle", "keepall", "keeplatest"}
  <1> DEFINE o == HostTxDrain(IF Reconnect THEN [out EXCEPT !.ht = 0] ELSE out)
             l == IF Reconnect THEN [tx |-> 0, rx |-> 0] ELSE link
             t == SpeedTest(l, late)
             ticked == Escaped(silent) \/ (at.mode /\ abandoned)
             o2 == IF ticked THEN AtReply(o) ELSE o
  <1>1. l \in Links
    BY Typed, Sizes DEF Links
  <1>2. o \in Outs
    <2>1. out \in Outs /\ 0 \in 0 .. HOSTTX
      BY Typed, Sizes
    <2>2. [out EXCEPT !.ht = 0] \in Outs
      BY <2>1 DEF Outs
    <2> QED
      BY <2>1, <2>2, DrainFits
  <1> HIDE DEF l, o
  <1>3. o2 \in Outs /\ AtReply(o2) \in Outs
    BY <1>2, ReplyFits
  <1>4. t.tx \in 0 .. LINK /\ t.feed \in 0 .. TEST /\ t.over \in BOOLEAN
    BY <1>1, TestFits
  <1> HIDE DEF t, o2
  <1>5. /\ IF sess.testing
           THEN /\ link' = [l EXCEPT !.tx = t.tx]
                /\ out' = IF t.over THEN AtReply(o2) ELSE o2
                /\ sess' = [sess EXCEPT !.was = conn, !.testing = ~t.over,
                                        !.feed = IF t.over THEN 0 ELSE t.feed]
           ELSE link' = l /\ out' = o2 /\ sess' = [sess EXCEPT !.was = conn]
        /\ poll' = IF sess'.testing THEN "idle"
                   ELSE IF policy.latest THEN "keeplatest" ELSE "keepall"
    BY DEF PollTop, l, o, t, o2
  <1>6. link' \in Links
    BY <1>1, <1>4, <1>5 DEF Links
  <1>7. out' \in Outs
    BY <1>3, <1>5
  <1>8. sess' \in Sessions
    <2>1. sess \in Sessions /\ conn \in BOOLEAN /\ 0 \in 0 .. TEST
      BY Typed, Sizes DEF TypeOK
    <2>2. (~t.over) \in BOOLEAN /\ (IF t.over THEN 0 ELSE t.feed) \in 0 .. TEST
      BY <1>4, <2>1
    <2> QED
      BY <1>5, <2>1, <2>2 DEF Sessions
  <1> QED
    BY <1>5, <1>6, <1>7, <1>8

(* Every byte of a line is one of the typed ones.                          *)
LEMMA Within ==
  ASSUME NEW n \in Nat, NEW a \in Nat, NEW b \in Nat, NEW c \in Nat, NEW d \in Nat,
         n = a + b + c + d
  PROVE  a \in 0 .. n /\ c \in 0 .. n /\ d \in 0 .. n
  OBVIOUS

LEMMA TopKeeps ==
  ASSUME TypeOK, StreamKept, NEW silent \in BOOLEAN, NEW abandoned \in BOOLEAN,
         NEW late \in BOOLEAN, PollTop(silent, abandoned, late)
  PROVE  TypeOK' /\ StreamKept'
  <1>1. /\ at' \in Ats(1 .. typed) /\ Len(at'.plus) <= PLUSES
        /\ eaten' \in Nat /\ Len(at'.plus) + eaten' = Len(at.plus) + eaten
        /\ at'.plus = at.plus \/ at'.plus = <<>>
    BY TopMoves
  <1>2. /\ link' \in Links /\ out' \in Outs /\ sess' \in Sessions
        /\ poll' \in {"idle", "keepall", "keeplatest"}
    BY TopFits
  <1>3. UNCHANGED <<conn, typed, usb, ring, policy, idrop, linked>>
    BY DEF PollTop
  <1>4. InLine /\ Counted
    BY StreamIs
  <1>5. /\ typed \in Nat /\ idrop \in Nat /\ eaten \in Nat /\ linked.n \in Nat
        /\ Count(ring) \in Nat /\ Len(usb) \in Nat /\ Len(at.plus) \in Nat /\ Len(at'.plus) \in Nat
    <2>1. at'.plus \in Seq(1 .. typed)
      BY <1>1 DEF Ats
    <2>2. Len(at'.plus) \in Nat
      BY <2>1, LenProperties
    <2>3. Len(at.plus) \in Nat
      BY Typed, LenProperties
    <2> QED
      BY <2>2, <2>3, Typed
  <1>6. typed = linked.n + (Count(ring) + Len(at'.plus) + Len(usb)) + idrop + eaten'
    <2> DEFINE n == typed
               a == linked.n
               b == Count(ring)
               c == Len(at.plus)
               d == Len(usb)
               i == idrop
               e == eaten
               f == Len(at'.plus)
               g == eaten'
    <2>1. /\ n \in Nat /\ a \in Nat /\ b \in Nat /\ c \in Nat /\ d \in Nat /\ i \in Nat
          /\ e \in Nat /\ f \in Nat /\ g \in Nat
          /\ n = a + (b + c + d) + i + e /\ f + g = c + e
      BY <1>1, <1>4, <1>5 DEF Counted
    <2> HIDE DEF n, a, b, c, d, i, e, f, g
    <2>2. n = a + (b + f + d) + i + g
      BY ONLY <2>1
    <2> QED
      BY ONLY <2>2 DEF n, a, b, d, i, f, g
  <1>7. eaten' \in 0 .. typed
    <2>1. Count(ring) + Len(at'.plus) + Len(usb) \in Nat
      BY <1>5
    <2> QED
      BY <1>1, <1>5, <1>6, <2>1, Within
  <1>8. TypeOK'
    BY <1>1, <1>2, <1>3, <1>7 DEF TypeOK, Ats, Links, Outs, Sessions
  <1>9. Counted'
    BY <1>3, <1>6 DEF Counted
  <1>10. InLine'
    <2>1. CASE at'.plus = at.plus
      BY <1>3, <1>4, <2>1 DEF InLine, Ids
    <2>2. CASE at'.plus = <<>>
      <3>1. DOMAIN at'.plus = {}
        BY <2>2
      <3> QED
        BY <1>3, <1>4, <3>1 DEF InLine, Order, Rises, Below, Ids
    <2> QED
      BY <1>1, <2>1, <2>2
  <1> QED
    BY <1>8, <1>9, <1>10, StreamIsNext

(* A byte more at the end of the line.                                     *)
LEMMA TypedInLine ==
  ASSUME NEW n \in Nat, NEW last \in 0 .. n, NEW r \in Rings(0 .. n),
         NEW p \in Seq(1 .. n), NEW u \in Seq([c : Chars, id : 1 .. n]),
         Order(last, Contents(r), p, Ids(u)), NEW b \in [c : Chars, id : {n + 1}]
  PROVE  Order(last, Contents(r), p, Ids(Append(u, b)))
  <1> DEFINE c == Contents(r)
             v == Append(u, b)
             x == n + 1
  <1>1. /\ Rises(c) /\ Rises(p) /\ Rises(Ids(u))
        /\ Below(c, p) /\ Below(c, Ids(u)) /\ Below(p, Ids(u))
        /\ Below(<<last>>, c) /\ Below(<<last>>, p) /\ Below(<<last>>, Ids(u))
    BY DEF Order
  <1>2. /\ Len(u) \in Nat /\ DOMAIN u = 1 .. Len(u)
        /\ \A k \in 1 .. Len(u) : u[k] \in [c : Chars, id : 1 .. n]
    BY Elements
  <1>3. /\ Len(v) = Len(u) + 1 /\ DOMAIN v = 1 .. Len(u) + 1
        /\ \A k \in 1 .. Len(u) : v[k] = u[k]
        /\ v[Len(u) + 1] = b
    <2>1. /\ Len(v) = Len(u) + 1 /\ v[Len(u) + 1] = b
          /\ v \in Seq([c : Chars, id : 1 .. n] \union {b})
          /\ \A k \in 1 .. Len(u) : v[k] = u[k]
      <3>1. u \in Seq([c : Chars, id : 1 .. n] \union {b}) /\ b \in [c : Chars, id : 1 .. n] \union {b}
        BY WiderSeq
      <3> QED
        BY <3>1, AppendProperties
    <2> QED
      BY <2>1, LenProperties
  <1> HIDE DEF v
  <1>4. /\ DOMAIN Ids(v) = 1 .. Len(u) + 1 /\ DOMAIN Ids(u) = 1 .. Len(u)
        /\ \A k \in 1 .. Len(u) : Ids(v)[k] = Ids(u)[k] /\ Ids(u)[k] \in 1 .. n
        /\ Ids(v)[Len(u) + 1] = x
    <2>1. /\ 1 .. Len(u) \subseteq 1 .. Len(u) + 1 /\ Len(u) + 1 \in 1 .. Len(u) + 1
          /\ b.id = x
      BY <1>2
    <2> QED
      BY <1>2, <1>3, <2>1 DEF Ids
  <1>5. ASSUME NEW k \in 1 .. Len(u) + 1
        PROVE  k \in 1 .. Len(u) \/ k = Len(u) + 1
    BY <1>2
  <1>6. Rises(Ids(v))
    <2> SUFFICES ASSUME NEW i \in 1 .. Len(u) + 1, NEW j \in 1 .. Len(u) + 1, i < j
                 PROVE  Ids(v)[i] < Ids(v)[j]
      BY <1>4 DEF Rises
    <2>1. i \in 1 .. Len(u)
      BY <1>2
    <2>2. CASE j \in 1 .. Len(u)
      BY <1>1, <1>4, <2>1, <2>2 DEF Rises
    <2>3. CASE j = Len(u) + 1
      <3>1. Ids(v)[i] \in 1 .. n /\ Ids(v)[j] = x
        BY <1>4, <2>1, <2>3
      <3> QED
        BY <3>1
    <2> QED
      BY <1>5, <2>2, <2>3
  <1>7. ASSUME NEW s, Below(s, Ids(u)), \A i \in DOMAIN s : s[i] \in 0 .. n
        PROVE  Below(s, Ids(v))
    <2> SUFFICES ASSUME NEW i \in DOMAIN s, NEW j \in 1 .. Len(u) + 1
                 PROVE  s[i] < Ids(v)[j]
      BY <1>4 DEF Below
    <2>1. CASE j \in 1 .. Len(u)
      BY <1>4, <1>7, <2>1 DEF Below
    <2>2. CASE j = Len(u) + 1
      <3>1. s[i] \in 0 .. n /\ Ids(v)[j] = x
        BY <1>4, <1>7, <2>2
      <3> QED
        BY <3>1
    <2> QED
      BY <1>5, <2>1, <2>2
  <1>8. \A i \in DOMAIN c : c[i] \in 0 .. n
    <2>1. c \in Seq(0 .. n)
      BY RingIs
    <2> HIDE DEF c
    <2> QED
      BY <2>1, Elements
  <1>9. \A i \in DOMAIN p : p[i] \in 0 .. n
    <2>1. \A i \in DOMAIN p : p[i] \in 1 .. n
      BY Elements
    <2> QED
      BY <2>1
  <1>10. \A i \in DOMAIN <<last>> : <<last>>[i] \in 0 .. n
    OBVIOUS
  <1>11. Below(c, Ids(v)) /\ Below(p, Ids(v)) /\ Below(<<last>>, Ids(v))
    BY <1>1, <1>7, <1>8, <1>9, <1>10
  <1> QED
    BY <1>1, <1>6, <1>11 DEF Order, v

LEMMA TypeKeeps ==
  ASSUME TypeOK, StreamKept, Type
  PROVE  TypeOK' /\ StreamKept'
  <1>1. PICK b \in [c : Chars, id : {typed + 1}] : usb' = Append(usb, b)
    BY DEF Type
  <1>2. /\ typed \in Nat /\ typed' = typed + 1 /\ typed' \in 0 .. MaxTyped /\ Len(usb) + 1 <= USB
        /\ UNCHANGED <<conn, poll, at, ring, policy, idrop, eaten, linked, link, out, sess>>
    <2>1. /\ typed < MaxTyped /\ Len(usb) < USB /\ typed' = typed + 1
          /\ UNCHANGED <<conn, poll, at, ring, policy, idrop, eaten, linked, link, out, sess>>
      BY DEF Type
    <2>2. typed \in Nat /\ Len(usb) \in Nat
      BY Typed
    <2> HIDE DEF Type
    <2> QED
      BY <2>1, <2>2, Sizes
  <1>3. /\ typed \in Nat /\ idrop \in Nat /\ eaten \in Nat /\ linked.n \in Nat
        /\ linked.last \in 0 .. typed /\ Count(ring) \in Nat /\ Len(usb) \in Nat
        /\ ring \in Rings(0 .. typed) /\ at.plus \in Seq(1 .. typed)
        /\ usb \in Seq([c : Chars, id : 1 .. typed]) /\ Len(at.plus) \in Nat
    BY Typed, LenProperties
  <1>4. InLine /\ Counted
    BY StreamIs
  <1>5. 0 .. typed \subseteq 0 .. typed' /\ 1 .. typed \subseteq 1 .. typed' /\ typed + 1 \in 1 .. typed'
    BY <1>2
  <1>6. usb' \in Seq([c : Chars, id : 1 .. typed']) /\ Len(usb') = Len(usb) + 1
    <2>1. [c : Chars, id : 1 .. typed] \subseteq [c : Chars, id : 1 .. typed']
          /\ b \in [c : Chars, id : 1 .. typed']
      BY <1>5
    <2>2. usb \in Seq([c : Chars, id : 1 .. typed'])
      BY ONLY <1>3, <2>1, WiderSeq
    <2> QED
      BY <1>1, <2>1, <2>2, AppendProperties
  <1>7. TypeOK'
    <2>1. at.plus \in Seq(1 .. typed')
      BY <1>3, <1>5, WiderSeq
    <2>2. at' \in [mode : BOOLEAN, n : 0 .. LINE, plus : Seq(1 .. typed'), lead : BOOLEAN]
          /\ Len(at'.plus) <= PLUSES
      BY <1>2, <2>1 DEF TypeOK
    <2>3. ring' \in Rings(0 .. typed')
      BY <1>2, <1>3, <1>5 DEF Rings
    <2>4. idrop' \in 0 .. typed' /\ eaten' \in 0 .. typed'
          /\ linked' \in [n : 0 .. typed', last : 0 .. typed']
      BY <1>2, <1>5 DEF TypeOK
    <2>5. Len(usb') <= USB
      BY <1>2, <1>6
    <2> QED
      BY <1>2, <1>6, <2>2, <2>3, <2>4, <2>5 DEF TypeOK
  <1>8. Counted'
    <2>1. typed = linked.n + (Count(ring) + Len(at.plus) + Len(usb)) + idrop + eaten
      BY <1>4 DEF Counted
    <2>2. typed + 1 = linked.n + (Count(ring) + Len(at.plus) + (Len(usb) + 1)) + idrop + eaten
      <3> DEFINE a == linked.n
                 b1 == Count(ring)
                 c1 == Len(at.plus)
                 d1 == Len(usb)
      <3>1. /\ a \in Nat /\ b1 \in Nat /\ c1 \in Nat /\ d1 \in Nat
            /\ typed \in Nat /\ idrop \in Nat /\ eaten \in Nat
            /\ typed = a + (b1 + c1 + d1) + idrop + eaten
        BY <1>3, <2>1
      <3> HIDE DEF a, b1, c1, d1
      <3>2. typed + 1 = a + (b1 + c1 + (d1 + 1)) + idrop + eaten
        BY ONLY <3>1
      <3> QED
        BY ONLY <3>2 DEF a, b1, c1, d1
    <2> QED
      BY <1>2, <1>6, <2>2 DEF Counted
  <1>9. InLine'
    <2>1. Order(linked.last, Contents(ring), at.plus, Ids(Append(usb, b)))
      BY <1>3, <1>4, TypedInLine DEF InLine
    <2> QED
      BY <1>1, <1>2, <2>1 DEF InLine, Ids
  <1> QED
    BY <1>7, <1>8, <1>9, StreamIsNext

(* The line when the link has taken the oldest bytes of the ring.          *)
LEMMA TakenInLine ==
  ASSUME NEW n \in Nat, NEW last \in 0 .. n, NEW r \in Rings(0 .. n),
         NEW p \in Seq(Int), NEW u \in Seq(Int),
         Order(last, Contents(r), p, u), NEW k \in 1 .. Count(r)
  PROVE  /\ Contents(r)[k] \in 0 .. n
         /\ Order(Contents(r)[k], Contents(Drop(r, k)), p, u)
  <1> DEFINE c == Contents(r)
             d == Contents(Drop(r, k))
             m == Count(r)
  <1>1. /\ m \in Nat /\ c \in Seq(0 .. n) /\ DOMAIN c = 1 .. m /\ k \in 1 .. m
        /\ \A i \in 1 .. m : c[i] \in 0 .. n
    <2>1. /\ c \in Seq(0 .. n) /\ Len(c) = m /\ m \in 0 .. CAP - 1
      BY RingIs
    <2>2. DOMAIN c = 1 .. Len(c) /\ \A i \in 1 .. Len(c) : c[i] \in 0 .. n
      BY <2>1, Elements
    <2> QED
      BY <2>1, <2>2, CapAssumption
  <1>2. DOMAIN d = 1 .. m - k /\ \A i \in 1 .. m - k : d[i] = c[i + k]
    <2>1. k \in 0 .. Count(r)
      BY <1>1
    <2>2. /\ Drop(r, k) \in Rings(0 .. n) /\ Count(Drop(r, k)) = m - k
          /\ \A i \in 1 .. m - k : d[i] = c[i + k]
      BY <2>1, DropIs
    <2>3. d \in Seq(0 .. n) /\ Len(d) = m - k
      BY <2>2, RingIs
    <2> QED
      BY <2>2, <2>3, Elements
  <1>3. /\ Rises(c) /\ Rises(p) /\ Rises(u)
        /\ Below(c, p) /\ Below(c, u) /\ Below(p, u)
    BY DEF Order
  <1> HIDE DEF c, d, m
  <1>4. \A i \in 1 .. m - k : i + k \in 1 .. m /\ k < i + k
    BY <1>1
  <1>5. \A i, j \in 1 .. m : i < j => c[i] < c[j]
    BY <1>1, <1>3 DEF Rises
  <1>6. Rises(d)
    <2>1. \A i, j \in 1 .. m - k : i < j => i + k < j + k
      BY <1>1
    <2> QED
      BY <1>2, <1>4, <1>5, <2>1 DEF Rises
  <1>7. Below(d, p) /\ Below(d, u)
    BY <1>1, <1>2, <1>3, <1>4 DEF Below
  <1>8. Below(<<c[k]>>, d)
    <2>1. DOMAIN <<c[k]>> = {1} /\ <<c[k]>>[1] = c[k]
      OBVIOUS
    <2> QED
      BY <1>1, <1>2, <1>4, <1>5, <2>1 DEF Below
  <1>9. Below(<<c[k]>>, p) /\ Below(<<c[k]>>, u)
    <2>1. DOMAIN <<c[k]>> = {1} /\ <<c[k]>>[1] = c[k]
      OBVIOUS
    <2> QED
      BY <1>1, <1>3, <2>1 DEF Below
  <1> QED
    BY <1>1, <1>3, <1>6, <1>7, <1>8, <1>9 DEF Order, c, d

(* The link never takes more than it has room for, and its bytes come off  *)
(* the front of the line.                                                  *)
LEMMA TailKeeps ==
  ASSUME TypeOK, StreamKept, PollTail
  PROVE  TypeOK' /\ StreamKept'
  <1>1. /\ typed \in Nat /\ idrop \in Nat /\ eaten \in Nat /\ linked.n \in Nat
        /\ linked.last \in 0 .. typed /\ Count(ring) \in Nat /\ Len(usb) \in Nat
        /\ ring \in Rings(0 .. typed) /\ at.plus \in Seq(1 .. typed)
        /\ usb \in Seq([c : Chars, id : 1 .. typed]) /\ Len(at.plus) \in Nat
        /\ link \in Links /\ link.tx \in 0 .. LINK
    BY Typed, LenProperties
  <1>2. InLine /\ Counted
    BY StreamIs
  <1> DEFINE w == Taken
  <1>3. w \in 0 .. Count(ring) /\ link.tx + w \in 0 .. LINK
    <2>1. Count(ring) \in Int /\ LINK - link.tx \in Int
      BY <1>1, Sizes
    <2>2. w = IF Count(ring) <= LINK - link.tx THEN Count(ring) ELSE LINK - link.tx
      BY ONLY <2>1, OfTwo DEF Taken
    <2> HIDE DEF w
    <2>3. link.tx \in Nat /\ link.tx <= LINK /\ LINK \in Nat /\ Count(ring) \in Nat
      BY <1>1, Sizes
    <2> QED
      BY ONLY <2>2, <2>3
  <1> HIDE DEF w
  <1>4. /\ ring' = Drop(ring, w) /\ poll' = "idle" /\ link' = [link EXCEPT !.tx = @ + w]
        /\ linked' = IF w = 0 THEN linked ELSE [n |-> linked.n + w, last |-> Contents(ring)[w]]
        /\ UNCHANGED <<conn, typed, usb, at, policy, idrop, eaten, out, sess>>
    BY DEF PollTail, w
  <1>5. ring' \in Rings(0 .. typed) /\ Count(ring') = Count(ring) - w
    BY <1>1, <1>3, <1>4, DropIs
  <1>6. /\ linked'.n = linked.n + w /\ linked'.last \in 0 .. typed
        /\ linked' = [n |-> linked'.n, last |-> linked'.last]
        /\ InLine'
    <2>1. CASE w = 0
      <3>1. linked' = linked /\ linked.n + w = linked.n
        BY <1>1, <1>4, <2>1
      <3>2. Contents(ring') = Contents(ring)
        <4>1. ring.tail \in 0 .. CAP - 1 /\ ring.tail + 0 = ring.tail /\ ring.tail \in 0 .. 2 * CAP - 1
              /\ ring.tail < CAP
          <5>1. ring.tail \in 0 .. CAP - 1 /\ CAP \in Nat
            BY <1>1, CapAssumption DEF Rings, Slots
          <5> QED
            BY ONLY <5>1
        <4>2. ring.tail % CAP = ring.tail
          BY <4>1, Around
        <4>3. Drop(ring, 0) = [ring EXCEPT !.tail = ring.tail]
          BY <4>1, <4>2 DEF Drop
        <4>4. ring' = ring
          BY <1>1, <1>4, <2>1, <4>3 DEF Rings
        <4> QED
          BY <4>4
      <3>3. linked = [n |-> linked.n, last |-> linked.last]
        BY DEF TypeOK
      <3> QED
        BY <1>1, <1>2, <1>4, <3>1, <3>2, <3>3 DEF InLine, Ids
    <2>2. CASE w # 0
      <3>1. w \in 1 .. Count(ring)
        BY <1>1, <1>3, <2>2
      <3>2. linked' = [n |-> linked.n + w, last |-> Contents(ring)[w]]
        BY <1>4, <2>2
      <3>3. at.plus \in Seq(Int) /\ Ids(usb) \in Seq(Int)
        <4>1. \A Byte : usb \in Seq([c : Chars, id : Byte]) => Ids(usb) \in Seq(Byte)
          BY IdsAre
        <4>2. 1 .. typed \subseteq Int
          BY ONLY <1>1
        <4>3. Ids(usb) \in Seq(1 .. typed)
          BY ONLY <1>1, <4>1
        <4> QED
          BY ONLY <1>1, <4>2, <4>3, WiderSeq
      <3>4. /\ Contents(ring)[w] \in 0 .. typed
            /\ Order(Contents(ring)[w], Contents(Drop(ring, w)), at.plus, Ids(usb))
        BY <1>1, <1>2, <3>1, <3>3, TakenInLine DEF InLine
      <3> QED
        BY <1>4, <3>2, <3>4 DEF InLine, Ids
    <2> QED
      BY <2>1, <2>2
  <1>7. typed = linked'.n + (Count(ring') + Len(at.plus) + Len(usb)) + idrop + eaten
    <2> DEFINE a == linked.n
               b == Count(ring)
               c == Len(at.plus)
               d == Len(usb)
    <2>1. /\ a \in Nat /\ b \in Nat /\ c \in Nat /\ d \in Nat /\ w \in 0 .. b
          /\ typed \in Nat /\ idrop \in Nat /\ eaten \in Nat
          /\ typed = a + (b + c + d) + idrop + eaten
      BY <1>1, <1>2, <1>3 DEF Counted
    <2>2. linked'.n = a + w /\ Count(ring') = b - w
      BY <1>5, <1>6
    <2> HIDE DEF a, b, c, d
    <2>3. typed = (a + w) + ((b - w) + c + d) + idrop + eaten
      BY ONLY <2>1
    <2> QED
      BY ONLY <2>2, <2>3 DEF c, d
  <1>8. Counted'
    BY <1>4, <1>7 DEF Counted
  <1>9. linked'.n \in 0 .. typed
    <2>1. linked'.n \in Nat /\ Count(ring') + Len(at.plus) + Len(usb) \in Nat
      <3>1. w \in Int /\ w >= 0 /\ Count(ring) - w \in Nat
        BY <1>1, <1>3
      <3>2. linked'.n \in Nat /\ Count(ring') \in Nat
        <4>1. linked'.n = linked.n + w /\ linked.n \in Nat /\ w \in Nat
          BY <1>1, <1>6, <3>1
        <4> QED
          BY ONLY <1>5, <3>1, <4>1
      <3>3. Count(ring') + Len(at.plus) + Len(usb) \in Nat
        BY ONLY <1>1, <3>2
      <3> QED
        BY <3>2, <3>3
    <2> QED
      BY <1>1, <1>7, <2>1, Within
  <1>10. TypeOK'
    <2>1. link' \in Links
      BY <1>1, <1>3, <1>4 DEF Links
    <2>2. linked' \in [n : 0 .. typed, last : 0 .. typed]
      BY <1>6, <1>9
    <2> QED
      BY <1>4, <1>5, <2>1, <2>2 DEF TypeOK, Links
  <1> QED
    BY <1>6, <1>8, <1>10, StreamIsNext

(* A read: what the filter keeps of it goes into the ring, and what it or  *)
(* the ring does not keep is counted.                                      *)
LEMMA ReadSize ==
  ASSUME TypeOK, usb # <<>>
  PROVE  Min({BULK, Len(usb)}) \in 0 .. Len(usb)
  <1>1. Len(usb) \in Nat /\ Len(usb) \in Int /\ BULK \in Int /\ BULK \in Nat
    BY Typed, Sizes
  <1>2. Min({BULK, Len(usb)}) = IF BULK <= Len(usb) THEN BULK ELSE Len(usb)
    BY ONLY <1>1, OfTwo
  <1> QED
    BY <1>1, <1>2

LEMMA FilteringOK ==
  TypeOK => /\ FilterOK(Filtering, 1 .. typed) /\ Filtering.data = <<>>
            /\ Filtering.at = at /\ Filtering.eaten = eaten
  <1> SUFFICES ASSUME TypeOK PROVE FilterOK(Filtering, 1 .. typed)
    BY DEF Filtering
  <1>1. /\ at \in Ats(1 .. typed) /\ out \in Outs /\ sess \in Sessions /\ link \in Links
        /\ eaten \in Nat
    BY Typed
  <1>2. policy \in Policies /\ Len(at.plus) <= PLUSES /\ <<>> \in Seq(1 .. typed)
    BY DEF TypeOK
  <1> QED
    BY <1>1, <1>2 DEF FilterOK, Filters, Filtering

(* What t, the filter after a read, has passed on and what becomes of it.  *)
Passed(t) ==
  LET n == Min({BULK, Len(usb)})
  IN  /\ FilterOK(t, 1 .. typed) /\ Rises(Held(t))
      /\ Len(Held(t)) + t.eaten = Len(at.plus) + eaten + n
      /\ \A k \in 1 .. Len(Held(t)) : Held(t)[k] \in From(at.plus, SubSeq(usb, 1, n), n)
      /\ at' = t.at /\ out' = t.out /\ sess' = t.sess /\ link' = t.link
      /\ policy' = t.policy /\ eaten' = t.eaten
      /\ ring' = Push(ring, t.policy, t.data).ring
      /\ idrop' = idrop + Push(ring, t.policy, t.data).dropped

LEMMA ReadPasses ==
  ASSUME TypeOK, StreamKept, PollRead
  PROVE  \E t : Passed(t)
  <1> DEFINE n == Min({BULK, Len(usb)})
             head == SubSeq(usb, 1, n)
             rest == SubSeq(usb, n + 1, Len(usb))
             Byte == 1 .. typed
             All == 0 .. typed
  <1>1. /\ typed \in Nat /\ idrop \in Nat /\ eaten \in Nat /\ linked.n \in Nat
        /\ linked.last \in All /\ Count(ring) \in Nat /\ Len(usb) \in Nat
        /\ ring \in Rings(All) /\ at.plus \in Seq(Byte)
        /\ usb \in Seq([c : Chars, id : Byte]) /\ Len(at.plus) \in Nat
    BY Typed, LenProperties
  <1>2. InLine /\ Counted
    BY StreamIs
  <1>3. n \in 0 .. Len(usb)
    BY ReadSize DEF PollRead, MayRead
  <1>4. PICK cmd \in Lines :
          LET s == AtFilter(Filtering, head, cmd)
              pushed == Push(ring, s.policy, s.data)
          IN /\ at' = s.at /\ out' = s.out /\ sess' = s.sess /\ link' = s.link
             /\ policy' = s.policy /\ eaten' = s.eaten
             /\ ring' = pushed.ring /\ idrop' = idrop + pushed.dropped
    BY DEF PollRead, Lines
  <1>5. usb' = rest /\ UNCHANGED <<conn, typed, poll, linked>>
    BY DEF PollRead
  <1> DEFINE t == AtFilter(Filtering, head, cmd)
             q == Push(ring, t.policy, t.data)
  <1>6. /\ Byte \in SUBSET Int /\ All \in SUBSET Int /\ Byte \in SUBSET All
        /\ linked.last \in Int
    BY <1>1
  <1> HIDE DEF n, Byte, All
  <1>7. /\ Rises(at.plus) /\ Rises(Ids(usb)) /\ Below(at.plus, Ids(usb))
    BY <1>2 DEF InLine, Order
  <1>8. /\ head \in Seq([c : Chars, id : Byte]) /\ Len(head) = n
        /\ rest \in Seq([c : Chars, id : Byte]) /\ Len(rest) = Len(usb) - n
        /\ Rises(Ids(head)) /\ Below(at.plus, Ids(head))
    <2>1. /\ head \in Seq([c : Chars, id : Byte]) /\ Len(head) = n
          /\ rest \in Seq([c : Chars, id : Byte]) /\ Len(rest) = Len(usb) - n
          /\ Rises(Ids(head))
          /\ \A k \in 1 .. n : head[k] = usb[k]
      <3> DEFINE u == usb
      <3>1. Byte \in SUBSET Int /\ u \in Seq([c : Chars, id : Byte]) /\ n \in 0 .. Len(u) /\ Rises(Ids(u))
        BY <1>1, <1>3, <1>6, <1>7
      <3> HIDE DEF u
      <3>2. /\ SubSeq(u, 1, n) \in Seq([c : Chars, id : Byte]) /\ Len(SubSeq(u, 1, n)) = n
            /\ SubSeq(u, n + 1, Len(u)) \in Seq([c : Chars, id : Byte])
            /\ Len(SubSeq(u, n + 1, Len(u))) = Len(u) - n
            /\ Rises(Ids(SubSeq(u, 1, n)))
            /\ \A k \in 1 .. n : SubSeq(u, 1, n)[k] = u[k]
        BY ONLY <3>1, Split
      <3> QED
        BY <3>2 DEF u
    <2> HIDE DEF head
    <2>2. /\ DOMAIN Ids(head) = 1 .. n
          /\ \A k \in 1 .. n : Ids(head)[k] = head[k].id
      BY <2>1, IdsAre
    <2>3. /\ DOMAIN Ids(usb) = 1 .. Len(usb)
          /\ \A k \in 1 .. Len(usb) : Ids(usb)[k] = usb[k].id
      BY <1>1, IdsAre
    <2>4. \A k \in 1 .. n : k \in 1 .. Len(usb)
      BY <1>1, <1>3
    <2>5. Below(at.plus, Ids(head))
      BY <1>7, <2>1, <2>2, <2>3, <2>4 DEF Below
    <2> QED
      BY <2>1, <2>5
  <1>9. /\ FilterOK(t, Byte) /\ Rises(Held(t))
        /\ Len(Held(t)) + t.eaten = Len(at.plus) + eaten + n
        /\ \A k \in 1 .. Len(Held(t)) : Held(t)[k] \in From(at.plus, head, n)
    <2>1. /\ FilterOK(Filtering, Byte) /\ Filtering.data = <<>>
          /\ Filtering.at = at /\ Filtering.eaten = eaten
      BY FilteringOK DEF Byte
    <2> HIDE DEF head
    <2>2. Filtered(t, Filtering, head, Len(head), Byte)
      BY <1>6, <1>7, <1>8, <2>1, FilterIs
    <2>3. Filtered(t, Filtering, head, n, Byte)
      BY <1>8, <2>2
    <2> HIDE DEF t
    <2> QED
      BY <2>1, <2>3 DEF Filtered
  <1>10. /\ at' = t.at /\ out' = t.out /\ sess' = t.sess /\ link' = t.link
         /\ policy' = t.policy /\ eaten' = t.eaten
         /\ ring' = q.ring /\ idrop' = idrop + q.dropped
    BY <1>4
  <1> HIDE DEF t
  <1> QED
    BY <1>9, <1>10 DEF Passed, head, n, Byte, q

LEMMA ReadKeeps ==
  ASSUME TypeOK, StreamKept, PollRead
  PROVE  TypeOK' /\ StreamKept'
  <1> DEFINE n == Min({BULK, Len(usb)})
             head == SubSeq(usb, 1, n)
             rest == SubSeq(usb, n + 1, Len(usb))
             Byte == 1 .. typed
             All == 0 .. typed
  <1>1. /\ typed \in Nat /\ idrop \in Nat /\ eaten \in Nat /\ linked.n \in Nat
        /\ linked.last \in All /\ Count(ring) \in Nat /\ Len(usb) \in Nat
        /\ ring \in Rings(All) /\ at.plus \in Seq(Byte)
        /\ usb \in Seq([c : Chars, id : Byte]) /\ Len(at.plus) \in Nat
    BY Typed, LenProperties
  <1>2. InLine /\ Counted
    BY StreamIs
  <1>3. n \in 0 .. Len(usb)
    BY ReadSize DEF PollRead, MayRead
  <1>4. usb' = rest /\ UNCHANGED <<conn, typed, poll, linked>>
    BY DEF PollRead
  <1>5. /\ Byte \in SUBSET Int /\ All \in SUBSET Int /\ Byte \in SUBSET All
        /\ linked.last \in Int
    BY <1>1
  <1> HIDE DEF n, Byte, All
  <1>6. Rises(Ids(usb))
    BY <1>2 DEF InLine, Order
  <1>7. rest \in Seq([c : Chars, id : Byte]) /\ Len(rest) = Len(usb) - n
    <2> DEFINE u == usb
    <2>1. Byte \in SUBSET Int /\ u \in Seq([c : Chars, id : Byte]) /\ n \in 0 .. Len(u) /\ Rises(Ids(u))
      BY <1>1, <1>3, <1>5, <1>6
    <2> HIDE DEF u
    <2>2. /\ SubSeq(u, n + 1, Len(u)) \in Seq([c : Chars, id : Byte])
          /\ Len(SubSeq(u, n + 1, Len(u))) = Len(u) - n
      BY ONLY <2>1, Split
    <2> QED
      BY <2>2 DEF u
  <1>8. PICK t : Passed(t)
    BY ReadPasses
  <1>9. /\ FilterOK(t, Byte) /\ Rises(Held(t))
        /\ Len(Held(t)) + t.eaten = Len(at.plus) + eaten + n
        /\ \A k \in 1 .. Len(Held(t)) : Held(t)[k] \in From(at.plus, head, n)
        /\ at' = t.at /\ out' = t.out /\ sess' = t.sess /\ link' = t.link
        /\ policy' = t.policy /\ eaten' = t.eaten
        /\ ring' = Push(ring, t.policy, t.data).ring
        /\ idrop' = idrop + Push(ring, t.policy, t.data).dropped
    BY <1>8 DEF Passed, n, Byte
  <1> DEFINE q == Push(ring, t.policy, t.data)
  <1>10. /\ at' = t.at /\ out' = t.out /\ sess' = t.sess /\ link' = t.link
         /\ policy' = t.policy /\ eaten' = t.eaten
         /\ ring' = q.ring /\ idrop' = idrop + q.dropped
    BY <1>9
  <1> HIDE DEF q
  <1>11. /\ t.at \in Ats(Byte) /\ t.out \in Outs /\ t.sess \in Sessions /\ t.link \in Links
         /\ t.policy \in Policies /\ t.eaten \in Nat /\ t.data \in Seq(Byte)
         /\ t.at.plus \in Seq(Byte) /\ Len(t.at.plus) \in 0 .. PLUSES
    BY <1>9, FilterFields
  <1>12. t.policy \in [latest : BOOLEAN, keep : Nat]
    BY <1>11, HostAssumption DEF HostAssumption
  <1>13. /\ q.ring \in Rings(All) /\ q.dropped \in Nat
         /\ Count(q.ring) + q.dropped = Count(ring) + Len(t.data)
    <2>1. t.data \in Seq(All)
      BY <1>5, <1>11, WiderSeq
    <2> QED
      BY <1>1, <1>12, <2>1, PushIs DEF q
  <1>14. /\ Len(t.data) \in Nat /\ Len(t.at.plus) \in Nat /\ Count(q.ring) \in Nat
         /\ Len(Held(t)) = Len(t.data) + Len(t.at.plus)
    <2>1. Len(t.data) \in Nat /\ Len(t.at.plus) \in Nat
      BY <1>11, LenProperties
    <2>2. Count(q.ring) \in 0 .. CAP - 1
      BY <1>13, RingIs
    <2>3. Len(t.data \o t.at.plus) = Len(t.data) + Len(t.at.plus)
      BY <1>11, ConcatProperties
    <2> QED
      BY <2>1, <2>2, <2>3, CapAssumption DEF Held
  <1>15. typed = linked.n + (Count(q.ring) + Len(t.at.plus) + (Len(usb) - n))
                 + (idrop + q.dropped) + t.eaten
    <2> DEFINE a == linked.n
               b == Count(ring)
               c == Len(at.plus)
               d == Len(usb)
               f == Count(q.ring)
               g == Len(t.at.plus)
               h == Len(t.data)
               j == q.dropped
               k == t.eaten
    <2>1. /\ a \in Nat /\ b \in Nat /\ c \in Nat /\ d \in Nat /\ f \in Nat /\ g \in Nat
          /\ h \in Nat /\ j \in Nat /\ k \in Nat /\ n \in 0 .. d
          /\ typed \in Nat /\ idrop \in Nat /\ eaten \in Nat
          /\ typed = a + (b + c + d) + idrop + eaten
          /\ f + j = b + h /\ (h + g) + k = c + eaten + n
      BY <1>1, <1>2, <1>3, <1>9, <1>11, <1>13, <1>14 DEF Counted
    <2> HIDE DEF a, b, c, d, f, g, h, j, k
    <2>2. typed = a + (f + g + (d - n)) + (idrop + j) + k
      BY ONLY <2>1
    <2> QED
      BY ONLY <2>2 DEF a, d, f, g, j, k
  <1>16. Counted'
    BY <1>4, <1>7, <1>10, <1>15 DEF Counted
  <1>17. idrop' \in 0 .. typed /\ eaten' \in 0 .. typed
    <2>1. /\ linked.n \in Nat /\ idrop + q.dropped \in Nat /\ t.eaten \in Nat
          /\ Len(usb) - n \in Nat
      BY <1>1, <1>3, <1>11, <1>13
    <2>2. Count(q.ring) + Len(t.at.plus) + (Len(usb) - n) \in Nat
      BY ONLY <1>14, <2>1
    <2>3. idrop + q.dropped \in 0 .. typed /\ t.eaten \in 0 .. typed
      BY <1>1, <1>15, <2>1, <2>2, Within
    <2> QED
      BY <1>10, <2>3
  <1>18. TypeOK'
    <2>1. usb' \in Seq([c : Chars, id : 1 .. typed]) /\ Len(usb') <= USB
      <3>1. Len(usb) <= USB /\ Len(usb) - n <= Len(usb) /\ Len(usb) - n \in Int
        BY <1>1, <1>3 DEF TypeOK
      <3>2. Len(usb') = Len(usb) - n
        BY <1>4, <1>7
      <3>3. Len(usb') <= USB
        BY <1>1, <3>1, <3>2, Sizes
      <3> QED
        BY <1>4, <1>7, <3>3 DEF Byte
    <2>2. at' \in Ats(1 .. typed) /\ Len(at'.plus) <= PLUSES
      <3>1. Len(t.at.plus) <= PLUSES
        BY <1>11, Sizes
      <3> QED
        BY <1>10, <1>11, <3>1 DEF Byte
    <2>3. /\ out' \in Outs /\ sess' \in Sessions /\ link' \in Links /\ policy' \in Policies
          /\ ring' \in Rings(0 .. typed)
      BY <1>10, <1>11, <1>13 DEF All
    <2> HIDE DEF rest
    <2> QED
      BY <1>4, <1>17, <2>1, <2>2, <2>3 DEF TypeOK, Ats, Outs, Sessions, Links
  <1>19. InLine'
    <2>1. Order(linked.last, Contents(q.ring), t.at.plus, Ids(rest))
      <3>1. Order(linked.last, Contents(ring), at.plus, Ids(usb))
        BY <1>2 DEF InLine
      <3> QED
        BY <1>1, <1>3, <1>5, <1>9, <1>12, <3>1, ReadInLine DEF q
    <2>2. Ids(usb') = Ids(rest)
      BY <1>4
    <2> HIDE DEF rest
    <2> QED
      BY <1>4, <1>10, <2>1, <2>2 DEF InLine, Ids
  <1> QED
    BY <1>16, <1>18, <1>19, StreamIsNext
-----------------------------------------------------------------------------
(* The theorems.                                                           *)

LEMMA NextKeeps ==
  TypeOK /\ StreamKept /\ [Next]_vars => TypeOK' /\ StreamKept'
  <1> SUFFICES ASSUME TypeOK, StreamKept, [Next]_vars PROVE TypeOK' /\ StreamKept'
    OBVIOUS
  <1>1. CASE \E silent, abandoned, late \in BOOLEAN : PollTop(silent, abandoned, late)
    BY <1>1, TopKeeps
  <1>2. CASE PollRead
    BY <1>2, ReadKeeps
  <1>3. CASE PollTail
    BY <1>3, TailKeeps
  <1>4. CASE PumpLinkOut
    BY <1>4, PumpKeeps, LineAlone
  <1>5. CASE Type
    BY <1>5, TypeKeeps
  <1>6. CASE OpenOrClose \/ TermReads \/ LinkTakes \/ LinkDelivers
    BY <1>6, AroundKeeps, LineAlone
  <1>7. CASE UNCHANGED vars
    BY <1>7, LineAlone DEF vars, TypeOK
  <1> QED
    BY <1>1, <1>2, <1>3, <1>4, <1>5, <1>6, <1>7 DEF Next, Poll

(* The rings of a board keep to their sizes whatever the terminal types    *)
(* and whenever a reply, an echo or the pump pushes (HtPush does not look) *)
(* and the two indices of the ingest ring stay in its storage.             *)
THEOREM PipeTypes == Spec => []TypeOK
  <1>1. Init => TypeOK /\ StreamKept
    BY InitKeeps
  <1>2. TypeOK /\ StreamKept /\ [Next]_vars => (TypeOK /\ StreamKept)'
    BY NextKeeps
  <1> QED
    BY <1>1, <1>2, PTL DEF Spec

(* The link is given what was typed in the order it was typed, no byte     *)
(* twice, and idrop counts every one that is missing: through wraps of the *)
(* ring, evictions, changes of the policy and failed escapes (AtFilter,    *)
(* IngestRing::Push, IngestToLink).                                        *)
THEOREM PipeKeepsStream == Spec => []StreamKept
  <1>1. Init => TypeOK /\ StreamKept
    BY InitKeeps
  <1>2. TypeOK /\ StreamKept /\ [Next]_vars => (TypeOK /\ StreamKept)'
    BY NextKeeps
  <1> QED
    BY <1>1, <1>2, PTL DEF Spec

-----------------------------------------------------------------------------
(* What a full ring loses.                                                 *)

LEMMA DropKeepsNewest ==
  ASSUME NEW n \in Nat, NEW r \in Rings(0 .. n), NEW k \in 0 .. Count(r)
  PROVE  LET d == Drop(r, k)
         IN  /\ \A j \in 1 .. Count(d) : \E i \in 1 .. Count(r) : Contents(d)[j] = Contents(r)[i]
             /\ \A i \in 1 .. Count(r) :
                  i <= k \/ \E j \in 1 .. Count(d) : Contents(d)[j] = Contents(r)[i]
  <1> DEFINE d == Drop(r, k)
             m == Count(r)
  <1>1. m \in Nat /\ k \in 0 .. m
    <2>1. Count(r) \in 0 .. CAP - 1
      BY RingIs
    <2> QED
      BY <2>1, CapAssumption
  <1>2. Count(d) = m - k /\ \A j \in 1 .. m - k : Contents(d)[j] = Contents(r)[j + k]
    BY DropIs
  <1> HIDE DEF d, m
  <1>3. \A j \in 1 .. m - k : j + k \in 1 .. m
    BY <1>1
  <1>4. \A i \in 1 .. m : i <= k \/ (i - k \in 1 .. m - k /\ (i - k) + k = i)
    BY <1>1
  <1> QED
    BY <1>2, <1>3, <1>4 DEF d, m

(* Under keepall what was in the ring stays there; under keeplatest what   *)
(* goes is older than all that stays.                                      *)
LosesOf(r, d, p) ==
  LET B == {Contents(r)[i] : i \in 1 .. Count(r)}
      D == {Contents(d)[j] : j \in 1 .. Count(d)}
  IN  /\ ~p.latest => B \subseteq D
      /\ p.latest => D = B \/ /\ Count(d) <= p.keep
                              /\ \A b \in B \ D : \A y \in D : b < y

LEMMA PushLoses ==
  ASSUME NEW All \in SUBSET Int, NEW r \in Rings(All), NEW s \in Seq(All),
         NEW p \in [latest : BOOLEAN, keep : Nat],
         Rises(Contents(r)), Rises(s), Below(Contents(r), s)
  PROVE  LosesOf(r, Push(r, p, s).ring, p)
  <1> DEFINE q == Push(r, p, s)
             d == q.ring
             c == Contents(r)
             e == Contents(d)
             m == Count(r)
             l == Count(d)
             n == Len(s)
             lo == q.dropped
             B == {c[i] : i \in 1 .. m}
             D == {e[j] : j \in 1 .. l}
  <1>1. /\ d \in Rings(All) /\ lo \in Nat /\ l + lo = m + n
        /\ \/ s = <<>> /\ d = r
           \/ p.latest /\ l <= p.keep /\ Holds(d, r, s, lo)
           \/ ~p.latest /\ l >= m /\ Holds(d, r, s, 0)
    BY PushIs
  <1>2. m \in Nat /\ l \in Nat /\ n \in Nat /\ DOMAIN c = 1 .. m /\ DOMAIN s = 1 .. n
    <2>1. /\ c \in Seq(All) /\ Len(c) = m /\ m \in 0 .. CAP - 1
      BY RingIs
    <2>2. l \in 0 .. CAP - 1
      BY <1>1, RingIs
    <2> QED
      BY <2>1, <2>2, Elements, CapAssumption
  <1>3. /\ \A i, j \in 1 .. m : i < j => c[i] < c[j]
        /\ \A i \in 1 .. m, j \in 1 .. n : c[i] < s[j]
    BY <1>2 DEF Rises, Below
  <1>4. \A k \in Int : Joined(r, s, k) = IF k <= m THEN c[k] ELSE s[k - m]
    BY DEF Joined
  <1>5. \A a \in Int : Holds(d, r, s, a) <=> \A k \in 1 .. l : e[k] = Joined(r, s, k + a)
    BY DEF Holds
  <1> HIDE DEF d, c, e, m, l, n, lo
  <1>6. CASE d = r
    <2>1. D = B
      BY <1>6 DEF c, e, m, l
    <2> QED
      BY <2>1 DEF LosesOf, d, c, e, m, l, q
  <1>7. CASE p.latest /\ l <= p.keep /\ Holds(d, r, s, lo)
    <2>1. ASSUME NEW k \in 1 .. l
          PROVE  e[k] = IF k + lo <= m THEN c[k + lo] ELSE s[k + lo - m]
      <3>1. k \in Int /\ lo \in Int /\ k + lo \in Int
        BY <1>1, <1>2
      <3>2. e[k] = Joined(r, s, k + lo)
        BY <1>5, <1>7, <3>1
      <3>3. \A x \in Int : x = k + lo => Joined(r, s, x) = IF x <= m THEN c[x] ELSE s[x - m]
        BY <1>4
      <3>4. Joined(r, s, k + lo) = IF k + lo <= m THEN c[k + lo] ELSE s[k + lo - m]
        BY <1>2, <3>1, <3>3
      <3> QED
        BY ONLY <3>2, <3>4
    <2>2. ASSUME NEW i \in 1 .. m, NEW j \in 1 .. l, c[i] \notin D
          PROVE  c[i] < e[j]
      <3>1. i <= lo
        <4> SUFFICES ASSUME ~(i <= lo) PROVE FALSE
          OBVIOUS
        <4>1. i - lo \in 1 .. l /\ (i - lo) + lo = i /\ i <= m
          BY <1>1, <1>2
        <4>2. e[i - lo] = c[i]
          BY <2>1, <4>1
        <4> QED
          BY <2>2, <4>1, <4>2
      <3>2. CASE j + lo <= m
        <4>1. j + lo \in 1 .. m /\ i < j + lo
          BY <1>1, <1>2, <3>1, <3>2
        <4> QED
          BY <1>3, <2>1, <3>2, <4>1
      <3>3. CASE ~(j + lo <= m)
        <4>1. j + lo - m \in 1 .. n
          BY <1>1, <1>2, <3>3
        <4> QED
          BY <1>3, <2>1, <3>3, <4>1
      <3> QED
        BY <3>2, <3>3
    <2>3. \A b \in B \ D : \A y \in D : b < y
      BY <2>2
    <2> QED
      BY <1>7, <2>3 DEF LosesOf, d, c, e, m, l, q
  <1>8. CASE ~p.latest /\ l >= m /\ Holds(d, r, s, 0)
    <2>1. ASSUME NEW i \in 1 .. m PROVE i \in 1 .. l /\ e[i] = c[i]
      <3>1. i \in 1 .. l /\ i + 0 = i /\ i \in Int /\ i <= m /\ 0 \in Int
        BY <1>2, <1>8
      <3>2. e[i] = Joined(r, s, i + 0)
        BY <1>5, <1>8, <3>1
      <3> QED
        BY <1>4, <3>1, <3>2
    <2>2. B \subseteq D
      BY <2>1
    <2> QED
      BY <1>8, <2>2 DEF LosesOf, d, c, e, m, l, q
  <1> QED
    BY <1>1, <1>6, <1>7, <1>8

LEMMA ReadPushes ==
  ASSUME TypeOK, StreamKept, PollRead
  PROVE  \E s \in Seq(0 .. typed) : /\ ring' = Push(ring, policy', s).ring
                                    /\ Rises(s) /\ Below(Contents(ring), s)
  <1> DEFINE n == Min({BULK, Len(usb)})
             Byte == 1 .. typed
             All == 0 .. typed
  <1>1. PICK t : Passed(t)
    BY ReadPasses
  <1>2. /\ FilterOK(t, Byte) /\ Rises(Held(t))
        /\ \A k \in 1 .. Len(Held(t)) : Held(t)[k] \in From(at.plus, SubSeq(usb, 1, n), n)
        /\ policy' = t.policy /\ ring' = Push(ring, t.policy, t.data).ring
    BY <1>1 DEF Passed
  <1>3. n \in 0 .. Len(usb)
    BY ReadSize DEF PollRead, MayRead
  <1>4. /\ Byte \in SUBSET Int /\ All \in SUBSET Int /\ Byte \in SUBSET All
        /\ linked.last \in Int /\ ring \in Rings(All) /\ at.plus \in Seq(Byte)
        /\ usb \in Seq([c : Chars, id : Byte])
    <2>1. typed \in Nat /\ linked.last \in 0 .. typed
      BY Typed
    <2> QED
      BY <2>1, Typed
  <1>5. Order(linked.last, Contents(ring), at.plus, Ids(usb))
    BY StreamIs DEF InLine
  <1>6. t.policy \in [latest : BOOLEAN, keep : Nat]
    BY <1>2, FilterFields, HostAssumption DEF HostAssumption
  <1> HIDE DEF n, Byte, All
  <1>7. t.data \in Seq(All) /\ Rises(t.data) /\ Below(Contents(ring), t.data)
    BY ONLY <1>2, <1>3, <1>4, <1>5, <1>6, ReadInLine
  <1> QED
    BY <1>2, <1>7 DEF All

(* Every step but a read or the end of a Poll leaves the ring alone.       *)
LEMMA RingAlone ==
  [Next]_vars => PollRead \/ PollTail \/ ring' = ring
  <1> SUFFICES ASSUME [Next]_vars, ~PollRead, ~PollTail PROVE ring' = ring
    OBVIOUS
  <1>1. ASSUME NEW silent \in BOOLEAN, NEW abandoned \in BOOLEAN, NEW late \in BOOLEAN,
               PollTop(silent, abandoned, late)
        PROVE  ring' = ring
    BY <1>1 DEF PollTop
  <1> QED
    BY <1>1 DEF Next, Poll, PumpLinkOut, Type, OpenOrClose, TermReads, LinkTakes,
                LinkDelivers, LinkChange, vars

Loses ==
  /\ ~policy'.latest => \A b \in Queued : b \in Queued' \/ b <= linked'.last
  /\ policy'.latest /\ ~(Queued' \subseteq Queued)
       => /\ Count(ring') <= policy'.keep
          /\ \A b \in Queued \ Queued' : \A k \in Queued' : b < k

LEMMA StepLoses ==
  TypeOK /\ StreamKept /\ [Next]_vars => Loses
  <1> SUFFICES ASSUME TypeOK, StreamKept, [Next]_vars PROVE Loses
    OBVIOUS
  <1>1. CASE ring' = ring
    BY <1>1 DEF Loses, Queued
  <1>2. CASE PollRead
    <2>1. PICK s \in Seq(0 .. typed) : /\ ring' = Push(ring, policy', s).ring
                                       /\ Rises(s) /\ Below(Contents(ring), s)
      BY <1>2, ReadPushes
    <2>2. typed \in Nat /\ 0 .. typed \in SUBSET Int /\ ring \in Rings(0 .. typed)
          /\ Rises(Contents(ring))
      BY Typed, StreamIs DEF InLine, Order
    <2>3. policy' \in [latest : BOOLEAN, keep : Nat]
      <3>1. policy' \in Policies
        BY NextKeeps DEF TypeOK
      <3> QED
        BY <3>1, HostAssumption DEF HostAssumption
    <2>4. /\ ~policy'.latest => Queued \subseteq Queued'
          /\ policy'.latest => Queued' = Queued \/ /\ Count(ring') <= policy'.keep
                                                   /\ \A b \in Queued \ Queued' : \A y \in Queued' : b < y
      <3> DEFINE All == 0 .. typed
                 p == policy'
                 r == ring
      <3>1. /\ All \in SUBSET Int /\ s \in Seq(All) /\ r \in Rings(All)
            /\ p \in [latest : BOOLEAN, keep : Nat]
            /\ Rises(Contents(r)) /\ Rises(s) /\ Below(Contents(r), s)
        BY <2>1, <2>2, <2>3
      <3> HIDE DEF All, p, r
      <3>2. LosesOf(r, Push(r, p, s).ring, p)
        BY ONLY <3>1, PushLoses
      <3>3. LosesOf(ring, ring', policy')
        BY <2>1, <3>2 DEF p, r
      <3> QED
        BY <3>3 DEF LosesOf, Queued
    <2> QED
      BY <2>4 DEF Loses
  <1>3. CASE PollTail
    <2>1. /\ typed \in Nat /\ ring \in Rings(0 .. typed) /\ Count(ring) \in Nat
          /\ link.tx \in 0 .. LINK
          /\ Rises(Contents(ring))
      BY Typed, StreamIs DEF InLine, Order
    <2> DEFINE w == Taken
    <2>2. w \in 0 .. Count(ring)
      <3>1. Count(ring) \in Int /\ LINK - link.tx \in Int
        BY <2>1, Sizes
      <3>2. w = IF Count(ring) <= LINK - link.tx THEN Count(ring) ELSE LINK - link.tx
        BY ONLY <3>1, OfTwo DEF Taken
      <3> HIDE DEF w
      <3> QED
        BY <2>1, <3>1, <3>2, Sizes
    <2> HIDE DEF w
    <2>3. ring' = Drop(ring, w) /\ (w # 0 => linked'.last = Contents(ring)[w])
      BY <1>3 DEF PollTail, w
    <2>4. /\ Queued' \subseteq Queued
          /\ \A i \in 1 .. Count(ring) : i <= w \/ Contents(ring)[i] \in Queued'
      <3>1. /\ \A j \in 1 .. Count(ring') : \E i \in 1 .. Count(ring) : Contents(ring')[j] = Contents(ring)[i]
            /\ \A i \in 1 .. Count(ring) :
                 i <= w \/ \E j \in 1 .. Count(ring') : Contents(ring')[j] = Contents(ring)[i]
        BY <2>1, <2>2, <2>3, DropKeepsNewest
      <3> QED
        BY <3>1 DEF Queued
    <2>5. ASSUME NEW i \in 1 .. Count(ring), i <= w
          PROVE  Contents(ring)[i] <= linked'.last
      <3>1. w \in 1 .. Count(ring) /\ w # 0 /\ (i = w \/ i < w)
        BY <2>1, <2>2, <2>5
      <3>2. DOMAIN Contents(ring) = 1 .. Count(ring) /\ Contents(ring)[i] \in Int /\ Contents(ring)[w] \in Int
        <4>1. Contents(ring) \in Seq(0 .. typed) /\ Len(Contents(ring)) = Count(ring)
          BY <2>1, RingIs
        <4>2. \A k \in 1 .. Count(ring) : Contents(ring)[k] \in 0 .. typed
          BY <4>1, Elements
        <4> QED
          BY <3>1, <4>1, <4>2, Elements
      <3>3. i < w => Contents(ring)[i] < Contents(ring)[w]
        BY <2>1, <3>1, <3>2 DEF Rises
      <3> QED
        BY <2>3, <3>1, <3>2, <3>3
    <2>6. \A b \in Queued : b \in Queued' \/ b <= linked'.last
      BY <2>4, <2>5 DEF Queued
    <2> QED
      BY <2>4, <2>6 DEF Loses
  <1> QED
    BY <1>1, <1>2, <1>3, RingAlone

(* Under keepall no byte of the ring is dropped; under keeplatest the ring *)
(* keeps to its window with every push, and what is dropped is older than  *)
(* all that stays (IngestRing::Push and PushLatest), whenever AT+BUFMODE   *)
(* changes the policy, also within a read.                                 *)
THEOREM PipeKeepsPolicy == Spec => PolicyKept
  <1>1. Init => TypeOK /\ StreamKept
    BY InitKeeps
  <1>2. TypeOK /\ StreamKept /\ [Next]_vars => (TypeOK /\ StreamKept)'
    BY NextKeeps
  <1>3. TypeOK /\ StreamKept /\ [Next]_vars
          => [~policy'.latest => \A b \in Queued : b \in Queued' \/ b <= linked'.last]_vars
    BY StepLoses DEF Loses
  <1>4. TypeOK /\ StreamKept /\ [Next]_vars
          => [policy'.latest /\ ~(Queued' \subseteq Queued)
                => /\ Count(ring') <= policy'.keep
                   /\ \A b \in Queued \ Queued' : \A k \in Queued' : b < k]_vars
    BY StepLoses DEF Loses
  <1>5. Spec => KeepsOldest
    BY <1>1, <1>2, <1>3, PTL DEF Spec, KeepsOldest
  <1>6. Spec => KeepsFreshest
    BY <1>1, <1>2, <1>4, PTL DEF Spec, KeepsFreshest
  <1> QED
    BY <1>5, <1>6 DEF PolicyKept
=============================================================================
