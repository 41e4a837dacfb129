---------------------------- MODULE BoardProofs ----------------------------
(***************************************************************************)
(* For every value of the constants, of one board's parts: what the flash  *)
(* store, the teletype, the pairing, the session keys and the settings     *)
(* promise, and the inductive invariant of each, with the frame counter's, *)
(* as the one invariant of MCBoard.                                        *)
(*                                                                         *)
(* Prefs          a key is the value put last, or reads as its default     *)
(* Teletype       the screen is true to the stream                         *)
(* Pairing        two elections never make two initiators                  *)
(* Session        a session key is of this session                         *)
(* Settings       the last edit that was confirmed lands                   *)
(***************************************************************************)
EXTENDS MCBoard, FrameCounterProofs, FiniteSetTheorems, SequenceTheorems, TLAPS

-----------------------------------------------------------------------------
(***************************************************************************)
(* Prefs.  A put makes its file disappear before it writes, so that a file *)
(* of a number is whole or short; the reads refuse a short one.  Whole says *)
(* so of every file whose remove did not fail, in the middle of a put too. *)
(***************************************************************************)
USE PrefsAssumption

(* A stored text is a sequence of bytes no longer than the widest value.   *)
LEMMA TextIsSeq ==
  ASSUME NEW s \in Texts
  PROVE  /\ s \in Seq(Bytes) /\ Len(s) \in 0 .. WIDTH /\ s # NoFile
         /\ \A i \in 1 .. Len(s) : s[i] \in Bytes
         /\ SubSeq(s, 1, Len(s)) = s
         /\ s \in Strings(WIDTH) => Len(s) = WIDTH
  <1>1. PICK w \in 0 .. WIDTH : s \in [1 .. w -> Bytes]
    BY DEF Texts, Strings
  <1>2. s \in Seq(Bytes) /\ Len(s) = w
    BY <1>1
  <1>3. s # NoFile
    BY <1>1, <1>2 DEF NoFile
  <1>4. SubSeq(s, 1, Len(s)) = s
    BY <1>2
  <1>5. s \in Strings(WIDTH) => Len(s) = WIDTH
    BY <1>2 DEF Strings
  <1>6. QED
    BY <1>1, <1>2, <1>3, <1>4, <1>5

(* A value fits its file; a number has the full width.                     *)
LEMMA ValueIsText ==
  ASSUME NEW k \in PrefKeys, NEW v \in Values(k)
  PROVE  /\ v \in Texts
         /\ k \in Numbers => v \in Strings(WIDTH) /\ Len(v) = WIDTH
  <1>1. v \in Texts
    BY DEF Values, Texts
  <1>2. QED
    BY <1>1, TextIsSeq DEF Values

(* What a write that is cut short leaves: a text of as many bytes as it    *)
(* wrote, the whole value only if it wrote them all.                       *)
LEMMA CutText ==
  ASSUME NEW v \in Texts, NEW w \in 0 .. Len(v)
  PROVE  /\ SubSeq(v, 1, w) \in Seq(Bytes)
         /\ <<>> \o SubSeq(v, 1, w) \in Texts
         /\ Len(<<>> \o SubSeq(v, 1, w)) = w
         /\ w = Len(v) => <<>> \o SubSeq(v, 1, w) = v
  <1>1. v \in Seq(Bytes) /\ Len(v) \in 0 .. WIDTH /\ SubSeq(v, 1, Len(v)) = v
    BY TextIsSeq
  <1> DEFINE s == SubSeq(v, 1, w)
  <1>2. s \in Seq(Bytes) /\ Len(s) = w
    <2>1. w \in Nat /\ \A i \in 1 .. w : v[i] \in Bytes
      BY <1>1
    <2>2. s \in Seq(Bytes) /\ Len(s) = IF 1 <= w THEN w - 1 + 1 ELSE 0
      BY <2>1, SubSeqProperties
    <2>3. QED
      BY <2>1, <2>2
  <1> HIDE DEF s
  <1>3. <<>> \o s = s
    BY <1>2, ConcatEmptySeq
  <1>4. s \in Texts
    <2>1. s \in [1 .. w -> Bytes] /\ w \in 0 .. WIDTH
      BY <1>1, <1>2
    <2>2. QED
      BY <2>1 DEF Texts, Strings
  <1>5. QED
    BY <1>1, <1>2, <1>3, <1>4 DEF s

(* A sequence of bytes is a file.                                          *)
LEMMA BytesAreFile == \A s \in Seq(Bytes) : s # NoFile
  <1> SUFFICES ASSUME NEW s \in Seq(Bytes), s = <<-1>> PROVE FALSE
    BY DEF NoFile
  <1>1. Len(s) = 1 /\ s[1] = -1
    OBVIOUS
  <1>2. s[1] \in Bytes
    BY <1>1, ElementOfSeq
  <1>3. QED
    BY <1>1, <1>2

(* A flash that was never written.                                         *)
LEMMA PrefsStart == PrefsInit => PrefsInv
  BY DEF PrefsInit, PrefsInv, PrefsTypeOK, Whole

(* What a remove does to the file of its key, if it fails too.             *)
LEMMA Removed ==
  ASSUME PrefsTypeOK, NEW k \in PrefKeys, Remove(k) \/ RemoveFails(k)
  PROVE  /\ file' \in [PrefKeys -> Seq(Bytes) \union {NoFile}]
         /\ k \notin stuck' => file'[k] = NoFile
         /\ \A j \in PrefKeys \ {k} : file'[j] = file[j] /\ (j \in stuck' <=> j \in stuck)
         /\ stuck' \subseteq PrefKeys
  <1>1. CASE Remove(k)
    BY <1>1 DEF Remove, PrefsTypeOK
  <1>2. CASE RemoveFails(k)
    BY <1>2 DEF RemoveFails, PrefsTypeOK
  <1>3. QED
    BY <1>1, <1>2

(* Every step of a put, a clear and a power cut.                           *)
LEMMA PrefsStep == PrefsInv /\ [PrefsNext]_prefsVars => PrefsInv'
  <1> SUFFICES ASSUME PrefsTypeOK, Whole, [PrefsNext]_prefsVars
               PROVE  PrefsTypeOK' /\ Whole'
    BY DEF PrefsInv
  <1>1. ASSUME NEW k \in PrefKeys, NEW v \in Values(k), PutRemove(k, v)
        PROVE  PrefsTypeOK' /\ Whole'
    <2>1. Remove(k) \/ RemoveFails(k)
      BY <1>1 DEF PutRemove
    <2>2. /\ file' \in [PrefKeys -> Seq(Bytes) \union {NoFile}]
          /\ k \notin stuck' => file'[k] = NoFile
          /\ \A j \in PrefKeys \ {k} : file'[j] = file[j] /\ (j \in stuck' <=> j \in stuck)
          /\ stuck' \subseteq PrefKeys
      BY <2>1, Removed
    <2>3. op' = Call("open", k, v) /\ k \in hurt' /\ hurt' = hurt \union {k} /\ told' = told
      BY <1>1 DEF PutRemove, Call
    <2>4. PrefsTypeOK'
      BY <2>2, <2>3 DEF PrefsTypeOK
    <2>5. Whole'
      BY <2>2, <2>3 DEF Whole, PrefsTypeOK
    <2>6. QED
      BY <2>4, <2>5
  <1>2. ASSUME NEW k \in PrefKeys, ClearOne(k)
        PROVE  PrefsTypeOK' /\ Whole'
    <2>1. PICK past \in SUBSET PrefKeys : op = [at |-> "clear", past |-> past]
      BY <1>2 DEF ClearOne, NoCall, Call, PrefsTypeOK
    <2>2. Remove(k) \/ RemoveFails(k)
      BY <1>2 DEF ClearOne
    <2>3. /\ file' \in [PrefKeys -> Seq(Bytes) \union {NoFile}]
          /\ k \notin stuck' => file'[k] = NoFile
          /\ \A j \in PrefKeys \ {k} : file'[j] = file[j] /\ (j \in stuck' <=> j \in stuck)
          /\ stuck' \subseteq PrefKeys
      BY <2>2, Removed
    <2>4. op' = [at |-> "clear", past |-> past \union {k}] /\ past \union {k} \in SUBSET PrefKeys
      BY <1>2, <2>1 DEF ClearOne
    <2>5. /\ told' \in [PrefKeys -> Texts \union {NoFile}]
          /\ \A j \in PrefKeys \ {k} : told'[j] = told[j]
          /\ told'[k] \in {told[k], NoFile} /\ (k \notin stuck' => told'[k] = NoFile)
          /\ hurt' \in {hurt, hurt \ {k}} /\ (k \notin stuck' => k \notin hurt')
      <3>1. CASE told' = [told EXCEPT ![k] = NoFile] /\ hurt' = hurt \ {k}
        BY <3>1 DEF PrefsTypeOK
      <3>2. CASE RemoveFails(k) /\ UNCHANGED <<told, hurt>>
        BY <3>2 DEF RemoveFails, PrefsTypeOK
      <3>3. QED
        BY <1>2, <3>1, <3>2 DEF ClearOne
    <2>6. PrefsTypeOK'
      BY <2>3, <2>4, <2>5 DEF PrefsTypeOK
    <2>7. Whole'
      BY <2>3, <2>5 DEF Whole, PrefsTypeOK
    <2>8. QED
      BY <2>6, <2>7
  <1>3. ASSUME PutOpen
        PROVE  PrefsTypeOK' /\ Whole'
    <2>0. PICK k \in hurt : \E v \in Values(k) :
             op = Call("open", k, v) /\ (k \notin stuck => file[k] = NoFile)
      BY <1>3 DEF PutOpen, NoCall, Call, PrefsTypeOK
    <2>1. PICK v \in Values(k) : op = Call("open", k, v) /\ (k \notin stuck => file[k] = NoFile)
      BY <2>0
    <2>2. k \in PrefKeys /\ op.key = k /\ op.val = v /\ stuck' = stuck
      BY <1>3, <2>1 DEF Call, PrefsTypeOK, PutOpen
    <2>3. <<>> \in Texts /\ <<>> \in Seq(Bytes) /\ Len(<<>>) = 0
      BY DEF Texts, Strings
    <2>4. CASE op' = [op EXCEPT !.at = "write"]
               /\ file' = [file EXCEPT ![op.key] = IF @ = NoFile THEN <<>> ELSE @]
      <3>1. op' = Call("write", k, v)
        BY <2>1, <2>4 DEF Call
      <3>2. file' \in [PrefKeys -> Seq(Bytes) \union {NoFile}] /\ file'[k] # NoFile
            /\ (k \notin stuck => file'[k] = <<>>)
            /\ \A j \in PrefKeys \ {k} : file'[j] = file[j]
        BY <2>1, <2>2, <2>3, <2>4, BytesAreFile DEF PrefsTypeOK
      <3>3. told' = told /\ hurt' = hurt
        BY <1>3 DEF PutOpen
      <3>4. PrefsTypeOK'
        BY <2>1, <2>2, <2>3, <3>1, <3>2, <3>3 DEF PrefsTypeOK
      <3>5. Whole'
        BY <2>1, <2>2, <2>3, <3>2, <3>3 DEF Whole
      <3>6. QED
        BY <3>4, <3>5
    <2>5. CASE op' = NoCall /\ UNCHANGED file
      <3>1. told' = told /\ hurt' = hurt /\ file' = file
        BY <1>3, <2>5 DEF PutOpen
      <3>2. QED
        BY <2>2, <2>5, <3>1 DEF PrefsTypeOK, Whole
    <2>6. QED
      BY <1>3, <2>4, <2>5 DEF PutOpen
  <1>4. ASSUME PutWrite
        PROVE  PrefsTypeOK' /\ Whole'
    <2>0. PICK k \in hurt : \E v \in Values(k) :
             op = Call("write", k, v) /\ file[k] # NoFile /\ (k \notin stuck => file[k] = <<>>)
      BY <1>4 DEF PutWrite, NoCall, Call, PrefsTypeOK
    <2>1. PICK v \in Values(k) :
             op = Call("write", k, v) /\ file[k] # NoFile /\ (k \notin stuck => file[k] = <<>>)
      BY <2>0
    <2>2. k \in PrefKeys /\ op.key = k /\ op.val = v /\ op' = NoCall /\ stuck' = stuck
      BY <1>4, <2>1 DEF Call, PutWrite, PrefsTypeOK
    <2>3. PICK w \in 0 .. Len(v) :
             /\ file' = [file EXCEPT ![k] = @ \o SubSeq(v, 1, w)]
             /\ IF w = Len(v)
                THEN told' = [told EXCEPT ![k] = v] /\ hurt' = hurt \ {k}
                ELSE UNCHANGED <<told, hurt>>
      BY <1>4, <2>2 DEF PutWrite
    <2>4. v \in Texts /\ (k \in Numbers => Len(v) = WIDTH) /\ Len(v) \in Nat
      BY <2>2, ValueIsText, TextIsSeq
    <2> DEFINE t == SubSeq(v, 1, w)
               s == <<>> \o t
    <2>5. t \in Seq(Bytes) /\ s \in Texts /\ Len(s) = w /\ (w = Len(v) => s = v)
      BY <2>4, CutText
    <2> HIDE DEF t
    <2>6. file[k] \in Seq(Bytes) /\ file[k] \o t \in Seq(Bytes)
      BY <2>1, <2>2, <2>5 DEF PrefsTypeOK
    <2>7. file' \in [PrefKeys -> Seq(Bytes) \union {NoFile}]
          /\ (k \notin stuck => file'[k] = s)
          /\ \A j \in PrefKeys \ {k} : file'[j] = file[j]
      BY <2>1, <2>2, <2>3, <2>6 DEF PrefsTypeOK, t
    <2> HIDE DEF s
    <2>8. CASE w = Len(v)
      <3>1. told' \in [PrefKeys -> Texts \union {NoFile}] /\ told'[k] = v
            /\ (\A j \in PrefKeys \ {k} : told'[j] = told[j]) /\ hurt' = hurt \ {k}
        BY <2>2, <2>3, <2>4, <2>8 DEF PrefsTypeOK
      <3>2. PrefsTypeOK'
        BY <2>2, <2>5, <2>7, <3>1 DEF PrefsTypeOK
      <3>3. Whole'
        BY <2>2, <2>5, <2>7, <2>8, <3>1 DEF Whole
      <3>4. QED
        BY <3>2, <3>3
    <2>9. CASE w # Len(v)
      <3>1. told' = told /\ hurt' = hurt
        BY <2>3, <2>9
      <3>2. k \in Numbers => Len(s) < WIDTH
        BY <2>4, <2>5, <2>9
      <3>3. PrefsTypeOK'
        BY <2>2, <2>5, <2>7, <3>1 DEF PrefsTypeOK
      <3>4. Whole'
        BY <2>1, <2>2, <2>7, <3>1, <3>2 DEF Whole
      <3>5. QED
        BY <3>3, <3>4
    <2>10. QED
      BY <2>8, <2>9
  <1>5. ASSUME UNCHANGED <<file, told, hurt, stuck>>,
               op' \in {NoCall, [at |-> "clear", past |-> {}]}
        PROVE  PrefsTypeOK' /\ Whole'
    <2>1. op' = NoCall \/ \E past \in SUBSET PrefKeys : op' = [at |-> "clear", past |-> past]
      BY <1>5
    <2>2. QED
      BY <1>5, <2>1 DEF PrefsTypeOK, Whole
  <1>6. ASSUME UNCHANGED prefsVars
        PROVE  PrefsTypeOK' /\ Whole'
    BY <1>6 DEF prefsVars, PrefsTypeOK, Whole
  <1>7. QED
    BY <1>1, <1>2, <1>3, <1>4, <1>5, <1>6
       DEF PrefsNext, ClearBegin, ClearEnd, PrefsPowerCut

(* The reads take a whole file for its value and a short number for none.  *)
LEMMA PrefsMeaning == PrefsInv => OnlyTheCutKey
  <1> SUFFICES ASSUME PrefsTypeOK, Whole PROVE OnlyTheCutKey
    BY DEF PrefsInv
  <1>1. ASSUME NEW k \in PrefKeys \ stuck
        PROVE  IF k \notin hurt THEN Read(k) = told[k] ELSE k \in Numbers => Read(k) = NoFile
    <2>1. CASE file[k] = NoFile
      <3>1. Read(k) = NoFile
        BY <2>1 DEF Read, getNumber, getString, getBytes, isKey
      <3>2. QED
        BY <2>1, <3>1 DEF Whole
    <2>2. CASE file[k] # NoFile
      <3>1. file[k] \in Texts /\ isKey(k)
        BY <2>2 DEF PrefsTypeOK, isKey
      <3>2. Len(file[k]) \in 0 .. WIDTH /\ SubSeq(file[k], 1, Len(file[k])) = file[k]
        BY <3>1, TextIsSeq
      <3>3. getBytes(k, WIDTH) = file[k]
        BY <3>1, <3>2 DEF getBytes
      <3>4. CASE k \notin hurt
        <4>1. file[k] = told[k] /\ told[k] \in Values(k)
          BY <2>2, <3>4 DEF Whole, PrefsTypeOK
        <4>2. k \in Numbers => Len(file[k]) = WIDTH
          BY <4>1, ValueIsText
        <4>3. QED
          BY <3>1, <3>3, <3>4, <4>1, <4>2 DEF Read, getNumber, getString
      <3>5. CASE k \in hurt
        BY <2>2, <3>2, <3>3, <3>5 DEF Whole, Read, getNumber
      <3>6. QED
        BY <3>4, <3>5
    <2>3. QED
      BY <2>1, <2>2
  <1>2. QED
    BY <1>1 DEF OnlyTheCutKey

(* prefs_nrf52.cpp, for every set of keys, every width and every value:    *)
(* whatever put was cut short or failed, every other key reads as it was   *)
(* put last, and a number that was hurt reads as its default, but for keys *)
(* whose own remove failed.                                                *)
THEOREM OtherKeysSurvive == PrefsSpec => []OnlyTheCutKey
  <1>1. PrefsInit => PrefsInv
    BY PrefsStart
  <1>2. PrefsInv /\ [PrefsNext]_prefsVars => PrefsInv'
    BY PrefsStep
  <1>3. PrefsInv => OnlyTheCutKey
    BY PrefsMeaning
  <1>4. QED
    BY <1>1, <1>2, <1>3, PTL DEF PrefsSpec

HIDE PrefsAssumption
-----------------------------------------------------------------------------
(***************************************************************************)
(* Teletype.  The ring's two indices are two counts modulo its size: what  *)
(* FeedPublish has made visible, and what the task has given back.  The    *)
(* difference stays below the size, so that no slot is written before it is *)
(* given back.  The history is the same argument with one index.           *)
(***************************************************************************)
USE TeletypeAssumption

(* A ring index moves by one, or wraps.                                    *)
LEMMA Succ ==
  ASSUME NEW n \in Nat \ {0}, NEW i \in 0 .. n - 1
  PROVE  (i + 1) % n = IF i + 1 = n THEN 0 ELSE i + 1
  OBVIOUS

(* Nothing fed.                                                            *)
LEMMA RingStart == TeletypeInit => RingInv
  <1> SUFFICES ASSUME TeletypeInit PROVE RingInv
    OBVIOUS
  <1>1. NoByte \in [n : Int, kind : Kinds]
    BY DEF NoByte, Kinds
  <1>2. /\ s_ring \in [0 .. kRingSz - 1 -> [n : Int, kind : Kinds]]
        /\ s_head = 0 /\ s_tail = 0 /\ feeding = FALSE /\ typing = FALSE /\ fed = 0 /\ typed = 0
    BY <1>1 DEF TeletypeInit
  <1>3. 0 \in 0 .. kRingSz - 1 /\ kRingSz > 0
    OBVIOUS
  <1>4. RingTypes
    BY <1>2, <1>3 DEF RingTypes
  <1>5. Published = 0 /\ Given = 0 /\ Past(0 + (0 - 0), kRingSz) = 0
    BY <1>2, <1>3 DEF Published, Given, Past
  <1>6. ByteRingHolds
    BY <1>2, <1>3, <1>5 DEF ByteRingHolds
  <1>7. QED
    BY <1>4, <1>6 DEF RingInv

(* An empty screen, one line long.                                         *)
LEMMA ScreenStart == TeletypeInit => ScreenInv
  <1> SUFFICES ASSUME TeletypeInit PROVE ScreenInv
    OBVIOUS
  <1>1. kScroll > 0 /\ kRows > 0 /\ 0 \in 0 .. kScroll - 1 /\ 0 \in 0 .. kCols
        /\ 0 \in 0 .. kScroll /\ 1 \in 1 .. kScroll
    OBVIOUS
  <1>2. /\ head = 0 /\ count = 1 /\ scroll = 0 /\ col = 0 /\ pending_nl = FALSE /\ newest = 0
        /\ lines \in [0 .. kScroll - 1 -> Int] /\ lines[0] = 0
    BY <1>1 DEF TeletypeInit
  <1>3. ScreenTypes
    BY <1>1, <1>2 DEF ScreenTypes
  <1>4. HistoryHolds
    BY <1>1, <1>2 DEF HistoryHolds, ScrollMax, Before
  <1>5. QED
    BY <1>3, <1>4 DEF ScreenInv

(* The byte ring: feeding in two steps, typing in two steps, the rest.     *)
LEMMA RingStep == 
  ASSUME RingInv, [TeletypeNext]_teletypeVars
  PROVE  RingInv' /\ (typed' # typed => s_ring[s_head].n = typed)
  <1> USE DEF RingInv
  <1>1. ASSUME NEW kind \in Kinds, FeedWrite(kind)
        PROVE  RingInv' /\ typed' = typed
    <2>1. /\ ~feeding /\ After(s_tail) # s_head /\ feeding' = TRUE /\ fed' = fed + 1
          /\ s_ring' = [s_ring EXCEPT ![s_tail] = [n |-> fed, kind |-> kind]]
          /\ s_head' = s_head /\ s_tail' = s_tail /\ typing' = typing /\ typed' = typed
      BY <1>1 DEF FeedWrite
    <2>2. After(s_tail) = IF s_tail + 1 = kRingSz THEN 0 ELSE s_tail + 1
      BY Succ DEF RingTypes, After
    <2>3. RingTypes'
      BY <2>1 DEF RingTypes, ByteRingHolds
    <2> DEFINE d == fed - Given
    <2>4. d \in 0 .. kRingSz - 2 /\ s_tail = Past(s_head + d, kRingSz) /\ Given \in Nat
          /\ Given' = Given /\ Published' = Published /\ Published = fed
      BY <2>1, <2>2 DEF RingTypes, ByteRingHolds, Published, Given, Past
    <2>5. s_ring'[s_tail].n = fed /\ fed = Given + d
      BY <2>1, <2>4 DEF RingTypes, ByteRingHolds
    <2>6. \A i \in 0 .. d - 1 : /\ Past(s_head + i, kRingSz) # s_tail
                                /\ Past(s_head + i, kRingSz) \in 0 .. kRingSz - 1
      <3>1. s_head \in 0 .. kRingSz - 1 /\ d \in 0 .. kRingSz - 2
            /\ s_tail = Past(s_head + d, kRingSz)
        BY <2>4 DEF RingTypes
      <3> HIDE DEF d
      <3>2. QED
        BY <3>1 DEF Past
    <2>7. \A i \in 0 .. d - 1 : s_ring'[Past(s_head + i, kRingSz)].n = Given + i
      BY <2>1, <2>6 DEF ByteRingHolds, RingTypes
    <2>8. ByteRingHolds'
      <3>1. fed' - Given' - 1 = d /\ fed' \in Nat /\ fed' - Given' < kRingSz
        BY <2>1, <2>4 DEF ByteRingHolds
      <3>2. \A i \in 0 .. d : s_ring'[Past(s_head + i, kRingSz)].n = Given + i
        BY <2>4, <2>5, <2>7
      <3>3. typed' <= Published' /\ 0 <= Given'
            /\ s_tail' = Past(s_head' + (Published' - Given'), kRingSz)
        BY <2>1, <2>4 DEF ByteRingHolds
      <3>4. QED
        BY <2>1, <2>4, <3>1, <3>2, <3>3 DEF ByteRingHolds
    <2>9. QED
      BY <2>1, <2>3, <2>8
  <1>2. ASSUME FeedPublish
        PROVE  RingInv' /\ typed' = typed
    <2>1. /\ feeding /\ feeding' = FALSE /\ s_tail' = After(s_tail)
          /\ UNCHANGED <<s_ring, s_head, typing, fed, typed>>
      BY <1>2 DEF FeedPublish
    <2>2. After(s_tail) = IF s_tail + 1 = kRingSz THEN 0 ELSE s_tail + 1
      BY Succ DEF RingTypes, After
    <2>3. RingTypes'
      <3>1. s_tail' \in 0 .. kRingSz - 1
        <4>1. s_tail \in 0 .. kRingSz - 1
          BY DEF RingTypes
        <4>2. QED
          BY <2>1, <2>2, <4>1
      <3>2. QED
        BY <2>1, <3>1 DEF RingTypes
    <2>4. Given' = Given /\ Published' = Published + 1 /\ Published' = fed /\ Published \in Int /\ Given \in Int
      BY <2>1 DEF Published, Given, ByteRingHolds, RingTypes
    <2>5. s_tail' = Past(s_head' + (Published' - Given'), kRingSz)
      BY <2>1, <2>2, <2>4 DEF ByteRingHolds, RingTypes, Past
    <2>6. typed' <= Published'
      BY <2>1, <2>4 DEF ByteRingHolds, RingTypes
    <2>7. ByteRingHolds'
      BY <2>1, <2>4, <2>5, <2>6 DEF ByteRingHolds
    <2>8. QED
      BY <2>1, <2>3, <2>7
  <1>3. ASSUME TypeByte
        PROVE  RingInv' /\ s_ring[s_head].n = typed
    <2>1. /\ ~typing /\ s_head # s_tail /\ typing' = TRUE /\ typed' = typed + 1
          /\ UNCHANGED <<s_ring, s_head, s_tail, feeding, fed>>
      BY <1>3 DEF TypeByte
    <2>2. Given' = Given /\ Given = typed /\ Published' = Published /\ Published \in Int
      BY <2>1 DEF Published, Given, ByteRingHolds, RingTypes
    <2>3. typed < Published /\ Published <= fed
      BY <2>1, <2>2 DEF ByteRingHolds, RingTypes, Past, Published
    <2>4. RingTypes'
      BY <2>1 DEF RingTypes
    <2>5. ByteRingHolds'
      BY <2>1, <2>2, <2>3 DEF ByteRingHolds, RingTypes
    <2>6. s_ring[Past(s_head + 0, kRingSz)].n = Given + 0
      <3>1. 0 \in 0 .. fed - Given - 1
        BY <2>2, <2>3 DEF ByteRingHolds, RingTypes
      <3>2. QED
        BY <3>1 DEF ByteRingHolds
    <2>7. QED
      BY <2>2, <2>4, <2>5, <2>6 DEF RingTypes, Past
  <1>4. ASSUME GiveBack
        PROVE  RingInv' /\ typed' = typed
    <2>1. /\ typing /\ typing' = FALSE /\ s_head' = After(s_head)
          /\ UNCHANGED <<s_ring, s_tail, feeding, fed, typed>>
      BY <1>4 DEF GiveBack
    <2>2. After(s_head) = IF s_head + 1 = kRingSz THEN 0 ELSE s_head + 1
      BY Succ DEF RingTypes, After
    <2>3. RingTypes'
      <3>1. s_head' \in 0 .. kRingSz - 1
        <4>1. s_head \in 0 .. kRingSz - 1
          BY DEF RingTypes
        <4>2. QED
          BY <2>1, <2>2, <4>1
      <3>2. QED
        BY <2>1, <3>1 DEF RingTypes
    <2>4. Given' = Given + 1 /\ Given' = typed /\ Published' = Published /\ Published \in Int
          /\ Given \in Int
      BY <2>1 DEF Published, Given, ByteRingHolds, RingTypes
    <2>5. Published - Given \in 1 .. kRingSz - 1
      BY <2>1, <2>4 DEF Published, Given, ByteRingHolds, RingTypes
    <2>6. s_tail' = Past(s_head' + (Published' - Given'), kRingSz)
      <3>1. Published' - Given' = (Published - Given) - 1
        BY <2>4
      <3>2. s_tail = Past(s_head + (Published - Given), kRingSz)
        BY DEF ByteRingHolds
      <3>3. QED
        BY <2>1, <2>2, <2>5, <3>1, <3>2, SMTT(20) DEF RingTypes, Past
    <2>7. \A i \in 0 .. fed' - Given' - 1 : s_ring'[Past(s_head' + i, kRingSz)].n = Given' + i
      <3> SUFFICES ASSUME NEW i \in 0 .. fed' - Given' - 1
                   PROVE  s_ring'[Past(s_head' + i, kRingSz)].n = Given' + i
        OBVIOUS
      <3>1. i \in Nat /\ i + 1 \in 0 .. fed - Given - 1
        BY <2>1, <2>4 DEF ByteRingHolds
      <3>2. s_ring[Past(s_head + (i + 1), kRingSz)].n = Given + (i + 1)
        BY <3>1 DEF ByteRingHolds
      <3>3. i + 1 < kRingSz
        BY <2>4, <3>1 DEF ByteRingHolds
      <3>4. Past(s_head' + i, kRingSz) = Past(s_head + (i + 1), kRingSz)
        BY <2>1, <2>2, <3>1, <3>3 DEF RingTypes, Past
      <3>5. QED
        BY <2>1, <2>4, <3>1, <3>2, <3>4
    <2>8. ByteRingHolds'
      BY <2>1, <2>4, <2>6, <2>7 DEF ByteRingHolds, RingTypes
    <2>9. QED
      BY <2>1, <2>3, <2>8
  <1>5. ASSUME UNCHANGED feedVars
        PROVE  RingInv' /\ typed' = typed
    BY <1>5 DEF feedVars, RingTypes, ByteRingHolds, Given, Published
  <1>6. QED
    BY <1>1, <1>2, <1>3, <1>4, <1>5 DEF TeletypeNext, PollTrackball, teletypeVars

(* A view does not go back further than the history is long.               *)
LEMMA ScrollLimit ==
  ASSUME NEW n \in 1 .. kScroll
  PROVE  ScrollMax(n) \in 0 .. kScroll
  BY DEF ScrollMax

(* No line back from the head is the head.                                 *)
LEMMA BeforeNone ==
  ASSUME NEW h \in 0 .. kScroll - 1
  PROVE  Before(h - 0, kScroll) = h
  BY DEF Before

(* NewLine: the oldest line goes once the history is full, and a view that *)
(* was scrolled back keeps its lines, or is moved no further than it must. *)
LEMMA NewLineKeeps ==
  ASSUME ScreenInv, NEW reset \in 0 .. kCols, NewLine(reset), pending_nl' \in BOOLEAN
  PROVE  /\ ScreenInv'
         /\ scroll > 0 => \/ newest' - scroll' = newest - scroll
                          \/ count = kScroll /\ scroll' = ScrollMax(kScroll)
  <1> USE DEF ScreenInv
  <1>1. head' = IF head + 1 = kScroll THEN 0 ELSE head + 1
    BY Succ DEF NewLine, ScreenTypes
  <1>2. /\ newest' = newest + 1 /\ newest' \in Nat
        /\ count' = IF count < kScroll THEN count + 1 ELSE count
        /\ lines' = [lines EXCEPT ![head'] = newest'] /\ col' = reset
    BY DEF NewLine, HistoryHolds
  <1>3. head' \in 0 .. kScroll - 1 /\ count' \in 1 .. kScroll
    BY <1>1, <1>2 DEF ScreenTypes
  <1>4. scroll' = IF scroll = 0 THEN 0
                  ELSE IF scroll < ScrollMax(count') THEN scroll + 1 ELSE ScrollMax(count')
    BY DEF NewLine, ScreenTypes
  <1>5. scroll' \in 0 .. kScroll /\ scroll' <= ScrollMax(count')
    <2>1. scroll \in 0 .. kScroll
      BY DEF ScreenTypes
    <2>2. ScrollMax(count') \in 0 .. kScroll
      BY <1>3, ScrollLimit
    <2>3. QED
      BY <1>4, <2>1, <2>2
  <1>6. ScreenTypes'
    BY <1>2, <1>3, <1>5 DEF ScreenTypes
  <1>7. lines' \in [0 .. kScroll - 1 -> Int] /\ lines'[head'] = newest'
        /\ \A j \in 0 .. kScroll - 1 : j # head' => lines'[j] = lines[j]
    BY <1>2, <1>3 DEF HistoryHolds
  <1>8. ASSUME NEW i \in 0 .. count' - 1
        PROVE  lines'[Before(head' - i, kScroll)] = newest' - i
    <2>1. CASE i = 0
      <3>1. Before(head' - i, kScroll) = head'
        BY <1>3, <2>1, BeforeNone
      <3>2. newest' - i = newest'
        BY <1>2, <2>1
      <3>3. QED
        BY <1>7, <3>1, <3>2
    <2>2. CASE i # 0
      <3>1. i - 1 \in 0 .. count - 1 /\ i < kScroll
        BY <1>2, <1>3, <2>2 DEF ScreenTypes
      <3>2. lines[Before(head - (i - 1), kScroll)] = newest - (i - 1)
        BY <3>1 DEF HistoryHolds
      <3>3. /\ Before(head' - i, kScroll) = Before(head - (i - 1), kScroll)
            /\ Before(head' - i, kScroll) # head'
            /\ Before(head' - i, kScroll) \in 0 .. kScroll - 1
        BY <1>1, <2>2, <3>1 DEF ScreenTypes, Before
      <3>4. newest' - i = newest - (i - 1)
        BY <1>2, <3>1 DEF HistoryHolds
      <3>5. QED
        BY <1>7, <3>2, <3>3, <3>4
    <2>3. QED
      BY <2>1, <2>2
  <1>9. count' <= newest' + 1
    BY <1>2 DEF HistoryHolds, ScreenTypes
  <1>10. HistoryHolds'
    BY <1>2, <1>5, <1>7, <1>8, <1>9 DEF HistoryHolds
  <1>11. ASSUME scroll > 0
         PROVE  \/ newest' - scroll' = newest - scroll
                \/ count = kScroll /\ scroll' = ScrollMax(kScroll)
    <2>1. CASE scroll < ScrollMax(count')
      BY <1>2, <1>4, <1>11, <2>1 DEF HistoryHolds, ScreenTypes
    <2>2. CASE ~(scroll < ScrollMax(count'))
      BY <1>2, <1>4, <1>11, <2>2 DEF HistoryHolds, ScreenTypes, ScrollMax
    <2>3. QED
      BY <2>1, <2>2
  <1>12. QED
    BY <1>6, <1>10, <1>11

(* The screen: bytes typed, resets of the line, the trackball.             *)
LEMMA ScreenStep ==
  ASSUME RingInv, ScreenInv, [TeletypeNext]_teletypeVars
  PROVE  /\ ScreenInv'
         /\ scroll > 0 /\ newest' # newest =>
               \/ newest' - scroll' = newest - scroll
               \/ count = kScroll /\ scroll' = ScrollMax(kScroll)
  <1>1. ASSUME UNCHANGED screenVars
        PROVE  ScreenInv' /\ newest' = newest
    BY <1>1 DEF screenVars, ScreenInv, ScreenTypes, HistoryHolds, ScrollMax
  <1>2. ASSUME NEW kind \in Kinds, Ingest(kind)
        PROVE  /\ ScreenInv'
               /\ scroll > 0 /\ newest' # newest =>
                     \/ newest' - scroll' = newest - scroll
                     \/ count = kScroll /\ scroll' = ScrollMax(kScroll)
    <2>1. CASE kind = "skipped"
      BY <1>1, <1>2, <2>1 DEF Ingest
    <2>2. CASE kind = "nl"
      BY <1>2, <2>2 DEF Ingest, ScreenInv, ScreenTypes, HistoryHolds, ScrollMax
    <2>3. CASE kind = "glyph" /\ (pending_nl \/ col >= kCols)
      <3>1. NewLine(1) /\ pending_nl' = FALSE /\ 1 \in 0 .. kCols
        BY <1>2, <2>3 DEF Ingest
      <3>2. QED
        BY <3>1, NewLineKeeps
    <2>4. CASE kind = "glyph" /\ ~(pending_nl \/ col >= kCols)
      <3>1. pending_nl' = FALSE /\ col' = col + 1
            /\ UNCHANGED <<lines, head, count, scroll, newest>>
        BY <1>2, <2>4 DEF Ingest
      <3>2. QED
        <4>1. col' \in 0 .. kCols
          BY <2>4, <3>1 DEF ScreenInv, ScreenTypes
        <4>2. ScreenTypes'
          BY <3>1, <4>1 DEF ScreenInv, ScreenTypes
        <4>3. HistoryHolds'
          BY <3>1 DEF ScreenInv, HistoryHolds, ScrollMax
        <4>4. QED
          BY <3>1, <4>2, <4>3 DEF ScreenInv
    <2>5. QED
      BY <2>1, <2>2, <2>3, <2>4 DEF Kinds
  <1>3. ASSUME NEW pulses \in {-1, 0, 1}, NEW up \in {"no", "held", "long"},
               NEW down \in {"no", "held", "long"}, PollTrackball(pulses, up, down)
        PROVE  ScreenInv' /\ newest' = newest
    <2>1. /\ scroll' = Clamped(scroll + pulses + HoldRepeat(up) - HoldRepeat(down))
          /\ UNCHANGED <<lines, head, count, col, pending_nl, newest>>
      BY <1>3 DEF PollTrackball
    <2>2. HoldRepeat(up) \in Int /\ HoldRepeat(down) \in Int
      BY DEF HoldRepeat
    <2> DEFINE s == scroll + pulses + HoldRepeat(up) - HoldRepeat(down)
    <2>3. s \in Int
      BY <2>2 DEF ScreenInv, ScreenTypes
    <2> HIDE DEF s
    <2>4. scroll' = Clamped(s)
      BY <2>1 DEF s
    <2>5. scroll' \in 0 .. kScroll /\ scroll' <= ScrollMax(count)
      BY <2>3, <2>4 DEF Clamped, ScrollMax, ScreenInv, ScreenTypes
    <2>6. QED
      BY <2>1, <2>5 DEF ScreenInv, ScreenTypes, HistoryHolds, ScrollMax
  <1>4. ASSUME TypeByte
        PROVE  \E kind \in Kinds : Ingest(kind)
    <2>1. s_ring[s_head].kind \in Kinds
      BY DEF RingInv, RingTypes
    <2>2. QED
      BY <1>4, <2>1 DEF TypeByte
  <1>5. QED
    BY <1>1, <1>2, <1>3, <1>4
       DEF TeletypeNext, teletypeVars, FeedWrite, FeedPublish, GiveBack

(* The slots that DrawMain picks hold the lines of the view.               *)
LEMMA RowsShown == ScreenInv => RowsAreHistory
  <1> SUFFICES ASSUME ScreenInv, NEW r \in 0 .. kRows - 1
               PROVE  IF Behind(r) <= count - 1 THEN lines[Slot(r)] = newest - Behind(r)
                                                ELSE count < kRows
    BY DEF RowsAreHistory
  <1> USE DEF ScreenInv
  <1>1. Behind(r) \in Nat /\ Behind(r) <= ScrollMax(count) + (kRows - 1)
    BY DEF Behind, ScreenTypes, HistoryHolds, ScrollMax
  <1>2. CASE Behind(r) <= count - 1
    <2>1. Slot(r) = Before(head - Behind(r), kScroll)
      <3>1. head \in 0 .. kScroll - 1 /\ Behind(r) \in 0 .. kScroll - 1
        BY <1>1, <1>2 DEF ScreenTypes
      <3>2. CASE head - Behind(r) < 0
        <4>1. head - Behind(r) + kScroll \in 0 .. kScroll - 1
          BY <3>1, <3>2
        <4>2. QED
          BY <3>2, <4>1 DEF Slot, Before
      <3>3. CASE ~(head - Behind(r) < 0)
        <4> DEFINE m == head - Behind(r)
        <4>1. m \in 0 .. kScroll - 1
          BY <3>1, <3>3
        <4> HIDE DEF m
        <4>2. (m + kScroll) % kScroll = m
          BY <4>1
        <4>3. QED
          BY <3>3, <4>2 DEF Slot, Before, m
      <3>4. QED
        BY <3>2, <3>3
    <2>2. QED
      BY <1>1, <1>2, <2>1 DEF HistoryHolds, ScreenTypes
  <1>3. CASE ~(Behind(r) <= count - 1)
    BY <1>1, <1>3 DEF ScrollMax, ScreenTypes
  <1>4. QED
    BY <1>2, <1>3

(* Display, for every history, screen and ring size: what is typed is what *)
(* was fed, in its order and once; every row shows the line that many lines *)
(* back; and no line that arrives moves a reader's view but a full history. *)
THEOREM ScreenTrue == TeletypeSpec => ScreenIsTrue
  <1>1. TeletypeInit => RingInv /\ ScreenInv
    BY RingStart, ScreenStart
  <1>2. RingInv /\ ScreenInv /\ [TeletypeNext]_teletypeVars => (RingInv /\ ScreenInv)'
    BY RingStep, ScreenStep
  <1>3. RingInv /\ [TeletypeNext]_teletypeVars
           => [typed' # typed => s_ring[s_head].n = typed]_teletypeVars
    BY RingStep
  <1>4. RingInv /\ ScreenInv /\ [TeletypeNext]_teletypeVars
           => [scroll > 0 /\ newest' # newest =>
                  \/ newest' - scroll' = newest - scroll
                  \/ count = kScroll /\ scroll' = ScrollMax(kScroll)]_teletypeVars
    BY ScreenStep
  <1>5. ScreenInv => RowsAreHistory
    BY RowsShown
  <1>6. QED
    BY <1>1, <1>2, <1>3, <1>4, <1>5, PTL
       DEF TeletypeSpec, ScreenIsTrue, TypedInOrder, ViewHolds

HIDE TeletypeAssumption
-----------------------------------------------------------------------------
(***************************************************************************)
(* Pairing.  A board may end an election on an old beacon, at another time *)
(* than its peer, in another boot, or load the role that it kept: but the  *)
(* outcome of every election is a function of the two addresses, and those *)
(* do not change.  So whoever has elected holds Elected(b), and OneInitiator *)
(* follows from ElectInitiator being antisymmetric.  The other conjuncts of *)
(* BoardOK say where in the exchange a board can be, which is what keeps a *)
(* role from being used before an election, and a key from a draw that was *)
(* never made.  One lemma per action, one step per conjunct.               *)
(***************************************************************************)
USE PairingAssumption

(* There are two boards.                                                   *)
LEMMA Two ==
  ASSUME NEW b \in Pair
  PROVE  /\ Other(b) \in Pair /\ Other(b) # b /\ Other(Other(b)) = b
         /\ \A c \in Pair : c = b \/ c = Other(b)
  <1>1. PICK x, y \in Pair : x # y /\ Pair = {x, y}
    OBVIOUS
  <1>2. Other(x) = y /\ Other(y) = x
    BY <1>1 DEF Other
  <1>3. QED
    BY <1>1, <1>2

Grows == /\ draw' \in [Pair -> Nat]
         /\ \A c \in Pair : draw[c] <= draw'[c]

Untouched(b) ==
    \A c \in Pair \ {b} :
        /\ at'[c] = at[c] /\ call'[c] = call[c] /\ left'[c] = left[c] /\ id'[c] = id[c]
        /\ elected'[c] = elected[c] /\ heard'[c] = heard[c] /\ key'[c] = key[c]
        /\ nvs'[c] = nvs[c] /\ draw'[c] = draw[c]

(* A step of one board: the other keeps its part of the invariant, since the *)
(* draws only grow.                                                        *)
LEMMA BoardStep ==
  ASSUME PairingInv, NEW b \in Pair, PairingTypeOK', Grows, Untouched(b), AirOK',
         BoardOK(b)'
  PROVE  PairingInv'
  <1> SUFFICES ASSUME NEW c \in Pair, c # b PROVE BoardOK(c)'
    BY DEF PairingInv
  <1>1. BoardOK(c) /\ draw \in [Pair -> Nat]
    BY DEF PairingInv, PairingTypeOK
  <1>2. /\ at'[c] = at[c] /\ call'[c] = call[c] /\ left'[c] = left[c] /\ id'[c] = id[c]
        /\ elected'[c] = elected[c] /\ heard'[c] = heard[c] /\ key'[c] = key[c]
        /\ nvs'[c] = nvs[c] /\ draw'[c] = draw[c]
    BY DEF Untouched
  <1>3. ASSUME NEW d \in Pair PROVE 1 .. draw[d] \subseteq 1 .. draw'[d]
    BY <1>1 DEF Grows
  <1>4. ASSUME NEW k, KeyOfTwo(k) PROVE KeyOfTwo(k)'
    BY <1>3, <1>4 DEF KeyOfTwo
  <1>5. Other(c) \in Pair
    BY Two
  <1>6. (at[c] \in {"resend", "await", "putkey"} =>
          \E n \in 1 .. draw[Other(c)] : heard[c] = {<<Other(c), n>>})
        => (at'[c] \in {"resend", "await", "putkey"} =>
          \E n \in 1 .. draw'[Other(c)] : heard'[c] = {<<Other(c), n>>})
    BY <1>2, <1>3, <1>5
  <1>7. KeyOfTwo(key[c])' /\ KeyOfTwo(nvs[c].pkey)'
    <2>1. KeyOfTwo(key[c]) /\ KeyOfTwo(nvs[c].pkey)
      BY <1>1 DEF BoardOK
    <2>2. (\A d \in Pair : \E n \in 1 .. draw[d] : <<d, n>> \in key[c])
            => (\A d \in Pair : \E n \in 1 .. draw'[d] : <<d, n>> \in key'[c])
      BY <1>2, <1>3
    <2>3. (\A d \in Pair : \E n \in 1 .. draw[d] : <<d, n>> \in nvs[c].pkey)
            => (\A d \in Pair : \E n \in 1 .. draw'[d] : <<d, n>> \in nvs'[c].pkey)
      BY <1>2, <1>3
    <2>4. QED
      BY <1>2, <2>1, <2>2, <2>3 DEF KeyOfTwo
  <1>8. QED
    BY <1>1, <1>2, <1>6, <1>7 DEF BoardOK

(* Frames that could be on the air still can.                              *)
LEMMA FramesGrow ==
  ASSUME PairingTypeOK, Grows, NEW c \in Pair
  PROVE  FramesFrom(c) \subseteq FramesFrom(c)'
  BY DEF FramesFrom, Grows, PairingTypeOK, Beacon

(* A sequence over a set is one over a larger set.                         *)
LEMMA SeqGrows ==
  ASSUME NEW S, NEW T, S \subseteq T, NEW s \in Seq(S)
  PROVE  s \in Seq(T)
  OBVIOUS

(* Nothing sent and nothing taken.                                         *)
LEMMA AirSame ==
  ASSUME PairingTypeOK, AirOK, Grows, UNCHANGED air
  PROVE  AirOK'
  <1> SUFFICES ASSUME NEW c \in Pair PROVE air[c] \in Seq(FramesFrom(Other(c))')
    BY DEF AirOK
  <1>1. FramesFrom(Other(c)) \subseteq FramesFrom(Other(c))'
    BY Two, FramesGrow
  <1>2. QED
    BY <1>1, SeqGrows DEF AirOK

(* A frame taken.                                                          *)
LEMMA AirTake ==
  ASSUME PairingTypeOK, AirOK, Grows, NEW b \in Pair,
         air' = [air EXCEPT ![b] = Tail(@)], air[b] # <<>>
  PROVE  AirOK'
  <1> SUFFICES ASSUME NEW c \in Pair
               PROVE  air'[c] \in Seq(FramesFrom(Other(c))') /\ Len(air'[c]) <= AirCap
    BY DEF AirOK
  <1>1. FramesFrom(Other(c)) \subseteq FramesFrom(Other(c))'
    BY Two, FramesGrow
  <1>2. air[c] \in Seq(FramesFrom(Other(c))) /\ Len(air[c]) <= AirCap /\ Len(air[c]) \in Nat
    BY DEF AirOK
  <1>3. air'[c] = IF c = b THEN Tail(air[c]) ELSE air[c]
    BY DEF AirOK
  <1>4. c = b => /\ Tail(air[c]) \in Seq(FramesFrom(Other(c)))
                 /\ Len(Tail(air[c])) = Len(air[c]) - 1
    BY <1>2, HeadTailProperties
  <1>5. air'[c] \in Seq(FramesFrom(Other(c))) /\ Len(air'[c]) <= AirCap
    BY <1>2, <1>3, <1>4
  <1>6. QED
    BY <1>1, <1>5, SeqGrows

(* A frame sent, which may be lost.                                        *)
LEMMA AirSend ==
  ASSUME PairingTypeOK, AirOK, Grows, NEW b \in Pair, NEW f \in FramesFrom(b)',
         Tx(b, f)
  PROVE  AirOK'
  <1>1. CASE UNCHANGED air
    BY <1>1, AirSame
  <1>2. CASE /\ Len(air[Other(b)]) < AirCap
             /\ air' = [air EXCEPT ![Other(b)] = Append(@, f)]
    <2> SUFFICES ASSUME NEW c \in Pair
                 PROVE  air'[c] \in Seq(FramesFrom(Other(c))') /\ Len(air'[c]) <= AirCap
      BY <1>2 DEF AirOK
    <2>1. FramesFrom(Other(c)) \subseteq FramesFrom(Other(c))'
      BY Two, FramesGrow
    <2>2. air[c] \in Seq(FramesFrom(Other(c))) /\ Len(air[c]) <= AirCap /\ Len(air[c]) \in Nat
      BY DEF AirOK
    <2>3. air[c] \in Seq(FramesFrom(Other(c))')
      BY <2>1, <2>2, SeqGrows
    <2>4. CASE c = Other(b)
      <3>1. Other(c) = b /\ air'[c] = Append(air[c], f)
        BY <1>2, <2>4, Two DEF AirOK
      <3>2. Append(air[c], f) \in Seq(FramesFrom(Other(c))') /\ Len(Append(air[c], f)) = Len(air[c]) + 1
        BY <2>3, <3>1, AppendProperties
      <3>3. QED
        BY <1>2, <2>2, <2>4, <3>1, <3>2
    <2>5. CASE c # Other(b)
      BY <1>2, <2>2, <2>3, <2>5 DEF AirOK
    <2>6. QED
      BY <2>4, <2>5
  <1>3. QED
    BY <1>1, <1>2 DEF Tx

(* A beacon is a frame of its board.                                       *)
LEMMA BeaconSent == ASSUME NEW b \in Pair PROVE Beacon(b) \in FramesFrom(b)'
  BY DEF FramesFrom

(* So is a public key that was drawn.                                      *)
LEMMA PubSent ==
  ASSUME NEW b \in Pair, PairingTypeOK, draw[b] > 0, draw' = draw
  PROVE  Pub(b) \in FramesFrom(b)'
  BY DEF FramesFrom, Pub, PairingTypeOK

(* A board hears its peer only.                                            *)
LEMMA FromPeer ==
  ASSUME AirOK, NEW b \in Pair, air[b] # <<>>
  PROVE  Head(air[b]) \in FramesFrom(Other(b)) /\ Head(air[b]).of = Other(b)
  <1>1. Head(air[b]) \in FramesFrom(Other(b))
    BY HeadTailProperties DEF AirOK
  <1>2. QED
    BY <1>1 DEF FramesFrom, Beacon

(* An election's outcome is an identity.                                   *)
LEMMA ElectedIsId ==
  ASSUME NEW b \in Pair
  PROVE  Elected(b) \in [addr : {1, 2}, peer : {0, 1, 2}]
  BY DEF Elected, AssignAddrs

(* Discovery: a beacon is sent.                                            *)
LEMMA SendDiscBeaconKeeps ==
  ASSUME PairingInv, NEW b \in Pair, SendDiscBeacon(b)
  PROVE  PairingInv'
  <1> USE DEF PairingInv
  <1>0. PairingTypeOK /\ AirOK /\ BoardOK(b) /\ Other(b) \in Pair
    BY Two
  <1>1. PairingTypeOK'
    BY <1>0 DEF PairingTypeOK, SendDiscBeacon, Goes, Places
  <1>2. Grows /\ Untouched(b)
    BY <1>0 DEF PairingTypeOK, Grows, Untouched, SendDiscBeacon, Goes
  <1>3. AirOK'
    <2>1. Tx(b, Beacon(b))
      BY DEF SendDiscBeacon
    <2>2. QED
      BY <1>0, <1>2, <2>1, BeaconSent, AirSend
  <1>4. BoardOK(b)'
    BY <1>0, <1>1 DEF BoardOK, Exchanging, PairingTypeOK, KeyOfTwo, SendDiscBeacon, Goes
  <1>5. QED
    BY <1>1, <1>2, <1>3, <1>4, BoardStep

(* Discovery: a beacon is heard, and the election held.                    *)
LEMMA ElectKeeps ==
  ASSUME PairingInv, NEW b \in Pair, Elect(b)
  PROVE  PairingInv'
  <1> USE DEF PairingInv
  <1>0. PairingTypeOK /\ AirOK /\ BoardOK(b) /\ Other(b) \in Pair
    BY Two
  <1>1. PairingTypeOK'
    <2>1. at' \in [Pair -> Places]
      BY <1>0 DEF PairingTypeOK, Elect, Goes, Places
    <2>2. call' \in [Pair -> [prox : {TRUE}, train : BOOLEAN, ret : {"loop", "hear"}]]
      BY <1>0 DEF PairingTypeOK, Elect, Goes
    <2>3. left' \in [Pair -> 0 .. kDiscConfirm + kPairResends]
      BY <1>0 DEF PairingTypeOK, Elect, Goes
    <2>4. id' \in [Pair -> [addr : {1, 2}, peer : {0, 1, 2}]]
      <3>1. ElectInitiator(b, Other(b)) \in BOOLEAN /\ Head(air[b]).of = Other(b)
        BY <1>0, FromPeer DEF ElectInitiator, Elect, HasBeacon
      <3>2. AssignAddrs(ElectInitiator(b, Head(air[b]).of)) \in [addr : {1, 2}, peer : {0, 1, 2}]
        BY DEF AssignAddrs
      <3>3. QED
        BY <1>0, <3>2 DEF PairingTypeOK, Elect
    <2>5. elected' \in [Pair -> BOOLEAN]
      BY <1>0 DEF PairingTypeOK, Elect, Goes
    <2>6. draw' \in [Pair -> Nat]
      BY <1>0 DEF PairingTypeOK, Elect, Goes
    <2>7. heard' \in [Pair -> Keyed]
      BY <1>0 DEF PairingTypeOK, Elect, Goes
    <2>8. key' \in [Pair -> Keyed]
      BY <1>0 DEF PairingTypeOK, Elect, Goes
    <2>9. nvs' \in [Pair -> [pkey : Keyed, addr : {0, 1, 2}, peer : {0, 1, 2}]]
      BY <1>0 DEF PairingTypeOK, Elect, Goes
    <2>10. QED
      BY <2>1, <2>2, <2>3, <2>4, <2>5, <2>6, <2>7, <2>8, <2>9 DEF PairingTypeOK
  <1>2. Grows /\ Untouched(b)
    BY <1>0 DEF PairingTypeOK, Grows, Untouched, Elect, Goes
  <1>3. AirOK'
    BY <1>0, <1>2, AirTake DEF Elect, Rx, HasBeacon, HasPub
  <1>4. BoardOK(b)'
    <2>1. at'[b] \in Exchanging => draw'[b] > 0
      BY <1>0, <1>1 DEF BoardOK, Exchanging, PairingTypeOK, KeyOfTwo, Elect, Goes
    <2>2. at'[b] \in {"resend", "await", "putkey"} =>
            \E n \in 1 .. draw'[Other(b)] : heard'[b] = {<<Other(b), n>>}
      BY <1>0, <1>1 DEF BoardOK, Exchanging, PairingTypeOK, KeyOfTwo, Elect, Goes
    <2>3. at'[b] = "resend" => left'[b] > 0
      BY <1>0, <1>1 DEF BoardOK, Exchanging, PairingTypeOK, KeyOfTwo, Elect, Goes
    <2>4. at'[b] \in {"confirm", "putrole"} => elected'[b]
      BY <1>0, <1>1 DEF BoardOK, Exchanging, PairingTypeOK, KeyOfTwo, Elect, Goes
    <2>5. at'[b] \in Exchanging => call'[b].train \/ elected'[b]
      BY <1>0, <1>1 DEF BoardOK, Exchanging, PairingTypeOK, KeyOfTwo, Elect, Goes
    <2>6. elected'[b] => id'[b] = Elected(b)
      <3>1. Head(air[b]).of = Other(b)
        BY <1>0, FromPeer DEF Elect, HasBeacon
      <3>2. QED
        BY <1>0, <3>1 DEF PairingTypeOK, Elected, Elect
    <2>7. nvs'[b].addr # 0 => nvs'[b].addr = Elected(b).addr /\ nvs'[b].peer = Elected(b).peer
      BY <1>0, <1>1 DEF BoardOK, Exchanging, PairingTypeOK, KeyOfTwo, Elect, Goes
    <2>8. KeyOfTwo(key[b])'
      BY <1>0, <1>1 DEF BoardOK, Exchanging, PairingTypeOK, KeyOfTwo, Elect, Goes
    <2>9. KeyOfTwo(nvs[b].pkey)'
      BY <1>0, <1>1 DEF BoardOK, Exchanging, PairingTypeOK, KeyOfTwo, Elect, Goes
    <2>10. QED
      BY <2>1, <2>2, <2>3, <2>4, <2>5, <2>6, <2>7, <2>8, <2>9 DEF BoardOK
  <1>5. QED
    BY <1>1, <1>2, <1>3, <1>4, BoardStep

(* Discovery: the window passes.                                           *)
LEMMA HearsNothingKeeps ==
  ASSUME PairingInv, NEW b \in Pair, HearsNothing(b)
  PROVE  PairingInv'
  <1> USE DEF PairingInv
  <1>0. PairingTypeOK /\ AirOK /\ BoardOK(b) /\ Other(b) \in Pair
    BY Two
  <1>1. PairingTypeOK'
    BY <1>0 DEF PairingTypeOK, HearsNothing, Goes, Places
  <1>2. Grows /\ Untouched(b)
    BY <1>0 DEF PairingTypeOK, Grows, Untouched, HearsNothing, Goes
  <1>3. AirOK'
    BY <1>0, <1>2, AirTake, AirSame DEF HearsNothing, Rx
  <1>4. BoardOK(b)'
    BY <1>0, <1>1 DEF BoardOK, Exchanging, PairingTypeOK, KeyOfTwo, HearsNothing, Goes
  <1>5. QED
    BY <1>1, <1>2, <1>3, <1>4, BoardStep

(* Discovery: the beacons after the election.                              *)
LEMMA ConfirmKeeps ==
  ASSUME PairingInv, NEW b \in Pair, Confirm(b)
  PROVE  PairingInv'
  <1> USE DEF PairingInv
  <1>0. PairingTypeOK /\ AirOK /\ BoardOK(b) /\ Other(b) \in Pair
    BY Two
  <1>1. PairingTypeOK'
    <2>1. at' \in [Pair -> Places]
      BY <1>0 DEF PairingTypeOK, Confirm, Starts, Goes, NoKey, Places
    <2>2. call' \in [Pair -> [prox : {TRUE}, train : BOOLEAN, ret : {"loop", "hear"}]]
      BY <1>0 DEF PairingTypeOK, Confirm, Starts, Goes, NoKey
    <2>3. left' \in [Pair -> 0 .. kDiscConfirm + kPairResends]
      <3>1. left[b] - 1 \in 0 .. kDiscConfirm + kPairResends
        BY <1>0 DEF PairingTypeOK, Confirm
      <3>2. QED
        BY <1>0, <3>1 DEF PairingTypeOK, Confirm
    <2>4. id' \in [Pair -> [addr : {1, 2}, peer : {0, 1, 2}]]
      BY <1>0 DEF PairingTypeOK, Confirm, Starts, Goes, NoKey
    <2>5. elected' \in [Pair -> BOOLEAN]
      BY <1>0 DEF PairingTypeOK, Confirm, Starts, Goes, NoKey
    <2>6. draw' \in [Pair -> Nat]
      BY <1>0 DEF PairingTypeOK, Confirm, Starts, Goes, NoKey
    <2>7. heard' \in [Pair -> Keyed]
      <3>1. NoKey \in Keyed
        BY DEF NoKey, Keyed
      <3>2. heard' = heard \/ heard' = [heard EXCEPT ![b] = NoKey]
        BY DEF Confirm, Starts
      <3>3. QED
        BY <1>0, <3>1, <3>2 DEF PairingTypeOK
    <2>8. key' \in [Pair -> Keyed]
      BY <1>0 DEF PairingTypeOK, Confirm, Starts, Goes, NoKey
    <2>9. nvs' \in [Pair -> [pkey : Keyed, addr : {0, 1, 2}, peer : {0, 1, 2}]]
      BY <1>0 DEF PairingTypeOK, Confirm, Starts, Goes, NoKey
    <2>10. QED
      BY <2>1, <2>2, <2>3, <2>4, <2>5, <2>6, <2>7, <2>8, <2>9 DEF PairingTypeOK
  <1>2. Grows /\ Untouched(b)
    BY <1>0 DEF PairingTypeOK, Grows, Untouched, Confirm, Starts, Goes, NoKey
  <1>3. AirOK'
    <2>1. Tx(b, Beacon(b))
      BY DEF Confirm
    <2>2. QED
      BY <1>0, <1>2, <2>1, BeaconSent, AirSend
  <1>4. BoardOK(b)'
    BY <1>0, <1>1 DEF BoardOK, Exchanging, PairingTypeOK, KeyOfTwo, Confirm, Starts,
       Goes, NoKey
  <1>5. QED
    BY <1>1, <1>2, <1>3, <1>4, BoardStep

(* The exchange: the public key is sent.                                   *)
LEMMA PairTxKeeps ==
  ASSUME PairingInv, NEW b \in Pair, PairTx(b)
  PROVE  PairingInv'
  <1> USE DEF PairingInv
  <1>0. PairingTypeOK /\ AirOK /\ BoardOK(b) /\ Other(b) \in Pair
    BY Two
  <1>1. PairingTypeOK'
    BY <1>0 DEF PairingTypeOK, PairTx, Goes, Places
  <1>2. Grows /\ Untouched(b)
    BY <1>0 DEF PairingTypeOK, Grows, Untouched, PairTx, Goes
  <1>3. AirOK'
    <2>1. draw[b] > 0 /\ draw' = draw
      BY <1>0 DEF PairTx, BoardOK, Exchanging
    <2>2. Pub(b) \in FramesFrom(b)' /\ Tx(b, Pub(b))
      BY <1>0, <2>1, PubSent DEF PairTx
    <2>3. QED
      BY <1>0, <1>2, <2>2, AirSend
  <1>4. BoardOK(b)'
    BY <1>0, <1>1 DEF BoardOK, Exchanging, PairingTypeOK, KeyOfTwo, PairTx, Goes
  <1>5. QED
    BY <1>1, <1>2, <1>3, <1>4, BoardStep

(* The exchange: the peer's is heard.                                      *)
LEMMA PairHeardKeeps ==
  ASSUME PairingInv, NEW b \in Pair, PairHeard(b)
  PROVE  PairingInv'
  <1> USE DEF PairingInv
  <1>0. PairingTypeOK /\ AirOK /\ BoardOK(b) /\ Other(b) \in Pair
    BY Two
  <1>1. PairingTypeOK'
    <2>1. at' \in [Pair -> Places]
      BY <1>0 DEF PairingTypeOK, PairHeard, Goes, Places
    <2>2. call' \in [Pair -> [prox : {TRUE}, train : BOOLEAN, ret : {"loop", "hear"}]]
      BY <1>0 DEF PairingTypeOK, PairHeard, Goes
    <2>3. left' \in [Pair -> 0 .. kDiscConfirm + kPairResends]
      BY <1>0 DEF PairingTypeOK, PairHeard, Goes
    <2>4. id' \in [Pair -> [addr : {1, 2}, peer : {0, 1, 2}]]
      BY <1>0 DEF PairingTypeOK, PairHeard, Goes
    <2>5. elected' \in [Pair -> BOOLEAN]
      BY <1>0 DEF PairingTypeOK, PairHeard, Goes
    <2>6. draw' \in [Pair -> Nat]
      BY <1>0 DEF PairingTypeOK, PairHeard, Goes
    <2>7. heard' \in [Pair -> Keyed]
      <3>1. PICK n \in 1 .. draw[Other(b)] : Head(air[b]) = [type |-> "pair", of |-> Other(b), n |-> n]
        BY <1>0, FromPeer DEF PairHeard, HasPub, FramesFrom, Beacon
      <3>2. {<<Head(air[b]).of, Head(air[b]).n>>} \in Keyed
        BY <1>0, <3>1 DEF Keyed, PairingTypeOK
      <3>3. QED
        BY <1>0, <3>2 DEF PairingTypeOK, PairHeard
    <2>8. key' \in [Pair -> Keyed]
      BY <1>0 DEF PairingTypeOK, PairHeard, Goes
    <2>9. nvs' \in [Pair -> [pkey : Keyed, addr : {0, 1, 2}, peer : {0, 1, 2}]]
      BY <1>0 DEF PairingTypeOK, PairHeard, Goes
    <2>10. QED
      BY <2>1, <2>2, <2>3, <2>4, <2>5, <2>6, <2>7, <2>8, <2>9 DEF PairingTypeOK
  <1>2. Grows /\ Untouched(b)
    BY <1>0 DEF PairingTypeOK, Grows, Untouched, PairHeard, Goes
  <1>3. AirOK'
    BY <1>0, <1>2, AirTake DEF PairHeard, Rx, HasBeacon, HasPub
  <1>4. BoardOK(b)'
    <2>1. at'[b] \in Exchanging => draw'[b] > 0
      BY <1>0, <1>1 DEF BoardOK, Exchanging, PairingTypeOK, KeyOfTwo, PairHeard, Goes
    <2>2. at'[b] \in {"resend", "await", "putkey"} =>
            \E n \in 1 .. draw'[Other(b)] : heard'[b] = {<<Other(b), n>>}
      <3>1. PICK n \in 1 .. draw[Other(b)] : Head(air[b]) = [type |-> "pair", of |-> Other(b), n |-> n]
        BY <1>0, FromPeer DEF PairHeard, HasPub, FramesFrom, Beacon
      <3>2. heard'[b] = {<<Other(b), n>>} /\ draw' = draw
        BY <1>0, <3>1 DEF PairingTypeOK, PairHeard
      <3>3. QED
        BY <3>2
    <2>3. at'[b] = "resend" => left'[b] > 0
      BY <1>0, <1>1 DEF BoardOK, Exchanging, PairingTypeOK, KeyOfTwo, PairHeard, Goes
    <2>4. at'[b] \in {"confirm", "putrole"} => elected'[b]
      BY <1>0, <1>1 DEF BoardOK, Exchanging, PairingTypeOK, KeyOfTwo, PairHeard, Goes
    <2>5. at'[b] \in Exchanging => call'[b].train \/ elected'[b]
      BY <1>0, <1>1 DEF BoardOK, Exchanging, PairingTypeOK, KeyOfTwo, PairHeard, Goes
    <2>6. elected'[b] => id'[b] = Elected(b)
      BY <1>0, <1>1 DEF BoardOK, Exchanging, PairingTypeOK, KeyOfTwo, PairHeard, Goes
    <2>7. nvs'[b].addr # 0 => nvs'[b].addr = Elected(b).addr /\ nvs'[b].peer = Elected(b).peer
      BY <1>0, <1>1 DEF BoardOK, Exchanging, PairingTypeOK, KeyOfTwo, PairHeard, Goes
    <2>8. KeyOfTwo(key[b])'
      BY <1>0, <1>1 DEF BoardOK, Exchanging, PairingTypeOK, KeyOfTwo, PairHeard, Goes
    <2>9. KeyOfTwo(nvs[b].pkey)'
      BY <1>0, <1>1 DEF BoardOK, Exchanging, PairingTypeOK, KeyOfTwo, PairHeard, Goes
    <2>10. QED
      BY <2>1, <2>2, <2>3, <2>4, <2>5, <2>6, <2>7, <2>8, <2>9 DEF BoardOK
  <1>5. QED
    BY <1>1, <1>2, <1>3, <1>4, BoardStep

(* The exchange: nothing, or another frame, is heard.                      *)
LEMMA PairUnheardKeeps ==
  ASSUME PairingInv, NEW b \in Pair, PairUnheard(b)
  PROVE  PairingInv'
  <1> USE DEF PairingInv
  <1>0. PairingTypeOK /\ AirOK /\ BoardOK(b) /\ Other(b) \in Pair
    BY Two
  <1>1. PairingTypeOK'
    BY <1>0 DEF PairingTypeOK, PairUnheard, Goes, Places
  <1>2. Grows /\ Untouched(b)
    BY <1>0 DEF PairingTypeOK, Grows, Untouched, PairUnheard, Goes
  <1>3. AirOK'
    BY <1>0, <1>2, AirTake, AirSame DEF PairUnheard, Rx
  <1>4. BoardOK(b)'
    BY <1>0, <1>1 DEF BoardOK, Exchanging, PairingTypeOK, KeyOfTwo, PairUnheard, Goes
  <1>5. QED
    BY <1>1, <1>2, <1>3, <1>4, BoardStep

(* The exchange: its time is over.                                         *)
LEMMA PairGivesUpKeeps ==
  ASSUME PairingInv, NEW b \in Pair, PairGivesUp(b)
  PROVE  PairingInv'
  <1> USE DEF PairingInv
  <1>0. PairingTypeOK /\ AirOK /\ BoardOK(b) /\ Other(b) \in Pair
    BY Two
  <1>1. PairingTypeOK'
    <2>1. at' \in [Pair -> Places]
      BY <1>0 DEF PairingTypeOK, PairGivesUp, Goes, Places
    <2>2. call' \in [Pair -> [prox : {TRUE}, train : BOOLEAN, ret : {"loop", "hear"}]]
      <3>1. call[b] \in [prox : {TRUE}, train : BOOLEAN, ret : {"loop", "hear"}]
        BY <1>0 DEF PairingTypeOK
      <3>2. [[call[b] EXCEPT !.train = FALSE] EXCEPT !.ret = "loop"] \in [prox : {TRUE}, train : BOOLEAN, ret : {"loop", "hear"}]
        BY <3>1
      <3>3. call' = [call EXCEPT ![b] = [[call[b] EXCEPT !.train = FALSE] EXCEPT !.ret = "loop"]]
        BY <1>0 DEF PairingTypeOK, PairGivesUp
      <3>4. QED
        BY <1>0, <3>2, <3>3 DEF PairingTypeOK
    <2>3. left' \in [Pair -> 0 .. kDiscConfirm + kPairResends]
      BY <1>0 DEF PairingTypeOK, PairGivesUp, Goes
    <2>4. id' \in [Pair -> [addr : {1, 2}, peer : {0, 1, 2}]]
      BY <1>0 DEF PairingTypeOK, PairGivesUp, Goes
    <2>5. elected' \in [Pair -> BOOLEAN]
      BY <1>0 DEF PairingTypeOK, PairGivesUp, Goes
    <2>6. draw' \in [Pair -> Nat]
      BY <1>0 DEF PairingTypeOK, PairGivesUp, Goes
    <2>7. heard' \in [Pair -> Keyed]
      BY <1>0 DEF PairingTypeOK, PairGivesUp, Goes
    <2>8. key' \in [Pair -> Keyed]
      BY <1>0 DEF PairingTypeOK, PairGivesUp, Goes
    <2>9. nvs' \in [Pair -> [pkey : Keyed, addr : {0, 1, 2}, peer : {0, 1, 2}]]
      BY <1>0 DEF PairingTypeOK, PairGivesUp, Goes
    <2>10. QED
      BY <2>1, <2>2, <2>3, <2>4, <2>5, <2>6, <2>7, <2>8, <2>9 DEF PairingTypeOK
  <1>2. Grows /\ Untouched(b)
    BY <1>0 DEF PairingTypeOK, Grows, Untouched, PairGivesUp, Goes
  <1>3. AirOK'
    BY <1>0, <1>2, AirSame DEF PairGivesUp
  <1>4. BoardOK(b)'
    <2>1. at'[b] \in Exchanging => draw'[b] > 0
      BY <1>0, <1>1 DEF BoardOK, Exchanging, PairingTypeOK, KeyOfTwo, PairGivesUp, Goes
    <2>2. at'[b] \in {"resend", "await", "putkey"} =>
            \E n \in 1 .. draw'[Other(b)] : heard'[b] = {<<Other(b), n>>}
      BY <1>0, <1>1 DEF BoardOK, Exchanging, PairingTypeOK, KeyOfTwo, PairGivesUp, Goes
    <2>3. at'[b] = "resend" => left'[b] > 0
      BY <1>0, <1>1 DEF BoardOK, Exchanging, PairingTypeOK, KeyOfTwo, PairGivesUp, Goes
    <2>4. at'[b] \in {"confirm", "putrole"} => elected'[b]
      BY <1>0, <1>1 DEF BoardOK, Exchanging, PairingTypeOK, KeyOfTwo, PairGivesUp, Goes
    <2>5. at'[b] \in Exchanging => call'[b].train \/ elected'[b]
      BY <1>0, <1>1 DEF BoardOK, Exchanging, PairingTypeOK, KeyOfTwo, PairGivesUp, Goes
    <2>6. elected'[b] => id'[b] = Elected(b)
      BY <1>0, <1>1 DEF BoardOK, Exchanging, PairingTypeOK, KeyOfTwo, PairGivesUp, Goes
    <2>7. nvs'[b].addr # 0 => nvs'[b].addr = Elected(b).addr /\ nvs'[b].peer = Elected(b).peer
      BY <1>0, <1>1 DEF BoardOK, Exchanging, PairingTypeOK, KeyOfTwo, PairGivesUp, Goes
    <2>8. KeyOfTwo(key[b])'
      BY <1>0, <1>1 DEF BoardOK, Exchanging, PairingTypeOK, KeyOfTwo, PairGivesUp, Goes
    <2>9. KeyOfTwo(nvs[b].pkey)'
      BY <1>0, <1>1 DEF BoardOK, Exchanging, PairingTypeOK, KeyOfTwo, PairGivesUp, Goes
    <2>10. QED
      BY <2>1, <2>2, <2>3, <2>4, <2>5, <2>6, <2>7, <2>8, <2>9 DEF BoardOK
  <1>5. QED
    BY <1>1, <1>2, <1>3, <1>4, BoardStep

(* The exchange: the public key is sent again.                             *)
LEMMA ResendKeeps ==
  ASSUME PairingInv, NEW b \in Pair, Resend(b)
  PROVE  PairingInv'
  <1> USE DEF PairingInv
  <1>0. PairingTypeOK /\ AirOK /\ BoardOK(b) /\ Other(b) \in Pair
    BY Two
  <1>1. PairingTypeOK'
    <2>1. at' \in [Pair -> Places]
      BY <1>0 DEF PairingTypeOK, Resend, Goes, Places
    <2>2. call' \in [Pair -> [prox : {TRUE}, train : BOOLEAN, ret : {"loop", "hear"}]]
      BY <1>0 DEF PairingTypeOK, Resend, Goes
    <2>3. left' \in [Pair -> 0 .. kDiscConfirm + kPairResends]
      <3>1. left[b] - 1 \in 0 .. kDiscConfirm + kPairResends
        BY <1>0 DEF PairingTypeOK, Resend, BoardOK
      <3>2. QED
        BY <1>0, <3>1 DEF PairingTypeOK, Resend
    <2>4. id' \in [Pair -> [addr : {1, 2}, peer : {0, 1, 2}]]
      BY <1>0 DEF PairingTypeOK, Resend, Goes
    <2>5. elected' \in [Pair -> BOOLEAN]
      BY <1>0 DEF PairingTypeOK, Resend, Goes
    <2>6. draw' \in [Pair -> Nat]
      BY <1>0 DEF PairingTypeOK, Resend, Goes
    <2>7. heard' \in [Pair -> Keyed]
      BY <1>0 DEF PairingTypeOK, Resend, Goes
    <2>8. key' \in [Pair -> Keyed]
      BY <1>0 DEF PairingTypeOK, Resend, Goes
    <2>9. nvs' \in [Pair -> [pkey : Keyed, addr : {0, 1, 2}, peer : {0, 1, 2}]]
      BY <1>0 DEF PairingTypeOK, Resend, Goes
    <2>10. QED
      BY <2>1, <2>2, <2>3, <2>4, <2>5, <2>6, <2>7, <2>8, <2>9 DEF PairingTypeOK
  <1>2. Grows /\ Untouched(b)
    BY <1>0 DEF PairingTypeOK, Grows, Untouched, Resend, Goes
  <1>3. AirOK'
    <2>1. draw[b] > 0 /\ draw' = draw
      BY <1>0 DEF Resend, BoardOK, Exchanging
    <2>2. Pub(b) \in FramesFrom(b)' /\ Tx(b, Pub(b))
      BY <1>0, <2>1, PubSent DEF Resend
    <2>3. QED
      BY <1>0, <1>2, <2>2, AirSend
  <1>4. BoardOK(b)'
    BY <1>0, <1>1 DEF BoardOK, Exchanging, PairingTypeOK, KeyOfTwo, Resend, Goes
  <1>5. QED
    BY <1>1, <1>2, <1>3, <1>4, BoardStep

(* The exchange: frames that arrive meanwhile.                             *)
LEMMA ResendRxKeeps ==
  ASSUME PairingInv, NEW b \in Pair, ResendRx(b)
  PROVE  PairingInv'
  <1> USE DEF PairingInv
  <1>0. PairingTypeOK /\ AirOK /\ BoardOK(b) /\ Other(b) \in Pair
    BY Two
  <1>1. PairingTypeOK'
    BY <1>0 DEF PairingTypeOK, ResendRx, Goes, Places
  <1>2. Grows /\ Untouched(b)
    BY <1>0 DEF PairingTypeOK, Grows, Untouched, ResendRx, Goes
  <1>3. AirOK'
    BY <1>0, <1>2, AirTake, AirSame DEF ResendRx, Rx
  <1>4. BoardOK(b)'
    <2>1. at'[b] \in Exchanging => draw'[b] > 0
      BY <1>0, <1>1 DEF BoardOK, Exchanging, PairingTypeOK, KeyOfTwo, ResendRx, Goes
    <2>2. at'[b] \in {"resend", "await", "putkey"} =>
            \E n \in 1 .. draw'[Other(b)] : heard'[b] = {<<Other(b), n>>}
      BY <1>0, <1>1 DEF BoardOK, Exchanging, PairingTypeOK, KeyOfTwo, ResendRx, Goes
    <2>3. at'[b] = "resend" => left'[b] > 0
      BY <1>0, <1>1 DEF BoardOK, Exchanging, PairingTypeOK, KeyOfTwo, ResendRx, Goes
    <2>4. at'[b] \in {"confirm", "putrole"} => elected'[b]
      BY <1>0, <1>1 DEF BoardOK, Exchanging, PairingTypeOK, KeyOfTwo, ResendRx, Goes
    <2>5. at'[b] \in Exchanging => call'[b].train \/ elected'[b]
      BY <1>0, <1>1 DEF BoardOK, Exchanging, PairingTypeOK, KeyOfTwo, ResendRx, Goes
    <2>6. elected'[b] => id'[b] = Elected(b)
      BY <1>0, <1>1 DEF BoardOK, Exchanging, PairingTypeOK, KeyOfTwo, ResendRx, Goes
    <2>7. nvs'[b].addr # 0 => nvs'[b].addr = Elected(b).addr /\ nvs'[b].peer = Elected(b).peer
      BY <1>0, <1>1 DEF BoardOK, Exchanging, PairingTypeOK, KeyOfTwo, ResendRx, Goes
    <2>8. KeyOfTwo(key[b])'
      BY <1>0, <1>1 DEF BoardOK, Exchanging, PairingTypeOK, KeyOfTwo, ResendRx, Goes
    <2>9. KeyOfTwo(nvs[b].pkey)'
      BY <1>0, <1>1 DEF BoardOK, Exchanging, PairingTypeOK, KeyOfTwo, ResendRx, Goes
    <2>10. QED
      BY <2>1, <2>2, <2>3, <2>4, <2>5, <2>6, <2>7, <2>8, <2>9 DEF BoardOK
  <1>5. QED
    BY <1>1, <1>2, <1>3, <1>4, BoardStep

(* The key is derived and kept in flash.                                   *)
LEMMA PutKeyKeeps ==
  ASSUME PairingInv, NEW b \in Pair, PutKey(b)
  PROVE  PairingInv'
  <1> USE DEF PairingInv
  <1>0. PairingTypeOK /\ AirOK /\ BoardOK(b) /\ Other(b) \in Pair
    BY Two
  <1>1. PairingTypeOK'
    <2>1. at' \in [Pair -> Places]
      BY <1>0 DEF PairingTypeOK, PutKey, Goes, Places
    <2>2. call' \in [Pair -> [prox : {TRUE}, train : BOOLEAN, ret : {"loop", "hear"}]]
      <3>1. call[b] \in [prox : {TRUE}, train : BOOLEAN, ret : {"loop", "hear"}]
        BY <1>0 DEF PairingTypeOK
      <3>2. [[call[b] EXCEPT !.train = FALSE] EXCEPT !.ret = "loop"] \in [prox : {TRUE}, train : BOOLEAN, ret : {"loop", "hear"}]
        BY <3>1
      <3>3. call' = [call EXCEPT ![b] = [[call[b] EXCEPT !.train = FALSE] EXCEPT !.ret = "loop"]]
        BY <1>0 DEF PairingTypeOK, PutKey
      <3>4. QED
        BY <1>0, <3>2, <3>3 DEF PairingTypeOK
    <2>3. left' \in [Pair -> 0 .. kDiscConfirm + kPairResends]
      BY <1>0 DEF PairingTypeOK, PutKey, Goes
    <2>4. id' \in [Pair -> [addr : {1, 2}, peer : {0, 1, 2}]]
      BY <1>0 DEF PairingTypeOK, PutKey, Goes
    <2>5. elected' \in [Pair -> BOOLEAN]
      BY <1>0 DEF PairingTypeOK, PutKey, Goes
    <2>6. draw' \in [Pair -> Nat]
      BY <1>0 DEF PairingTypeOK, PutKey, Goes
    <2>7. heard' \in [Pair -> Keyed]
      BY <1>0 DEF PairingTypeOK, PutKey, Goes
    <2>8. key' \in [Pair -> Keyed]
      <3>1. draw[b] \in Nat /\ heard[b] \in Keyed
        BY <1>0 DEF PairingTypeOK
      <3>2. {<<b, draw[b]>>} \union heard[b] \in Keyed
        BY <3>1 DEF Keyed
      <3>3. QED
        BY <1>0, <3>2 DEF PairingTypeOK, PutKey
    <2>9. nvs' \in [Pair -> [pkey : Keyed, addr : {0, 1, 2}, peer : {0, 1, 2}]]
      <3>1. key'[b] \in Keyed
        BY <2>8
      <3>2. nvs[b] \in [pkey : Keyed, addr : {0, 1, 2}, peer : {0, 1, 2}]
        BY <1>0 DEF PairingTypeOK
      <3>3. [nvs[b] EXCEPT !.pkey = key'[b]] \in [pkey : Keyed, addr : {0, 1, 2}, peer : {0, 1, 2}]
        BY <3>1, <3>2
      <3>4. nvs' = [nvs EXCEPT ![b] = [nvs[b] EXCEPT !.pkey = key'[b]]]
        BY <1>0 DEF PairingTypeOK, PutKey
      <3>5. QED
        BY <1>0, <3>3, <3>4 DEF PairingTypeOK
    <2>10. QED
      BY <2>1, <2>2, <2>3, <2>4, <2>5, <2>6, <2>7, <2>8, <2>9 DEF PairingTypeOK
  <1>2. Grows /\ Untouched(b)
    BY <1>0 DEF PairingTypeOK, Grows, Untouched, PutKey, Goes
  <1>3. AirOK'
    BY <1>0, <1>2, AirSame DEF PutKey
  <1>4. BoardOK(b)'
    <2>1. at'[b] \in Exchanging => draw'[b] > 0
      BY <1>0, <1>1 DEF BoardOK, Exchanging, PairingTypeOK, KeyOfTwo, PutKey, Goes
    <2>2. at'[b] \in {"resend", "await", "putkey"} =>
            \E n \in 1 .. draw'[Other(b)] : heard'[b] = {<<Other(b), n>>}
      BY <1>0, <1>1 DEF BoardOK, Exchanging, PairingTypeOK, KeyOfTwo, PutKey, Goes
    <2>3. at'[b] = "resend" => left'[b] > 0
      BY <1>0, <1>1 DEF BoardOK, Exchanging, PairingTypeOK, KeyOfTwo, PutKey, Goes
    <2>4. at'[b] \in {"confirm", "putrole"} => elected'[b]
      BY <1>0, <1>1 DEF BoardOK, Exchanging, PairingTypeOK, KeyOfTwo, PutKey, Goes
    <2>5. at'[b] \in Exchanging => call'[b].train \/ elected'[b]
      BY <1>0, <1>1 DEF BoardOK, Exchanging, PairingTypeOK, KeyOfTwo, PutKey, Goes
    <2>6. elected'[b] => id'[b] = Elected(b)
      BY <1>0, <1>1 DEF BoardOK, Exchanging, PairingTypeOK, KeyOfTwo, PutKey, Goes
    <2>7. nvs'[b].addr # 0 => nvs'[b].addr = Elected(b).addr /\ nvs'[b].peer = Elected(b).peer
      BY <1>0, <1>1 DEF BoardOK, Exchanging, PairingTypeOK, KeyOfTwo, PutKey, Goes
    <2>8. KeyOfTwo(key[b])'
      <3>1. PICK n \in 1 .. draw[Other(b)] : heard[b] = {<<Other(b), n>>}
        BY <1>0 DEF PutKey, BoardOK
      <3>2. draw[b] \in 1 .. draw[b] /\ draw' = draw
        BY <1>0 DEF PutKey, BoardOK, Exchanging, PairingTypeOK
      <3>3. key'[b] = {<<b, draw[b]>>, <<Other(b), n>>}
        BY <1>0, <3>1 DEF PairingTypeOK, PutKey
      <3>4. ASSUME NEW c \in Pair PROVE \E i \in 1 .. draw[c] : <<c, i>> \in key'[b]
        BY <3>1, <3>2, <3>3, Two
      <3>5. QED
        BY <3>2, <3>4 DEF KeyOfTwo
    <2>9. KeyOfTwo(nvs[b].pkey)'
      <3>1. nvs'[b].pkey = key'[b]
        BY <1>0 DEF PairingTypeOK, PutKey
      <3>2. QED
        BY <2>8, <3>1 DEF KeyOfTwo
    <2>10. QED
      BY <2>1, <2>2, <2>3, <2>4, <2>5, <2>6, <2>7, <2>8, <2>9 DEF BoardOK
  <1>5. QED
    BY <1>1, <1>2, <1>3, <1>4, BoardStep

(* The role is kept in flash.                                              *)
LEMMA PersistRoleKeeps ==
  ASSUME PairingInv, NEW b \in Pair, PersistRole(b)
  PROVE  PairingInv'
  <1> USE DEF PairingInv
  <1>0. PairingTypeOK /\ AirOK /\ BoardOK(b) /\ Other(b) \in Pair
    BY Two
  <1>1. PairingTypeOK'
    <2>1. at' \in [Pair -> Places]
      BY <1>0 DEF PairingTypeOK, PersistRole, Goes, Places
    <2>2. call' \in [Pair -> [prox : {TRUE}, train : BOOLEAN, ret : {"loop", "hear"}]]
      BY <1>0 DEF PairingTypeOK, PersistRole, Goes
    <2>3. left' \in [Pair -> 0 .. kDiscConfirm + kPairResends]
      BY <1>0 DEF PairingTypeOK, PersistRole, Goes
    <2>4. id' \in [Pair -> [addr : {1, 2}, peer : {0, 1, 2}]]
      BY <1>0 DEF PairingTypeOK, PersistRole, Goes
    <2>5. elected' \in [Pair -> BOOLEAN]
      BY <1>0 DEF PairingTypeOK, PersistRole, Goes
    <2>6. draw' \in [Pair -> Nat]
      BY <1>0 DEF PairingTypeOK, PersistRole, Goes
    <2>7. heard' \in [Pair -> Keyed]
      BY <1>0 DEF PairingTypeOK, PersistRole, Goes
    <2>8. key' \in [Pair -> Keyed]
      BY <1>0 DEF PairingTypeOK, PersistRole, Goes
    <2>9. nvs' \in [Pair -> [pkey : Keyed, addr : {0, 1, 2}, peer : {0, 1, 2}]]
      BY <1>0 DEF PairingTypeOK, PersistRole, Goes
    <2>10. QED
      BY <2>1, <2>2, <2>3, <2>4, <2>5, <2>6, <2>7, <2>8, <2>9 DEF PairingTypeOK
  <1>2. Grows /\ Untouched(b)
    BY <1>0 DEF PairingTypeOK, Grows, Untouched, PersistRole, Goes
  <1>3. AirOK'
    BY <1>0, <1>2, AirSame DEF PersistRole
  <1>4. BoardOK(b)'
    BY <1>0, <1>1 DEF BoardOK, Exchanging, PairingTypeOK, KeyOfTwo, PersistRole, Goes
  <1>5. QED
    BY <1>1, <1>2, <1>3, <1>4, BoardStep

(* A board in its loop that hears a beacon.                                *)
LEMMA DiscHandleRxKeeps ==
  ASSUME PairingInv, NEW b \in Pair, DiscHandleRx(b)
  PROVE  PairingInv'
  <1> USE DEF PairingInv
  <1>0. PairingTypeOK /\ AirOK /\ BoardOK(b) /\ Other(b) \in Pair
    BY Two
  <1>1. PairingTypeOK'
    BY <1>0 DEF PairingTypeOK, DiscHandleRx
  <1>2. Grows /\ Untouched(b)
    BY <1>0 DEF PairingTypeOK, Grows, Untouched, DiscHandleRx
  <1>3. AirOK'
    <2> DEFINE cleared == [air EXCEPT ![b] = Tail(@)]
               there == Other(b)
    <2>1. /\ \/ air' = cleared
             \/ Len(air[there]) < AirCap /\ air' = [cleared EXCEPT ![there] = Append(@, Beacon(b))]
          /\ air[b] # <<>> /\ draw' = draw
      BY DEF DiscHandleRx, HasBeacon
    <2>2. there \in Pair /\ there # b /\ Other(there) = b /\ DOMAIN air = Pair
          /\ \A c \in Pair : c = b \/ c = there
      BY <1>0, Two DEF AirOK
    <2>3. Tail(air[b]) \in Seq(FramesFrom(there)) /\ Len(Tail(air[b])) <= AirCap
      <3>1. air[b] \in Seq(FramesFrom(there)) /\ Len(air[b]) <= AirCap /\ air[b] # <<>>
        BY <1>0, <2>1 DEF AirOK
      <3>2. Tail(air[b]) \in Seq(FramesFrom(there)) /\ Len(Tail(air[b])) = Len(air[b]) - 1
            /\ Len(air[b]) \in Nat
        BY <3>1, HeadTailProperties
      <3>3. QED
        BY <3>1, <3>2
    <2>4. air[there] \in Seq(FramesFrom(b)) /\ Len(air[there]) <= AirCap
      BY <1>0, <2>2 DEF AirOK
    <2>5. Len(air[there]) < AirCap => /\ Append(air[there], Beacon(b)) \in Seq(FramesFrom(b))
                                      /\ Len(Append(air[there], Beacon(b))) <= AirCap
      <3>1. Beacon(b) \in FramesFrom(b)
        BY DEF FramesFrom
      <3>2. /\ Append(air[there], Beacon(b)) \in Seq(FramesFrom(b))
            /\ Len(Append(air[there], Beacon(b))) = Len(air[there]) + 1 /\ Len(air[there]) \in Nat
        BY <2>4, <3>1, AppendProperties
      <3>3. QED
        BY <3>2
    <2> HIDE DEF there
    <2>6. /\ DOMAIN air' = Pair
          /\ air'[b] = Tail(air[b])
          /\ \/ air'[there] = air[there]
             \/ Len(air[there]) < AirCap /\ air'[there] = Append(air[there], Beacon(b))
      BY <2>1, <2>2
    <2>7. air'[b] \in Seq(FramesFrom(there)) /\ Len(air'[b]) <= AirCap
      BY <2>3, <2>6
    <2>8. air'[there] \in Seq(FramesFrom(b)) /\ Len(air'[there]) <= AirCap
      BY <2>4, <2>5, <2>6
    <2>9. FramesFrom(b)' = FramesFrom(b) /\ FramesFrom(there)' = FramesFrom(there)
      BY <2>1 DEF FramesFrom
    <2>10. ASSUME NEW c \in Pair
           PROVE  air'[c] \in Seq(FramesFrom(Other(c))') /\ Len(air'[c]) <= AirCap
      <3>1. CASE c = b
        BY <2>7, <2>9, <3>1 DEF there
      <3>2. CASE c = there
        BY <2>2, <2>8, <2>9, <3>2
      <3>3. QED
        BY <2>2, <3>1, <3>2
    <2>11. QED
      BY <2>6, <2>10 DEF AirOK
  <1>4. BoardOK(b)'
    BY <1>0, <1>1 DEF BoardOK, Exchanging, PairingTypeOK, KeyOfTwo, DiscHandleRx
  <1>5. QED
    BY <1>1, <1>2, <1>3, <1>4, BoardStep

(* A board in its loop that drops a frame.                                 *)
LEMMA LoopDropsKeeps ==
  ASSUME PairingInv, NEW b \in Pair, LoopDrops(b)
  PROVE  PairingInv'
  <1> USE DEF PairingInv
  <1>0. PairingTypeOK /\ AirOK /\ BoardOK(b) /\ Other(b) \in Pair
    BY Two
  <1>1. PairingTypeOK'
    BY <1>0 DEF PairingTypeOK, LoopDrops
  <1>2. Grows /\ Untouched(b)
    BY <1>0 DEF PairingTypeOK, Grows, Untouched, LoopDrops
  <1>3. AirOK'
    BY <1>0, <1>2, AirTake DEF LoopDrops, Rx, HasBeacon, HasPub
  <1>4. BoardOK(b)'
    BY <1>0, <1>1 DEF BoardOK, Exchanging, PairingTypeOK, KeyOfTwo, LoopDrops
  <1>5. QED
    BY <1>1, <1>2, <1>3, <1>4, BoardStep

(* AT+PAIR=TRAIN, or the menu.                                             *)
LEMMA AtTrainKeeps ==
  ASSUME PairingInv, NEW b \in Pair, AtTrain(b)
  PROVE  PairingInv'
  <1> USE DEF PairingInv
  <1>0. PairingTypeOK /\ AirOK /\ BoardOK(b) /\ Other(b) \in Pair
    BY Two
  <1>1. PairingTypeOK'
    <2>1. at' \in [Pair -> Places]
      BY <1>0 DEF PairingTypeOK, AtTrain, Starts, Goes, NoKey, Places
    <2>2. call' \in [Pair -> [prox : {TRUE}, train : BOOLEAN, ret : {"loop", "hear"}]]
      <3>0. at[b] \in {"loop", "hear"}
        BY DEF AtTrain
      <3>1. call[b] \in [prox : {TRUE}, train : BOOLEAN, ret : {"loop", "hear"}]
        BY <1>0 DEF PairingTypeOK
      <3>2. [[call[b] EXCEPT !.train = TRUE] EXCEPT !.ret = at[b]] \in [prox : {TRUE}, train : BOOLEAN, ret : {"loop", "hear"}]
        BY <3>1, <3>0
      <3>3. call' = [call EXCEPT ![b] = [[call[b] EXCEPT !.train = TRUE] EXCEPT !.ret = at[b]]]
        BY <1>0 DEF PairingTypeOK, AtTrain
      <3>4. QED
        BY <1>0, <3>2, <3>3 DEF PairingTypeOK
    <2>3. left' \in [Pair -> 0 .. kDiscConfirm + kPairResends]
      BY <1>0 DEF PairingTypeOK, AtTrain, Starts, Goes, NoKey
    <2>4. id' \in [Pair -> [addr : {1, 2}, peer : {0, 1, 2}]]
      BY <1>0 DEF PairingTypeOK, AtTrain, Starts, Goes, NoKey
    <2>5. elected' \in [Pair -> BOOLEAN]
      BY <1>0 DEF PairingTypeOK, AtTrain, Starts, Goes, NoKey
    <2>6. draw' \in [Pair -> Nat]
      <3>1. draw[b] + 1 \in Nat
        BY <1>0 DEF PairingTypeOK
      <3>2. QED
        BY <1>0, <3>1 DEF PairingTypeOK, AtTrain, Starts
    <2>7. heard' \in [Pair -> Keyed]
      <3>1. NoKey \in Keyed
        BY DEF NoKey, Keyed
      <3>2. heard' = [heard EXCEPT ![b] = NoKey]
        BY DEF AtTrain, Starts
      <3>3. QED
        BY <1>0, <3>1, <3>2 DEF PairingTypeOK
    <2>8. key' \in [Pair -> Keyed]
      BY <1>0 DEF PairingTypeOK, AtTrain, Starts, Goes, NoKey
    <2>9. nvs' \in [Pair -> [pkey : Keyed, addr : {0, 1, 2}, peer : {0, 1, 2}]]
      BY <1>0 DEF PairingTypeOK, AtTrain, Starts, Goes, NoKey
    <2>10. QED
      BY <2>1, <2>2, <2>3, <2>4, <2>5, <2>6, <2>7, <2>8, <2>9 DEF PairingTypeOK
  <1>2. Grows /\ Untouched(b)
    BY <1>0 DEF PairingTypeOK, Grows, Untouched, AtTrain, Starts, Goes, NoKey
  <1>3. AirOK'
    BY <1>0, <1>2, AirSame DEF AtTrain
  <1>4. BoardOK(b)'
    <2>1. at'[b] \in Exchanging => draw'[b] > 0
      BY <1>0, <1>1 DEF BoardOK, Exchanging, PairingTypeOK, KeyOfTwo, AtTrain, Starts,
         Goes, NoKey
    <2>2. at'[b] \in {"resend", "await", "putkey"} =>
            \E n \in 1 .. draw'[Other(b)] : heard'[b] = {<<Other(b), n>>}
      BY <1>0, <1>1 DEF BoardOK, Exchanging, PairingTypeOK, KeyOfTwo, AtTrain, Starts,
         Goes, NoKey
    <2>3. at'[b] = "resend" => left'[b] > 0
      BY <1>0, <1>1 DEF BoardOK, Exchanging, PairingTypeOK, KeyOfTwo, AtTrain, Starts,
         Goes, NoKey
    <2>4. at'[b] \in {"confirm", "putrole"} => elected'[b]
      BY <1>0, <1>1 DEF BoardOK, Exchanging, PairingTypeOK, KeyOfTwo, AtTrain, Starts,
         Goes, NoKey
    <2>5. at'[b] \in Exchanging => call'[b].train \/ elected'[b]
      BY <1>0, <1>1 DEF BoardOK, Exchanging, PairingTypeOK, KeyOfTwo, AtTrain, Starts,
         Goes, NoKey
    <2>6. elected'[b] => id'[b] = Elected(b)
      BY <1>0, <1>1 DEF BoardOK, Exchanging, PairingTypeOK, KeyOfTwo, AtTrain, Starts,
         Goes, NoKey
    <2>7. nvs'[b].addr # 0 => nvs'[b].addr = Elected(b).addr /\ nvs'[b].peer = Elected(b).peer
      BY <1>0, <1>1 DEF BoardOK, Exchanging, PairingTypeOK, KeyOfTwo, AtTrain, Starts,
         Goes, NoKey
    <2>8. KeyOfTwo(key[b])'
      BY <1>0, <1>1 DEF BoardOK, Exchanging, PairingTypeOK, KeyOfTwo, AtTrain, Starts,
         Goes, NoKey
    <2>9. KeyOfTwo(nvs[b].pkey)'
      BY <1>0, <1>1 DEF BoardOK, Exchanging, PairingTypeOK, KeyOfTwo, AtTrain, Starts,
         Goes, NoKey
    <2>10. QED
      BY <2>1, <2>2, <2>3, <2>4, <2>5, <2>6, <2>7, <2>8, <2>9 DEF BoardOK
  <1>5. QED
    BY <1>1, <1>2, <1>3, <1>4, BoardStep

(* AT+PAIR with a key.                                                     *)
LEMMA AtPairKeeps ==
  ASSUME PairingInv, NEW b \in Pair, AtPair(b)
  PROVE  PairingInv'
  <1> USE DEF PairingInv
  <1>0. PairingTypeOK /\ AirOK /\ BoardOK(b) /\ Other(b) \in Pair
    BY Two
  <1>1. PairingTypeOK'
    BY <1>0 DEF PairingTypeOK, AtPair, Goes, AtBoot, Places
  <1>2. Grows /\ Untouched(b)
    BY <1>0 DEF PairingTypeOK, Grows, Untouched, AtPair, Goes, AtBoot
  <1>3. AirOK'
    BY <1>0, <1>2, AirSame DEF AtPair
  <1>4. BoardOK(b)'
    BY <1>0, <1>1 DEF BoardOK, Exchanging, PairingTypeOK, KeyOfTwo, AtPair, Goes, AtBoot
  <1>5. QED
    BY <1>1, <1>2, <1>3, <1>4, BoardStep

(* AT&F.                                                                   *)
LEMMA AtFactoryResetKeeps ==
  ASSUME PairingInv, NEW b \in Pair, AtFactoryReset(b)
  PROVE  PairingInv'
  <1> USE DEF PairingInv
  <1>0. PairingTypeOK /\ AirOK /\ BoardOK(b) /\ Other(b) \in Pair
    BY Two
  <1>1. PairingTypeOK'
    <2>1. at' \in [Pair -> Places]
      BY <1>0 DEF PairingTypeOK, AtFactoryReset, Forgets, Blank, NoKey, Loaded
    <2>2. call' \in [Pair -> [prox : {TRUE}, train : BOOLEAN, ret : {"loop", "hear"}]]
      BY <1>0 DEF PairingTypeOK, AtFactoryReset, Forgets, Blank, NoKey, Loaded
    <2>3. left' \in [Pair -> 0 .. kDiscConfirm + kPairResends]
      BY <1>0 DEF PairingTypeOK, AtFactoryReset, Forgets, Blank, NoKey, Loaded
    <2>4. id' \in [Pair -> [addr : {1, 2}, peer : {0, 1, 2}]]
      BY <1>0 DEF PairingTypeOK, AtFactoryReset, Forgets, Blank, NoKey, Loaded
    <2>5. elected' \in [Pair -> BOOLEAN]
      BY <1>0 DEF PairingTypeOK, AtFactoryReset, Forgets, Blank, NoKey, Loaded
    <2>6. draw' \in [Pair -> Nat]
      BY <1>0 DEF PairingTypeOK, AtFactoryReset, Forgets, Blank, NoKey, Loaded
    <2>7. heard' \in [Pair -> Keyed]
      BY <1>0 DEF PairingTypeOK, AtFactoryReset, Forgets, Blank, NoKey, Loaded
    <2>8. key' \in [Pair -> Keyed]
      <3>1. NoKey \in Keyed
        BY DEF NoKey, Keyed
      <3>2. QED
        BY <1>0, <3>1 DEF PairingTypeOK, AtFactoryReset, Forgets
    <2>9. nvs' \in [Pair -> [pkey : Keyed, addr : {0, 1, 2}, peer : {0, 1, 2}]]
      <3>1. Blank \in [pkey : Keyed, addr : {0, 1, 2}, peer : {0, 1, 2}]
        BY DEF Blank, NoKey, Keyed
      <3>2. QED
        BY <1>0, <3>1 DEF PairingTypeOK, AtFactoryReset, Forgets
    <2>10. QED
      BY <2>1, <2>2, <2>3, <2>4, <2>5, <2>6, <2>7, <2>8, <2>9 DEF PairingTypeOK
  <1>2. Grows /\ Untouched(b)
    BY <1>0 DEF PairingTypeOK, Grows, Untouched, AtFactoryReset, Forgets, Blank, NoKey,
       Loaded
  <1>3. AirOK'
    BY <1>0, <1>2, AirSame DEF AtFactoryReset
  <1>4. BoardOK(b)'
    BY <1>0, <1>1 DEF BoardOK, Exchanging, PairingTypeOK, KeyOfTwo, AtFactoryReset,
       Forgets, Blank, NoKey, Loaded
  <1>5. QED
    BY <1>1, <1>2, <1>3, <1>4, BoardStep

(* The power goes: flash is what is left, and is loaded.                   *)
LEMMA PowerFailsKeeps ==
  ASSUME PairingInv, NEW b \in Pair, PowerFails(b)
  PROVE  PairingInv'
  <1> USE DEF PairingInv
  <1>0. PairingTypeOK /\ AirOK /\ BoardOK(b) /\ Other(b) \in Pair
    BY Two
  <1>1. PairingTypeOK'
    BY <1>0 DEF PairingTypeOK, PowerFails, Goes, AtBoot, Loaded, Boots, NoKey, Places
  <1>2. Grows /\ Untouched(b)
    BY <1>0 DEF PairingTypeOK, Grows, Untouched, PowerFails, Goes, AtBoot, Loaded, Boots,
       NoKey
  <1>3. AirOK'
    <2>1. DOMAIN air' = Pair /\ air'[b] = <<>> /\ draw' = draw
          /\ \A c \in Pair : c # b => air'[c] = air[c]
      BY <1>0 DEF PowerFails, AirOK
    <2>2. ASSUME NEW c \in Pair
          PROVE  air'[c] \in Seq(FramesFrom(Other(c))') /\ Len(air'[c]) <= AirCap
      <3>1. FramesFrom(Other(c))' = FramesFrom(Other(c))
        BY <2>1 DEF FramesFrom
      <3>2. CASE c = b
        <4>1. air'[c] = <<>>
          BY <2>1, <3>2
        <4>2. Len(air'[c]) = 0
          BY <4>1, EmptySeq
        <4>3. air'[c] \in Seq(FramesFrom(Other(c))')
          BY <4>1, EmptySeq
        <4>4. QED
          BY <4>2, <4>3
      <3>3. CASE c # b
        BY <1>0, <2>1, <3>1, <3>3 DEF AirOK
      <3>4. QED
        BY <3>2, <3>3
    <2>3. QED
      BY <2>1, <2>2 DEF AirOK
  <1>4. BoardOK(b)'
    <2>1. at'[b] \in Exchanging => draw'[b] > 0
      BY <1>0, <1>1 DEF BoardOK, Exchanging, PairingTypeOK, KeyOfTwo, PowerFails, Goes,
         AtBoot, Loaded, Boots, NoKey
    <2>2. at'[b] \in {"resend", "await", "putkey"} =>
            \E n \in 1 .. draw'[Other(b)] : heard'[b] = {<<Other(b), n>>}
      BY <1>0, <1>1 DEF BoardOK, Exchanging, PairingTypeOK, KeyOfTwo, PowerFails, Goes,
         AtBoot, Loaded, Boots, NoKey
    <2>3. at'[b] = "resend" => left'[b] > 0
      BY <1>0, <1>1 DEF BoardOK, Exchanging, PairingTypeOK, KeyOfTwo, PowerFails, Goes,
         AtBoot, Loaded, Boots, NoKey
    <2>4. at'[b] \in {"confirm", "putrole"} => elected'[b]
      BY <1>0, <1>1 DEF BoardOK, Exchanging, PairingTypeOK, KeyOfTwo, PowerFails, Goes,
         AtBoot, Loaded, Boots, NoKey
    <2>5. at'[b] \in Exchanging => call'[b].train \/ elected'[b]
      BY <1>0, <1>1 DEF BoardOK, Exchanging, PairingTypeOK, KeyOfTwo, PowerFails, Goes,
         AtBoot, Loaded, Boots, NoKey
    <2>6. elected'[b] => id'[b] = Elected(b)
      <3>1. Elected(b) = [addr |-> Elected(b).addr, peer |-> Elected(b).peer]
        BY DEF Elected, AssignAddrs
      <3>2. elected'[b] = (nvs[b].addr # 0) /\ id'[b] = Loaded(nvs[b])
        BY <1>0 DEF PairingTypeOK, PowerFails
      <3>3. nvs[b].addr # 0 => Loaded(nvs[b]) = [addr |-> nvs[b].addr, peer |-> nvs[b].peer]
        BY DEF Loaded
      <3>4. QED
        BY <1>0, <3>1, <3>2, <3>3 DEF BoardOK
    <2>7. nvs'[b].addr # 0 => nvs'[b].addr = Elected(b).addr /\ nvs'[b].peer = Elected(b).peer
      BY <1>0, <1>1 DEF BoardOK, Exchanging, PairingTypeOK, KeyOfTwo, PowerFails, Goes,
         AtBoot, Loaded, Boots, NoKey
    <2>8. KeyOfTwo(key[b])'
      BY <1>0, <1>1, SMTT(20) DEF BoardOK, Exchanging, PairingTypeOK, KeyOfTwo, PowerFails, Goes,
         AtBoot, Loaded, Boots, NoKey
    <2>9. KeyOfTwo(nvs[b].pkey)'
      BY <1>0, <1>1 DEF BoardOK, Exchanging, PairingTypeOK, KeyOfTwo, PowerFails, Goes,
         AtBoot, Loaded, Boots, NoKey
    <2>10. QED
      BY <2>1, <2>2, <2>3, <2>4, <2>5, <2>6, <2>7, <2>8, <2>9 DEF BoardOK
  <1>5. QED
    BY <1>1, <1>2, <1>3, <1>4, BoardStep

(* Two boards out of the box.                                              *)
LEMMA PairingStart == PairingInit => PairingInv
  BY Two, EmptySeq DEF PairingInit, PairingInv, PairingTypeOK, AirOK, BoardOK, KeyOfTwo,
     NoKey, Loaded, Blank,
     AtBoot, Exchanging, Places, Keyed

(* Every step of either board.                                             *)
LEMMA PairingStep == PairingInv /\ [PairingNext]_pairingVars => PairingInv'
  <1> SUFFICES ASSUME PairingInv, [PairingNext]_pairingVars PROVE PairingInv'
    OBVIOUS
  <1>1. CASE UNCHANGED pairingVars
    BY <1>1 DEF pairingVars, PairingInv, PairingTypeOK, AirOK, BoardOK, KeyOfTwo, FramesFrom
  <1>2. ASSUME NEW b \in Pair, \/ Discovery(b) \/ Exchange(b) \/ PairGivesUp(b) \/ Keeps(b)
                                \/ InLoop(b) \/ AtPairing(b) \/ PowerFails(b)
        PROVE  PairingInv'
    BY <1>2, SendDiscBeaconKeeps, ElectKeeps, HearsNothingKeeps, ConfirmKeeps,
       PairTxKeeps, PairHeardKeeps, PairUnheardKeeps, PairGivesUpKeeps, ResendKeeps,
       ResendRxKeeps, PutKeyKeeps, PersistRoleKeeps, DiscHandleRxKeeps, LoopDropsKeeps,
       AtTrainKeeps, AtPairKeeps, AtFactoryResetKeeps, PowerFailsKeeps
       DEF Discovery, Exchange, Keeps, InLoop, AtPairing
  <1>3. QED
    BY <1>1, <1>2 DEF PairingNext

(* ElectInitiator gives the two boards opposite answers.                   *)
LEMMA PairingMeaning == PairingInv => OneInitiator
  <1> SUFFICES ASSUME PairingInv PROVE OneInitiator
    OBVIOUS
  <1>1. ASSUME \A c \in Pair : elected[c], NEW b \in Pair
        PROVE  /\ id[b].peer = id[Other(b)].addr
               /\ IsInitiator(id[b]) # IsInitiator(id[Other(b)])
    <2>1. id[b] = Elected(b) /\ id[Other(b)] = Elected(Other(b)) /\ Other(b) \in Pair /\ Other(Other(b)) = b
          /\ Other(b) # b
      BY <1>1, Two DEF PairingInv, BoardOK
    <2>2. ElectInitiator(b, Other(b)) # ElectInitiator(Other(b), b)
      BY <2>1 DEF ElectInitiator
    <2>3. CASE ElectInitiator(b, Other(b))
      <3>1. id[b] = [addr |-> 1, peer |-> 2] /\ id[Other(b)] = [addr |-> 2, peer |-> 1]
        BY <2>1, <2>2, <2>3 DEF Elected, AssignAddrs, ElectInitiator
      <3>2. IsInitiator(id[b]) = TRUE /\ IsInitiator(id[Other(b)]) = FALSE
        BY <3>1 DEF IsInitiator
      <3>3. id[b].peer = id[Other(b)].addr
        BY <3>1
      <3>4. QED
        BY <3>2, <3>3
    <2>4. CASE ~ElectInitiator(b, Other(b))
      <3>1. id[b] = [addr |-> 2, peer |-> 1] /\ id[Other(b)] = [addr |-> 1, peer |-> 2]
        BY <2>1, <2>2, <2>4 DEF Elected, AssignAddrs, ElectInitiator
      <3>2. IsInitiator(id[b]) = FALSE /\ IsInitiator(id[Other(b)]) = TRUE
        BY <3>1 DEF IsInitiator
      <3>3. id[b].peer = id[Other(b)].addr
        BY <3>1
      <3>4. QED
        BY <3>2, <3>3
    <2>5. QED
      BY <2>3, <2>4
  <1>2. QED
    BY <1>1 DEF OneInitiator

(* identity.h, for every number of beacons and resends, air and budget of  *)
(* faults: two boards whose identity is from an election, of this boot or  *)
(* kept, are initiator and responder to each other.                        *)
THEOREM RolesDiffer == PairingSpec => []OneInitiator
  <1>1. PairingInit => PairingInv
    BY PairingStart
  <1>2. PairingInv /\ [PairingNext]_pairingVars => PairingInv'
    BY PairingStep
  <1>3. PairingInv => OneInitiator
    BY PairingMeaning
  <1>4. QED
    BY <1>1, <1>2, <1>3, PTL DEF PairingSpec

HIDE PairingAssumption
-----------------------------------------------------------------------------
(***************************************************************************)
(* Session.  A handshake state is Sound when its key is the static one, or *)
(* was derived with its own newest ephemeral key; each operation of        *)
(* fw_session.cpp keeps that, whatever frame the air brings and whenever.  *)
(***************************************************************************)
USE SessionNodeAssumption, AttemptsAssumption

Handshakes == [eph : Nat, active : BOOLEAN, key : Nat \X Nat, drawn : Nat]

OwnKey(h) ==
  /\ h.eph \in {0, h.drawn}
  /\ ~h.active => h.key = StaticKey
  /\ h.active => /\ h.eph # 0
                 /\ \E i \in {1, 2} : h.key[i] = h.eph /\ h.key[3 - i] # 0

Sound(h) == h \in Handshakes /\ OwnKey(h)

(* The two ends.                                                           *)
LEMMA Ends ==
  ASSUME NEW n \in Node
  PROVE  Peer(n) \in Node /\ Peer(n) # n /\ Initiator \in Node /\ Responder \in Node
         /\ Peer(Initiator) = Responder /\ Peer(Responder) = Initiator
  BY DEF Node, Peer

(* The invariant, end by end.                                              *)
LEMMA InvIs ==
  SessionInv <=> /\ link \in [Node -> [epoch : Nat \ {0}, peer : Nat]]
                 /\ hs \in [Node -> Handshakes] /\ \A n \in Node : Sound(hs[n])
                 /\ drive \in [at : {"top", "wait", "data", "listen"},
                               attempts : 0 .. kHsMaxAttempts - 1, backoff : BOOLEAN,
                               recent : BOOLEAN]
                 /\ DOMAIN ring = Node
                 /\ \A n \in Node : ring[n] \in Seq(FramesTo(n)) /\ Len(ring[n]) <= RINGCAP
  BY DEF SessionInv, SessionTypeOK, KeysAreOwn, Sound, OwnKey, Handshakes

(* SessionReset, EnsureStarted and InstallSessionKey.                      *)
LEMMA KeySteps ==
  ASSUME NEW h, Sound(h)
  PROVE  /\ Sound(SessionReset(h))
         /\ Sound(EnsureStarted(h)) /\ EnsureStarted(h).eph # 0 /\ EnsureStarted(h).eph \in Nat
         /\ h.eph # 0 => \A n \in Node, pub \in Nat \ {0} : Sound(InstallSessionKey(n, h, pub))
  <1>1. h \in Handshakes /\ OwnKey(h)
    BY DEF Sound
  <1>2. Sound(SessionReset(h))
    <2>1. StaticKey \in Nat \X Nat
      BY DEF StaticKey
    <2>2. QED
      BY <1>1, <2>1 DEF Sound, OwnKey, SessionReset, Handshakes
  <1>3. Sound(EnsureStarted(h)) /\ EnsureStarted(h).eph # 0 /\ EnsureStarted(h).eph \in Nat
    <2>1. CASE h.eph # 0
      BY <1>1, <2>1 DEF Sound, EnsureStarted, Handshakes
    <2>2. CASE h.eph = 0
      <3>1. EnsureStarted(h) = [h EXCEPT !.eph = h.drawn + 1, !.drawn = @ + 1] /\ h.active = FALSE
        BY <1>1, <2>2 DEF EnsureStarted, OwnKey, Handshakes
      <3> DEFINE g == EnsureStarted(h)
      <3>2. h.drawn + 1 \in Nat /\ h.drawn + 1 # 0 /\ h.key = StaticKey
        BY <1>1, <3>1 DEF OwnKey, Handshakes
      <3> HIDE DEF g
      <3>3. g = [h EXCEPT !.eph = h.drawn + 1, !.drawn = h.drawn + 1]
        BY <3>1 DEF g
      <3>4. /\ g \in Handshakes /\ g.eph = h.drawn + 1 /\ g.drawn = h.drawn + 1
            /\ g.active = FALSE /\ g.key = StaticKey
        BY <1>1, <3>1, <3>2, <3>3 DEF Handshakes
      <3>5. OwnKey(g)
        BY <3>2, <3>4 DEF OwnKey
      <3>6. QED
        BY <3>2, <3>4, <3>5 DEF Sound, g
    <2>3. QED
      BY <2>1, <2>2
  <1>4. ASSUME h.eph # 0, NEW n \in Node, NEW pub \in Nat \ {0}
        PROVE  Sound(InstallSessionKey(n, h, pub))
    <2> DEFINE k == Derive(n, h.eph, pub)
               i == InstallSessionKey(n, h, pub)
    <2>1. /\ k \in Nat \X Nat
          /\ (k[1] = h.eph /\ k[2] = pub) \/ (k[2] = h.eph /\ k[1] = pub)
      BY <1>1 DEF Derive, Handshakes
    <2> HIDE DEF k
    <2>2. i = [h EXCEPT !.key = k, !.active = TRUE]
      BY DEF InstallSessionKey, k
    <2> HIDE DEF i
    <2>3. i \in Handshakes /\ i.eph = h.eph /\ i.drawn = h.drawn /\ i.active = TRUE /\ i.key = k
      BY <1>1, <2>1, <2>2 DEF Handshakes
    <2>4. \E x \in {1, 2} : i.key[x] = i.eph /\ i.key[3 - x] # 0
      BY <1>4, <2>1, <2>3
    <2>5. OwnKey(i)
      BY <1>1, <1>4, <2>3, <2>4 DEF OwnKey
    <2>6. QED
      BY <2>3, <2>5 DEF Sound, i
  <1>5. QED
    BY <1>2, <1>3, <1>4

RingsOK(r) == /\ DOMAIN r = Node
              /\ \A n \in Node : r[n] \in Seq(FramesTo(n)) /\ Len(r[n]) <= RINGCAP

(* A frame taken off a ring.                                               *)
LEMMA PopOK ==
  ASSUME RingsOK(ring), NEW n \in Node, ring[n] # <<>>
  PROVE  RingsOK(Pop(n)) /\ Head(ring[n]) \in FramesTo(n)
  <1>1. /\ ring[n] \in Seq(FramesTo(n)) /\ Len(ring[n]) <= RINGCAP
    BY DEF RingsOK
  <1>2. /\ Head(ring[n]) \in FramesTo(n) /\ Tail(ring[n]) \in Seq(FramesTo(n))
        /\ Len(Tail(ring[n])) = Len(ring[n]) - 1 /\ Len(ring[n]) \in Nat
    BY <1>1, HeadTailProperties
  <1>3. Len(Tail(ring[n])) <= RINGCAP
    BY <1>1, <1>2
  <1>4. QED
    BY <1>2, <1>3 DEF RingsOK, Pop

(* A frame sent into the peer's ring, or lost.                             *)
LEMMA SendOK ==
  ASSUME NEW n \in Node, NEW f \in FramesTo(Peer(n)), NEW taken, RingsOK(taken), Send(n,
         f, taken)
  PROVE  RingsOK(ring)'
  <1>1. Peer(n) \in Node
    BY Ends
  <1>2. CASE ring' = taken
    BY <1>2 DEF RingsOK
  <1>3. CASE Len(taken[Peer(n)]) < RINGCAP /\ ring' = [taken EXCEPT ![Peer(n)] = Append(@, f)]
    <2> DEFINE q == taken[Peer(n)]
    <2>1. q \in Seq(FramesTo(Peer(n)))
      BY <1>1 DEF RingsOK
    <2>2. Append(q, f) \in Seq(FramesTo(Peer(n))) /\ Len(Append(q, f)) = Len(q) + 1 /\ Len(q) \in Nat
      BY <2>1, AppendProperties
    <2>3. Len(Append(q, f)) <= RINGCAP
      BY <1>3, <2>2
    <2> HIDE DEF q
    <2>4. ring' = [taken EXCEPT ![Peer(n)] = Append(q, f)]
      BY <1>3 DEF q
    <2>5. QED
      BY <1>1, <2>2, <2>3, <2>4 DEF RingsOK
  <1>4. QED
    BY <1>2, <1>3 DEF Send

(* The frames that are built.                                              *)
LEMMA FrameTypes ==
  /\ \A p \in Nat \ {0} : Hs("init", p) \in FramesTo(Responder) /\ Hs("resp", p) \in FramesTo(Initiator)
  /\ \A n \in Node, m \in Node : \A l, h :
        l \in [Node -> [epoch : Nat \ {0}, peer : Nat]] /\ h \in [Node -> Handshakes]
          => Data(n, l, h) \in FramesTo(m)
  <1>1. \A p \in Nat \ {0} : Hs("init", p) \in FramesTo(Responder) /\ Hs("resp", p) \in FramesTo(Initiator)
    BY DEF Hs, FramesTo
  <1>2. ASSUME NEW n \in Node, NEW m \in Node, NEW l, NEW h,
               l \in [Node -> [epoch : Nat \ {0}, peer : Nat]], h \in [Node -> Handshakes]
        PROVE  Data(n, l, h) \in FramesTo(m)
    <2>1. l[n].epoch \in Nat \ {0} /\ h[n].key \in Nat \X Nat
      BY <1>2 DEF Handshakes
    <2>2. QED
      BY <2>1 DEF Data, FramesTo
  <1>3. QED
    BY <1>1, <1>2

(* The frames that are found.                                              *)
LEMMA FrameKinds ==
  ASSUME NEW n \in Node, NEW f \in FramesTo(n)
  PROVE  /\ n = Initiator => f.type \in {"resp", "data"}
         /\ n = Responder => f.type \in {"init", "data"}
         /\ f.type \in {"init", "resp"} => f.pub \in Nat \ {0}
         /\ f.type = "data" => f.epoch \in Nat \ {0}
  BY DEF FramesTo

(* Two ends that have just started.                                        *)
LEMMA SessionStart == SessionInit => SessionInv
  <1> SUFFICES ASSUME SessionInit PROVE SessionInv
    OBVIOUS
  <1>1. StaticKey \in Nat \X Nat
    BY DEF StaticKey
  <1>2. hs \in [Node -> Handshakes] /\ \A n \in Node : Sound(hs[n])
    BY <1>1 DEF SessionInit, Handshakes, Sound, OwnKey
  <1>3. DOMAIN ring = Node /\ \A n \in Node : ring[n] \in Seq(FramesTo(n)) /\ Len(ring[n]) <= RINGCAP
    BY DEF SessionInit
  <1>4. link \in [Node -> [epoch : Nat \ {0}, peer : Nat]]
    BY DEF SessionInit
  <1>5. drive \in [at : {"top", "wait", "data", "listen"},
                   attempts : 0 .. kHsMaxAttempts - 1, backoff : BOOLEAN,
                   recent : BOOLEAN]
    BY DEF SessionInit, FirstDrive
  <1>6. QED
    BY <1>2, <1>3, <1>4, <1>5, InvIs

(* A step of one end's handshake.                                          *)
LEMMA HsMoves ==
  ASSUME SessionInv, NEW n \in Node, NEW h, Sound(h), hs' = [hs EXCEPT ![n] = h]
  PROVE  hs' \in [Node -> Handshakes] /\ \A m \in Node : Sound(hs'[m])
  BY InvIs DEF Sound

(* The invariant from its parts.                                           *)
LEMMA Rebuilt ==
  ASSUME hs' \in [Node -> Handshakes], \A n \in Node : Sound(hs'[n]),
         link' \in [Node -> [epoch : Nat \ {0}, peer : Nat]],
         drive' \in [at : {"top", "wait", "data", "listen"},
                     attempts : 0 .. kHsMaxAttempts - 1, backoff : BOOLEAN,
                     recent : BOOLEAN],
         RingsOK(ring)'
  PROVE  SessionInv'
  BY DEF SessionInv, SessionTypeOK, KeysAreOwn, Sound, OwnKey, Handshakes, RingsOK

(* An answer, of this handshake or of an earlier one.                      *)
LEMMA TakeRespKeeps ==
  ASSUME SessionInv, NEW f \in FramesTo(Initiator), f.type = "resp", TakeResp(f)
  PROVE  hs' \in [Node -> Handshakes] /\ \A m \in Node : Sound(hs'[m])
  <1>1. Initiator \in Node /\ Sound(hs[Initiator]) /\ f.pub \in Nat \ {0}
    BY InvIs, FrameKinds DEF Node
  <1>2. CASE hs' = hs
    BY <1>2, InvIs
  <1>3. CASE /\ hs[Initiator].eph # 0
             /\ hs' = [hs EXCEPT ![Initiator] = InstallSessionKey(Initiator, hs[Initiator], f.pub)]
    <2>1. Sound(InstallSessionKey(Initiator, hs[Initiator], f.pub))
      BY <1>1, <1>3, KeySteps
    <2>2. QED
      BY <1>1, <1>3, <2>1, HsMoves
  <1>4. QED
    BY <1>2, <1>3 DEF TakeResp

(* A data frame: the peer's epoch, and the reset it may call for.          *)
LEMMA AfterOnRxKeeps ==
  ASSUME SessionInv, NEW n \in Node, NEW f \in FramesTo(n), f.type = "data", AfterOnRx(n, f)
  PROVE  /\ hs' \in [Node -> Handshakes] /\ \A m \in Node : Sound(hs'[m])
         /\ link' \in [Node -> [epoch : Nat \ {0}, peer : Nat]]
  <1>1. Sound(hs[n]) /\ f.epoch \in Nat \ {0} /\ link \in [Node -> [epoch : Nat \ {0}, peer : Nat]]
    BY InvIs, FrameKinds
  <1>2. link' \in [Node -> [epoch : Nat \ {0}, peer : Nat]]
    BY <1>1 DEF AfterOnRx
  <1>3. CASE hs' = hs
    BY <1>2, <1>3, InvIs
  <1>4. CASE hs' = [hs EXCEPT ![n] = SessionReset(hs[n])]
    <2>1. Sound(SessionReset(hs[n]))
      BY <1>1, KeySteps
    <2>2. QED
      BY <1>2, <1>4, <2>1, HsMoves
  <1>5. QED
    BY <1>3, <1>4 DEF AfterOnRx

(* Every step of either end.                                               *)
LEMMA SessionStep == SessionInv /\ [SessionNext]_sessionVars => SessionInv'
  <1> SUFFICES ASSUME SessionInv, [SessionNext]_sessionVars PROVE SessionInv'
    OBVIOUS
  <1> DEFINE Drives == [at : {"top", "wait", "data", "listen"},
                        attempts : 0 .. kHsMaxAttempts - 1, backoff : BOOLEAN,
                        recent : BOOLEAN]
             Links == [Node -> [epoch : Nat \ {0}, peer : Nat]]
             KeysOK == hs' \in [Node -> Handshakes] /\ \A m \in Node : Sound(hs'[m])
  <1>1. /\ link \in Links /\ hs \in [Node -> Handshakes] /\ (\A n \in Node : Sound(hs[n]))
        /\ drive \in Drives /\ RingsOK(ring)
    BY InvIs DEF RingsOK
  <1>2. /\ Initiator \in Node /\ Responder \in Node
        /\ Peer(Initiator) = Responder /\ Peer(Responder) = Initiator
    BY Ends DEF Node
  <1>3. hs' = hs => KeysOK
    BY <1>1
  <1>4. ring' = ring => RingsOK(ring)'
    BY <1>1 DEF RingsOK
  <1>5. CASE SendInit
    <2> DEFINE h == EnsureStarted(hs[Initiator])
    <2>1. /\ hs' = [hs EXCEPT ![Initiator] = h] /\ Send(Initiator, Hs("init", h.eph), ring)
          /\ drive' = [drive EXCEPT !.at = "wait", !.recent = TRUE] /\ link' = link
      BY <1>5 DEF SendInit
    <2>2. Sound(h) /\ h.eph \in Nat \ {0}
      BY <1>1, <1>2, KeySteps
    <2> HIDE DEF h
    <2>3. KeysOK
      BY <1>2, <2>1, <2>2, HsMoves
    <2>4. Hs("init", h.eph) \in FramesTo(Peer(Initiator))
      BY <1>2, <2>2, FrameTypes
    <2>5. RingsOK(ring)'
      BY <1>1, <1>2, <2>1, <2>4, SendOK
    <2>6. drive' \in Drives
      BY <1>1, <2>1
    <2>7. QED
      BY <1>1, <2>1, <2>3, <2>5, <2>6, Rebuilt
  <1>6. CASE WaitReceive
    <2> DEFINE f == Head(ring[Initiator])
    <2>1. /\ ring[Initiator] # <<>> /\ (IF f.type = "resp" THEN TakeResp(f) ELSE hs' = hs)
          /\ ring' = Pop(Initiator) /\ link' = link
          /\ drive' \in {drive, [drive EXCEPT !.at = "top", !.attempts = 0]}
      BY <1>6 DEF WaitReceive
    <2>2. f \in FramesTo(Initiator) /\ RingsOK(Pop(Initiator))
      BY <1>1, <1>2, <2>1, PopOK
    <2> HIDE DEF f
    <2>3. KeysOK
      BY <1>3, <2>1, <2>2, TakeRespKeeps
    <2>4. RingsOK(ring)'
      BY <2>1, <2>2 DEF RingsOK
    <2>5. drive' \in Drives
      <3>1. 0 \in 0 .. kHsMaxAttempts - 1
        OBVIOUS
      <3>2. QED
        BY <1>1, <2>1, <3>1
    <2>6. QED
      BY <1>1, <2>1, <2>3, <2>4, <2>5, Rebuilt
  <1>7. CASE WaitTimeout
    <2>1. /\ drive' = IF drive.attempts + 1 < kHsMaxAttempts
                     THEN [drive EXCEPT !.at = "top", !.attempts = @ + 1]
                     ELSE [drive EXCEPT !.at = "data", !.attempts = 0, !.backoff = TRUE]
          /\ link' = link /\ hs' = hs /\ ring' = ring
      BY <1>7 DEF WaitTimeout
    <2>2. drive' \in Drives
      <3>1. 0 \in 0 .. kHsMaxAttempts - 1
        OBVIOUS
      <3>2. drive.attempts + 1 < kHsMaxAttempts => drive.attempts + 1 \in 0 .. kHsMaxAttempts - 1
        BY <1>1
      <3>3. QED
        BY <1>1, <2>1, <3>1, <3>2
    <2>3. QED
      BY <1>1, <1>3, <1>4, <2>1, <2>2, Rebuilt
  <1>8. CASE SendData
    <2>1. /\ Send(Initiator, Data(Initiator, link, hs), ring)
          /\ drive' = [drive EXCEPT !.at = "listen"] /\ link' = link /\ hs' = hs
      BY <1>8 DEF SendData
    <2>2. Data(Initiator, link, hs) \in FramesTo(Peer(Initiator))
      BY <1>1, <1>2, FrameTypes
    <2>3. RingsOK(ring)'
      BY <1>1, <1>2, <2>1, <2>2, SendOK
    <2>4. drive' \in Drives
      BY <1>1, <2>1
    <2>5. QED
      BY <1>1, <1>3, <2>1, <2>3, <2>4, Rebuilt
  <1>9. CASE ListenReceive
    <2> DEFINE f == Head(ring[Initiator])
    <2>1. /\ ring[Initiator] # <<>> /\ ring' = Pop(Initiator)
          /\ \/ f.type = "resp" /\ TakeResp(f) /\ link' = link /\ drive' = drive
             \/ /\ f.type # "resp" /\ AfterOnRx(Initiator, f)
                /\ drive' \in {drive, [drive EXCEPT !.at = "top"]}
      BY <1>9 DEF ListenReceive
    <2>2. f \in FramesTo(Initiator) /\ RingsOK(Pop(Initiator))
      BY <1>1, <1>2, <2>1, PopOK
    <2> HIDE DEF f
    <2>3. f.type \in {"resp", "data"}
      BY <1>2, <2>2, FrameKinds
    <2>4. KeysOK /\ link' \in Links
      BY <1>1, <1>2, <2>1, <2>2, <2>3, TakeRespKeeps, AfterOnRxKeeps
    <2>5. RingsOK(ring)'
      BY <2>1, <2>2 DEF RingsOK
    <2>6. drive' \in Drives
      BY <1>1, <2>1
    <2>7. QED
      BY <2>4, <2>5, <2>6, Rebuilt
  <1>10. CASE ListenTimeout
    <2>1. /\ drive' = [drive EXCEPT !.at = "top"] /\ link' = link /\ hs' = hs /\ ring' = ring
      BY <1>10 DEF ListenTimeout
    <2>2. drive' \in Drives
      BY <1>1, <2>1
    <2>3. QED
      BY <1>1, <1>3, <1>4, <2>1, <2>2, Rebuilt
  <1>11. CASE AnswerInit
    <2> DEFINE f == Head(ring[Responder])
               h == EnsureStarted(hs[Responder])
    <2>1. /\ ring[Responder] # <<>> /\ f.type = "init"
          /\ hs' = [hs EXCEPT ![Responder] = InstallSessionKey(Responder, h, f.pub)]
          /\ Send(Responder, Hs("resp", h.eph), Pop(Responder))
          /\ link' = link /\ drive' = drive
      BY <1>11 DEF AnswerInit
    <2>2. f \in FramesTo(Responder) /\ RingsOK(Pop(Responder))
      BY <1>1, <1>2, <2>1, PopOK
    <2> HIDE DEF f
    <2>3. f.pub \in Nat \ {0}
      BY <1>2, <2>1, <2>2, FrameKinds
    <2>4. Sound(h) /\ h.eph \in Nat \ {0}
      BY <1>1, <1>2, KeySteps
    <2> HIDE DEF h
    <2>5. Sound(InstallSessionKey(Responder, h, f.pub))
      BY <1>2, <2>3, <2>4, KeySteps
    <2>6. KeysOK
      BY <1>2, <2>1, <2>5, HsMoves
    <2>7. Hs("resp", h.eph) \in FramesTo(Peer(Responder))
      BY <1>2, <2>4, FrameTypes
    <2>8. RingsOK(ring)'
      BY <1>2, <2>1, <2>2, <2>7, SendOK
    <2>9. QED
      BY <1>1, <2>1, <2>6, <2>8, Rebuilt
  <1>12. CASE AnswerData
    <2> DEFINE f == Head(ring[Responder])
    <2>1. /\ ring[Responder] # <<>> /\ f.type = "data" /\ AfterOnRx(Responder, f)
          /\ Send(Responder, Data(Responder, link, hs'), Pop(Responder)) /\ drive' = drive
      BY <1>12 DEF AnswerData
    <2>2. f \in FramesTo(Responder) /\ RingsOK(Pop(Responder))
      BY <1>1, <1>2, <2>1, PopOK
    <2> HIDE DEF f
    <2>3. KeysOK /\ link' \in Links
      BY <1>2, <2>1, <2>2, AfterOnRxKeeps
    <2>4. Data(Responder, link, hs') \in FramesTo(Peer(Responder))
      BY <1>1, <1>2, <2>3, FrameTypes
    <2>5. RingsOK(ring)'
      BY <1>2, <2>1, <2>2, <2>4, SendOK
    <2>6. QED
      BY <1>1, <2>1, <2>3, <2>5, Rebuilt
  <1>13. CASE GapPasses \/ BackoffEnds
    <2>1. /\ drive' \in {[drive EXCEPT !.recent = FALSE], [drive EXCEPT !.backoff = FALSE]}
          /\ link' = link /\ hs' = hs /\ ring' = ring
      BY <1>13 DEF GapPasses, BackoffEnds
    <2>2. drive' \in Drives
      BY <1>1, <2>1
    <2>3. QED
      BY <1>1, <1>3, <1>4, <2>1, <2>2, Rebuilt
  <1>14. ASSUME NEW n \in Node, Reconnect(n) \/ Reboot(n)
         PROVE  SessionInv'
    <2>1. /\ hs' = [hs EXCEPT ![n] = SessionReset(hs[n])]
          /\ \/ link' = [link EXCEPT ![n].epoch = @ + 1]
             \/ link' = [link EXCEPT ![n] = [epoch |-> @.epoch + 1, peer |-> 0]]
          /\ drive' \in {drive, FirstDrive}
          /\ ring' = ring \/ ring' = [ring EXCEPT ![n] = <<>>]
      BY <1>14 DEF Reconnect, Reboot
    <2>2. Sound(SessionReset(hs[n]))
      BY <1>1, KeySteps
    <2>3. KeysOK
      BY <2>1, <2>2, HsMoves
    <2>4. link' \in Links
      <3>1. link[n].epoch + 1 \in Nat \ {0}
        BY <1>1
      <3>2. [link[n] EXCEPT !.epoch = @ + 1] \in [epoch : Nat \ {0}, peer : Nat]
        BY <1>1, <3>1
      <3>3. [epoch |-> link[n].epoch + 1, peer |-> 0] \in [epoch : Nat \ {0}, peer : Nat]
        BY <3>1
      <3>4. CASE link' = [link EXCEPT ![n].epoch = @ + 1]
        BY <1>1, <3>2, <3>4
      <3>5. CASE link' = [link EXCEPT ![n] = [epoch |-> @.epoch + 1, peer |-> 0]]
        BY <1>1, <3>3, <3>5
      <3>6. QED
        BY <2>1, <3>4, <3>5
    <2>5. drive' \in Drives
      <3>1. 0 \in 0 .. kHsMaxAttempts - 1
        OBVIOUS
      <3>2. FirstDrive \in Drives
        BY <3>1 DEF FirstDrive
      <3> HIDE DEF Drives
      <3>3. QED
        BY <1>1, <2>1, <3>2
    <2>6. RingsOK(ring)'
      <3>1. <<>> \in Seq(FramesTo(n)) /\ Len(<<>>) <= RINGCAP
        OBVIOUS
      <3>2. CASE ring' = [ring EXCEPT ![n] = <<>>]
        BY <1>1, <3>1, <3>2 DEF RingsOK
      <3>3. QED
        BY <1>4, <2>1, <3>2
    <2>7. QED
      BY <2>3, <2>4, <2>5, <2>6, Rebuilt
  <1>15. CASE UNCHANGED sessionVars
    BY <1>1, <1>3, <1>4, <1>15, Rebuilt DEF sessionVars
  <1>16. QED
    BY <1>5, <1>6, <1>7, <1>8, <1>9, <1>10, <1>11, <1>12, <1>13, <1>14, <1>15
       DEF SessionNext, Turn, Answer

(* fw_session.cpp, for every number of attempts, ring size and budget of   *)
(* faults and restarts: an end without a session runs on the static key, one *)
(* with a session on a key that its own newest ephemeral key went into.    *)
THEOREM OwnKeys == SessionSpec => []SessionInv
  BY SessionStart, SessionStep, PTL DEF SessionSpec

HIDE SessionNodeAssumption
HIDE AttemptsAssumption
-----------------------------------------------------------------------------
(***************************************************************************)
(* Settings.  The mailbox has one place and is written and read in steps,  *)
(* by two threads.  What survives every interleaving is MailboxHolds: the  *)
(* flag is raised after the edit is whole and lowered before it is read, so *)
(* that an edit overwritten while it is read is read again.  The commands  *)
(* and turns of the loop come between two services, where all there is to  *)
(* show is that what an edit left is not moved without its being forgotten. *)
(***************************************************************************)
USE SettingsAssumption, ModesAssumption

(* The rows' ranges as intervals.                                          *)
LEMMA RowMaxes ==
  /\ RowMax("region") \in Nat /\ RowMax("region") >= 1 /\ Regions = 0 .. RowMax("region")
  /\ RowMax("mode") \in Nat /\ RowMax("mode") >= 1 /\ Modes = 0 .. RowMax("mode")
  /\ RowMax("power") \in Nat /\ RowMax("power") >= 1 /\ RowMax("keep") \in Nat /\ RowMax("keep") >= 1
  /\ RowMax("power") = PwrMax /\ RowMax("keep") = KeepMax
  /\ Cardinality(Regions) = RowMax("region") + 1 /\ Cardinality(Modes) = RowMax("mode") + 1
  <1>1. PICK n \in Nat \ {0} : Regions = 0 .. n
    OBVIOUS
  <1>2. PICK m \in Nat \ {0} : Modes = 0 .. m
    OBVIOUS
  <1>3. Cardinality(0 .. n) = n + 1 /\ Cardinality(0 .. m) = m + 1
    <2>1. 0 \in Int /\ n \in Int /\ m \in Int /\ ~(0 > n) /\ ~(0 > m)
      OBVIOUS
    <2>2. Cardinality(0 .. n) = n - 0 + 1 /\ Cardinality(0 .. m) = m - 0 + 1
      BY ONLY <2>1, FS_Interval
    <2>3. QED
      BY <2>2
  <1>4. QED
    BY <1>1, <1>2, <1>3 DEF RowMax

(* The first boot.                                                         *)
LEMMA SettingsStart == SettingsInit => SettingsInv
  <1> SUFFICES ASSUME SettingsInit PROVE SettingsInv
    OBVIOUS
  <1>1. 0 \in Regions /\ 0 \in Modes /\ Lo[0] \in Nat /\ FirstMode \in Modes
    BY RowMaxes
  <1>2. FirstLive \in Lives
    BY <1>1 DEF FirstLive, Lives
  <1>3. /\ initiator \in BOOLEAN /\ rows \in Rows /\ menu = Idle /\ box = Empty /\ region = 0
        /\ svc = [at |-> "top", item |-> "keep"]
        /\ msave = [pending |-> FALSE, target |-> FirstMode]
        /\ live = FirstLive /\ ms = Begin(FirstMode) /\ flash = FirstFlash /\ last = NoEdit
    BY DEF SettingsInit
  <1>4. ms \in Switches
    BY <1>1, <1>3 DEF Begin, Switches, None
  <1>5. \A item \in {"power", "keep"} : InRange(item, FirstLive[item])
    BY RowMaxes DEF InRange, FirstLive
  <1>6. flash \in [live : Lives, mode : Modes, rgn : Int] /\ InRange("region", flash.rgn) /\ flash.live = FirstLive
    BY <1>1, <1>2, <1>3, RowMaxes DEF FirstFlash, InRange
  <1>7. /\ box \in [item : Items, ival : Int, fval : Nat, pending : BOOLEAN]
        /\ menu \in [at : {"away", "row", "edit", "item", "value"}, item : Items, draft : Int]
        /\ svc \in [at : {"top", "taken", "read"}, item : Items]
        /\ msave \in [pending : BOOLEAN, target : Modes]
    BY <1>1, <1>3 DEF Empty, Idle, Items
  <1>8. SettingsTypeOK
    BY <1>1, <1>2, <1>3, <1>4, <1>5, <1>6, <1>7 DEF SettingsTypeOK
  <1>9. MailboxHolds
    BY <1>3, RowMaxes DEF MailboxHolds, Empty, Idle, Items, NoEdit
  <1>10. QED
    BY <1>8, <1>9 DEF SettingsInv

(* The mode switch's functions, and what they do to the mode in use.       *)
LEMMA SwitchesClosed ==
  ASSUME NEW s \in Switches
  PROVE  /\ \A m \in Modes : Begin(m) \in Switches /\ Request(s, m) \in Switches
         /\ Abort(s) \in Switches /\ AfterSend(s) \in Switches /\ PollExpired(s) \in Switches
         /\ Service(s) \in Switches
         /\ \A m \in Modes : Request(s, m).current = s.current /\ Begin(m).current = m
         /\ Abort(s).current = s.current
  <1>1. None \notin Modes
    BY DEF None
  <1> USE DEF Switches
  <1>2. ASSUME NEW m \in Modes
        PROVE  Begin(m) \in Switches /\ Request(s, m) \in Switches
               /\ Request(s, m).current = s.current /\ Begin(m).current = m
    BY DEF Begin, Request
  <1>3. Abort(s) \in Switches /\ Abort(s).current = s.current
    BY DEF Abort
  <1>4. AfterSend(s) \in Switches
    BY DEF AfterSend
  <1>5. PollExpired(s) \in Switches
    BY DEF PollExpired
  <1>6. Service(s) \in Switches
    BY DEF Service
  <1> HIDE DEF Switches
  <1>7. QED
    BY <1>2, <1>3, <1>4, <1>5, <1>6

(* A control nibble names a mode of the table.                             *)
LEMMA RecvClosed ==
  ASSUME NEW s \in Switches, NEW m \in Modes \union {None}, NEW i \in BOOLEAN,
         NEW ack \in BOOLEAN,
         NEW ctrl, ctrl = 0 \/ ctrl = CtrlEncode(m, ack)
  PROVE  AfterRecv(s, ctrl, i) \in Switches
  <1>1. m \in Int /\ -1 <= m /\ m <= 6
    BY SMTT(20) DEF None
  <1>2. /\ ctrl \in 0 .. 15 /\ (CtrlPresent(ctrl) => CtrlModeIdx(ctrl) = m)
        /\ CtrlModeIdx(ctrl) \in {m, None}
    <2>1. CASE m = -1
      BY <2>1 DEF CtrlEncode, CtrlPresent, CtrlModeIdx, None
    <2>2. CASE m = 0
      BY <2>2 DEF CtrlEncode, CtrlPresent, CtrlModeIdx, None
    <2>3. CASE m = 1
      BY <2>3 DEF CtrlEncode, CtrlPresent, CtrlModeIdx, None
    <2>4. CASE m = 2
      BY <2>4 DEF CtrlEncode, CtrlPresent, CtrlModeIdx, None
    <2>5. CASE m = 3
      BY <2>5 DEF CtrlEncode, CtrlPresent, CtrlModeIdx, None
    <2>6. CASE m = 4
      BY <2>6 DEF CtrlEncode, CtrlPresent, CtrlModeIdx, None
    <2>7. CASE m = 5
      BY <2>7 DEF CtrlEncode, CtrlPresent, CtrlModeIdx, None
    <2>8. CASE m = 6
      BY <2>8 DEF CtrlEncode, CtrlPresent, CtrlModeIdx, None
    <2>9. QED
      BY <1>1, <2>1, <2>2, <2>3, <2>4, <2>5, <2>6, <2>7, <2>8
  <1>3. CtrlPresent(ctrl) => m \in Modes
    BY <1>1 DEF CtrlEncode, CtrlPresent, None
  <1> DEFINE k == CtrlModeIdx(ctrl)
             h == [s EXCEPT !.probation = FALSE]
  <1>4. CtrlPresent(ctrl) => k \in Modes
    BY <1>2, <1>3
  <1>5. h \in Switches
    BY DEF Switches
  <1>6. CtrlPresent(ctrl) => /\ [h EXCEPT !.apply = k, !.target = None] \in Switches
                             /\ [h EXCEPT !.owe_ack = k, !.armed = k] \in Switches
    BY <1>4, <1>5 DEF Switches
  <1>7. QED
    BY <1>5, <1>6 DEF AfterRecv

(* A command or a turn: the mailbox is as it was.                          *)
LEMMA LoopKeeps ==
  ASSUME SettingsInv, AtCommand, SettingsTypeOK', last' = last \/ last' = NoEdit,
         last' # NoEdit /\ Landed(last) => Landed(last)'
  PROVE  SettingsInv'
  <1>1. /\ svc.at = "top" /\ initiator' = initiator /\ rows' = rows /\ menu' = menu
        /\ region' = region /\ box' = box /\ svc' = svc
    BY DEF AtCommand
  <1>2. MailboxHolds
    BY DEF SettingsInv
  <1>3. \A item \in Items \ {"enc", "freq"} : Only(item)' => box'.ival \in 0 .. RowMax(item)
    BY <1>1, <1>2 DEF MailboxHolds, Only
  <1>4. ASSUME NEW e, DraftOK(e) PROVE DraftOK(e)'
    BY <1>1, <1>4 DEF DraftOK, InRange, Only
  <1>5. ASSUME NEW e, InBox(e) PROVE InBox(e)'
    BY <1>1, <1>5 DEF InBox
  <1>6. menu'.at \in {"edit", "item", "value"} => DraftOK([item |-> menu.item, val |-> menu.draft])'
    BY <1>1, <1>2, <1>4 DEF MailboxHolds
  <1>7. menu'.at = "value" => InBox([item |-> menu.item, val |-> menu.draft])'
    BY <1>1, <1>2, <1>5 DEF MailboxHolds
  <1>8. last' = NoEdit \/ DraftOK(last)'
    BY <1>1, <1>2 DEF MailboxHolds, DraftOK, InRange, Only
  <1>9. menu'.at \notin {"item", "value"} /\ last' # NoEdit =>
          /\ box'.pending \/ svc'.at = "taken" => InBox(last)'
          /\ ~box'.pending /\ svc'.at = "read" => svc'.item = last'.item /\ InBox(last)'
          /\ ~box'.pending /\ svc'.at = "top" => Landed(last)'
    BY <1>1, <1>2 DEF MailboxHolds, InBox
  <1>10. MailboxHolds'
    BY <1>1, <1>2, <1>3, <1>6, <1>7, <1>8, <1>9 DEF MailboxHolds
  <1>11. QED
    BY <1>10 DEF SettingsInv

(* The types of what the board runs with and of what it has saved.         *)
LEMMA LiveType ==
  ASSUME SettingsTypeOK
  PROVE  /\ live \in Lives /\ ms \in Switches /\ flash.live \in Lives /\ flash.mode \in Modes
         /\ flash.rgn \in Int /\ InRange("region", flash.rgn)
         /\ DOMAIN flash = {"live", "mode", "rgn"}
         /\ flash \in [live : Lives, mode : Modes, rgn : Int]
  BY DEF SettingsTypeOK

(* The types of a state that differs in live, ms and flash. *)
(* The types of a state that differs in live, ms and flash.                *)
LEMMA LoopTypes ==
  ASSUME SettingsTypeOK, AtCommand, live' \in Lives, ms' \in Switches,
         \A item \in {"power", "keep"} : InRange(item, live'[item]),
         flash' \in {flash, Saved, FirstFlash}
  PROVE  SettingsTypeOK'
  <1>1. rows' = rows
    BY DEF AtCommand
  <1>2. FirstLive \in Lives /\ FirstMode \in Modes /\ 0 \in Int
    BY RowMaxes DEF FirstLive, Lives
  <1>3. /\ flash' \in [live : Lives, mode : Modes, rgn : Int]
        /\ flash'.rgn \in {flash.rgn, 0} /\ flash'.live \in {flash.live, live', FirstLive}
    <2>1. CASE flash' = flash
      BY <2>1 DEF SettingsTypeOK
    <2>2. CASE flash' = Saved
      <3>1. ms'.current \in Modes
        BY DEF Switches
      <3>2. flash \in [live : Lives, mode : Modes, rgn : Int]
        BY LiveType
      <3>3. Saved \in [live : Lives, mode : Modes, rgn : Int]
        BY <3>1, <3>2 DEF Saved
      <3>4. Saved.live = live' /\ Saved.rgn = flash.rgn
        BY <3>2 DEF Saved
      <3>5. QED
        BY <2>2, <3>3, <3>4
    <2>3. CASE flash' = FirstFlash
      BY <1>2, <2>3 DEF FirstFlash
    <2>4. QED
      BY <2>1, <2>2, <2>3
  <1>4. InRange("region", 0) /\ \A item \in {"power", "keep"} : InRange(item, FirstLive[item])
    BY RowMaxes DEF InRange, FirstLive
  <1>5. InRange("region", flash'.rgn) /\ \A item \in {"power", "keep"} : InRange(item, flash'.live[item])
    BY <1>3, <1>4 DEF SettingsTypeOK
  <1>6. InRange("region", flash.rgn)'
    BY <1>1, <1>5 DEF InRange, Only
  <1>7. /\ InRange("power", live["power"])' /\ InRange("power", flash.live["power"])'
        /\ InRange("keep", live["keep"])' /\ InRange("keep", flash.live["keep"])'
    BY <1>1, <1>5 DEF InRange, Only
  <1>8. \A kept \in {live, flash.live}' : \A item \in {"power", "keep"} : InRange(item, kept[item])'
    BY <1>7
  <1>9. QED
    BY <1>3, <1>6, <1>8 DEF SettingsTypeOK, AtCommand

(* What the board runs with is in its rows' ranges.                        *)
LEMMA LiveRanges ==
  ASSUME SettingsTypeOK
  PROVE  \A item \in {"power", "keep"} : InRange(item, live[item])
  BY DEF SettingsTypeOK

(* AT commands that set a value.                                           *)
LEMMA AtSetKeeps ==
  ASSUME SettingsInv, NEW item \in rows \ {"region", "mode", "keep"},
         NEW v \in AtRange(item),
         AtSet(item, v)
  PROVE  SettingsInv'
  <1>1. item \in {"enc", "freq", "power"}
    BY DEF SettingsInv, SettingsTypeOK, Items
  <1>2. live \in Lives /\ ms \in Switches
    BY LiveType DEF SettingsInv
  <1>3. /\ live' = [live EXCEPT ![item] = v] /\ ms' = ms /\ flash' = flash /\ AtCommand
        /\ last' = last \/ last' = NoEdit
        /\ last' # NoEdit => last.item # item /\ ~(item = "freq" /\ last.item = "region")
    BY DEF AtSet, Forget
  <1>4. live' \in Lives
    BY <1>1, <1>2, <1>3, SMTT(20) DEF Lives, AtRange
  <1>5. item = "power" => InRange("power", v)
    BY <1>1, RowMaxes DEF AtRange, InRange
  <1>6. \A x \in {"power", "keep"} : InRange(x, live'[x])
    BY <1>1, <1>2, <1>3, <1>5, LiveRanges DEF Lives, SettingsInv
  <1>7. SettingsTypeOK'
    BY <1>2, <1>3, <1>4, <1>6, LoopTypes DEF SettingsInv
  <1>8. last' # NoEdit /\ Landed(last) => Landed(last)'
    BY <1>1, <1>2, <1>3 DEF Landed, Lives, AtCommand
  <1>9. QED
    BY <1>3, <1>7, <1>8, LoopKeeps

(* AT+BUFMODE and AT+BUFKEEP.                                              *)
LEMMA AtKeepKeeps ==
  ASSUME SettingsInv, NEW v \in 0 .. KeepMax, AtKeep(v)
  PROVE  SettingsInv'
  <1>2. live \in Lives /\ ms \in Switches
    BY LiveType DEF SettingsInv
  <1>3. /\ live' = [live EXCEPT !.keep = v] /\ ms' = ms /\ flash' = flash /\ AtCommand
        /\ last' = last \/ last' = NoEdit
        /\ last' # NoEdit => last.item # "keep"
    BY DEF AtKeep, Forget
  <1>4. live' \in Lives
    BY <1>2, <1>3, SMTT(20) DEF Lives
  <1>5. InRange("keep", v)
    BY RowMaxes DEF InRange
  <1>6. \A x \in {"power", "keep"} : InRange(x, live'[x])
    BY <1>2, <1>3, <1>5, LiveRanges DEF Lives, SettingsInv
  <1>7. SettingsTypeOK'
    BY <1>2, <1>3, <1>4, <1>6, LoopTypes DEF SettingsInv
  <1>8. last' # NoEdit /\ Landed(last) => Landed(last)'
    BY <1>2, <1>3 DEF Landed, Lives, AtCommand
  <1>9. QED
    BY <1>3, <1>7, <1>8, LoopKeeps

(* The commands and turns that move the mode, ADR or nothing. *)
(* A command or a turn that moves the mode or ADR only.                    *)
LEMMA ModeKeeps ==
  ASSUME SettingsInv, AtCommand, NEW a \in BOOLEAN,
         live' = [live EXCEPT !.adr = a] \/ live' = live,
         ms' \in Switches, flash' = flash,
         last' = NoEdit \/ (last' = last /\ (last.item = "mode" => ms'.current = ms.current))
  PROVE  SettingsInv'
  <1>2. live \in Lives /\ ms \in Switches
    BY LiveType DEF SettingsInv
  <1>4. live' \in Lives /\ \A x \in {"enc", "freq", "power", "keep"} : live'[x] = live[x]
    BY <1>2 DEF Lives
  <1>6. \A x \in {"power", "keep"} : InRange(x, live'[x])
    BY <1>4, LiveRanges DEF SettingsInv
  <1>7. SettingsTypeOK'
    BY <1>4, <1>6, LoopTypes DEF SettingsInv
  <1>8. last' # NoEdit /\ Landed(last) => Landed(last)'
    BY <1>4 DEF Landed, AtCommand
  <1>9. QED
    BY <1>7, <1>8, LoopKeeps

(* AT+MODE, AT+MODE=AUTO and AT+FMODE.                                     *)
LEMMA ModeCommandsKeep ==
  ASSUME SettingsInv
  PROVE  /\ AtModeAuto => SettingsInv'
         /\ \A m \in Modes : AtMode(m) \/ AtFmode(m) => SettingsInv'
  <1>1. live \in Lives /\ ms \in Switches
    BY LiveType DEF SettingsInv
  <1>2. ASSUME AtModeAuto PROVE SettingsInv'
    <2>1. AtCommand /\ live' = [live EXCEPT !.adr = TRUE] /\ ms' = ms /\ flash' = flash /\ last' = last
      BY <1>2 DEF AtModeAuto
    <2>2. QED
      BY <1>1, <2>1, ModeKeeps
  <1>3. ASSUME NEW m \in Modes, AtMode(m) \/ AtFmode(m) PROVE SettingsInv'
    <2>1. /\ AtCommand /\ live' = [live EXCEPT !.adr = FALSE] /\ flash' = flash
          /\ ms' \in {Request(ms, m), Begin(m)}
          /\ last' = NoEdit \/ (last' = last /\ last.item # "mode")
      BY <1>3 DEF AtMode, AtFmode, Forget
    <2>2. ms' \in Switches
      <3>1. Request(ms, m) \in Switches /\ Begin(m) \in Switches
        BY <1>1, SwitchesClosed
      <3>2. QED
        BY <2>1, <3>1
    <2>3. QED
      BY <2>1, <2>2, ModeKeeps
  <1>4. QED
    BY <1>2, <1>3

(* The turns: the peer's answers, the probation, ADR, the power loop.      *)
LEMMA TurnsKeep ==
  ASSUME SettingsInv
  PROVE  /\ ProbationOver \/ DriveAdr => SettingsInv'
         /\ \A ctrl \in Answers : Heard(ctrl) => SettingsInv'
         /\ AdjustTxPower => SettingsInv'
  <1>1. live \in Lives /\ ms \in Switches /\ initiator \in BOOLEAN
    BY LiveType DEF SettingsInv, SettingsTypeOK
  <1>2. ASSUME ProbationOver PROVE SettingsInv'
    <2>1. /\ AtCommand /\ live' = live /\ flash' = flash /\ ms' = Service(PollExpired(ms))
          /\ last' = NoEdit \/ (last' = last /\ (last.item = "mode" => ms'.current = ms.current))
      BY <1>2 DEF ProbationOver, Moved, Forget
    <2>2. ms' \in Switches
      BY <1>1, <2>1, SwitchesClosed
    <2>3. QED
      BY <2>1, <2>2, ModeKeeps
  <1>3. ASSUME DriveAdr PROVE SettingsInv'
    <2>1. /\ AtCommand /\ live' = live /\ flash' = flash /\ last' = last
          /\ ms' \in {Request(ms, m) : m \in Modes} \union {Abort(ms)}
      BY <1>3 DEF DriveAdr
    <2>2. ms' \in Switches /\ ms'.current = ms.current
      BY <1>1, <2>1, SwitchesClosed
    <2>3. QED
      BY <2>1, <2>2, ModeKeeps
  <1>4. ASSUME NEW ctrl \in Answers, Heard(ctrl) PROVE SettingsInv'
    <2>1. /\ AtCommand /\ live' = live /\ flash' = flash
          /\ ms' = IF initiator THEN Service(AfterRecv(ms, ctrl, TRUE))
                   ELSE Service(AfterSend(AfterRecv(ms, ctrl, FALSE)))
          /\ last' = NoEdit \/ (last' = last /\ (last.item = "mode" => ms'.current = ms.current))
      BY <1>4 DEF Heard, Moved, Forget
    <2>2. \E m \in Modes \union {None}, ack \in BOOLEAN : ctrl = 0 \/ ctrl = CtrlEncode(m, ack)
      <3>1. CASE ctrl = 0
        <4>1. None \in Modes \union {None} /\ TRUE \in BOOLEAN
          OBVIOUS
        <4>2. QED
          BY <3>1, <4>1
      <3>2. CASE initiator /\ ctrl = CtrlEncode(ms.target, TRUE)
        BY <1>1, <3>2 DEF Switches
      <3>3. CASE ~initiator /\ ctrl \in {CtrlEncode(m, FALSE) : m \in Modes}
        <4>1. PICK m \in Modes : ctrl = CtrlEncode(m, FALSE)
          BY ONLY <3>3
        <4>2. m \in Modes \union {None} /\ FALSE \in BOOLEAN
          OBVIOUS
        <4>3. QED
          BY <4>1, <4>2
      <3>4. QED
        BY <3>1, <3>2, <3>3 DEF Answers
    <2>3. AfterRecv(ms, ctrl, TRUE) \in Switches /\ AfterRecv(ms, ctrl, FALSE) \in Switches
      BY <1>1, <2>2, RecvClosed
    <2>4. ms' \in Switches
      BY <2>1, <2>3, SwitchesClosed
    <2>5. QED
      BY <2>1, <2>4, ModeKeeps
  <1>5. ASSUME AdjustTxPower PROVE SettingsInv'
    <2>1. PICK p \in 0 .. PwrMax : live' = [live EXCEPT !.power = p]
      BY <1>5 DEF AdjustTxPower
    <2>2. /\ ms' = ms /\ flash' = flash /\ AtCommand
          /\ last' = last \/ last' = NoEdit
          /\ last' # NoEdit => last.item # "power"
      BY <1>5 DEF AdjustTxPower, Forget
    <2>3. live' \in Lives
      BY <1>1, <2>1 DEF Lives
    <2>4. InRange("power", p)
      BY RowMaxes DEF InRange
    <2>5. \A x \in {"power", "keep"} : InRange(x, live'[x])
      BY <1>1, <2>1, <2>4, LiveRanges DEF Lives, SettingsInv
    <2>6. SettingsTypeOK'
      BY <1>1, <2>2, <2>3, <2>5, LoopTypes DEF SettingsInv
    <2>7. last' # NoEdit /\ Landed(last) => Landed(last)'
      BY <1>1, <2>1, <2>2 DEF Landed, Lives, AtCommand
    <2>8. QED
      BY <2>2, <2>6, <2>7, LoopKeeps
  <1>6. QED
    BY <1>2, <1>3, <1>4, <1>5

(* AT&W and AT&F.                                                          *)
LEMMA StoreCommandsKeep ==
  ASSUME SettingsInv
  PROVE  AtSave \/ AtFactory => SettingsInv'
  <1>1. live \in Lives /\ ms \in Switches /\ flash \in [live : Lives, mode : Modes, rgn : Int]
    BY LiveType DEF SettingsInv
  <1>2. ASSUME AtSave PROVE SettingsInv'
    <2>1. /\ AtCommand /\ live' = live /\ ms' = ms /\ flash' = Saved
          /\ last' = NoEdit \/ (last' = last /\ last.item # "mode")
      BY <1>2 DEF AtSave, Forget
    <2>2. flash'.live = live' /\ flash'.rgn = flash.rgn
      BY <1>1, <2>1 DEF Saved
    <2>3. SettingsTypeOK'
      BY <1>1, <2>1, LiveRanges, LoopTypes DEF SettingsInv
    <2>4. last' # NoEdit /\ Landed(last) => Landed(last)'
      BY <2>1, <2>2 DEF Landed, AtCommand
    <2>5. QED
      BY <2>1, <2>3, <2>4, LoopKeeps
  <1>3. ASSUME AtFactory PROVE SettingsInv'
    <2>1. /\ AtCommand /\ live' = FirstLive /\ ms' = Begin(FirstMode) /\ flash' = FirstFlash
          /\ last' = NoEdit
      BY <1>3 DEF AtFactory
    <2>2. FirstLive \in Lives /\ Begin(FirstMode) \in Switches
      <3>1. 0 \in Regions /\ FirstMode \in Modes
        BY RowMaxes
      <3>2. FirstLive \in Lives
        BY <3>1 DEF FirstLive, Lives
      <3>3. QED
        BY <1>1, <3>1, <3>2, SwitchesClosed
    <2>3. \A x \in {"power", "keep"} : InRange(x, FirstLive[x])
      BY RowMaxes DEF InRange, FirstLive
    <2>4. SettingsTypeOK'
      BY <2>1, <2>2, <2>3, LoopTypes DEF SettingsInv
    <2>5. QED
      BY <2>1, <2>4, LoopKeeps
  <1>4. QED
    BY <1>2, <1>3

(* EnterEdit's draft.                                                      *)
LEMMA ShownInRange ==
  ASSUME SettingsInv, NEW item \in rows
  PROVE  item \in Items /\ Shown(item) \in Int /\ DraftOK([item |-> item,
         val |-> Shown(item)])
  <1>1. item \in Items
    BY DEF SettingsInv, SettingsTypeOK
  <1>2. /\ live.enc \in {0, 1} /\ live.freq \in Nat /\ live.power \in Int /\ live.keep \in Int
        /\ ms.current \in Modes /\ region \in Regions
        /\ InRange("power", live["power"]) /\ InRange("keep", live["keep"])
    BY LiveType DEF SettingsInv, SettingsTypeOK, Switches, Lives
  <1>3. Shown(item) \in Int /\ InRange(item, Shown(item)) /\ (item = "region" => Shown(item) \in Regions)
    <2>1. CASE item \in {"region", "mode"}
      BY <1>2, <2>1, RowMaxes, SMTT(20) DEF Shown, InRange
    <2>2. CASE item \in {"enc", "freq"}
      BY <1>2, <2>2 DEF Shown, InRange
    <2>3. CASE item \in {"power", "keep"}
      BY <1>2, <2>3 DEF Shown
    <2>4. QED
      BY <1>1, <2>1, <2>2, <2>3 DEF Items
  <1>4. QED
    BY <1>1, <1>3 DEF DraftOK

(* A row that is stepped past its end goes on at the other.                *)
LEMMA ModInRange ==
  \A a \in Int, n \in Nat \ {0} : a % n \in 0 .. n - 1
  OBVIOUS

(* EditStep's draft.                                                       *)
LEMMA SteppedInRange ==
  ASSUME SettingsInv, NEW item \in Items, NEW v \in Int, NEW dir \in {-1, 1},
         DraftOK([item |-> item, val |-> v])
  PROVE  LET w == Stepped(item, IF item = "enc" THEN v ELSE v + dir)
         IN  w \in Int /\ DraftOK([item |-> item, val |-> w])
  <1> DEFINE w == Stepped(item, IF item = "enc" THEN v ELSE v + dir)
  <1>1. InRange(item, v) /\ item \in rows
    BY DEF DraftOK
  <1>2. region \in Regions /\ Lo[region] \in Nat /\ Hi[region] \in Nat
    BY DEF SettingsInv, SettingsTypeOK
  <1>3. w \in Int /\ InRange(item, w) /\ (item = "region" => w \in Regions)
    <2>1. CASE item = "enc"
      BY <1>1, <2>1 DEF Stepped, InRange
    <2>2. CASE item = "freq"
      BY <1>1, <1>2, <2>2 DEF Stepped, InRange, Within
    <2>3. CASE item = "region"
      <3>1. w = (v + dir + (RowMax("region") + 1)) % (RowMax("region") + 1)
        BY <2>3, RowMaxes DEF Stepped, Around
      <3>2. RowMax("region") \in Nat /\ RowMax("region") + 1 \in Nat \ {0}
        BY RowMaxes
      <3>3. v + dir + (RowMax("region") + 1) \in Int
        BY <3>2
      <3>4. (v + dir + (RowMax("region") + 1)) % (RowMax("region") + 1)
                \in 0 .. (RowMax("region") + 1) - 1
        BY ONLY <3>2, <3>3, ModInRange, Zenon
      <3>5. (RowMax("region") + 1) - 1 = RowMax("region")
        BY ONLY <3>2
      <3>6. w \in 0 .. RowMax("region")
        BY ONLY <3>1, <3>4, <3>5, Zenon
      <3>7. QED
        BY <2>3, <3>6, RowMaxes DEF InRange
    <2>4. CASE item = "mode"
      <3>1. w = (v + dir + (RowMax("mode") + 1)) % (RowMax("mode") + 1)
        BY <2>4, RowMaxes DEF Stepped, Around
      <3>2. RowMax("mode") \in Nat /\ RowMax("mode") + 1 \in Nat \ {0}
        BY RowMaxes
      <3>3. v + dir + (RowMax("mode") + 1) \in Int
        BY <3>2
      <3>4. (v + dir + (RowMax("mode") + 1)) % (RowMax("mode") + 1)
                \in 0 .. (RowMax("mode") + 1) - 1
        BY ONLY <3>2, <3>3, ModInRange, Zenon
      <3>5. (RowMax("mode") + 1) - 1 = RowMax("mode")
        BY ONLY <3>2
      <3>6. w \in 0 .. RowMax("mode")
        BY ONLY <3>1, <3>4, <3>5, Zenon
      <3>7. QED
        BY <2>4, <3>6, RowMaxes DEF InRange
    <2>5. CASE item = "power"
      <3>1. w = Within(0, v + dir, PwrMax)
        BY <2>5 DEF Stepped
      <3>2. w \in 0 .. PwrMax
        BY <3>1 DEF Within
      <3>3. QED
        BY <2>5, <3>2, RowMaxes DEF InRange
    <2>6. CASE item = "keep"
      <3>1. w = Within(0, v + dir, KeepMax)
        BY <2>6 DEF Stepped
      <3>2. w \in 0 .. KeepMax
        BY <3>1 DEF Within
      <3>3. QED
        BY <2>6, <3>2, RowMaxes DEF InRange
    <2>7. QED
      BY <2>1, <2>2, <2>3, <2>4, <2>5, <2>6 DEF Items
  <1>4. QED
    BY <1>1, <1>3 DEF DraftOK

(* The types of a state that differs in what the task writes.              *)
LEMMA TaskTypes ==
  ASSUME SettingsTypeOK, UNCHANGED <<initiator, rows, svc, msave, live, ms, flash>>,
         region' \in Regions,
         box' \in [item : Items, ival : Int, fval : Nat, pending : BOOLEAN],
         menu' \in [at : {"away", "row", "edit", "item", "value"}, item : Items, draft : Int]
  PROVE  SettingsTypeOK'
  <1>1. rows' = rows /\ live' = live /\ flash' = flash
    OBVIOUS
  <1>2. InRange("region", flash.rgn)'
    BY <1>1 DEF InRange, Only, SettingsTypeOK
  <1>3. \A kept \in {live, flash.live} : \A item \in {"power", "keep"} : InRange(item, kept[item])
    BY DEF SettingsTypeOK
  <1>4. (\A kept \in {live, flash.live} : \A item \in {"power", "keep"} : InRange(item, kept[item]))'
    BY <1>1, <1>3 DEF InRange, Only
  <1>5. QED
    BY <1>2, <1>4 DEF SettingsTypeOK

(* The task moves in the menu, outside ConfirmEdit. *)
(* The task moves in the menu, outside ConfirmEdit.                        *)
LEMMA MenuKeeps ==
  ASSUME SettingsInv,
         UNCHANGED <<initiator, rows, region, box, svc, msave, live, ms, flash, last>>,
         menu.at \notin {"item", "value"}, menu'.at \notin {"item", "value"},
         menu' \in [at : {"away", "row", "edit", "item", "value"}, item : Items, draft : Int],
         menu'.at = "edit" => DraftOK([item |-> menu'.item, val |-> menu'.draft])
  PROVE  SettingsInv'
  <1>1. SettingsTypeOK'
    BY TaskTypes DEF SettingsInv, SettingsTypeOK
  <1>2. MailboxHolds
    BY DEF SettingsInv
  <1>3. menu'.at \in {"edit", "item", "value"} => DraftOK([item |-> menu.item, val |-> menu.draft])'
    BY DEF DraftOK, InRange, Only
  <1>4. last' = NoEdit \/ DraftOK(last)'
    BY <1>2 DEF MailboxHolds, DraftOK, InRange, Only
  <1>5. \A item \in Items \ {"enc", "freq"} : Only(item)' => box'.ival \in 0 .. RowMax(item)
    BY <1>2 DEF MailboxHolds, Only
  <1>6. Landed(last) => Landed(last)'
    BY DEF Landed
  <1>7. InBox(last) => InBox(last)'
    BY DEF InBox
  <1>8. menu'.at \notin {"item", "value"} /\ last' # NoEdit =>
          /\ box'.pending \/ svc'.at = "taken" => InBox(last)'
          /\ ~box'.pending /\ svc'.at = "read" => svc'.item = last'.item /\ InBox(last)'
          /\ ~box'.pending /\ svc'.at = "top" => Landed(last)'
    BY <1>2, <1>6, <1>7 DEF MailboxHolds
  <1>9. MailboxHolds'
    BY <1>2, <1>3, <1>4, <1>5, <1>8 DEF MailboxHolds
  <1>10. QED
    BY <1>1, <1>9 DEF SettingsInv

(* EnterEdit, EditStep and the button.                                     *)
LEMMA EditKeeps ==
  ASSUME SettingsInv
  PROVE  /\ \A item \in rows : EnterEdit(item) => SettingsInv'
         /\ \A dir \in {-1, 1} : EditStep(dir) => SettingsInv'
         /\ PollButton => SettingsInv'
  <1>1. /\ menu \in [at : {"away", "row", "edit", "item", "value"}, item : Items, draft : Int]
        /\ Idle \in [at : {"away", "row", "edit", "item", "value"}, item : Items, draft : Int]
    BY DEF SettingsInv, SettingsTypeOK, Idle, Items
  <1>2. ASSUME NEW item \in rows, EnterEdit(item) PROVE SettingsInv'
    <2>1. /\ menu.at = "row" /\ menu' = [at |-> "edit", item |-> item, draft |-> Shown(item)]
          /\ UNCHANGED <<initiator, rows, region, box, svc, msave, live, ms, flash, last>>
      BY <1>2 DEF EnterEdit
    <2> HIDE <1>2
    <2>2. menu' \in [at : {"away", "row", "edit", "item", "value"}, item : Items, draft : Int]
      BY <2>1, ShownInRange
    <2>3. menu'.at = "edit" /\ DraftOK([item |-> menu'.item, val |-> menu'.draft])
      BY <2>1, ShownInRange
    <2>4. QED
      BY <2>1, <2>2, <2>3, MenuKeeps
  <1>3. ASSUME NEW dir \in {-1, 1}, EditStep(dir) PROVE SettingsInv'
    <2> DEFINE w == Stepped(menu.item, IF menu.item = "enc" THEN menu.draft ELSE menu.draft + dir)
    <2>1. /\ menu.at = "edit" /\ menu' = [menu EXCEPT !.draft = w]
          /\ UNCHANGED <<initiator, rows, region, box, svc, msave, live, ms, flash, last>>
      BY <1>3 DEF EditStep
    <2>2. DraftOK([item |-> menu.item, val |-> menu.draft])
      BY <2>1 DEF SettingsInv, MailboxHolds
    <2>3. w \in Int /\ DraftOK([item |-> menu.item, val |-> w])
      BY <1>1, <2>2, SteppedInRange
    <2> HIDE DEF w
    <2>4. menu' \in [at : {"away", "row", "edit", "item", "value"}, item : Items, draft : Int]
      BY <1>1, <2>1, <2>3
    <2>5. menu'.at = "edit" /\ menu'.item = menu.item /\ menu'.draft = w
      BY <1>1, <2>1
    <2>6. QED
      BY <2>1, <2>3, <2>4, <2>5, MenuKeeps
  <1>4. ASSUME PollButton PROVE SettingsInv'
    <2>1. /\ menu.at \notin {"item", "value"} /\ menu' \in {Idle, [Idle EXCEPT !.at = "away"], menu}
          /\ menu'.at # "edit"
          /\ UNCHANGED <<initiator, rows, region, box, svc, msave, live, ms, flash, last>>
      BY <1>4 DEF PollButton, CancelEdit, Idle
    <2>2. menu' \in [at : {"away", "row", "edit", "item", "value"}, item : Items, draft : Int]
      BY <1>1, <2>1 DEF Idle
    <2>3. menu'.at \notin {"item", "value"}
      BY <2>1 DEF Idle
    <2>4. QED
      BY <2>1, <2>2, <2>3, MenuKeeps
  <1>5. QED
    BY <1>2, <1>3, <1>4

(* ConfirmEdit's three writes.                                             *)
LEMMA EditConfirmKeeps ==
  ASSUME SettingsInv
  PROVE  ConfirmItem \/ ConfirmValue \/ ConfirmFlag => SettingsInv'
  <1> DEFINE edit == [item |-> menu.item, val |-> menu.draft]
             Boxes == [item : Items, ival : Int, fval : Nat, pending : BOOLEAN]
             Menus == [at : {"away", "row", "edit", "item", "value"}, item : Items, draft : Int]
  <1>1. MailboxHolds /\ menu \in Menus /\ box \in Boxes /\ Idle \in Menus /\ region \in Regions
    BY DEF SettingsInv, SettingsTypeOK, Idle, Items
  <1>3. ASSUME ConfirmItem PROVE SettingsInv'
    <2>1. /\ menu.at = "edit" /\ menu' = [menu EXCEPT !.at = "item"] /\ box' = [box EXCEPT !.item = menu.item]
          /\ UNCHANGED <<initiator, rows, region, svc, msave, live, ms, flash, last>>
      BY <1>3 DEF ConfirmItem
    <2>2. menu' \in Menus /\ box' \in Boxes /\ menu'.at = "item" /\ menu'.item = menu.item
          /\ menu'.draft = menu.draft /\ box'.item = menu.item /\ box'.ival = box.ival
      BY <1>1, <2>1
    <2>3. SettingsTypeOK'
      BY <1>1, <2>1, <2>2, TaskTypes DEF SettingsInv
    <2>4. DraftOK(edit) /\ menu.item \in rows
      BY <1>1, <2>1 DEF MailboxHolds, DraftOK
    <2>5. DraftOK([item |-> menu.item, val |-> menu.draft])'
      BY <2>1, <2>2, <2>4 DEF DraftOK, InRange, Only
    <2>6. last' = NoEdit \/ DraftOK(last)'
      BY <1>1, <2>1 DEF MailboxHolds, DraftOK, InRange, Only
    <2>7. \A item \in Items \ {"enc", "freq"} : Only(item)' => box'.ival \in 0 .. RowMax(item)
      BY <1>1, <2>1, <2>2 DEF MailboxHolds, Only
    <2>8. MailboxHolds'
      BY <1>1, <2>1, <2>2, <2>4, <2>5, <2>6, <2>7 DEF MailboxHolds
    <2>9. QED
      BY <2>3, <2>8 DEF SettingsInv
  <1>4. ASSUME ConfirmValue PROVE SettingsInv'
    <2>1. /\ menu.at = "item" /\ menu' = [menu EXCEPT !.at = "value"]
          /\ box' = IF menu.item = "freq" THEN [box EXCEPT !.fval = menu.draft]
                                          ELSE [box EXCEPT !.ival = menu.draft]
          /\ region' = IF menu.item = "region" THEN menu.draft ELSE region
          /\ UNCHANGED <<initiator, rows, svc, msave, live, ms, flash, last>>
      BY <1>4 DEF ConfirmValue
    <2>2. DraftOK(edit) /\ box.item = menu.item
      BY <1>1, <2>1 DEF MailboxHolds
    <2>3. /\ menu.item \in rows /\ InRange(menu.item, menu.draft)
          /\ menu.item = "region" => menu.draft \in Regions
          /\ menu.item = "freq" => menu.draft \in Nat
      BY <2>2 DEF DraftOK, InRange
    <2>4. /\ menu' \in Menus /\ box' \in Boxes /\ region' \in Regions
          /\ menu'.at = "value" /\ menu'.item = menu.item /\ menu'.draft = menu.draft
          /\ box'.item = menu.item
          /\ (IF menu.item = "freq" THEN box'.fval ELSE box'.ival) = menu.draft
          /\ menu.item = "freq" => box'.ival = box.ival
      BY <1>1, <2>1, <2>2, <2>3
    <2>5. SettingsTypeOK'
      BY <2>1, <2>4, TaskTypes DEF SettingsInv
    <2>6. DraftOK([item |-> menu.item, val |-> menu.draft])'
      BY <2>1, <2>2, <2>4 DEF DraftOK, InRange, Only
    <2>7. last' = NoEdit \/ DraftOK(last)'
      BY <1>1, <2>1 DEF MailboxHolds, DraftOK, InRange, Only
    <2>8. \A item \in Items \ {"enc", "freq"} : Only(item)' => box'.ival \in 0 .. RowMax(item)
      <3> SUFFICES ASSUME NEW item \in Items \ {"enc", "freq"}, rows \subseteq {item, "enc", "freq"}
                   PROVE  box'.ival \in 0 .. RowMax(item)
        BY <2>1 DEF Only
      <3>1. RowMax(item) \in Nat /\ RowMax(item) >= 1
        BY RowMaxes DEF Items
      <3>2. CASE menu.item = "freq"
        BY <1>1, <2>4, <3>2 DEF MailboxHolds, Only
      <3>3. CASE menu.item = "enc"
        BY <2>3, <2>4, <3>1, <3>3 DEF InRange
      <3>4. CASE menu.item = item
        BY <2>3, <2>4, <3>4 DEF InRange, Only
      <3>5. QED
        BY <2>3, <3>2, <3>3, <3>4
    <2>9. InBox([item |-> menu.item, val |-> menu.draft])'
      BY <2>4 DEF InBox
    <2>10. box'.pending \/ svc'.at = "taken" => box'.item \in rows'
      BY <2>1, <2>3, <2>4
    <2>11. MailboxHolds'
      BY <1>1, <2>1, <2>4, <2>6, <2>7, <2>8, <2>9, <2>10 DEF MailboxHolds
    <2>12. QED
      BY <2>5, <2>11 DEF SettingsInv
  <1>5. ASSUME ConfirmFlag PROVE SettingsInv'
    <2>1. /\ menu.at = "value" /\ menu' = Idle /\ box' = [box EXCEPT !.pending = TRUE]
          /\ last' = edit
          /\ UNCHANGED <<initiator, rows, region, svc, msave, live, ms, flash>>
      BY <1>5 DEF ConfirmFlag
    <2>2. DraftOK(edit) /\ box.item = menu.item /\ InBox(edit) /\ menu.item \in rows
      BY <1>1, <2>1 DEF MailboxHolds, DraftOK
    <2>3. /\ box' \in Boxes /\ box'.pending = TRUE /\ box'.item = box.item
          /\ box'.ival = box.ival /\ box'.fval = box.fval /\ menu'.at = "row"
      BY <1>1, <2>1 DEF Idle
    <2>4. SettingsTypeOK'
      BY <1>1, <2>1, <2>3, TaskTypes DEF SettingsInv
    <2>5. DraftOK(last)' /\ InBox(last)'
      BY <2>1, <2>2, <2>3 DEF DraftOK, InRange, Only, InBox
    <2>6. \A item \in Items \ {"enc", "freq"} : Only(item)' => box'.ival \in 0 .. RowMax(item)
      BY <1>1, <2>1, <2>3 DEF MailboxHolds, Only
    <2>7. MailboxHolds'
      BY <1>1, <2>1, <2>2, <2>3, <2>5, <2>6 DEF MailboxHolds
    <2>8. QED
      BY <2>4, <2>7 DEF SettingsInv
  <1>6. QED
    BY <1>3, <1>4, <1>5

(* What SaveSettings writes.                                               *)
LEMMA SavedIs ==
  ASSUME SettingsTypeOK
  PROVE  /\ Saved.live = live' /\ Saved.mode = ms'.current /\ Saved.rgn = flash.rgn
         /\ live' \in Lives /\ ms' \in Switches => Saved \in [live : Lives, mode : Modes, rgn : Int]
  <1>1. flash \in [live : Lives, mode : Modes, rgn : Int]
    BY DEF SettingsTypeOK
  <1>2. Saved.live = live' /\ Saved.mode = ms'.current /\ Saved.rgn = flash.rgn
    BY <1>1 DEF Saved
  <1>3. ms' \in Switches => ms'.current \in Modes
    BY DEF Switches
  <1>4. QED
    BY <1>1, <1>2, <1>3 DEF Saved

(* The types of a state that differs in what ServiceConfig writes. *)
(* The types of a state that differs in what ServiceConfig writes.         *)
LEMMA ServiceTypes ==
  ASSUME SettingsTypeOK, UNCHANGED <<initiator, rows, menu, region>>,
         box' \in [item : Items, ival : Int, fval : Nat, pending : BOOLEAN],
         svc' \in [at : {"top", "taken", "read"}, item : Items],
         msave' \in [pending : BOOLEAN, target : Modes],
         live' \in Lives, ms' \in Switches, flash' \in [live : Lives, mode : Modes, rgn : Int],
         flash'.live \in {live', flash.live}, InRange("region", flash'.rgn),
         InRange("power", live'["power"]), InRange("keep", live'["keep"])
  PROVE  SettingsTypeOK'
  <1>1. InRange("region", flash.rgn)'
    BY DEF InRange, Only
  <1>2. InRange("power", flash'.live["power"]) /\ InRange("keep", flash'.live["keep"])
    BY LiveType, LiveRanges DEF SettingsTypeOK
  <1>3. /\ InRange("power", live["power"])' /\ InRange("power", flash.live["power"])'
        /\ InRange("keep", live["keep"])' /\ InRange("keep", flash.live["keep"])'
    BY <1>2 DEF InRange, Only
  <1>4. (\A kept \in {live, flash.live} : \A item \in {"power", "keep"} : InRange(item, kept[item]))'
    BY <1>3
  <1>5. QED
    BY <1>1, <1>4 DEF SettingsTypeOK

(* The edits of a state that differs in what ServiceConfig writes; what is left is the last line. *)
(* A step of ServiceConfig: what is left is where the last edit is.        *)
LEMMA ServiceKeeps ==
  ASSUME SettingsInv, SettingsTypeOK', UNCHANGED <<initiator, rows, menu, region, last>>,
         box'.item = box.item, box'.ival = box.ival, box'.fval = box.fval,
         box'.pending \/ svc'.at = "taken" => box.item \in rows,
         svc'.at = "read" => svc'.item \in rows,
         menu.at \notin {"item", "value"} /\ last # NoEdit =>
           /\ box'.pending \/ svc'.at = "taken" => InBox(last)
           /\ ~box'.pending /\ svc'.at = "read" => svc'.item = last.item /\ InBox(last)
           /\ ~box'.pending /\ svc'.at = "top" => Landed(last)'
  PROVE  SettingsInv'
  <1>1. MailboxHolds
    BY DEF SettingsInv
  <1>2. menu'.at \in {"edit", "item", "value"} => DraftOK([item |-> menu.item, val |-> menu.draft])'
    BY <1>1 DEF MailboxHolds, DraftOK, InRange, Only
  <1>3. menu'.at = "value" => InBox([item |-> menu.item, val |-> menu.draft])'
    BY <1>1 DEF MailboxHolds, InBox
  <1>4. \A item \in Items \ {"enc", "freq"} : Only(item)' => box'.ival \in 0 .. RowMax(item)
    BY <1>1 DEF MailboxHolds, Only
  <1>5. last' = NoEdit \/ DraftOK(last)'
    BY <1>1 DEF MailboxHolds, DraftOK, InRange, Only
  <1>6. InBox(last) => InBox(last)'
    BY DEF InBox
  <1>7. menu'.at \notin {"item", "value"} /\ last' # NoEdit =>
          /\ box'.pending \/ svc'.at = "taken" => InBox(last)'
          /\ ~box'.pending /\ svc'.at = "read" => svc'.item = last'.item /\ InBox(last)'
          /\ ~box'.pending /\ svc'.at = "top" => Landed(last)'
    BY <1>6
  <1>8. MailboxHolds'
    BY <1>1, <1>2, <1>3, <1>4, <1>5, <1>7 DEF MailboxHolds
  <1>9. QED
    BY <1>8 DEF SettingsInv

(* ServiceConfig marks the mailbox empty, and saves a switch that arrived. *)
LEMMA ServiceTopKeeps ==
  ASSUME SettingsInv, ServiceTop
  PROVE  SettingsInv'
  <1>1. /\ svc.at = "top" /\ (Arrived \/ box.pending)
        /\ UNCHANGED <<initiator, rows, menu, region, live, ms, last>>
        /\ msave' = [msave EXCEPT !.pending = @ /\ ~Arrived]
        /\ flash' = IF Arrived THEN Saved ELSE flash
        /\ svc' = IF box.pending THEN [svc EXCEPT !.at = "taken"] ELSE svc
        /\ box' = [box EXCEPT !.pending = FALSE]
    BY DEF ServiceTop
  <1>2. /\ box \in [item : Items, ival : Int, fval : Nat, pending : BOOLEAN]
        /\ svc \in [at : {"top", "taken", "read"}, item : Items]
        /\ msave \in [pending : BOOLEAN, target : Modes]
        /\ MailboxHolds /\ SettingsTypeOK
    BY DEF SettingsInv, SettingsTypeOK
  <1>3. /\ box' \in [item : Items, ival : Int, fval : Nat, pending : BOOLEAN]
        /\ box'.pending = FALSE /\ box'.item = box.item /\ box'.ival = box.ival /\ box'.fval = box.fval
        /\ svc' \in [at : {"top", "taken", "read"}, item : Items]
        /\ svc'.at = IF box.pending THEN "taken" ELSE "top"
    BY <1>1, <1>2
  <1>4. msave' \in [pending : BOOLEAN, target : Modes]
    BY <1>1, <1>2
  <1>5. /\ flash' \in [live : Lives, mode : Modes, rgn : Int] /\ flash'.rgn = flash.rgn
        /\ flash'.live \in {live', flash.live}
        /\ ~(flash' = flash) => flash'.live = live' /\ flash'.mode = ms'.current
    BY <1>1, <1>2, LiveType, SavedIs
  <1>6. InRange("region", flash'.rgn)
    BY <1>2, <1>5, LiveType
  <1>7. InRange("power", live'["power"]) /\ InRange("keep", live'["keep"])
    BY <1>1, <1>2, LiveRanges
  <1>8. SettingsTypeOK'
    BY <1>1, <1>2, <1>3, <1>4, <1>5, <1>6, <1>7, LiveType, ServiceTypes
  <1>9. Landed(last) => Landed(last)'
    BY <1>1, <1>5 DEF Landed
  <1>10. box.pending => box.item \in rows
    BY <1>2 DEF MailboxHolds
  <1>11. menu.at \notin {"item", "value"} /\ last # NoEdit =>
           /\ box.pending => InBox(last)
           /\ ~box.pending => Landed(last)
    BY <1>1, <1>2 DEF MailboxHolds
  <1>12. QED
    BY <1>1, <1>3, <1>8, <1>9, <1>10, <1>11, ServiceKeeps

(* It reads the item.                                                      *)
LEMMA ServiceReadKeeps ==
  ASSUME SettingsInv, ServiceRead
  PROVE  SettingsInv'
  <1>1. /\ svc.at = "taken" /\ svc' = [at |-> "read", item |-> box.item]
        /\ UNCHANGED <<initiator, rows, menu, region, box, msave, live, ms, flash, last>>
    BY DEF ServiceRead
  <1>2. MailboxHolds /\ SettingsTypeOK
    BY DEF SettingsInv
  <1>3. svc' \in [at : {"top", "taken", "read"}, item : Items]
    BY <1>1, <1>2 DEF SettingsTypeOK
  <1>4. SettingsTypeOK'
    BY <1>1, <1>2, <1>3, LiveType, LiveRanges, ServiceTypes DEF SettingsTypeOK
  <1>5. box.item \in rows
    BY <1>1, <1>2 DEF MailboxHolds
  <1>6. menu.at \notin {"item", "value"} /\ last # NoEdit => InBox(last)
    BY <1>1, <1>2 DEF MailboxHolds
  <1>7. InBox(last) => box.item = last.item
    BY DEF InBox
  <1>8. QED
    BY <1>1, <1>4, <1>5, <1>6, <1>7, ServiceKeeps

(* What Apply does with a value that the row can hold. *)
(* Applying keeps the types, a half-read edit included.                    *)
LEMMA ApplyTypes ==
  ASSUME SettingsInv, NEW item \in rows, NEW v \in Int, Apply(item, v),
         item = "freq" => v \in Nat,
         item \notin {"enc", "freq"} => InRange(item, v)
  PROVE  /\ live' \in Lives /\ ms' \in Switches
         /\ msave' \in [pending : BOOLEAN, target : Modes]
         /\ flash' \in [live : Lives, mode : Modes, rgn : Int]
         /\ flash'.live \in {live', flash.live} /\ InRange("region", flash'.rgn)
         /\ InRange("power", live'["power"]) /\ InRange("keep", live'["keep"])
  <1>1. /\ live \in Lives /\ ms \in Switches /\ flash \in [live : Lives, mode : Modes, rgn : Int]
        /\ InRange("region", flash.rgn) /\ InRange("power", live["power"]) /\ InRange("keep", live["keep"])
        /\ msave \in [pending : BOOLEAN, target : Modes] /\ item \in Items
        /\ SettingsTypeOK
    BY LiveType, LiveRanges DEF SettingsInv, SettingsTypeOK
  <1>2. CASE item = "region"
    <2>1. /\ live' = live \/ \E f \in Nat : live' = [live EXCEPT !.freq = f]
          /\ msave' = msave /\ ms' = ms /\ flash' = [Saved EXCEPT !.rgn = v]
      BY <1>2 DEF Apply, ApplyRegion
    <2>2. live' \in Lives /\ live'["power"] = live["power"] /\ live'["keep"] = live["keep"]
      BY <1>1, <2>1, SMTT(20) DEF Lives
    <2>3. Saved \in [live : Lives, mode : Modes, rgn : Int] /\ Saved.live = live'
      BY <1>1, <2>1, <2>2, SavedIs
    <2>4. /\ flash' \in [live : Lives, mode : Modes, rgn : Int]
          /\ flash'.live = live' /\ flash'.rgn = v
      BY <2>1, <2>3
    <2>5. QED
      BY <1>1, <1>2, <2>1, <2>2, <2>4
  <1>3. CASE item = "mode"
    <2>1. v \in Modes
      <3>1. rows = {"mode"}
        BY <1>1, <1>3 DEF SettingsTypeOK
      <3>2. Only("mode")
        BY <3>1 DEF Only
      <3>3. v \in 0 .. RowMax("mode")
        BY <1>3, <3>2 DEF InRange
      <3>4. QED
        BY <3>3, RowMaxes
    <2>2. /\ live' = [live EXCEPT !.adr = FALSE]
          /\ ms' \in {Request(ms, v), ms, Begin(v)} /\ msave' \in {msave, [pending |-> TRUE, target |-> v]}
          /\ flash' \in {flash, Saved}
      BY <1>3 DEF Apply, ApplyPin
    <2>3. live' \in Lives /\ live'["power"] = live["power"] /\ live'["keep"] = live["keep"]
      BY <1>1, <2>2 DEF Lives
    <2>4. ms' \in Switches
      <3>1. Request(ms, v) \in Switches /\ Begin(v) \in Switches
        BY <1>1, <2>1, SwitchesClosed
      <3>2. QED
        BY <1>1, <2>2, <3>1
    <2>5. msave' \in [pending : BOOLEAN, target : Modes]
      <3>1. [pending |-> TRUE, target |-> v] \in [pending : BOOLEAN, target : Modes]
        BY <2>1
      <3>2. QED
        BY ONLY <1>1, <2>2, <3>1
    <2>6. /\ flash' \in [live : Lives, mode : Modes, rgn : Int]
          /\ flash'.live \in {live', flash.live} /\ flash'.rgn = flash.rgn
      BY <1>1, <2>2, <2>3, <2>4, SavedIs
    <2>7. QED
      BY <1>1, <2>3, <2>4, <2>5, <2>6
  <1>4. CASE item \notin {"region", "mode"}
    <2> DEFINE w == IF item = "enc" THEN IF v = 0 THEN 0 ELSE 1 ELSE v
    <2>1. live' = [live EXCEPT ![item] = w] /\ msave' = msave /\ ms' = ms /\ flash' = Saved
      BY <1>4 DEF Apply, ApplyStored
    <2>2. /\ item = "enc" => w \in {0, 1}
          /\ item = "freq" => w \in Nat
          /\ item \in {"power", "keep"} => w \in Int /\ InRange(item, w)
      OBVIOUS
    <2> HIDE DEF w
    <2>3. item \in {"enc", "freq", "power", "keep"}
      BY <1>1, <1>4 DEF Items
    <2>4. live' \in Lives
      BY <1>1, <2>1, <2>2, <2>3 DEF Lives
    <2>5. InRange("power", live'["power"]) /\ InRange("keep", live'["keep"])
      BY <1>1, <2>1, <2>2, <2>3 DEF Lives
    <2>6. /\ flash' \in [live : Lives, mode : Modes, rgn : Int]
          /\ flash'.live = live' /\ flash'.rgn = flash.rgn
      BY <1>1, <2>1, <2>4, SavedIs
    <2>7. QED
      BY <1>1, <2>1, <2>4, <2>5, <2>6
  <1>5. QED
    BY <1>2, <1>3, <1>4

(* Applying a whole edit makes it land.                                    *)
LEMMA ApplyLands ==
  ASSUME SettingsInv, NEW e, DraftOK(e), e.item \in Items, Apply(e.item, e.val),
         initiator' = initiator
  PROVE  Landed(e)'
  <1>1. live \in Lives /\ ms \in Switches /\ flash \in [live : Lives, mode : Modes, rgn : Int] /\ SettingsTypeOK
    BY LiveType DEF SettingsInv
  <1>2. InRange(e.item, e.val) /\ (e.item = "region" => e.val \in Regions)
    BY DEF DraftOK
  <1>3. CASE e.item = "region"
    <2>1. /\ live' = IF live.freq \in Lo[e.val] .. Hi[e.val] THEN live
                     ELSE [live EXCEPT !.freq = Lo[e.val]]
          /\ ms' = ms /\ flash' = [Saved EXCEPT !.rgn = e.val]
      BY <1>2, <1>3 DEF Apply, ApplyRegion
    <2>2. /\ Lo[e.val] \in Nat /\ Hi[e.val] \in Nat /\ Lo[e.val] <= Hi[e.val]
      BY <1>2, <1>3
    <2>3. live' \in Lives /\ live'.freq \in Lo[e.val] .. Hi[e.val]
      <3>1. CASE live.freq \in Lo[e.val] .. Hi[e.val]
        BY <1>1, <2>1, <3>1
      <3>2. CASE live.freq \notin Lo[e.val] .. Hi[e.val]
        <4>1. live' = [live EXCEPT !.freq = Lo[e.val]]
          BY <2>1, <3>2
        <4>2. live' \in Lives /\ live'.freq = Lo[e.val]
          BY ONLY <1>1, <2>2, <4>1 DEF Lives
        <4>3. QED
          BY <2>2, <4>2
      <3>3. QED
        BY <3>1, <3>2
    <2>4. Saved \in [live : Lives, mode : Modes, rgn : Int] /\ Saved.live = live'
      BY <1>1, <2>1, <2>3, SavedIs
    <2>5. flash'.rgn = e.val /\ flash'.live = live'
      BY <2>1, <2>4
    <2>6. QED
      BY <1>3, <2>3, <2>5 DEF Landed
  <1>4. CASE e.item = "mode"
    <2>1. initiator \/ (ms' = Begin(e.val) /\ flash' = Saved)
      BY <1>4 DEF Apply, ApplyPin
    <2>2. ms' = Begin(e.val) /\ flash' = Saved => ms'.current = e.val /\ flash'.mode = e.val
      BY <1>1, SavedIs DEF Begin
    <2>3. QED
      BY <1>4, <2>1, <2>2 DEF Landed
  <1>5. CASE e.item \in {"enc", "freq", "power", "keep"}
    <2>1. live' = [live EXCEPT ![e.item] = e.val] /\ flash' = Saved
      <3>1. e.item = "enc" => e.val = IF e.val = 0 THEN 0 ELSE 1
        BY <1>2 DEF InRange
      <3>2. QED
        BY <1>5, <3>1 DEF Apply, ApplyStored
    <2>2. live'[e.item] = e.val /\ flash'.live = live'
      BY <1>1, <1>5, <2>1, SavedIs DEF Lives
    <2>3. QED
      BY <1>5, <2>2 DEF Landed
  <1>6. QED
    BY <1>3, <1>4, <1>5 DEF Items

(* It reads the value and applies.                                         *)
LEMMA ServiceApplyKeeps ==
  ASSUME SettingsInv, ServiceApply
  PROVE  SettingsInv'
  <1> DEFINE v == IF svc.item = "freq" THEN box.fval ELSE box.ival
  <1>1. /\ svc.at = "read" /\ svc' = [svc EXCEPT !.at = "top"]
        /\ Apply(svc.item, v)
        /\ UNCHANGED <<initiator, rows, menu, region, box, last>>
    BY DEF ServiceApply
  <1>2. MailboxHolds /\ SettingsTypeOK
    BY DEF SettingsInv
  <1>3. svc.item \in rows /\ svc.item \in Items /\ rows \in Rows
    BY <1>1, <1>2 DEF MailboxHolds, SettingsTypeOK
  <1>4. box.ival \in Int /\ box.fval \in Nat
    BY <1>2 DEF SettingsTypeOK
  <1>5. v \in Int /\ (svc.item = "freq" => v \in Nat)
    BY <1>4
  <1>6. svc.item \notin {"enc", "freq"} => InRange(svc.item, v)
    BY <1>2, <1>3, <1>4 DEF MailboxHolds, InRange
  <1>7. svc' \in [at : {"top", "taken", "read"}, item : Items] /\ svc'.at = "top"
    BY <1>1, <1>2 DEF SettingsTypeOK
  <1>8. box' \in [item : Items, ival : Int, fval : Nat, pending : BOOLEAN]
    BY <1>1, <1>2 DEF SettingsTypeOK
  <1>9. menu.at \notin {"item", "value"} /\ last # NoEdit =>
           /\ box.pending => InBox(last)
           /\ ~box.pending => svc.item = last.item /\ InBox(last)
    BY <1>1, <1>2 DEF MailboxHolds
  <1>10. svc.item = last.item /\ InBox(last) => v = last.val
    BY DEF InBox
  <1>11. box.pending => box.item \in rows
    BY <1>2 DEF MailboxHolds
  <1>12. last = NoEdit \/ DraftOK(last)
    BY <1>2 DEF MailboxHolds
  <1> HIDE DEF v
  <1>13. SettingsTypeOK'
    BY <1>1, <1>2, <1>3, <1>5, <1>6, <1>7, <1>8, ApplyTypes, ServiceTypes
  <1>14. last # NoEdit /\ svc.item = last.item /\ InBox(last) => Landed(last)'
    <2> SUFFICES ASSUME last # NoEdit, svc.item = last.item, InBox(last) PROVE Landed(last)'
      OBVIOUS
    <2>1. Apply(last.item, last.val) /\ last.item \in Items /\ DraftOK(last)
      BY <1>1, <1>3, <1>10, <1>12
    <2> DEFINE e == last
    <2>2. last' = last /\ initiator' = initiator
      BY <1>1
    <2>3. ASSUME NEW d, d = last PROVE Landed(d)'
      BY <2>1, <2>2, <2>3, ApplyLands
    <2>4. PICK d : d = last
      OBVIOUS
    <2>5. QED
      BY <2>2, <2>3, <2>4 DEF Landed
  <1>15. QED
    BY <1>1, <1>7, <1>9, <1>11, <1>13, <1>14, ServiceKeeps

(* LoadSettings, after a power cut or a reboot.                            *)
LEMMA LoadKeeps ==
  ASSUME SettingsInv, LoadSettings
  PROVE  SettingsInv'
  <1>1. /\ menu' = Idle /\ box' = Empty /\ region' = IF flash.rgn \in Regions THEN flash.rgn ELSE 0
        /\ svc' = [at |-> "top", item |-> "keep"]
        /\ msave' = [pending |-> FALSE, target |-> FirstMode]
        /\ live' = flash.live /\ ms' = Begin(flash.mode)
        /\ last' = NoEdit
        /\ UNCHANGED <<initiator, rows, flash>>
    BY DEF LoadSettings
  <1>2. /\ flash \in [live : Lives, mode : Modes, rgn : Int] /\ ms \in Switches
        /\ \A item \in {"power", "keep"} : InRange(item, flash.live[item])
        /\ InRange("region", flash.rgn) /\ rows \in Rows /\ initiator \in BOOLEAN
    BY DEF SettingsInv, SettingsTypeOK
  <1>3. 0 \in Regions /\ FirstMode \in Modes
    BY RowMaxes
  <1>4. region' \in Regions /\ msave' \in [pending : BOOLEAN, target : Modes]
    BY <1>1, <1>3
  <1>5. /\ menu' \in [at : {"away", "row", "edit", "item", "value"}, item : Items, draft : Int]
        /\ box' \in [item : Items, ival : Int, fval : Nat, pending : BOOLEAN]
        /\ svc' \in [at : {"top", "taken", "read"}, item : Items]
    BY <1>1 DEF Idle, Empty, Items
  <1>6. ms' \in Switches
    <2>1. flash.mode \in Modes
      BY <1>2
    <2>2. QED
      BY <1>1, <1>2, <2>1, SwitchesClosed
  <1>7. InRange("region", flash.rgn)'
    BY <1>1, <1>2 DEF InRange, Only
  <1>8. (\A kept \in {live, flash.live} : \A item \in {"power", "keep"} : InRange(item, kept[item]))'
    BY <1>1, <1>2 DEF InRange, Only
  <1>9. live' \in Lives /\ flash' \in [live : Lives, mode : Modes, rgn : Int]
    BY <1>1, <1>2
  <1>10. SettingsTypeOK'
    BY <1>1, <1>2, <1>4, <1>5, <1>6, <1>7, <1>8, <1>9 DEF SettingsTypeOK
  <1>11. MailboxHolds'
    BY <1>1, RowMaxes DEF MailboxHolds, Idle, Empty, Items, NoEdit
  <1>12. QED
    BY <1>10, <1>11 DEF SettingsInv

(* Every step of the task, the loop and the power.                         *)
LEMMA SettingsStep == SettingsInv /\ [SettingsNext]_settingsVars => SettingsInv'
  <1> SUFFICES ASSUME SettingsInv, [SettingsNext]_settingsVars PROVE SettingsInv'
    OBVIOUS
  <1>1. CASE SettingsTask
    BY <1>1, EditKeeps, EditConfirmKeeps DEF SettingsTask
  <1>2. CASE ServiceConfig
    BY <1>2, ServiceTopKeeps, ServiceReadKeeps, ServiceApplyKeeps DEF ServiceConfig
  <1>3. CASE SettingsCommand
    BY <1>3, AtSetKeeps, AtKeepKeeps, ModeCommandsKeep, StoreCommandsKeep
       DEF SettingsCommand
  <1>4. CASE SettingsTurn
    BY <1>4, TurnsKeep DEF SettingsTurn
  <1>5. CASE LoadSettings
    BY <1>5, LoadKeeps
  <1>6. CASE UNCHANGED settingsVars
    BY <1>6, SMTT(20) DEF settingsVars, SettingsInv, SettingsTypeOK, MailboxHolds, DraftOK, InBox,
       Landed, InRange, Only
  <1>7. QED
    BY <1>1, <1>2, <1>3, <1>4, <1>5, <1>6 DEF SettingsNext

(* Display::ConfirmEdit and ServiceConfig, for every table of regions and  *)
(* modes, every range and frequency: wherever the task interrupts the loop, *)
(* the edit confirmed last is, once all is quiet, live and saved.          *)
THEOREM EditsLand == SettingsSpec => []LastEditLands
  <1>1. SettingsInv => LastEditLands
    BY DEF SettingsInv, MailboxHolds, LastEditLands, Landed, NoEdit
  <1>2. QED
    BY SettingsStart, SettingsStep, <1>1, PTL DEF SettingsSpec

HIDE SettingsAssumption
HIDE ModesAssumption
-----------------------------------------------------------------------------
(***************************************************************************)
(* The board: its parts have no variable in common, so that the conjunction *)
(* of their invariants is an invariant of any one that runs.               *)
(***************************************************************************)

(* Every part starts in its invariant.                                     *)
LEMMA BoardStart == BoardInit => BoardTypeOK
  BY InvInit, SessionStart, SettingsStart, PairingStart, RingStart, ScreenStart, PrefsStart
     DEF BoardInit, BoardTypeOK, TeletypeInv

(* A step of the board is a step or a stutter of each part.                *)
LEMMA PartsStep ==
  ASSUME [BoardNext]_boardVars
  PROVE  /\ [Next]_vars /\ [SessionNext]_sessionVars /\ [SettingsNext]_settingsVars
         /\ [PairingNext]_pairingVars /\ [TeletypeNext]_teletypeVars /\ [PrefsNext]_prefsVars
  BY DEF BoardNext, boardVars

(* The inductive invariants of all six parts, their types among them, hold *)
(* in every state.                                                         *)
THEOREM BoardSound == BoardSpec => []BoardTypeOK
<1>1. BoardTypeOK /\ [BoardNext]_boardVars => BoardTypeOK'
  <2> SUFFICES ASSUME BoardTypeOK, [BoardNext]_boardVars PROVE BoardTypeOK'
    OBVIOUS
  <2>1. /\ [Next]_vars /\ [SessionNext]_sessionVars /\ [SettingsNext]_settingsVars
        /\ [PairingNext]_pairingVars /\ [TeletypeNext]_teletypeVars /\ [PrefsNext]_prefsVars
    BY PartsStep
  <2>2. IInv' /\ SessionInv' /\ SettingsInv'
    BY <2>1, InvStep, SessionStep, SettingsStep DEF BoardTypeOK
  <2>3. PairingInv' /\ PrefsInv'
    BY <2>1, PairingStep, PrefsStep DEF BoardTypeOK
  <2>4. TeletypeInv'
    <3>1. RingInv /\ ScreenInv
      BY DEF BoardTypeOK, TeletypeInv
    <3>2. RingInv' /\ ScreenInv'
      BY <2>1, <3>1, RingStep, ScreenStep
    <3>3. QED
      BY <3>2 DEF TeletypeInv
  <2>5. QED
    BY <2>2, <2>3, <2>4 DEF BoardTypeOK
<1>2. QED
  BY BoardStart, <1>1, PTL DEF BoardSpec
=============================================================================
