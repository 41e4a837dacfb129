------------------------------ MODULE Teletype ------------------------------
(***************************************************************************)
(* The display's teletype (fw_display.cpp).  The loop feeds the host-bound *)
(* bytes into a byte ring, the display task, which preempts it anywhere,   *)
(* takes them out and types them into a ring of kScroll lines; kRows lines *)
(* are shown, and the trackball scrolls them back.                         *)
(* A byte is its kind and its number among those that found room, a line   *)
(* its number: what a row shows can be told from what it should.           *)
(***************************************************************************)
EXTENDS Integers

CONSTANTS
    kScroll, kRows, kCols,
    kRingSz,
    kAutoFast,     \* lines per poll of a direction held long enough
    MaxChars       \* bound: the bytes fed

ASSUME TeletypeAssumption ==
    /\ kScroll \in Nat /\ kRows \in 1 .. kScroll
    /\ kCols \in Nat \ {0} /\ kRingSz \in Nat \ {0}
    /\ kAutoFast \in Nat

VARIABLES
    s_ring, s_head, s_tail,
    feeding,       \* FeedThunk has written a byte, s_tail still to move
    typing,        \* Task has typed a byte, s_head still to move
    fed, typed,    \* history: bytes that found room, bytes typed
    lines, head, count, scroll, col, pending_nl,
    newest         \* history: the number of the line at head

feedVars == <<s_ring, s_head, s_tail, feeding, typing, fed, typed>>
screenVars == <<lines, head, count, scroll, col, pending_nl, newest>>
teletypeVars == <<feedVars, screenVars>>

Kinds == {"glyph", "nl", "skipped"}     \* skipped: CR and NUL
NoByte == [n |-> -1, kind |-> "skipped"]

TeletypeInit ==
    /\ s_ring = [i \in 0 .. kRingSz - 1 |-> NoByte] /\ s_head = 0 /\ s_tail = 0
    /\ feeding = FALSE /\ typing = FALSE /\ fed = 0 /\ typed = 0
    /\ lines = [i \in 0 .. kScroll - 1 |-> IF i = 0 THEN 0 ELSE -1]
    /\ head = 0 /\ count = 1 /\ scroll = 0 /\ col = 0 /\ pending_nl = FALSE
    /\ newest = 0
-----------------------------------------------------------------------------
After(i) == (i + 1) % kRingSz

(* A ring filled to the last slot: then it looks empty. *)
FeedWrite_ToTheLast(kind) ==
    /\ ~feeding /\ fed < MaxChars
    /\ s_ring' = [s_ring EXCEPT ![s_tail] = [n |-> fed, kind |-> kind]]
    /\ feeding' = TRUE /\ fed' = fed + 1
    /\ UNCHANGED <<s_head, s_tail, typing, typed, screenVars>>

(* FeedThunk, per byte: a full ring drops it, else it is written, and only *)
(* then does s_tail move. *)
FeedWrite(kind) ==
    /\ ~feeding /\ fed < MaxChars
    /\ After(s_tail) # s_head
    /\ s_ring' = [s_ring EXCEPT ![s_tail] = [n |-> fed, kind |-> kind]]
    /\ feeding' = TRUE /\ fed' = fed + 1
    /\ UNCHANGED <<s_head, s_tail, typing, typed, screenVars>>

FeedPublish ==
    /\ feeding /\ feeding' = FALSE
    /\ s_tail' = After(s_tail)
    /\ UNCHANGED <<s_ring, s_head, typing, fed, typed, screenVars>>

ScrollMax(n) == IF n > kRows THEN n - kRows ELSE 0

(* The limit of the scroll-back taken before the line is counted. *)
NewLine_OldLimit(reset) ==
    /\ head' = (head + 1) % kScroll
    /\ newest' = newest + 1
    /\ lines' = [lines EXCEPT ![head'] = newest']
    /\ count' = IF count < kScroll THEN count + 1 ELSE count
    /\ scroll' = CASE scroll = 0 -> 0
                   [] scroll > 0 /\ scroll < ScrollMax(count) -> scroll + 1
                   [] OTHER -> ScrollMax(count)
    /\ col' = reset

(* NewLine; the view of a reader who scrolled back is made to stay put. *)
NewLine(reset) ==
    /\ head' = (head + 1) % kScroll
    /\ newest' = newest + 1
    /\ lines' = [lines EXCEPT ![head'] = newest']
    /\ count' = IF count < kScroll THEN count + 1 ELSE count
    /\ scroll' = CASE scroll = 0 -> 0
                   [] scroll > 0 /\ scroll < ScrollMax(count') -> scroll + 1
                   [] OTHER -> ScrollMax(count')
    /\ col' = reset

(* A line one glyph too long. *)
Ingest_OneWide(kind) ==
    CASE kind = "skipped" -> UNCHANGED screenVars
      [] kind = "nl" ->
            /\ pending_nl' = TRUE
            /\ UNCHANGED <<lines, head, count, scroll, col, newest>>
      [] OTHER ->
            /\ pending_nl' = FALSE
            /\ IF pending_nl \/ col > kCols THEN NewLine(1)
               ELSE /\ col' = col + 1
                    /\ UNCHANGED <<lines, head, count, scroll, newest>>

(* Ingest; the line feed is kept until the next glyph, which begins the    *)
(* line, and a full line begins one too. *)
Ingest(kind) ==
    CASE kind = "skipped" -> UNCHANGED screenVars
      [] kind = "nl" ->
            /\ pending_nl' = TRUE
            /\ UNCHANGED <<lines, head, count, scroll, col, newest>>
      [] OTHER ->
            /\ pending_nl' = FALSE
            /\ IF pending_nl \/ col >= kCols THEN NewLine(1)
               ELSE /\ col' = col + 1
                    /\ UNCHANGED <<lines, head, count, scroll, newest>>

(* Task drains the ring: a byte is typed, then its slot is given back. *)
TypeByte ==
    /\ ~typing /\ s_head # s_tail
    /\ Ingest(s_ring[s_head].kind)
    /\ typing' = TRUE /\ typed' = typed + 1
    /\ UNCHANGED <<s_ring, s_head, s_tail, feeding, fed>>

GiveBack ==
    /\ typing /\ typing' = FALSE
    /\ s_head' = After(s_head)
    /\ UNCHANGED <<s_ring, s_tail, feeding, fed, typed, screenVars>>

(* A reader free to roll past the oldest line. *)
Clamped_Loose(s) == IF s < 0 THEN 0 ELSE IF s > count THEN count ELSE s

Clamped(s) == IF s < 0 THEN 0 ELSE IF s > ScrollMax(count) THEN ScrollMax(count) ELSE s

(* A direction released or just pressed adds nothing to its pulse, one     *)
(* that is held repeats it, and faster after a while. *)
HoldRepeat(held) == CASE held = "no" -> 0
                      [] held = "held" -> 1
                      [] held = "long" -> kAutoFast

(* PollTrackball on the main screen; up is older.  Task polls when it has   *)
(* found the ring empty, but the loop may have fed it again by then: any    *)
(* moment between two bytes is allowed. *)
PollTrackball(pulses, up, down) ==
    /\ ~typing
    /\ scroll' = Clamped(scroll + pulses + HoldRepeat(up) - HoldRepeat(down))
    /\ UNCHANGED <<feedVars, lines, head, count, col, pending_nl, newest>>

TeletypeNext ==
    \/ \E kind \in Kinds : FeedWrite(kind)
    \/ FeedPublish
    \/ TypeByte \/ GiveBack
    \/ \E pulses \in {-1, 0, 1}, up, down \in {"no", "held", "long"} :
          PollTrackball(pulses, up, down)

TeletypeSpec == TeletypeInit /\ [][TeletypeNext]_teletypeVars
-----------------------------------------------------------------------------
(* Types: Ingest's column stays within a line, NewLine's ring index and    *)
(* count within the history. *)
RingTypes ==
    /\ s_head \in 0 .. kRingSz - 1 /\ s_tail \in 0 .. kRingSz - 1
    /\ feeding \in BOOLEAN /\ typing \in BOOLEAN /\ typed \in Nat
    /\ s_ring \in [0 .. kRingSz - 1 -> [n : Int, kind : Kinds]]

ScreenTypes ==
    /\ head \in 0 .. kScroll - 1 /\ count \in 1 .. kScroll
    /\ col \in 0 .. kCols /\ pending_nl \in BOOLEAN
    /\ scroll \in 0 .. kScroll

(* Bytes that FeedPublish has made visible, and that the task is done with. *)
Published == IF feeding THEN fed - 1 ELSE fed
Given == IF typing THEN typed - 1 ELSE typed

Past(i, n) == IF i >= n THEN i - n ELSE i
Before(i, n) == IF i < 0 THEN i + n ELSE i

(* The indices are the two counts, and each byte between them is in its    *)
(* slot: a slot is written only when the task has given it back.           *)
ByteRingHolds ==
    /\ fed \in Nat /\ 0 <= Given /\ typed <= Published
    /\ fed - Given < kRingSz
    /\ s_tail = Past(s_head + (Published - Given), kRingSz)
    /\ \A i \in 0 .. fed - Given - 1 : s_ring[Past(s_head + i, kRingSz)].n = Given + i

(* The newest count lines are in the history, in order, back from head.    *)
HistoryHolds ==
    /\ newest \in Nat /\ count <= newest + 1
    /\ scroll <= ScrollMax(count)
    /\ lines \in [0 .. kScroll - 1 -> Int]
    /\ \A i \in 0 .. count - 1 : lines[Before(head - i, kScroll)] = newest - i

RingInv == RingTypes /\ ByteRingHolds
ScreenInv == ScreenTypes /\ HistoryHolds
TeletypeInv == RingInv /\ ScreenInv

(* What DrawMain puts in row r: the slot it picks, if the history is that  *)
(* long. *)
Behind(r) == scroll + (kRows - 1 - r)
Slot(r) == (head - Behind(r) + kScroll) % kScroll

(* DrawMain shows the window the reader asked for: each row the line that  *)
(* many lines behind the newest, never one that was overwritten, and no    *)
(* row is left blank while there is history to fill the screen.            *)
RowsAreHistory ==
    \A r \in 0 .. kRows - 1 :
        IF Behind(r) <= count - 1 THEN lines[Slot(r)] = newest - Behind(r)
                                  ELSE count < kRows

(* NewLine's promise to a reader who scrolled back: lines that come in do  *)
(* not move the view, until the history is full and the oldest line of the *)
(* view itself scrolls off.                                                *)
ViewHolds ==
    [][scroll > 0 /\ newest' # newest =>
          \/ newest' - scroll' = newest - scroll
          \/ count = kScroll /\ scroll' = ScrollMax(kScroll)]_teletypeVars

(* The byte ring between the loop and the task: what is typed is what was  *)
(* fed, in its order, each byte that found room exactly once.              *)
TypedInOrder == [][typed' # typed => s_ring[s_head].n = typed]_teletypeVars

(* The screen is true to the stream: nothing is lost or changed between    *)
(* the loop and the task, and no byte, no reset and no turn of the         *)
(* trackball shows the reader a line other than the one that was there.    *)
ScreenIsTrue == TypedInOrder /\ []RowsAreHistory /\ ViewHolds
=============================================================================
