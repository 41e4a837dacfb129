------------------------------ MODULE HostPipe ------------------------------
(***************************************************************************)
(* A board's host side: the bytes a terminal types go through the escape   *)
(* filter and the ingest ring into the link, those the link delivers go    *)
(* through the output ring to the terminal, and the AT interpreter in      *)
(* between answers into that ring.  Poll runs in the loop and in every     *)
(* radio wait; between two of its reads the USB driver may add bytes.      *)
(*                                                                         *)
(* A byte is what it is to the filter and which one it is: [c, id].  The   *)
(* link is the room of its send ring and the bytes it has to deliver.      *)
(***************************************************************************)
EXTENDS ByteRing

CONSTANTS
  LOWFREE,     \* kIngestLowFree
  BULK,        \* kBulkReadBytes
  PLUSES,      \* kEscapePlusCount
  LINE,        \* kAtLineMax - 1
  HOSTTX,      \* usable bytes of host_tx_
  HEADROOM,    \* kHostRingHeadroom
  MARGIN,      \* kPumpReadMargin
  REPLY,       \* bytes of an AT reply
  USB,         \* the USB driver's receive queue, bytes
  CDC,         \* the USB driver's transmit queue, bytes
  LINK,        \* the link's send and receive rings, bytes
  TEST,        \* bytes of a speed test
  Policies,    \* retention policies: records of latest and keep
  Commands,    \* what an AT line may be; "other" only answers
  MaxTyped     \* bound: bytes typed in a run

ASSUME HostAssumption ==
  /\ {LOWFREE, MARGIN} \subseteq Nat
  /\ {BULK, PLUSES, LINE, HOSTTX, REPLY, USB, CDC, LINK, TEST} \subseteq Nat \ {0}
  /\ HEADROOM \in Nat /\ HEADROOM >= MARGIN /\ MaxTyped \in Nat
  /\ Policies \subseteq [latest : BOOLEAN, keep : Nat] /\ Policies # {}
  /\ Commands \subseteq [do : {"ATO", "SINK", "SPEEDTEST", "RELINK", "other"}]
                          \union [do : {"BUFMODE"}, policy : Policies]

VARIABLES
  conn,    \* DTR: a terminal has the port open
  typed,   \* bytes typed so far; the next one is number typed + 1
  usb,     \* bytes in the USB driver's receive queue
  poll,    \* "idle", or inside Poll's read loop, under the policy it saw
  at,      \* at_mode_, at_n_, the '+' run held (at_plus_), and whether the
           \* guard time has passed since at_last_data_
  ring, policy, idrop,   \* ingest_ring_, its policy, ingest_drop_
  eaten,   \* bytes taken as escape or command, or '+' beyond the escape
  linked,  \* bytes the link has accepted: how many, and the last one
  link,    \* bytes in the link: tx to be sent and acked, rx to be read
  out,     \* bytes in host_tx_, and in the USB driver's transmit queue
  sess     \* was_conn, sink_, and the speed test: on, and bytes left to feed

vars == <<conn, typed, usb, poll, at, ring, policy, idrop, eaten, linked,
          link, out, sess>>

Chars == {"+", "c", "eol"}

(* After Setup.  The policy is keepall, since IngestInit runs before       *)
(* LoadSettings, or what the display's menu has chosen before any typing.  *)
Init ==
  /\ conn = FALSE /\ typed = 0 /\ usb = <<>> /\ poll = "idle"
  /\ at = [mode |-> FALSE, n |-> 0, plus |-> <<>>, lead |-> FALSE]
  /\ ring = [buf |-> [i \in Slots |-> 0], head |-> 0, tail |-> 0]
  /\ policy \in Policies /\ idrop = 0 /\ eaten = 0
  /\ linked = [n |-> 0, last |-> 0]
  /\ link = [tx |-> 0, rx |-> 0]
  /\ out = [ht |-> 0, cdc |-> 0]
  /\ sess = [was |-> FALSE, sink |-> FALSE, testing |-> FALSE, feed |-> 0]
-----------------------------------------------------------------------------
(* The output ring.  AtReply pushes while two slots are free, the echo     *)
(* while three are.                                                        *)
AtReply(o) == [o EXCEPT !.ht = Max({@, Min({@ + REPLY, HOSTTX - 1})})]

Echo(o) == IF HOSTTX - o.ht > 2 THEN [o EXCEPT !.ht = @ + 1] ELSE o

(* A drain that waits for a terminal instead of emptying the ring. *)
HostTxDrain_Holds(o) ==
  LET w == IF conn THEN Min({o.ht, CDC - o.cdc}) ELSE 0
  IN [ht |-> o.ht - w, cdc |-> o.cdc + w]

HostTxDrain(o) ==
  LET w == Min({o.ht, CDC - o.cdc})
  IN IF conn THEN [ht |-> o.ht - w, cdc |-> o.cdc + w] ELSE [o EXCEPT !.ht = 0]

(* A pump that does not look at the room there is. *)
Pumped_NoHeadroom(o) == link.rx

(* The bytes that one PumpLinkOut moves from the link to the output ring. *)
Pumped(o) == LET room == HOSTTX - o.ht
             IN IF room <= HEADROOM THEN 0 ELSE Min({link.rx, room - MARGIN})

PumpLinkOut ==
  /\ poll = "idle"
  /\ IF sess.sink
     THEN link' = [link EXCEPT !.rx = 0] /\ UNCHANGED out
     ELSE /\ link' = [link EXCEPT !.rx = @ - Pumped(out)]
          /\ out' = HostTxDrain([out EXCEPT !.ht = @ + Pumped(out)])
  /\ UNCHANGED <<conn, typed, usb, poll, at, ring, policy, idrop, eaten,
                 linked, sess>>
-----------------------------------------------------------------------------
(* What an AT line does to this pipe: AT+BUFMODE and AT+BUFKEEP go at once *)
(* to the ring, the bytes it holds stay; ATO leaves the command mode.      *)
ApplyBufPolicy(s, p) == [s EXCEPT !.policy = p]

Leave(s) == [s EXCEPT !.at.mode = FALSE]

(* RELINK is any command that ends in ApplyLinkConfig, whose Init empties  *)
(* the link.                                                               *)
AtExec(s, cmd) ==
  LET t == [s EXCEPT !.out = AtReply(@), !.at.n = 0]
  IN CASE cmd.do = "ATO" -> Leave(t)
       [] cmd.do = "BUFMODE" -> ApplyBufPolicy(t, cmd.policy)
       [] cmd.do = "SINK" -> [t EXCEPT !.sess.sink = ~@]
       [] cmd.do = "SPEEDTEST" -> [t EXCEPT !.sess.testing = TRUE, !.sess.feed = TEST]
       [] cmd.do = "RELINK" -> [t EXCEPT !.link = [tx |-> 0, rx |-> 0]]
       [] OTHER -> t

(* AtFilter, one byte: a character of a command line, a '+' that may begin *)
(* or continue an escape, or data, which releases the '+' held so far.     *)
InCommand(s, b, cmd) ==
  LET t == [s EXCEPT !.eaten = @ + 1]
  IN IF b.c = "eol"
     THEN IF s.at.n > 0 THEN AtExec(t, cmd) ELSE t
     ELSE IF s.at.n < LINE THEN [t EXCEPT !.at.n = @ + 1, !.out = Echo(@)] ELSE t

InEscape(s, b) ==
  IF Len(s.at.plus) < PLUSES THEN [s EXCEPT !.at.plus = Append(@, b.id)]
                             ELSE [s EXCEPT !.eaten = @ + 1]

(* A failed escape that forgets the '+' it held. *)
AsData_LosesRun(s, b) ==
  [s EXCEPT !.data = Append(@, b.id), !.at.plus = <<>>, !.at.lead = FALSE]

(* A failed escape whose '+' come after the byte that ended it. *)
AsData_RunLast(s, b) ==
  [s EXCEPT !.data = Append(@, b.id) \o s.at.plus,
            !.at.plus = <<>>, !.at.lead = FALSE]

AsData(s, b) ==
  [s EXCEPT !.data = Append(@ \o s.at.plus, b.id),
            !.at.plus = <<>>, !.at.lead = FALSE]

AtByte(s, b, cmd) ==
  IF s.at.mode THEN InCommand(s, b, cmd)
  ELSE IF b.c = "+" /\ (s.at.plus # <<>> \/ s.at.lead) THEN InEscape(s, b)
  ELSE AsData(s, b)

AtFilter(s, bytes, cmd) ==
  LET after[i \in 0 .. Len(bytes)] ==
        IF i = 0 THEN s ELSE AtByte(after[i - 1], bytes[i], cmd)
  IN after[Len(bytes)]

(* What the filter works on, and what it has passed of this read. *)
Filtering == [at |-> at, out |-> out, sess |-> sess, link |-> link,
              policy |-> policy, eaten |-> eaten, data |-> <<>>]
-----------------------------------------------------------------------------
(* Poll, as far as its read loop: CheckHostReconnect, HostTxDrain, AtTick  *)
(* and ServiceSpeedTest, which owns the link while a test is on.  silent,  *)
(* abandoned and late: the guard time, the AT idle time and the test's     *)
(* deadline have passed.                                                   *)
Reconnect == conn /\ ~sess.was

Escaped(silent) == ~at.mode /\ Len(at.plus) = PLUSES /\ silent

AtTick(silent, abandoned) ==
  CASE Escaped(silent) -> [mode |-> TRUE, n |-> 0, plus |-> <<>>, lead |-> TRUE]
    [] at.mode /\ abandoned -> [at EXCEPT !.mode = FALSE, !.n = 0, !.lead = @ \/ silent]
    [] OTHER -> [at EXCEPT !.lead = @ \/ silent]

(* A test that only ends when the peer has taken it all. *)
SpeedTest_NoDeadline(l, late) ==
  LET w == Min({sess.feed, LINK - l.tx})
  IN [tx |-> l.tx + w, feed |-> sess.feed - w,
      over |-> sess.feed = w /\ l.tx + w = 0]

(* The link and the test after feeding; over: the test reported its end. *)
SpeedTest(l, late) ==
  LET w == Min({sess.feed, LINK - l.tx})
  IN [tx |-> l.tx + w, feed |-> sess.feed - w,
      over |-> (sess.feed = w /\ l.tx + w = 0) \/ late]

PollTop(silent, abandoned, late) ==
  LET o == HostTxDrain(IF Reconnect THEN [out EXCEPT !.ht = 0] ELSE out)
      l == IF Reconnect THEN [tx |-> 0, rx |-> 0] ELSE link
      t == SpeedTest(l, late)
      ticked == Escaped(silent) \/ (at.mode /\ abandoned)
      o2 == IF ticked THEN AtReply(o) ELSE o
  IN /\ poll = "idle" /\ (abandoned => at.mode) /\ (late => sess.testing)
     /\ at' = AtTick(silent, abandoned)
     /\ eaten' = eaten + IF Escaped(silent) THEN PLUSES ELSE 0
     /\ IF sess.testing
        THEN /\ link' = [l EXCEPT !.tx = t.tx]
             /\ out' = IF t.over THEN AtReply(o2) ELSE o2
             /\ sess' = [sess EXCEPT !.was = conn, !.testing = ~t.over,
                                     !.feed = IF t.over THEN 0 ELSE t.feed]
        ELSE link' = l /\ out' = o2 /\ sess' = [sess EXCEPT !.was = conn]
     /\ poll' = IF sess'.testing THEN "idle"
                ELSE IF policy.latest THEN "keeplatest" ELSE "keepall"
     /\ UNCHANGED <<conn, typed, usb, ring, policy, idrop, linked>>

MayRead == usb # <<>> /\ (poll = "keepall" => Free(ring) > LOWFREE)

(* One bulk read; a line is run only in AT mode.  Push goes by the policy  *)
(* as it is after the filter.                                              *)
PollRead ==
  /\ poll # "idle" /\ MayRead
  /\ LET n == Min({BULK, Len(usb)})
     IN /\ \E cmd \in IF at.mode THEN Commands ELSE {[do |-> "other"]} :
             LET s == AtFilter(Filtering, SubSeq(usb, 1, n), cmd)
                 pushed == Push(ring, s.policy, s.data)
             IN /\ at' = s.at /\ out' = s.out /\ sess' = s.sess /\ link' = s.link
                /\ policy' = s.policy /\ eaten' = s.eaten
                /\ ring' = pushed.ring /\ idrop' = idrop + pushed.dropped
        /\ usb' = SubSeq(usb, n + 1, Len(usb))
  /\ UNCHANGED <<conn, typed, poll, linked>>

(* A link that is offered the backlog whole or not at all. *)
Taken_AllOrNone == IF Count(ring) <= LINK - link.tx THEN Count(ring) ELSE 0

(* IngestToLink: the oldest bytes, as many as the link has room for. *)
Taken == Min({Count(ring), LINK - link.tx})

PollTail ==
  /\ poll # "idle" /\ ~MayRead
  /\ poll' = "idle"
  /\ ring' = Drop(ring, Taken)
  /\ link' = [link EXCEPT !.tx = @ + Taken]
  /\ linked' = IF Taken = 0 THEN linked
               ELSE [n |-> linked.n + Taken, last |-> Contents(ring)[Taken]]
  /\ UNCHANGED <<conn, typed, usb, at, policy, idrop, eaten, out, sess>>
-----------------------------------------------------------------------------
(* The terminal, and the link's other side. *)
Type == /\ conn /\ typed < MaxTyped /\ Len(usb) < USB
        /\ typed' = typed + 1
        /\ \E c \in Chars : usb' = Append(usb, [c |-> c, id |-> typed + 1])
        /\ UNCHANGED <<conn, poll, at, ring, policy, idrop, eaten, linked,
                       link, out, sess>>

OpenOrClose == /\ conn' = ~conn
               /\ UNCHANGED <<typed, usb, poll, at, ring, policy, idrop, eaten,
                              linked, link, out, sess>>

TermReads == /\ conn /\ out.cdc > 0
             /\ out' = [out EXCEPT !.cdc = 0]
             /\ UNCHANGED <<conn, typed, usb, poll, at, ring, policy, idrop,
                            eaten, linked, link, sess>>

LinkChange(l) == /\ link' = l
                 /\ UNCHANGED <<conn, typed, usb, poll, at, ring, policy, idrop,
                                eaten, linked, out, sess>>

LinkTakes == link.tx > 0 /\ LinkChange([link EXCEPT !.tx = @ - 1])

LinkDelivers == link.rx < LINK /\ LinkChange([link EXCEPT !.rx = @ + 1])

Poll == \/ \E silent, abandoned, late \in BOOLEAN : PollTop(silent, abandoned, late)
        \/ PollRead \/ PollTail

Next == Poll \/ PumpLinkOut \/ Type \/ OpenOrClose \/ TermReads
        \/ LinkTakes \/ LinkDelivers

Spec == Init /\ [][Next]_vars

(* The loop polls and pumps for ever, a Poll returns (each of its reads    *)
(* empties a finite queue further), an open terminal reads, and a deadline *)
(* that has passed is seen.                                                *)
FairSpec ==
  /\ Spec
  /\ []<>(poll = "idle")
  /\ WF_vars(\E silent \in BOOLEAN : PollTop(silent, FALSE, FALSE))
  /\ SF_vars(\E silent \in BOOLEAN : PollTop(silent, FALSE, TRUE))
  /\ SF_vars(PumpLinkOut) /\ SF_vars(TermReads)
-----------------------------------------------------------------------------
(* Types; the output ring never takes more than it holds, whoever pushes:  *)
(* HtPush does not look, its callers must.                                 *)
TypeOK ==
  /\ conn \in BOOLEAN /\ typed \in 0 .. MaxTyped
  /\ usb \in Seq([c : Chars, id : 1 .. typed]) /\ Len(usb) <= USB
  /\ poll \in {"idle", "keepall", "keeplatest"}
  /\ at \in [mode : BOOLEAN, n : 0 .. LINE, plus : Seq(1 .. typed), lead : BOOLEAN]
  /\ Len(at.plus) <= PLUSES
  /\ ring \in Rings(0 .. typed) /\ policy \in Policies
  /\ idrop \in 0 .. typed /\ eaten \in 0 .. typed
  /\ linked \in [n : 0 .. typed, last : 0 .. typed]
  /\ link \in [tx : 0 .. LINK, rx : 0 .. LINK]
  /\ out \in [ht : 0 .. HOSTTX, cdc : 0 .. CDC]
  /\ sess \in [was : BOOLEAN, sink : BOOLEAN, testing : BOOLEAN, feed : 0 .. TEST]

(* What waits, from the oldest: the last byte given to the link, the       *)
(* ingest ring, the '+' run held back, the USB driver's queue.             *)
Waiting == Contents(ring) \o at.plus \o [k \in DOMAIN usb |-> usb[k].id]

Rises(s) == \A i, j \in DOMAIN s : i < j => s[i] < s[j]

(* AT+LINK?'s idrop tells every loss: a typed byte that was no command and *)
(* no escape is in the link, waiting, or counted.                          *)
Accounted == typed = linked.n + Len(Waiting) + idrop + eaten

(* The link is given the typed bytes in the order they were typed, none    *)
(* twice, and every one that is missing is counted, through wraps of the   *)
(* ring, evictions and failed escapes.                                     *)
StreamKept == Rises(<<linked.last>> \o Waiting) /\ Accounted

Queued == {Contents(ring)[k] : k \in 1 .. Count(ring)}

(* keepall never drops what it has queued, only what arrives.              *)
KeepsOldest ==
  [][~policy'.latest => \A b \in Queued : b \in Queued' \/ b <= linked'.last]_vars

(* keeplatest keeps at most its window and gives up the oldest bytes; a    *)
(* ring filled under keepall shrinks to the window with the next push.     *)
KeepsFreshest ==
  [][policy'.latest /\ ~(Queued' \subseteq Queued)
       => /\ Count(ring') <= policy'.keep
          /\ \A b \in Queued \ Queued' : \A k \in Queued' : b < k]_vars

(* A full ring loses what its policy gives up and no other byte, also when *)
(* the policy is changed while bytes are queued.                           *)
PolicyKept == KeepsOldest /\ KeepsFreshest

(* A speed test gives the link back to the host, peer or no peer. *)
TestEnds == sess.testing ~> ~sess.testing

(* Whatever the terminal does, the link's receive ring is emptied again    *)
(* and again: a host that closed the port does not block the peer.         *)
LinkNotBlocked == []<>(link.rx < LINK)

(* Backpressure, a speed test or an AT session never stops the pipe for    *)
(* good, in either direction: as long as the link drains, all that was     *)
(* typed is taken.                                                         *)
Served == /\ []<>(link.tx = 0) => []<>(usb = <<>> /\ Count(ring) = 0)
          /\ TestEnds /\ LinkNotBlocked
=============================================================================
