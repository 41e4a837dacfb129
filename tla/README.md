# LoRa-Serial: a TLA+ verification project

LoRa-Serial turns two boards with SX1262 radios into a wireless serial cable:
bytes written to one board's USB port come out of the other's, in order and
complete. This directory holds TLA+ models of the firmware, the TLC
configurations that check them on small instances, and TLAPS proofs of what
holds for every size. Paths below are relative to the root of the repository;
`linklayer.h` is `lib/linklayer/linklayer.h`.

    tlc -workers 2 -config arq_safety.cfg MCArqLink      # one run
    tlapm ArqLinkProofs.tla                              # one set of proofs

`PROJECT.json` is the index: the components, the runs with their properties,
for every property of a passing run a mutation of the code's model that breaks
it, the source lines behind every definition, the hazards, the findings and
the theorems.

## 1. The system

| Component | State it keeps | Operations | Talks to |
|---|---|---|---|
| Link layer (`linklayer.h`) | send window `win_`, receive slots `rx_`, two byte rings, `base_seq_ next_seq_ rx_next_`, epochs, AEAD counters, control nibble, telemetry byte | `Write Read NewSession SetTiming BeginTurn NextTx MakePoll OnRx` | turn engine, host, mode switch |
| Turn engine (`src/fw_device.cpp`, `lib/linklayer/modem.h`) | whose turn it is, idle gap, silence clocks | `LoopInitiator LoopResponder` | everything; runs on one thread |
| Radio (`src/fw_radio.cpp`) | `rx_armed_`, the recursive mutex, `operation_done_`, preset, timing, the frame ring | `Tx Rx ApplyMode ApplyRadioFsk ApplyModeByIndex Reinit RadioTask` | DIO1 interrupt, radio task; its waits run the host service |
| Frame ring (`lib/linklayer/frame_ring.h`) | `head_`, `tail_`, slots | `Push` (radio task), `Pop` (main loop) | crosses between two threads |
| Mode switch (`lib/linklayer/modeswitch.cpp`) | `current_ prev_ target_ armed_ apply_ owe_ack_ probation_` | `Request Abort TxCtrl AfterRecv AfterSend Poll TakeApply` | control nibble of every frame |
| ADR (`lib/linklayer/adr.cpp`) | cadence, hysteresis, cooldown, penalty | `Decide OnFallback` | mode switch, loss counters, SNR |
| Auto power (`lib/linklayer/autopower.h`, `Host::AdjustTxPower`) | transmit power, silence | `AutoPowerStep AutoPowerTargetFloor` | telemetry byte, chip |
| Session keys (`src/fw_session.cpp`, `lib/linklayer/session.cpp`) | active key, ephemeral pair, attempts | `SessionDriveInitiator SessionHandleRx SessionReset` | turn engine, epoch edge |
| Host (`src/fw_host.cpp`, `lib/util/byte_ring.h`) | ingest ring, host output ring, AT parser | `Poll PumpLinkOut CheckHostReconnect AtFilter AtTick AtExec` | USB; re-entered from the radio's idle hook |
| Settings (`src/fw_host.cpp`, `src/fw_display.cpp`) | running values, flash, the menu, a mailbox of one edit | `PollButton EditStep ConfirmEdit ServiceConfig SaveSettings LoadSettings` | display task against the loop; mode switch |
| Flash store (`src/platform/prefs_nrf52.cpp`) | one file per key | `put get remove clear` | everything that is saved |
| Recovery (`src/fw_device.cpp`) | one silence clock, two of its own | `MaybeReinitRadio MaybeRendezvous MaybeReboot` | radio, mode switch, ADR |
| Pairing, discovery (`src/fw_device.cpp`, `src/fw_host.cpp`) | role, addresses, key | `DiscoverRole ProximityPair RunPairing PersistRole DiscHandleRx` | radio, flash |
| Teletype (`src/fw_display.cpp`) | byte ring, line history, scroll position | `Feed NewLine Ingest PollTrackball DrawMain` | loop fills, display task draws |
| Diagnostics, platform wrappers, crypto, compression, tools | | | not part of the protocol |

Interactions. The main loop calls the turn engine, which calls the link layer
(who fills and reads frames), the radio (which blocks, and while it blocks
calls the host service through an idle hook), and once per turn the mode
switch, the session handshake, the rate and power control and the recoveries.
Two other threads exist: the radio task, which hands frames over through the
frame ring, and the display task, which shares a byte ring and a mailbox with
the loop. The two boards share nothing but the air.

What is hard here: every frame may be lost; the channel is half-duplex, so a
node that transmits is deaf; the turn is handed over by a flag in a frame that
may itself be lost; host code, AT commands included, runs in the middle of radio
calls; either end may restart, lose power between two flash writes, reconnect or
change its PHY at any moment, and the other learns of it only from a later
frame, through an 8-bit epoch, or from silence; several controllers (rate,
power, mode switch, recovery) act on the same link on clocks of their own.

What makes each part correct:

* link and turns: the stream arrives in order, once, complete; an ack is never
  given for what can still be lost; windows drain; turns continue; a restart
  neither wedges the link nor mixes two numberings;
* radio: the flag, the mutex and the configuration agree with the chip; no frame
  waits with nobody told; a transmission is not cut; a recovery pass leaves a
  radio that hears;
* frame ring: a bounded queue of whole frames, with no lock;
* mode switch: ends that are at rest share a mode, and come to rest;
* rate and power: no way back up into a mode that failed before its penalty is over, the fastest mode in the end, and two power loops that neither part nor hunt;
* recovery: two boards come together again, the reboot is the last resort, and
  a lone board does not reboot for ever;
* session: both ends come to one key;
* host pipe: a byte is delivered in order, counted as dropped, or part of a
  command; neither terminal, command nor speed test stops the link for good;
* settings: the edit confirmed last is what runs and what is saved;
* pairing: two elected boards are one initiator and one responder, and none is
  left behind in discovery;
* frame counter and flash: no nonce twice, nothing accepted twice, nothing fresh
  refused; a write cut short changes no other key and brings back no old number.

## 2. Modules

    SerialPipe <--implemented by-- ArqLink --extends--> LinkLayer
                                      ^  ^
                   MCArqLink ---------+  +-- LinkReset <-- MCLinkReset
                   ArqLinkProofs -- uses --> LinkLayerProofs
    BoundedFifo <--implemented by-- FrameRing <------- Radio <-- MCRadio
                                      ^                  ^
                                      +-- RadioProofs ---+
    ModeSwitch <-- ModeLink <-- MCModeLink, ModeLinkProofs
        ^--- Ladder <-- RateControl, LinkBudget, Recovery <-- MCAdapt <-- AdaptProofs
        ^--- Settings <---------------------------------+
    Session, Pairing, Teletype, Prefs, FrameCounter <---+-- MCBoard <-- BoardProofs
                                       ^-- FrameCounterProofs <-- uses -----'
    ByteRing <-- HostPipe <-- MCHostPipe, HostPipeProofs

`MCAdapt` and `MCBoard` each hold components that have no variable in common: a
behaviour picks one (`running`), which moves while the others stay, so that one
run checks them all without multiplying their states.

| Module | Models | Correspondence |
|---|---|---|
| `LinkLayer` | one `LinkLayer` object | a record with the object's members; one operator per method, from the record before the call to the record after it |
| `ArqLink` | two of them, the two turn loops, the air, both hosts | `phase` is the place in `LoopInitiator`/`LoopResponder`; `StartTurn SendData SendAck SendPoll EndBurst Listen Receive Silence PumpRead PumpDone` are the loop's steps in order, `HostWrite` and `Retune` run at any time, as the idle hook allows |
| `SerialPipe` | what the link promises: a reliable ordered pipe | `fed` chunks in, a prefix of them out, all of them in the end |
| `LinkReset` | `ArqLink` with `CheckHostReconnect` and reboots | `Reconnect` is `NewSession`, at any time; `Reboot` is `Setup` with a random epoch |
| `BoundedFifo`, `FrameRing` | the ring's promise, and its code | each of `Push` and `Pop` is cut at its accesses to shared memory; the copy of a frame is two halves |
| `Radio` | the driver, its task, the interrupt, and the ring between them | `task.at` is the place in `RadioTask`'s pass, one step per operation; a mutex section of the loop is one step, its waits are states in which `Command` and `PairBegin` may run, as the idle hook runs them |
| `ModeSwitch`, `ModeLink` | one engine; two of them over a channel on which only equal modes hear each other | one operator per method; `pc` is the place in the turn loop, a frame is its nibble and its `F_MORE` |
| `Ladder` | the table of modes | `PickBySnr`, the order and floors of the modes, the next rung up and down |
| `RateControl` | `AdrController` and `DriveAdr` with the mode switch they drive | `Decide` is one operator from the members to a decision; `LoopTop` is a pass with its recoveries and its decision, `WrapNears` begins the last periods before `millis()` wraps |
| `LinkBudget` | both ends' `AutoPowerStep`, the reports they act on, the path between them | `Turn` carries the SNR reports, `MaybeStatus` is the period in which both ends step |
| `Recovery` | `MaybeReinitRadio`, `MaybeRendezvous`, `MaybeReboot` of two boards, with their clocks | `Tick` is a pass through the three in their order, `Meet` a turn of two boards in one mode, `Clears` and the upsets are the world |
| `Session` | the key handshake inside the turn loops | `drive` is the initiator's `SessionDriveInitiator` loop, `recent` its gap of `kHsAttemptMs`; `AfterOnRx` the peer-reset edge |
| `Settings` | the menu, its mailbox, the AT commands, the flash | the display task and `ServiceConfig` touch the mailbox in separate steps; the mode row goes through a real `ModeSwitch` |
| `Pairing` | discovery and key agreement of two boards, with lost frames and power cuts | `at` is the place in `DiscoverRole`/`RunPairing`, `call` who called; the key and the role are put in two steps |
| `Teletype` | the byte ring, the line history, the scroll-back | the ring cut at its accesses; `lines` holds which line is in each slot, not its text |
| `Prefs` | the nRF52's key/value store | a put is `remove`, `open`, `write`; the first may fail unnoticed, and the power may go between any two |
| `FrameCounter` | the AEAD counter at the sender and the replay word at the receiver | one step per flash access, so that a power cut can fall in between |
| `ByteRing`, `HostPipe` | the ingest ring; the way from the terminal to the link and back | a ring is its storage and two indices; `PollTop PollRead PollTail` are `Poll` up to its read loop, one bulk read, and `IngestToLink`, and the USB driver adds bytes in between; `AtFilter` takes the bytes read one by one (`AtByte`), a command is one of its effects on the pipe |

Abstractions. In the link, the mode switch, the session, the host pipe and the
pairing, time is not a number: a timeout is an action that may
happen when the code's guard lets the timer run; where the firmware sizes
the timer so that it should not win a race, winning it costs one unit of a
bounded budget (`MaxEarly`, the fault "early"). Losses are bounded the same way.
Where the code is about its clocks (`RateControl`, `Recovery`), ages and deadlines
are counted in ticks, up to the largest time they are compared with.
Bytes that travel together are one value (a chunk is what one frame carries);
TLC checks the order and identity of chunks, which is all the code looks at.

Details a reader of the code may look for:

* `MayPick`: a frame that was sent before may or may not have timed out, so both
  choices of `NextTx` are explored.
* `Deaf`: between `Radio::Tx` and the next `Radio::Rx` the receiver is off. A
  node with fresh frames left is deaf for certain; one at the end of its burst
  re-arms within a loop pass, and losing that race is counted.
* Frames may follow the one that cleared `F_MORE` (retransmissions, which
  `MoreToSend` does not count, and data written during the burst): the two ends
  then overlap, which `arq_live` and `arq_safety` show to be harmless.
* The assumption `2 * MAXWIN < SEQMOD` in `LinkConstants` is strict for a
  reason. A receiver held up by a full ring SACKs frames ahead of `rx_next_`, so
  the sender's `base_seq_` may run a whole window ahead of the cumulative ack;
  at `SEQMOD = 2 * MAXWIN` that ack is mistaken for one of the whole window and
  `AckedIsHeld` fails. The firmware has 32 < 256.
* `ModeLink`: the radio is always in the engine's current mode, since every
  caller of `ApplyModeByIndex` tells the engine. `heard` is set by any frame
  `Rx` returns, `rxCtrl` only by a valid one: that difference is in the code.
* `FrameCounter` takes a flash write as done (the code ignores the result of
  `putULong64`), and keeps the receiver's window when a restarted sender draws
  its old epoch.
* `FrameRing` is explored under sequential consistency. The code's indices are
  `std::atomic` with release stores and acquire loads, and each slot is touched
  by one side at a time (`NoSharedSlot`), so no weaker behaviour is visible.

* `HostPipe`: `eaten` counts what the filter takes on purpose (commands, escapes)
  and the '+' it discards beyond the third of a run, which the comment at
  `fw_host.cpp:982` would have as data. `Pumped` is the sum of `PumpLinkOut`'s
  passes for an output ring no larger than one chunk. `AT+PAIR`, which re-enters
  `Poll`, and `AT+TRAIN`, which turns the host service off for 20 s, are not among the
  commands. `poll` remembers the policy `Poll` saw before its loop, as the code does.
* `Radio`: `cut` marks a `Tx` that ended although a command in its wait had armed
  the chip (see the observations); `ArmedIsTrue` excepts it and the storm breaker's
  nap, and nothing else. An interrupt may come with its frame already read,
  and a chip may hang at any time.
* `RateControl`: the SNR is either strong or just the floor of the most robust
  mode; what matters to `Decide` is which mode it picks. The wrap of the clock
  turns every deadline set before it into one far ahead, and a deadline that overflows is
  void until then (`Void`), as comparison by value does.
* `LinkBudget` counts powers and reports in dB and what the chip measures and the
  floors in half dB, since the two `/ 2` and `* 2` of the report are where it rounds.
* `Pairing`: a public key is its board and the number of its draw, so two boards
  agree exactly when their keys are the same set; a search gives up when its ring
  is empty or when it likes, which covers every length of the window.
* `Settings`: a value is a small integer; the mailbox's item, value and flag are
  written and read one by one.

## 3. Runs

| Run | Properties | What it shows |
|---|---|---|
| `arq_safety` | `IInv InOrder AckedIsHeld` | stream and acks survive loss, overlap, backpressure, a shrinking window and a wrap of the sequence numbers |
| `arq_live` | `ImplementsPipes WindowDrains TurnsContinue` | under the loops' fairness the link is a live pipe both ways; no window and no turn waits for ever |
| `link_reset` | `StillDrains` | a sender that reconnects or reboots does not wedge the link |
| `link_reset_stale` | `NothingStale` violated | a receiver that reconnects does mix two numberings (finding 1) |
| `radio` | `RadioInv NoSharedSlot ArmedIsTrue NoLostWakeup OnePhy ImplementsFifo TxUndisturbed RecoveryRevives` | the driver's beliefs, the mutex and the chip agree whatever runs inside the waits; the lock-free ring is a queue also under them |
| `mode_switch` | `ModeInv QuiescentAgree Reconverges` | handshake and probation alone survive loss; rendezvous heals an `auto` pair, reboot a pinned one |
| `mode_neighbours` | `QuiescentAgree` violated | a rejected frame ends a probation (finding 2) |
| `adapt` | `AdaptTypeOK SwitchEnds NoClimbBack ReachesTop StaysLinked Settles NoBootLoop Recovers` | rate control across a wrap of the clock; two power loops on one path; the recovery ladder after a wedge, a lost peer or a crash |
| `board` | `BoardTypeOK NoReuse RestartIsHeard WindowIsExact LastEditLands OneInitiator OnlyTheCutKey SessionConverges PairingEnds ScreenIsTrue` | nonces and replay word, session keys, settings, pairing, teletype and flash store, one at a time |
| `session_initiator` | `KeysConverge` violated | restarts of the initiator (finding 3) |
| `paired_no_role` | `PairedHasRole` violated | power cut between key and role (finding 4) |
| `host_pipe` | `TypeOK StreamKept PolicyKept Served` | terminal to link and back: nothing out of place, nothing lost uncounted, nothing stuck |

The first invariant of `arq_safety`, `radio`, `mode_switch`, `adapt` and `board`
is the inductive one that the proofs use (section 5): type correctness is a part of it,
and TLC has seen it hold before it was proved.

Some properties are conjunctions of named parts: `ArmedIsTrue` contains
`RxListens`, `RadioInv` `MutexReturned`, `OnePhy` `TimingFits`, `NoClimbBack`
`ClimbsWhenClean`, `NoBootLoop` `RebootIsLast`, `WindowIsExact` `AcceptedOnce` and
`LateIsAccepted`, `ScreenIsTrue` `TypedInOrder`, `RowsAreHistory` and `ViewHolds`,
`StreamKept` `Accounted`, `PolicyKept` `KeepsOldest` and `KeepsFreshest`, `Served`
`TestEnds` and `LinkNotBlocked`; `PROJECT.json` has a mutation of the code for each part.
`AdaptTypeOK` is `RateInv`, `PowerTypeOK` and `RecoveryInv`; `BoardTypeOK` the inductive
invariants of the six components.

Bounds, and why they are enough for the question:

* `arq_safety`: window 2 of a sequence space of 6, rings of one chunk, air of two
  frames, one loss, one early timeout, one window change (1 to 2 or 2 to 1).
  `Done = 4` starts the run when four chunks have been carried, so that chunks
  5, 6 and 7 cross the wrap at 6 with every slot of the window reused. One chunk of ring
  makes backpressure the normal case. 1.7 million states.
* `arq_live`: the same link from the start with two chunks, so that a window is
  full and something is out of order when one frame is lost. The abstract pipe,
  the windows and the turns need no more data, and fairness is checked over the
  full graph. Only the initiator's host writes (`LoadResponder = 0`), so that the pipe
  back to it is live for want of data; the run passes with the loads 0 and 2 and with 1 and 1
  too, 2 and 1 take too long. `ImplementsPipesSafely` is proved for both directions.
* `link_reset`: three chunks one way with window 1, one restart of the sending
  end, at every point. `EPOCHS = 4` gives a restart two epochs that are not the
  old one. `EpochRepeats = FALSE`: a reboot draws one of 255 epochs, and the
  draw of the one its peer remembers is excluded; with `TRUE` the run fails,
  since the peer then has no way to see the restart.
* `link_reset_stale`: window 2, one reconnection of the receiving end, no loss.
* `radio`: 3 slots, so that both indices wrap, and two frames, enough to tell a
  mixed frame from a whole one. The frames' contents are symmetric (`FrameSymmetry`): nothing looks
  at them. The slowest LoRa preset (4 s a frame) and GFSK (20 ms),
  where the window is at its least and at its largest; two failed reads make a
  storm. No bound on commands, hangs or recoveries. 1.9 million states up to symmetry.
* `mode_*`: 99,000 states in the largest. Three modes (one of them the rendezvous mode, one GFSK), a ring of two frames, one or two requests, one to five faults. Each
  installation of `Settings` in `MCModeLink` says which nodes have `auto`, which recoveries are at work
  and what may go wrong.
* `adapt`: 443,000 states. *Rate:* three LoRa modes with three floors, and GFSK; retransmission ratios on either side of both thresholds; a
  time-out and a cooldown of one period and a penalty of six, longer than both
  together with a climb, so that the penalty is what stands in the way; one wrap, watched from
  four periods before it.
  *Powers:* -2 to 5 dBm, so that the 2 dB step misses the floor or the ceiling
  depending on where it starts; a good and a bad path in each direction; two
  faults. *Recovery:* the times 1, 1 and 3 ticks (4, 6 and 13 in the slow mode:
  the proportions of `RecoveryMs`), two upsets out of a board alone in another
  mode, both pinned in one, a radio wedged until a re-init or until a reboot, a power
  cycle; any mixture of adaptive and pinned boards.
* `board`: 870,000 states. *Counter:* stride 2 and counters up to 8 give several saves and boots; a
  word of 3 bits has an edge, a middle and an end. *Session:* two attempts, two
  restarts or reconnections of the responder, three losses; `OnlyMet` restarts a node only when its
  peer already knows its epoch. *Settings:* a behaviour touches two
  rows that interact (region and frequency, features and power, features and a stored
  row) or the mode alone (`Rows`). *Pairing:* one lost frame, one power cut, one command,
  two frames in a board's ring. *Teletype:* 4 lines of history behind 2 rows of 2
  columns, a byte ring of 3, 11 bytes: the history wraps under a reader. *Flash:*
  one number and one name, two bytes wide, every put and every clear cut
  anywhere, and any remove failing; a put's, on files of a full value at most (`LONGEST`).
* `host_pipe`: 3 usable bytes of ingest ring, reads of 2 bytes against no slack
  (the firmware has 512 against 8), an escape of 2 '+', command lines of one
  character, 5 typed bytes: enough for an escape, a command and a byte after it,
  or for a full ring, a drop and a wrap. The output ring has 4 bytes, so replies
  and echo run into its end; a link ring of one byte makes waiting the normal case.

`CHECK_DEADLOCK` is off in `board` and `paired_no_role`: the counter stops at its
bound, the pairing at rest and the teletype at its last byte.

### Fairness

* `LoopStep(n)` weakly fair: the loop never stops; the watchdog resets a board
  whose loop does.
* `PumpRead(n)` strongly fair: the host output ring is not full on every turn. A
  terminal reads it, and with none open `HostTxDrain` empties it.
* `SendData(n, 1)` strongly fair: the retransmit timer of the oldest frame
  expires on some turn (`NextTx` compares `now - last_tx` on every turn).
* `ModeLink`: turns weakly fair; `ProbationEnds`, `MaybeRendezvous`,
  `MaybeReboot` and `GiveUp` strongly fair, because a silence that has
  lasted long enough is looked at on every pass through the top of the loop.
* `HostPipe`: the loop polls and pumps for ever and a `Poll` returns; an open
  terminal reads; a speed test's deadline is looked at on every `Poll`. Nothing is
  assumed of the peer: the first part of `Served` has its taking as a premise,
  `TestEnds` and `LinkNotBlocked` do without.
* `RateControl`: the loop passes (`LoopTop`) and turns are made, weakly fair; a
  deadline revived by the wrap passes in the end (`RevivedPasses`), since the clock
  goes on for 49 days more. `ReachesTop` has a calm channel as its premise.
* `LinkBudget`: turns, the status period and ADR's switch weakly fair: all three run
  from the loop. Nothing is assumed of the path beyond the bounded faults.
* `Recovery`: time passes, or two boards in one mode meet; the disturbances clear.
* `Session`: the loops weakly fair and the gap between two handshakes too, which only time
  ends; the end of the back-off strongly fair, for the same reason as in `ModeLink`.
* `Pairing`: each board's steps weakly fair; `PairGivesUp` strongly, because no
  search outlasts `kPairWindowMs`.
* `Radio` has none: it states what every recovery pass achieves (`RecoveryRevives`)
  rather than that one comes.

The channel has no fairness: losses are bounded, which says that it works in
the end.

## 4. Findings

1. **A reconnecting receiver accepts frames of the old numbering**
   (`link_reset_stale`). `NewSession` zeroes `rx_next_`, but the peer goes on in
   its old numbering until it hears the new epoch. A frame of it at distance
   below `MAXWIN` from 0 is buffered; when the peer restarts from 0, `DrainInOrder`
   takes the old frame for the new one of that number. The host sees old data
   after newer, and the new frame is acked without having been delivered. The
   comment on `NewSession` and `docs/DESIGN.md` promise the opposite. In the same
   way `rx_next_` can get ahead of what the peer has sent since, in which case
   the peer's window stays undrained until its host writes more.
2. **A rejected frame ends a probation** (`mode_neighbours`), against the
   "valid-RX only" rule of `docs/MODE_SWITCH_SPEC.md`. A frame of the own pair
   that was received on the old PHY and popped after the switch has the same effect.
3. **A restart of the initiator ends in two keys** (`session_initiator`): the
   handshake completes before the responder's peer-reset edge, which then resets
   the new session on one end only.
4. **A board may be paired and have no role** (`paired_no_role`). `RunPairing`
   writes the key (`fw_host.cpp:356`), and its caller the role after it has
   returned; with the power cut in between, every later boot finds a key, skips
   discovery and takes the build's addresses. `fw_config.h:116` promises both.

### Observations

Seen while modelling and listed with the hazards rather than given a run. Those
with the name of a property are stated in the modules, and TLC refutes them there
(add the name to the run's configuration to see the trace):

* **Radio.** `AT+FMODE`, `AT&F` or `AT+MODE` in the idle hook of a `Tx` arms the
  chip under the transmission; `Tx` then ends with the chip in standby and
  `rx_armed_` set, so that the next `Rx` does not arm it and the board is deaf until
  its next `Tx` or re-init. `AT+PAIR` inside a `Tx` cannot hear for the same reason.
  `ArmedIsTrue` and `TxUndisturbed` have such a `Tx` as their exception.
* **Rate control.** `PenaltyEnds` fails across the wrap of `millis()`: a deadline that
  was set before it lies ahead again, for up to 49 days (`adr.cpp:79`, `:108`). And
  `NeverClimbsBack`: a penalty set in the last minute before the wrap overflows, so that
  `now < penalized_until_` is false until millis() has wrapped, and the link climbs back into the
  mode that failed, against `adr.h`'s comment on `OnFallback`; `NoClimbBack` has this as its
  only exception.
  `LossIsOfThisMode`: the counters behind the retransmission ratio are
  reset by `OnFallback`'s path but not by an acknowledged switch
  (`fw_device.cpp:685`, `:695`), so a step down may be for losses of the mode
  before. In the most robust mode a lossy evaluation does not
  reset `stable_` (`ClimbsWhenClean` says so). "fast" and "medium" share
  a floor, so the SNR never picks "medium".
* **Power.** `FloorHolds`: a step of 2 dB is tested against the limit before it is
  taken (`autopower.h:100`), so the power ends 1 dB below the floor that `:78` and
  `fw_host.cpp:75` promise. `HeldMarginClears`: the margin that "rounding up keeps clear"
  (`fw_radio.cpp:326`) is not clear after the report's own rounding. With ADR on and a
  path that is worse in one direction, rate and power go up and down for ever;
  `Settles` has that case as its exception.
* **Recovery.** `Escalates`: silence already spent counts, so that a rendezvous and
  the reboot may be due in one pass (`fw_device.cpp:178`), which leaves the rendezvous no
  time. `Recovers` fails when the boards are saved in another mode than the
  rendezvous mode (`SavedMode = 2`) and only one has `auto`: that one falls back alone,
  the pinned one, which has heard nobody since it booted, neither follows nor reboots, although
  `fw_device.cpp:594` says that the link always recovers. A board whose radio is wedged for good before it has heard anyone
  never reboots, by the same guard that `NoBootLoop` is about.
* **`auto` on the initiator only** can strand the pair, although `README.md:435` says
  that the responder's setting does nothing: the initiator moves to the
  rendezvous mode alone (`ModeLink` with `Settings <- InitiatorAuto`, `Reconverges`).
* **Mode switch.** `QuiescentAgree` holds under losses alone. A silence timer that runs out
  although the two hear each other, a restart, or a rejected frame (finding 2)
  refutes it in an installation without recoveries: after any of the three the
  handshake needs rendezvous or reboot.
* **Settings.** `SavesOnlySettled`: `ServiceConfig` saves a mode as soon as the radio
  is in it, before its probation is over (`fw_display.cpp:517`), and a reverted switch stays
  saved. The mailbox has one place: a second edit overwrites an earlier one not
  yet applied. One read half-written, with the new item and the old value, applies a value to
  the row of another for a moment: the region index is used as it comes (`fw_display.cpp:550`), and
  what the other row was set to may lie past `kRegions`. A switch refused as busy leaves `mode_save_pending_` set. `AT+MODE` with the
  current mode cancels neither ADR nor an earlier request. The comment at
  `fw_host.cpp:906` says that `AT&W` does not store the live power, `:286` stores it.
  "ludicrous" is saved as spreading factor, bandwidth and rate 0.
* **Flash.** On the nRF52 nobody looks at what `remove` returns (`prefs_nrf52.cpp:87`): if it
  fails, the put appends to the old file, reports the full length and a number still reads as
  the old value, or, after a put that was cut short, as a mixture; `OnlyTheCutKey` says
  nothing of such a key. A number whose put was cut short reads as its default. For
  `txctr` that is 0, so the counter starts again although `linklayer.h:817` says that
  "a reboot never reissues a used counter"; `NoReuse` is proved for puts that
  succeed whole, as in the ESP32's NVS, and `AT&F` clears the counter on both. An
  empty key file makes a board paired with the built-in key; an empty name file reads as
  an empty name.
* **Pairing.** `KeptKeysAgree`: a stale public key in the ring, from before its
  sender's power cut, makes two boards keep different keys, against
  `fw_host.cpp:118` and `:927` ("MUST match on both ends"). One board may pair alone when the
  other's last frames are lost; `OneInitiator` holds of roles all the same.
* `Poll` under `keepall` looks for 8 free bytes (`fw_host.cpp:158`) and then reads
  up to 512, so a ring that is almost full does refuse bytes, although the comments
  at `fw_host.cpp:154` and `:880` call it byte-exact. `Accounted` and `KeepsOldest`
  hold: the loss is confined to arriving bytes, and `idrop` counts it.
* A saved `keeplatest` is not in force after a reboot: `Setup` calls `IngestInit`
  (`fw_device.cpp:238`), which applies the policy, before `LoadSettings` (`:275`) has
  read it, and nothing applies it later. The comment at `fw_host.cpp:383` says
  "honor the persisted retention policy (LoadSettings)".
* A second end of line during `AT+PAIR` runs the command again inside itself: the
  idle hook polls while `at_line_` still holds it.

## 5. Proofs

Every invariant that a passing run checks is proved for every value of the constants;
so are the action properties, and the refinements as far as they are safety.

| Module | Theorem | Statement |
|---|---|---|
| `ArqLinkProofs` | `TypeCorrect` | `Spec => []TypeOK` |
| | `EndpointsAgree` | `Spec => []IInv`: the 8-bit numbers, the rings and the air name the same chunks at both ends |
| | `StreamInOrder`, `NothingAckedIsLost` | `Spec => []InOrder`, `Spec => []AckedIsHeld` |
| | `ImplementsPipesSafely` | `Spec` implies `SerialPipe`'s `Spec` in each direction |
| `RadioProofs` | `SlotsApart`, `RingImplementsFifo` | `Spec => []NoSharedSlot`, `Spec => ImplementsFifo`, for `FrameRing` |
| | `DriverInvariant` | `RadioSpec => []RadioInv` |
| | `DriverUsesRing` | `RadioSpec` implies `FrameRing`'s `Spec` |
| | `RadioSlotsApart`, `RadioImplementsFifo` | the ring's two theorems under `RadioSpec` |
| | `FlagIsTrue`, `WakeupsAreKept`, `PresetsAgree` | `ArmedIsTrue`, `NoLostWakeup`, `OnePhy` |
| | `TransmissionsLast`, `ReinitRevives` | the action properties `TxUndisturbed`, `RecoveryRevives` |
| `ModeLinkProofs` | `HandshakeSound` | `Spec => []ModeInv` |
| | `EndsAgreeAtRest` | `Spec => []QuiescentAgree`, where installations without recoveries meet losses only |
| `AdaptProofs` | `AdaptSound` | `AdaptSpec => []AdaptTypeOK`, the three inductive invariants together |
| | `SwitchesEnd`, `ClimbsKeepTheRules` | `RateSpec => []SwitchEnds`, `RateSpec => NoClimbBack` |
| | `PowersInRange` | `BudgetSpec => []PowerTypeOK` |
| | `NoBoardBootLoops` | `RecoverySpec => []NoBootLoop` |
| `FrameCounterProofs` | `NeverReused HeardAgain WindowExact` | `Spec => []P` for `NoReuse`, `RestartIsHeard`, `WindowIsExact` |
| `BoardProofs` | `BoardSound` | `BoardSpec => []BoardTypeOK`, the six inductive invariants together |
| | `OwnKeys` | `SessionSpec => []SessionInv` |
| | `EditsLand` | `SettingsSpec => []LastEditLands` |
| | `RolesDiffer` | `PairingSpec => []OneInitiator` |
| | `ScreenTrue` | `TeletypeSpec => ScreenIsTrue`, two invariants and an action property |
| | `OtherKeysSurvive` | `PrefsSpec => []OnlyTheCutKey` |
| `HostPipeProofs` | `PipeTypes`, `PipeKeepsStream` | `Spec => []TypeOK`, `Spec => []StreamKept` |
| | `PipeKeepsPolicy` | `Spec => PolicyKept`, two action properties |

Assumptions are the named `ASSUME`s of the modules and nothing else; TLC evaluates
all of them in the runs. They are of three kinds: sizes are not zero, nodes and boards
are two; what the tables of the code are (the LoRa modes are numbered from the fastest, there is one
FSK mode at the most, the default region is one of the table and each band has an upper
edge that is not below its lower one, the reboot's time is longer than the rendezvous' and that
at least the re-init's, the two MACs differ); and what the code's constants have been chosen for
(`2 * MAXWIN < SEQMOD`, `SEQMOD % MAXWIN = 0`, at least two slots, the probation is
longer than one period). The one hypothesis a theorem adds
is that of `EndsAgreeAtRest`; it says what the safety statement of
`docs/MODE_SWITCH_SPEC.md` needs, and TLC refutes the statement for each disturbance that
it excludes. None of the bounds (`MaxLoss` and its like) is limited, and `Load`, `Faults`
and the sets of inputs are arbitrary.

The invariants, and why each is more than the property:

* **The link** (`Agree`). `InOrder` says nothing of what is under way. `Agree(n)` ties
  the three places where a chunk is: the send window is the consecutive chunks from the
  one after `Gone(n)`, numbered `(chunk - 1) % SEQMOD`; a slot of the receiver holds the chunk
  its number stands for, within a window of what was passed on; and a data frame or an
  ack in a ring names a chunk or an edge that is not older than the sequence space can tell
  apart. The last is what makes 8 bits enough: a frame in a queue can only be so old
  because the queue is in order and the window moves over what has been acked. `OneEpoch` says that without
  restarts no epoch changes, so no end resets. `LinkLayerProofs` has one lemma per method,
  first for types, then for what it does to the agreement: `Drain` passes
  on consecutive chunks, `AckProcess` drops what the other end holds, `OnRx` accepts a number only as
  the chunk it stands for.
* **The link as a pipe.** By `InOrder`, `out` is a prefix of what was fed; each step of
  the two ARQs appends at the end of `out`, or feeds, or is a stutter of the pipe.
* **The frame ring** (`TypeOK /\ Apart /\ Whole`). `Apart` says that a push under way
  has a free slot in front of it and a pop under way a frame to take: each side may
  rely on what it read of the other's index, because the other can only make it more
  true. `Whole` says how far each copy has got and that every published slot holds one
  frame. The refinement maps the slots `tail_ .. head_ - 1` to the queue:
  `PushPublish` enqueues, `PopRelease` dequeues, and the other steps stutter.
* **The radio** (`RadioInv`). `ArmedIsTrue` and `NoLostWakeup` depend on who holds the mutex.
  `Held` derives the owner from the places of the two threads, `Placed` says what each place may rely on,
  `ToldInPass` covers the frame that comes while the task ends its pass, and the
  phy is always `OnPreset` of the chip's preset. Each step of the
  driver is one of the ring or leaves it alone, so the ring's
  theorems are carried over by the refinement and not proved twice.
* **The mode switch** (`ModeInv`). That ends at rest agree is inductive only with what is
  in the air. `TurnsAlternate` says that losses alone never make both talk, and that whoever
  answers has all of the burst behind it; `RequestsAreTrue` and `AnswersAreTrue` that a nibble under way is of
  the request that is open, or none; `OwnHalves` that the initiator never arms and the responder never
  asks; `ApartOnProbation` that two ends in different modes have at least one that is on probation and
  will come back to where the other is. An early silence timer breaks the first, and with it
  everything: the code has rendezvous for that.
* **Rate control** (`RateInv`). `RequestIsTimed` ties the age of a request to the controller's
  cadence, which is what gives it up; `RowIsClean` that no up-step is counted while a switch is under
  way; `PenaltyHolds` that the deadline of a penalty lies as far ahead as the penalty has left, or
  has overflowed and the wrap comes before it is over. The proof of a
  climb is by the two ways `Decide` has to a faster mode.
* **Powers** (`PowerTypeOK`), for any reports at all: a step taken below the ceiling ends at most a
  dB above it, the floor likewise.
* **Recovery** (`RecoveryInv`). "At most once" needs `StepsAreDue`: a step that has not been
  taken in this silence has been due as long as the silence lasts, so that a
  reboot, whose time is longer, finds both behind it; and a board that has rebooted has
  not heard anyone, which is `MaybeReboot`'s own guard.
  `Escalates` is no theorem: the steps are taken in their order, but may fall in one pass.
* **The frame counter** (`IInv`). For the sender: the flash plus one stride is above every
  counter sealed (`NextBootIsFresh`), and while the link runs the flash holds the
  value `MaybePersist` measures from; for the receiver: the word's bits are
  exactly the accepted counters that lie in the window (`WindowIsHistory`).
* **Session** (`KeysAreOwn`): a session key always contains the end's own newest ephemeral
  key, whatever late or repeated answer installed it, and no wiped key is used.
* **Settings** (`MailboxHolds`): between `ConfirmEdit`'s three writes the mailbox holds as much of the
  edit as has been written, and the last edit is in the mailbox or has landed. What
  `ServiceConfig` reads half-way may be of two edits; it is overwritten by the pass that
  follows, because `pending` is written last and cleared first.
* **Pairing** (`BoardOK`): an election has one result, whatever was heard, since it looks at
  the two MACs only; so `elected` boards, and what they keep in flash, agree across power cuts.
* **Teletype** (`ByteRingHolds`, `HistoryHolds`): indices and counts, and which line is in
  which slot, for a ring and a history of any length.
* **Flash** (`Whole`): a file that is hurt is missing or short, at every step of a put, so that a read
  refuses it, unless its remove failed; that leaves the other keys as they were.
* **The host pipe** (`TypeOK /\ StreamKept`). `StreamKept` is about the whole line in which
  the bytes wait, from the last one given to the link over the ring and the `'+'` held back to the
  USB driver's queue: the line rises, and its length and the counts add up to what was typed. No
  byte changes places in that line, so each step need only be shown to move the borders in it, to
  take bytes out of it and count them, or to add the next one at its end. `StoreIs`, `DropIs` and `PushIs` say what is in the
  ring after `Store`, `Drop` and `Push` of any number of bytes, around its end or not. What
  `AtFilter` makes of a bulk read is an induction over its bytes; it is done without an induction
  theorem, by the least byte after which the claim would fail (`FilterRuns`, `FilterIs`). Nothing
  in it depends on which command a line is, or on how often the policy changes
  within a read.

Only model-checked:

* Liveness: the live half of `ImplementsPipes`, `WindowDrains`, `TurnsContinue`, `StillDrains`,
  `Reconverges`, `ReachesTop`, `StaysLinked`, `Settles`, `Recovers`, `SessionConverges`,
  `PairingEnds`, `Served`. It rests on fairness and `ENABLED`, outside the prover's reach.
* `LinkReset`: with restarts `OneEpoch` is gone, and finding 1 is a counterexample to the
  stream's order; what remains true of it is liveness (`StillDrains`).
* That the symmetric halves and the cadences of the models are the code's: that is
  the reader's comparison with the source.

## 6. Not modelled, and why

* Encryption, compression, CRC: straight-line code on bytes. The models take
  sealing as unforgeable and compression as lossless.
* Weak memory, see `FrameRing` above.
* Real time: whether the timers are long enough is an engineering margin of
  `DeriveTiming`, of which `TimingFits` checks the relations; the models show what
  happens when a timer is short.
* AT parsing and formatting and the queries; drawing, the information screen and the
  splash; `Begin`'s retries; diagnostics, platform wrappers other than the flash
  store, tools and tests; vendored heatshrink and X25519.
* `AT+MODE` on a responder and `AT+FMODE` as far as the pair is concerned: they move one
  end on purpose (their effect on the radio is in `Radio`, on the board in `Settings`).
* The `Poll` that `AT+PAIR` nests, and the order of boot (see the observations).
  `RunPairing` takes the idle hook off (`fw_host.cpp:314`), the discovery before it
  does not (`fw_device.cpp:386`, `:732`); the line buffer still holds the command there, so
  that the only command that can run nested is `AT+PAIR` itself.
* `ServiceConfig`'s second and later reads of the mailbox: it reads the item at
  `fw_display.cpp:531` and `:543` and the value up to four times (`:548-553`), `Settings` each
  once. What a further read may see is an edit whose flag is about to rise, and the next
  service applies that one whole. The brightness row writes its own key and does not call
  `SaveSettings`; in `Settings` it is a stored row like the others.
* Two probations that flip in opposite phase (`modeswitch.cpp:55`): `ModeLink`'s windows have
  no duration.
* A board wedged for good that has never heard its peer (`Recovery`), and auto power
  in GFSK, which the code leaves alone.

## 7. Plan

The models cover what of the firmware is protocol or concurrency, and what the runs
check of safety is proved. Left:

1. `LinkReset`: type correctness, and `InOrder` for each direction whose receiver
   does not restart and whose sender draws a fresh epoch.
2. The wedge-free half of `Pairing`: that a board with a key and no role can only be
   one that lost its power between the two puts (finding 4 is the whole of the exception).
