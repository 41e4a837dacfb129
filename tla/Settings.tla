------------------------------ MODULE Settings ------------------------------
(***************************************************************************)
(* One board's settings: the display's menu (fw_display.cpp), the AT       *)
(* commands, the flash, and the mode switch that both may ask for.         *)
(*                                                                         *)
(* The display task edits a row and leaves the confirmed edit in a mailbox *)
(* of one place; Display::ServiceConfig applies and saves it in the main   *)
(* loop.  The task preempts the loop anywhere, so that each of the two     *)
(* writes and reads the mailbox in steps.  AT commands, turns and switches *)
(* are the loop's, between two calls of ServiceConfig.                     *)
(*                                                                         *)
(* A value is a small integer.  "enc" stands for the feature rows, "keep"  *)
(* for the rows that are stored and no more (brightness, retention policy  *)
(* and window).  What ApplyLinkConfig and SessionReset do to the link is   *)
(* in LinkLayer, LinkReset and Session.                                    *)
(***************************************************************************)
EXTENDS ModeSwitch, FiniteSets

CONSTANTS
    Roles,                 \* the values initiator_ may have
    Lo, Hi,                \* kRegions: the band's edges; Lo is its default
    PwrMax, KeepMax,       \* the menu's ranges, from 0
    Freqs,                 \* what AT+FREQ accepts and somebody types
    FirstMode,             \* the preset of the build
    Rows                   \* bound: the sets of settings one behaviour touches,
                           \* the mode in none but a set of its own

Regions == DOMAIN Lo
Items == {"enc", "region", "freq", "mode", "power", "keep"}

ASSUME SettingsAssumption ==
    /\ Roles \subseteq BOOLEAN /\ FirstMode \in Modes
    /\ \E n \in Modes : n \in Nat \ {0} /\ Modes = 0 .. n
    /\ \E n \in Regions : n \in Nat \ {0} /\ Regions = 0 .. n
    /\ DOMAIN Hi = Regions
    /\ \A r \in Regions : Lo[r] \in Nat /\ Hi[r] \in Nat /\ Lo[r] <= Hi[r]
    /\ Rows \subseteq SUBSET Items
    /\ \A touched \in Rows : "mode" \in touched => touched = {"mode"}
    /\ PwrMax \in Nat \ {0} /\ KeepMax \in Nat \ {0} /\ Freqs \subseteq Nat

VARIABLES
    initiator,
    rows,      \* the settings that this behaviour touches
    menu,      \* the task: away on another screen, on a row, in an edit, or
               \* in a step of ConfirmEdit; item and draft
    region,    \* region_
    box,       \* apply_item_, apply_ival_, apply_fval_, apply_pending_
    svc,       \* ServiceConfig: between calls, taken, item read
    msave,     \* mode_save_pending_ and mode_save_target_
    live,      \* cfg and the radio's power
    ms,        \* g_modesw; its current is the radio's mode as well
    flash,
    last       \* history: the last confirmed edit, if nothing else moved it

settingsVars == <<initiator, rows, menu, region, box, svc, msave, live, ms, flash, last>>

NoEdit == [item |-> "none", val |-> 0]

FirstLive == [enc |-> 1, adr |-> FALSE, freq |-> Lo[0], power |-> PwrMax, keep |-> 0]
FirstFlash == [live |-> FirstLive, mode |-> FirstMode, rgn |-> 0]

Idle == [at |-> "row", item |-> "keep", draft |-> 0]
Empty == [item |-> "keep", ival |-> 0, fval |-> 0, pending |-> FALSE]

Lives == [enc : {0, 1}, adr : BOOLEAN, freq : Nat, power : Int, keep : Int]

SettingsInit ==
    /\ initiator \in Roles /\ rows \in Rows
    /\ menu = Idle /\ box = Empty /\ region = 0
    /\ svc = [at |-> "top", item |-> "keep"]
    /\ msave = [pending |-> FALSE, target |-> FirstMode]
    /\ live = FirstLive /\ ms = Begin(FirstMode) /\ flash = FirstFlash
    /\ last = NoEdit

Saved == [flash EXCEPT !.live = live', !.mode = ms'.current]
Forget(items) == last' = IF last.item \in items THEN NoEdit ELSE last
-----------------------------------------------------------------------------
(* The display task.  EnterEdit takes the value that is live now; AT may   *)
(* have set a frequency outside the region's band. *)
Shown(item) ==
    CASE item = "region" -> region
      [] item = "mode" -> ms.current
      [] OTHER -> live[item]

EnterEdit(item) ==
    /\ menu.at = "row"
    /\ menu' = [at |-> "edit", item |-> item, draft |-> Shown(item)]
    /\ UNCHANGED <<initiator, rows, region, box, svc, msave, live, ms, flash, last>>

Within(lo, v, hi) == IF v < lo THEN lo ELSE IF v > hi THEN hi ELSE v
(* A row that does not wrap. *)
Around_Open(v, n) == v

Around(v, n) == (v + n) % n

Stepped(item, v) ==
    CASE item = "enc" -> 1 - v
      [] item = "region" -> Around(v, Cardinality(Regions))
      [] item = "mode" -> Around(v, Cardinality(Modes))
      [] item = "freq" -> Within(Lo[region], v, Hi[region])
      [] item = "power" -> Within(0, v, PwrMax)
      [] item = "keep" -> Within(0, v, KeepMax)

EditStep(dir) ==
    /\ menu.at = "edit"
    /\ menu' = [menu EXCEPT !.draft =
                    Stepped(menu.item, IF menu.item = "enc" THEN @ ELSE @ + dir)]
    /\ UNCHANGED <<initiator, rows, region, box, svc, msave, live, ms, flash, last>>

(* The button: it cancels an edit, whose draft is not read again, and else *)
(* turns to the next screen. *)
CancelEdit == menu.at = "edit" /\ menu' = Idle

PollButton ==
    /\ \/ CancelEdit
       \/ menu.at = "row" /\ menu' = [Idle EXCEPT !.at = "away"]
       \/ menu.at = "away" /\ menu' \in {menu, Idle}
    /\ UNCHANGED <<initiator, rows, region, box, svc, msave, live, ms, flash, last>>

(* ConfirmEdit: the item, the value, and the flag last. *)
ConfirmItem ==
    /\ menu.at = "edit" /\ menu' = [menu EXCEPT !.at = "item"]
    /\ box' = [box EXCEPT !.item = menu.item]
    /\ UNCHANGED <<initiator, rows, region, svc, msave, live, ms, flash, last>>

ConfirmValue ==
    /\ menu.at = "item" /\ menu' = [menu EXCEPT !.at = "value"]
    /\ box' = IF menu.item = "freq" THEN [box EXCEPT !.fval = menu.draft]
                                    ELSE [box EXCEPT !.ival = menu.draft]
    /\ region' = IF menu.item = "region" THEN menu.draft ELSE region
    /\ UNCHANGED <<initiator, rows, svc, msave, live, ms, flash, last>>

ConfirmFlag ==
    /\ menu.at = "value" /\ menu' = Idle
    /\ box' = [box EXCEPT !.pending = TRUE]
    /\ last' = [item |-> menu.item, val |-> menu.draft]
    /\ UNCHANGED <<initiator, rows, region, svc, msave, live, ms, flash>>
-----------------------------------------------------------------------------
(* ServiceConfig: a switch that has arrived is saved; then the mailbox is  *)
(* marked empty, and only then read. *)
Arrived == msave.pending /\ ms.current = msave.target

ServiceTop ==
    /\ svc.at = "top" /\ (Arrived \/ box.pending)
    /\ UNCHANGED <<initiator, rows, menu, region, live, ms, last>>
    /\ msave' = [msave EXCEPT !.pending = @ /\ ~Arrived]
    /\ flash' = IF Arrived THEN Saved ELSE flash
    /\ svc' = IF box.pending THEN [svc EXCEPT !.at = "taken"] ELSE svc
    /\ box' = [box EXCEPT !.pending = FALSE]

ServiceRead ==
    /\ svc.at = "taken" /\ svc' = [at |-> "read", item |-> box.item]
    /\ UNCHANGED <<initiator, rows, menu, region, box, msave, live, ms, flash, last>>

(* An edit half overwritten may bring the value of another row: an index   *)
(* past the table, where any band may be read.                             *)
ApplyRegion(r) ==
    /\ IF r \in Regions
       THEN live' = IF live.freq \in Lo[r] .. Hi[r] THEN live ELSE [live EXCEPT !.freq = Lo[r]]
       ELSE live' \in {live} \union {[live EXCEPT !.freq = f] : f \in Freqs}
    /\ UNCHANGED <<msave, ms>>
    /\ flash' = [Saved EXCEPT !.rgn = r]

(* Pinning a mode: the initiator asks its peer, the responder follows. *)
ApplyPin(m) ==
    /\ live' = [live EXCEPT !.adr = FALSE]
    /\ IF initiator /\ m # ms.current
       THEN /\ ms' = Request(ms, m)
            /\ msave' = [pending |-> TRUE, target |-> m]
            /\ UNCHANGED flash
       ELSE /\ ms' = IF initiator THEN ms ELSE Begin(m)
            /\ flash' = Saved
            /\ UNCHANGED msave

ApplyStored(item, v) ==
    /\ live' = [live EXCEPT ![item] = v]
    /\ UNCHANGED <<msave, ms>>
    /\ flash' = Saved

Apply(item, v) == CASE item = "region" -> ApplyRegion(v)
                    [] item = "mode" -> ApplyPin(v)
                    [] item = "enc" -> ApplyStored(item, IF v = 0 THEN 0 ELSE 1)
                    [] OTHER -> ApplyStored(item, v)

(* The mailbox marked empty once the edit is applied. *)
ServiceApply_ThenEmpty ==
    /\ svc.at = "read" /\ svc' = [svc EXCEPT !.at = "top"]
    /\ Apply(svc.item, IF svc.item = "freq" THEN box.fval ELSE box.ival)
    /\ box' = [box EXCEPT !.pending = FALSE]
    /\ UNCHANGED <<initiator, rows, menu, region, last>>

(* The code reads the item twice and the value up to four times: one read  *)
(* of each here.  What a later one could see is an edit half written, and  *)
(* that one is served whole once its flag is up. *)
ServiceApply ==
    /\ svc.at = "read" /\ svc' = [svc EXCEPT !.at = "top"]
    /\ Apply(svc.item, IF svc.item = "freq" THEN box.fval ELSE box.ival)
    /\ UNCHANGED <<initiator, rows, menu, region, box, last>>

ServiceConfig == ServiceTop \/ ServiceRead \/ ServiceApply
-----------------------------------------------------------------------------
(* The AT commands: what they set is saved by AT&W only. *)
AtCommand == svc.at = "top" /\ UNCHANGED <<initiator, rows, menu, region, box, svc, msave>>

AtRange(item) == CASE item = "freq" -> Freqs
                   [] item = "enc" -> {0, 1}
                   [] item = "power" -> 0 .. PwrMax

AtSet(item, v) ==
    /\ AtCommand /\ live' = [live EXCEPT ![item] = v]
    /\ Forget({item} \union (IF item = "freq" THEN {"region"} ELSE {}))
    /\ UNCHANGED <<ms, flash>>

(* AT+BUFMODE and AT+BUFKEEP. *)
AtKeep(v) ==
    /\ AtCommand /\ live' = [live EXCEPT !.keep = v]
    /\ Forget({"keep"})
    /\ UNCHANGED <<ms, flash>>

AtMode(m) ==
    /\ AtCommand /\ live' = [live EXCEPT !.adr = FALSE]
    /\ ms' = IF initiator THEN Request(ms, m) ELSE Begin(m)
    /\ Forget({"mode"}) /\ UNCHANGED flash

AtModeAuto ==
    /\ AtCommand /\ live' = [live EXCEPT !.adr = TRUE]
    /\ UNCHANGED <<ms, flash, last>>

AtFmode(m) ==
    /\ AtCommand /\ live' = [live EXCEPT !.adr = FALSE]
    /\ ms' = Begin(m)
    /\ Forget({"mode"}) /\ UNCHANGED flash

AtSave ==
    /\ AtCommand /\ UNCHANGED <<live, ms>>
    /\ flash' = Saved
    /\ Forget({"mode"})

(* AT&F; the display keeps its region_ until the next boot. *)
AtFactory ==
    /\ AtCommand
    /\ flash' = FirstFlash /\ live' = FirstLive /\ ms' = Begin(FirstMode)
    /\ last' = NoEdit

(* The turns: the peer's answers, the end of the probation, ADR, and the   *)
(* power loop. *)
Moved == IF ms'.current = ms.current THEN UNCHANGED last ELSE Forget({"mode"})

Heard(ctrl) ==
    /\ AtCommand /\ UNCHANGED <<live, flash>>
    /\ ms' = IF initiator THEN Service(AfterRecv(ms, ctrl, TRUE))
             ELSE Service(AfterSend(AfterRecv(ms, ctrl, FALSE)))
    /\ Moved

Answers == {0} \union (IF initiator THEN {CtrlEncode(ms.target, TRUE)}
                       ELSE {CtrlEncode(m, FALSE) : m \in Modes})

ProbationOver ==
    /\ AtCommand /\ UNCHANGED <<live, flash>>
    /\ ms' = Service(PollExpired(ms))
    /\ Moved

DriveAdr ==
    /\ AtCommand /\ initiator /\ live.adr /\ UNCHANGED <<live, flash, last>>
    /\ ms' \in {Request(ms, m) : m \in Modes} \union {Abort(ms)}

AdjustTxPower ==
    /\ AtCommand /\ UNCHANGED <<ms, flash>>
    /\ \E p \in 0 .. PwrMax : live' = [live EXCEPT !.power = p]
    /\ Forget({"power"})

(* LoadSettings, after a power cut or a reboot; a region that is in no     *)
(* table is the first. *)
LoadSettings ==
    /\ menu' = Idle /\ box' = Empty
    /\ region' = IF flash.rgn \in Regions THEN flash.rgn ELSE 0
    /\ svc' = [at |-> "top", item |-> "keep"]
    /\ msave' = [pending |-> FALSE, target |-> FirstMode]
    /\ live' = flash.live /\ ms' = Begin(flash.mode)
    /\ last' = NoEdit
    /\ UNCHANGED <<initiator, rows, flash>>

SettingsTask ==
    \/ \E item \in rows : EnterEdit(item)
    \/ \E dir \in {-1, 1} : EditStep(dir)
    \/ PollButton
    \/ ConfirmItem \/ ConfirmValue \/ ConfirmFlag

SettingsCommand ==
    \/ \E item \in rows \ {"region", "mode", "keep"} :
          \E v \in AtRange(item) : AtSet(item, v)
    \/ "keep" \in rows /\ \E v \in 0 .. KeepMax : AtKeep(v)
    \/ "mode" \in rows /\ (AtModeAuto \/ \E m \in Modes : AtMode(m) \/ AtFmode(m))
    \/ AtSave \/ AtFactory

SettingsTurn ==
    \/ "mode" \in rows /\ (ProbationOver \/ DriveAdr \/ \E ctrl \in Answers : Heard(ctrl))
    \/ "power" \in rows /\ AdjustTxPower

SettingsNext == \/ SettingsTask \/ ServiceConfig
                \/ SettingsCommand \/ SettingsTurn \/ LoadSettings

SettingsSpec == SettingsInit /\ [][SettingsNext]_settingsVars
-----------------------------------------------------------------------------
(* A row's range.  The rows that pass through ival can only be told apart  *)
(* by item, so that a half-read edit may bring one the value of another.   *)
RowMax(item) == CASE item = "region" -> Cardinality(Regions) - 1
                  [] item = "mode" -> Cardinality(Modes) - 1
                  [] item = "power" -> PwrMax
                  [] item = "keep" -> KeepMax

Only(item) == rows \subseteq {item, "enc", "freq"}

InRange(item, v) ==
    CASE item = "enc" -> v \in {0, 1}
      [] item = "freq" -> v \in Nat
      [] OTHER -> v \in Int /\ (Only(item) => v \in 0 .. RowMax(item))

(* Types: what EditStep lets through, what ServiceConfig applies and what  *)
(* is saved are in their rows' ranges.                                     *)
SettingsTypeOK ==
    /\ initiator \in BOOLEAN /\ rows \in Rows
    /\ region \in Regions /\ ms \in Switches
    /\ msave \in [pending : BOOLEAN, target : Modes]
    /\ live \in Lives /\ flash \in [live : Lives, mode : Modes, rgn : Int]
    /\ box \in [item : Items, ival : Int, fval : Nat, pending : BOOLEAN]
    /\ menu \in [at : {"away", "row", "edit", "item", "value"}, item : Items, draft : Int]
    /\ svc \in [at : {"top", "taken", "read"}, item : Items]
    /\ \A kept \in {live, flash.live} : \A item \in {"power", "keep"} :
          InRange(item, kept[item])
    /\ InRange("region", flash.rgn)

(* A confirmed edit, or one on its way; in the mailbox.                    *)
DraftOK(edit) ==
    /\ edit.item \in rows /\ InRange(edit.item, edit.val)
    /\ edit.item = "region" => edit.val \in Regions

InBox(edit) ==
    /\ box.item = edit.item
    /\ (IF edit.item = "freq" THEN box.fval ELSE box.ival) = edit.val

Landed(edit) ==
    CASE edit.item \in {"enc", "freq", "power", "keep"} ->
            live[edit.item] = edit.val /\ flash.live[edit.item] = edit.val
      [] edit.item = "region" ->
            /\ flash.rgn = edit.val
            /\ live.freq \in Lo[edit.val] .. Hi[edit.val] /\ flash.live.freq = live.freq
      [] edit.item = "mode" /\ ~initiator ->
            ms.current = edit.val /\ flash.mode = edit.val
      [] OTHER -> TRUE

(* The mailbox of ConfirmEdit and ServiceConfig: wherever the task         *)
(* interrupts the loop, and although an edit may be read half-written or   *)
(* be overwritten, the one confirmed last is, once all is quiet, what the  *)
(* board runs with and what it has saved.                                  *)
LastEditLands ==
    menu.at \notin {"item", "value"} /\ svc.at = "top" /\ ~box.pending => Landed(last)

(* What LastEditLands rests on: between ConfirmEdit's writes the mailbox    *)
(* holds as much of the edit as has been written; between two edits, the   *)
(* last one is in the mailbox until it is read, and then has landed, if    *)
(* nothing else moved it.                                                  *)
MailboxHolds ==
    /\ menu.at \in {"edit", "item", "value"} =>
          DraftOK([item |-> menu.item, val |-> menu.draft])
    /\ menu.at \in {"item", "value"} => box.item = menu.item
    /\ menu.at = "value" => InBox([item |-> menu.item, val |-> menu.draft])
    /\ box.pending \/ svc.at = "taken" => box.item \in rows
    /\ svc.at = "read" => svc.item \in rows
    /\ \A item \in Items \ {"enc", "freq"} : Only(item) => box.ival \in 0 .. RowMax(item)
    /\ menu.at \notin {"item", "value"} /\ last # NoEdit =>
          /\ box.pending \/ svc.at = "taken" => InBox(last)
          /\ ~box.pending /\ svc.at = "read" => svc.item = last.item /\ InBox(last)
          /\ ~box.pending /\ svc.at = "top" => Landed(last)
    /\ last = NoEdit \/ DraftOK(last)

SettingsInv == SettingsTypeOK /\ MailboxHolds

(* fw_display.cpp:518: "persist it once the radio reaches the target mode  *)
(* (and skip it if the switch reverted on probation - never save a failed  *)
(* switch)": the switch that ServiceConfig saves has passed its probation. *)
SavesOnlySettled ==
    [][msave.pending /\ ~msave'.pending /\ flash' # flash => ~ms.probation]_settingsVars
=============================================================================
