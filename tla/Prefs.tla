-------------------------------- MODULE Prefs --------------------------------
(***************************************************************************)
(* The nRF52's key/value store (platform/prefs_nrf52.cpp): one file per    *)
(* key in the internal flash file system.  A put removes the file, makes a *)
(* new one and writes it; the flash may be full, the remove may fail, and  *)
(* the power may go between any two.  A file operation itself is atomic.   *)
(*                                                                         *)
(* Not for the ESP32, whose NVS is the vendor's.  FrameCounter, Settings   *)
(* and Pairing take each put to be atomic, as it is there.                 *)
(***************************************************************************)
EXTENDS Sequences, Integers

CONSTANTS
    Numbers,     \* the keys of fixed width, among them txctr and pkey
    Names,       \* the keys of strings
    Bytes,       \* what a byte may be
    WIDTH,       \* the width of a number, and the longest name
    LONGEST      \* bound: the longest file that a put fails to remove

PrefKeys == Numbers \union Names

ASSUME PrefsAssumption ==
    /\ Numbers \intersect Names = {} /\ PrefKeys # {}
    /\ WIDTH \in Nat \ {0} /\ LONGEST \in Nat /\ Bytes \subseteq Nat

VARIABLES
    file,        \* the file of each key, or NoFile
    op,          \* the call in progress: nothing, put or clear, and its step
    told,        \* history: the value put last, or NoFile when it was cleared
    hurt,        \* history: the keys whose last put was cut short or failed
    stuck        \* history: the keys whose last remove failed

prefsVars == <<file, op, told, hurt, stuck>>

NoFile == <<-1>>                                         \* no byte
Strings(w) == [1 .. w -> Bytes]
Values(k) == IF k \in Numbers THEN Strings(WIDTH) ELSE UNION {Strings(w) : w \in 0 .. WIDTH}
NoCall == [at |-> "none"]

(* begin, on a flash that was never written. *)
PrefsInit ==
    /\ file = [k \in PrefKeys |-> NoFile] /\ op = NoCall
    /\ told = [k \in PrefKeys |-> NoFile] /\ hurt = {} /\ stuck = {}
-----------------------------------------------------------------------------
(* A put that writes over the file it finds: FILE_O_WRITE appends to it. *)
PutRemove_Kept(k, v) ==
    /\ op = NoCall /\ op' = [at |-> "open", key |-> k, val |-> v]
    /\ hurt' = hurt \union {k}
    /\ UNCHANGED <<file, told, stuck>>

(* InternalFS.remove, whose result nobody looks at. *)
Remove(k) == file' = [file EXCEPT ![k] = NoFile] /\ stuck' = stuck \ {k}

RemoveFails(k) == /\ file[k] # NoFile
                  /\ stuck' = stuck \union {k} /\ UNCHANGED file

(* putBytes: the file goes, or does not; it is opened, which makes it, or  *)
(* cannot be; it takes the value, after what it holds already, or as much  *)
(* of it as there is room for. *)
PutRemove(k, v) ==
    /\ op = NoCall /\ op' = [at |-> "open", key |-> k, val |-> v]
    /\ \/ Remove(k)
       \/ Len(file[k]) <= LONGEST /\ RemoveFails(k)
    /\ hurt' = hurt \union {k}
    /\ UNCHANGED told

PutOpen ==
    /\ op.at = "open"
    /\ \/ /\ op' = [op EXCEPT !.at = "write"]
          /\ file' = [file EXCEPT ![op.key] = IF @ = NoFile THEN <<>> ELSE @]
       \/ op' = NoCall /\ UNCHANGED file
    /\ UNCHANGED <<told, hurt, stuck>>

PutWrite ==
    /\ op.at = "write" /\ op' = NoCall /\ UNCHANGED stuck
    /\ \E w \in 0 .. Len(op.val) :
          /\ file' = [file EXCEPT ![op.key] = @ \o SubSeq(op.val, 1, w)]
          /\ IF w = Len(op.val)
             THEN told' = [told EXCEPT ![op.key] = op.val] /\ hurt' = hurt \ {op.key}
             ELSE UNCHANGED <<told, hurt>>

(* clear: the files, one after the other, as the directory lists them. *)
ClearBegin == /\ op = NoCall /\ op' = [at |-> "clear", past |-> {}]
              /\ UNCHANGED <<file, told, hurt, stuck>>

ClearOne(k) ==
    /\ op.at = "clear" /\ file[k] # NoFile /\ k \notin op.past
    /\ op' = [op EXCEPT !.past = @ \union {k}]
    /\ \/ /\ Remove(k)
          /\ told' = [told EXCEPT ![k] = NoFile] /\ hurt' = hurt \ {k}
       \/ RemoveFails(k) /\ UNCHANGED <<told, hurt>>

ClearEnd == /\ op.at = "clear"
            /\ \A k \in PrefKeys : file[k] = NoFile \/ k \in op.past
            /\ op' = NoCall /\ UNCHANGED <<file, told, hurt, stuck>>

PrefsPowerCut == op # NoCall /\ op' = NoCall /\ UNCHANGED <<file, told, hurt, stuck>>

PrefsNext ==
    \/ \E k \in PrefKeys : (\E v \in Values(k) : PutRemove(k, v)) \/ ClearOne(k)
    \/ PutOpen \/ PutWrite \/ ClearBegin \/ ClearEnd \/ PrefsPowerCut

PrefsSpec == PrefsInit /\ [][PrefsNext]_prefsVars
-----------------------------------------------------------------------------
isKey(k) == file[k] # NoFile

(* As many bytes as the caller has room for. *)
getBytes(k, n) ==
    IF isKey(k) THEN SubSeq(file[k], 1, IF Len(file[k]) < n THEN Len(file[k]) ELSE n)
                ELSE <<>>

getBytesLength(k) == IF isKey(k) THEN Len(file[k]) ELSE 0

(* getUChar and its like: a value of another width is none. *)
getNumber(k, default) ==
    IF Len(getBytes(k, WIDTH)) = WIDTH THEN getBytes(k, WIDTH) ELSE default

(* getString has its default for a missing file only. *)
getString(k, default) == IF isKey(k) THEN getBytes(k, WIDTH) ELSE default

Read(k) == IF k \in Numbers THEN getNumber(k, NoFile) ELSE getString(k, NoFile)

Texts == UNION {Strings(w) : w \in 0 .. WIDTH}
Call(step, k, v) == [at |-> step, key |-> k, val |-> v]

(* Types, and how far a put has come: the file it is about is gone when it *)
(* opens it, and empty when it writes, unless its remove failed.           *)
PrefsTypeOK ==
    /\ file \in [PrefKeys -> Seq(Bytes) \union {NoFile}]
    /\ \A k \in PrefKeys \ stuck : file[k] \in Texts \union {NoFile}
    /\ told \in [PrefKeys -> Texts \union {NoFile}]
    /\ \A k \in PrefKeys : told[k] \in Values(k) \union {NoFile}
    /\ hurt \subseteq PrefKeys /\ stuck \subseteq PrefKeys
    /\ \/ op = NoCall
       \/ \E past \in SUBSET PrefKeys : op = [at |-> "clear", past |-> past]
       \/ \E k \in hurt : \E v \in Values(k) :
             \/ op = Call("open", k, v) /\ (k \notin stuck => file[k] = NoFile)
             \/ op = Call("write", k, v) /\ file[k] # NoFile /\ (k \notin stuck => file[k] = <<>>)

(* A file whose remove went through is the value put last, or is short: a  *)
(* number's file of full length is never one that a power cut or a full    *)
(* flash left behind.                                                      *)
Whole ==
    \A k \in PrefKeys \ stuck :
        IF k \notin hurt THEN file[k] = told[k]
        ELSE k \in Numbers => file[k] = NoFile \/ Len(file[k]) < WIDTH

PrefsInv == PrefsTypeOK /\ Whole

(* prefs_nrf52.cpp:9, "One file per key makes every write self-contained": *)
(* whatever was cut short or failed, and wherever, every other key reads   *)
(* as it was put last, whole, and a number that was hurt reads as its      *)
(* default: never as the value it replaced, and never as a mixture.  Of a  *)
(* key whose own remove failed nothing is said: there it may be either.    *)
OnlyTheCutKey ==
    \A k \in PrefKeys \ stuck :
        IF k \notin hurt THEN Read(k) = told[k]
        ELSE k \in Numbers => Read(k) = NoFile
=============================================================================
