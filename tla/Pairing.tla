------------------------------ MODULE Pairing ------------------------------
(***************************************************************************)
(* Two boards become a pair: the roles elected from their MACs             *)
(* (Device::DiscoverRole), the key agreed over X25519 (Host::RunPairing),  *)
(* role and key kept in flash, key first (Device::ProximityPair).  A board *)
(* without a key in flash does all of this at boot; AT+PAIR does it again, *)
(* AT+TRAIN agrees a key and no role, AT&F forgets everything.             *)
(*                                                                         *)
(* A key is the pair of the public keys it was derived from, a public key  *)
(* its board and the number of its draw.  The windows' times are left out: *)
(* a board gives up a search when its ring is empty, or when it likes.     *)
(***************************************************************************)
EXTENDS Integers, Sequences

CONSTANTS
    Pair,          \* the two boards
    Mac,           \* the order of their MACs
    kDiscConfirm, kPairResends,
    MaxLost, MaxCuts, MaxCommands,     \* bounds
    AirCap                             \* bound: frames in a board's ring

ASSUME PairingAssumption ==
    /\ \E b, c \in Pair : b # c /\ Pair = {b, c}
    /\ Mac \in [Pair -> Nat] /\ \A b, c \in Pair : b # c => Mac[b] # Mac[c]
    /\ kDiscConfirm \in Nat \ {0} /\ kPairResends \in Nat \ {0} /\ AirCap \in Nat

VARIABLES
    at,        \* where each board is
    call,      \* in which of its callers: prox, train, and where that returns
    left,      \* frames still to be repeated
    id,        \* cfg.addr, cfg.peer and initiator_
    elected,   \* history: the identity comes from an election
    draw,      \* key pairs drawn so far; the last one is live
    heard,     \* the peer's public key
    key,       \* g_static_key
    nvs,       \* pkey, addr, peer
    air,       \* each board's receive ring
    spent      \* the bounds' counters

pairingVars == <<at, call, left, id, elected, draw, heard, key, nvs, air, spent>>

NoKey == {}                        \* no pkey in flash; in RAM: the built-in key
Blank == [pkey |-> NoKey, addr |-> 0, peer |-> 0]        \* 0: no such key
AtBoot == [prox |-> TRUE, train |-> FALSE, ret |-> "loop"]

Other(b) == CHOOSE c \in Pair : c # b

(* The stored address as it is. *)
Loaded_NoDefault(stored) == [addr |-> stored.addr, peer |-> stored.peer]

(* NODE_ADDR and PEER_ADDR where the flash has none; the peer, too, is     *)
(* stored as a number that may be 0. *)
Loaded(stored) == [addr |-> IF stored.addr = 0 THEN 1 ELSE stored.addr, peer |-> stored.peer]

(* RecomputeRole. *)
IsInitiator(i) == IF i.peer = 0 THEN i.addr = 1 ELSE i.addr < i.peer

Beacon(b) == [type |-> "beacon", of |-> b]
Pub(b) == [type |-> "pair", of |-> b, n |-> draw[b]]

(* Setup's end: a paired board takes its role from flash, another pairs. *)
Boots(b, stored) == IF stored.pkey = NoKey THEN "beacon" ELSE "loop"

PairingInit ==
    /\ at = [b \in Pair |-> "beacon"] /\ call = [b \in Pair |-> AtBoot]
    /\ left = [b \in Pair |-> 0]
    /\ id = [b \in Pair |-> Loaded(Blank)] /\ elected = [b \in Pair |-> FALSE]
    /\ draw = [b \in Pair |-> 0] /\ heard = [b \in Pair |-> NoKey]
    /\ key = [b \in Pair |-> NoKey] /\ nvs = [b \in Pair |-> Blank]
    /\ air = [b \in Pair |-> <<>>]
    /\ spent = [lost |-> 0, cuts |-> 0, commands |-> 0]
-----------------------------------------------------------------------------
(* A frame reaches the other board's ring, unless that is full or the      *)
(* frame is lost. *)
Tx(b, frame) ==
    \/ /\ air' = IF Len(air[Other(b)]) < AirCap
                 THEN [air EXCEPT ![Other(b)] = Append(@, frame)] ELSE air
       /\ UNCHANGED spent
    \/ /\ spent.lost < MaxLost /\ spent' = [spent EXCEPT !.lost = @ + 1]
       /\ UNCHANGED air

Rx(b) == air' = [air EXCEPT ![b] = Tail(@)] /\ UNCHANGED spent

Goes(b, to) == at' = [at EXCEPT ![b] = to]

(* DiscoverRole: beacon and listen until the peer's beacon is heard. *)
SendDiscBeacon(b) ==
    /\ at[b] = "beacon" /\ Goes(b, "hear")
    /\ Tx(b, Beacon(b))
    /\ UNCHANGED <<call, left, id, elected, draw, heard, key, nvs>>

HasBeacon(b) == air[b] # <<>> /\ Head(air[b]).type = "beacon"
HasPub(b) == air[b] # <<>> /\ Head(air[b]).type = "pair"

AssignAddrs(init) == [addr |-> IF init THEN 1 ELSE 2, peer |-> IF init THEN 2 ELSE 1]

ElectInitiator(b, peer) == Mac[b] < Mac[peer]

Elect(b) ==
    /\ at[b] = "hear" /\ HasBeacon(b)
    /\ Goes(b, "confirm")
    /\ id' = [id EXCEPT ![b] = AssignAddrs(ElectInitiator(b, Head(air[b]).of))]
    /\ elected' = [elected EXCEPT ![b] = TRUE]
    /\ left' = [left EXCEPT ![b] = kDiscConfirm]
    /\ Rx(b)
    /\ UNCHANGED <<call, draw, heard, key, nvs>>

HearsNothing(b) ==
    /\ at[b] = "hear" /\ ~HasBeacon(b)
    /\ Goes(b, "beacon")
    /\ IF air[b] = <<>> THEN UNCHANGED <<air, spent>> ELSE Rx(b)
    /\ UNCHANGED <<call, left, id, elected, draw, heard, key, nvs>>

(* RunPairing begins with a fresh key pair. *)
Starts(b) ==
    /\ Goes(b, "pair") /\ draw' = [draw EXCEPT ![b] = @ + 1]
    /\ heard' = [heard EXCEPT ![b] = NoKey]

Confirm(b) ==
    /\ at[b] = "confirm" /\ left[b] > 0
    /\ left' = [left EXCEPT ![b] = @ - 1]
    /\ Tx(b, Beacon(b))
    /\ IF left[b] = 1 THEN Starts(b) ELSE UNCHANGED <<at, draw, heard>>
    /\ UNCHANGED <<call, id, elected, key, nvs>>

(* Broadcast the public key, and listen for the peer's. *)
PairTx(b) ==
    /\ at[b] = "pair" /\ Goes(b, "listen")
    /\ Tx(b, Pub(b))
    /\ UNCHANGED <<call, left, id, elected, draw, heard, key, nvs>>

PairHeard(b) ==
    /\ at[b] = "listen" /\ HasPub(b)
    /\ Goes(b, "resend") /\ left' = [left EXCEPT ![b] = kPairResends]
    /\ heard' = [heard EXCEPT ![b] = {<<Head(air[b]).of, Head(air[b]).n>>}]
    /\ Rx(b)
    /\ UNCHANGED <<call, id, elected, draw, key, nvs>>

PairUnheard(b) ==
    /\ at[b] = "listen" /\ ~HasPub(b)
    /\ Goes(b, "pair")
    /\ IF air[b] = <<>> THEN UNCHANGED <<air, spent>> ELSE Rx(b)
    /\ UNCHANGED <<call, left, id, elected, draw, heard, key, nvs>>

(* The window is over: the caller goes on without a key. *)
PairGivesUp(b) ==
    /\ at[b] = "pair"
    /\ Goes(b, call[b].ret)
    /\ call' = [call EXCEPT ![b].train = FALSE, ![b].ret = "loop"]
    /\ UNCHANGED <<left, id, elected, draw, heard, key, nvs, air, spent>>

(* The public key again, each time followed by an Rx whose frame, if one    *)
(* comes, is dropped.                                                      *)
Resend(b) ==
    /\ at[b] = "resend" /\ Goes(b, "await")
    /\ left' = [left EXCEPT ![b] = @ - 1]
    /\ Tx(b, Pub(b))
    /\ UNCHANGED <<call, id, elected, draw, heard, key, nvs>>

ResendRx(b) ==
    /\ at[b] = "await" /\ Goes(b, IF left[b] = 0 THEN "putkey" ELSE "resend")
    /\ IF air[b] = <<>> THEN UNCHANGED <<air, spent>> ELSE Rx(b)
    /\ UNCHANGED <<call, left, id, elected, draw, heard, key, nvs>>

(* The key is stored and taken into use, in ProximityPair then the role;   *)
(* the power may fail in between. *)
PutKey(b) ==
    /\ at[b] = "putkey"
    /\ key' = [key EXCEPT ![b] = {<<b, draw[b]>>} \union heard[b]]
    /\ nvs' = [nvs EXCEPT ![b].pkey = key'[b]]
    /\ Goes(b, IF call[b].train THEN call[b].ret ELSE "putrole")
    /\ call' = [call EXCEPT ![b].train = FALSE, ![b].ret = "loop"]
    /\ UNCHANGED <<left, id, elected, draw, heard, air, spent>>

(* Only the own address. *)
PersistRole_AddrOnly(b) ==
    /\ at[b] = "putrole" /\ Goes(b, "loop")
    /\ nvs' = [nvs EXCEPT ![b].addr = id[b].addr]
    /\ UNCHANGED <<call, left, id, elected, draw, heard, key, air, spent>>

PersistRole(b) ==
    /\ at[b] = "putrole" /\ Goes(b, "loop")
    /\ nvs' = [nvs EXCEPT ![b].addr = id[b].addr, ![b].peer = id[b].peer]
    /\ UNCHANGED <<call, left, id, elected, draw, heard, key, air, spent>>

(* A board in its loop that does not answer. *)
DiscHandleRx_Silent(b) ==
    /\ at[b] = "loop" /\ HasBeacon(b)
    /\ Rx(b)
    /\ UNCHANGED <<at, call, left, id, elected, draw, heard, key, nvs>>

(* The turns: a peer still in discovery is answered, other frames of this  *)
(* module mean nothing to them. *)
DiscHandleRx(b) ==
    /\ at[b] = "loop" /\ HasBeacon(b)
    /\ LET cleared == [air EXCEPT ![b] = Tail(@)]
       IN  \/ /\ air' = IF Len(air[Other(b)]) < AirCap
                        THEN [cleared EXCEPT ![Other(b)] = Append(@, Beacon(b))] ELSE cleared
              /\ UNCHANGED spent
           \/ /\ spent.lost < MaxLost /\ spent' = [spent EXCEPT !.lost = @ + 1]
              /\ air' = cleared
    /\ UNCHANGED <<at, call, left, id, elected, draw, heard, key, nvs>>

LoopDrops(b) ==
    /\ at[b] = "loop" /\ air[b] # <<>> /\ ~HasBeacon(b)
    /\ Rx(b)
    /\ UNCHANGED <<at, call, left, id, elected, draw, heard, key, nvs>>
-----------------------------------------------------------------------------
Commands == spent.commands < MaxCommands /\ spent' = [spent EXCEPT !.commands = @ + 1]

(* AT+TRAIN, in the loop or from the idle hook of DiscoverRole's waits. *)
AtTrain(b) ==
    /\ at[b] \in {"loop", "hear"} /\ Commands
    /\ Starts(b)
    /\ call' = [call EXCEPT ![b].train = TRUE, ![b].ret = at[b]]
    /\ UNCHANGED <<left, id, elected, key, nvs, air>>

AtPair(b) ==
    /\ at[b] = "loop" /\ Commands
    /\ Goes(b, "beacon")
    /\ call' = [call EXCEPT ![b] = AtBoot]
    /\ UNCHANGED <<left, id, elected, draw, heard, key, nvs, air>>

Forgets(b) ==
    /\ nvs' = [nvs EXCEPT ![b] = Blank]
    /\ id' = [id EXCEPT ![b] = Loaded(Blank)] /\ elected' = [elected EXCEPT ![b] = FALSE]
    /\ key' = [key EXCEPT ![b] = NoKey]

AtFactoryReset(b) ==
    /\ at[b] = "loop" /\ Commands
    /\ Forgets(b)
    /\ UNCHANGED <<at, call, left, draw, heard, air>>

PowerFails(b) ==
    /\ spent.cuts < MaxCuts /\ spent' = [spent EXCEPT !.cuts = @ + 1]
    /\ Goes(b, Boots(b, nvs[b]))
    /\ call' = [call EXCEPT ![b] = AtBoot]
    /\ id' = [id EXCEPT ![b] = Loaded(nvs[b])]
    /\ elected' = [elected EXCEPT ![b] = nvs[b].addr # 0]
    /\ key' = [key EXCEPT ![b] = nvs[b].pkey]
    /\ air' = [air EXCEPT ![b] = <<>>]
    /\ UNCHANGED <<left, draw, heard, nvs>>

Discovery(b) == SendDiscBeacon(b) \/ Elect(b) \/ HearsNothing(b) \/ Confirm(b)
Exchange(b) == PairTx(b) \/ PairHeard(b) \/ PairUnheard(b) \/ Resend(b) \/ ResendRx(b)
Keeps(b) == PutKey(b) \/ PersistRole(b)
InLoop(b) == DiscHandleRx(b) \/ LoopDrops(b)
AtPairing(b) == AtTrain(b) \/ AtPair(b) \/ AtFactoryReset(b)

PairingNext ==
    \E b \in Pair : \/ Discovery(b) \/ Exchange(b) \/ PairGivesUp(b) \/ Keeps(b)
                    \/ InLoop(b) \/ AtPairing(b) \/ PowerFails(b)

PairingSpec == PairingInit /\ [][PairingNext]_pairingVars

(* Every board runs, and no search outlasts kPairWindowMs. *)
PairingFairness ==
    \A b \in Pair :
        /\ WF_pairingVars(Discovery(b)) /\ WF_pairingVars(Exchange(b))
        /\ SF_pairingVars(PairGivesUp(b))
        /\ WF_pairingVars(Keeps(b)) /\ WF_pairingVars(InLoop(b))
-----------------------------------------------------------------------------
Places == {"beacon", "hear", "confirm", "pair", "listen", "resend", "await",
           "putkey", "putrole", "loop"}

Keyed == SUBSET (Pair \X Nat)

(* Types: what is repeated is counted down.                                *)
PairingTypeOK ==
    /\ at \in [Pair -> Places]
    /\ call \in [Pair -> [prox : {TRUE}, train : BOOLEAN, ret : {"loop", "hear"}]]
    /\ left \in [Pair -> 0 .. kDiscConfirm + kPairResends]
    /\ id \in [Pair -> [addr : {1, 2}, peer : {0, 1, 2}]]
    /\ elected \in [Pair -> BOOLEAN]
    /\ draw \in [Pair -> Nat] /\ heard \in [Pair -> Keyed] /\ key \in [Pair -> Keyed]
    /\ nvs \in [Pair -> [pkey : Keyed, addr : {0, 1, 2}, peer : {0, 1, 2}]]

(* The air has the peer's beacons, and its pairing frames of the draws it  *)
(* has made.                                                               *)
FramesFrom(c) ==
    {Beacon(c)} \union {[type |-> "pair", of |-> c, n |-> i] : i \in 1 .. draw[c]}

AirOK == /\ DOMAIN air = Pair
         /\ \A c \in Pair : air[c] \in Seq(FramesFrom(Other(c))) /\ Len(air[c]) <= AirCap

KeyOfTwo(k) == k = NoKey \/ \A c \in Pair : \E n \in 1 .. draw[c] : <<c, n>> \in k

(* What OneInitiator rests on: any election a board ends, whatever it has  *)
(* heard, has the one result its address gives it, kept in flash or not;   *)
(* and what a board derives a key from is a draw that its peer has made.   *)
Elected(b) == AssignAddrs(ElectInitiator(b, Other(b)))
Exchanging == {"pair", "listen", "resend", "await", "putkey"}

BoardOK(b) ==
    /\ at[b] \in Exchanging => draw[b] > 0
    /\ at[b] \in {"resend", "await", "putkey"} =>
          \E n \in 1 .. draw[Other(b)] : heard[b] = {<<Other(b), n>>}
    /\ at[b] = "resend" => left[b] > 0
    /\ at[b] \in {"confirm", "putrole"} => elected[b]
    /\ at[b] \in Exchanging => call[b].train \/ elected[b]
    /\ elected[b] => id[b] = Elected(b)
    /\ nvs[b].addr # 0 => nvs[b].addr = Elected(b).addr /\ nvs[b].peer = Elected(b).peer
    /\ KeyOfTwo(key[b]) /\ KeyOfTwo(nvs[b].pkey)

PairingInv == PairingTypeOK /\ AirOK /\ \A b \in Pair : BoardOK(b)

(* identity.h: "Tying the address to the role guarantees the two ends      *)
(* always hold DISTINCT addresses": two boards whose identity is from an   *)
(* election, this boot's or one kept in flash, are initiator and responder *)
(* to each other, whatever either has been through since.                  *)
OneInitiator ==
    (\A b \in Pair : elected[b]) =>
        \A b \in Pair : /\ id[b].peer = id[Other(b)].addr
                        /\ IsInitiator(id[b]) # IsInitiator(id[Other(b)])

(* fw_host.cpp: "the returned fingerprint MUST match on both ends": boards *)
(* that pair by themselves keep one key, wherever the power fails.         *)
KeptKeysAgree ==
    spent.commands = 0 /\ (\A b \in Pair : nvs[b].pkey # NoKey) =>
        \A b \in Pair : nvs[b].pkey = nvs[Other(b)].pkey

(* No board is left behind in discovery: the one that missed every beacon  *)
(* of its peer's election is answered by its peer's turns.                 *)
BothReachTheLoop == <>[](\A b \in Pair : at[b] = "loop")

(* fw_config.h:116: "pairs ONCE ... electing roles, deriving a unique      *)
(* per-pair key over X25519, and persisting both - then skips discovery on *)
(* every later boot": a board that will skip discovery has a role to load. *)
PairedHasRole ==
    \A b \in Pair : at[b] = "loop" /\ nvs[b].pkey # NoKey => nvs[b].addr # 0
=============================================================================
