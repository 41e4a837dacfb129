------------------------------ MODULE Session ------------------------------
(***************************************************************************)
(* The per-session key handshake (fw_session.cpp) beside the link's epoch  *)
(* tracking, which tells each end that the other has restarted.  A data    *)
(* frame is its sender's epoch and the key it is sealed with; a key is the *)
(* static one or the pair of ephemeral keys it was derived from.  Epochs   *)
(* and ephemeral keys are drawn from counters: two random draws that       *)
(* happen to be equal are left out.                                        *)
(***************************************************************************)
EXTENDS Naturals, Sequences

CONSTANTS Initiator, Responder,
          kHsMaxAttempts,  \* handshakes tried before data flows unkeyed
          Reboots, Reconnects,   \* the nodes that may, and whose host may
          Faults,          \* "loss" of a frame, "early" timeouts
          OnlyMet,         \* a node restarts only once its peer knows its epoch
          MaxDisturb, MaxFault, RINGCAP   \* the model's bounds

Node == {Initiator, Responder}

ASSUME SessionNodeAssumption == Initiator # Responder /\ Reboots \union Reconnects \subseteq Node
ASSUME AttemptsAssumption == kHsMaxAttempts \in Nat \ {0} /\ RINGCAP \in Nat

VARIABLES link,     \* own epoch, and the peer's as last seen (0: never)
          hs,       \* own ephemeral key (0: none yet), session active, live key
          drive,    \* the initiator's turn: where it is, attempts, back-off, and
                    \* whether the last INIT is too recent for another
          ring,     \* frames received and not yet looked at
          budget

sessionVars == <<link, hs, drive, ring, budget>>

Peer(n) == CHOOSE p \in Node : p # n

StaticKey == <<0, 0>>

(* Both ends derive the same key from the initiator's and the responder's  *)
(* ephemeral public keys.                                                  *)
Derive(n, own, peers) == IF n = Initiator THEN <<own, peers>> ELSE <<peers, own>>

(* last_attempt starts at 0, and so does the clock. *)
FirstDrive == [at |-> "top", attempts |-> 0, backoff |-> FALSE, recent |-> TRUE]

SessionInit == /\ link = [n \in Node |-> [epoch |-> 1, peer |-> 0]]
        /\ hs = [n \in Node |-> [eph |-> 0, active |-> FALSE, key |-> StaticKey,
                                 drawn |-> 0]]
        /\ drive = FirstDrive
        /\ ring = [n \in Node |-> <<>>]
        /\ budget = [disturb |-> MaxDisturb, fault |-> MaxFault]

Hs(type, pub) == [type |-> type, pub |-> pub]
Data(n, l, h) == [type |-> "data", epoch |-> l[n].epoch, key |-> h[n].key]

Spend(what) == budget[what] > 0 /\ budget' = [budget EXCEPT ![what] = @ - 1]

(* A frame on the air, once the receiver has taken one off its ring. *)
Send(n, f, taken) ==
  LET p == Peer(n)
  IN \/ /\ Len(taken[p]) < RINGCAP
        /\ ring' = [taken EXCEPT ![p] = Append(@, f)]
        /\ UNCHANGED budget
     \/ /\ "loss" \in Faults /\ Spend("fault")
        /\ ring' = taken

Pop(n) == [ring EXCEPT ![n] = Tail(@)]
-----------------------------------------------------------------------------
(* A fresh ephemeral key, once per reset. *)
EnsureStarted(h) == IF h.eph # 0 THEN h
                    ELSE [h EXCEPT !.eph = h.drawn + 1, !.drawn = @ + 1]

InstallSessionKey(n, h, pub) ==
  [h EXCEPT !.key = Derive(n, h.eph, pub), !.active = TRUE]

SessionReset(h) == [h EXCEPT !.key = StaticKey, !.active = FALSE, !.eph = 0]

(* A peer's new epoch that is recorded, and nothing more. *)
AfterOnRx_Recorded(n, f) ==
  /\ link' = [link EXCEPT ![n].peer = f.epoch]
  /\ hs' = hs

(* OnRx, then TakePeerReset: the epoch counts although the frame may not   *)
(* open under the key that is live when it is looked at.                   *)
AfterOnRx(n, f) ==
  /\ link' = [link EXCEPT ![n].peer = f.epoch]
  /\ hs' = IF link[n].peer \in {0, f.epoch} THEN hs
           ELSE [hs EXCEPT ![n] = SessionReset(@)]

Opens(n, f) == f.key = hs[n].key
-----------------------------------------------------------------------------
(* A turn that SessionDriveInitiator leaves to the data: there is a        *)
(* session, it backs off, or kHsAttemptMs have not passed since the last   *)
(* INIT, as after an Rx that failed early.                                 *)
DataTurn == hs[Initiator].active \/ drive.backoff \/ drive.recent

(* SessionDriveInitiator: one INIT, and a wait for the answer. *)
SendInit ==
  /\ drive.at = "top" /\ ~DataTurn
  /\ LET h == EnsureStarted(hs[Initiator])
     IN /\ hs' = [hs EXCEPT ![Initiator] = h]
        /\ Send(Initiator, Hs("init", h.eph), ring)
  /\ drive' = [drive EXCEPT !.at = "wait", !.recent = TRUE]
  /\ UNCHANGED link

(* The answer, in a handshake turn or, late, in a data turn. *)
TakeResp(f) ==
  hs' = IF hs[Initiator].eph # 0 /\ ~hs[Initiator].active
        THEN [hs EXCEPT ![Initiator] = InstallSessionKey(Initiator, @, f.pub)]
        ELSE hs

WaitReceive ==
  /\ drive.at = "wait" /\ ring[Initiator] # <<>>
  /\ LET f == Head(ring[Initiator])
     IN IF f.type = "resp" THEN TakeResp(f) ELSE UNCHANGED hs
  /\ ring' = Pop(Initiator)
  /\ drive' = IF hs'[Initiator].active
              THEN [drive EXCEPT !.at = "top", !.attempts = 0]
              ELSE drive
  /\ UNCHANGED <<link, budget>>

(* No frame within the window; it may still be on its way. *)
Silent == IF ring[Responder] = <<>> THEN UNCHANGED budget
          ELSE "early" \in Faults /\ Spend("fault")

(* One attempt too many. *)
WaitTimeout_OneMore ==
  /\ drive.at = "wait" /\ ring[Initiator] = <<>> /\ Silent
  /\ drive' = IF drive.attempts < kHsMaxAttempts
              THEN [drive EXCEPT !.at = "top", !.attempts = @ + 1]
              ELSE [drive EXCEPT !.at = "data", !.attempts = 0, !.backoff = TRUE]
  /\ UNCHANGED <<link, hs, ring>>

WaitTimeout ==
  /\ drive.at = "wait" /\ ring[Initiator] = <<>> /\ Silent
  /\ drive' = IF drive.attempts + 1 < kHsMaxAttempts
              THEN [drive EXCEPT !.at = "top", !.attempts = @ + 1]
              ELSE [drive EXCEPT !.at = "data", !.attempts = 0, !.backoff = TRUE]
  /\ UNCHANGED <<link, hs, ring>>

GapPasses == /\ drive.recent
             /\ drive' = [drive EXCEPT !.recent = FALSE]
             /\ UNCHANGED <<link, hs, ring, budget>>

(* kHsRetryMs after the last INIT, which is longer. *)
BackoffEnds == /\ drive.backoff /\ ~drive.recent
               /\ drive' = [drive EXCEPT !.backoff = FALSE]
               /\ UNCHANGED <<link, hs, ring, budget>>
-----------------------------------------------------------------------------
(* A data turn of the initiator. *)
SendData ==
  /\ \/ drive.at = "top" /\ DataTurn
     \/ drive.at = "data"
  /\ Send(Initiator, Data(Initiator, link, hs), ring)
  /\ drive' = [drive EXCEPT !.at = "listen"]
  /\ UNCHANGED <<link, hs>>

ListenReceive ==
  /\ drive.at = "listen" /\ ring[Initiator] # <<>>
  /\ LET f == Head(ring[Initiator])
     IN IF f.type = "resp"
        THEN TakeResp(f) /\ UNCHANGED <<link, drive>>
        ELSE /\ AfterOnRx(Initiator, f)
             /\ drive' = IF Opens(Initiator, f) THEN [drive EXCEPT !.at = "top"]
                                                ELSE drive
  /\ ring' = Pop(Initiator)
  /\ UNCHANGED budget

ListenTimeout ==
  /\ drive.at = "listen" /\ ring[Initiator] = <<>> /\ Silent
  /\ drive' = [drive EXCEPT !.at = "top"]
  /\ UNCHANGED <<link, hs, ring>>

(* The responder answers every INIT, and every burst with its own. *)
AnswerInit ==
  /\ ring[Responder] # <<>> /\ Head(ring[Responder]).type = "init"
  /\ LET h == EnsureStarted(hs[Responder])
     IN /\ hs' = [hs EXCEPT ![Responder] =
                    InstallSessionKey(Responder, h, Head(ring[Responder]).pub)]
        /\ Send(Responder, Hs("resp", h.eph), Pop(Responder))
  /\ UNCHANGED <<link, drive>>

AnswerData ==
  /\ ring[Responder] # <<>> /\ Head(ring[Responder]).type = "data"
  /\ AfterOnRx(Responder, Head(ring[Responder]))
  /\ Send(Responder, Data(Responder, link, hs'), Pop(Responder))
  /\ UNCHANGED drive
-----------------------------------------------------------------------------
Restarts(n) == /\ OnlyMet => link[Peer(n)].peer # 0
               /\ Spend("disturb")

(* The host opens its port: NewSession and SessionReset. *)
Reconnect(n) ==
  /\ n \in Reconnects /\ Restarts(n)
  /\ link' = [link EXCEPT ![n].epoch = @ + 1]
  /\ hs' = [hs EXCEPT ![n] = SessionReset(@)]
  /\ UNCHANGED <<drive, ring>>

Reboot(n) ==
  /\ n \in Reboots /\ Restarts(n)
  /\ link' = [link EXCEPT ![n] = [epoch |-> @.epoch + 1, peer |-> 0]]
  /\ hs' = [hs EXCEPT ![n] = SessionReset(@)]
  /\ drive' = IF n = Initiator THEN FirstDrive ELSE drive
  /\ ring' = [ring EXCEPT ![n] = <<>>]

Turn == \/ SendInit \/ WaitReceive \/ WaitTimeout
        \/ SendData \/ ListenReceive \/ ListenTimeout

Answer == AnswerInit \/ AnswerData

SessionNext == Turn \/ Answer \/ GapPasses \/ BackoffEnds
               \/ \E n \in Node : Reconnect(n) \/ Reboot(n)

SessionSpec == SessionInit /\ [][SessionNext]_sessionVars

(* Both loops run, and time passes. *)
SessionFairness ==
  /\ WF_sessionVars(Turn) /\ WF_sessionVars(Answer)
  /\ WF_sessionVars(GapPasses) /\ SF_sessionVars(BackoffEnds)

SessionFairSpec == SessionSpec /\ SessionFairness
-----------------------------------------------------------------------------
(* What one end may find in its ring: the initiator is never asked, the    *)
(* responder never answered.                                               *)
FramesTo(n) ==
  [type : {IF n = Initiator THEN "resp" ELSE "init"}, pub : Nat \ {0}]
    \union [type : {"data"}, epoch : Nat \ {0}, key : Nat \X Nat]

(* Types: SessionDriveInitiator's attempts stay within kHsMaxAttempts, and *)
(* no ring outgrows its bound.                                             *)
SessionTypeOK ==
  /\ link \in [Node -> [epoch : Nat \ {0}, peer : Nat]]
  /\ hs \in [Node -> [eph : Nat, active : BOOLEAN, key : Nat \X Nat, drawn : Nat]]
  /\ drive \in [at : {"top", "wait", "data", "listen"},
                attempts : 0 .. kHsMaxAttempts - 1, backoff : BOOLEAN,
                recent : BOOLEAN]
  /\ DOMAIN ring = Node
  /\ \A n \in Node : ring[n] \in Seq(FramesTo(n)) /\ Len(ring[n]) <= RINGCAP

(* InstallSessionKey, EnsureStarted and SessionReset: an end without a     *)
(* session runs on the static key, one with a session on a key that its    *)
(* own, newest ephemeral key went into; none comes back once it is wiped.  *)
KeysAreOwn ==
  \A n \in Node :
    /\ hs[n].eph \in {0, hs[n].drawn}
    /\ ~hs[n].active => hs[n].key = StaticKey
    /\ hs[n].active => /\ hs[n].eph # 0
                       /\ \E i \in {1, 2} : hs[n].key[i] = hs[n].eph /\ hs[n].key[3 - i] # 0

SessionInv == SessionTypeOK /\ KeysAreOwn

(* fw_session.h: "automatic and self-healing".  Both ends come to use, and *)
(* keep, one session key.                                                  *)
KeysConverge ==
  <>[](hs[Initiator].active /\ hs[Responder].active
         /\ hs[Initiator].key = hs[Responder].key)
=============================================================================
