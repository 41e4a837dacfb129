----------------------------- MODULE MCLinkReset -----------------------------
(* Small instances of LinkReset for TLC. *)
EXTENDS LinkReset

CONSTANTS LoadInitiator, LoadResponder   \* chunks each host writes

MCLoad == [n \in Node |-> IF n = Initiator THEN LoadInitiator ELSE LoadResponder]
=============================================================================
