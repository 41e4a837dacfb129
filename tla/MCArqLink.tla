----------------------------- MODULE MCArqLink -----------------------------
(* Small instances of ArqLink for TLC. *)
EXTENDS ArqLink

CONSTANTS LoadInitiator, LoadResponder   \* chunks each host writes

MCLoad == [n \in Node |-> IF n = Initiator THEN LoadInitiator ELSE LoadResponder]
=============================================================================
