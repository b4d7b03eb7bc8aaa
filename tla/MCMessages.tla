----------------------------- MODULE MCMessages ------------------------------
(***************************************************************************)
(* MessageProtection with a small ring and few numbers.                    *)
(***************************************************************************)
EXTENDS MessageProtection, TLC

\* One busy direction, which fills and overflows the ring, and one quiet one.
Sends == "initiator" :> 6 @@ "acceptor" :> 1
=============================================================================
