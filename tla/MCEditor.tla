------------------------------ MODULE MCEditor ------------------------------
(* An instance of Editor for TLC. *)
EXTENDS Editor

EveryKey == DOMAIN Sent

\* A line of the history that fills all but one byte of the buffer.
OneLine == {<<"a", " ", "lead2", "cont">>}
=============================================================================
