--------------------------- MODULE MCWearLeveling ---------------------------
(***************************************************************************)
(* Small instances of WearLeveling for TLC.                                *)
(***************************************************************************)
EXTENDS WearLeveling

W(a, v) == [address |-> a, value |-> v]

\* One-word entries alone: bytes, 16-bit 0 and 1, and a write of several words.
WordWrites == {W(0, <<1, 0>>), W(0, <<2>>), W(1, <<1>>), W(1, <<2, 1, 0>>)}

\* Entries of one to four words, one of them zero, and a write of two entries.
MultibyteWrites == {W(0, <<2>>), W(65, <<2, 1>>), W(64, <<2, 0, 0, 1, 1, 2>>)}

\* What may stand behind a log entry on the stack.
StackBytes == <<1, 2>>
=============================================================================
