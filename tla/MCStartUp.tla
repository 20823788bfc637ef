------------------------------ MODULE MCStartUp ------------------------------
(* Small instances of StartUp for TLC.                                       *)
EXTENDS StartUp

CONSTANTS r1, r2, r3, p1, p2, root

ThreeRequests == {r1, r2, r3}
OneEmail == {root}
TwoPasswords == {p1, p2}
SomeVariables == {"WORKERS", "CHANNEL_CAPACITY", "TELEGRAM_RATE_LIMIT"}

With(v, x, p) ==
    [var |-> [w \in SomeVariables |-> IF w = v THEN x ELSE "good"], superuser_pass |-> p]

SomeEnvironments ==
    {With("TELEGRAM_RATE_LIMIT", "unset", p1), With("TELEGRAM_RATE_LIMIT", "good", p2),
     With("TELEGRAM_RATE_LIMIT", "garbled", p1), With("WORKERS", "zero", p1),
     With("CHANNEL_CAPACITY", "zero", p1)}

\* No database, the tables before the column telegram_message_id, and those of today.
Versions == {{}, Complete \ {"telegram_message_id"}, Complete}
=============================================================================
