--------------------------- MODULE MCStatusStream ---------------------------
(* Small instances of the status stream for TLC. *)
EXTENDS StatusStream

\* Negative codes are those of a process killed by a signal; the largest does
\* not fit the terminal's field.
ExitCodes == {-1, 0, 1, 4}
=============================================================================
