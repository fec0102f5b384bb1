------------------------- MODULE MCReunionExchange -------------------------
(***************************************************************************)
(* Model-checking instance of ReunionExchange: two parties a and b share   *)
(* a passphrase (scenario S1), c uses another one (the third-party noise   *)
(* of scenario S3).                                                        *)
(***************************************************************************)
EXTENDS ReunionExchange, TLC

CONSTANTS a, b, c

MCPassphrase == [p \in Parties |-> IF p = c THEN "other" ELSE "hello"]

\* a and b are interchangeable: same passphrase, same code.
MCSymmetry == Permutations({a, b})

\* Without restarts nothing reads the persisted snapshots, and the safety
\* properties do not read lastUpdate: states differing only there coincide.
NoRestartView == <<ex, board, results, shutdown, sessions, okSends, faults>>

\* Three parties holding the same passphrase.
MCSamePassphrase == [p \in Parties |-> "hello"]

MCSymmetryAll == Permutations(Parties)

=============================================================================
