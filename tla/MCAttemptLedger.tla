---------------------------- MODULE MCAttemptLedger ----------------------------
(* Four identities and two retries: three attempts, and one that is refused. *)
EXTENDS AttemptLedger

CONSTANTS i1, i2, i3, i4

MCId == {i1, i2, i3, i4}
==============================================================================
