--------------------------- MODULE ComposeUpdate ---------------------------
(***************************************************************************)
(* What an over-the-air update of docker-compose.yml promises (README,     *)
(* Security): a file that does not work never replaces the working one.    *)
(* A new file is on trial until its stack has proved itself; then it is    *)
(* the device's file, or the old one is back.  The promise covers a device *)
(* on which nothing else goes wrong; once something has, it is void.       *)
(***************************************************************************)
CONSTANTS
    Valid,   \* files docker compose accepts
    Works,   \* files whose stack comes up and stays up
    None     \* no file is on trial

VARIABLES
    live,    \* the file the device falls back to
    trial,   \* the file being tried, or None
    covered  \* nothing has voided the promise

vars == <<live, trial, covered>>

Init == live \in Works /\ trial = None /\ covered = TRUE

Begin == trial = None /\ trial' \in Valid /\ live' = live

Commit == trial \in Works /\ live' = trial /\ trial' = None

Revert == trial # None /\ live' = live /\ trial' = None

Void == covered' = FALSE

Next == (covered /\ covered' /\ (Begin \/ Commit \/ Revert)) \/ Void

Spec == Init /\ [][Next]_vars
=============================================================================
