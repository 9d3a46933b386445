----------------------------- MODULE OtaUpdate -----------------------------
(***************************************************************************)
(* An over-the-air update of the device's own docker-compose.yml           *)
(* (agent.py ComposeManager and run_apply_only).  The agent downloads and  *)
(* validates a file, backs up the current one, replaces it and hands over  *)
(* to a detached helper container, because `docker compose up` may         *)
(* recreate the agent itself.  The helper brings the stack up, watches it  *)
(* for a crash loop, and puts the backup back if it does not like it.      *)
(*                                                                         *)
(* The agent and the helper are two processes that share the compose file, *)
(* the backups and docker.  An action is one docker command or one file    *)
(* operation.  A shutil.copy2 is two of them: it empties the file it       *)
(* writes, then fills it, and may be cut short in between; a rename is     *)
(* one.  What may go wrong outside the stack itself is named in Faults, so *)
(* that a run says what it assumes.                                        *)
(***************************************************************************)
EXTENDS Naturals, Sequences

CONSTANTS
    Files,      \* compose files
    Torn,       \* a compose file of which a part is missing
    Valid,      \* those docker compose config accepts
    Works,      \* those whose containers start and do not crash-loop
    Version,    \* the version under x-stack of each
    Faults,     \* which of AllFaults may happen
    MaxPushes,  \* bound: updates the cloud pushes
    None

AllFaults == {
    "overlap",  \* an update is pushed before the helper of the last one is done
    "docker",   \* docker inspect, rm or run fails or times out for the agent
    "backup",   \* the backup cannot be written
    "restore",  \* the backup cannot be copied back
    "power",    \* the device loses power
    "publish" } \* the helper cannot publish its result

ASSUME OtaAssumption ==
    /\ Works \subseteq Valid /\ Valid \subseteq Files
    /\ Torn \notin Files
    /\ DOMAIN Version = Files \union {Torn}
    /\ Faults \subseteq AllFaults
    /\ MaxPushes \in Nat
    /\ None \notin Files \union {Torn}

VARIABLES
    compose,   \* COMPOSE_FILE
    backups,   \* BACKUP_DIR, oldest first
    running,   \* the file docker's containers were made from
    agent,     \* how far update_from_url is; "off" while the container starts
    new,       \* the downloaded file
    backup,    \* its backup_path, an index of backups; 0 is Python's None
    helper,    \* how far run_apply_only is in the helper container
    argument,  \* the helper's --apply-only argument, an index of backups or 0
    reported,  \* the version the cloud was last told
    faulted,   \* one of Faults has happened where it matters to an update
    cut,       \* a copy has been cut short, or has copied a file half written
    untold,    \* the last report did not reach the cloud
    pushes     \* how many updates the cloud has pushed

files == <<compose, backups>>
agentVars == <<agent, new, backup>>
helperVars == <<helper, argument>>
told == <<reported, untold>>
vars == <<files, running, agentVars, helperVars, told, faulted, cut, pushes>>

HelperAtWork == helper \in {"up", "watch", "rollback", "restoring", "again", "report"}

\* The agent is about to hand over: the new file is in place, without a helper.
HandsOver == agent \in {"replaced", "cleared"}

Contents == Files \union {Torn}

TypeOK ==
    /\ compose \in Contents
    /\ backups \in Seq(Contents)
    /\ running \in Files
    /\ agent \in {"off", "idle", "fetched", "checked", "copying", "backed",
                  "replaced", "cleared", "direct"}
    /\ new \in Files
    /\ backup \in 0..Len(backups)
    /\ helper \in {"none", "up", "watch", "rollback", "restoring", "again", "report", "exited"}
    /\ argument \in 0..Len(backups)
    /\ reported \in { Version[f] : f \in Contents }
    /\ faulted \in BOOLEAN
    /\ cut \in BOOLEAN
    /\ untold \in BOOLEAN
    /\ pushes \in 0..MaxPushes

\* install.sh has brought up a stack that works.
Init ==
    /\ compose \in Works
    /\ backups = << >>
    /\ running = compose
    /\ agent = "idle"
    /\ new = compose
    /\ backup = 0
    /\ helper = "none"
    /\ argument = 0
    /\ reported = Version[compose]
    /\ faulted = FALSE
    /\ cut = FALSE
    /\ untold = FALSE
    /\ pushes = 0

Happens(fault) == fault \in Faults /\ faulted' = TRUE

Fine == faulted' = faulted

Cuts(copy) == cut' = (cut \/ copy)

AgentGoes(from, to) == agent = from /\ agent' = to

(***************************************************************************)
(* The agent: _handle_ota_update, update_from_url and _apply_via_helper.   *)
(***************************************************************************)
\* An update is pushed.  The download fails after four attempts (an error of
\* the connection makes the agent restart its own container), or its checksum
\* or format is wrong, or it has the version of the current file, or it is kept.
\* That version cannot always be had of a torn file: the exception then ends
\* the agent's connection.
Fetch(f) ==
    /\ agent = "idle"
    /\ IF HelperAtWork THEN Happens("overlap") ELSE Fine
    /\ pushes < MaxPushes
    /\ pushes' = pushes + 1
    /\ \/ agent' \in {"idle", "off"} /\ UNCHANGED new
       \/ /\ Version[f] # Version[compose]
          /\ agent' = "fetched"
          /\ new' = f
    /\ UNCHANGED <<files, running, backup, helperVars, told, cut>>

\* A slip: a failed validation is logged and nothing else.
ValidateAnyway ==
    /\ AgentGoes("fetched", "checked")
    /\ UNCHANGED <<files, running, new, backup, helperVars, told, faulted, cut, pushes>>

\* docker compose config; it may also time out.
Validate ==
    /\ \/ new \in Valid /\ AgentGoes("fetched", "checked")
       \/ AgentGoes("fetched", "idle")
    /\ UNCHANGED <<files, running, new, backup, helperVars, told, faulted, cut, pushes>>

\* A slip: the path is kept although nothing was written there.
BackupUnwritten ==
    /\ AgentGoes("checked", "copying")
    /\ backup' = Len(backups) + 1
    /\ UNCHANGED <<files, running, new, helperVars, told, faulted, cut, pushes>>

\* _backup_existing_file: the new backup is there, still empty.  On failure it
\* returns None and the update goes on.
BackUp ==
    /\ \/ /\ AgentGoes("checked", "copying") /\ Fine
          /\ backups' = Append(backups, Torn) /\ backup' = Len(backups')
       \/ /\ AgentGoes("checked", "backed") /\ Happens("backup")
          /\ backup' = 0 /\ UNCHANGED backups
    /\ UNCHANGED <<compose, running, new, helperVars, told, cut, pushes>>

\* Its copy is made, or what there is of it stays among the backups.
BackUpEnds ==
    /\ AgentGoes("copying", "backed")
    /\ \/ /\ Fine /\ Cuts(helper = "restoring")
          /\ backups' = [backups EXCEPT ![backup] = compose] /\ UNCHANGED backup
       \/ /\ Happens("backup") /\ Cuts(TRUE)
          /\ backup' = 0 /\ UNCHANGED backups
    /\ UNCHANGED <<compose, running, new, helperVars, told, pushes>>

\* new_file.replace(compose_path), unless it fails.  A helper that was copying
\* goes on into the file that was there before.
Replace ==
    /\ \/ /\ AgentGoes("backed", "replaced")
          /\ compose' = new
          /\ helper' = IF helper = "restoring" THEN "again" ELSE helper
       \/ AgentGoes("backed", "idle") /\ UNCHANGED <<compose, helper>>
    /\ UNCHANGED <<backups, running, new, backup, argument, told, faulted, cut, pushes>>

\* docker inspect of the own container, then docker rm -f of the last helper,
\* whatever it is doing.  Without an image name the stack is applied directly;
\* an exception ends the update.
ClearHelper ==
    /\ \/ /\ Fine /\ AgentGoes("replaced", "cleared") /\ helper' = "none"
          /\ Cuts(helper = "restoring")
       \/ /\ Happens("docker")
          /\ AgentGoes("replaced", "direct") \/ AgentGoes("replaced", "idle")
          /\ UNCHANGED <<helper, cut>>
    /\ UNCHANGED <<files, running, new, backup, argument, told, pushes>>

\* docker run of the helper.
LaunchHelper ==
    /\ AgentGoes("cleared", "idle")
    /\ \/ Fine /\ helper' = "up" /\ argument' = backup
       \/ Happens("docker") /\ UNCHANGED helperVars
    /\ UNCHANGED <<files, running, new, backup, told, cut, pushes>>

\* docker compose makes nothing of a file it does not accept; with another it
\* may fail on the way.
Ups(ok) ==
    /\ ok => compose \in Valid
    /\ running' \in (IF compose \in Valid THEN {compose} ELSE {}) \union
                    (IF ok THEN {} ELSE {running})

\* _run_docker_compose: docker recreates what differs, the agent perhaps too
\* (then it is gone in the middle of what it was doing).
Up(ok) ==
    /\ Ups(ok)
    /\ agent' \in (IF running' = running THEN {agent} ELSE {agent, "off"})
    /\ Cuts(agent = "copying" /\ agent' = "off")

\* Without a helper nobody watches the stack and nobody rolls back.
ApplyDirectly ==
    /\ agent = "direct"
    /\ Ups(FALSE)
    /\ agent' \in {"idle", "off"}
    /\ UNCHANGED <<files, new, backup, helperVars, told, faulted, cut, pushes>>

Tells(version) == reported' = version /\ untold' = FALSE

\* main after a restart: the agent connects and publishes its device info, if it
\* can read the file: else _on_connect raises, at every connection.
AgentStarts ==
    /\ AgentGoes("off", "idle")
    /\ Tells(Version[compose])
    /\ UNCHANGED <<files, running, new, backup, helperVars, faulted, cut, pushes>>

(***************************************************************************)
(* The helper: run_apply_only.                                             *)
(***************************************************************************)
HelperUps ==
    /\ helper = "up"
    /\ \/ Up(TRUE) /\ helper' = "watch"
       \/ Up(FALSE) /\ helper' = "rollback"
    /\ UNCHANGED <<files, new, backup, argument, told, faulted, pushes>>

\* A slip: a successful `up` is taken for a working stack.
HelperWatchesNothing ==
    /\ helper = "watch"
    /\ helper' = "report"
    /\ UNCHANGED <<files, running, agentVars, argument, told, faulted, cut, pushes>>

\* _watch_for_crash_loop; a docker inspect that fails counts as a crash.
HelperWatches ==
    /\ helper = "watch"
    /\ \/ running \in Works /\ helper' = "report"
       \/ helper' = "rollback"
    /\ UNCHANGED <<files, running, agentVars, argument, told, faulted, cut, pushes>>

\* The backup it was given, else the newest there is, else none (0).
Chosen == IF argument # 0 THEN argument ELSE Len(backups)

\* The compose file is opened for the copy, and is empty.  An exception ends the
\* helper, without a report.
HelperRollsBack ==
    /\ helper = "rollback"
    /\ \/ /\ Chosen # 0 /\ Fine
          /\ compose' = Torn /\ helper' = "restoring"
       \/ /\ Chosen # 0 /\ Happens("restore")
          /\ helper' = "exited" /\ UNCHANGED compose
       \/ /\ Chosen = 0 /\ Fine
          /\ helper' = "report" /\ UNCHANGED compose
    /\ UNCHANGED <<backups, running, agentVars, argument, told, cut, pushes>>

HelperRestores ==
    /\ helper = "restoring"
    /\ \/ /\ Fine /\ Cuts(agent = "copying" /\ backup = Chosen)
          /\ compose' = backups[Chosen] /\ helper' = "again"
       \/ /\ Happens("restore") /\ Cuts(TRUE)
          /\ helper' = "exited" /\ UNCHANGED compose
    /\ UNCHANGED <<backups, running, agentVars, argument, told, pushes>>

\* A slip: a failed `up` of the old file starts the rollback again.
HelperUpsAgainUntilWell ==
    /\ helper = "again"
    /\ \/ Up(TRUE) /\ helper' = "report"
       \/ Up(FALSE) /\ helper' = "rollback"
    /\ UNCHANGED <<files, new, backup, argument, told, faulted, pushes>>

\* The old stack is brought up again; how that goes is not looked at.
HelperUpsAgain ==
    /\ helper = "again"
    /\ \E ok \in BOOLEAN : Up(ok)
    /\ helper' = "report"
    /\ UNCHANGED <<files, new, backup, argument, told, faulted, pushes>>

\* A slip: the version of the update instead of the one in the file.
HelperReportsNew ==
    /\ helper = "report"
    /\ helper' = "exited"
    /\ Tells(Version[new])
    /\ UNCHANGED <<files, running, agentVars, argument, faulted, cut, pushes>>

\* publish_device_info_once: the version in the file, as it is now.  Of a torn
\* file there may be none to be had: an exception.
HelperReports ==
    /\ helper = "report"
    /\ helper' = "exited"
    /\ \/ Tells(Version[compose])
       \/ /\ "publish" \in Faults \/ compose = Torn
          /\ untold' = TRUE /\ UNCHANGED reported
    /\ UNCHANGED <<files, running, agentVars, argument, faulted, cut, pushes>>

\* Docker starts the agent again, and the helper, which has no restart policy, not.
PowerFails ==
    /\ "power" \in Faults
    /\ agent # "off" \/ HelperAtWork
    /\ faulted' = (faulted \/ HandsOver \/ HelperAtWork)
    /\ Cuts(agent = "copying" \/ helper = "restoring")
    /\ agent' = "off"
    /\ helper' = IF HelperAtWork THEN "none" ELSE helper
    /\ UNCHANGED <<files, running, new, backup, argument, told, pushes>>

Agent ==
    \/ Validate \/ BackUp \/ BackUpEnds \/ Replace \/ ClearHelper \/ LaunchHelper
    \/ ApplyDirectly \/ AgentStarts

\* In a stack that does not work the agent may be what does not start, and with
\* a torn compose file it may never get past its connection.
AgentWell == Agent /\ (agent = "off" => running \in Works /\ compose # Torn)

Helper ==
    \/ HelperUps \/ HelperWatches \/ HelperRollsBack \/ HelperRestores
    \/ HelperUpsAgain \/ HelperReports

Next == (\E f \in Files : Fetch(f)) \/ Agent \/ Helper \/ PowerFails

Spec == Init /\ [][Next]_vars

\* Both processes go on; what they wait for has a timeout.
FairSpec == Spec /\ WF_vars(AgentWell) /\ WF_vars(Helper)

-----------------------------------------------------------------------------

\* No update is under way.
AtRest == agent = "idle" /\ ~HelperAtWork

(* What docker compose does not accept is never the device's compose file, *)
(* whatever is pushed, whatever fails and however updates overlap, but for *)
(* one thing: the remains of a copy.  A rollback empties the file before   *)
(* it fills it; only a copy cut short, of a backup or back from it, leaves *)
(* it so, or lets a later rollback put such remains there.                 *)
OnlyValidFiles ==
    compose \in Valid \/ (compose = Torn /\ (helper = "restoring" \/ cut))

(* However an update ends, once nothing is under way the cloud has been    *)
(* told the version that is in the file: the agent, which hands over       *)
(* before the outcome is known, and the helper, which may roll back, do    *)
(* not leave a wrong report behind.  A report that is lost is made up for  *)
(* by the next, and a power cut that does not hit a trial changes nothing. *)
ReportIsTrue == AtRest /\ ~faulted /\ ~untold => reported = Version[compose]

(* Every update comes to an end, with the agent ready for the next one     *)
(* unless the stack that is left is one that does not work, or the compose *)
(* file one that was torn.                                                 *)
UpdateEnds ==
    []<>(~HelperAtWork /\ (agent = "idle" \/ running \notin Works \/ compose = Torn))

\* The file on trial: in place, not yet found working, not yet rolled back.
trial ==
    IF HandsOver \/ helper \in {"up", "watch", "rollback", "restoring"} THEN new ELSE None

live ==
    IF trial = None THEN compose
    ELSE IF HandsOver THEN backups[backup] ELSE backups[argument]

Contract == INSTANCE ComposeUpdate WITH covered <- ~faulted

(* The agent and its helper together implement the promise of an update    *)
(* that is abstractly one step: tried, then kept or undone.  Reports that  *)
(* are lost and power cuts outside a trial are no excuse.                  *)
KeepsContract == Contract!Spec
=============================================================================
