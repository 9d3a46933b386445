--------------------------- MODULE OtaUpdateProof ---------------------------
(***************************************************************************)
(* Proofs about the OTA update, for any files, any set of faults and any   *)
(* number of pushes: types; only files docker compose accepts become the   *)
(* compose file, or remain of them when a copy is cut short; the cloud is  *)
(* told the version that is in it; and the agent and its helper together   *)
(* implement ComposeUpdate.                                                *)
(*                                                                         *)
(* None of these is inductive.  What a step does to the compose file hangs *)
(* on what an earlier step of the same process, or of the other one, left  *)
(* in new, backup and argument, and on the two not running at once: that   *)
(* holds by protocol only, as no lock joins an agent and its helper.       *)
(*                                                                         *)
(* From the refinement: a file that does not work never replaces one that  *)
(* does. And a count of the steps left: an update runs out, whatever       *)
(* fails.                                                                  *)
(***************************************************************************)
EXTENDS OtaUpdate, TLAPS, SequenceTheorems

\* A backup is accepted by docker compose, or what a copy has made of it so far.
SoundBackup(i) ==
    backups[i] \in Valid \/ (backups[i] = Torn /\ (cut \/ (agent = "copying" /\ i = backup)))

\* The strengthening of OnlyValidFiles: nothing that may yet become the compose
\* file is one docker compose refuses, but for what copies leave.
ValidKept ==
    /\ OnlyValidFiles
    /\ \A i \in 1..Len(backups) : SoundBackup(i)
    /\ agent = "copying" => backup # 0
    /\ agent = "cleared" => helper = "none"
    /\ helper = "restoring" => Len(backups) # 0
    /\ agent \in {"checked", "copying", "backed", "replaced", "cleared", "direct"} => new \in Valid

\* While nothing has gone wrong the two processes take turns, the backup is
\* there and goes from the one to the other, and the stack that is watched is
\* that of the compose file.
InTurn ==
    /\ agent # "direct"
    /\ HelperAtWork => agent \in {"idle", "off"}
    /\ agent = "copying" => backup # 0
    /\ agent = "backed" => backup # 0 /\ backups[backup] = compose
    /\ HandsOver => backup # 0 /\ compose = new
    /\ HelperAtWork => argument # 0
    /\ helper \in {"up", "watch", "rollback"} => compose = new
    /\ helper = "watch" => running = compose

\* The strengthening of ReportIsTrue: the cloud is behind only while an update
\* is between the replacement of the file and its report.
Reported == ~HelperAtWork /\ ~HandsOver => untold \/ reported = Version[compose]

\* What a backup more does to the ones there are.
LEMMA Appended ==
  ASSUME NEW S, NEW s \in Seq(S), NEW e \in S
  PROVE  /\ Append(s, e) \in Seq(S)
         /\ Len(Append(s, e)) = Len(s) + 1 /\ Len(s) \in Nat
         /\ Append(s, e)[Len(s) + 1] = e
         /\ \A i \in 1..Len(s) : Append(s, e)[i] = s[i]
  OBVIOUS

\* What writing one of them anew does.
LEMMA Rewritten ==
  ASSUME NEW S, NEW s \in Seq(S), NEW i \in 0..Len(s), NEW e \in S
  PROVE  /\ [s EXCEPT ![i] = e] \in Seq(S)
         /\ Len([s EXCEPT ![i] = e]) = Len(s)
         /\ \A j \in 1..Len(s) : [s EXCEPT ![i] = e][j] = IF j = i THEN e ELSE s[j]
<1>1. Len(s) \in Nat /\ DOMAIN s = 1..Len(s)
  OBVIOUS
<1>2. CASE i = 0
  <2>1. s = [j \in 1..Len(s) |-> s[j]] /\ i \notin 1..Len(s)
    BY <1>1, <1>2
  <2>2. [s EXCEPT ![i] = e] = [j \in 1..Len(s) |-> IF j = i THEN e ELSE s[j]]
    BY <1>1
  <2>3. [s EXCEPT ![i] = e] = s
    BY <2>1, <2>2
  <2> QED BY <2>1, <2>3
<1>3. CASE i \in 1..Len(s)
  BY <1>3, ExceptSeq
<1> QED BY <1>2, <1>3

\* An index of a backup is one of its list, 0 (no backup) apart.
LEMMA Indexed ==
  ASSUME NEW S, NEW s \in Seq(S), NEW i \in 0..Len(s), i # 0
  PROVE  s[i] \in S
  OBVIOUS

(***************************************************************************)
(* Type correctness.                                                       *)
(***************************************************************************)
\* The data, without the flags: the provers take the two apart.
FlagsOK == faulted \in BOOLEAN /\ cut \in BOOLEAN /\ untold \in BOOLEAN

DataOK ==
    /\ compose \in Contents
    /\ backups \in Seq(Contents)
    /\ running \in Files
    /\ agent \in {"off", "idle", "fetched", "checked", "copying", "backed",
                  "replaced", "cleared", "direct"}
    /\ new \in Files
    /\ backup \in 0..Len(backups)
    /\ helper \in {"none", "up", "watch", "rollback", "restoring", "again", "report", "exited"}
    /\ argument \in 0..Len(backups)
    /\ reported \in { Version[f] : f \in Contents }
    /\ pushes \in 0..MaxPushes

LEMMA TypeParts == TypeOK <=> DataOK /\ FlagsOK
  BY DEF TypeOK, DataOK, FlagsOK

LEMMA TypeInit == Init => TypeOK
<1> SUFFICES ASSUME Init PROVE TypeOK
  OBVIOUS
<1>1. backups \in Seq(Contents)
  BY DEF Init
<1>2. compose \in Files
  BY OtaAssumption DEF Init
<1>3. backup \in 0..Len(backups) /\ argument \in 0..Len(backups)
  BY DEF Init
<1>4. pushes \in 0..MaxPushes
  BY OtaAssumption DEF Init
<1>5. reported \in { Version[f] : f \in Contents }
  BY <1>2 DEF Init, Contents
<1> QED BY <1>1, <1>2, <1>3, <1>4, <1>5 DEF Init, TypeOK, Contents

LEMMA FlagsNext == FlagsOK /\ [Next]_vars => FlagsOK'
<1> SUFFICES ASSUME FlagsOK, [Next]_vars
             PROVE  FlagsOK'
  OBVIOUS
<1> USE DEF FlagsOK, Fine, Happens, Cuts, Tells, told
<1>1. CASE \E f \in Files : Fetch(f)
  BY <1>1, Zenon DEF Fetch
<1>2. CASE Agent
  BY <1>2, Zenon DEF Agent, Validate, BackUp, BackUpEnds, Replace, ClearHelper, LaunchHelper,
     ApplyDirectly, AgentStarts
<1>3. CASE Helper
  BY <1>3, Zenon DEF Helper, HelperUps, HelperWatches, HelperRollsBack, HelperRestores,
     HelperUpsAgain, HelperReports, Up
<1>4. CASE PowerFails
  BY <1>4, Zenon DEF PowerFails
<1>5. CASE UNCHANGED vars
  BY <1>5, Zenon DEF vars
<1> QED BY <1>1, <1>2, <1>3, <1>4, <1>5 DEF Next

\* A rollback that is copying has a backup to copy from.
HasBackup == helper = "restoring" => Len(backups) # 0

LEMMA TypeNext == TypeOK /\ HasBackup /\ [Next]_vars => TypeOK' /\ HasBackup'
<1> SUFFICES ASSUME TypeOK, HasBackup, [Next]_vars
             PROVE  DataOK' /\ HasBackup'
  <2>1. TypeOK /\ [Next]_vars => FlagsOK'
    BY FlagsNext, TypeParts, Zenon
  <2>2. DataOK' /\ FlagsOK' => TypeOK'
    BY DEF TypeOK, DataOK, FlagsOK
  <2> QED BY <2>1, <2>2
<1> USE OtaAssumption DEF DataOK, HasBackup, Contents, files, agentVars, helperVars, told, AgentGoes
<1>0. DataOK
  BY TypeParts
<1>1. ASSUME NEW f \in Files, Fetch(f)
      PROVE  DataOK' /\ HasBackup'
  BY <1>0, <1>1 DEF Fetch
<1>2. CASE Validate
  BY <1>0, <1>2 DEF Validate
<1>3. CASE BackUp
  <2>1. /\ backups' \in Seq(Contents) /\ Len(backups') \in Nat
        /\ Len(backups') \in {Len(backups), Len(backups) + 1} /\ Len(backups) \in Nat
    BY <1>0, <1>3, Appended DEF BackUp
  <2> QED BY <1>0, <1>3, <2>1 DEF BackUp
<1>3a. CASE BackUpEnds
  <2>1. backups' \in Seq(Contents) /\ Len(backups') = Len(backups)
    BY <1>0, <1>3a, Rewritten DEF BackUpEnds
  <2>2. /\ UNCHANGED <<compose, running, new, helper, argument, reported, pushes>>
        /\ backup' \in {0, backup} /\ agent' = "backed"
    BY <1>3a DEF BackUpEnds
  <2> QED BY <1>0, <2>1, <2>2
<1>4. CASE Replace
  BY <1>0, <1>4 DEF Replace
<1>5. CASE ClearHelper
  BY <1>0, <1>5 DEF ClearHelper
<1>6. CASE LaunchHelper
  BY <1>0, <1>6 DEF LaunchHelper
<1>7. CASE ApplyDirectly
  BY <1>0, <1>7 DEF ApplyDirectly, Ups
<1>8. CASE AgentStarts
  BY <1>0, <1>8 DEF AgentStarts, Tells
<1>9. CASE HelperUps \/ HelperUpsAgain
  BY <1>0, <1>9 DEF HelperUps, HelperUpsAgain, Up, Ups
<1>10. CASE HelperWatches
  BY <1>0, <1>10 DEF HelperWatches
<1>11. CASE HelperRollsBack
  BY <1>0, <1>11 DEF HelperRollsBack, Chosen
<1>11a. CASE HelperRestores
  <2>1. backups[Chosen] \in Contents
    BY <1>0, <1>11a, Indexed DEF HelperRestores, Chosen
  <2> QED BY <1>0, <1>11a, <2>1 DEF HelperRestores
<1>12. CASE HelperReports
  BY <1>0, <1>12 DEF HelperReports, Tells
<1>13. CASE PowerFails
  BY <1>0, <1>13 DEF PowerFails
<1>14. CASE UNCHANGED vars
  BY <1>0, <1>14 DEF vars
<1> QED BY <1>1, <1>2, <1>3, <1>3a, <1>4, <1>5, <1>6, <1>7, <1>8, <1>9, <1>10, <1>11,
           <1>11a, <1>12, <1>13, <1>14 DEF Next, Agent, Helper

(* Every variable keeps its type: in particular the backup the agent holds *)
(* and the one it gave the helper are among those on disk.                 *)
THEOREM TypeCorrect == Spec => []TypeOK
<1>1. Init => TypeOK /\ HasBackup
  BY TypeInit DEF Init, HasBackup
<1>2. (TypeOK /\ HasBackup) /\ [Next]_vars => (TypeOK /\ HasBackup)'
  BY TypeNext
<1> QED BY <1>1, <1>2, PTL DEF Spec

(***************************************************************************)
(* Only valid files.                                                       *)
(***************************************************************************)
LEMMA ValidInit == Init => ValidKept
<1> SUFFICES ASSUME Init PROVE ValidKept
  OBVIOUS
<1>1. compose \in Valid /\ Len(backups) = 0
  BY OtaAssumption DEF Init
<1> QED BY <1>1 DEF Init, ValidKept, OnlyValidFiles

\* Cut short is cut short for ever.
LEMMA CutStays == FlagsOK /\ [Next]_vars => (cut => cut')
<1> SUFFICES ASSUME FlagsOK, [Next]_vars, cut
             PROVE  cut'
  OBVIOUS
<1> USE DEF Cuts
<1>1. CASE \E f \in Files : Fetch(f)
  BY <1>1, Zenon DEF Fetch
<1>2. CASE Agent
  BY <1>2, Zenon DEF Agent, Validate, BackUp, BackUpEnds, Replace, ClearHelper, LaunchHelper,
     ApplyDirectly, AgentStarts
<1>3. CASE Helper
  BY <1>3, Zenon DEF Helper, HelperUps, HelperWatches, HelperRollsBack, HelperRestores,
     HelperUpsAgain, HelperReports, Up
<1>4. CASE PowerFails
  BY <1>4, Zenon DEF PowerFails
<1>5. CASE UNCHANGED vars
  BY <1>5, Zenon DEF vars
<1> QED BY <1>1, <1>2, <1>3, <1>4, <1>5 DEF Next

LEMMA ValidNext == TypeOK /\ ValidKept /\ [Next]_vars => ValidKept'
<1> SUFFICES ASSUME TypeOK, ValidKept, [Next]_vars
             PROVE  ValidKept'
  OBVIOUS
<1>c. cut => cut'
  BY CutStays, TypeParts, Zenon
<1> USE DEF ValidKept, OnlyValidFiles, SoundBackup, files, agentVars, helperVars, AgentGoes
<1>1. ASSUME NEW f \in Files, Fetch(f)
      PROVE  ValidKept'
  BY <1>1 DEF Fetch
<1>2. CASE Validate
  BY <1>2 DEF Validate
<1>3. CASE BackUp
  <2>1. CASE agent' = "copying"
    \* The last backup, still empty, is the one being copied.
    <3>1. /\ Len(backups') = Len(backups) + 1 /\ Len(backups) \in Nat
          /\ backups'[Len(backups) + 1] = Torn
          /\ \A i \in 1..Len(backups) : backups'[i] = backups[i]
      BY <1>3, <2>1, Appended DEF BackUp, TypeOK, Contents
    <3>2. backup' = Len(backups) + 1 /\ agent = "checked" /\ UNCHANGED <<compose, helper, cut, new>>
      BY <1>3, <2>1, <3>1 DEF BackUp
    <3>3. \A i \in 1..Len(backups') : SoundBackup(i)'
      BY <2>1, <3>1, <3>2
    <3> QED BY <2>1, <3>1, <3>2, <3>3
  <2>2. CASE agent' # "copying"
    BY <1>3, <2>2 DEF BackUp
  <2> QED BY <2>1, <2>2
<1>4. CASE BackUpEnds
  <2>1. backup \in 1..Len(backups) /\ agent = "copying" /\ agent' = "backed" /\ compose \in Contents
    BY <1>4 DEF BackUpEnds, TypeOK
  <2>2. UNCHANGED <<compose, helper, new>>
    BY <1>4 DEF BackUpEnds
  <2>3. CASE backups' = [backups EXCEPT ![backup] = compose] /\ Cuts(helper = "restoring")
    <3>1. /\ Len(backups') = Len(backups)
          /\ \A i \in 1..Len(backups) : backups'[i] = IF i = backup THEN compose ELSE backups[i]
      BY <2>1, <2>3, Rewritten DEF TypeOK
    <3>2. helper = "restoring" => cut'
      BY <2>3 DEF Cuts
    <3>3. compose \in Valid \/ (compose = Torn /\ cut')
      BY <1>c, <3>2
    <3> QED BY <1>c, <2>1, <2>2, <3>1, <3>3
  <2>4. CASE UNCHANGED backups /\ Cuts(TRUE)
    <3>1. cut'
      BY <2>4 DEF Cuts
    <3> QED BY <2>1, <2>2, <2>4, <3>1
  <2> QED BY <1>4, <2>3, <2>4 DEF BackUpEnds
<1>5. CASE Replace
  BY <1>5 DEF Replace
<1>6. CASE ClearHelper
  <2>1. CASE helper' = "none" /\ Cuts(helper = "restoring")
    <3>1. helper = "restoring" => cut'
      BY <2>1 DEF Cuts
    <3> QED BY <1>c, <1>6, <3>1 DEF ClearHelper
  <2>2. CASE UNCHANGED <<helper, cut>>
    BY <1>6, <2>2 DEF ClearHelper
  <2> QED BY <1>6, <2>1, <2>2 DEF ClearHelper
<1>7. CASE LaunchHelper
  BY <1>7 DEF LaunchHelper, HelperAtWork
<1>8. CASE ApplyDirectly \/ AgentStarts
  BY <1>8 DEF ApplyDirectly, AgentStarts
<1>9. CASE HelperUps \/ HelperUpsAgain
  <2>1. /\ helper \in {"up", "again"} /\ helper' # "restoring"
        /\ UNCHANGED <<compose, backups, new, backup>>
    BY <1>9 DEF HelperUps, HelperUpsAgain
  <2>2. agent' \in {agent, "off"} /\ (agent = "copying" /\ agent' = "off" => cut')
    BY <1>9 DEF HelperUps, HelperUpsAgain, Up, Cuts
  <2> QED BY <1>c, <2>1, <2>2
<1>10. CASE HelperWatches \/ HelperReports
  BY <1>10 DEF HelperWatches, HelperReports
<1>11. CASE HelperRollsBack
  BY <1>11 DEF HelperRollsBack, Chosen, TypeOK
<1>12. CASE HelperRestores
  <2>1. /\ helper = "restoring" /\ helper' \in {"again", "exited"}
        /\ UNCHANGED <<agent, new, backup, backups>>
    BY <1>12 DEF HelperRestores
  <2>2. CASE compose' = backups[Chosen] /\ Cuts(agent = "copying" /\ backup = Chosen)
    \* Whichever backup it takes, it was a compose file once.
    <3>1. Chosen \in 1..Len(backups)
      BY <1>12 DEF HelperRestores, Chosen, TypeOK
    <3>2. agent = "copying" /\ backup = Chosen => cut'
      BY <2>2 DEF Cuts
    <3>3. SoundBackup(Chosen)
      BY <3>1
    <3>4. compose' \in Valid \/ (compose' = Torn /\ cut')
      BY <1>c, <2>2, <3>2, <3>3
    <3> QED BY <1>c, <2>1, <3>4
  <2>3. CASE UNCHANGED compose /\ Cuts(TRUE)
    <3>1. cut'
      BY <2>3 DEF Cuts
    <3> QED BY <2>1, <2>3, <3>1
  <2> QED BY <1>12, <2>2, <2>3 DEF HelperRestores
<1>13. CASE PowerFails
  <2>1. agent = "copying" \/ helper = "restoring" => cut'
    BY <1>13 DEF PowerFails, Cuts
  <2> QED BY <1>c, <1>13, <2>1 DEF PowerFails
<1>14. CASE UNCHANGED vars
  BY <1>14 DEF vars
<1> QED BY <1>1, <1>2, <1>3, <1>4, <1>5, <1>6, <1>7, <1>8, <1>9, <1>10, <1>11, <1>12, <1>13,
           <1>14 DEF Next, Agent, Helper

LEMMA StaysValid == Spec => []ValidKept
<1>1. Init => ValidKept
  BY ValidInit
<1>2. TypeOK /\ ValidKept /\ [Next]_vars => ValidKept'
  BY ValidNext
<1> QED BY <1>1, <1>2, TypeCorrect, PTL DEF Spec

(* The device's compose file is one docker compose accepts, or what a copy *)
(* has made of one: while a rollback is copying, or after a copy was cut   *)
(* short.  No malformed push becomes the compose file, whatever fails,     *)
(* however many updates overlap and whichever backup is put back; and with *)
(* every copy completed, no truncated file does either.                    *)
THEOREM OnlyValid == Spec => []OnlyValidFiles
<1>1. ValidKept => OnlyValidFiles
  BY DEF ValidKept, OnlyValidFiles
<1> QED BY <1>1, StaysValid, PTL

(***************************************************************************)
(* Taking turns.                                                           *)
(***************************************************************************)
\* What has gone wrong stays so.
LEMMA FaultedStays == TypeOK /\ [Next]_vars /\ faulted = TRUE => faulted' = TRUE
<1> SUFFICES ASSUME FlagsOK, FlagsOK', [Next]_vars, faulted
             PROVE  faulted'
  BY FlagsNext, TypeParts, Zenon DEF FlagsOK
<1> USE DEF FlagsOK, Fine, Happens
<1>1. CASE \E f \in Files : Fetch(f)
  BY <1>1, Zenon DEF Fetch
<1>2. CASE Agent
  BY <1>2, Zenon DEF Agent, Validate, BackUp, BackUpEnds, Replace, ClearHelper, LaunchHelper,
     ApplyDirectly, AgentStarts
<1>3. CASE Helper
  BY <1>3, Zenon DEF Helper, HelperUps, HelperWatches, HelperRollsBack, HelperRestores,
     HelperUpsAgain, HelperReports, Up
<1>4. CASE PowerFails
  BY <1>4, Zenon DEF PowerFails
<1>5. CASE UNCHANGED vars
  BY <1>5, Zenon DEF vars
<1> QED BY <1>1, <1>2, <1>3, <1>4, <1>5 DEF Next

LEMMA InTurnInit == Init => InTurn /\ Reported
  BY DEF Init, InTurn, Reported, HelperAtWork, HandsOver

LEMMA InTurnNext ==
  ASSUME TypeOK, InTurn, [Next]_vars, ~faulted'
  PROVE  InTurn'
<1> USE DEF InTurn, HandsOver, HelperAtWork, files, agentVars, helperVars, AgentGoes, Fine,
            Happens
<1>1. ASSUME NEW f \in Files, Fetch(f)
      PROVE  InTurn'
  BY <1>1 DEF Fetch
<1>2. CASE Validate
  BY <1>2 DEF Validate
<1>3. CASE BackUp
  <2>1. Len(backups') = Len(backups) + 1 /\ Len(backups) \in Nat
    BY <1>3, Appended DEF BackUp, TypeOK, Contents
  <2> QED BY <1>3, <2>1 DEF BackUp
<1>3a. CASE BackUpEnds
  <2>1. /\ agent = "copying" /\ agent' = "backed" /\ UNCHANGED <<compose, helperVars>>
        /\ backup' = backup /\ backups' = [backups EXCEPT ![backup] = compose]
    BY <1>3a DEF BackUpEnds
  <2>2. backup \in 1..Len(backups)
    BY <2>1 DEF TypeOK
  <2>3. backups'[backup'] = compose'
    BY <2>1, <2>2, Rewritten DEF TypeOK
  <2> QED BY <2>1, <2>2, <2>3
<1>4. CASE Replace
  BY <1>4 DEF Replace
<1>5. CASE ClearHelper
  BY <1>5 DEF ClearHelper
<1>6. CASE LaunchHelper
  BY <1>6 DEF LaunchHelper
<1>7. CASE ApplyDirectly \/ AgentStarts
  BY <1>7 DEF ApplyDirectly, AgentStarts
<1>8. CASE HelperUps \/ HelperUpsAgain
  BY <1>8 DEF HelperUps, HelperUpsAgain, Up, Ups
<1>9. CASE HelperWatches \/ HelperRollsBack \/ HelperRestores \/ HelperReports
  BY <1>9 DEF HelperWatches, HelperRollsBack, HelperRestores, HelperReports
<1>10. CASE PowerFails
  \* Nothing is on trial.
  <2>1. ~HandsOver /\ ~HelperAtWork /\ agent' = "off" /\ helper' = helper
    BY <1>10, Zenon DEF PowerFails
  <2> QED BY <1>10, <2>1 DEF PowerFails
<1>11. CASE UNCHANGED vars
  BY <1>11 DEF vars
<1> QED BY <1>1, <1>2, <1>3, <1>3a, <1>4, <1>5, <1>6, <1>7, <1>8, <1>9, <1>10, <1>11
        DEF Next, Agent, Helper

LEMMA ReportedNext ==
  ASSUME TypeOK, InTurn, Reported, [Next]_vars, ~faulted'
  PROVE  Reported'
<1> USE DEF InTurn, Reported, HandsOver, HelperAtWork, files, agentVars, helperVars, told,
            AgentGoes, Fine, Happens
<1>1. ASSUME NEW f \in Files, Fetch(f)
      PROVE  Reported'
  BY <1>1 DEF Fetch
<1>2. CASE Validate \/ BackUp \/ BackUpEnds
  BY <1>2 DEF Validate, BackUp, BackUpEnds
<1>3. CASE Replace \/ ClearHelper \/ LaunchHelper
  \* The file and the report part here; the helper is launched before long.
  BY <1>3 DEF Replace, ClearHelper, LaunchHelper
<1>4. CASE ApplyDirectly \/ AgentStarts
  BY <1>4 DEF ApplyDirectly, AgentStarts, Tells
<1>5. CASE HelperUps \/ HelperUpsAgain
  BY <1>5 DEF HelperUps, HelperUpsAgain, Up
<1>6. CASE HelperWatches \/ HelperRollsBack \/ HelperRestores \/ HelperReports
  BY <1>6 DEF HelperWatches, HelperRollsBack, HelperRestores, HelperReports, Tells
<1>7. CASE PowerFails
  <2>1. ~HandsOver /\ ~HelperAtWork
    BY <1>7, Zenon DEF PowerFails
  <2> QED BY <1>7, <2>1 DEF PowerFails
<1>8. CASE UNCHANGED vars
  BY <1>8 DEF vars
<1> QED BY <1>1, <1>2, <1>3, <1>4, <1>5, <1>6, <1>7, <1>8 DEF Next, Agent, Helper

\* The inductive invariant of the last two theorems.
Untroubled == ~faulted => InTurn /\ Reported

LEMMA UntroubledInit == Init => Untroubled
  BY InTurnInit DEF Untroubled

LEMMA UntroubledNext == TypeOK /\ Untroubled /\ [Next]_vars => Untroubled'
<1> SUFFICES ASSUME TypeOK, Untroubled, [Next]_vars, ~faulted'
             PROVE  InTurn' /\ Reported'
  BY DEF Untroubled
<1>1. ~faulted
  BY FaultedStays, Zenon DEF TypeOK
<1>2. InTurn /\ Reported
  BY <1>1 DEF Untroubled
<1> QED BY <1>2, InTurnNext, ReportedNext

LEMMA StaysUntroubled == Spec => []Untroubled
<1>1. Init => Untroubled
  BY UntroubledInit
<1>2. TypeOK /\ Untroubled /\ [Next]_vars => Untroubled'
  BY UntroubledNext
<1> QED BY <1>1, <1>2, TypeCorrect, PTL DEF Spec

(* Once no update is under way the cloud has been told the version that is *)
(* in the compose file, unless the last report was lost, for any updates,  *)
(* whether they were kept or rolled back, through power cuts that hit no   *)
(* trial, as long as nothing else went wrong outside the stack.            *)
THEOREM TrueReport == Spec => []ReportIsTrue
<1>1. Untroubled => ReportIsTrue
  BY DEF Untroubled, Reported, HandsOver, ReportIsTrue, AtRest
<1> QED BY <1>1, StaysUntroubled, PTL

(***************************************************************************)
(* The refinement of ComposeUpdate.                                        *)
(***************************************************************************)
LEMMA ContractInit == Init => Contract!Init
  BY DEF Init, Contract!Init, live, trial, HandsOver

\* A step that nothing goes wrong in begins a trial, ends one or changes neither.
LEMMA ContractStep ==
  ASSUME TypeOK, TypeOK', ValidKept, InTurn, [Next]_vars, ~faulted, ~faulted'
  PROVE  UNCHANGED <<live, trial>> \/ Contract!Begin \/ Contract!Commit \/ Contract!Revert
<1> USE DEF InTurn, HandsOver, HelperAtWork, files, agentVars, helperVars, AgentGoes, Fine,
            Happens, trial, live
<1>1. new # None /\ new' # None
  BY OtaAssumption DEF TypeOK
<1>2. ASSUME NEW f \in Files, Fetch(f)
      PROVE  UNCHANGED <<live, trial>>
  BY <1>2 DEF Fetch
<1>3. CASE Validate
  BY <1>3 DEF Validate
<1>4. CASE BackUp \/ BackUpEnds
  BY <1>4 DEF BackUp, BackUpEnds
<1>5. CASE Replace
  <2>1. trial = None /\ live = compose /\ ~HelperAtWork
    BY <1>5 DEF Replace
  <2>2. CASE agent' = "replaced"
    \* The trial begins: the backup is what was in the file until now.
    <3>1. trial' = new /\ live' = backups[backup]
      BY <1>1, <1>5, <2>2 DEF Replace
    <3>2. new \in Valid /\ backups[backup] = compose
      BY <1>5 DEF Replace, ValidKept
    <3> QED BY <2>1, <3>1, <3>2 DEF Contract!Begin
  <2>3. CASE agent' = "idle"
    BY <1>5, <2>1, <2>3 DEF Replace
  <2> QED BY <1>5, <2>2, <2>3 DEF Replace
<1>6. CASE ClearHelper
  BY <1>6 DEF ClearHelper
<1>7. CASE LaunchHelper
  BY <1>7 DEF LaunchHelper
<1>8. CASE ApplyDirectly \/ AgentStarts
  BY <1>8 DEF ApplyDirectly, AgentStarts
<1>9. CASE HelperUps \/ HelperUpsAgain
  BY <1>9 DEF HelperUps, HelperUpsAgain, Up
<1>10. CASE HelperWatches
  <2>1. CASE helper' = "rollback"
    BY <1>10, <2>1 DEF HelperWatches
  <2>2. CASE helper' = "report"
    \* The stack that was watched is that of the file, so the file works.
    <3>1. trial = new /\ new \in Works /\ trial' = None /\ live' = new
      BY <1>1, <1>10, <2>2 DEF HelperWatches
    <3> QED BY <3>1 DEF Contract!Commit
  <2> QED BY <1>10, <2>1, <2>2 DEF HelperWatches
<1>11. CASE HelperRollsBack
  <2>1. helper = "rollback" /\ argument # 0 /\ ~HandsOver
    BY <1>11 DEF HelperRollsBack
  <2>2. helper' = "restoring" /\ UNCHANGED <<backups, agent, new, backup, argument>>
    BY <1>11, <2>1 DEF HelperRollsBack, Chosen
  <2> QED BY <1>1, <2>1, <2>2
<1>11a. CASE HelperRestores
  \* The helper was given the backup the agent made of the old file.
  <2>1. /\ trial = new /\ live = backups[argument]
        /\ trial' = None /\ live' = backups[argument]
    BY <1>1, <1>11a DEF HelperRestores, Chosen
  <2> QED BY <1>1, <2>1 DEF Contract!Revert
<1>12. CASE HelperReports
  BY <1>12 DEF HelperReports
<1>13. CASE PowerFails
  <2>1. ~HandsOver /\ ~HelperAtWork
    BY <1>13, Zenon DEF PowerFails
  <2> QED BY <1>13, <2>1 DEF PowerFails
<1>14. CASE UNCHANGED vars
  BY <1>14 DEF vars
<1> QED BY <1>2, <1>3, <1>4, <1>5, <1>6, <1>7, <1>8, <1>9, <1>10, <1>11, <1>11a, <1>12, <1>13,
           <1>14
        DEF Next, Agent, Helper

LEMMA ContractNext ==
  ASSUME TypeOK, TypeOK', ValidKept, Untroubled, [Next]_vars
  PROVE  [Contract!Next]_Contract!vars
<1>1. CASE faulted'
  BY <1>1 DEF Contract!Next, Contract!Void
<1>2. CASE ~faulted'
  <2>1. ~faulted
    BY <1>2, FaultedStays, Zenon DEF TypeOK
  <2>2. InTurn
    BY <2>1 DEF Untroubled
  <2>3. UNCHANGED <<live, trial>> \/ Contract!Begin \/ Contract!Commit \/ Contract!Revert
    BY <1>2, <2>1, <2>2, ContractStep
  <2> QED BY <1>2, <2>1, <2>3 DEF Contract!Next, Contract!vars
<1> QED BY <1>1, <1>2

(* The agent and its helper together implement ComposeUpdate: a new file   *)
(* is on trial with the old one to fall back to, and only a file whose     *)
(* stack stayed up becomes the device's file.  Power cuts that hit no      *)
(* trial and lost reports are covered; any other fault, and a power cut    *)
(* during a trial, voids the contract, and nothing is claimed after it.    *)
THEOREM Implements == Spec => KeepsContract
<1>1. Init => Contract!Init
  BY ContractInit
<1>2. TypeOK /\ TypeOK' /\ ValidKept /\ Untroubled /\ [Next]_vars
        => [Contract!Next]_Contract!vars
  BY ContractNext
<1> QED BY <1>1, <1>2, TypeCorrect, StaysValid, StaysUntroubled, PTL
        DEF Spec, KeepsContract, Contract!Spec

(***************************************************************************)
(* What the contract is worth.                                             *)
(***************************************************************************)
\* The file the device falls back to works: the compose file itself, or, while one
\* is on trial, the backup a rollback would put back.
FallsBackToWorking == ~faulted => live \in Works

LEMMA LiveKept == FallsBackToWorking /\ [Contract!Next]_Contract!vars => FallsBackToWorking'
<1> SUFFICES ASSUME FallsBackToWorking, [Contract!Next]_Contract!vars, ~faulted'
             PROVE  live' \in Works
  BY DEF FallsBackToWorking
<1>1. CASE Contract!Next
  <2>1. ~faulted /\ (Contract!Begin \/ Contract!Commit \/ Contract!Revert)
    BY <1>1 DEF Contract!Next, Contract!Void
  <2> QED BY <2>1 DEF FallsBackToWorking, Contract!Begin, Contract!Commit, Contract!Revert
<1>2. CASE UNCHANGED Contract!vars
  BY <1>2 DEF Contract!vars, FallsBackToWorking
<1> QED BY <1>1, <1>2

(* README, Security: an update that does not work never replaces the file  *)
(* that does.  What follows from the refinement: as long as nothing goes   *)
(* wrong outside the stack, the compose file works whenever none is on     *)
(* trial, and during a trial it is the backup in use that does, after any  *)
(* number of updates, good, bad and malformed.                             *)
THEOREM WorkingFileKept == Spec => []FallsBackToWorking
<1>1. Init => FallsBackToWorking
  BY ContractInit DEF Contract!Init, FallsBackToWorking
<1>2. KeepsContract => [][Contract!Next]_Contract!vars
  BY PTL DEF KeepsContract, Contract!Spec
<1> QED BY <1>1, <1>2, LiveKept, Implements, PTL DEF Spec

(***************************************************************************)
(* Every update ends.                                                      *)
(***************************************************************************)
\* The steps an update may still take: those of the agent, which counts what it
\* hands over to the helper, and those of the helper, each of which may cost the
\* agent a restart.
AgentSteps == [fetched |-> 18, checked |-> 17, copying |-> 16, backed |-> 15,
               replaced |-> 14, cleared |-> 13, direct |-> 2, off |-> 1, idle |-> 0]

HelperSteps == [up |-> 12, watch |-> 10, rollback |-> 8, restoring |-> 6, again |-> 4,
                report |-> 2, none |-> 0, exited |-> 0]

Left == AgentSteps[agent] + HelperSteps[helper]

FewerLeft == [][(\E f \in Files : Fetch(f)) \/ PowerFails \/ Left' < Left]_vars

LEMMA StepsLeft ==
  ASSUME NEW a \in DOMAIN AgentSteps, NEW h \in DOMAIN HelperSteps
  PROVE  /\ AgentSteps[a] \in 0..18 /\ HelperSteps[h] \in 0..12
         /\ AgentSteps["off"] <= AgentSteps[a] + 1
  BY DEF AgentSteps, HelperSteps

LEMMA LeftAgent == TypeOK /\ Agent => Left' < Left
<1> SUFFICES ASSUME TypeOK, Agent
             PROVE  Left' < Left
  OBVIOUS
<1>h. agent \in DOMAIN AgentSteps /\ helper \in DOMAIN HelperSteps
  BY DEF TypeOK, AgentSteps, HelperSteps
<1>1. ASSUME UNCHANGED helper, AgentSteps[agent'] < AgentSteps[agent],
             agent' \in DOMAIN AgentSteps
      PROVE  Left' < Left
  <2>1. AgentSteps[agent] \in Nat /\ HelperSteps[helper] \in Nat
    BY <1>h, StepsLeft
  <2>2. AgentSteps[agent'] \in Nat
    BY <1>1, <1>h, StepsLeft
  <2>3. Left' = AgentSteps[agent'] + HelperSteps[helper]
    BY <1>1 DEF Left
  <2> QED BY <1>1, <2>1, <2>2, <2>3 DEF Left
<1>2. CASE Validate \/ BackUp \/ BackUpEnds
  <2>1. /\ UNCHANGED helper
        /\ \/ agent = "fetched" /\ agent' \in {"checked", "idle"}
           \/ agent = "checked" /\ agent' \in {"copying", "backed"}
           \/ agent = "copying" /\ agent' = "backed"
    BY <1>2 DEF Validate, BackUp, BackUpEnds, AgentGoes, helperVars
  <2> QED BY <1>1, <2>1 DEF AgentSteps
<1>2a. CASE Replace
  <2>1. CASE UNCHANGED helper
    BY <1>1, <1>2a, <2>1 DEF Replace, AgentGoes, AgentSteps
  <2>2. CASE agent = "backed" /\ agent' = "replaced" /\ helper = "restoring" /\ helper' = "again"
    BY <2>2 DEF Left, AgentSteps, HelperSteps
  <2> QED BY <1>2a, <2>1, <2>2 DEF Replace, AgentGoes
<1>3. CASE ClearHelper
  <2>1. CASE agent = "replaced" /\ agent' = "cleared" /\ helper' = "none"
    BY <2>1, <1>h DEF Left, AgentSteps, HelperSteps
  <2>2. CASE agent = "replaced" /\ agent' \in {"direct", "idle"} /\ UNCHANGED helper
    BY <1>1, <2>2 DEF AgentSteps
  <2> QED BY <1>3, <2>1, <2>2 DEF ClearHelper, AgentGoes
<1>4. CASE LaunchHelper
  <2>1. CASE helper' = "up"
    BY <1>4, <1>h, <2>1 DEF LaunchHelper, AgentGoes, Left, AgentSteps, HelperSteps
  <2>2. CASE UNCHANGED helper
    BY <1>1, <1>4, <2>2 DEF LaunchHelper, AgentGoes, AgentSteps
  <2> QED BY <1>4, <2>1, <2>2 DEF LaunchHelper, helperVars
<1>5. CASE ApplyDirectly \/ AgentStarts
  <2>1. /\ UNCHANGED helper
        /\ \/ agent = "direct" /\ agent' \in {"idle", "off"}
           \/ agent = "off" /\ agent' = "idle"
    BY <1>5 DEF ApplyDirectly, AgentStarts, AgentGoes, helperVars
  <2> QED BY <1>1, <2>1 DEF AgentSteps
<1> QED BY <1>2, <1>2a, <1>3, <1>4, <1>5 DEF Agent

LEMMA LeftHelper == TypeOK /\ Helper => Left' < Left
<1> SUFFICES ASSUME TypeOK, Helper
             PROVE  Left' < Left
  OBVIOUS
<1>1. agent' \in {agent, "off"}
  BY DEF Helper, HelperUps, HelperWatches, HelperRollsBack, HelperRestores, HelperUpsAgain,
         HelperReports, Up, agentVars
<1>2. /\ helper \in {"up", "watch", "rollback", "restoring", "again", "report"}
      /\ helper' \in {"watch", "rollback", "restoring", "again", "report", "exited"}
      /\ HelperSteps[helper'] + 2 <= HelperSteps[helper]
  <2>1. \/ helper = "up" /\ helper' \in {"watch", "rollback"}
        \/ helper = "watch" /\ helper' \in {"report", "rollback"}
        \/ helper = "rollback" /\ helper' \in {"restoring", "report", "exited"}
        \/ helper = "restoring" /\ helper' \in {"again", "exited"}
        \/ helper = "again" /\ helper' = "report"
        \/ helper = "report" /\ helper' = "exited"
    BY DEF Helper, HelperUps, HelperWatches, HelperRollsBack, HelperRestores, HelperUpsAgain,
           HelperReports
  <2> QED BY <2>1 DEF HelperSteps
<1>3. /\ AgentSteps[agent] \in 0..18 /\ AgentSteps[agent'] \in 0..18
      /\ AgentSteps[agent'] <= AgentSteps[agent] + 1
      /\ HelperSteps[helper] \in 0..12 /\ HelperSteps[helper'] \in 0..12
  <2>1. agent \in DOMAIN AgentSteps /\ {helper, helper'} \subseteq DOMAIN HelperSteps
    BY <1>2 DEF TypeOK, AgentSteps, HelperSteps
  <2>2. AgentSteps[agent] \in 0..18 /\ AgentSteps["off"] <= AgentSteps[agent] + 1
    BY <1>2, <2>1, StepsLeft
  <2>3. AgentSteps["off"] = 1
    BY DEF AgentSteps
  <2>4. HelperSteps[helper] \in 0..12
    BY <1>2, <2>1, StepsLeft
  <2>5. HelperSteps[helper'] \in 0..12
    BY <1>2, <2>1, StepsLeft
  <2> QED BY <1>1, <2>2, <2>3, <2>4, <2>5
<1> QED BY <1>2, <1>3 DEF Left

(* An action property, the safety half of UpdateEnds: every step of agent  *)
(* or helper, whichever takes it and whatever fails in it, leaves fewer    *)
(* steps to take.  A rollback is not rolled back, a restarted agent does   *)
(* not resume the update, and a helper is not launched twice: between one  *)
(* push or power cut and the next there are at most 30 steps.              *)
THEOREM UpdatesRunOut == Spec => [](Left \in 0..30) /\ FewerLeft
<1>1. TypeOK /\ [Next]_vars => [(\E f \in Files : Fetch(f)) \/ PowerFails \/ Left' < Left]_vars
  BY LeftAgent, LeftHelper DEF Next
<1>2. TypeOK => Left \in 0..30
  <2> SUFFICES ASSUME TypeOK PROVE Left \in 0..30
    OBVIOUS
  <2>1. agent \in DOMAIN AgentSteps /\ helper \in DOMAIN HelperSteps
    BY DEF TypeOK, AgentSteps, HelperSteps
  <2>2. AgentSteps[agent] \in 0..18 /\ HelperSteps[helper] \in 0..12
    BY <2>1, StepsLeft
  <2> QED BY <2>2 DEF Left
<1> QED BY <1>1, <1>2, TypeCorrect, PTL DEF Spec, FewerLeft
==============================================================================
