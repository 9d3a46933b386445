----------------------------- MODULE BleSession -----------------------------
(***************************************************************************)
(* A BLE provisioning session of the agent (ble_provisioning.py            *)
(* ProvisioningSession): the app stages fields with "set" and asks for a   *)
(* "connect", which joins a network through NetworkManager, saves the      *)
(* identity and restarts the bridge.                                       *)
(*                                                                         *)
(* The session is one asyncio loop: an action is what a handler or a task  *)
(* does up to its next await.  Each connect is a task of its own, and a    *)
(* second one may come while the first is under way.  The restart of the   *)
(* bridge runs in a thread, which the end of a session waits for.          *)
(*                                                                         *)
(* The token stands for itself and the host that comes with it, a network  *)
(* for its name and password, ip for the static addresses.                 *)
(***************************************************************************)
EXTENDS Naturals

CONSTANTS
    Tokens,    \* Blynk tokens of the right length
    Bad,       \* one that is not
    Networks,  \* WiFi networks, with passwords
    Sets,      \* what the app may set, as functions on some of the fields
    Tasks,     \* bound: connects that may be under way at once
    None,
    MaxEvents  \* bound: what the app, the process and the networks do

Fields == {"blynk", "if", "ssid", "ip", "pin"}
FieldValues ==
    [blynk |-> Tokens \union {Bad}, if |-> {"wifi", "cell", "eth"}, ssid |-> Networks,
     ip |-> {TRUE}, pin |-> {TRUE}]

ASSUME BleAssumption ==
    /\ Bad \notin Tokens /\ None \notin Tokens \union {Bad} \union Networks
    /\ \A m \in Sets : /\ DOMAIN m \subseteq Fields
                       /\ \A f \in DOMAIN m : m[f] \in FieldValues[f]
    /\ Networks # {} /\ MaxEvents \in Nat

VARIABLES
    token,    \* config.auth_token
    saved,    \* the token in blynk.env
    session,  \* is a session open, is it being closed
    reprov,   \* reprovisioning, of the session that is open or comes next
    pending,  \* _pending: what was staged of each field, or None
    task,     \* what each connect is doing
    result,   \* _result
    done,     \* _done
    joined,   \* the network NetworkManager has joined with each device
    events

identity == <<token, saved>>
vars == <<identity, session, reprov, pending, task, result, done, joined, events>>

Devices == {"wifi", "cell"}
Nothing == [f \in Fields |-> None]
Free == [at |-> "free"]

TypeOK ==
    /\ token \in Tokens \union {None} /\ saved \in Tokens \union {None}
    /\ session \in {"off", "open", "closing"}
    /\ reprov \in BOOLEAN
    /\ \A f \in Fields : pending[f] \in FieldValues[f] \union {None}
    /\ \A i \in Tasks :
           task[i].at \in {"free", "spawned", "lookup", "compare", "profile", "call", "wait",
                           "failed", "joined", "restart", "connected", "raised"}
    /\ result \in BOOLEAN /\ done \in BOOLEAN
    /\ result => done
    /\ session = "off" => \A i \in Tasks : task[i] = Free
    /\ joined \in [Devices -> Networks \union {None}]
    /\ events \in 0..MaxEvents

Init ==
    /\ token \in Tokens \union {None} /\ saved = token
    /\ session = "off" /\ reprov = (token # None)
    /\ pending = Nothing
    /\ task = [i \in Tasks |-> Free]
    /\ result = FALSE /\ done = FALSE
    /\ joined \in [Devices -> Networks \union {None}]
    /\ joined["cell"] = None
    /\ events = 0

Happens == events < MaxEvents /\ events' = events + 1

Goes(i, to) == task' = [task EXCEPT ![i].at = to]

(***************************************************************************)
(* The session: provision and run.                                         *)
(***************************************************************************)
\* What is staged by itself: a device that has an identity keeps it.
Staged(again) == IF again THEN [Nothing EXCEPT !["blynk"] = token] ELSE Nothing

\* main opens one for a device without a token and waits for it; all others are
\* reprovisioning, opened by the watchdog of an agent that runs.
Opens ==
    /\ session = "off" /\ Happens
    /\ session' = "open"
    /\ pending' = Staged(reprov /\ token # None)
    /\ result' = FALSE /\ done' = FALSE
    /\ UNCHANGED <<identity, reprov, task, joined>>

\* The process starts: what counts is what was saved.
Starts == token' = saved /\ reprov' = (saved # None) /\ UNCHANGED saved

\* The tasks are cancelled, threads go on.
Cancelled == [i \in Tasks |-> IF task[i].at = "restart" THEN task[i] ELSE Free]

Ends ==
    /\ session = "open" /\ done
    /\ session' = "closing" /\ task' = Cancelled
    /\ UNCHANGED <<identity, reprov, pending, result, done, joined, events>>

\* INACTIVITY_TIMEOUT, counted from the start.
GivesUp ==
    /\ session = "open" /\ ~done /\ Happens
    /\ session' = "closing" /\ task' = Cancelled
    /\ UNCHANGED <<identity, reprov, pending, result, done, joined>>

\* After the first session main runs the agent, or exits and is started again.
GoesOn ==
    IF reprov \/ result THEN reprov' = TRUE /\ UNCHANGED identity ELSE Starts

\* A slip: the thread is not waited for.
ClosesAtOnce ==
    /\ session = "closing"
    /\ session' = "off" /\ GoesOn
    /\ UNCHANGED <<pending, task, result, done, joined, events>>

Closes ==
    /\ session = "closing" /\ \A i \in Tasks : task[i] = Free
    /\ session' = "off" /\ GoesOn
    /\ UNCHANGED <<pending, task, result, done, joined, events>>

\* A reboot that the app asks for, a crash or a power cut.
Reboots ==
    /\ session # "off" \/ token # saved
    /\ Happens
    /\ session' = "off" /\ task' = [i \in Tasks |-> Free] /\ Starts
    /\ pending' = Nothing /\ result' = FALSE /\ done' = FALSE
    /\ UNCHANGED joined

(***************************************************************************)
(* The messages of the app.                                                *)
(***************************************************************************)
Receives == session = "open" /\ Happens

HandleSet ==
    /\ Receives
    /\ \E m \in Sets :
           pending' = [f \in Fields |-> IF f \in DOMAIN m THEN m[f] ELSE pending[f]]
    /\ UNCHANGED <<identity, session, reprov, task, result, done, joined>>

\* Without a token of the right length the answer is connect_fail.
HandleConnect(i) ==
    /\ Receives /\ task[i] = Free
    /\ task' = IF pending["blynk"] \in Tokens
               THEN [task EXCEPT ![i] = [at |-> "spawned", blynk |-> pending["blynk"]]]
               ELSE task
    /\ UNCHANGED <<identity, session, reprov, pending, result, done, joined>>

Forget(fields) == pending' = [f \in Fields |-> IF f \in fields THEN None ELSE pending[f]]

\* A device that is provisioned again keeps its identity; from another it is
\* taken, even if the disk refuses to save that and the handler ends there.
HandleReset ==
    /\ Receives
    /\ \/ reprov /\ UNCHANGED identity /\ Forget(Fields \ {"blynk"})
       \/ ~reprov /\ token' = None /\ saved' = None /\ Forget(Fields \ {"blynk"})
       \/ ~reprov /\ token' = None /\ UNCHANGED <<saved, pending>>
    /\ UNCHANGED <<session, reprov, task, result, done, joined>>

\* A slip: what was staged goes, and the identity with it.
CentralDisconnectsClean ==
    /\ Receives
    /\ pending' = Nothing
    /\ UNCHANGED <<identity, session, reprov, task, result, done, joined>>

\* _watch_central_disconnect: connects that are under way go on.
CentralDisconnects ==
    /\ Receives
    /\ pending' = Staged(reprov /\ token # None)
    /\ UNCHANGED <<identity, session, reprov, task, result, done, joined>>

(***************************************************************************)
(* A connect: _do_connect.                                                 *)
(***************************************************************************)
\* The interface and the network are read now, not when the message came.
Start(i) ==
    /\ task[i].at = "spawned"
    /\ LET interface == pending["if"]
           device == IF interface = "cell" THEN "cell"
                     ELSE IF interface = "wifi" \/ (interface = None /\ pending["ssid"] # None)
                     THEN "wifi" ELSE "none"
       IN  task' = [task EXCEPT ![i] =
               [at |-> IF device = "none" THEN "joined" ELSE "lookup",
                blynk |-> task[i].blynk, device |-> device, skipped |-> FALSE, signal |-> None,
                ssid |-> IF device = "wifi" THEN pending["ssid"] ELSE None]]
    /\ UNCHANGED <<identity, session, reprov, pending, result, done, joined, events>>

\* The three steps that ask NetworkManager or ModemManager over D-Bus with no
\* limit on the wait: they may never return, and an error is net_fail.
AskFails(i) == Happens /\ Goes(i, "failed")

\* _connect_wifi and _connect_cellular: without the device, the modem or its
\* SIM card, or with a wrong PIN, there is nothing to try.
Lookup(i) ==
    /\ task[i].at = "lookup"
    /\ \/ AskFails(i)
       \/ /\ Goes(i, IF task[i].device = "wifi" /\ pending["ip"] = None
                     THEN "compare" ELSE "profile")
          /\ UNCHANGED events
    /\ UNCHANGED <<identity, session, reprov, pending, result, done, joined>>

\* "Already connected": the network that is joined now is the one asked for.
Compare(i) ==
    /\ task[i].at = "compare"
    /\ \/ AskFails(i)
       \/ /\ task' = IF joined["wifi"] = task[i].ssid
                      THEN [task EXCEPT ![i].at = "joined", ![i].skipped = TRUE]
                      ELSE [task EXCEPT ![i].at = "profile"]
          /\ UNCHANGED events
    /\ UNCHANGED <<identity, session, reprov, pending, result, done, joined>>

\* A profile of that name is replaced; one without a name cannot be made.
Profile(i) ==
    /\ task[i].at = "profile"
    /\ \/ AskFails(i)
       \/ /\ Goes(i, IF task[i].device = "wifi" /\ task[i].ssid = None THEN "failed" ELSE "call")
          /\ UNCHANGED events
    /\ joined' = IF task[i].device = "cell" THEN [joined EXCEPT !["cell"] = None]
                 ELSE IF joined["wifi"] = task[i].ssid THEN [joined EXCEPT !["wifi"] = None]
                 ELSE joined
    /\ UNCHANGED <<identity, session, reprov, pending, result, done>>

\* AddAndActivateConnection returns; it may hang instead.
CallReturns(i) ==
    /\ task[i].at = "call" /\ Goes(i, "wait")
    /\ UNCHANGED <<identity, session, reprov, pending, result, done, joined, events>>

Calling(device) ==
    { i \in Tasks : task[i].at \in {"call", "wait"} /\ task[i].device = device }

\* StateChanged is the device's: every connect that waits for it takes it as its own.
Signal(device, outcome) ==
    task' = [i \in Tasks |-> IF i \in Calling(device) THEN [task[i] EXCEPT !.signal = outcome]
                             ELSE task[i]]

Activates(device) ==
    /\ \E i \in Calling(device) :
           joined' = [joined EXCEPT ![device] = IF device = "wifi" THEN task[i].ssid
                                                ELSE CHOOSE n \in Networks : TRUE]
    /\ Signal(device, "ok")
    /\ UNCHANGED <<identity, session, reprov, pending, result, done, events>>

ActivationFails(device) ==
    /\ Calling(device) # {} /\ Happens
    /\ joined' = [joined EXCEPT ![device] = None]
    /\ Signal(device, "fail")
    /\ UNCHANGED <<identity, session, reprov, pending, result, done>>

\* A slip: only the wait for the signal is timed, not the call.
WaitEndsTimed(i) ==
    /\ \/ task[i].at = "wait" /\ task[i].signal = "ok" /\ Goes(i, "joined")
       \/ task[i].at = "wait" /\ task[i].signal = "fail" /\ Goes(i, "failed")
       \/ task[i].at = "wait" /\ task[i].signal = None /\ Goes(i, "failed")
    /\ UNCHANGED <<identity, session, reprov, pending, result, done, joined, events>>

\* The answer, or NM_CONNECT_TIMEOUT, which covers the call as well.
WaitEnds(i) ==
    /\ \/ task[i].at = "wait" /\ task[i].signal = "ok" /\ Goes(i, "joined")
       \/ task[i].at = "wait" /\ task[i].signal = "fail" /\ Goes(i, "failed")
       \/ /\ task[i].at = "call" \/ (task[i].at = "wait" /\ task[i].signal = None)
          /\ Goes(i, "failed")
    /\ UNCHANGED <<identity, session, reprov, pending, result, done, joined, events>>

\* net_fail: what was tried is forgotten, as it is staged now.
NetFail(i) ==
    /\ task[i].at = "failed"
    /\ task' = [task EXCEPT ![i] = Free]
    /\ Forget(IF task[i].device = "cell" THEN {"pin"} ELSE {"ssid", "ip"})
    /\ UNCHANGED <<identity, session, reprov, result, done, joined, events>>

\* The disk refuses a file: nothing catches it, and the task ends without a word.
Raises(i) == Happens /\ Goes(i, "raised")

\* The identity is saved, then the bridge restarted in a thread.
Save(i) ==
    /\ task[i].at = "joined"
    /\ token' = task[i].blynk
    /\ \/ Goes(i, "restart") /\ saved' = task[i].blynk /\ UNCHANGED events
       \/ Raises(i) /\ UNCHANGED saved
    /\ UNCHANGED <<session, reprov, pending, result, done, joined>>

\* ensure_current returns, or cannot write what it renders.  The task may be
\* cancelled by then.
Restarted(i) ==
    /\ task[i].at = "restart"
    /\ \/ session = "open" /\ Goes(i, "connected") /\ UNCHANGED events
       \/ session = "open" /\ Raises(i)
       \/ session # "open" /\ task' = [task EXCEPT ![i] = Free] /\ UNCHANGED events
    /\ UNCHANGED <<identity, session, reprov, pending, result, done, joined>>

Connected(i) ==
    /\ task[i].at = "connected"
    /\ task' = [task EXCEPT ![i] = Free]
    /\ result' = TRUE /\ done' = TRUE
    /\ UNCHANGED <<identity, session, reprov, pending, joined, events>>

\* Where a connect may wait for good.
Untimed == {"lookup", "compare", "profile"}

Asks(i) == Lookup(i) \/ Compare(i) \/ Profile(i)

GoesAhead(i) ==
    \/ Start(i) \/ WaitEnds(i) \/ NetFail(i) \/ Save(i) \/ Restarted(i) \/ Connected(i)

Connect(i) == Asks(i) \/ GoesAhead(i)

\* A network goes away, or comes back by itself.
NetworkChanges ==
    /\ Happens
    /\ \E n \in Networks \union {None} : joined' = [joined EXCEPT !["wifi"] = n]
    /\ UNCHANGED <<identity, session, reprov, pending, task, result, done>>

Next ==
    \/ Opens \/ Ends \/ GivesUp \/ Closes \/ Reboots
    \/ HandleSet \/ HandleReset \/ CentralDisconnects
    \/ \E i \in Tasks : HandleConnect(i) \/ Connect(i) \/ CallReturns(i)
    \/ \E device \in Devices : Activates(device) \/ ActivationFails(device)
    \/ NetworkChanges

Spec == Init /\ [][Next]_vars

\* Tasks go on, but for what they ask NetworkManager and ModemManager, which may
\* never answer; a session that is done ends.  The app may never say anything,
\* and the 5 minutes of the session are no help.
Fairness ==
    /\ \A i \in Tasks : WF_vars(GoesAhead(i))
    /\ WF_vars(Ends) /\ WF_vars(Closes)

FairSpec == Spec /\ Fairness

-----------------------------------------------------------------------------

(* provision: reprovisioning "keeps the existing Blynk token/server instead *)
(* of requiring the app to resupply them": through any resets, failed      *)
(* connects and disconnections of the app a device that has an identity    *)
(* keeps one, and the app can connect without sending it: only what the    *)
(* app stages itself takes the place of the token staged for it.           *)
IdentityKept ==
    [][session' = "open" /\ reprov' /\ token # None =>
           /\ token' # None
           /\ (session = "open" => pending["blynk"] \in Tokens) =>
                  pending'["blynk"] \in Tokens \/ HandleSet]_vars

(* Whatever NetworkManager makes of an activation, be it that the call     *)
(* hangs, that no signal comes or another connect's does, a connect does   *)
(* not wait for the session to time out.  There are two ways left for it   *)
(* to stay without an answer: NetworkManager or ModemManager do not answer *)
(* one of the questions before the activation, which no wait_for covers,   *)
(* or the disk refuses blynk.env or the bridge's files.                    *)
ConnectAnswered ==
    \A i \in Tasks :
        <>[](task[i] # Free) => <>[](task[i].at \in Untimed \union {"raised"})

(* _current_wifi_ssid: "used to skip tearing down a working connection     *)
(* when the app resubmits the same network it's already joined": WiFi is   *)
(* left alone only if a network was asked for.                             *)
SkipsWhatIsJoined ==
    \A i \in Tasks : task[i].at = "joined" /\ task[i].skipped => task[i].ssid \in Networks
=============================================================================
