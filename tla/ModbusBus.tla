------------------------------ MODULE ModbusBus ------------------------------
(***************************************************************************)
(* One RS485 bus of the Modbus gateway (examples/modbus-gateway, bus.py    *)
(* Bus) with the gateway's polls, writes and probes on it: the serial      *)
(* port, the backoff of slaves that do not answer, and the values that go  *)
(* through the codec.                                                      *)
(*                                                                         *)
(* The bus has a lock that is held for a transaction, so an action is a    *)
(* transaction.  Time passes in ticks.  One point of one slave has a       *)
(* register that is followed; of the others only the answers count.        *)
(***************************************************************************)
EXTENDS ModbusCodec

CONSTANTS
    Slaves,       \* the devices on the bus
    Home,         \* the one that has the point
    Points,       \* what the point may be
    Asked,        \* values that are asked of it
    Settings,     \* settings of the bus
    Right,        \* those the devices are set to
    AfterTimeouts,\* BACKOFF_AFTER_TIMEOUTS
    Start, Limit, \* BACKOFF_START_S and BACKOFF_MAX_S, in ticks
    None, Broken, \* no client; one whose serial port is gone
    MaxEvents     \* bound: failures, edits, writes, probes and changes at the device

ASSUME BusAssumption ==
    /\ Home \in Slaves /\ Right \in Settings
    /\ \A p \in Points : Parsed(p)
    /\ Asked \subseteq Value
    /\ None \notin Settings /\ Broken \notin Settings /\ None # Broken
    /\ AfterTimeouts \in Nat \ {0}
    /\ Start \in Nat \ {0} /\ Limit \in Nat /\ Start <= Limit
    /\ MaxEvents \in Nat

VARIABLES
    settings, \* _settings
    client,   \* the settings of the open client, None or Broken
    timeouts, \* _timeouts
    delay,    \* _backoff: the current delay, 0 if there is none
    left,     \* and the time until it is over
    adapter,  \* is the serial adapter there
    up,       \* the slaves that would answer
    silent,   \* timeouts of a slave since its last answer, AfterTimeouts at most
    heard,    \* the slaves that answered their last poll
    point,    \* the point of Home
    register, \* the words the device holds of it
    shown,    \* its datastream, as last published
    request,  \* the request just handled and its words, if there was one
    current,  \* nothing but polls and echoed writes since the last publication
    events

backoff == <<timeouts, delay, left>>
field == <<adapter, up>>
values == <<register, shown, request, current>>
vars == <<settings, client, backoff, field, silent, heard, point, values, events>>

WordsOf(p) == IF Wide(p) THEN Word \X Word
              ELSE { <<w>> : w \in IF Coil(p) THEN 0..1 ELSE Word }

NoRequest == [value |-> NoNumber, words |-> Refused]

TypeOK ==
    /\ settings \in Settings /\ client \in Settings \union {None, Broken}
    /\ timeouts \in [Slaves -> 0..(AfterTimeouts - 1)]
    /\ delay \in [Slaves -> 0..Limit] /\ left \in [Slaves -> 0..Limit]
    /\ \A s \in Slaves : left[s] <= delay[s]
    /\ adapter \in BOOLEAN /\ up \subseteq Slaves /\ heard \subseteq Slaves
    /\ silent \in [Slaves -> 0..AfterTimeouts]
    /\ point \in Points
    /\ register \in WordsOf(point)
    /\ request.words \in WordsOf(point) \union {Refused}
    /\ current \in BOOLEAN
    /\ events \in 0..MaxEvents

Init ==
    /\ settings \in Settings /\ client = None
    /\ timeouts = [s \in Slaves |-> 0]
    /\ delay = [s \in Slaves |-> 0] /\ left = [s \in Slaves |-> 0]
    /\ adapter = TRUE /\ up = Slaves
    /\ silent = [s \in Slaves |-> 0] /\ heard = {}
    /\ point \in Points
    /\ register = [i \in 1..(IF Wide(point) THEN 2 ELSE 1) |-> 0]
    /\ shown = NoNumber /\ request = NoRequest /\ current = FALSE
    /\ events = 0

Happens == events < MaxEvents /\ events' = events + 1

(***************************************************************************)
(* The bus.                                                                *)
(***************************************************************************)
BackingOff(s) == delay[s] # 0 /\ left[s] # 0

\* A slip: the delay doubles without an end.
NoteTimeoutUnlimited(s) ==
    LET d == IF delay[s] # 0 THEN 2 * delay[s]
             ELSE IF timeouts[s] + 1 < AfterTimeouts THEN 0 ELSE Start
    IN  /\ timeouts' = [timeouts EXCEPT ![s] = IF d = 0 THEN @ + 1 ELSE 0]
        /\ delay' = [delay EXCEPT ![s] = d]
        /\ left' = [left EXCEPT ![s] = d]
        /\ silent' = [silent EXCEPT ![s] = IF @ < AfterTimeouts THEN @ + 1 ELSE @]

\* _note_timeout: the delay starts after several, and doubles with each further.
NoteTimeout(s) ==
    LET d == IF delay[s] # 0 THEN (IF 2 * delay[s] < Limit THEN 2 * delay[s] ELSE Limit)
             ELSE IF timeouts[s] + 1 < AfterTimeouts THEN 0 ELSE Start
    IN  /\ timeouts' = [timeouts EXCEPT ![s] = IF d = 0 THEN @ + 1 ELSE 0]
        /\ delay' = [delay EXCEPT ![s] = d]
        /\ left' = [left EXCEPT ![s] = d]
        /\ silent' = [silent EXCEPT ![s] = IF @ < AfterTimeouts THEN @ + 1 ELSE @]

\* A slip: an answer ends a delay, but not the counting of timeouts.
NoteAliveCounted(s) ==
    /\ UNCHANGED timeouts
    /\ delay' = [delay EXCEPT ![s] = 0]
    /\ left' = [left EXCEPT ![s] = 0]
    /\ silent' = [silent EXCEPT ![s] = 0]

\* _note_alive
NoteAlive(s) ==
    /\ timeouts' = [timeouts EXCEPT ![s] = 0]
    /\ delay' = [delay EXCEPT ![s] = 0]
    /\ left' = [left EXCEPT ![s] = 0]
    /\ silent' = [silent EXCEPT ![s] = 0]

Outcomes == {"skipped", "port", "answer", "exception", "timeout"}

\* _ensure_client: a client that is open is kept, whatever its settings.
Opened == IF client = None THEN settings ELSE client

\* _transact.  Only polls honor the backoff.  A failing port is closed, to be
\* opened again for the next request, and says nothing about the slave; a
\* slave may miss a request, or its answer get lost.
Transact(s, honors, outcome) ==
    IF honors /\ BackingOff(s)
    THEN outcome = "skipped" /\ UNCHANGED <<client, backoff, silent, events>>
    ELSE \/ /\ outcome = "port"
            /\ client = Broken \/ (client = None /\ ~adapter)
            /\ client' = None
            /\ UNCHANGED <<backoff, silent, events>>
         \/ /\ outcome \in {"answer", "exception", "timeout"}
            /\ client # Broken /\ (client = None => adapter)
            /\ client' = Opened
            /\ IF outcome = "timeout"
               THEN /\ NoteTimeout(s)
                    /\ IF s \in up /\ Opened = Right THEN Happens ELSE UNCHANGED events
               ELSE /\ s \in up /\ Opened = Right
                    /\ NoteAlive(s)
                    /\ UNCHANGED events

\* A slip: the open client goes on with the settings it has.
ConfigureOpen ==
    /\ Happens
    /\ settings' \in Settings \ {settings}
    /\ UNCHANGED <<client, backoff, field, silent, heard, point, register, shown, current>>
    /\ request' = NoRequest

\* configure: the client is made anew for the next request; the backoff stays.
Configure ==
    /\ Happens
    /\ settings' \in Settings \ {settings}
    /\ client' = None
    /\ UNCHANGED <<backoff, field, silent, heard, point, register, shown, current>>
    /\ request' = NoRequest

(***************************************************************************)
(* The gateway's _poll_point, _write_point and _execute_probe.             *)
(***************************************************************************)
Poll(s) ==
    /\ \E outcome \in Outcomes :
           /\ Transact(s, TRUE, outcome)
           /\ heard' = IF outcome \in {"answer", "exception"} THEN heard \union {s}
                       ELSE heard \ {s}
           /\ IF s = Home /\ outcome = "answer"
              THEN shown' = Decode(point, register) /\ current' = TRUE
              ELSE UNCHANGED <<shown, current>>
    /\ request' = NoRequest
    /\ UNCHANGED <<settings, field, point, register>>

Writable == point.table \in {"co", "hr"} /\ point.bit = NoBit

\* What the device took is echoed, decoded from the words that were sent.  A
\* timeout leaves open whether it took them.
Write(value) ==
    /\ Writable
    /\ LET words == Encode(point, value)
       IN  /\ request' = [value |-> value, words |-> words]
           /\ \/ /\ words = Refused /\ Happens
                 /\ UNCHANGED <<client, backoff, silent, register, shown, current>>
              \/ /\ words # Refused /\ events < MaxEvents
                 /\ \E outcome \in Outcomes :
                        /\ Transact(Home, FALSE, outcome)
                        /\ \/ /\ outcome = "answer"
                              /\ register' = words
                              /\ shown' = Decode(point, words) /\ current' = TRUE
                           \/ /\ outcome = "timeout" /\ Home \in up
                              /\ register' = words /\ current' = FALSE
                              /\ UNCHANGED shown
                           \/ /\ outcome # "answer"
                              /\ UNCHANGED <<register, shown, current>>
    /\ UNCHANGED <<settings, field, heard, point>>

\* Someone looks for a slave, or at it.
Probe(s) ==
    /\ \E outcome \in Outcomes : Transact(s, FALSE, outcome)
    /\ UNCHANGED <<settings, field, heard, point, register, shown, current>>
    /\ request' = NoRequest

(***************************************************************************)
(* Time and the devices.                                                   *)
(***************************************************************************)
Tick ==
    /\ \E s \in Slaves : left[s] # 0
    /\ left' = [s \in Slaves |-> IF left[s] = 0 THEN 0 ELSE left[s] - 1]
    /\ UNCHANGED <<settings, client, timeouts, delay, field, silent, heard, point, register, shown, current, events>>
    /\ request' = NoRequest

Unplugs ==
    /\ adapter /\ Happens
    /\ adapter' = FALSE
    /\ client' = IF client = None THEN None ELSE Broken
    /\ UNCHANGED <<settings, backoff, up, silent, heard, point, register, shown, current>>
    /\ request' = NoRequest

Plugs ==
    /\ ~adapter /\ adapter' = TRUE
    /\ UNCHANGED <<settings, client, backoff, up, silent, heard, point, register, shown, current, events>>
    /\ request' = NoRequest

SlaveDies(s) ==
    /\ s \in up /\ Happens
    /\ up' = up \ {s}
    /\ UNCHANGED <<settings, client, backoff, adapter, silent, heard, point, register, shown, current>>
    /\ request' = NoRequest

SlaveReturns(s) ==
    /\ s \notin up
    /\ up' = up \union {s}
    /\ UNCHANGED <<settings, client, backoff, adapter, silent, heard, point, register, shown, current, events>>
    /\ request' = NoRequest

\* The register changes at the device, or by a probe that writes.
RegisterChanges ==
    /\ Happens
    /\ register' \in WordsOf(point) /\ current' = FALSE
    /\ UNCHANGED <<settings, client, backoff, field, silent, heard, point, shown>>
    /\ request' = NoRequest

Next ==
    \/ Configure
    \/ \E s \in Slaves : Poll(s) \/ Probe(s) \/ SlaveDies(s) \/ SlaveReturns(s)
    \/ \E value \in Asked : Write(value)
    \/ Tick \/ Unplugs \/ Plugs \/ RegisterChanges

Spec == Init /\ [][Next]_vars

\* Points are polled for ever, and time passes.
Fairness == WF_vars(Tick) /\ \A s \in Slaves : WF_vars(Poll(s))

FairSpec == Spec /\ Fairness

-----------------------------------------------------------------------------

(* bus.py: after "this many consecutive timeouts the slave's polls are     *)
(* skipped", and "any answer (even a Modbus exception) resets it": a slave *)
(* is backed off exactly if it missed that many requests in a row, polls,  *)
(* writes and probes alike, through edits of the settings and failures of  *)
(* the port, which say nothing about it.                                   *)
BackoffEarned ==
    \A s \in Slaves : delay[s] # 0 <=> silent[s] = AfterTimeouts

(* A slave that answers again is heard again: the backoff, the client that *)
(* was opened for other settings or for an adapter that was unplugged do   *)
(* not keep its polls from it for good.                                    *)
ReturnNoticed ==
    \A s \in Slaves :
        <>[](s \in up /\ adapter /\ settings = Right) => <>[](s \in heard)

Register == RawFromWords(point, register)

\* The decimals that are shown tell any two values of the register apart.
Exact ==
    IF point.map # << >> THEN Keyed(point, Register) # {}
    ELSE \/ point.unit < Magnitude(point.scale)
         \/ point.scale % point.unit = 0 /\ point.offset % point.unit = 0

(* What a write shows on the dashboard is what the next poll would show,   *)
(* and a value that is shown can be asked for again, as a snap-back or a   *)
(* second tap on the switch does: the same words are written, whatever the *)
(* type, the word order, the scale, the decimals and the map of the point. *)
ShownIsRegister ==
    current => /\ shown = Decode(point, register)
               /\ Writable /\ Exact => Encode(point, shown) = register

Distance(value, raw) == 2 * Magnitude(raw * point.scale + point.offset - value[1])

(* encode "never clamps, since writing a different value than asked is     *)
(* worse than not writing": the words of a request stand for the nearest   *)
(* number the register can hold, less than half a step away, and it is     *)
(* refused only if there is none; with a map it is the value of its key.   *)
WriteIsNearest ==
    request # NoRequest =>
        LET raw == RawFromWords(point, request.words)
        IN  IF point.map # << >>
            THEN \/ request.words = Refused /\ \A i \in DOMAIN point.map : point.map[i][1] # request.value
                 \/ \E i \in DOMAIN point.map : point.map[i] = <<request.value, raw>>
            ELSE IF request.words = Refused
            THEN Len(request.value) # 1
                   \/ \A r \in RawRange(point) :
                          Distance(request.value, r) >= Magnitude(point.scale)
            ELSE Distance(request.value, raw) <= Magnitude(point.scale)
=============================================================================
