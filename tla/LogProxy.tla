------------------------------ MODULE LogProxy ------------------------------
(***************************************************************************)
(* StreamStageLogsWebSocket: the log of a running container on its way     *)
(* through the service.  The handler dials gcs-v2, upgrades the request of *)
(* the client and starts two pumps, one for each direction; the first that *)
(* ends lets the handler return, which closes both connections under the   *)
(* other pump.  Of the lines only the order matters, so each place keeps   *)
(* how many of them have come by:                                          *)
(*                                                                         *)
(*      written  >=  sent  >=  taken  >=  passed  >=  received             *)
(*     container    gcs-v2     pump       pump        client               *)
(***************************************************************************)
EXTENDS Naturals

CONSTANTS
    MaxLines,    \* bound: lines the container writes
    Buffer,      \* lines on the way to a client that does not read
    MaxInputs    \* bound: messages the client sends

ASSUME ProxyAssumption ==
    /\ MaxLines \in Nat
    /\ Buffer \in Nat \ {0}
    /\ MaxInputs \in Nat

VARIABLES
    handler,     \* of the request
    pump,        \* [direction -> step of its goroutine]
    done,        \* signals in the channel the handler waits for
    gcs,         \* the connection to gcs-v2, as its far end left it
    client,      \* the client
    ended,       \* the container has ended
    written, sent, taken, passed, received,
    inputs,      \* messages of the client that the pump has not read
    asked        \* messages the client has sent

lines == <<written, sent, taken, passed, received>>
pumping == <<handler, pump, done>>
proxyVars == <<pumping, gcs, client, ended, lines, inputs, asked>>

Direction == {"logs", "input"}

(* downstream, the far end, is "closed" by gcs-v2 after the last line and  *)
(* "broken" when the connection is lost.                                   *)
ProxyTypeOK ==
    /\ handler \in {"none", "dialed", "pumping", "ended"}
    /\ pump \in [Direction -> {"off", "read", "write", "signal", "gone"}]
    /\ done \in 0..2
    /\ gcs \in {"off", "open", "closed", "broken"}
    /\ client \in {"none", "waiting", "open", "eof", "archive", "reset", "left"}
    /\ ended \in BOOLEAN
    /\ written \in 0..MaxLines
    /\ sent \in 0..written
    /\ taken \in 0..sent
    /\ passed \in 0..taken
    /\ received \in 0..passed
    /\ inputs \in 0..asked
    /\ asked \in 0..MaxInputs

ProxyInit ==
    /\ handler = "none"
    /\ pump = [d \in Direction |-> "off"]
    /\ done = 0
    /\ gcs = "off"
    /\ client = "none"
    /\ ended = FALSE
    /\ written = 0 /\ sent = 0 /\ taken = 0 /\ passed = 0 /\ received = 0
    /\ inputs = 0 /\ asked = 0

-----------------------------------------------------------------------------
(* The container and gcs-v2: it sends what was written, in order, and      *)
(* closes the connection when the container has ended.                     *)
ContainerWrites ==
    /\ ~ended /\ written < MaxLines
    /\ written' = written + 1
    /\ UNCHANGED <<pumping, gcs, client, ended, sent, taken, passed, received, inputs, asked>>

ContainerEnds ==
    /\ ~ended
    /\ ended' = TRUE
    /\ UNCHANGED <<pumping, gcs, client, lines, inputs, asked>>

GcsSends ==
    /\ gcs = "open"
    /\ \/ sent < written /\ sent' = sent + 1 /\ UNCHANGED gcs
       \/ sent = written /\ ended /\ gcs' = "closed" /\ UNCHANGED sent
    /\ UNCHANGED <<pumping, client, ended, written, taken, passed, received, inputs, asked>>

GcsBreaks ==
    /\ gcs = "open"
    /\ gcs' = "broken"
    /\ UNCHANGED <<pumping, client, ended, lines, inputs, asked>>

-----------------------------------------------------------------------------
(* The request.  If the row of the stage is finished, the log as it stands *)
(* is the whole answer; the container of a cancelled stage may still be    *)
(* writing, and that of a stage that runs in its row may have ended.       *)
Request ==
    /\ client = "none"
    /\ \/ client' = "waiting" /\ handler' = "dialed" /\ gcs' = "open"
          /\ UNCHANGED <<sent, taken, passed, received>>
       \/ client' = "reset" /\ handler' = "ended"
          /\ UNCHANGED <<gcs, sent, taken, passed, received>>
       \/ client' = "archive" /\ handler' = "ended"
          /\ sent' = written /\ taken' = written /\ passed' = written /\ received' = written
          /\ UNCHANGED gcs
    /\ UNCHANGED <<pump, done, ended, written, inputs, asked>>

Upgrade ==
    /\ handler = "dialed"
    /\ IF client = "waiting"
       THEN /\ handler' = "pumping"
            /\ client' = "open"
            /\ pump' = [d \in Direction |-> "read"]
       ELSE handler' = "ended" /\ UNCHANGED <<client, pump>>
    /\ UNCHANGED <<done, gcs, ended, lines, inputs, asked>>

PumpGo(d, step) == pump' = [pump EXCEPT ![d] = step]

(* A read or a write fails once the handler has closed the connections.    *)
Shut == handler = "ended"

(* A bug kept for the mutation runs: the end of the far side is taken for  *)
(* the end of what it sent.                                                *)
LogsReadEager ==
    /\ pump["logs"] = "read"
    /\ IF Shut \/ gcs # "open"
       THEN PumpGo("logs", "signal") /\ UNCHANGED taken
       ELSE taken < sent /\ taken' = taken + 1 /\ PumpGo("logs", "write")
    /\ UNCHANGED <<handler, done, gcs, client, ended, written, sent, passed, received, inputs, asked>>

LogsRead ==
    /\ pump["logs"] = "read"
    /\ IF Shut \/ gcs = "broken" \/ (gcs = "closed" /\ taken = sent)
       THEN PumpGo("logs", "signal") /\ UNCHANGED taken
       ELSE taken < sent /\ taken' = taken + 1 /\ PumpGo("logs", "write")
    /\ UNCHANGED <<handler, done, gcs, client, ended, written, sent, passed, received, inputs, asked>>

(* A write waits for a client that does not read.                          *)
LogsWrite ==
    /\ pump["logs"] = "write"
    /\ IF Shut \/ client # "open"
       THEN PumpGo("logs", "signal") /\ UNCHANGED passed
       ELSE passed - received < Buffer /\ passed' = passed + 1 /\ PumpGo("logs", "read")
    /\ UNCHANGED <<handler, done, gcs, client, ended, written, sent, taken, received, inputs, asked>>

InputRead ==
    /\ pump["input"] = "read"
    /\ IF Shut \/ (client # "open" /\ inputs = 0)
       THEN PumpGo("input", "signal") /\ UNCHANGED inputs
       ELSE inputs > 0 /\ inputs' = inputs - 1 /\ PumpGo("input", "write")
    /\ UNCHANGED <<handler, done, gcs, client, ended, lines, asked>>

(* The first write to a connection the other end has closed may succeed.   *)
InputWrite ==
    /\ pump["input"] = "write"
    /\ \/ (Shut \/ gcs # "open") /\ PumpGo("input", "signal")
       \/ ~Shut /\ PumpGo("input", "read")
    /\ UNCHANGED <<handler, done, gcs, client, ended, lines, inputs, asked>>

(* A bug kept for the mutation runs: a channel without a buffer.           *)
SignalUnbuffered(d) ==
    /\ pump[d] = "signal" /\ done = 0 /\ handler = "pumping"
    /\ done' = done + 1
    /\ PumpGo(d, "gone")
    /\ UNCHANGED <<handler, gcs, client, ended, lines, inputs, asked>>

Signal(d) ==
    /\ pump[d] = "signal" /\ done < 2
    /\ done' = done + 1
    /\ PumpGo(d, "gone")
    /\ UNCHANGED <<handler, gcs, client, ended, lines, inputs, asked>>

HandlerReturns ==
    /\ handler = "pumping" /\ done > 0
    /\ done' = done - 1
    /\ handler' = "ended"
    /\ UNCHANGED <<pump, gcs, client, ended, lines, inputs, asked>>

-----------------------------------------------------------------------------
(* The client.  A connection closed with input unread is reset, and then   *)
(* the lines on their way may be lost.                                     *)
ClientReads ==
    /\ client = "open"
    /\ \/ received < passed /\ received' = received + 1 /\ UNCHANGED client
       \/ Shut /\ received = passed /\ client' = "eof" /\ UNCHANGED received
       \/ Shut /\ inputs > 0 /\ client' = "reset" /\ UNCHANGED received
    /\ UNCHANGED <<pumping, gcs, ended, written, sent, taken, passed, inputs, asked>>

ClientSends ==
    /\ client = "open" /\ ~Shut /\ asked < MaxInputs
    /\ asked' = asked + 1
    /\ inputs' = inputs + 1
    /\ UNCHANGED <<pumping, gcs, client, ended, lines>>

ClientLeaves ==
    /\ client \in {"waiting", "open"}
    /\ client' = "left"
    /\ UNCHANGED <<pumping, gcs, ended, lines, inputs, asked>>

(* The process of the service ends: its goroutines and connections go.     *)
CutStream ==
    /\ handler' = IF handler \in {"dialed", "pumping"} THEN "ended" ELSE handler
    /\ pump' = [d \in Direction |-> IF pump[d] = "off" THEN "off" ELSE "gone"]
    /\ done' = 0
    /\ gcs' = IF gcs = "open" THEN "broken" ELSE gcs
    /\ client' = IF client \in {"waiting", "open"} THEN "reset" ELSE client
    /\ UNCHANGED <<ended, lines, inputs, asked>>

LogsPump == LogsRead \/ LogsWrite \/ Signal("logs")
InputPump == InputRead \/ InputWrite \/ Signal("input")
Handler == Upgrade \/ HandlerReturns

OutsideStep ==
    \/ ContainerWrites \/ ContainerEnds \/ GcsSends \/ GcsBreaks
    \/ ClientReads \/ ClientSends \/ ClientLeaves
=============================================================================
