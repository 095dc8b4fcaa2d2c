--------------------------- MODULE SerialChannel ---------------------------
(***************************************************************************)
(* The life of one SerialChannel (internal/transport/serial.go): Open,     *)
(* WriteRaw and Close, called by the goroutine that owns the channel (a    *)
(* worker, then main's CloseAll), and the readLoop goroutine each Open     *)
(* starts, which shares the channel's fields with them.                    *)
(*                                                                         *)
(* The owner calls one method at a time. It reopens the port of a device   *)
(* it has rebooted, and the device may leave the bus at any moment.        *)
(***************************************************************************)
EXTENDS Naturals, FiniteSets

CONSTANTS
    MaxOpens,   \* bound: calls of Open
    MaxBytes    \* bound: reads that return data, for each port handle

ASSUME SerialChannelAssumption == MaxOpens \in Nat /\ MaxBytes \in Nat

VARIABLES
    pc,        \* what the owner is in the middle of
    opens,     \* calls of Open so far; the n-th one names its port handle n
    serial,    \* SerialChannel.serial: a handle, 0 for nil
    running,   \* SerialChannel.running
    closed,    \* SerialChannel.closed
    done,      \* SerialChannel.done: the done channel of the n-th Open
    doneShut,  \* the done channels that are closed
    bufferOf,  \* SerialChannel.buffer: the handles its bytes were read from
    loop,      \* the readLoop each Open started
    reading,   \* the handle each of them is reading
    handles,   \* (system) the port handles that are open
    unread,    \* (system) reads that each handle can still answer with data
    attached,  \* (device) it is on the bus
    panicked   \* a nil port was used

vars == <<pc, opens, serial, running, closed, done, doneShut, bufferOf, loop, reading,
          handles, unread, attached, panicked>>
fieldVars == <<serial, running, closed, done>>
systemVars == <<handles, unread, attached>>

Opens == 1 .. MaxOpens

\* NewSerialChannel.
Init ==
    /\ pc = "idle"
    /\ opens = 0
    /\ serial = 0
    /\ running = FALSE
    /\ closed = FALSE
    /\ done = 0
    /\ doneShut = {}
    /\ bufferOf = {}
    /\ loop = [n \in Opens |-> "none"]
    /\ reading = [n \in Opens |-> 0]
    /\ handles = {}
    /\ unread = [n \in Opens |-> MaxBytes]
    /\ attached = TRUE
    /\ panicked = FALSE

-----------------------------------------------------------------------------
(* The owner.                                                              *)

\* The owner opens a channel that it has not opened yet, or has closed.
Bracketed == serial = 0

\* Open, first half: the system opens the port, or refuses.
OpenPort ==
    /\ pc = "idle"
    /\ Bracketed
    /\ opens < MaxOpens
    /\ opens' = opens + 1
    /\ \/ attached /\ handles' = handles \cup {opens + 1} /\ pc' = "opened"
       \/ UNCHANGED handles /\ pc' = "idle"
    /\ UNCHANGED <<fieldVars, doneShut, bufferOf, loop, reading, unread, attached, panicked>>

\* Open, second half: the fields, then the goroutine.
StartLoop ==
    /\ pc = "opened"
    /\ serial' = opens
    /\ running' = TRUE
    /\ closed' = FALSE
    /\ done' = opens
    /\ bufferOf' = {}
    /\ loop' = [loop EXCEPT ![opens] = "check"]
    /\ pc' = "idle"
    /\ UNCHANGED <<opens, doneShut, reading, systemVars, panicked>>

\* Close under mu: the second of two Closes returns, the first sets the flags.
CloseFlags ==
    /\ pc = "idle"
    /\ ~closed
    /\ closed' = TRUE
    /\ running' = FALSE
    /\ pc' = IF serial = 0 THEN "idle" ELSE "closing"
    /\ UNCHANGED <<opens, serial, done, doneShut, bufferOf, loop, reading, systemVars, panicked>>

\* Deliberate faults with which the properties must fail.
ReleaseForgotten == {}
NoWaitForLoop == TRUE

Released == {serial}

\* c.serial.Close(): a read of the port returns with an error from then on.
ClosePort ==
    /\ pc = "closing"
    /\ handles' = handles \ Released
    /\ pc' = "waiting"
    /\ UNCHANGED <<opens, fieldVars, doneShut, bufferOf, loop, reading, unread, attached, panicked>>

\* <-c.done
LoopHasEnded == done \in doneShut

\* The wait ends, and c.serial = nil.
CloseReturns ==
    /\ pc = "waiting"
    /\ LoopHasEnded
    /\ serial' = 0
    /\ pc' = "idle"
    /\ UNCHANGED <<opens, running, closed, done, doneShut, bufferOf, loop, reading, systemVars, panicked>>

-----------------------------------------------------------------------------
(* readLoop. It reads running and c.serial without mu.                     *)

\* for c.running; the deferred close is of the done channel it started with.
CheckRunning(n) ==
    /\ loop[n] = "check"
    /\ IF running
       THEN loop' = [loop EXCEPT ![n] = "read"] /\ UNCHANGED doneShut
       ELSE loop' = [loop EXCEPT ![n] = "ended"] /\ doneShut' = doneShut \cup {n}
    /\ UNCHANGED <<pc, opens, fieldVars, bufferOf, reading, systemVars, panicked>>

\* c.serial.Read is called: the handle is the one the field holds now.
BeginRead(n) ==
    /\ loop[n] = "read"
    /\ reading' = [reading EXCEPT ![n] = serial]
    /\ loop' = [loop EXCEPT ![n] = "reading"]
    /\ panicked' = (panicked \/ serial = 0)
    /\ UNCHANGED <<pc, opens, fieldVars, doneShut, bufferOf, systemVars>>

\* It returns bytes, and processBytes adds them to the buffer, which an end of
\* packet among them empties.
ReadReturns(n) ==
    /\ loop[n] = "reading"
    /\ reading[n] \in handles
    /\ attached
    /\ unread[reading[n]] > 0
    /\ unread' = [unread EXCEPT ![reading[n]] = @ - 1]
    /\ bufferOf' \in {{}, {reading[n]}, bufferOf \cup {reading[n]}}
    /\ loop' = [loop EXCEPT ![n] = "check"]
    /\ UNCHANGED <<pc, opens, fieldVars, doneShut, reading, handles, attached, panicked>>

\* It fails: the port was closed or the device is gone. readLoop ends, and the
\* channel stays as it is: open, with nobody who reads it.
ReadFails(n) ==
    /\ loop[n] = "reading"
    /\ reading[n] \notin handles \/ ~attached
    /\ loop' = [loop EXCEPT ![n] = "ended"]
    /\ doneShut' = doneShut \cup {n}
    /\ UNCHANGED <<pc, opens, fieldVars, bufferOf, reading, systemVars, panicked>>

-----------------------------------------------------------------------------
(* The device (external) leaves the bus and comes back.                    *)

DeviceLeaves == attached /\ attached' = FALSE
DeviceReturns == ~attached /\ attached' = TRUE

DeviceStep ==
    /\ DeviceLeaves \/ DeviceReturns
    /\ UNCHANGED <<pc, opens, fieldVars, doneShut, bufferOf, loop, reading, handles, unread, panicked>>

-----------------------------------------------------------------------------
OwnerContinues == StartLoop \/ ClosePort \/ CloseReturns
Owner == OpenPort \/ CloseFlags \/ OwnerContinues
ReadLoop(n) == CheckRunning(n) \/ BeginRead(n) \/ ReadReturns(n) \/ ReadFails(n)

Next == Owner \/ (\E n \in Opens : ReadLoop(n)) \/ DeviceStep

Spec == Init /\ [][Next]_vars

\* A call that has begun goes on, and so does each readLoop: a read of a port
\* that is closed or gone returns.
FairSpec == Spec /\ WF_vars(OwnerContinues) /\ \A n \in Opens : WF_vars(ReadLoop(n))

-----------------------------------------------------------------------------
(* Properties.                                                             *)

\* A reopened channel has one reader: the readLoop of an earlier Open, which
\* the flags of the new one would keep alive, has ended before Close returned.
\* So no packet is put together from the bytes of two connections, and no
\* readLoop uses the port that Close has set to nil.
OneReader ==
    /\ Cardinality({n \in Opens : loop[n] \notin {"none", "ended"}}) <= 1
    /\ running => bufferOf \subseteq {serial}
    /\ ~panicked

\* When no call is under way the only port held open is that of the channel, and
\* a channel that was closed holds none.
NoHandleLeaks == pc = "idle" => handles = {serial} \ {0}

\* A Close that has begun returns: the port it closes ends the read that the
\* loop it waits for is blocked in.
CloseEnds == pc \in {"closing", "waiting"} ~> pc = "idle"

=============================================================================
