---------------------------- MODULE Greaseweazle ----------------------------
(***************************************************************************)
(* The Greaseweazle backend (src/src/device/greaseweazle.rs): the driver's *)
(* side of the serial link, the link, and the firmware as the driver uses  *)
(* it.  A Device method is a script of steps; a step that needs the        *)
(* firmware sends a packet, then waits for an acknowledgement of two bytes *)
(* and whatever follows it, until a deadline.  Bytes are the protocol's,   *)
(* but a payload counts as one byte and a flux stream as a few.            *)
(***************************************************************************)
EXTENDS Integers, Sequences, FiniteSets

CONSTANTS
    Bus,         \* drive_selection: 1 the IBM PC bus, 2 Shugart
    Cylinders,   \* the cylinders the worker seeks in an instance
    Ops,         \* the Device methods it calls
    Disks,       \* the disks that may be in the drive
    Refusals,    \* may the firmware refuse a command (ACK_BAD_COMMAND)?
    Leftovers,   \* bytes an earlier session may have left on the link
    \* bounds of an instance
    MaxLate,     \* deadlines that pass while an answer or flux is under way
    MaxChanges,  \* disk changes
    MaxQueued,   \* bytes that may lie on the link when a call begins
    StreamBytes  \* the longest flux stream

(* The command codes, as in the enum Command.                              *)
Code == [info |-> 0, seek |-> 2, head |-> 3, setparams |-> 4, params |-> 5, motor |-> 6,
         read |-> 7, write |-> 8, fluxstatus |-> 9, select |-> 12, deselect |-> 13, bus |-> 14,
         reset |-> 16, pin |-> 20, noclick |-> 22]
AckOk == 0
AckBadCommand == 1
AckNoIndex == 2
AckFluxOverflow == 4
AckFluxUnderflow == 5
AckWriteProtected == 6

QuickDelay == 10
SpinUpDelay == 750
MaxAttempts == 3
MaxCylinders == 82

ASSUME LinkAssumption ==
    /\ Bus \in {1, 2}
    /\ Cylinders \subseteq Nat
    /\ Ops \subseteq {"status", "on", "off", "seek", "side", "noclick", "read", "write"}
    /\ Disks \subseteq [present : BOOLEAN, protected : BOOLEAN]
    /\ Refusals \in BOOLEAN
    /\ Leftovers \subseteq Seq(Nat)
    /\ {MaxLate, MaxChanges, MaxQueued, StreamBytes} \subseteq Nat

VARIABLES
    opened,   \* "opening", "open", "closing" (dropped) or "closed"
    op,       \* the current or last call
    script,   \* the steps of the current call that are still to do
    phase,    \* of the first of them: "send", "ack", "payload"
    attempt,  \* read_stream's count
    outcome,  \* of the last call
    drv,      \* the fields of the Greaseweazle struct
    wire,     \* packets on their way to the firmware
    outbox,   \* bytes the firmware has answered, not yet arrived
    inbox,    \* bytes that have arrived, not yet read
    fw,       \* the firmware
    disk, late, changes,
    since     \* the disks there were since the current call began

driverVars == <<opened, op, script, phase, attempt, outcome, drv>>
linkVars == <<wire, outbox, inbox>>
worldVars == <<disk, changes>>
vars == <<driverVars, linkVars, fw, worldVars, late, since>>

Step(do, arg) == [do |-> do, arg |-> arg]
Idle == script = <<>>

-----------------------------------------------------------------------------
(* The Device methods.                                                     *)
CheckPinsPresumed == <<Step("select", 0), Step("pin", 28), Step("presume", 0), Step("idle", 0)>>
(* check_pins: pin 34 cannot be sampled on the Shugart bus.                *)
CheckPins ==
    <<Step("select", 0), Step("pin", 28),
      IF Bus = 1 THEN Step("pin", 34) ELSE Step("presume", 0),
      Step("idle", 0)>>

OpenScript ==
    <<Step("purge", 0), Step("info", 0), Step("version", 0), Step("reset", 0),
      Step("params", 0), Step("step", 0), Step("bus", Bus)>> \o CheckPins
MotorScript(on, quick) ==
    <<Step("delay", IF quick THEN QuickDelay ELSE SpinUpDelay), Step("motor", on),
      IF on = 1 THEN Step("select", 0) ELSE Step("deselect", 0)>>
SeekScript(c) == <<Step("range", c), Step("select", 0), Step("seek", c), Step("idle", 0)>>
SideScript(s) == <<Step("head", s)>>
NoClickScript == <<Step("select", 0), Step("noclick", 0)>> \o CheckPins
ReadScript ==
    <<Step("select", 0), Step("read", 0), Step("stream", 0), Step("fluxstatus", 0),
      Step("idle", 0), Step("join", 0)>>
WriteUnsynced ==   \* mutant: the completion byte is not awaited
    <<Step("timings", 0), Step("select", 0), Step("write", 0), Step("flux", 0), Step("written", 0)>>
WriteScript ==
    <<Step("timings", 0), Step("select", 0), Step("write", 0), Step("flux", 0), Step("sync", 0),
      Step("written", 0)>>
DropDeselects == <<Step("deselect", 0)>>   \* mutant: the motor is forgotten
(* Drop for Greaseweazle, which a failed open meets too.                   *)
DropScript == MotorScript(0, TRUE)

Scripts ==
    [op : {"status"} \cap Ops, script : {CheckPins}]
    \cup [op : {"on"} \cap Ops, script : {MotorScript(1, quick) : quick \in BOOLEAN}]
    \cup [op : {"off"} \cap Ops, script : {MotorScript(0, TRUE)}]
    \cup [op : {"seek"} \cap Ops, script : {SeekScript(c) : c \in Cylinders}]
    \cup [op : {"side"} \cap Ops, script : {SideScript(s) : s \in {0, 1}}]
    \cup [op : {"noclick"} \cap Ops, script : {NoClickScript}]
    \cup [op : {"read"} \cap Ops, script : {ReadScript}]
    \cup [op : {"write"} \cap Ops, script : {WriteScript}]

-----------------------------------------------------------------------------
(* Steps of the driver.                                                    *)
Now == script[1].do
Arg == script[1].arg

(* The packet a step sends, and whether it needs one at all: select and    *)
(* set_motor do nothing where their cached view says it is done already.   *)
Packet ==
    CASE Now = "idle" -> Step("deselect", 0)
      [] Now = "step" -> Step("setparams", drv.delay)
      [] Now = "delay" -> Step("setparams", Arg)
      [] Now = "written" -> Step("fluxstatus", 0)
      [] OTHER -> script[1]
Local ==
    \/ Now \in {"purge", "presume", "version", "range", "timings", "join"}
    \/ Now = "select" /\ drv.selected
    \/ Now = "deselect" /\ ~drv.selected
    \/ Now = "idle" /\ (drv.motor \/ ~drv.selected)
    \/ Now = "delay" /\ drv.delay = Arg

Fail ==
    /\ phase' = "send"
    /\ IF opened = "opening" /\ Now = "info" /\ attempt = 1
         THEN \* get_firmware().or_else: purge, and ask once more
              /\ script' = <<Step("purge", 0)>> \o script
              /\ attempt' = 2 /\ UNCHANGED <<opened, outcome>>
         ELSE /\ script' = IF opened = "opening" THEN DropScript ELSE <<>>
              /\ attempt' = 1 /\ outcome' = "failed"
              /\ opened' = CASE opened = "opening" -> "closing"
                             [] opened = "closing" -> "closed"
                             [] OTHER -> opened
(* The first step of the script is done.                                   *)
Advance ==
    /\ script' = Tail(script)
    /\ phase' = "send"
    /\ outcome' = IF Tail(script) = <<>> THEN "ok" ELSE outcome
    /\ opened' = IF Tail(script) # <<>> THEN opened
                 ELSE IF opened = "closing" THEN "closed" ELSE "open"
    /\ attempt' = IF Tail(script) = <<>> THEN 1 ELSE attempt

Call ==
    /\ Idle /\ opened = "open" /\ Len(inbox) + Len(outbox) + Len(wire) <= MaxQueued
    /\ \E s \in Scripts : op' = s.op /\ script' = s.script
    /\ outcome' = "none"
    /\ since' = {disk}
    /\ UNCHANGED <<opened, phase, attempt, drv, linkVars, fw, worldVars, late>>

(* Greaseweazle's drop: the motor off, whatever comes of it.               *)
Drop ==
    /\ Idle /\ opened = "open"
    /\ opened' = "closing" /\ op' = "drop" /\ script' = DropScript
    /\ outcome' = "none"
    /\ UNCHANGED <<phase, attempt, drv, linkVars, fw, worldVars, late, since>>

OutOfRange == Now = "range" /\ Arg >= MaxCylinders
(* A step that needs no exchange.  transport.purge drops what has arrived; *)
(* a firmware may be too old, a capture may not decode, flux may not be    *)
(* encodable; the step interval may be the wanted one already.             *)
Skip ==
    /\ ~Idle /\ phase = "send" /\ (Local \/ Now = "step")
    /\ inbox' = IF Now = "purge" THEN <<>> ELSE inbox
    /\ drv' = IF Now = "presume" THEN [drv EXCEPT !.present = TRUE] ELSE drv
    /\ \/ ~OutOfRange /\ Advance
       \/ (OutOfRange \/ Now \in {"version", "timings", "join"}) /\ Fail
    /\ UNCHANGED <<op, wire, outbox, fw, worldVars, late, since>>

SendRecorded ==   \* mutant: a seek is recorded before it is acknowledged
    /\ ~Idle /\ phase = "send" /\ ~Local
    /\ Now # "stream" /\ Now # "sync" /\ Now # "flux"
    /\ wire' = Append(wire, Packet)
    /\ drv' = CASE Now = "delay" -> [drv EXCEPT !.delay = Arg]
                [] Now = "seek" -> [drv EXCEPT !.cyl = Arg]
                [] OTHER -> drv
    /\ phase' = "ack"
    /\ UNCHANGED <<opened, op, script, attempt, outcome, outbox, inbox, fw, worldVars, late, since>>
(* write_all_until: the packet leaves.  set_motor has its delay by now.    *)
Send ==
    /\ ~Idle /\ phase = "send" /\ ~Local
    /\ Now # "stream" /\ Now # "sync" /\ Now # "flux"
    /\ wire' = Append(wire, Packet)
    /\ drv' = IF Now = "delay" THEN [drv EXCEPT !.delay = Arg] ELSE drv
    /\ phase' = "ack"
    /\ UNCHANGED <<opened, op, script, attempt, outcome, outbox, inbox, fw, worldVars, late, since>>
(* write_stream: the flux itself, acknowledged by one byte.  The deadline  *)
(* may pass before all of it is taken, and the end of it is never sent.    *)
SendFlux ==
    /\ ~Idle /\ phase = "send" /\ Now = "flux"
    /\ \/ wire' = Append(wire, Step("flux", 0)) /\ Advance /\ UNCHANGED late
       \/ late < MaxLate /\ late' = late + 1 /\ Fail /\ UNCHANGED wire
    /\ UNCHANGED <<op, drv, outbox, inbox, fw, worldVars, since>>

(* What an accepted acknowledgement makes the driver record.               *)
Recorded ==
    CASE Now \in {"select", "deselect"} -> [drv EXCEPT !.selected = Now = "select"]
      [] Now = "idle" -> [drv EXCEPT !.selected = FALSE]
      [] Now = "seek" -> [drv EXCEPT !.cyl = Arg]
      [] Now = "head" -> [drv EXCEPT !.side = Arg]
      [] Now = "motor" -> [drv EXCEPT !.motor = Arg = 1]
      [] Now = "fluxstatus" -> [drv EXCEPT !.present = TRUE]
      [] OTHER -> drv
PinRead(level) ==
    IF Arg = 28 THEN [drv EXCEPT !.protected = level = 0]
                ELSE [drv EXCEPT !.present = level = 1]
Payload == Now \in {"info", "params", "pin"}

RetryForever(ack) == ack = AckFluxOverflow   \* mutant: no limit on retries
(* read_stream: an overflowed capture is worth a fresh revolution, twice.  *)
Retry(ack) == ack = AckFluxOverflow /\ attempt < MaxAttempts

Echoed == inbox[1] = Code[Packet.do]
Refused(ack) ==
    /\ ~Echoed \/ (ack # AckOk /\ ~(Now = "fluxstatus" /\ Retry(ack)))
    /\ Fail
    /\ inbox' = SubSeq(inbox, 3, Len(inbox))
    /\ drv' = IF Now = "fluxstatus" /\ Echoed /\ ack = AckNoIndex
                THEN [drv EXCEPT !.present = FALSE] ELSE drv
Retried(ack) ==
    /\ Echoed /\ Now = "fluxstatus" /\ Retry(ack)
    /\ inbox' = <<>>    \* transport.purge
    /\ script' = <<Step("read", 0), Step("stream", 0)>> \o script
    /\ phase' = "send" /\ attempt' = IF attempt < MaxAttempts THEN attempt + 1 ELSE attempt
    /\ UNCHANGED <<opened, outcome, drv>>
Accepted(ack) ==
    /\ Echoed /\ ack = AckOk
    /\ inbox' = SubSeq(inbox, 3, Len(inbox))
    /\ IF Payload
         THEN phase' = "payload" /\ UNCHANGED <<opened, script, attempt, outcome, drv>>
         ELSE Advance /\ drv' = Recorded
(* read_exact_until, two bytes, then map_ack.                              *)
Acknowledge ==
    /\ phase = "ack" /\ Len(inbox) >= 2
    /\ Refused(inbox[2]) \/ Retried(inbox[2]) \/ Accepted(inbox[2])
    /\ UNCHANGED <<op, wire, outbox, fw, worldVars, late, since>>

(* The payload of a command: a pin's level, the delays.                    *)
TakePayload ==
    /\ phase = "payload" /\ inbox # <<>>
    /\ inbox' = Tail(inbox)
    /\ drv' = CASE Now = "pin" -> PinRead(inbox[1])
                [] Now = "params" -> [drv EXCEPT !.delay = inbox[1]]
                [] OTHER -> drv
    /\ Advance
    /\ UNCHANGED <<op, wire, outbox, fw, worldVars, late, since>>

(* read_terminated_until and drain_fast_stream: whatever has arrived, up   *)
(* to a zero byte; what the chunk holds beyond it is dropped.  A stream    *)
(* that does not decode ends the call there.                               *)
TakeStream ==
    /\ ~Idle /\ Now = "stream" /\ inbox # <<>>
    /\ inbox' = <<>>
    /\ IF \E i \in DOMAIN inbox : inbox[i] = 0
         THEN Advance \/ Fail
         ELSE UNCHANGED <<opened, script, phase, attempt, outcome>>
    /\ UNCHANGED <<op, drv, wire, outbox, fw, worldVars, late, since>>

TakeSync ==
    /\ ~Idle /\ Now = "sync" /\ inbox # <<>>
    /\ inbox' = Tail(inbox)
    /\ Advance
    /\ UNCHANGED <<op, drv, wire, outbox, fw, worldVars, late, since>>

Reading == ~Idle /\ (phase # "send" \/ Now \in {"stream", "sync"})
UnderWay == wire # <<>> \/ outbox # <<>>
(* The deadline passes.  What had arrived of the answer is lost; the rest, *)
(* if there is any, comes later.                                           *)
Deadline ==
    /\ Reading /\ Len(inbox) < IF phase = "ack" THEN 2 ELSE 1
    /\ UnderWay => late < MaxLate
    /\ late' = IF UnderWay THEN late + 1 ELSE late
    /\ inbox' = <<>>
    /\ Fail
    /\ UNCHANGED <<op, drv, wire, outbox, fw, worldVars, since>>

-----------------------------------------------------------------------------
(* The firmware and the line, as the driver counts on them.                *)
PinLevel(pin) ==
    IF pin = 28 THEN (IF disk.protected THEN 0 ELSE 1) ELSE (IF disk.present THEN 1 ELSE 0)
FluxByte == 80
(* A stream of n flux bytes and its end.                                   *)
Flux(n) == [i \in 1..n |-> FluxByte] \o <<0>>
Answer(bytes) == outbox' = outbox \o bytes

(* While it waits for flux, whatever comes is taken for flux: a packet is  *)
(* swallowed, or holds the zero byte that ends the flux.                   *)
TakesFlux(p) ==
    \/ /\ fw.writing
       /\ Answer(<<0>>)
       /\ \E s \in {AckOk, AckFluxUnderflow} : fw' = [fw EXCEPT !.writing = FALSE, !.flux = s]
    \/ (fw.writing <=> p.do # "flux") /\ UNCHANGED <<outbox, fw>>
Heeds(p) == ~fw.writing /\ p.do # "flux"
TellsFlux(p) ==
    Heeds(p) /\ p.do = "fluxstatus" /\ Answer(<<Code[p.do], fw.flux>>) /\ UNCHANGED fw
Writes(p) ==
    /\ Heeds(p) /\ p.do = "write"
    /\ IF disk.protected
         THEN Answer(<<Code[p.do], AckWriteProtected>>) /\ UNCHANGED fw
         ELSE Answer(<<Code[p.do], AckOk>>) /\ fw' = [fw EXCEPT !.writing = TRUE]
Reads(p) ==
    /\ Heeds(p) /\ p.do = "read"
    /\ \E n \in 0..StreamBytes : Answer(<<Code[p.do], AckOk>> \o Flux(n))
    /\ \E s \in IF disk.present THEN {AckOk, AckFluxOverflow} ELSE {AckOk, AckNoIndex} :
         fw' = [fw EXCEPT !.flux = s]
Plain(p) == Heeds(p) /\ p.do \notin {"fluxstatus", "write", "read"}
Refuses(p) ==
    Heeds(p) /\ Refusals /\ Answer(<<Code[p.do], AckBadCommand>>) /\ UNCHANGED fw
Follows(p) ==
    CASE p.do = "pin" -> <<PinLevel(p.arg)>>
      [] p.do = "info" -> <<1>>
      [] p.do = "params" -> <<fw.delay>>
      [] OTHER -> <<>>
Does(p) ==
    CASE p.do \in {"select", "deselect"} -> [fw EXCEPT !.selected = p.do = "select"]
      [] p.do = "seek" -> [fw EXCEPT !.cyl = p.arg, !.placed = @ \cup {"cyl"}]
      [] p.do = "head" -> [fw EXCEPT !.side = p.arg, !.placed = @ \cup {"side"}]
      [] p.do = "motor" -> [fw EXCEPT !.motor = p.arg = 1]
      [] p.do = "setparams" -> [fw EXCEPT !.delay = p.arg]
      [] p.do = "reset" -> [fw EXCEPT !.selected = FALSE, !.motor = FALSE, !.delay = SpinUpDelay]
      [] OTHER -> fw
Obeys(p) == Plain(p) /\ Answer(<<Code[p.do], AckOk>> \o Follows(p)) /\ fw' = Does(p)

Firmware ==
    /\ wire # <<>>
    /\ wire' = Tail(wire)
    /\ LET p == Head(wire)
       IN TakesFlux(p) \/ TellsFlux(p) \/ Writes(p) \/ Reads(p) \/ Refuses(p) \/ Obeys(p)
    /\ UNCHANGED <<driverVars, inbox, worldVars, late, since>>

(* Bytes arrive in pieces.                                                 *)
Deliver ==
    /\ outbox # <<>>
    /\ inbox' = Append(inbox, Head(outbox))
    /\ outbox' = Tail(outbox)
    /\ UNCHANGED <<driverVars, wire, fw, worldVars, late, since>>

ChangeDisk ==
    /\ changes < MaxChanges
    /\ disk' \in Disks \ {disk}
    /\ changes' = changes + 1
    /\ since' = since \cup {disk'}
    /\ UNCHANGED <<driverVars, linkVars, fw, late>>

(* The firmware as an earlier session left it, crashed in a write perhaps: *)
(* the head stands anywhere.  `placed` is what Seek and Head have set      *)
(* since.                                                                  *)
FoundFirmware ==
    {[selected |-> selected, motor |-> motor, cyl |-> cyl, side |-> side, placed |-> {},
      delay |-> SpinUpDelay, writing |-> writing, flux |-> AckOk] :
        selected, motor, writing \in BOOLEAN, cyl, side \in {0, 1}}
Init ==
    /\ opened = "opening" /\ op = "open" /\ script = OpenScript /\ phase = "send" /\ attempt = 1
    /\ outcome = "none"
    /\ drv = [selected |-> FALSE, motor |-> FALSE, cyl |-> 0, side |-> 0, present |-> FALSE,
              protected |-> TRUE, delay |-> 0]
    /\ wire = <<>> /\ inbox = <<>>
    /\ outbox \in Leftovers \cup {<<>>}
    /\ fw \in FoundFirmware
    /\ disk \in Disks /\ late = 0 /\ changes = 0 /\ since = {disk}

Closed == opened = "closed" /\ UNCHANGED vars
Driver == Skip \/ Send \/ SendFlux \/ Acknowledge \/ TakePayload \/ TakeStream \/ TakeSync \/ Deadline
Next == Call \/ Drop \/ Driver \/ Firmware \/ Deliver \/ ChangeDisk \/ Closed
Spec == Init /\ [][Next]_vars

-----------------------------------------------------------------------------
(* InStep: between calls the link is silent.  Whatever a call came to, a   *)
(* refusal, an overflow and its purge, a write-protected disk, a stream    *)
(* that does not decode, it has read every byte the firmware owed it, so   *)
(* that the next call reads its own answers; and so has open, whatever an  *)
(* earlier session left on the line, a write it never finished included.   *)
(* Nor is the firmware left waiting for flux, where it would take the next *)
(* command for a track.  The flux itself gets through: MaxLate = 0.        *)
InStep ==
    /\ opened = "open" /\ Idle => wire = <<>> /\ outbox = <<>> /\ inbox = <<>>
    /\ opened = "open" /\ Idle => ~fw.writing

(* RecordsTrue: between calls the driver's view of the drive is the        *)
(* firmware's, after failed calls too.  `selected` decides which Select    *)
(* and Deselect commands are skipped, `motor` which reads leave the drive  *)
(* selected.  The cylinder is the head's, and within the drive's, once a   *)
(* Seek has put the head there, the side once a Head has chosen it; until  *)
(* then, as open moves nothing, each is recorded as 0, wherever it is.     *)
Agrees(d) ==
    /\ d.selected = fw.selected /\ d.motor = fw.motor
    /\ IF "cyl" \in fw.placed THEN d.cyl = fw.cyl /\ fw.cyl < MaxCylinders ELSE d.cyl = 0
    /\ d.side = IF "side" \in fw.placed THEN fw.side ELSE 0
RecordsTrue == opened = "open" /\ Idle => Agrees(drv)

(* PinsFresh: a status that succeeds tells of the disk as it has been at   *)
(* some moment of the call, on the bus that can be asked.                  *)
PinsFresh ==
    opened = "open" /\ Idle /\ outcome = "ok" /\ op \in {"open", "status", "noclick"} /\ Bus = 1 =>
       \E d, e \in since : drv.protected = d.protected /\ drv.present = e.present

(* LeftQuiet: a drive that is let go of with success stands still, whether *)
(* it was opened at all, and whatever was running when it was.             *)
LeftQuiet == opened = "closed" /\ outcome = "ok" => ~fw.motor

(* What makes these inductive, as long as no answer comes after its        *)
(* deadline and nothing an earlier session left behind can pass for the    *)
(* acknowledgement of a Reset or of a Motor command.                       *)
PunctualAnswers == MaxLate = 0
HarmlessLeftovers == \A l \in Leftovers : \A i \in DOMAIN l : l[i] \notin {Code.reset, Code.motor}

Steps == {"purge", "info", "version", "reset", "params", "step", "bus", "select", "pin", "presume",
         "idle", "delay", "motor", "deselect", "range", "seek", "head", "noclick", "read", "stream",
         "fluxstatus", "join", "timings", "write", "flux", "sync", "written"}
Todo == [do : Steps, arg : Nat]
Sent == [do : DOMAIN Code \cup {"flux"}, arg : Nat]
Byte == Nat
TypeOK ==
    /\ opened \in {"opening", "open", "closing", "closed"}
    /\ outcome \in {"none", "ok", "failed"} /\ attempt \in Nat
    /\ script \in Seq(Todo) /\ phase \in {"send", "ack", "payload"} /\ (Idle => phase = "send")
    /\ drv \in [selected : BOOLEAN, motor : BOOLEAN, cyl : Nat, side : Nat, present : BOOLEAN,
                protected : BOOLEAN, delay : Nat]
    /\ wire \in Seq(Sent)
    /\ inbox \in Seq(Byte) /\ outbox \in Seq(Byte)
    /\ fw \in [selected : BOOLEAN, motor : BOOLEAN, cyl : Nat, side : Nat,
               placed : SUBSET {"cyl", "side"}, delay : Nat, writing : BOOLEAN, flux : Nat]
    /\ disk \in Disks /\ since \subseteq Disks /\ late \in Nat /\ changes \in Nat

(* What is in a script, whatever is left of it: a write is followed by its *)
(* flux and the byte that completes it, a read by its stream, and they by  *)
(* nothing else; a seek has its range checked; a reset is the first        *)
(* exchange but for the questions after the firmware, and the only one.    *)
Ahead(do) == \E i \in DOMAIN script : script[i].do = do
ScriptOK(s) ==
    \A i \in DOMAIN s :
       /\ s[i].do = "write" => i + 1 \in DOMAIN s /\ s[i + 1].do = "flux"
       /\ s[i].do = "flux" => i + 1 \in DOMAIN s /\ s[i + 1].do = "sync"
       /\ s[i].do = "read" => i + 1 \in DOMAIN s /\ s[i + 1].do = "stream"
       /\ s[i].do = "flux" /\ i > 1 => s[i - 1].do = "write"
       /\ s[i].do = "sync" /\ i > 1 => s[i - 1].do = "flux"
       /\ s[i].do = "stream" /\ i > 1 => s[i - 1].do = "read"
       /\ s[i].do = "seek" =>
             \/ s[i].arg < MaxCylinders
             \/ \E j \in 1..(i - 1) : s[j].do = "range" /\ s[j].arg = s[i].arg
       /\ s[i].do = "reset" =>
             \A j \in DOMAIN s : /\ j < i => s[j].do \in {"purge", "info", "version"}
                                 /\ j > i => s[j].do # "reset"

(* Bytes the driver has yet to read.                                       *)
Link == inbox \o outbox
Silent == wire = <<>> /\ Link = <<>>
(* The end of a flux stream is its first zero byte.                        *)
StreamFrom(k) ==
    /\ Len(Link) >= k /\ Link[Len(Link)] = 0
    /\ \A i \in k..(Len(Link) - 1) : Link[i] # 0

(* Synced: one exchange at a time.  Each packet is still on its way or its *)
(* answer, and nothing but its answer, is yet to be read; the driver's     *)
(* view is the firmware's, but for the acknowledgement on its way.         *)
Answered ==
    /\ wire = <<>> /\ Len(Link) >= 2 /\ Link[1] = Code[Packet.do]
    /\ \/ Link[2] # AckOk /\ Len(Link) = 2 /\ Agrees(drv) /\ ~fw.writing
       \/ /\ Link[2] = AckOk /\ Agrees(Recorded) /\ fw.writing = (Now = "write")
          /\ IF Now = "read" THEN StreamFrom(3)
             ELSE Len(Link) = IF Payload THEN 3 ELSE 2
Exchange ==
    /\ phase = "send" /\ (Idle \/ Now \notin {"stream", "sync"}) =>
         Silent /\ Agrees(drv) /\ fw.writing = (~Idle /\ Now = "flux")
    /\ phase = "send" /\ ~Idle /\ Now = "stream" =>
         wire = <<>> /\ Agrees(drv) /\ ~fw.writing /\ StreamFrom(1)
    /\ phase = "send" /\ ~Idle /\ Now = "sync" =>
         /\ Agrees(drv)
         /\ \/ wire = <<Step("flux", 0)>> /\ Link = <<>> /\ fw.writing
            \/ wire = <<>> /\ Link = <<0>> /\ ~fw.writing
    /\ phase = "ack" =>
         /\ Now \notin {"stream", "sync", "flux"} /\ Packet.do \in DOMAIN Code
         /\ \/ wire = <<Packet>> /\ Link = <<>> /\ Agrees(drv) /\ ~fw.writing
            \/ Answered
    /\ phase = "payload" =>
         Payload /\ wire = <<>> /\ Len(Link) = 1 /\ Agrees(drv) /\ ~fw.writing
Synced == ~Ahead("reset") /\ Exchange

(* Foreign: open has not got as far as its Reset, or has failed before it  *)
(* and is being dropped.  Whatever is on the line, a Reset or a Motor that *)
(* is acknowledged on it has been done, and after a Reset that open has    *)
(* sent there is nothing else.                                             *)
Resetting == Now = "reset" /\ phase = "ack"
ForeignScript ==
    /\ opened # "open" /\ (opened = "opening" => Ahead("reset"))
    /\ opened = "closing" => \A i \in DOMAIN script : script[i].do \in {"delay", "motor", "deselect"}
    /\ phase = "payload" => Now = "info"
ForeignDrive ==
    ~drv.selected /\ ~drv.motor /\ drv.cyl = 0 /\ drv.side = 0 /\ fw.placed = {}
ForeignWire ==
    \A i \in DOMAIN wire :
       /\ wire[i].do \in {"info", "reset", "setparams", "motor"}
       /\ wire[i].do = "motor" => wire[i].arg = 0
       /\ wire[i].do = "reset" /\ opened = "opening" => i = Len(wire) /\ Resetting
ForeignLink ==
    \A i \in DOMAIN Link :
       /\ Link[i] = Code.motor => i < Len(Link) /\ (Link[i + 1] = AckOk => ~fw.motor)
       /\ Link[i] = Code.reset /\ opened = "opening" =>
            /\ wire = <<>> /\ i = Len(Link) - 1 /\ Resetting
            /\ Link[i + 1] = AckOk => ~fw.selected /\ ~fw.motor /\ ~fw.writing
Foreign == ForeignScript /\ ForeignDrive /\ ForeignWire /\ ForeignLink

(* Letting go: once a drop has no Motor command left to send, none can be  *)
(* running.                                                                *)
LettingGo ==
    /\ opened = "closing" =>
         /\ ~Idle /\ \A i \in DOMAIN script : script[i].do = "motor" => script[i].arg = 0
         /\ ~Ahead("motor") => ~fw.motor
    /\ opened = "closed" => Idle
    /\ LeftQuiet
LinkInv == ScriptOK(script) /\ (Synced \/ Foreign) /\ LettingGo

(* Every exchange has a deadline, the firmware answers and bytes arrive.   *)
FairSpec == Spec /\ WF_vars(Driver) /\ WF_vars(Firmware) /\ WF_vars(Deliver)

(* Returns: every call ends, late answers, refusals and overflows or not.  *)
Returns == ~Idle ~> Idle
=============================================================================
