---------------------------- MODULE SuperCardPro ----------------------------
(***************************************************************************)
(* The SuperCard Pro backend (src/src/device/supercard_pro.rs): its        *)
(* driver, the line, and the firmware as the driver counts on it.  As in   *)
(* Greaseweazle, a Device method is a script of steps.  An answer is the   *)
(* command's code and a response; the commands have the names of the enum  *)
(* Command, and a payload, a flux interval and an index mark count as one  *)
(* byte each.                                                              *)
(***************************************************************************)
EXTENDS Integers, Sequences, FiniteSets

CONSTANTS
    Drive,       \* DriveSelect::PcA or PcB: "A" or "B"
    Cylinders,   \* the cylinders the worker seeks in an instance
    Ops,         \* the Device methods it calls
    Modes,       \* the ReadModes it may be configured with
    Disks,       \* the disks that may be in the drive
    Refusals,    \* may the firmware refuse a command?
    Leftovers,   \* bytes an earlier session may have left on the line
    Heads,       \* where it may have left the head
    \* bounds of an instance
    MaxLate,     \* deadlines that pass while an answer is under way
    MaxChanges,  \* disk changes
    MaxQueued,   \* bytes that may lie on the line
    MaxStream,   \* MAX_STREAM_BYTES
    TargetBytes  \* the intervals that make target_duration

MaxCylinders == 84
Units == {"A", "B"}

ASSUME SuperCardProAssumption ==
    /\ Drive \in Units
    /\ Cylinders \subseteq Nat
    /\ Ops \subseteq {"status", "on", "off", "seek", "side", "noclick", "read", "write"}
    /\ Modes \subseteq {"Normal", "Compatible", "Stalling"}
    /\ Disks \subseteq [present : BOOLEAN, protected : BOOLEAN]
    /\ Refusals \in BOOLEAN
    /\ Leftovers \subseteq Seq(STRING)
    /\ Heads \subseteq [cyl : Nat, side : {0, 1}]
    /\ {MaxLate, MaxChanges, MaxQueued, MaxStream, TargetBytes} \subseteq Nat

VARIABLES
    mode,     \* config.mode
    opened,   \* "opening", "open", "closing" (dropped) or "closed"
    script,   \* the steps of the current call that are still to do
    phase,    \* of the first of them: "send", "ack", "payload"
    got,      \* read_stream: bytes_seen and indices
    drv,      \* the fields of the SuperCardPro struct
    wire,     \* packets on their way to the firmware
    outbox,   \* bytes the firmware has sent, not yet arrived
    inbox,    \* bytes that have arrived, not yet read
    fw, disk,
    late, changes,
    trouble   \* history: what went wrong that nothing recovers from

callVars == <<mode, opened, script, phase, got>>
linkVars == <<wire, outbox, inbox>>
historyVars == <<late, changes, trouble>>
vars == <<callVars, drv, linkVars, fw, disk, historyVars>>

Step(do, arg) == [do |-> do, arg |-> arg]
Idle == script = <<>>
Nothing == [bytes |-> 0, indices |-> 0]
(* The commands come in pairs, one for each drive.                         *)
Command(a, b) == Step(IF Drive = "A" THEN a ELSE b, 0)
Select == Command("SelectA", "SelectB")
Deselect == Command("DeselectA", "DeselectB")
MotorOn == Command("MotorAOn", "MotorBOn")
MotorOff == Command("MotorAOff", "MotorBOff")

-----------------------------------------------------------------------------
(* The Device methods.  "select" and "deselect" do nothing where the       *)
(* driver thinks it done; "idle" deselects a drive whose motor is off.     *)
CheckPins == <<Step("select", 0), Step("Status", 0), Step("idle", 0)>>
OpenOneDrive ==   \* mutant: the other drive is left as it is
    <<Step("purge", 0), Step("Info", 0), Step("version", 0), MotorOff, Deselect, Step("SeekZero", 0)>>
    \o CheckPins
OpenScript ==
    <<Step("purge", 0), Step("Info", 0), Step("version", 0), Step("MotorAOff", 0),
      Step("MotorBOff", 0), Step("DeselectA", 0), Step("DeselectB", 0), Step("SeekZero", 0)>>
    \o CheckPins
MotorScript(on) ==
    IF on THEN <<Step("SetParams", 0), MotorOn, Step("select", 0)>>
          ELSE <<MotorOff, Step("deselect", 0)>>
SeekUnselected(c) == <<Step("range", c), Step("StepTo", c), Step("idle", 0)>>   \* mutant
SeekScript(c) == <<Step("range", c), Step("select", 0), Step("StepTo", c), Step("idle", 0)>>
SideScript(s) == <<Step("select", 0), Step("Side", s), Step("idle", 0)>>
NoClickScript == <<Step("zero", 0), Step("select", 0), Step("StepOut", 0)>> \o CheckPins
ReadUnstopped ==   \* mutant: the stream is left running
    <<Step("select", 0), Step("StartStream", 0), Step("stream", 0), Step("idle", 0), Step("join", 0)>>
ReadScript ==
    <<Step("select", 0), Step("StartStream", 0), Step("stream", 0), Step("StopStream", 0),
      Step("idle", 0), Step("join", 0)>>
WriteScript ==
    <<Step("timings", 0), Step("LoadRamUsb", 0), Step("select", 0), Step("WriteFlux", 0)>>

Scripts ==
    UNION { IF "status" \in Ops THEN {CheckPins} ELSE {},
            IF "on" \in Ops THEN {MotorScript(TRUE)} ELSE {},
            IF "off" \in Ops THEN {MotorScript(FALSE)} ELSE {},
            IF "seek" \in Ops THEN {SeekScript(c) : c \in Cylinders} ELSE {},
            IF "side" \in Ops THEN {SideScript(s) : s \in {0, 1}} ELSE {},
            IF "noclick" \in Ops THEN {NoClickScript} ELSE {},
            IF "read" \in Ops /\ drv.motor /\ drv.present THEN {ReadScript} ELSE {},
            IF "write" \in Ops THEN {WriteScript} ELSE {} }

-----------------------------------------------------------------------------
(* Steps of the driver.                                                    *)
Now == script[1].do
Arg == script[1].arg

Packet ==
    CASE Now = "select" -> Select
      [] Now \in {"deselect", "idle"} -> Deselect
      [] OTHER -> script[1]
Local ==
    \/ Now \in {"purge", "version", "range", "zero", "join", "timings"}
    \/ Now = "select" /\ drv.selected
    \/ Now = "deselect" /\ ~drv.selected
    \/ Now = "idle" /\ (drv.motor \/ ~drv.selected)
Streamed == Now = "stream"

(* The first step of the script is done.  Once the head is at zero, the    *)
(* device is open whatever check_pins says.                                *)
Advance ==
    /\ script' = Tail(script) /\ phase' = "send" /\ got' = Nothing
    /\ opened' = CASE Now = "SeekZero" -> "open"
                   [] opened = "closing" /\ script' = <<>> -> "closed"
                   [] OTHER -> opened
Fail ==
    /\ phase' = "send" /\ got' = Nothing
    /\ script' = IF opened = "opening" THEN MotorScript(FALSE) ELSE <<>>
    /\ opened' = CASE opened = "opening" -> "closing"
                   [] opened = "closing" -> "closed"
                   [] OTHER -> opened

(* The worker reads where it has seen the motor run and a disk.            *)
Call ==
    /\ Idle /\ opened = "open" /\ Len(inbox) + Len(outbox) + Len(wire) <= MaxQueued
    /\ script' \in Scripts
    /\ UNCHANGED <<mode, opened, phase, got, drv, linkVars, fw, disk, historyVars>>

Drop ==
    /\ Idle /\ opened = "open"
    /\ opened' = "closing" /\ script' = MotorScript(FALSE)
    /\ UNCHANGED <<mode, phase, got, drv, linkVars, fw, disk, historyVars>>

(* A step without an exchange.  A firmware may be too old, words may not   *)
(* be encodable and a capture may not join.                                *)
Skip ==
    /\ ~Idle /\ phase = "send" /\ Local
    /\ inbox' = IF Now = "purge" THEN <<>> ELSE inbox
    /\ LET refused == \/ Now = "range" /\ Arg >= MaxCylinders
                      \/ Now = "zero" /\ drv.cyl # 0
       IN \/ ~refused /\ Advance /\ UNCHANGED trouble
          \/ /\ refused \/ Now \in {"version", "timings", "join"}
             /\ Fail
             /\ trouble' = IF Now = "version" THEN trouble \cup {"old"} ELSE trouble
    /\ UNCHANGED <<mode, drv, wire, outbox, fw, disk, late, changes>>

Send ==
    /\ ~Idle /\ phase = "send" /\ ~Local /\ ~Streamed
    /\ wire' = Append(wire, Packet)
    /\ phase' = "ack"
    /\ UNCHANGED <<mode, opened, script, got, drv, outbox, inbox, fw, disk, historyVars>>

DeselectUnrecorded ==   \* mutant: a drive that idles is thought selected
    CASE Now = "select" -> [drv EXCEPT !.selected = TRUE]
      [] Now = "StepTo" -> [drv EXCEPT !.cyl = Arg]
      [] Now = "Side" -> [drv EXCEPT !.side = Arg]
      [] script[1] = MotorOn -> [drv EXCEPT !.motor = TRUE]
      [] script[1] = MotorOff -> [drv EXCEPT !.motor = FALSE]
      [] OTHER -> drv
Recorded ==
    CASE Now = "select" -> [drv EXCEPT !.selected = TRUE]
      [] Now \in {"deselect", "idle"} -> [drv EXCEPT !.selected = FALSE]
      [] Now = "StepTo" -> [drv EXCEPT !.cyl = Arg]
      [] Now = "Side" -> [drv EXCEPT !.side = Arg]
      [] script[1] = MotorOn -> [drv EXCEPT !.motor = TRUE]
      [] script[1] = MotorOff -> [drv EXCEPT !.motor = FALSE]
      [] OTHER -> drv

(* raw_command: code and response, and map_response on what is not OK.     *)
Acknowledge ==
    /\ phase = "ack" /\ Now # "StopStream" /\ Len(inbox) >= 2
    /\ inbox' = SubSeq(inbox, 3, Len(inbox))
    /\ IF inbox[1] = Packet.do /\ inbox[2] = "OK"
         THEN IF Now \in {"Info", "Status"}
                THEN phase' = "payload" /\ UNCHANGED <<opened, script, got, drv>>
                ELSE Advance /\ drv' = Recorded
         ELSE /\ Fail
              /\ drv' = CASE inbox[1] # Packet.do -> drv
                          [] Now = "StartStream" /\ inbox[2] \in {"NO_DISK", "NOT_READY"} ->
                               [drv EXCEPT !.present = FALSE]
                          [] Now = "WriteFlux" /\ inbox[2] = "WRITE_PROTECTED" ->
                               [drv EXCEPT !.protected = TRUE]
                          [] OTHER -> drv
    /\ UNCHANGED <<mode, wire, outbox, fw, disk, historyVars>>

TakePayload ==
    /\ phase = "payload" /\ inbox # <<>>
    /\ inbox' = Tail(inbox)
    /\ drv' = IF Now = "Info" THEN drv
              ELSE [drv EXCEPT !.present = inbox[1] \in {"disk", "protected"},
                               !.protected = inbox[1] \in {"protected", "none"}]
    /\ Advance
    /\ UNCHANGED <<mode, wire, outbox, fw, disk, historyVars>>

(* The loop of read_stream, up to the second index or the duration.        *)
TakeStream ==
    /\ ~Idle /\ Streamed
    /\ IF got.bytes >= MaxStream
         THEN Fail /\ trouble' = trouble \cup {"abandoned"} /\ UNCHANGED inbox
         ELSE /\ inbox # <<>>
              /\ inbox' = Tail(inbox)
              /\ LET now == [bytes |-> got.bytes + 1,
                             indices |-> got.indices + IF inbox[1] = "index" THEN 1 ELSE 0]
                 IN IF IF mode = "Normal" THEN now.bytes - now.indices >= TargetBytes
                                          ELSE now.indices >= 2
                      THEN Advance
                      ELSE got' = now /\ UNCHANGED <<opened, script, phase>>
              /\ UNCHANGED trouble
    /\ UNCHANGED <<mode, drv, wire, outbox, fw, disk, late, changes>>

(* The scan for de ad, the code and a response; a purge after an OK.       *)
TakeStop ==
    /\ phase = "ack" /\ Now = "StopStream" /\ inbox # <<>>
    /\ CASE inbox[1] = "stopped" ->
              /\ inbox' = <<>> /\ drv' = [drv EXCEPT !.present = TRUE] /\ Advance
         [] inbox[1] = "overrun" -> inbox' = Tail(inbox) /\ Fail /\ UNCHANGED drv
         [] OTHER -> inbox' = Tail(inbox) /\ UNCHANGED <<opened, script, phase, got, drv>>
    /\ UNCHANGED <<mode, wire, outbox, fw, disk, historyVars>>

ReadingAnswers == ~Idle /\ phase # "send"   \* mutant: a stream is waited for as long as it takes
Reading == ~Idle /\ (phase # "send" \/ Streamed)
UnderWay == wire # <<>> \/ outbox # <<>>
Turning == disk.present /\ fw.motor[Drive]
Wanted == IF phase = "ack" /\ Now # "StopStream" THEN 2 ELSE 1
(* The deadline passes: two seconds for an answer, three for a stream and  *)
(* its end together.  A stream has none but that of a disk that was taken  *)
(* out or does not turn, and is not told to stop.                          *)
Deadline ==
    /\ Reading
    /\ IF Streamed THEN ~(Turning /\ fw.streaming) ELSE Len(inbox) < Wanted
    /\ UnderWay /\ ~Streamed => late < MaxLate
    /\ late' = IF UnderWay /\ ~Streamed THEN late + 1 ELSE late
    /\ trouble' = IF Streamed THEN trouble \cup {"abandoned"} ELSE trouble
    /\ inbox' = IF Streamed THEN inbox ELSE <<>>
    /\ Fail
    /\ UNCHANGED <<mode, drv, wire, outbox, fw, disk, changes>>

-----------------------------------------------------------------------------
(* The firmware and the line, as the driver counts on them.                *)
Pins ==
    IF disk.present THEN IF disk.protected THEN "protected" ELSE "disk"
                    ELSE IF disk.protected THEN "none" ELSE "empty"
(* The commands that act on a drive.  They are refused where it is not     *)
(* selected, but for SeekZero: open counts on its OK with both drives      *)
(* deselected, and then no head moves.                                     *)
NeedDrive == {"SeekZero", "StepTo", "Side", "StepOut", "Status", "StartStream", "WriteFlux"}
Insists == NeedDrive \ {"SeekZero"}
Obeyed(p) ==
    CASE p.do = "SelectA" -> [fw EXCEPT !.selected["A"] = TRUE]
      [] p.do = "SelectB" -> [fw EXCEPT !.selected["B"] = TRUE]
      [] p.do = "DeselectA" -> [fw EXCEPT !.selected["A"] = FALSE]
      [] p.do = "DeselectB" -> [fw EXCEPT !.selected["B"] = FALSE]
      [] p.do = "MotorAOn" -> [fw EXCEPT !.motor["A"] = TRUE]
      [] p.do = "MotorBOn" -> [fw EXCEPT !.motor["B"] = TRUE]
      [] p.do = "MotorAOff" -> [fw EXCEPT !.motor["A"] = FALSE]
      [] p.do = "MotorBOff" -> [fw EXCEPT !.motor["B"] = FALSE]
      [] p.do = "SeekZero" -> IF fw.selected[Drive] THEN [fw EXCEPT !.cyl = 0] ELSE fw
      [] p.do = "StepTo" -> [fw EXCEPT !.cyl = p.arg, !.placed = @ \cup {"cyl"}]
      [] p.do = "StepOut" -> [fw EXCEPT !.cyl = IF fw.cyl = 0 THEN 0 ELSE fw.cyl - 1]
      [] p.do = "Side" -> [fw EXCEPT !.side = p.arg, !.placed = @ \cup {"side"}]
      [] p.do = "StartStream" -> [fw EXCEPT !.streaming = TRUE]
      [] OTHER -> fw
(* Why a command may be refused.                                           *)
Objections(p) ==
    (IF Refusals THEN {"BAD"} ELSE {})
    \cup (IF p.do \in Insists /\ ~fw.selected[Drive] THEN {"NOT_READY"} ELSE {})
    \cup (IF p.do = "StartStream" /\ ~disk.present THEN {"NO_DISK"} ELSE {})
    \cup (IF p.do = "WriteFlux" /\ disk.protected THEN {"WRITE_PROTECTED"} ELSE {})

Firmware ==
    /\ wire # <<>>
    /\ wire' = Tail(wire)
    /\ LET p == Head(wire)
       IN \/ /\ p.do = "StopStream" /\ fw.streaming
             /\ \E end \in {"stopped", "overrun"} : outbox' = Append(outbox, end)
             /\ fw' = [fw EXCEPT !.streaming = FALSE]
             /\ UNCHANGED trouble
          \/ /\ p.do = "StopStream" /\ ~fw.streaming
             /\ UNCHANGED <<outbox, fw, trouble>>
          \/ /\ p.do # "StopStream"
             /\ Objections(p) \subseteq {"BAD"}
             /\ outbox' = outbox \o <<p.do, "OK">>
                                 \o (CASE p.do = "Status" -> <<Pins>>
                                       [] p.do = "Info" -> <<"info">>
                                       [] OTHER -> <<>>)
             /\ fw' = Obeyed(p)
             /\ UNCHANGED trouble
          \/ /\ p.do # "StopStream"
             /\ \E r \in Objections(p) : outbox' = outbox \o <<p.do, r>>
             /\ trouble' = IF opened = "open" THEN trouble ELSE trouble \cup {"refused"}
             /\ UNCHANGED fw
    /\ UNCHANGED <<callVars, drv, inbox, disk, late, changes>>

Stream ==
    /\ fw.streaming /\ Len(outbox) + Len(inbox) < MaxQueued
    /\ \E b \in IF Turning THEN {"flux", "index"} ELSE {"flux"} : outbox' = Append(outbox, b)
    /\ UNCHANGED <<callVars, drv, wire, inbox, fw, disk, historyVars>>

Deliver ==
    /\ outbox # <<>>
    /\ inbox' = Append(inbox, Head(outbox))
    /\ outbox' = Tail(outbox)
    /\ UNCHANGED <<callVars, drv, wire, fw, disk, historyVars>>

ChangeDisk ==
    /\ changes < MaxChanges
    /\ disk' \in Disks \ {disk}
    /\ changes' = changes + 1
    /\ UNCHANGED <<callVars, drv, linkVars, fw, late, trouble>>

(* The firmware as an earlier session left it, streaming perhaps.          *)
(* `placed` is what StepTo and Side have set since.                        *)
FoundFirmware ==
    {[selected |-> [u \in Units |-> on], motor |-> [u \in Units |-> on], cyl |-> head.cyl,
      side |-> head.side, placed |-> {}, streaming |-> streaming] :
        on, streaming \in BOOLEAN, head \in Heads}
Init ==
    /\ mode \in Modes
    /\ opened = "opening" /\ script = OpenScript /\ phase = "send" /\ got = Nothing
    /\ drv = [selected |-> FALSE, motor |-> FALSE, cyl |-> 0, side |-> 0, present |-> FALSE,
              protected |-> FALSE]
    /\ wire = <<>> /\ inbox \in Leftovers \cup {<<>>} /\ outbox = <<>>
    /\ fw \in FoundFirmware
    /\ trouble = IF fw.streaming THEN {"abandoned"} ELSE {}
    /\ disk \in Disks /\ late = 0 /\ changes = 0

Closed == opened = "closed" /\ UNCHANGED vars
Driver ==
    Skip \/ Send \/ Acknowledge \/ TakePayload \/ TakeStream \/ TakeStop \/ Deadline
Next == Call \/ Drop \/ Driver \/ Firmware \/ Stream \/ Deliver \/ ChangeDisk \/ Closed
Spec == Init /\ [][Next]_vars

-----------------------------------------------------------------------------
Sound == late = 0 /\ "abandoned" \notin trouble
(* InStep: between calls the line is silent and no stream runs, whatever   *)
(* was refused, protected or garbled, but for late answers and for a       *)
(* stream that the driver, or one of an earlier session, gave up on: it is *)
(* never told to stop.                                                     *)
InStep ==
    opened = "open" /\ Idle /\ Sound =>
       wire = <<>> /\ outbox = <<>> /\ inbox = <<>> /\ ~fw.streaming

(* RecordsTrue: the driver's view of the drive is the firmware's, failed   *)
(* calls and an overrun included, and the other drive's cable is idle.     *)
(* The cylinder and the side hold from the first StepTo and the first Side *)
(* on; before that they are 0, wherever the head is.                       *)
RecordsTrue ==
    opened = "open" /\ Idle /\ Sound =>
       /\ drv.selected = fw.selected[Drive] /\ drv.motor = fw.motor[Drive]
       /\ drv.cyl = (IF "cyl" \in fw.placed THEN fw.cyl ELSE 0) /\ drv.cyl < MaxCylinders
       /\ drv.side = IF "side" \in fw.placed THEN fw.side ELSE 0
       /\ \A u \in Units \ {Drive} : ~fw.selected[u] /\ ~fw.motor[u]

(* Addressed: no command that acts on a drive reaches the firmware while   *)
(* the drive is not selected, although selections are cached and dropped   *)
(* whenever the motor rests.  The one exception is the SeekZero of open:   *)
(* it comes when neither drive is selected.  And the step of no_click_step *)
(* finds a head that StepTo has placed at cylinder zero, where it moves    *)
(* nothing.                                                                *)
Addressed ==
    wire # <<>> /\ Sound =>
       /\ Head(wire).do \in NeedDrive \ {"SeekZero"} => fw.selected[Drive]
       /\ Head(wire).do = "SeekZero" => \A u \in Units : ~fw.selected[u]
       /\ Head(wire).do = "StepOut" /\ "cyl" \in fw.placed => fw.cyl = 0

(* LeftQuiet: a card that is let go of, opened or not, stops its drive,    *)
(* late answers and streams that still run included: the motor is off or   *)
(* the command is on its way.  And unless there were any, both motors are  *)
(* off, but for the other drive's if the firmware is too old to be used.   *)
LeftQuiet ==
    opened = "closed" /\ "refused" \notin trouble =>
       /\ fw.motor[Drive] => \E i \in DOMAIN wire : wire[i] = MotorOff
       /\ Sound => \A u \in Units : fw.motor[u] => u # Drive /\ "old" \in trouble

(* Every exchange has a deadline, the firmware answers, a disk that turns  *)
(* has flux and bytes arrive.                                              *)
FairSpec == Spec /\ WF_vars(Driver) /\ WF_vars(Firmware) /\ WF_vars(Turning /\ Stream) /\ WF_vars(Deliver)

(* Returns: every call ends, streams without an end included.              *)
Returns == ~Idle ~> Idle
=============================================================================
