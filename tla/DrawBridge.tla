----------------------------- MODULE DrawBridge -----------------------------
(***************************************************************************)
(* The DrawBridge backend (src/src/device/drawbridge.rs): its driver, the  *)
(* line, and the firmware as the driver counts on it.  As in Greaseweazle, *)
(* a Device method is a script of steps.  Unlike there an answer does not  *)
(* name its command, and a track is streamed until the driver sends an x.  *)
(* A byte is a character; "F" stands for three feature bytes, "V" for a    *)
(* version reply, "S" for XYZx1, "f" for a byte of flux and "i" for one at *)
(* the index.                                                              *)
(***************************************************************************)
EXTENDS Integers, Sequences, FiniteSets

CONSTANTS
    Cylinders,   \* the cylinders the worker seeks in an instance
    Ops,         \* the Device methods it calls
    Configs,     \* the read modes and densities it may be configured with
    Boards,      \* the firmwares it may meet
    Disks,       \* the disks that may be in the drive
    LeftModes,   \* what an earlier session may have left the firmware doing
    Refusals,    \* may the firmware refuse a command?
    \* bounds of an instance
    MaxLate,     \* deadlines that pass while an answer is under way
    MaxChanges,  \* disk changes
    MaxQueued,   \* bytes that may lie on the line
    MaxStream,   \* MAX_STREAM_BYTES
    TargetBytes, \* the bytes that make target_bits
    MaxErrors    \* MAX_CONSECUTIVE_ERRORS of the worker

MaxCylinders == 84

ASSUME DrawBridgeAssumption ==
    /\ Cylinders \subseteq Nat
    /\ Ops \subseteq {"status", "on", "off", "seek", "side", "noclick", "read", "write"}
    /\ Configs \subseteq [mode : {"Normal", "Compatible", "Stalling"},
                           density : {"Auto", "Double", "High"}]
    /\ Boards \subseteq [minor : Nat, full : BOOLEAN, detect : BOOLEAN]
    /\ Disks \subseteq [present : BOOLEAN, protected : BOOLEAN, high : BOOLEAN]
    /\ LeftModes \subseteq {"idle", "stream", "permitted", "data"}
    /\ Refusals \in BOOLEAN
    /\ {MaxLate, MaxChanges, MaxQueued, MaxStream, TargetBytes, MaxErrors} \subseteq Nat

VARIABLES
    config,
    opened,   \* "opening", "open", "closing" (dropped) or "closed"
    op,       \* the current call
    script,   \* the steps of the current call that are still to do
    sent,     \* has the first of them sent its packet?
    attempt,  \* of sync_version
    got,      \* read_stream: bytes_seen, and first_index
    drv,      \* the fields of the DrawBridge struct
    wire,     \* packets on their way to the firmware
    outbox,   \* bytes the firmware has sent, not yet arrived
    inbox,    \* bytes that have arrived, not yet read
    board, fw, disk,
    late, changes,
    trouble,  \* history: what went wrong that the line cannot recover from
    errors    \* the worker's consecutive_errors

callVars == <<opened, op, script, sent, attempt, got>>
linkVars == <<wire, outbox, inbox>>
historyVars == <<late, changes, trouble, errors>>
vars == <<config, callVars, drv, linkVars, board, fw, disk, historyVars>>

Step(do, arg) == [do |-> do, arg |-> arg]
Idle == script = <<>>
None == [bytes |-> 0, index |-> FALSE]

-----------------------------------------------------------------------------
(* The Device methods.                                                     *)
OpenScript ==
    <<Step("purge", 0), Step("sync", 0), Step("version", 0), Step("purge", 0),
      Step("features", 0), Step("rewind", 0), Step("disk", 0)>>
(* choose_density: Auto asks a firmware that can tell.                     *)
DensityScript ==
    IF config.density = "Auto" /\ drv.detect THEN <<Step("density", 0)>>
                                      ELSE <<Step("high", config.density = "High")>>
ReadUnstopped ==   \* mutant: the stream is left running
    DensityScript \o <<Step("read", 0), Step("stream", 0), Step("join", 0)>>
ReadScript ==
    DensityScript \o <<Step("read", 0), Step("stream", 0), Step("stop", 0), Step("join", 0)>>
WriteScript ==
    DensityScript \o <<Step("encode", 0), Step("permit", 0), Step("length", 0), Step("ready", 0),
                       Step("data", 0)>>
DropSilent == <<Step("purge", 0)>>   \* mutant: the motor is forgotten
DropScript == <<Step("motor", FALSE)>>
SeekScript(c) == <<Step("range", c), Step("seek", c)>>
NoClickScript == IF drv.full THEN <<Step("noclick", 0)>> ELSE <<Step("nothing", 0)>>

Scripts ==
    [op : {"status"} \cap Ops, script : {<<Step("disk", 0)>>}]
    \cup [op : {"on"} \cap Ops, script : {<<Step("motor", TRUE)>>}]
    \cup [op : {"off"} \cap Ops, script : {<<Step("motor", FALSE)>>}]
    \cup [op : {"seek"} \cap Ops, script : {SeekScript(c) : c \in Cylinders}]
    \cup [op : {"side"} \cap Ops, script : {<<Step("side", s)>> : s \in {0, 1}}]
    \cup [op : {"noclick"} \cap Ops, script : {NoClickScript}]
    \cup [op : IF drv.motor /\ drv.present THEN {"read"} \cap Ops ELSE {}, script : {ReadScript}]
    \cup [op : {"write"} \cap Ops, script : {WriteScript}]

-----------------------------------------------------------------------------
(* Steps of the driver.                                                    *)
Now == script[1].do
Arg == script[1].arg

Local ==
    \/ Now \in {"purge", "pulse", "version", "range", "nothing", "encode", "length", "join"}
    \/ Now = "features" /\ drv.minor < 9
    \/ Now = "high" /\ drv.high = Arg
(* The worker's note_error: a read that times out is no error, and most    *)
(* successes forget the errors before them.                                *)
Counted(result) ==
    CASE opened # "open" -> errors
      [] result = "ok" -> IF op \in {"write", "noclick"} THEN errors ELSE 0
      [] result = "timeout" /\ op = "read" -> errors
      [] OTHER -> IF errors < MaxErrors THEN errors + 1 ELSE errors

Done(result) ==
    /\ sent' = FALSE /\ attempt' = 1 /\ got' = None
    /\ op' = (IF opened = "open" THEN "none" ELSE op) /\ errors' = Counted(result)
Then(steps) ==   \* the first step of the script gives way to these
    /\ script' = steps \o Tail(script)
    /\ IF script' # <<>>
         THEN sent' = FALSE /\ got' = None /\ UNCHANGED <<opened, attempt, op, errors>>
         ELSE opened' = (IF opened = "closing" THEN "closed" ELSE "open") /\ Done("ok")

ResyncOnly == <<Step("purge", 0), Step("sync", 0)>>   \* mutant: the reset pulse is missing
Resync == <<Step("pulse", 0), Step("purge", 0), Step("sync", 0)>>
Fail(result) ==
    CASE opened = "opening" /\ Now = "sync" /\ attempt = 1 ->
           /\ script' = Resync \o Tail(script)
           /\ attempt' = 2 /\ sent' = FALSE
           /\ UNCHANGED <<opened, got, op, errors>>
      [] opened = "opening" /\ Now = "disk" -> Then(<<>>)   \* let _ = check_disk()
      [] opened = "opening" /\ (Now = "version" \/ (Now = "sync" /\ attempt = 2)) ->   \* no device to drop
           opened' = "closed" /\ script' = <<>> /\ Done(result)
      [] opened = "opening" /\ Now \notin {"sync", "version", "disk"} ->
           opened' = "closing" /\ script' = DropScript /\ Done(result)
      [] OTHER ->
           /\ opened' = (IF opened = "closing" THEN "closed" ELSE opened)
           /\ script' = <<>> /\ Done(result)

(* The worker calls until it has failed.                                   *)
Call ==
    /\ Idle /\ opened = "open" /\ errors < MaxErrors
    /\ \E s \in Scripts : op' = s.op /\ script' = s.script
    /\ UNCHANGED <<config, opened, sent, attempt, got, drv, linkVars, board, fw, disk, historyVars>>

Drop ==
    /\ Idle /\ opened = "open"
    /\ opened' = "closing" /\ op' = "drop" /\ script' = DropScript
    /\ UNCHANGED <<config, sent, attempt, got, drv, linkVars, board, fw, disk, historyVars>>

Powered == [mode |-> "idle", motor |-> FALSE, cyl |-> 0, side |-> 0, high |-> FALSE]
(* A step without an exchange.  The pulse on DTR and RTS restarts the      *)
(* firmware.  Words may not be encodable, a capture may not join; and when *)
(* the double-density bytes are too many for their 16-bit count, the       *)
(* firmware already waits for it.                                          *)
Skip ==
    /\ ~Idle /\ ~sent /\ Local
    /\ inbox' = IF Now = "purge" THEN <<>> ELSE inbox
    /\ IF Now = "pulse" THEN wire' = <<>> /\ fw' = [Powered EXCEPT !.cyl = fw.cyl]
                        ELSE UNCHANGED <<wire, fw>>
    /\ LET refused == \/ Now = "version" /\ drv.minor < 8
                      \/ Now = "range" /\ Arg >= MaxCylinders
           fallible == Now \in {"encode", "join"} \/ (Now = "length" /\ ~drv.high)
       IN \/ /\ ~refused /\ Then(<<>>)
             /\ drv' = IF Now = "join" THEN [drv EXCEPT !.present = TRUE] ELSE drv
             /\ UNCHANGED trouble
          \/ /\ refused \/ fallible
             /\ Fail("failed")
             /\ trouble' = IF Now = "length" THEN trouble \cup {"abandoned"} ELSE trouble
             /\ UNCHANGED drv
    /\ UNCHANGED <<config, outbox, board, disk, late, changes>>

Streamed == Now = "stream"   \* read only: the command has been accepted
Send ==
    /\ ~Idle /\ ~sent /\ ~Local /\ ~Streamed
    /\ wire' = Append(wire, script[1])
    /\ sent' = TRUE
    /\ UNCHANGED <<config, opened, op, script, attempt, got, drv, outbox, inbox, board,
                   fw, disk, historyVars>>

Scanning == Now \in {"sync", "stop"}
(* How many bytes are read before the answer is judged.                    *)
AnswerLength ==
    CASE Now = "disk" -> 2
      [] Now \in {"features", "density", "permit"} /\ inbox # <<>> /\ inbox[1] = "1" -> 2
      [] Now \in {"seek", "noclick"} /\ inbox # <<>> /\ inbox[1] = "1" -> 3
      [] OTHER -> 1
Accepted ==
    CASE Now = "disk" -> inbox[1] \in {"1", "#"}
      [] Now = "density" -> inbox[1] = "1" /\ inbox[2] \in {"H", "D", "x"}
      [] Now = "permit" -> inbox[1] = "1" /\ inbox[2] = "Y"
      [] Now = "ready" -> inbox[1] = "!"
      [] Now = "seek" -> inbox[1] \in {"1", "2"}
      [] OTHER -> inbox[1] = "1"

Sensed(d) ==   \* seek and no_click_step learn of the disk
    IF inbox[1] = "1"
      THEN [d EXCEPT !.present = IF inbox[2] = "x" THEN @ ELSE inbox[2] = "1",
                     !.protected = inbox[3] = "1"]
      ELSE d
SwitchUnrecorded == drv   \* mutant: high_density keeps its old value
Switched == [drv EXCEPT !.high = Arg]
Recorded ==
    CASE Now = "features" -> [drv EXCEPT !.detect = board.detect]
      [] Now = "rewind" -> [drv EXCEPT !.cyl = 0]
      [] Now = "disk" ->
           [drv EXCEPT !.present = inbox[1] = "1",
                       !.protected = IF inbox[2] = "1" THEN TRUE
                                     ELSE IF inbox[2] \in {"#", "0"} THEN FALSE ELSE @]
      [] Now = "motor" -> [drv EXCEPT !.motor = Arg]
      [] Now = "side" -> [drv EXCEPT !.side = Arg]
      [] Now = "high" -> Switched
      [] Now = "seek" -> Sensed([drv EXCEPT !.cyl = Arg])
      [] Now = "noclick" -> Sensed(drv)
      [] Now = "density" /\ inbox[2] = "x" -> [drv EXCEPT !.present = FALSE]
      [] OTHER -> drv

(* read_byte and the match on what it returns.                             *)
Answer ==
    /\ ~Idle /\ sent /\ ~Scanning
    /\ inbox # <<>> /\ Len(inbox) >= AnswerLength
    /\ IF Accepted
         THEN /\ drv' = Recorded
              /\ Then(IF Now = "density" THEN <<Step("high", inbox[2] = "H")>> ELSE <<>>)
         ELSE /\ drv' = IF Now = "permit" /\ inbox[1] = "1" /\ inbox[2] = "N"
                          THEN [drv EXCEPT !.protected = TRUE] ELSE drv
              /\ Fail("failed")
    /\ inbox' = SubSeq(inbox, AnswerLength + 1, Len(inbox))
    /\ UNCHANGED <<config, wire, outbox, board, fw, disk, late, changes, trouble>>

(* sync_version and the end of read_stream: bytes are dropped up to the    *)
(* signature, and purged after it.                                         *)
Scan ==
    /\ ~Idle /\ sent /\ Scanning /\ inbox # <<>>
    /\ IF inbox[1] = (IF Now = "sync" THEN "V" ELSE "S")
         THEN /\ inbox' = <<>>
              /\ drv' = IF Now = "sync" THEN [drv EXCEPT !.minor = board.minor, !.full = board.full]
                                        ELSE drv
              /\ Then(<<>>)
         ELSE /\ inbox' = Tail(inbox)
              /\ UNCHANGED <<drv, opened, script, sent, attempt, got, op, errors>>
    /\ UNCHANGED <<config, wire, outbox, board, fw, disk, late, changes, trouble>>

(* The loop of read_stream.  It gives up at MAX_STREAM_BYTES.              *)
TakeStream ==
    /\ ~Idle /\ Streamed
    /\ IF got.bytes >= MaxStream
         THEN /\ Fail("failed")
              /\ trouble' = trouble \cup {"abandoned"}
              /\ UNCHANGED inbox
         ELSE /\ inbox # <<>>
              /\ inbox' = Tail(inbox)
              /\ LET atIndex == inbox[1] = "i" /\ config.mode # "Normal"
                 IN IF IF config.mode = "Normal" THEN got.bytes + 1 >= TargetBytes ELSE atIndex /\ got.index
                      THEN Then(<<>>)
                      ELSE /\ got' = [bytes |-> got.bytes + 1, index |-> got.index \/ atIndex]
                           /\ UNCHANGED <<opened, script, sent, attempt, op, errors>>
              /\ UNCHANGED trouble
    /\ UNCHANGED <<config, drv, wire, outbox, board, fw, disk, late, changes>>

ReadingAnswers == ~Idle /\ sent   \* mutant: a stream is waited for as long as it takes
Reading == ~Idle /\ (sent \/ Streamed)
UnderWay == wire # <<>> \/ outbox # <<>>
Turning == disk.present /\ fw.motor
(* The deadline passes: 1 s for a version, 2 s for an answer, 3 s for a    *)
(* stream and its end together.  A stream has none but that of a disk that *)
(* was taken out or does not turn, and is not told to stop; another answer *)
(* is late only if it comes after all.                                     *)
Deadline ==
    /\ Reading
    /\ IF Streamed THEN ~(Turning /\ fw.mode = "stream") ELSE Len(inbox) < AnswerLength
    /\ UnderWay /\ ~Streamed => late < MaxLate
    /\ late' = IF UnderWay /\ ~Streamed THEN late + 1 ELSE late
    /\ trouble' = IF Streamed THEN trouble \cup {"abandoned"} ELSE trouble
    /\ inbox' = IF Streamed THEN inbox ELSE <<>>
    /\ Fail("timeout")
    /\ UNCHANGED <<config, drv, wire, outbox, board, fw, disk, changes>>

-----------------------------------------------------------------------------
(* The firmware and the line, as the driver counts on them.                *)
Flag(b) == IF b THEN "1" ELSE "#"
Sees == {<<Flag(disk.present), Flag(disk.protected)>>, <<"x", Flag(disk.protected)>>}

(* What a firmware that waits for a command does with one: the bytes it    *)
(* answers and its state after.                                            *)
Replies(p) ==
    LET as(bytes, after) == [bytes |-> bytes, after |-> after]
    IN CASE p.do = "sync" -> {as(<<"V">>, [Powered EXCEPT !.cyl = fw.cyl])}
         [] p.do = "features" -> {as(<<"1", "F">>, fw)}
         [] p.do = "rewind" -> {as(<<"1">>, [fw EXCEPT !.cyl = 0])}
         [] p.do = "disk" -> {as(<<Flag(disk.present), Flag(disk.protected)>>, fw)}
         [] p.do = "motor" -> {as(<<"1">>, [fw EXCEPT !.motor = p.arg])}
         [] p.do = "side" -> {as(<<"1">>, [fw EXCEPT !.side = p.arg])}
         [] p.do = "high" -> {as(<<"1">>, [fw EXCEPT !.high = p.arg])}
         [] p.do = "seek" -> {as(b, [fw EXCEPT !.cyl = p.arg]) :
                                b \in {<<"2">>} \cup {<<"1">> \o s : s \in Sees}}
         [] p.do = "noclick" -> {as(<<"1">> \o s, fw) : s \in Sees}
         [] p.do = "density" ->
              {as(<<"1", IF ~disk.present THEN "x" ELSE IF disk.high THEN "H" ELSE "D">>, fw)}
         [] p.do = "read" -> {as(<<"1">>, [fw EXCEPT !.mode = "stream"])}
         [] p.do = "permit" -> {IF disk.protected THEN as(<<"1", "N">>, fw)
                                ELSE as(<<"1", "Y">>, [fw EXCEPT !.mode = "permitted"])}
         [] OTHER -> {as(<<>>, fw)}
(* A stream ends with an x; whether another byte ends it is not known.  A  *)
(* firmware in a write takes whatever comes for the length or the flux.    *)
Handled(p) ==
    LET as(bytes, after) == [bytes |-> bytes, after |-> after]
        resting == [fw EXCEPT !.mode = "idle"]
    IN CASE fw.mode = "idle" -> Replies(p)
         [] fw.mode = "stream" ->
              IF p.do = "stop" THEN {as(<<"S">>, resting)}
              ELSE IF p.do = "sync" THEN {as(<<"S", "V">>, [Powered EXCEPT !.cyl = fw.cyl])}
              ELSE {as(<<>>, fw), as(<<"s">>, resting)}
         [] fw.mode = "permitted" ->
              {IF p.do = "ready" THEN as(<<"!">>, [fw EXCEPT !.mode = "data"]) ELSE as(<<>>, fw)}
         [] fw.mode = "data" ->
              IF p.do = "data" THEN {as(<<b>>, resting) : b \in {"1", "X", "Y", "Z"}}
              ELSE {as(<<>>, fw)}

Firmware ==
    /\ wire # <<>>
    /\ wire' = Tail(wire)
    /\ \/ /\ \E r \in Handled(Head(wire)) : outbox' = outbox \o r.bytes /\ fw' = r.after
          /\ UNCHANGED trouble
       \/ /\ Refusals /\ fw.mode = "idle" /\ Head(wire).do \notin {"sync", "disk"}
          /\ outbox' = Append(outbox, "0")
          /\ trouble' = IF opened = "open" THEN trouble ELSE trouble \cup {"refused"}
          /\ UNCHANGED fw
    /\ UNCHANGED <<config, callVars, drv, inbox, board, disk, late, changes, errors>>

(* Flux comes while the firmware streams; an index only from a disk that   *)
(* turns.                                                                  *)
Stream ==
    /\ fw.mode = "stream" /\ Len(outbox) + Len(inbox) < MaxQueued
    /\ \E b \in IF Turning THEN {"f", "i"} ELSE {"f"} : outbox' = Append(outbox, b)
    /\ UNCHANGED <<config, callVars, drv, wire, inbox, board, fw, disk, historyVars>>

Deliver ==
    /\ outbox # <<>>
    /\ inbox' = Append(inbox, Head(outbox))
    /\ outbox' = Tail(outbox)
    /\ UNCHANGED <<config, callVars, drv, wire, board, fw, disk, historyVars>>

ChangeDisk ==
    /\ changes < MaxChanges
    /\ disk' \in Disks \ {disk}
    /\ changes' = changes + 1
    /\ UNCHANGED <<config, callVars, drv, linkVars, board, fw, late, trouble, errors>>

Init ==
    /\ config \in Configs
    /\ opened = "opening" /\ op = "open" /\ script = OpenScript /\ sent = FALSE /\ attempt = 1
    /\ got = None
    /\ drv = [motor |-> FALSE, cyl |-> 0, side |-> 0, present |-> FALSE, protected |-> FALSE,
              high |-> config.density = "High", minor |-> 0, full |-> FALSE, detect |-> FALSE]
    /\ wire = <<>> /\ inbox = <<>> /\ outbox \in {<<>>, <<"1">>}
    /\ board \in Boards /\ disk \in Disks
    /\ \E m \in LeftModes, on \in BOOLEAN :   \* as an earlier session left it
         fw = [mode |-> m, motor |-> on, cyl |-> 1, side |-> 1, high |-> TRUE]
    /\ late = 0 /\ changes = 0 /\ trouble = {} /\ errors = 0

Closed == opened = "closed" /\ UNCHANGED vars
Driver == Skip \/ Send \/ Answer \/ Scan \/ TakeStream \/ Deadline
Next == Call \/ Drop \/ Driver \/ Firmware \/ Stream \/ Deliver \/ ChangeDisk \/ Closed
Spec == Init /\ [][Next]_vars

-----------------------------------------------------------------------------
(* InStep: between calls the line is silent and the firmware waits for a   *)
(* command: it neither streams, nor takes the next command for flux.  With *)
(* answers of one anonymous byte nothing else keeps the next call from     *)
(* reading them.  It holds whatever was refused, protected or garbled,     *)
(* after a session another left half way, but for late answers and for the *)
(* two places where a call leaves the firmware in the middle of something. *)
Sound == late = 0 /\ "abandoned" \notin trouble
InStep ==
    opened = "open" /\ Idle /\ Sound =>
       wire = <<>> /\ outbox = <<>> /\ inbox = <<>> /\ fw.mode = "idle"

(* RecordsTrue: the driver's view of motor, head and density is the        *)
(* firmware's, which alone decides what a later call does.  Where the      *)
(* configuration says High, the driver takes that for the firmware's state *)
(* and never tells it.  The head stays within the drive's cylinders.       *)
RecordsTrue ==
    opened = "open" /\ Idle /\ Sound =>
       /\ drv.motor = fw.motor /\ drv.cyl = fw.cyl /\ drv.side = fw.side
       /\ drv.cyl < MaxCylinders
       /\ config.density # "High" => drv.high = fw.high

(* OpenRecovers: a firmware new enough is opened whatever state an earlier *)
(* session left it in, a stream or a write, where sync_version gets no     *)
(* answer until the pulse, unless answers are late or refused.             *)
OpenRecovers ==
    opened = "closed" /\ op = "open" => board.minor < 8 \/ late > 0 \/ "refused" \in trouble

(* LeftQuiet: a drive that is let go of stands still, opened or not, and   *)
(* whatever was running before.                                            *)
LeftQuiet == opened = "closed" /\ Sound /\ "refused" \notin trouble => ~fw.motor

(* Every exchange has a deadline, the firmware answers, a disk that turns  *)
(* has flux and bytes arrive.                                              *)
FairSpec == Spec /\ WF_vars(Driver) /\ WF_vars(Firmware) /\ WF_vars(Turning /\ Stream) /\ WF_vars(Deliver)

(* Returns: every call ends, streams without an end included.              *)
Returns == ~Idle ~> Idle
=============================================================================
