-------------------------- MODULE SuperCardProProofs --------------------------
(***************************************************************************)
(* The link to a SuperCard Pro, for either drive, every set of cylinders   *)
(* and disks, any refusals, leftovers and streams of any length, as long   *)
(* as answers keep their deadlines and no stream is given up.  The         *)
(* inductive invariant is LinkInv: what is left of the call is a possible  *)
(* rest of one (ScriptOK), and the line is where the step in hand says     *)
(* (Exchange), with the driver's records no further from the drive than    *)
(* that step takes them (View).                                            *)
(***************************************************************************)
EXTENDS SuperCardPro, SequenceLemmas, TLAPS
-----------------------------------------------------------------------------
(* What is true between the steps of a call, while Sound.                  *)
Local0 == {"purge", "version", "range", "zero", "join", "timings"}
Opening == {"purge", "Info", "version", "MotorAOff", "MotorBOff", "DeselectA", "DeselectB"}
Steps ==
    Local0 \cup NeedDrive \cup Opening
    \cup {"SeekZero", "SetParams", "MotorAOn", "MotorBOn", "LoadRamUsb", "StopStream",
          "select", "deselect", "idle", "stream"}
Todo == [do : Steps, arg : Nat]
Sent == [do : Steps \cup {"SelectA", "SelectB"}, arg : Nat]
Byte ==
    STRING \cup Steps
    \cup {"SelectA", "SelectB", "OK", "BAD", "NOT_READY", "NO_DISK", "WRITE_PROTECTED",
          "disk", "protected", "none", "empty", "info", "flux", "index", "stopped", "overrun"}
DriveView == [selected : BOOLEAN, motor : BOOLEAN, cyl : Nat, side : Nat, present : BOOLEAN,
              protected : BOOLEAN]
Firm == [selected : [Units -> BOOLEAN], motor : [Units -> BOOLEAN], cyl : Nat, side : Nat,
         placed : SUBSET {"cyl", "side"}, streaming : BOOLEAN]
DriverTyped ==
    /\ opened \in {"opening", "open", "closing", "closed"}
    /\ script \in Seq(Todo) /\ phase \in {"send", "ack", "payload"} /\ (Idle => phase = "send")
LinkTyped == wire \in Seq(Sent) /\ inbox \in Seq(Byte) /\ outbox \in Seq(Byte)
TypeOK == DriverTyped /\ drv \in DriveView /\ LinkTyped /\ fw \in Firm /\ late \in Nat

MotorOffOf(u) == IF u = "A" THEN "MotorAOff" ELSE "MotorBOff"
DeselectOf(u) == IF u = "A" THEN "DeselectA" ELSE "DeselectB"
Ahead(do, s) == \E i \in DOMAIN s : s[i].do = do

(* The scripts.                                                            *)
Streams(s) ==
    \A i \in DOMAIN s :
       /\ s[i].do = "StartStream" => i + 1 \in DOMAIN s /\ s[i + 1].do = "stream"
       /\ s[i].do = "stream" => i + 1 \in DOMAIN s /\ s[i + 1].do = "StopStream"
       /\ s[i].do = "stream" /\ i > 1 => s[i - 1].do = "StartStream"
       /\ s[i].do = "StopStream" /\ i > 1 => s[i - 1].do = "stream"
Guarded(s) ==
    \A i \in DOMAIN s :
       /\ s[i].do \in Insists /\ i > 1 => s[i - 1].do = "select"
       /\ s[i].do = "StepTo" /\ i > 2 => s[i - 2].do = "range" /\ s[i - 2].arg = s[i].arg
       /\ s[i].do = "StepTo" /\ i <= 2 => s[i].arg < MaxCylinders
       /\ s[i].do = "StepOut" /\ i > 2 => s[i - 2].do = "zero"
       /\ s[i].do = "purge" => i = 1
OpensOnly(s) ==
    \A i, j \in DOMAIN s : s[i].do = "SeekZero" =>
       /\ j < i => s[j].do \in Opening /\ s[j].arg = 0
       /\ j > i => s[j].do \in {"select", "Status", "idle"}
ClosesOnly(s) == \A i \in DOMAIN s : s[i] = MotorOff \/ s[i].do = "deselect"
WorksOnly(s) ==
    \A i \in DOMAIN s :
       /\ s[i].do \in {"MotorAOn", "MotorBOn"} => s[i] = MotorOn
       /\ s[i].do \in {"MotorAOff", "MotorBOff"} => s[i] = MotorOff
       /\ s[i].do \notin {"DeselectA", "DeselectB", "SeekZero"}
ScriptOK(o, d, s) ==
    /\ Streams(s) /\ Guarded(s) /\ OpensOnly(s)
    /\ o = "opening" <=> Ahead("SeekZero", s)
    /\ o = "open" => WorksOnly(s)
    /\ o = "closing" => ClosesOnly(s)
    /\ o = "closed" => s = <<>>
    /\ 1 \in DOMAIN s /\ s[1].do \in Insists => d.selected
    /\ \A i \in DOMAIN s : i <= 2 /\ s[i].do = "StepOut" => d.cyl = 0

(* What the driver knows of the firmware: d of it, s still to do.          *)
Agrees(d) ==
    /\ \A u \in Units : /\ fw.selected[u] = (u = Drive /\ d.selected)
                        /\ fw.motor[u] = (u = Drive /\ d.motor)
    /\ d.cyl = (IF "cyl" \in fw.placed THEN fw.cyl ELSE 0) /\ d.cyl < MaxCylinders
    /\ d.side = IF "side" \in fw.placed THEN fw.side ELSE 0
Untouched(d, s) ==
    /\ ~d.selected /\ ~d.motor /\ d.cyl = 0 /\ d.side = 0 /\ fw.placed = {}
    /\ \A u \in Units : /\ fw.selected[u] => Ahead(DeselectOf(u), s)
                        /\ fw.motor[u] => Ahead(MotorOffOf(u), s)
Closes(s) ==
    \/ "refused" \in trouble
    \/ \A u \in Units : fw.motor[u] => IF u = Drive THEN Ahead(MotorOffOf(u), s) ELSE "old" \in trouble
View(o, d, s) ==
    /\ o = "open" => Agrees(d)
    /\ o = "opening" => Untouched(d, s)
    /\ o \in {"closing", "closed"} => Closes(s)

(* The exchange.                                                           *)
Link == inbox \o outbox
AllFlux(n) == \A i \in DOMAIN Link : i > n => Link[i] \in {"flux", "index"}
After == IF Now = "SeekZero" THEN "open" ELSE opened
Refused ==
    /\ Len(Link) = 2 /\ Link[2] # "OK" /\ ~fw.streaming /\ View(opened, drv, script)
    /\ opened = "open" \/ "refused" \in trouble
Accepted ==
    /\ Len(Link) >= 2 /\ Link[1] = Packet.do /\ Link[2] = "OK"
    /\ View(After, Recorded, Tail(script))
    /\ IF Now = "StartStream" THEN fw.streaming /\ AllFlux(2)
                              ELSE ~fw.streaming /\ Len(Link) = IF Now \in {"Info", "Status"} THEN 3 ELSE 2
Quiet ==
    /\ phase = "send" /\ (Idle \/ Now \notin {"stream", "StopStream"})
    /\ wire = <<>> /\ outbox = <<>> /\ (inbox = <<>> \/ (~Idle /\ Now = "purge"))
    /\ ~fw.streaming /\ View(opened, drv, script)
Runs ==
    /\ ~Idle /\ Now \in {"stream", "StopStream"} /\ phase \in {"send", "ack"}
    /\ fw.streaming /\ AllFlux(0) /\ View(opened, drv, script)
    /\ wire = IF phase = "ack" THEN <<Packet>> ELSE <<>>
    /\ Now = "stream" => phase = "send"
Stops ==
    /\ ~Idle /\ Now = "StopStream" /\ phase = "ack" /\ wire = <<>> /\ ~fw.streaming
    /\ View(opened, drv, script)
    /\ Len(Link) >= 1 /\ Link[Len(Link)] \in {"stopped", "overrun"}
    /\ \A i \in 1..(Len(Link) - 1) : Link[i] \in {"flux", "index"}
Asks ==
    /\ ~Idle /\ phase = "ack" /\ Now \notin {"stream", "StopStream"} /\ ~Local
    /\ \/ wire = <<Packet>> /\ Link = <<>> /\ ~fw.streaming /\ View(opened, drv, script)
       \/ wire = <<>> /\ (Refused \/ Accepted)
Tells ==
    /\ ~Idle /\ phase = "payload" /\ Now \in {"Info", "Status"} /\ wire = <<>> /\ Len(Link) = 1
    /\ ~fw.streaming /\ View(opened, drv, Tail(script))
Exchange == Quiet \/ Runs \/ Stops \/ Asks \/ Tells
LinkInv == TypeOK /\ (Sound => ScriptOK(opened, drv, script) /\ Exchange)
-----------------------------------------------------------------------------
(* The scripts, and what is left of one when its first step is done.       *)
LEMMA DriveIs == Drive = "A" \/ Drive = "B"
BY SuperCardProAssumption DEF Units

LEMMA StepIs ==
    \A d \in Steps : \A a \in Nat : /\ Step(d, a) \in Todo /\ Step(d, a).do = d /\ Step(d, a).arg = a
BY DEF Step, Todo

LEMMA PairsAre ==
    /\ MotorOn \in Todo /\ MotorOn.do \in {"MotorAOn", "MotorBOn"}
    /\ MotorOff \in Todo /\ MotorOff.do = MotorOffOf(Drive)
    /\ MotorOff.do \in {"MotorAOff", "MotorBOff"} /\ MotorOff.arg = 0
    /\ Select \in Sent /\ Select.do \in {"SelectA", "SelectB"}
    /\ Deselect \in Sent /\ Deselect.do \in {"DeselectA", "DeselectB"}
<1>1. CASE Drive = "A"
  BY <1>1 DEF MotorOn, MotorOff, Select, Deselect, Command, Step, Todo, Sent, Steps, Opening, MotorOffOf
<1>2. CASE Drive = "B"
  BY <1>2 DEF MotorOn, MotorOff, Select, Deselect, Command, Step, Todo, Sent, Steps, Opening, MotorOffOf
<1> QED BY <1>1, <1>2, DriveIs

LEMMA CheckPinsIs ==
    /\ CheckPins \in Seq(Todo) /\ Len(CheckPins) = 3
    /\ CheckPins[1].do = "select" /\ CheckPins[2].do = "Status" /\ CheckPins[3].do = "idle"
<1> DEFINE a == Step("select", 0)
           b == Step("Status", 0)
           c == Step("idle", 0)
<1>1. a \in Todo /\ b \in Todo /\ c \in Todo /\ a.do = "select" /\ b.do = "Status" /\ c.do = "idle"
  BY StepIs DEF Steps, Insists, NeedDrive
<1>2. CheckPins = <<a, b, c>> BY DEF CheckPins
<1> HIDE DEF a, b, c
<1> QED BY <1>1, <1>2

(* The elements of a script with check_pins at its end.                    *)
LEMMA BeforePins ==
    ASSUME NEW s \in Seq(Todo), NEW n \in Nat, Len(s) = n
    PROVE  /\ s \o CheckPins \in Seq(Todo) /\ DOMAIN (s \o CheckPins) = 1..(n + 3)
           /\ \A i \in 1..n : (s \o CheckPins)[i] = s[i]
           /\ (s \o CheckPins)[n + 1].do = "select" /\ (s \o CheckPins)[n + 2].do = "Status"
           /\ (s \o CheckPins)[n + 3].do = "idle"
<1> DEFINE t == s \o CheckPins
<1>1. /\ t \in Seq(Todo) /\ Len(t) = n + 3
      /\ \A i \in 1..n : t[i] = s[i]
  <2>1. t \in Seq(Todo) /\ Len(t) = Len(s) + Len(CheckPins)
    BY ONLY s \in Seq(Todo), CheckPinsIs, CatIs
  <2>2. \A i \in 1..Len(s) : t[i] = s[i]
    BY ONLY s \in Seq(Todo), CheckPinsIs, CatIs
  <2> QED BY <2>1, <2>2, CheckPinsIs
<1>2. \A i \in 1..Len(CheckPins) : t[i + Len(s)] = CheckPins[i]
  BY ONLY s \in Seq(Todo), CheckPinsIs, CatIs
<1>3. 1 \in 1..Len(CheckPins) /\ 2 \in 1..Len(CheckPins) /\ 3 \in 1..Len(CheckPins) BY CheckPinsIs
<1>4. t[1 + Len(s)] = CheckPins[1] /\ t[2 + Len(s)] = CheckPins[2] /\ t[3 + Len(s)] = CheckPins[3]
  BY <1>2, <1>3
<1> HIDE DEF t
<1>5. 1 + Len(s) = n + 1 /\ 2 + Len(s) = n + 2 /\ 3 + Len(s) = n + 3 OBVIOUS
<1> QED BY <1>1, <1>4, <1>5, CheckPinsIs DEF t

LEMMA NoClickIs ==
    /\ NoClickScript \in Seq(Todo) /\ DOMAIN NoClickScript = 1..6
    /\ NoClickScript[1].do = "zero" /\ NoClickScript[2].do = "select"
    /\ NoClickScript[3].do = "StepOut" /\ NoClickScript[4].do = "select"
    /\ NoClickScript[5].do = "Status" /\ NoClickScript[6].do = "idle"
<1> DEFINE first == <<Step("zero", 0), Step("select", 0), Step("StepOut", 0)>>
<1>1. /\ first \in Seq(Todo) /\ Len(first) = 3 /\ first[1].do = "zero" /\ first[2].do = "select"
      /\ first[3].do = "StepOut"
  BY StepIs DEF Steps, Insists, NeedDrive, Local0
<1>2. NoClickScript = first \o CheckPins BY DEF NoClickScript
<1> HIDE DEF first
<1>3. PICK n \in Nat : n = 3 OBVIOUS
<1>4. /\ NoClickScript \in Seq(Todo) /\ DOMAIN NoClickScript = 1..(n + 3)
      /\ \A i \in 1..n : NoClickScript[i] = first[i]
      /\ NoClickScript[n + 1].do = "select" /\ NoClickScript[n + 2].do = "Status"
      /\ NoClickScript[n + 3].do = "idle"
  BY <1>1, <1>2, <1>3, BeforePins
<1> QED BY <1>1, <1>3, <1>4

LEMMA OpenIs ==
    /\ OpenScript \in Seq(Todo) /\ DOMAIN OpenScript = 1..11
    /\ OpenScript[1].do = "purge" /\ OpenScript[2].do = "Info" /\ OpenScript[3].do = "version"
    /\ OpenScript[4].do = "MotorAOff" /\ OpenScript[5].do = "MotorBOff"
    /\ OpenScript[6].do = "DeselectA" /\ OpenScript[7].do = "DeselectB"
    /\ OpenScript[8].do = "SeekZero" /\ OpenScript[9].do = "select"
    /\ OpenScript[10].do = "Status" /\ OpenScript[11].do = "idle"
    /\ \A i \in 1..8 : OpenScript[i].arg = 0
<1> DEFINE first == <<Step("purge", 0), Step("Info", 0), Step("version", 0), Step("MotorAOff", 0),
                      Step("MotorBOff", 0), Step("DeselectA", 0), Step("DeselectB", 0),
                      Step("SeekZero", 0)>>
<1>0. \A d \in Opening \cup {"SeekZero"} : Step(d, 0) \in Todo /\ Step(d, 0).arg = 0
  BY StepIs DEF Steps
<1>1. /\ first \in Seq(Todo) /\ Len(first) = 8
      /\ \A i \in 1..8 : first[i].arg = 0
  BY <1>0 DEF Opening
<1>2. /\ first[1].do = "purge" /\ first[2].do = "Info" /\ first[3].do = "version"
      /\ first[4].do = "MotorAOff" /\ first[5].do = "MotorBOff" /\ first[6].do = "DeselectA"
      /\ first[7].do = "DeselectB" /\ first[8].do = "SeekZero"
  BY StepIs DEF Steps, Opening
<1>3. OpenScript = first \o CheckPins BY DEF OpenScript
<1> HIDE DEF first
<1>4. PICK n \in Nat : n = 8 OBVIOUS
<1>5. /\ OpenScript \in Seq(Todo) /\ DOMAIN OpenScript = 1..(n + 3)
      /\ \A i \in 1..n : OpenScript[i] = first[i]
      /\ OpenScript[n + 1].do = "select" /\ OpenScript[n + 2].do = "Status"
      /\ OpenScript[n + 3].do = "idle"
  BY <1>1, <1>3, <1>4, BeforePins
<1> QED BY <1>1, <1>2, <1>4, <1>5

(* What a call may begin with.                                             *)
Begins(s) == s # <<>> /\ s[1].do \notin {"stream", "StopStream", "purge"}

LEMMA OffOK ==
    /\ MotorScript(FALSE) \in Seq(Todo) /\ Begins(MotorScript(FALSE))
    /\ \A d : ScriptOK("closing", d, MotorScript(FALSE))
    /\ Ahead(MotorOffOf(Drive), MotorScript(FALSE))
<1> DEFINE s == MotorScript(FALSE)
<1>1. s = <<MotorOff, Step("deselect", 0)>> BY DEF MotorScript
<1>2. /\ s \in Seq(Todo) /\ DOMAIN s = 1..2 /\ s[1] = MotorOff /\ s[2].do = "deselect" /\ s # <<>>
  <2> DEFINE x == MotorOff
             y == Step("deselect", 0)
  <2>1. x \in Todo /\ y \in Todo /\ y.do = "deselect" BY PairsAre, StepIs DEF Steps
  <2>2. s = <<x, y>> BY <1>1
  <2> HIDE DEF x, y, s
  <2>3. s \in Seq(Todo) /\ DOMAIN s = 1..2 /\ s[1] = x /\ s[2].do = "deselect" /\ s # <<>>
    BY <2>1, <2>2
  <2> QED BY <2>3 DEF x
<1> HIDE DEF s
<1>3. MotorOff.do \in {"MotorAOff", "MotorBOff"} /\ MotorOff.do = MotorOffOf(Drive) BY PairsAre
<1>4. \A i \in DOMAIN s : s[i] = MotorOff \/ s[i].do = "deselect" BY <1>2
<1>5. \A i \in DOMAIN s : s[i].do \in {"MotorAOff", "MotorBOff", "deselect"} BY <1>3, <1>4
<1>6. Streams(s) /\ Guarded(s) /\ OpensOnly(s) /\ ClosesOnly(s) /\ ~Ahead("SeekZero", s)
  BY <1>4, <1>5 DEF Streams, Guarded, OpensOnly, ClosesOnly, Ahead, Insists, NeedDrive
<1>7. \A d : ScriptOK("closing", d, s) BY <1>5, <1>6 DEF ScriptOK, Insists, NeedDrive
<1>8. Ahead(MotorOffOf(Drive), s) /\ Begins(s) BY <1>2, <1>3 DEF Ahead, Begins
<1> QED BY <1>2, <1>7, <1>8 DEF s

LEMMA OpenOK ==
    /\ OpenScript # <<>> /\ OpenScript[1].do = "purge" /\ Ahead("SeekZero", OpenScript)
    /\ \A d : ScriptOK("opening", d, OpenScript)
    /\ \A u \in Units : Ahead(MotorOffOf(u), OpenScript) /\ Ahead(DeselectOf(u), OpenScript)
<1> DEFINE s == OpenScript
<1>1. /\ s \in Seq(Todo) /\ DOMAIN s = 1..11
      /\ s[1].do = "purge" /\ s[2].do = "Info" /\ s[3].do = "version"
      /\ s[4].do = "MotorAOff" /\ s[5].do = "MotorBOff"
      /\ s[6].do = "DeselectA" /\ s[7].do = "DeselectB"
      /\ s[8].do = "SeekZero" /\ s[9].do = "select"
      /\ s[10].do = "Status" /\ s[11].do = "idle"
      /\ \A i \in 1..8 : s[i].arg = 0
  BY OpenIs
<1> HIDE DEF s
<1>2. Streams(s) BY <1>1 DEF Streams
<1>3. Guarded(s) BY <1>1 DEF Guarded, Insists, NeedDrive
<1>4. OpensOnly(s)
  <2>1. \A i \in DOMAIN s : s[i].do = "SeekZero" => i = 8 BY <1>1
  <2>2. \A j \in DOMAIN s : j < 8 => s[j].do \in Opening /\ s[j].arg = 0 BY <1>1 DEF Opening
  <2>3. \A j \in DOMAIN s : j > 8 => s[j].do \in {"select", "Status", "idle"} BY <1>1
  <2> QED BY <2>1, <2>2, <2>3 DEF OpensOnly
<1>5. Ahead("SeekZero", s) /\ s # <<>>
  <2>1. 8 \in DOMAIN s BY <1>1
  <2>2. s # <<>>
    <3>1. DOMAIN <<>> = {} OBVIOUS
    <3> QED BY <2>1, <3>1
  <2> QED BY <1>1, <2>1, <2>2 DEF Ahead
<1>6. \A d : ScriptOK("opening", d, s)
  <2>1. \A i \in DOMAIN s : ~(i <= 2 /\ s[i].do = "StepOut") BY <1>1
  <2> QED BY <1>1, <1>2, <1>3, <1>4, <1>5, <2>1 DEF ScriptOK, Insists, NeedDrive
<1>7. \A u \in Units : Ahead(MotorOffOf(u), s) /\ Ahead(DeselectOf(u), s)
  BY <1>1 DEF Ahead, MotorOffOf, DeselectOf, Units
<1> QED BY <1>1, <1>5, <1>6, <1>7 DEF s

(* Scripts of the worker's calls.                                          *)
LEMMA WorkOK ==
    ASSUME NEW s \in Seq(Todo), NEW d, Streams(s), Guarded(s), WorksOnly(s), Begins(s),
           s[1].do \notin Insists, \A i \in DOMAIN s : i <= 2 => s[i].do # "StepOut"
    PROVE  ScriptOK("open", d, s)
<1>1. ~Ahead("SeekZero", s) /\ OpensOnly(s) BY DEF Ahead, OpensOnly, WorksOnly
<1> QED BY <1>1 DEF ScriptOK

LEMMA ScriptsOK ==
    ASSUME NEW s \in Scripts PROVE s \in Seq(Todo) /\ Begins(s) /\ \A d : ScriptOK("open", d, s)
<1>1. \/ s \in {CheckPins, MotorScript(TRUE), MotorScript(FALSE), NoClickScript, ReadScript, WriteScript}
      \/ \E c \in Nat : s = SeekScript(c)
      \/ \E c \in {0, 1} : s = SideScript(c)
  <2>1. PICK S : /\ s \in S
                 /\ S \in { IF "status" \in Ops THEN {CheckPins} ELSE {},
                            IF "on" \in Ops THEN {MotorScript(TRUE)} ELSE {},
                            IF "off" \in Ops THEN {MotorScript(FALSE)} ELSE {},
                            IF "seek" \in Ops THEN {SeekScript(c) : c \in Cylinders} ELSE {},
                            IF "side" \in Ops THEN {SideScript(c) : c \in {0, 1}} ELSE {},
                            IF "noclick" \in Ops THEN {NoClickScript} ELSE {},
                            IF "read" \in Ops /\ drv.motor /\ drv.present THEN {ReadScript} ELSE {},
                            IF "write" \in Ops THEN {WriteScript} ELSE {} }
    BY Zenon DEF Scripts
  <2>2. CASE s \in {SeekScript(c) : c \in Cylinders} BY <2>2, SuperCardProAssumption
  <2>3. CASE s \notin {SeekScript(c) : c \in Cylinders} BY <2>1, <2>3
  <2> QED BY <2>2, <2>3
<1>2. s \in Seq(Todo) /\ Begins(s) /\ Streams(s) /\ Guarded(s) /\ WorksOnly(s) /\ s[1].do \notin Insists
      /\ \A i \in DOMAIN s : i <= 2 => s[i].do # "StepOut"
  <2>1. CASE s = CheckPins
    <3>1. /\ s \in Seq(Todo) /\ DOMAIN s = 1..3
          /\ s[1].do = "select" /\ s[2].do = "Status" /\ s[3].do = "idle" /\ s # <<>>
      BY <2>1, CheckPinsIs
    <3> QED BY <3>1 DEF Begins, Streams, Guarded, WorksOnly, Insists, NeedDrive
  <2>2. CASE s = MotorScript(TRUE)
    <3>1. /\ s \in Seq(Todo) /\ DOMAIN s = 1..3
          /\ s[1].do = "SetParams" /\ s[2] = MotorOn /\ s[3].do = "select" /\ s # <<>>
      <4> DEFINE x == Step("SetParams", 0)
                 y == MotorOn
                 z == Step("select", 0)
      <4>1. /\ x \in Todo /\ y \in Todo /\ z \in Todo /\ x.do = "SetParams" /\ z.do = "select"
        BY PairsAre, StepIs DEF Steps
      <4>2. s = <<x, y, z>> BY <2>2 DEF MotorScript
      <4> HIDE DEF x, y, z
      <4>3. /\ s \in Seq(Todo) /\ DOMAIN s = 1..3
            /\ s[1].do = "SetParams" /\ s[2] = y /\ s[3].do = "select" /\ s # <<>>
        BY <4>1, <4>2
      <4> QED BY <4>3 DEF y
    <3>2. s[2].do \in {"MotorAOn", "MotorBOn"} BY <3>1, PairsAre
    <3> QED BY <3>1, <3>2 DEF Begins, Streams, Guarded, WorksOnly, Insists, NeedDrive
  <2>3. CASE s = MotorScript(FALSE)
    <3>1. /\ s \in Seq(Todo) /\ DOMAIN s = 1..2
          /\ s[1] = MotorOff /\ s[2].do = "deselect" /\ s # <<>>
      BY <2>3, PairsAre, StepIs DEF MotorScript, Steps
    <3>2. s[1].do \in {"MotorAOff", "MotorBOff"} BY <3>1, PairsAre
    <3> QED BY <3>1, <3>2 DEF Begins, Streams, Guarded, WorksOnly, Insists, NeedDrive
  <2>4. CASE s = NoClickScript
    <3>1. /\ s \in Seq(Todo) /\ DOMAIN s = 1..6
          /\ s[1].do = "zero" /\ s[2].do = "select" /\ s[3].do = "StepOut" /\ s[4].do = "select"
          /\ s[5].do = "Status" /\ s[6].do = "idle" /\ s # <<>>
      BY <2>4, NoClickIs
    <3> QED BY <3>1 DEF Begins, Streams, Guarded, WorksOnly, Insists, NeedDrive
  <2>5. CASE s = ReadScript
    <3>1. /\ s \in Seq(Todo) /\ DOMAIN s = 1..6
          /\ s[1].do = "select" /\ s[2].do = "StartStream" /\ s[3].do = "stream"
          /\ s[4].do = "StopStream" /\ s[5].do = "idle" /\ s[6].do = "join" /\ s # <<>>
      BY <2>5, StepIs DEF ReadScript, Steps, Insists, NeedDrive, Local0
    <3> QED BY <3>1 DEF Begins, Streams, Guarded, WorksOnly, Insists, NeedDrive
  <2>6. CASE s = WriteScript
    <3>1. /\ s \in Seq(Todo) /\ DOMAIN s = 1..4
          /\ s[1].do = "timings" /\ s[2].do = "LoadRamUsb" /\ s[3].do = "select"
          /\ s[4].do = "WriteFlux" /\ s # <<>>
      BY <2>6, StepIs DEF WriteScript, Steps, Insists, NeedDrive, Local0
    <3> QED BY <3>1 DEF Begins, Streams, Guarded, WorksOnly, Insists, NeedDrive
  <2>7. ASSUME NEW c \in Nat, s = SeekScript(c)
        PROVE s \in Seq(Todo) /\ Begins(s) /\ Streams(s) /\ Guarded(s) /\ WorksOnly(s)
              /\ s[1].do \notin Insists /\ \A i \in DOMAIN s : i <= 2 => s[i].do # "StepOut"
    <3>1. /\ s \in Seq(Todo) /\ DOMAIN s = 1..4
          /\ s[1].do = "range" /\ s[1].arg = c /\ s[2].do = "select" /\ s[3].do = "StepTo"
          /\ s[3].arg = c /\ s[4].do = "idle" /\ s # <<>>
      BY <2>7, StepIs DEF SeekScript, Steps, Insists, NeedDrive, Local0
    <3> QED BY <3>1 DEF Begins, Streams, Guarded, WorksOnly, Insists, NeedDrive
  <2>8. ASSUME NEW c \in {0, 1}, s = SideScript(c)
        PROVE s \in Seq(Todo) /\ Begins(s) /\ Streams(s) /\ Guarded(s) /\ WorksOnly(s)
              /\ s[1].do \notin Insists /\ \A i \in DOMAIN s : i <= 2 => s[i].do # "StepOut"
    <3>1. /\ s \in Seq(Todo) /\ DOMAIN s = 1..3
          /\ s[1].do = "select" /\ s[2].do = "Side" /\ s[3].do = "idle" /\ s # <<>>
      BY <2>8, StepIs DEF SideScript, Steps, Insists, NeedDrive
    <3> QED BY <3>1 DEF Begins, Streams, Guarded, WorksOnly, Insists, NeedDrive
  <2> QED BY <1>1, <2>1, <2>2, <2>3, <2>4, <2>5, <2>6, <2>7, <2>8
<1> QED BY <1>2, WorkOK

LEMMA TailIs ==
    ASSUME NEW S, NEW s \in Seq(S), s # <<>>
    PROVE  /\ Tail(s) \in Seq(S) /\ Len(s) \in Nat \ {0} /\ DOMAIN s = 1..Len(s)
           /\ 1 \in DOMAIN s /\ s[1] \in S
           /\ Len(Tail(s)) = Len(s) - 1 /\ DOMAIN Tail(s) = 1..(Len(s) - 1)
           /\ \A i \in DOMAIN Tail(s) : i + 1 \in DOMAIN s /\ Tail(s)[i] = s[i + 1]
           /\ \A i \in DOMAIN s : i # 1 => i - 1 \in DOMAIN Tail(s) /\ Tail(s)[i - 1] = s[i]
<1> DEFINE t == Tail(s)
<1>1. /\ t \in Seq(S) /\ Len(t) = Len(s) - 1 /\ Len(s) \in Nat \ {0}
      /\ \A i \in 1..Len(t) : t[i] = s[i + 1]
  BY HeadTailProperties, EmptySeq
<1> HIDE DEF t
<1>2. /\ DOMAIN s = 1..Len(s) /\ DOMAIN t = 1..(Len(s) - 1) /\ 1 \in DOMAIN s /\ s[1] \in S BY <1>1
<1>3. \A i \in DOMAIN t : i + 1 \in DOMAIN s /\ t[i] = s[i + 1] BY <1>1, <1>2
<1>4. ASSUME NEW i \in DOMAIN s, i # 1 PROVE i - 1 \in DOMAIN t /\ t[i - 1] = s[i]
  <2>1. i - 1 \in DOMAIN t /\ i - 1 + 1 = i BY <1>1, <1>2, <1>4
  <2> QED BY <1>3, <2>1
<1> QED BY <1>1, <1>2, <1>3, <1>4 DEF t

LEMMA TailAhead ==
    ASSUME NEW s \in Seq(Todo), s # <<>>, NEW x
    PROVE  /\ Ahead(x, Tail(s)) => Ahead(x, s)
           /\ Ahead(x, s) /\ s[1].do # x => Ahead(x, Tail(s))
<1>1. /\ \A i \in DOMAIN Tail(s) : i + 1 \in DOMAIN s /\ Tail(s)[i] = s[i + 1]
      /\ \A i \in DOMAIN s : i # 1 => i - 1 \in DOMAIN Tail(s) /\ Tail(s)[i - 1] = s[i]
  BY TailIs
<1>2. ASSUME Ahead(x, Tail(s)) PROVE Ahead(x, s) BY <1>1, <1>2 DEF Ahead
<1>3. ASSUME Ahead(x, s), s[1].do # x PROVE Ahead(x, Tail(s))
  <2>1. PICK i \in DOMAIN s : s[i].do = x BY <1>3 DEF Ahead
  <2>2. i - 1 \in DOMAIN Tail(s) /\ Tail(s)[i - 1].do = x BY <1>1, <1>3, <2>1
  <2> QED BY <2>2 DEF Ahead
<1> QED BY <1>2, <1>3

LEMMA TailOK ==
    ASSUME NEW s \in Seq(Todo), s # <<>>, NEW d, NEW e, NEW o, ScriptOK(o, d, s),
           o \in {"opening", "open", "closing", "closed"},
           s[1].do = "range" => s[1].arg < MaxCylinders,
           s[1].do = "zero" => d.cyl = 0,
           s[1].do = "select" => e.selected,
           s[1].do # "StepTo" => e.cyl = d.cyl,
           NEW n, n = CASE s[1].do = "SeekZero" -> "open"
                        [] o = "closing" /\ Tail(s) = <<>> -> "closed"
                        [] OTHER -> o
    PROVE  ScriptOK(n, e, Tail(s))
<1> DEFINE t == Tail(s)
<1>1. /\ t \in Seq(Todo) /\ Len(s) \in Nat \ {0} /\ DOMAIN s = 1..Len(s)
      /\ 1 \in DOMAIN s /\ s[1] \in Todo
      /\ DOMAIN t = 1..(Len(s) - 1)
      /\ \A i \in DOMAIN t : i \in Nat \ {0} /\ i + 1 \in DOMAIN s /\ t[i] = s[i + 1]
      /\ \A i \in DOMAIN s : i # 1 => i - 1 \in DOMAIN t /\ t[i - 1] = s[i]
  <2>1. /\ t \in Seq(Todo) /\ Len(s) \in Nat \ {0} /\ DOMAIN s = 1..Len(s)
        /\ 1 \in DOMAIN s /\ s[1] \in Todo
        /\ DOMAIN t = 1..(Len(s) - 1)
        /\ \A i \in DOMAIN t : i + 1 \in DOMAIN s /\ t[i] = s[i + 1]
        /\ \A i \in DOMAIN s : i # 1 => i - 1 \in DOMAIN t /\ t[i - 1] = s[i]
    BY TailIs
  <2>2. \A i \in DOMAIN t : i \in Nat \ {0} BY <2>1
  <2> QED BY <2>1, <2>2
<1>2. \A x : (Ahead(x, t) => Ahead(x, s)) /\ (Ahead(x, s) /\ s[1].do # x => Ahead(x, t))
  BY TailAhead
<1> HIDE DEF t
<1>3. /\ Streams(s) /\ Guarded(s) /\ OpensOnly(s)
      /\ o = "opening" <=> Ahead("SeekZero", s)
      /\ o = "open" => WorksOnly(s)
      /\ o = "closing" => ClosesOnly(s)
      /\ o = "closed" => s = <<>>
      /\ 1 \in DOMAIN s /\ s[1].do \in Insists => d.selected
      /\ \A i \in DOMAIN s : i <= 2 /\ s[i].do = "StepOut" => d.cyl = 0
  BY DEF ScriptOK
<1>4. Streams(t)
  <2> SUFFICES ASSUME NEW i \in DOMAIN t
               PROVE  /\ t[i].do = "StartStream" => i + 1 \in DOMAIN t /\ t[i + 1].do = "stream"
                      /\ t[i].do = "stream" => i + 1 \in DOMAIN t /\ t[i + 1].do = "StopStream"
                      /\ t[i].do = "stream" /\ i > 1 => t[i - 1].do = "StartStream"
                      /\ t[i].do = "StopStream" /\ i > 1 => t[i - 1].do = "stream"
    BY DEF Streams
  <2> DEFINE k == i + 1
  <2>1. k \in DOMAIN s /\ t[i] = s[k] /\ k > 1 /\ k - 1 = i BY <1>1
  <2>2. /\ s[k].do = "StartStream" => k + 1 \in DOMAIN s /\ s[k + 1].do = "stream"
        /\ s[k].do = "stream" => k + 1 \in DOMAIN s /\ s[k + 1].do = "StopStream"
        /\ s[k].do = "stream" => s[k - 1].do = "StartStream"
        /\ s[k].do = "StopStream" => s[k - 1].do = "stream"
    BY <1>3, <2>1 DEF Streams
  <2>3. k + 1 \in DOMAIN s => i + 1 \in DOMAIN t /\ t[i + 1] = s[k + 1] BY <1>1
  <2>4. i > 1 => t[i - 1] = s[k - 1] BY <1>1
  <2> QED BY <2>1, <2>2, <2>3, <2>4
<1>5. Guarded(t)
  <2> SUFFICES ASSUME NEW i \in DOMAIN t
               PROVE  /\ t[i].do \in Insists /\ i > 1 => t[i - 1].do = "select"
                      /\ t[i].do = "StepTo" /\ i > 2 =>
                            t[i - 2].do = "range" /\ t[i - 2].arg = t[i].arg
                      /\ t[i].do = "StepTo" /\ i <= 2 => t[i].arg < MaxCylinders
                      /\ t[i].do = "StepOut" /\ i > 2 => t[i - 2].do = "zero"
                      /\ t[i].do = "purge" => i = 1
    BY DEF Guarded
  <2> DEFINE k == i + 1
  <2>1. k \in DOMAIN s /\ t[i] = s[k] /\ k > 1 /\ k - 1 = i /\ i \in Nat BY <1>1
  <2>2. /\ s[k].do \in Insists => s[k - 1].do = "select"
        /\ s[k].do = "StepTo" /\ k > 2 => s[k - 2].do = "range" /\ s[k - 2].arg = s[k].arg
        /\ s[k].do = "StepTo" /\ k <= 2 => s[k].arg < MaxCylinders
        /\ s[k].do = "StepOut" /\ k > 2 => s[k - 2].do = "zero"
        /\ s[k].do # "purge"
    BY <1>3, <2>1 DEF Guarded
  <2>3. i > 1 => t[i - 1] = s[k - 1] BY <1>1
  <2>4. i > 2 => t[i - 2] = s[k - 2] /\ k > 2
    <3> SUFFICES ASSUME i > 2 PROVE t[i - 2] = s[k - 2] /\ k > 2 OBVIOUS
    <3>1. i - 2 \in DOMAIN t /\ i - 2 + 1 = k - 2 BY <1>1
    <3> QED BY <1>1, <3>1
  <2>5. t[i].do = "StepTo" /\ i = 2 => t[i].arg < MaxCylinders
    <3>1. i = 2 => k > 2 /\ k - 2 = 1 BY <2>1
    <3> QED BY <2>1, <2>2, <3>1
  <2>6. i <= 2 => i = 1 \/ i = 2 BY <1>1, <2>1
  <2>7. t[i].do = "StepTo" /\ i = 1 => t[i].arg < MaxCylinders BY <2>1, <2>2
  <2> QED BY <2>1, <2>2, <2>3, <2>4, <2>5, <2>6, <2>7
<1>6. OpensOnly(t)
  <2> SUFFICES ASSUME NEW i \in DOMAIN t, NEW j \in DOMAIN t, t[i].do = "SeekZero"
               PROVE  /\ j < i => t[j].do \in Opening /\ t[j].arg = 0
                      /\ j > i => t[j].do \in {"select", "Status", "idle"}
    BY DEF OpensOnly
  <2>1. /\ i + 1 \in DOMAIN s /\ t[i] = s[i + 1] /\ j + 1 \in DOMAIN s /\ t[j] = s[j + 1]
        /\ j < i => j + 1 < i + 1
        /\ j > i => j + 1 > i + 1
    BY <1>1
  <2> QED BY <1>3, <2>1 DEF OpensOnly
<1>7. s[1].do = "SeekZero" => WorksOnly(t) /\ ~Ahead("SeekZero", t)
  <2> SUFFICES ASSUME s[1].do = "SeekZero", NEW i \in DOMAIN t
               PROVE  t[i].do \in {"select", "Status", "idle"}
    BY DEF WorksOnly, Ahead
  <2>1. i + 1 \in DOMAIN s /\ t[i] = s[i + 1] /\ i + 1 > 1 BY <1>1
  <2> QED BY <1>1, <1>3, <2>1 DEF OpensOnly
<1>8. n = "opening" <=> Ahead("SeekZero", t) 
  <2>1. CASE s[1].do = "SeekZero" BY <1>7, <2>1
  <2>2. CASE s[1].do # "SeekZero"
    <3>1. n = "opening" <=> o = "opening" BY <2>2
    <3> QED BY <1>2, <1>3, <2>2, <3>1
  <2> QED BY <2>1, <2>2
<1>9. n = "open" => WorksOnly(t)
  <2>1. WorksOnly(s) => WorksOnly(t) BY <1>1 DEF WorksOnly
  <2> QED BY <1>3, <1>7, <2>1
<1>10. n = "closing" => ClosesOnly(t)
  <2>1. ClosesOnly(s) => ClosesOnly(t) BY <1>1 DEF ClosesOnly
  <2> QED BY <1>3, <2>1
<1>11. n = "closed" => t = <<>> BY <1>3 DEF t
<1>12. 1 \in DOMAIN t /\ t[1].do \in Insists => e.selected
  <2> SUFFICES ASSUME 1 \in DOMAIN t, t[1].do \in Insists PROVE e.selected OBVIOUS
  <2>1. 2 \in DOMAIN s /\ t[1] = s[2] /\ 2 > 1 /\ 2 - 1 = 1 BY <1>1
  <2>2. s[1].do = "select" BY <1>3, <2>1 DEF Guarded
  <2> QED BY <2>2
<1>13. ASSUME NEW i \in DOMAIN t, i <= 2, t[i].do = "StepOut" PROVE e.cyl = 0
  <2>1. i + 1 \in DOMAIN s /\ t[i] = s[i + 1] /\ (i = 1 \/ i = 2) BY <1>1, <1>13
  <2>2. CASE i = 1
    <3>1. 2 \in DOMAIN s /\ s[2].do = "StepOut" /\ 2 > 1 /\ 2 - 1 = 1 /\ 2 <= 2 BY <1>13, <2>1, <2>2
    <3>2. s[1].do = "select" BY <1>3, <3>1 DEF Guarded, Insists, NeedDrive
    <3> QED BY <1>3, <3>1, <3>2
  <2>3. CASE i = 2
    <3>1. 3 \in DOMAIN s /\ s[3].do = "StepOut" /\ 3 > 2 /\ 3 - 2 = 1 BY <1>13, <2>1, <2>3
    <3>2. s[1].do = "zero" BY <1>3, <3>1 DEF Guarded
    <3> QED BY <3>2
  <2> QED BY <2>1, <2>2, <2>3
<1> QED BY <1>4, <1>5, <1>6, <1>8, <1>9, <1>10, <1>11, <1>12, <1>13 DEF ScriptOK, t

-----------------------------------------------------------------------------
(* Types.                                                                  *)
LEMMA Bytes ==
    /\ \A p \in Sent : p.do \in Byte /\ p.arg \in Nat
    /\ \A b \in {"OK", "BAD", "NOT_READY", "NO_DISK", "WRITE_PROTECTED", "disk", "protected", "none",
                 "empty", "info", "flux", "index", "stopped", "overrun"} : b \in Byte
<1>1. /\ Steps \subseteq Byte
      /\ {"SelectA", "SelectB", "OK", "BAD", "NOT_READY", "NO_DISK", "WRITE_PROTECTED", "disk",
          "protected", "none", "empty", "info", "flux", "index", "stopped", "overrun"} \subseteq Byte
  BY DEF Byte
<1>2. \A p \in Sent : p.do \in Steps \cup {"SelectA", "SelectB"} /\ p.arg \in Nat BY DEF Sent
<1> HIDE DEF Byte, Steps
<1> QED BY <1>1, <1>2

LEMMA Typed ==
    ASSUME TypeOK
    PROVE  /\ opened \in {"opening", "open", "closing", "closed"}
           /\ script \in Seq(Todo) /\ phase \in {"send", "ack", "payload"} /\ (Idle => phase = "send")
           /\ wire \in Seq(Sent) /\ inbox \in Seq(Byte) /\ outbox \in Seq(Byte)
           /\ drv \in DriveView /\ fw \in Firm /\ late \in Nat
BY DEF TypeOK, DriverTyped, LinkTyped

LEMMA First ==
    ASSUME TypeOK, ~Idle
    PROVE  /\ script \in Seq(Todo) /\ script # <<>> /\ 1 \in DOMAIN script /\ script[1] \in Todo
           /\ script[1] = [do |-> Now, arg |-> Arg] /\ Now \in Steps /\ Arg \in Nat
           /\ Tail(script) \in Seq(Todo)
<1>1. script \in Seq(Todo) /\ script # <<>> BY Typed DEF Idle
<1>2. 1 \in DOMAIN script /\ script[1] \in Todo /\ Tail(script) \in Seq(Todo) BY <1>1, TailIs
<1> QED BY <1>1, <1>2 DEF Todo, Now, Arg

LEMMA DoneTyped == ASSUME TypeOK, Fail \/ (~Idle /\ Advance) PROVE DriverTyped'
<1>1. CASE Fail
  <2>1. script' \in Seq(Todo)
    <3>1. script' = MotorScript(FALSE) \/ script' = <<>> BY <1>1 DEF Fail
    <3>2. <<>> \in Seq(Todo) OBVIOUS
    <3> QED BY <3>1, <3>2, OffOK
  <2> QED BY <1>1, <2>1, Typed DEF Fail, DriverTyped
<1>2. CASE ~Idle /\ Advance
  <2>1. script' \in Seq(Todo) BY <1>2, First DEF Advance
  <2> QED BY <1>2, <2>1, Typed DEF Advance, DriverTyped
<1> QED BY <1>1, <1>2

LEMMA PacketIs ==
    ASSUME TypeOK, ~Idle, Now # "stream"
    PROVE  /\ Packet \in Sent
           /\ Now = "select" => Packet = Select
           /\ Now \in {"deselect", "idle"} => Packet = Deselect
           /\ Now \notin {"select", "deselect", "idle"} => Packet = script[1] /\ Packet.do = Now /\ Packet.arg = Arg
<1>1. Now = "select" => Packet = Select BY DEF Packet
<1>2. Now \in {"deselect", "idle"} => Packet = Deselect BY DEF Packet
<1>3. Now \notin {"select", "deselect", "idle"} =>
         Packet = script[1] /\ Packet.do = Now /\ Packet.arg = Arg
  BY DEF Packet, Now, Arg
<1>4. script[1] \in Sent BY First DEF Todo, Sent
<1> QED BY <1>1, <1>2, <1>3, <1>4, PairsAre

LEMMA RecordedIs ==
    ASSUME TypeOK, ~Idle
    PROVE  /\ Recorded \in DriveView
           /\ Recorded.present = drv.present /\ Recorded.protected = drv.protected
           /\ Recorded.selected = IF Now = "select" THEN TRUE
                                  ELSE IF Now \in {"deselect", "idle"} THEN FALSE ELSE drv.selected
           /\ Recorded.cyl = IF Now = "StepTo" THEN Arg ELSE drv.cyl
           /\ Recorded.side = IF Now = "Side" THEN Arg ELSE drv.side
           /\ Recorded.motor = IF script[1] = MotorOn THEN TRUE
                               ELSE IF script[1] = MotorOff THEN FALSE ELSE drv.motor
<1>1. drv \in DriveView /\ Arg \in Nat BY Typed, First
<1>2. script[1] = MotorOn => Now \in {"MotorAOn", "MotorBOn"} BY PairsAre DEF Now
<1>3. script[1] = MotorOff => Now \in {"MotorAOff", "MotorBOff"} BY PairsAre DEF Now
<1>4. CASE Now = "select" BY <1>1, <1>2, <1>3, <1>4 DEF Recorded, DriveView
<1>5. CASE Now \in {"deselect", "idle"} BY <1>1, <1>2, <1>3, <1>5 DEF Recorded, DriveView
<1>6. CASE Now = "StepTo" BY <1>1, <1>2, <1>3, <1>6 DEF Recorded, DriveView
<1>7. CASE Now = "Side" BY <1>1, <1>2, <1>3, <1>7 DEF Recorded, DriveView
<1>8. CASE Now \in {"MotorAOn", "MotorBOn", "MotorAOff", "MotorBOff"}
  <2>1. CASE script[1] = MotorOn
    <3>1. Recorded = [drv EXCEPT !.motor = TRUE] BY <1>2, <1>3, <1>8, <2>1 DEF Recorded
    <3> QED BY <1>1, <1>8, <2>1, <3>1 DEF DriveView
  <2>2. CASE script[1] # MotorOn /\ script[1] = MotorOff
    <3>1. Recorded = [drv EXCEPT !.motor = FALSE] BY <1>8, <2>2 DEF Recorded
    <3> QED BY <1>1, <1>8, <2>2, <3>1 DEF DriveView
  <2>3. CASE script[1] # MotorOn /\ script[1] # MotorOff
    <3>1. Recorded = drv BY <1>8, <2>3 DEF Recorded
    <3> QED BY <1>1, <1>8, <2>3, <3>1 DEF DriveView
  <2> QED BY <2>1, <2>2, <2>3
<1>9. CASE Now \notin {"select", "deselect", "idle", "StepTo", "Side", "MotorAOn", "MotorBOn",
                       "MotorAOff", "MotorBOff"}
  BY <1>1, <1>2, <1>3, <1>9 DEF Recorded, DriveView
<1> QED BY <1>4, <1>5, <1>6, <1>7, <1>8, <1>9

(* What a command does to the firmware.                                    *)
LEMMA ObeyedIs ==
    ASSUME TypeOK, NEW p \in Sent
    PROVE  /\ Obeyed(p) \in Firm
           /\ \A u \in Units :
                 /\ Obeyed(p).selected[u] = IF p.do = (IF u = "A" THEN "SelectA" ELSE "SelectB") THEN TRUE
                                            ELSE IF p.do = DeselectOf(u) THEN FALSE ELSE fw.selected[u]
                 /\ Obeyed(p).motor[u] = IF p.do = (IF u = "A" THEN "MotorAOn" ELSE "MotorBOn") THEN TRUE
                                         ELSE IF p.do = MotorOffOf(u) THEN FALSE ELSE fw.motor[u]
           /\ Obeyed(p).cyl = CASE p.do = "SeekZero" -> IF fw.selected[Drive] THEN 0 ELSE fw.cyl
                                [] p.do = "StepTo" -> p.arg
                                [] p.do = "StepOut" -> IF fw.cyl = 0 THEN 0 ELSE fw.cyl - 1
                                [] OTHER -> fw.cyl
           /\ Obeyed(p).side = IF p.do = "Side" THEN p.arg ELSE fw.side
           /\ Obeyed(p).placed = fw.placed \cup (IF p.do = "StepTo" THEN {"cyl"} ELSE {})
                                           \cup IF p.do = "Side" THEN {"side"} ELSE {}
           /\ Obeyed(p).streaming = IF p.do = "StartStream" THEN TRUE ELSE fw.streaming
<1>1. fw \in Firm /\ p.arg \in Nat BY Typed, Bytes
<1>2. CASE p.do \in {"SelectA", "SelectB", "DeselectA", "DeselectB"}
  BY <1>1, <1>2 DEF Obeyed, Firm, Units, DeselectOf, MotorOffOf
<1>3. CASE p.do \in {"MotorAOn", "MotorBOn", "MotorAOff", "MotorBOff"}
  BY <1>1, <1>3 DEF Obeyed, Firm, Units, DeselectOf, MotorOffOf
<1>4. CASE p.do \in {"SeekZero", "StepTo", "Side", "StartStream"}
  BY <1>1, <1>4 DEF Obeyed, Firm, Units, DeselectOf, MotorOffOf
<1>5. CASE p.do = "StepOut"
  BY <1>1, <1>5 DEF Obeyed, Firm, Units, DeselectOf, MotorOffOf
<1>6. CASE p.do \notin {"SelectA", "SelectB", "DeselectA", "DeselectB", "MotorAOn", "MotorBOn",
                        "MotorAOff", "MotorBOff", "SeekZero", "StepTo", "Side", "StartStream", "StepOut"}
  BY <1>1, <1>6 DEF Obeyed, Firm, Units, DeselectOf, MotorOffOf
<1> QED BY <1>2, <1>3, <1>4, <1>5, <1>6

(* The bytes to be read are those that have arrived and, behind them,      *)
(* those under way.                                                        *)
LEMMA LinkIs ==
    ASSUME TypeOK
    PROVE  /\ Link \in Seq(Byte) /\ Len(Link) = Len(inbox) + Len(outbox)
           /\ Len(inbox) \in Nat /\ Len(outbox) \in Nat /\ Len(Link) \in Nat
           /\ DOMAIN Link = 1..Len(Link)
           /\ \A i \in 1..Len(inbox) : Link[i] = inbox[i]
           /\ Link = <<>> <=> inbox = <<>> /\ outbox = <<>>
           /\ inbox = <<>> <=> Len(inbox) = 0
           /\ outbox = <<>> <=> Len(outbox) = 0
           /\ Link = <<>> <=> Len(Link) = 0
<1>0. inbox \in Seq(Byte) /\ outbox \in Seq(Byte) BY Typed
<1>1. /\ Link \in Seq(Byte) /\ Len(Link) = Len(inbox) + Len(outbox)
      /\ Len(inbox) \in Nat /\ Len(outbox) \in Nat
      /\ \A i \in 1..Len(inbox) : Link[i] = inbox[i]
      /\ Link = <<>> <=> inbox = <<>> /\ outbox = <<>>
  BY ONLY <1>0, CatIs DEF Link
<1> HIDE DEF Link
<1>2. Len(Link) \in Nat /\ DOMAIN Link = 1..Len(Link) BY <1>1
<1>3. /\ inbox = <<>> <=> Len(inbox) = 0
      /\ outbox = <<>> <=> Len(outbox) = 0
      /\ Link = <<>> <=> Len(Link) = 0
  BY ONLY <1>0, <1>1, EmptySeq
<1> QED BY <1>1, <1>2, <1>3

(* Bytes arrive in the order in which they were sent.                      *)
LEMMA DeliverLink == ASSUME TypeOK, Deliver PROVE Link' = Link /\ inbox' \in Seq(Byte) /\ outbox' \in Seq(Byte)
<1>1. inbox \in Seq(Byte) /\ outbox \in Seq(Byte) /\ outbox # <<>>
  BY Typed DEF Deliver
<1>2. Append(inbox, Head(outbox)) \o Tail(outbox) = inbox \o outbox
  BY <1>1, MoveOver
<1>3. Append(inbox, Head(outbox)) \in Seq(Byte) /\ Tail(outbox) \in Seq(Byte)
  BY <1>1, HeadTailProperties
<1> QED BY <1>2, <1>3 DEF Deliver, Link

(* The first n bytes have been read.                                       *)
Dropped(n) ==
    /\ n \in Nat /\ Link' \in Seq(Byte) /\ Len(Link') = Len(Link) - n /\ DOMAIN Link' = 1..Len(Link')
    /\ \A i \in 1..Len(Link') : i + n \in 1..Len(Link) /\ Link'[i] = Link[i + n]

LEMMA DropFront ==
    ASSUME TypeOK, inbox' \in Seq(Byte), UNCHANGED outbox, NEW n \in Nat,
           Len(inbox') = Len(inbox) - n, \A i \in 1..Len(inbox') : inbox'[i] = inbox[i + n]
    PROVE  Dropped(n)
<1>1. inbox \in Seq(Byte) /\ outbox \in Seq(Byte) BY Typed
<1>2. PICK a : a = inbox OBVIOUS
<1>3. PICK b : b = outbox OBVIOUS
<1>4. PICK c : c = inbox' OBVIOUS
<1>5. /\ a \in Seq(Byte) /\ b \in Seq(Byte) /\ c \in Seq(Byte)
      /\ Len(c) = Len(a) - n /\ \A i \in 1..Len(c) : c[i] = a[i + n]
  BY <1>1, <1>2, <1>3, <1>4
<1>6. /\ c \o b \in Seq(Byte) /\ Len(c \o b) = Len(a \o b) - n
      /\ \A i \in 1..Len(c \o b) : i + n \in 1..Len(a \o b) /\ (c \o b)[i] = (a \o b)[i + n]
  <2>1. c \o b \in Seq(Byte) /\ Len(c \o b) = Len(a \o b) - n
    <3>1. c \o b \in Seq(Byte) /\ Len(c \o b) = Len(c) + Len(b) BY ONLY <1>5, ConcatProperties
    <3>2. Len(a \o b) = Len(a) + Len(b) BY ONLY <1>5, ConcatProperties
    <3>3. Len(a) \in Nat /\ Len(b) \in Nat BY <1>5
    <3> QED BY <1>5, <3>1, <3>2, <3>3
  <2>2. \A i \in 1..Len(c \o b) : i + n \in 1..Len(a \o b) /\ (c \o b)[i] = (a \o b)[i + n]
    BY <1>5, FrontDropped
  <2> QED BY <2>1, <2>2
<1>7. Link = a \o b /\ Link' = c \o b BY <1>2, <1>3, <1>4 DEF Link
<1>8. DOMAIN (c \o b) = 1..Len(c \o b) BY <1>6
<1> QED BY <1>6, <1>7, <1>8 DEF Dropped

(* read_exact_until of a code and a response.                              *)
LEMMA DropTwo ==
    ASSUME TypeOK, Len(inbox) >= 2, inbox' = SubSeq(inbox, 3, Len(inbox)), UNCHANGED outbox
    PROVE  /\ inbox' \in Seq(Byte) /\ Dropped(2)
           /\ Link[1] = inbox[1] /\ Link[2] = inbox[2] /\ Len(Link) >= 2
<1>0. inbox \in Seq(Byte) BY Typed
<1>1. /\ inbox' \in Seq(Byte) /\ Len(inbox') = Len(inbox) - 2
      /\ \A i \in 1..Len(inbox') : inbox'[i] = inbox[i + 2]
  BY <1>0, AfterTwo
<1>2. 1 \in 1..Len(inbox) /\ 2 \in 1..Len(inbox) BY LinkIs
<1>3. Dropped(2) BY <1>1, DropFront
<1>4. Link[1] = inbox[1] /\ Link[2] = inbox[2] /\ Len(Link) >= 2 BY <1>2, LinkIs
<1> QED BY <1>1, <1>3, <1>4

(* And of one byte.                                                        *)
LEMMA DropOne ==
    ASSUME TypeOK, inbox # <<>>, inbox' = Tail(inbox), UNCHANGED outbox
    PROVE  /\ inbox' \in Seq(Byte) /\ Dropped(1) /\ Link[1] = inbox[1] /\ Len(Link) >= 1
<1>0. inbox \in Seq(Byte) BY Typed
<1>1. /\ inbox' \in Seq(Byte) /\ Len(inbox') = Len(inbox) - 1 /\ Len(inbox) \in Nat \ {0}
      /\ \A i \in 1..Len(inbox') : inbox'[i] = inbox[i + 1]
  BY <1>0, HeadTailProperties, EmptySeq
<1>2. 1 \in 1..Len(inbox) BY <1>1
<1>3. Dropped(1) BY <1>1, DropFront
<1>4. Link[1] = inbox[1] /\ Len(Link) >= 1 BY <1>2, LinkIs
<1> QED BY <1>1, <1>3, <1>4

(* What the firmware sends goes to the back.                               *)
Adds(bytes) ==
    /\ bytes \in Seq(Byte) /\ outbox' \in Seq(Byte)
    /\ Link' \in Seq(Byte) /\ Len(Link') = Len(Link) + Len(bytes) /\ DOMAIN Link' = 1..Len(Link')
    /\ \A i \in 1..Len(Link) : Link'[i] = Link[i]
    /\ \A i \in 1..Len(bytes) : Link'[i + Len(Link)] = bytes[i]

LEMMA Answers ==
    ASSUME TypeOK, NEW bytes \in Seq(Byte), outbox' = outbox \o bytes, UNCHANGED inbox
    PROVE  Adds(bytes)
<1>0. inbox \in Seq(Byte) /\ outbox \in Seq(Byte) /\ Link \in Seq(Byte) BY Typed, LinkIs
<1>1. outbox' \in Seq(Byte) BY <1>0, CatIs
<1>2. Link' = Link \o bytes
  <2>1. inbox \o (outbox \o bytes) = (inbox \o outbox) \o bytes
    BY ONLY <1>0, bytes \in Seq(Byte), ConcatAssociative
  <2> QED BY <2>1 DEF Link
<1>3. PICK l : l = Link OBVIOUS
<1>4. /\ l \o bytes \in Seq(Byte) /\ Len(l \o bytes) = Len(l) + Len(bytes)
      /\ \A i \in 1..Len(l) : (l \o bytes)[i] = l[i]
      /\ \A i \in 1..Len(bytes) : (l \o bytes)[i + Len(l)] = bytes[i]
  BY ONLY <1>0, <1>3, bytes \in Seq(Byte), CatIs
<1>5. DOMAIN (l \o bytes) = 1..Len(l \o bytes) BY <1>4
<1> QED BY <1>1, <1>2, <1>3, <1>4, <1>5 DEF Adds

(* One byte of them.                                                       *)
LEMMA AnswersOne ==
    ASSUME TypeOK, NEW b \in Byte, outbox' = Append(outbox, b), UNCHANGED inbox
    PROVE  /\ outbox' \in Seq(Byte) /\ Link' \in Seq(Byte) /\ Len(Link') = Len(Link) + 1
           /\ DOMAIN Link' = 1..(Len(Link) + 1)
           /\ \A i \in 1..Len(Link) : Link'[i] = Link[i]
           /\ Link'[Len(Link) + 1] = b
<1>1. outbox \in Seq(Byte) /\ Len(Link) \in Nat BY Typed, LinkIs
<1>2. <<b>> \in Seq(Byte) /\ Len(<<b>>) = 1 /\ <<b>>[1] = b OBVIOUS
<1>3. outbox' = outbox \o <<b>> BY <1>1, AppendIsConcat
<1>4. Adds(<<b>>) BY <1>2, <1>3, Answers
<1>5. 1 \in 1..Len(<<b>>) BY <1>2
<1>6. Link'[1 + Len(Link)] = <<b>>[1] BY <1>4, <1>5 DEF Adds
<1>7. 1 + Len(Link) = Len(Link) + 1 BY <1>1
<1>8. /\ outbox' \in Seq(Byte) /\ Link' \in Seq(Byte) /\ Len(Link') = Len(Link) + 1
      /\ DOMAIN Link' = 1..(Len(Link) + 1)
      /\ \A i \in 1..Len(Link) : Link'[i] = Link[i]
  BY <1>2, <1>4 DEF Adds
<1> QED BY <1>2, <1>6, <1>7, <1>8

(* What the firmware answers and does.                                     *)
OK(p) == LET n == IF p.do \in {"Info", "Status"} THEN 3 ELSE 2
         IN \E bytes \in Seq(Byte) : /\ Adds(bytes) /\ Len(bytes) = n
                                     /\ bytes[1] = p.do /\ bytes[2] = "OK"
Refuses(p) == \E bytes \in Seq(Byte) : /\ Adds(bytes) /\ Len(bytes) = 2
                                       /\ bytes[1] = p.do /\ bytes[2] # "OK"
LEMMA FirmwareIs ==
    ASSUME TypeOK, Firmware, NEW p, p = Head(wire)
    PROVE  /\ p \in Sent /\ wire' \in Seq(Sent) /\ outbox' \in Seq(Byte) /\ fw' \in Firm
           /\ \/ /\ p.do = "StopStream" /\ fw.streaming /\ fw' = [fw EXCEPT !.streaming = FALSE]
                 /\ Link' \in Seq(Byte) /\ Len(Link') = Len(Link) + 1
                 /\ \A i \in 1..Len(Link) : Link'[i] = Link[i]
                 /\ Link'[Len(Link) + 1] \in {"stopped", "overrun"}
                 /\ UNCHANGED trouble
              \/ /\ p.do = "StopStream" /\ ~fw.streaming /\ UNCHANGED <<outbox, fw, trouble>>
              \/ /\ p.do # "StopStream" /\ OK(p) /\ fw' = Obeyed(p) /\ UNCHANGED trouble
                 /\ Objections(p) \subseteq {"BAD"}
              \/ /\ p.do # "StopStream" /\ Refuses(p) /\ UNCHANGED fw
                 /\ trouble' = IF opened = "open" THEN trouble ELSE trouble \cup {"refused"}
<1>1. p \in Sent /\ wire' \in Seq(Sent)
  <2>1. wire \in Seq(Sent) /\ wire # <<>> BY Typed DEF Firmware
  <2> QED BY <2>1, HeadTailProperties DEF Firmware
<1>2. UNCHANGED inbox /\ outbox \in Seq(Byte) /\ fw \in Firm BY Typed DEF Firmware
<1>3. CASE /\ p.do = "StopStream" /\ fw.streaming
           /\ \E end \in {"stopped", "overrun"} : outbox' = Append(outbox, end)
           /\ fw' = [fw EXCEPT !.streaming = FALSE]
           /\ UNCHANGED trouble
  <2>1. PICK end \in {"stopped", "overrun"} : outbox' = Append(outbox, end) BY <1>3
  <2>2. end \in Byte BY Bytes
  <2>3. /\ outbox' \in Seq(Byte) /\ Link' \in Seq(Byte) /\ Len(Link') = Len(Link) + 1
        /\ \A i \in 1..Len(Link) : Link'[i] = Link[i]
        /\ Link'[Len(Link) + 1] = end
    BY <1>2, <2>1, <2>2, AnswersOne
  <2>4. fw' \in Firm BY <1>2, <1>3 DEF Firm
  <2> QED BY <1>1, <1>3, <2>3, <2>4
<1>4. CASE p.do = "StopStream" /\ ~fw.streaming /\ UNCHANGED <<outbox, fw, trouble>>
  BY <1>1, <1>2, <1>4
<1>5. CASE /\ p.do # "StopStream"
           /\ Objections(p) \subseteq {"BAD"}
           /\ outbox' = outbox \o <<p.do, "OK">>
                               \o (CASE p.do = "Status" -> <<Pins>>
                                     [] p.do = "Info" -> <<"info">>
                                     [] OTHER -> <<>>)
           /\ fw' = Obeyed(p)
           /\ UNCHANGED trouble
  <2> DEFINE rest == CASE p.do = "Status" -> <<Pins>>
                       [] p.do = "Info" -> <<"info">>
                       [] OTHER -> <<>>
             code == <<p.do, "OK">>
             bytes == code \o rest
  <2>1. Pins \in Byte /\ "info" \in Byte BY Bytes DEF Pins
  <2>2. rest \in Seq(Byte) /\ Len(rest) = IF p.do \in {"Info", "Status"} THEN 1 ELSE 0 BY <2>1
  <2>3. code \in Seq(Byte) /\ Len(code) = 2 /\ code[1] = p.do /\ code[2] = "OK" BY <1>1, Bytes
  <2>4. outbox' = (outbox \o code) \o rest BY <1>5
  <2> HIDE DEF rest, code
  <2>5. outbox' = outbox \o bytes BY ONLY <1>2, <2>2, <2>3, <2>4, ConcatAssociative
  <2>6. /\ bytes \in Seq(Byte) /\ Len(bytes) = 2 + Len(rest)
        /\ \A i \in 1..2 : bytes[i] = code[i]
    <3>1. bytes \in Seq(Byte) /\ Len(bytes) = Len(code) + Len(rest) BY ONLY <2>2, <2>3, CatIs
    <3>2. \A i \in 1..Len(code) : bytes[i] = code[i]
      <4>1. rest \in Seq(Byte) /\ code \in Seq(Byte) BY <2>2, <2>3
      <4> QED BY ONLY <4>1, CatIs
    <3> QED BY <2>3, <3>1, <3>2
  <2> HIDE DEF bytes
  <2>7. Adds(bytes) BY <1>2, <2>5, <2>6, Answers
  <2>8. bytes[1] = p.do /\ bytes[2] = "OK" BY <2>3, <2>6
  <2>9. OK(p) BY <2>2, <2>6, <2>7, <2>8 DEF OK
  <2>10. outbox' \in Seq(Byte) BY <2>7 DEF Adds
  <2>11. fw' \in Firm BY <1>1, <1>5, ObeyedIs
  <2> QED BY <1>1, <1>5, <2>9, <2>10, <2>11
<1>6. CASE /\ p.do # "StopStream"
           /\ \E r \in Objections(p) : outbox' = outbox \o <<p.do, r>>
           /\ trouble' = IF opened = "open" THEN trouble ELSE trouble \cup {"refused"}
           /\ UNCHANGED fw
  <2>1. PICK r \in Objections(p) : outbox' = outbox \o <<p.do, r>> BY <1>6
  <2>2. r \in {"BAD", "NOT_READY", "NO_DISK", "WRITE_PROTECTED"} BY <2>1 DEF Objections
  <2>3. p.do \in Byte /\ r \in Byte /\ r # "OK" BY <1>1, <2>2, Bytes
  <2> DEFINE bytes == <<p.do, r>>
  <2>4. bytes \in Seq(Byte) /\ Len(bytes) = 2 /\ bytes[1] = p.do /\ bytes[2] # "OK" BY <2>3
  <2>5. outbox' = outbox \o bytes BY <2>1
  <2> HIDE DEF bytes
  <2>6. Adds(bytes) BY <1>2, <2>4, <2>5, Answers
  <2>7. Refuses(p) /\ outbox' \in Seq(Byte) BY <2>4, <2>6 DEF Refuses, Adds
  <2> QED BY <1>1, <1>2, <1>6, <2>7
<1>7. \/ /\ p.do = "StopStream" /\ fw.streaming
         /\ \E end \in {"stopped", "overrun"} : outbox' = Append(outbox, end)
         /\ fw' = [fw EXCEPT !.streaming = FALSE]
         /\ UNCHANGED trouble
      \/ p.do = "StopStream" /\ ~fw.streaming /\ UNCHANGED <<outbox, fw, trouble>>
      \/ /\ p.do # "StopStream"
         /\ Objections(p) \subseteq {"BAD"}
         /\ outbox' = outbox \o <<p.do, "OK">>
                             \o (CASE p.do = "Status" -> <<Pins>>
                                   [] p.do = "Info" -> <<"info">>
                                   [] OTHER -> <<>>)
         /\ fw' = Obeyed(p)
         /\ UNCHANGED trouble
      \/ /\ p.do # "StopStream"
         /\ \E r \in Objections(p) : outbox' = outbox \o <<p.do, r>>
         /\ trouble' = IF opened = "open" THEN trouble ELSE trouble \cup {"refused"}
         /\ UNCHANGED fw
  BY Zenon DEF Firmware
<1> QED BY <1>3, <1>4, <1>5, <1>6, <1>7

LEMMA TypeNext ==
    ASSUME DriverTyped', drv' \in DriveView, LinkTyped', fw' \in Firm, late' \in Nat PROVE TypeOK'
BY DEF TypeOK
LEMMA DriverSame == ASSUME TypeOK, UNCHANGED <<opened, script, phase>> PROVE DriverTyped'
BY DEF TypeOK, DriverTyped, Idle
LEMMA LinkSame == ASSUME TypeOK, UNCHANGED linkVars PROVE LinkTyped'
BY DEF TypeOK, LinkTyped, linkVars

LEMMA DriverTypes == ASSUME TypeOK, Driver PROVE TypeOK'
<1>1. /\ drv \in DriveView /\ fw \in Firm /\ late \in Nat /\ LinkTyped /\ DriverTyped
      /\ inbox \in Seq(Byte) /\ outbox \in Seq(Byte) /\ wire \in Seq(Sent)
  BY DEF TypeOK, LinkTyped
<1>2. <<>> \in Seq(Byte) OBVIOUS
<1>3. CASE Skip
  <2>1. DriverTyped' BY <1>3, DoneTyped DEF Skip
  <2>2. inbox' \in Seq(Byte) BY <1>1, <1>2, <1>3 DEF Skip
  <2>3. UNCHANGED <<drv, wire, outbox, fw, late>> BY <1>3 DEF Skip
  <2> QED BY <1>1, <2>1, <2>2, <2>3, TypeNext DEF LinkTyped
<1>4. CASE Send
  <2>1. Packet \in Sent BY <1>4, PacketIs DEF Send, Streamed
  <2>2. UNCHANGED <<opened, script, drv, outbox, inbox, fw, late>> /\ phase' = "ack" /\ ~Idle
    BY <1>4 DEF Send, historyVars
  <2>3. wire' \in Seq(Sent) BY <1>1, <1>4, <2>1, AppendProperties DEF Send
  <2>4. DriverTyped' BY <1>1, <2>2 DEF DriverTyped, Idle
  <2> QED BY <1>1, <2>2, <2>3, <2>4, TypeNext DEF LinkTyped
<1>5. CASE Acknowledge
  <2>1. ~Idle BY <1>1, <1>5 DEF Acknowledge, DriverTyped
  <2>2. inbox' \in Seq(Byte) BY <1>5, DropTwo DEF Acknowledge
  <2>3. UNCHANGED <<wire, outbox, fw, late>> BY <1>5 DEF Acknowledge, historyVars
  <2>4. DriverTyped'
    <3>1. Fail \/ Advance \/ (phase' = "payload" /\ UNCHANGED <<opened, script>>)
      BY <1>5 DEF Acknowledge
    <3>2. CASE phase' = "payload" /\ UNCHANGED <<opened, script>>
      BY <1>1, <2>1, <3>2 DEF DriverTyped, Idle
    <3> QED BY <2>1, <3>1, <3>2, DoneTyped
  <2>5. drv' \in DriveView
    <3>1. \/ drv' \in {drv, Recorded}
          \/ drv' = [drv EXCEPT !.present = FALSE]
          \/ drv' = [drv EXCEPT !.protected = TRUE]
      BY <1>5 DEF Acknowledge
    <3>2. Recorded \in DriveView BY <2>1, RecordedIs
    <3> QED BY <1>1, <3>1, <3>2 DEF DriveView
  <2> QED BY <1>1, <2>2, <2>3, <2>4, <2>5, TypeNext DEF LinkTyped
<1>6. CASE TakePayload
  <2>1. ~Idle BY <1>1, <1>6 DEF TakePayload, DriverTyped
  <2>2. DriverTyped' BY <1>6, <2>1, DoneTyped DEF TakePayload
  <2>3. inbox' \in Seq(Byte) BY <1>6, DropOne DEF TakePayload
  <2>4. UNCHANGED <<wire, outbox, fw, late>> BY <1>6 DEF TakePayload, historyVars
  <2>5. drv' \in DriveView
    <3>1. PICK a : a = (inbox[1] \in {"disk", "protected"}) OBVIOUS
    <3>2. PICK b : b = (inbox[1] \in {"protected", "none"}) OBVIOUS
    <3>3. a \in BOOLEAN /\ b \in BOOLEAN BY <3>1, <3>2
    <3>4. drv' = drv \/ drv' = [drv EXCEPT !.present = a, !.protected = b]
      BY <1>6, <3>1, <3>2, Zenon DEF TakePayload
    <3> QED BY <1>1, <3>3, <3>4 DEF DriveView
  <2> QED BY <1>1, <2>2, <2>3, <2>4, <2>5, TypeNext DEF LinkTyped
<1>7. CASE TakeStream
  <2>1. DriverTyped'
    <3>1. (Advance /\ ~Idle) \/ Fail \/ UNCHANGED <<opened, script, phase>> BY <1>7 DEF TakeStream
    <3> QED BY <3>1, DoneTyped, DriverSame
  <2>2. inbox' \in Seq(Byte)
    <3>1. UNCHANGED outbox /\ (inbox' = inbox \/ (inbox # <<>> /\ inbox' = Tail(inbox)))
      BY <1>7 DEF TakeStream
    <3> QED BY <1>1, <3>1, DropOne
  <2>3. UNCHANGED <<drv, wire, outbox, fw, late>> BY <1>7 DEF TakeStream
  <2> QED BY <1>1, <2>1, <2>2, <2>3, TypeNext DEF LinkTyped
<1>8. CASE TakeStop
  <2>0. ~Idle BY <1>1, <1>8 DEF TakeStop, DriverTyped
  <2>1. DriverTyped'
    <3>1. Advance \/ Fail \/ UNCHANGED <<opened, script, phase>> BY <1>8 DEF TakeStop
    <3> QED BY <2>0, <3>1, DoneTyped, DriverSame
  <2>2. inbox' \in Seq(Byte)
    <3>1. UNCHANGED outbox /\ (inbox' = <<>> \/ (inbox # <<>> /\ inbox' = Tail(inbox)))
      BY <1>8 DEF TakeStop
    <3> QED BY <1>2, <3>1, DropOne
  <2>3. UNCHANGED <<wire, outbox, fw, late>> BY <1>8 DEF TakeStop, historyVars
  <2>4. drv' \in DriveView
    <3>1. drv' = drv \/ drv' = [drv EXCEPT !.present = TRUE] BY <1>8 DEF TakeStop
    <3> QED BY <1>1, <3>1 DEF DriveView
  <2> QED BY <1>1, <2>1, <2>2, <2>3, <2>4, TypeNext DEF LinkTyped
<1>9. CASE Deadline
  <2>1. DriverTyped' BY <1>9, DoneTyped DEF Deadline
  <2>2. inbox' \in Seq(Byte) /\ late' \in Nat BY <1>1, <1>2, <1>9 DEF Deadline
  <2>3. UNCHANGED <<drv, wire, outbox, fw>> BY <1>9 DEF Deadline
  <2> QED BY <1>1, <2>1, <2>2, <2>3, TypeNext DEF LinkTyped
<1> QED BY <1>3, <1>4, <1>5, <1>6, <1>7, <1>8, <1>9 DEF Driver

LEMMA TypeStep == ASSUME TypeOK, [Next]_vars PROVE TypeOK'
<1>1. /\ drv \in DriveView /\ fw \in Firm /\ late \in Nat /\ LinkTyped /\ DriverTyped
      /\ inbox \in Seq(Byte) /\ outbox \in Seq(Byte) /\ wire \in Seq(Sent)
  BY DEF TypeOK, LinkTyped
<1>2. CASE Call
  <2>1. script' \in Seq(Todo) BY <1>2, ScriptsOK DEF Call
  <2>2. Idle /\ phase' = phase /\ opened' = opened /\ UNCHANGED <<drv, wire, outbox, inbox, fw, late>>
    BY <1>2 DEF Call, linkVars, historyVars
  <2>3. DriverTyped' BY <1>1, <2>1, <2>2 DEF DriverTyped
  <2> QED BY <1>1, <2>2, <2>3, TypeNext DEF LinkTyped
<1>3. CASE Drop
  <2>1. script' \in Seq(Todo) BY <1>3, OffOK DEF Drop
  <2>2. Idle /\ phase' = phase /\ opened' = "closing" /\ UNCHANGED <<drv, wire, outbox, inbox, fw, late>>
    BY <1>3 DEF Drop, linkVars, historyVars
  <2>3. DriverTyped' BY <1>1, <2>1, <2>2 DEF DriverTyped
  <2> QED BY <1>1, <2>2, <2>3, TypeNext DEF LinkTyped
<1>4. CASE Driver BY <1>4, DriverTypes
<1>5. CASE Firmware
  <2>1. wire' \in Seq(Sent) /\ outbox' \in Seq(Byte) /\ fw' \in Firm BY <1>5, FirmwareIs
  <2>2. UNCHANGED <<opened, script, phase, drv, inbox, late>> BY <1>5 DEF Firmware, callVars
  <2> QED BY <1>1, <2>1, <2>2, DriverSame, TypeNext DEF LinkTyped
<1>6. CASE Stream
  <2>1. PICK b \in {"flux", "index"} : outbox' = Append(outbox, b) BY <1>6 DEF Stream
  <2>2. b \in Byte BY Bytes
  <2>3. outbox' \in Seq(Byte) BY <1>1, <2>1, <2>2, AppendProperties
  <2>4. UNCHANGED <<opened, script, phase, drv, inbox, wire, fw, late>>
    BY <1>6 DEF Stream, callVars, historyVars
  <2> QED BY <1>1, <2>3, <2>4, DriverSame, TypeNext DEF LinkTyped
<1>7. CASE Deliver
  <2>1. inbox' \in Seq(Byte) /\ outbox' \in Seq(Byte) BY <1>7, DeliverLink
  <2>2. UNCHANGED <<opened, script, phase, drv, wire, fw, late>>
    BY <1>7 DEF Deliver, callVars, historyVars
  <2> QED BY <1>1, <2>1, <2>2, DriverSame, TypeNext DEF LinkTyped
<1>8. CASE ChangeDisk \/ Closed \/ UNCHANGED vars
  <2>1. UNCHANGED <<opened, script, phase, drv, wire, outbox, inbox, fw, late>>
    BY <1>8 DEF ChangeDisk, Closed, vars, callVars, linkVars, historyVars
  <2> QED BY <1>1, <2>1, DriverSame, TypeNext DEF LinkTyped
<1> QED BY <1>2, <1>3, <1>4, <1>5, <1>6, <1>7, <1>8 DEF Next

LEMMA FoundIs == ASSUME NEW f \in FoundFirmware PROVE f \in Firm /\ f.placed = {}
<1>1. PICK on \in BOOLEAN, streaming \in BOOLEAN, head \in Heads :
         f = [selected |-> [u \in Units |-> on], motor |-> [u \in Units |-> on], cyl |-> head.cyl,
              side |-> head.side, placed |-> {}, streaming |-> streaming]
  BY DEF FoundFirmware
<1>2. head.cyl \in Nat /\ head.side \in Nat BY SuperCardProAssumption
<1> QED BY <1>1, <1>2 DEF Firm

LEMMA TypeInit == ASSUME Init PROVE TypeOK
<1>1. DriverTyped
  <2>1. OpenScript \in Seq(Todo) /\ OpenScript # <<>> BY OpenIs, OpenOK
  <2> QED BY <2>1 DEF Init, DriverTyped, Idle
<1>2. drv \in DriveView BY DEF Init, DriveView
<1>3. fw \in Firm BY FoundIs DEF Init
<1>4. LinkTyped
  <2>1. inbox \in Leftovers \cup {<<>>} /\ wire = <<>> /\ outbox = <<>> BY DEF Init
  <2>2. Leftovers \subseteq Seq(STRING) /\ STRING \subseteq Byte BY SuperCardProAssumption DEF Byte
  <2>3. ASSUME NEW s \in Seq(STRING) PROVE s \in Seq(Byte) BY <2>2, SeqMonotonic
  <2>4. <<>> \in Seq(Byte) /\ <<>> \in Seq(Sent) OBVIOUS
  <2> QED BY <2>1, <2>2, <2>3, <2>4 DEF LinkTyped
<1> QED BY <1>1, <1>2, <1>3, <1>4 DEF Init, TypeOK

-----------------------------------------------------------------------------
(* What the driver knows of the firmware, through its steps.               *)
LEMMA UnitsAre == MotorOffOf("A") = "MotorAOff" /\ MotorOffOf("B") = "MotorBOff"
                  /\ DeselectOf("A") = "DeselectA" /\ DeselectOf("B") = "DeselectB"
                  /\ Units = {"A", "B"} /\ Drive \in Units
BY SuperCardProAssumption DEF MotorOffOf, DeselectOf, Units

SameView(d, e) ==
    d.selected = e.selected /\ d.motor = e.motor /\ d.cyl = e.cyl /\ d.side = e.side

LEMMA ViewKept ==
    ASSUME NEW o, NEW d, NEW s, View(o, d, s), UNCHANGED fw, trouble \subseteq trouble',
           opened' = o, SameView(drv', d), script' = s
    PROVE  View(opened, drv, script)'
<1>1. o = "open" => Agrees(drv)' BY DEF View, Agrees, SameView
<1>2. o = "opening" => Untouched(drv, script)' BY DEF View, Untouched, SameView
<1>3. o \in {"closing", "closed"} => Closes(script)' BY DEF View, Closes
<1> QED BY <1>1, <1>2, <1>3 DEF View

(* A step that touches no motor and no selection that is still to go.      *)
LEMMA TailView ==
    ASSUME TypeOK, ~Idle, View(opened, drv, script),
           Now \notin {"MotorAOff", "MotorBOff", "DeselectA", "DeselectB"}
    PROVE  View(opened, drv, Tail(script))
<1>1. script \in Seq(Todo) /\ script # <<>> BY First
<1>2. \A u \in Units : /\ Ahead(MotorOffOf(u), script) => Ahead(MotorOffOf(u), Tail(script))
                       /\ Ahead(DeselectOf(u), script) => Ahead(DeselectOf(u), Tail(script))
  BY <1>1, TailAhead DEF Now, MotorOffOf, DeselectOf
<1>3. opened = "opening" => Untouched(drv, Tail(script)) BY <1>2 DEF View, Untouched
<1>4. opened \in {"closing", "closed"} => Closes(Tail(script)) BY <1>2 DEF View, Closes
<1> QED BY <1>3, <1>4 DEF View

LEMMA AdvanceView ==
    ASSUME TypeOK, ~Idle, ScriptOK(opened, drv, script), Advance, NEW d, View(After, d, Tail(script)), UNCHANGED fw,
           trouble \subseteq trouble', SameView(drv', d)
    PROVE  View(opened, drv, script)'
<1>1. script' = Tail(script) BY DEF Advance
<1>2. opened' = After \/ (After = "closing" /\ opened' = "closed")
  <2>1. CASE Now = "SeekZero"
    <3>1. opened = "opening" BY <2>1, First DEF ScriptOK, Ahead, Now
    <3> QED BY <2>1, <3>1 DEF Advance, After
  <2>2. CASE Now # "SeekZero" /\ opened = "closing" /\ script' = <<>> BY <2>2 DEF Advance, After
  <2>3. CASE Now # "SeekZero" /\ ~(opened = "closing" /\ script' = <<>>)
    BY <2>3 DEF Advance, After
  <2> QED BY <2>1, <2>2, <2>3
<1>3. View(opened', d, Tail(script))
  <2>1. CASE opened' = After BY <2>1
  <2>2. CASE After = "closing" /\ opened' = "closed" BY <2>2 DEF View
  <2> QED BY <1>2, <2>1, <2>2
<1> QED BY <1>1, <1>3, ViewKept

LEMMA FailView ==
    ASSUME TypeOK, Fail, View(opened, drv, script), UNCHANGED fw, trouble \subseteq trouble',
           SameView(drv', drv), opened # "closed",
           \/ opened = "open"
           \/ "refused" \in trouble'
           \/ opened = "opening" /\ "old" \in trouble'
    PROVE  View(opened, drv, script)'
<1>1. CASE opened = "open"
  <2>1. opened' = "open" BY <1>1 DEF Fail
  <2>2. Agrees(drv)' BY <1>1 DEF View, Agrees, SameView
  <2> QED BY <2>1, <2>2 DEF View
<1>2. CASE opened # "open"
  <2>1. opened' \in {"closing", "closed"} BY <1>2, Typed DEF Fail
  <2>2. Closes(script)'
    <3>1. CASE "refused" \in trouble' BY <3>1 DEF Closes
    <3>2. CASE opened = "opening" /\ "old" \in trouble'
      <4>1. script' = MotorScript(FALSE) BY <3>2 DEF Fail
      <4>2. Ahead(MotorOffOf(Drive), script') BY <4>1, OffOK
      <4> QED BY <3>2, <4>2 DEF Closes
    <3> QED BY <1>2, <3>1, <3>2
  <2> QED BY <2>1, <2>2 DEF View
<1> QED BY <1>1, <1>2

LEMMA SoundEarlier == ASSUME TypeOK, Sound', late' = late \/ late' = late + 1, trouble \subseteq trouble'
                      PROVE Sound /\ late' = late
<1>1. late \in Nat /\ late' = 0 /\ "abandoned" \notin trouble BY Typed DEF Sound
<1> QED BY <1>1 DEF Sound

(* The firmware does as the first step of the script says.                 *)
LEMMA ObeyView ==
    ASSUME TypeOK, ~Idle, ScriptOK(opened, drv, script), View(opened, drv, script),
           Now \notin {"stream", "StopStream"}, ~Local,
           fw' = Obeyed(Packet), trouble' = trouble, UNCHANGED <<opened, drv, script>>
    PROVE  View(After, Recorded, Tail(script))'
<1> DEFINE p == Packet
           r == Recorded
           t == Tail(script)
<1>1. /\ p \in Sent
      /\ Now = "select" => p = Select
      /\ Now \in {"deselect", "idle"} => p = Deselect
      /\ Now \notin {"select", "deselect", "idle"} => p = script[1] /\ p.do = Now /\ p.arg = Arg
  BY PacketIs
<1>2. /\ \A u \in Units :
            /\ fw'.selected[u] = IF p.do = (IF u = "A" THEN "SelectA" ELSE "SelectB") THEN TRUE
                                 ELSE IF p.do = DeselectOf(u) THEN FALSE ELSE fw.selected[u]
            /\ fw'.motor[u] = IF p.do = (IF u = "A" THEN "MotorAOn" ELSE "MotorBOn") THEN TRUE
                              ELSE IF p.do = MotorOffOf(u) THEN FALSE ELSE fw.motor[u]
      /\ fw'.cyl = CASE p.do = "SeekZero" -> IF fw.selected[Drive] THEN 0 ELSE fw.cyl
                     [] p.do = "StepTo" -> p.arg
                     [] p.do = "StepOut" -> IF fw.cyl = 0 THEN 0 ELSE fw.cyl - 1
                     [] OTHER -> fw.cyl
      /\ fw'.side = IF p.do = "Side" THEN p.arg ELSE fw.side
      /\ fw'.placed = fw.placed \cup (IF p.do = "StepTo" THEN {"cyl"} ELSE {})
                                \cup IF p.do = "Side" THEN {"side"} ELSE {}
  BY <1>1, ObeyedIs
<1>3. /\ r.selected = IF Now = "select" THEN TRUE
                      ELSE IF Now \in {"deselect", "idle"} THEN FALSE ELSE drv.selected
      /\ r.cyl = IF Now = "StepTo" THEN Arg ELSE drv.cyl
      /\ r.side = IF Now = "Side" THEN Arg ELSE drv.side
      /\ r.motor = IF script[1] = MotorOn THEN TRUE
                   ELSE IF script[1] = MotorOff THEN FALSE ELSE drv.motor
  BY RecordedIs
<1>4. PICK b \in {"A", "B"} : Drive = b BY DriveIs
<1>5. /\ Select.do = (IF Drive = "A" THEN "SelectA" ELSE "SelectB") /\ Deselect.do = DeselectOf(Drive)
      /\ MotorOn.do = (IF Drive = "A" THEN "MotorAOn" ELSE "MotorBOn") /\ MotorOff.do = MotorOffOf(Drive)
  BY DEF Select, Deselect, MotorOn, MotorOff, Command, Step, DeselectOf, MotorOffOf
<1>6. script \in Seq(Todo) /\ script # <<>> /\ 1 \in DOMAIN script /\ Now = script[1].do /\ Arg = script[1].arg
      /\ Arg \in Nat /\ Now \in Steps
  BY First DEF Now, Arg
<1>7. r' = r /\ t' = t /\ After' = After
  BY DEF Recorded, After, Now, Arg
<1>8. \A x : /\ Ahead(x, t) => Ahead(x, script)
             /\ Ahead(x, script) /\ Now # x => Ahead(x, t)
  BY <1>6, TailAhead
<1> HIDE DEF p, r, t
<1>9. CASE opened = "open"
  <2>1. After = "open" BY <1>9 DEF After
  <2>2. /\ \A u \in Units : /\ fw.selected[u] = (u = Drive /\ drv.selected)
                            /\ fw.motor[u] = (u = Drive /\ drv.motor)
        /\ drv.cyl = (IF "cyl" \in fw.placed THEN fw.cyl ELSE 0) /\ drv.cyl < MaxCylinders
        /\ drv.side = IF "side" \in fw.placed THEN fw.side ELSE 0
    BY <1>9 DEF View, Agrees
  <2>3. /\ Now \in {"MotorAOn", "MotorBOn"} => script[1] = MotorOn
        /\ Now \in {"MotorAOff", "MotorBOff"} => script[1] = MotorOff
        /\ Now \notin {"DeselectA", "DeselectB", "SeekZero"}
    BY <1>6, <1>9 DEF ScriptOK, WorksOnly
  <2>4. /\ Now = "StepTo" => Arg < MaxCylinders
        /\ Now = "StepOut" => drv.cyl = 0
    BY <1>6 DEF ScriptOK, Guarded
  <2>5. Now \notin {"SelectA", "SelectB"} BY <1>6 DEF Steps, Local0, Insists, NeedDrive, Opening
  <2>6. ASSUME NEW u \in Units
        PROVE  /\ fw'.selected[u] = (u = Drive /\ r.selected)
               /\ fw'.motor[u] = (u = Drive /\ r.motor)
    <3>1. u = "A" \/ u = "B" BY DEF Units
    <3>2. fw'.selected[u] = (u = Drive /\ r.selected)
      <4>1. CASE Now = "select" BY <1>1, <1>2, <1>3, <1>4, <1>5, <2>2, <3>1, <4>1 DEF DeselectOf
      <4>2. CASE Now \in {"deselect", "idle"}
        BY <1>1, <1>2, <1>3, <1>4, <1>5, <2>2, <3>1, <4>2 DEF DeselectOf
      <4>3. CASE Now \notin {"select", "deselect", "idle"}
        BY <1>1, <1>2, <1>3, <1>4, <2>2, <2>3, <2>5, <3>1, <4>3 DEF DeselectOf
      <4> QED BY <4>1, <4>2, <4>3
    <3>3. fw'.motor[u] = (u = Drive /\ r.motor)
      <4>0. MotorOn # MotorOff BY <1>4, <1>5, <3>1 DEF MotorOffOf
      <4>1. CASE Now \in {"select", "deselect", "idle"}
        <5>1. p.do \in {"SelectA", "SelectB", "DeselectA", "DeselectB"}
          BY <1>1, <1>4, <1>5, <4>1 DEF DeselectOf
        <5>2. script[1] # MotorOn /\ script[1] # MotorOff
          BY <1>4, <1>5, <1>6, <4>1 DEF MotorOffOf
        <5> QED BY <1>2, <1>3, <2>2, <3>1, <5>1, <5>2 DEF MotorOffOf
      <4>2. CASE Now \in {"MotorAOn", "MotorBOn"}
        <5>1. script[1] = MotorOn /\ p.do = MotorOn.do BY <1>1, <2>3, <4>2
        <5>2. fw'.motor[u] = IF u = Drive THEN TRUE ELSE fw.motor[u]
          BY <1>2, <1>4, <1>5, <3>1, <5>1 DEF MotorOffOf
        <5>3. r.motor = TRUE BY <1>3, <5>1
        <5> QED BY <2>2, <5>2, <5>3
      <4>3. CASE Now \in {"MotorAOff", "MotorBOff"}
        BY <1>1, <1>2, <1>3, <1>4, <1>5, <1>6, <2>2, <2>3, <3>1, <4>3, <4>0 DEF MotorOffOf
      <4>4. CASE Now \notin {"select", "deselect", "idle", "MotorAOn", "MotorBOn", "MotorAOff", "MotorBOff"}
        <5>1. script[1] # MotorOn /\ script[1] # MotorOff
          BY <1>4, <1>5, <1>6, <4>4 DEF MotorOffOf
        <5> QED BY <1>1, <1>2, <1>3, <2>2, <3>1, <4>4, <5>1 DEF MotorOffOf
      <4> QED BY <4>1, <4>2, <4>3, <4>4
    <3> QED BY <3>2, <3>3
  <2>7. /\ r.cyl = (IF "cyl" \in fw'.placed THEN fw'.cyl ELSE 0) /\ r.cyl < MaxCylinders
        /\ r.side = IF "side" \in fw'.placed THEN fw'.side ELSE 0
    <3>1. CASE Now \in {"select", "deselect", "idle"}
      <4>1. p.do \in {"SelectA", "SelectB", "DeselectA", "DeselectB"}
        BY <1>1, <1>4, <1>5, <3>1 DEF DeselectOf
      <4>2. fw'.cyl = fw.cyl /\ fw'.side = fw.side /\ fw'.placed = fw.placed BY <1>2, <4>1
      <4> QED BY <1>3, <2>2, <3>1, <4>2
    <3>2. CASE Now \notin {"select", "deselect", "idle", "StepTo", "Side", "StepOut"}
      <4>1. fw'.cyl = fw.cyl /\ fw'.side = fw.side /\ fw'.placed = fw.placed
        BY <1>1, <1>2, <2>3, <3>2
      <4> QED BY <1>3, <2>2, <3>2, <4>1
    <3>3. CASE Now = "StepTo" BY <1>1, <1>2, <1>3, <2>2, <2>4, <3>3
    <3>4. CASE Now = "Side" BY <1>1, <1>2, <1>3, <2>2, <3>4
    <3>5. CASE Now = "StepOut"
      <4>1. /\ fw'.side = fw.side /\ fw'.placed = fw.placed /\ (fw.cyl = 0 => fw'.cyl = 0)
        BY <1>1, <1>2, <3>5
      <4> QED BY <1>3, <2>2, <2>4, <3>5, <4>1
    <3> QED BY <3>1, <3>2, <3>3, <3>4, <3>5
  <2>8. Agrees(r)' BY <1>7, <2>6, <2>7 DEF Agrees
  <2> QED BY <1>7, <2>1, <2>8 DEF View, r, t
<1>10. CASE opened = "opening"
  <2>1. /\ ~drv.selected /\ ~drv.motor /\ drv.cyl = 0 /\ drv.side = 0 /\ fw.placed = {}
        /\ \A u \in Units : /\ fw.selected[u] => Ahead(DeselectOf(u), script)
                            /\ fw.motor[u] => Ahead(MotorOffOf(u), script)
    BY <1>10 DEF View, Untouched
  <2>2. PICK k \in DOMAIN script : script[k].do = "SeekZero" BY <1>10 DEF ScriptOK, Ahead
  <2>3. /\ \A j \in DOMAIN script : /\ j < k => script[j].do \in Opening
                                    /\ j > k => script[j].do \in {"select", "Status", "idle"}
        /\ k \in Nat /\ k >= 1
    BY <1>6, <2>2 DEF ScriptOK, OpensOnly
  <2>4. Now \in Opening \/ (Now = "SeekZero" /\ k = 1) BY <1>6, <2>2, <2>3
  <2>5. p.do = Now /\ p.arg = Arg /\ Now \notin {"select", "deselect", "idle", "StepTo", "Side", "StepOut",
                                                "MotorAOn", "MotorBOn", "SelectA", "SelectB"}
    BY <1>1, <2>4 DEF Opening
  <2>6. ~r.selected /\ ~r.motor /\ r.cyl = 0 /\ r.side = 0 /\ fw'.placed = {}
    <3>1. script[1] # MotorOn BY <1>4, <1>5, <1>6, <2>5
    <3> QED BY <1>2, <1>3, <2>1, <2>5, <3>1
  <2>7. ASSUME NEW u \in Units
        PROVE  /\ fw'.selected[u] => Ahead(DeselectOf(u), t)
               /\ fw'.motor[u] => Ahead(MotorOffOf(u), t)
    <3>1. u = "A" \/ u = "B" BY DEF Units
    <3>2. fw'.selected[u] => fw.selected[u] /\ Now # DeselectOf(u) BY <1>2, <2>5, <3>1
    <3>3. fw'.motor[u] => fw.motor[u] /\ Now # MotorOffOf(u) BY <1>2, <2>5, <3>1
    <3> QED BY <1>8, <2>1, <3>2, <3>3
  <2>8. CASE Now # "SeekZero"
    <3>1. After = "opening" BY <1>10, <2>8 DEF After
    <3>2. Untouched(r, t)' BY <1>7, <2>6, <2>7 DEF Untouched
    <3> QED BY <1>7, <3>1, <3>2 DEF View, r, t
  <2>9. CASE Now = "SeekZero"
    <3>1. After = "open" BY <2>9 DEF After
    <3>2. k = 1 BY <2>4, <2>9 DEF Opening
    <3>3. ASSUME NEW u \in Units PROVE ~Ahead(DeselectOf(u), t) /\ ~Ahead(MotorOffOf(u), t)
      <4>1. u = "A" \/ u = "B" BY DEF Units
      <4>2. \A j \in DOMAIN script : script[j].do \in {"select", "Status", "idle", "SeekZero"}
        <5>1. \A j \in DOMAIN script : j = 1 \/ j > k BY <1>6, <3>2
        <5> QED BY <1>6, <2>3, <2>9, <5>1
      <4>3. ~Ahead(DeselectOf(u), script) /\ ~Ahead(MotorOffOf(u), script)
        BY <4>1, <4>2 DEF Ahead, DeselectOf, MotorOffOf
      <4> QED BY <1>8, <4>3
    <3>4. 0 < MaxCylinders BY DEF MaxCylinders
    <3>5. \A u \in Units : fw'.selected[u] \in BOOLEAN /\ fw'.motor[u] \in BOOLEAN
      <4>1. fw' \in Firm BY <1>1, ObeyedIs DEF p
      <4> QED BY <4>1 DEF Firm
    <3>6. \A u \in Units : /\ fw'.selected[u] = (u = Drive /\ r.selected)
                           /\ fw'.motor[u] = (u = Drive /\ r.motor)
      BY <2>6, <2>7, <3>3, <3>5
    <3>7. Agrees(r)' BY <1>7, <2>6, <3>4, <3>6 DEF Agrees
    <3> QED BY <1>7, <3>1, <3>7 DEF View, r, t
  <2> QED BY <2>8, <2>9
<1>11. CASE opened \in {"closing", "closed"}
  <2>1. script[1] = MotorOff \/ Now = "deselect" BY <1>6, <1>11 DEF ScriptOK, ClosesOnly
  <2>2. After = opened
    <3>1. Now # "SeekZero" BY <1>4, <1>5, <1>6, <2>1 DEF MotorOffOf
    <3> QED BY <3>1 DEF After
  <2>3. p.do \in {MotorOffOf(Drive), DeselectOf(Drive)}
    BY <1>1, <1>4, <1>5, <1>6, <2>1 DEF MotorOffOf
  <2>4. p.do = MotorOffOf(Drive) \/ Now = "deselect" BY <1>1, <1>4, <1>5, <1>6, <2>1 DEF MotorOffOf
  <2>5. Closes(script) BY <1>11 DEF View
  <2>6. ASSUME NEW u \in Units, fw'.motor[u]
        PROVE  fw.motor[u] /\ p.do # MotorOffOf(u)
    <3>1. u = "A" \/ u = "B" BY DEF Units
    <3> QED BY <1>2, <1>4, <2>3, <2>6, <3>1 DEF MotorOffOf, DeselectOf
  <2>7. ASSUME NEW u \in Units, fw'.motor[u], "refused" \notin trouble
        PROVE  IF u = Drive THEN Ahead(MotorOffOf(u), t) ELSE "old" \in trouble
    <3>1. IF u = Drive THEN Ahead(MotorOffOf(u), script) ELSE "old" \in trouble
      BY <2>5, <2>6, <2>7 DEF Closes
    <3>2. u = Drive => Now # MotorOffOf(u)
      BY <1>4, <1>5, <1>6, <2>1, <2>4, <2>6, <2>7 DEF MotorOffOf
    <3> QED BY <1>8, <3>1, <3>2
  <2>8. Closes(t)' BY <1>7, <2>7 DEF Closes
  <2> QED BY <1>7, <1>11, <2>2, <2>8 DEF View, r, t
<1> QED BY <1>9, <1>10, <1>11, Typed

-----------------------------------------------------------------------------
(* Scripts, through the steps.                                             *)
LEMMA AdvanceOK ==
    ASSUME TypeOK, ~Idle, ScriptOK(opened, drv, script), Advance,
           Now = "range" => Arg < MaxCylinders, Now = "zero" => drv.cyl = 0,
           Now = "select" => drv'.selected, Now # "StepTo" => drv'.cyl = drv.cyl
    PROVE  ScriptOK(opened, drv, script)'
<1>1. script \in Seq(Todo) /\ script # <<>> /\ opened \in {"opening", "open", "closing", "closed"}
  BY First, Typed
<1>2. PICK s : s = script OBVIOUS
<1>3. PICK d : d = drv OBVIOUS
<1>4. PICK o : o = opened OBVIOUS
<1>5. PICK e : e = drv' OBVIOUS
<1>6. PICK n : n = opened' OBVIOUS
<1>7. n = CASE s[1].do = "SeekZero" -> "open"
            [] o = "closing" /\ Tail(s) = <<>> -> "closed"
            [] OTHER -> o
  BY <1>2, <1>4, <1>6 DEF Advance, Now
<1>8. /\ s \in Seq(Todo) /\ s # <<>> /\ o \in {"opening", "open", "closing", "closed"}
      /\ ScriptOK(o, d, s)
      /\ s[1].do = "range" => s[1].arg < MaxCylinders
      /\ s[1].do = "zero" => d.cyl = 0
      /\ s[1].do = "select" => e.selected
      /\ s[1].do # "StepTo" => e.cyl = d.cyl
  BY <1>1, <1>2, <1>3, <1>4, <1>5 DEF Now, Arg
<1>9. ScriptOK(n, e, Tail(s)) BY ONLY <1>7, <1>8, TailOK
<1>10. opened' = n /\ drv' = e /\ script' = Tail(s) BY <1>2, <1>5, <1>6 DEF Advance
<1> QED BY <1>9, <1>10

LEMMA EmptyOK == \A d : ScriptOK("open", d, <<>>) /\ ScriptOK("closed", d, <<>>)
BY DEF ScriptOK, Streams, Guarded, OpensOnly, WorksOnly, Ahead

LEMMA FailOK ==
    ASSUME TypeOK, ~Idle, ScriptOK(opened, drv, script), Fail PROVE ScriptOK(opened, drv, script)'
<1>1. opened # "closed" BY DEF ScriptOK, Idle
<1>2. CASE opened = "opening"
  <2>1. opened' = "closing" /\ script' = MotorScript(FALSE) BY <1>2 DEF Fail
  <2>2. ScriptOK("closing", drv', MotorScript(FALSE)) BY OffOK
  <2> QED BY <2>1, <2>2
<1>3. CASE opened = "open"
  <2>1. opened' = "open" /\ script' = <<>> BY <1>3 DEF Fail
  <2>2. ScriptOK("open", drv', <<>>) BY EmptyOK
  <2> QED BY <2>1, <2>2
<1>4. CASE opened = "closing"
  <2>1. opened' = "closed" /\ script' = <<>> BY <1>4 DEF Fail
  <2>2. ScriptOK("closed", drv', <<>>) BY EmptyOK
  <2> QED BY <2>1, <2>2
<1> QED BY <1>1, <1>2, <1>3, <1>4, Typed

LEMMA SameOK ==
    ASSUME ScriptOK(opened, drv, script), UNCHANGED <<opened, script>>, SameView(drv', drv)
    PROVE  ScriptOK(opened, drv, script)'
BY DEF ScriptOK, SameView

(* What a call in each state of the device consists of.                    *)
LEMMA StepsOf ==
    ASSUME TypeOK, ~Idle, ScriptOK(opened, drv, script)
    PROVE  /\ opened \in {"opening", "open", "closing"}
           /\ opened = "opening" => Now \in Opening \cup {"SeekZero"}
           /\ opened = "closing" => Now \in {"MotorAOff", "MotorBOff", "deselect"}
           /\ Now = "SeekZero" => opened = "opening"
<1>1. script # <<>> /\ 1 \in DOMAIN script /\ script \in Seq(Todo) /\ Now = script[1].do
  BY First DEF Now
<1>2. opened \in {"opening", "open", "closing"} BY <1>1, Typed DEF ScriptOK
<1>3. ASSUME opened = "opening" PROVE Now \in Opening \cup {"SeekZero"}
  <2>1. PICK k \in DOMAIN script : script[k].do = "SeekZero" BY <1>3 DEF ScriptOK, Ahead
  <2>2. k = 1 \/ 1 < k BY <1>1, <2>1
  <2> QED BY <1>1, <2>1, <2>2 DEF ScriptOK, OpensOnly
<1>4. ASSUME opened = "closing" PROVE Now \in {"MotorAOff", "MotorBOff", "deselect"}
  BY <1>1, <1>4, PairsAre DEF ScriptOK, ClosesOnly
<1>5. Now = "SeekZero" => opened = "opening" BY <1>1 DEF ScriptOK, Ahead
<1> QED BY <1>2, <1>3, <1>4, <1>5

LEMMA ScriptSteps ==
    ASSUME TypeOK, ScriptOK(opened, drv, script), Exchange, [Next]_vars
    PROVE  ScriptOK(opened, drv, script)'
<1>0. drv \in DriveView BY Typed
<1>1. SameView(drv, drv) BY DEF SameView
<1>2. CASE Call
  <2>1. script' \in Scripts /\ opened' = "open" BY <1>2 DEF Call
  <2>2. ScriptOK("open", drv', script') BY <2>1, ScriptsOK
  <2> QED BY <2>1, <2>2
<1>3. CASE Drop
  <2>1. ScriptOK("closing", drv', MotorScript(FALSE)) BY OffOK
  <2> QED BY <1>3, <2>1 DEF Drop
<1>4. CASE Skip
  <2>1. ~Idle /\ drv' = drv /\ (Now = "select" => drv.selected) BY <1>4 DEF Skip, Local
  <2>2. CASE Fail BY <2>1, <2>2, FailOK
  <2>3. CASE ~Fail
    <3>1. Advance /\ ~(Now = "range" /\ Arg >= MaxCylinders) /\ ~(Now = "zero" /\ drv.cyl # 0)
      BY <1>4, <2>3 DEF Skip
    <3>2. Now = "range" => Arg < MaxCylinders
      <4>1. Arg \in Nat BY <2>1, First
      <4> QED BY <3>1, <4>1 DEF MaxCylinders
    <3> QED BY <2>1, <3>1, <3>2, AdvanceOK
  <2> QED BY <2>2, <2>3
<1>5. CASE Send BY <1>1, <1>5, SameOK DEF Send
<1>6. CASE Acknowledge
  <2>1. ~Idle /\ phase = "ack" /\ Now # "StopStream" BY <1>6, Typed DEF Acknowledge
  <2>2. CASE Fail BY <2>1, <2>2, FailOK
  <2>3. CASE UNCHANGED <<opened, script, got, drv>> BY <1>1, <2>3, SameOK
  <2>4. CASE Advance /\ drv' = Recorded
    <3>1. ~Local BY <2>1 DEF Exchange, Quiet, Runs, Stops, Asks, Tells
    <3>2. Now \notin {"range", "zero"} BY <3>1 DEF Local
    <3>3. /\ Now = "select" => drv'.selected
          /\ Now # "StepTo" => drv'.cyl = drv.cyl
      BY <2>1, <2>4, RecordedIs
    <3> QED BY <2>1, <2>4, <3>2, <3>3, AdvanceOK
  <2> QED BY <1>6, <2>2, <2>3, <2>4 DEF Acknowledge
<1>7. CASE TakePayload
  <2>1. ~Idle /\ phase = "payload" /\ Advance BY <1>7, Typed DEF TakePayload
  <2>2. Now \in {"Info", "Status"} BY <2>1 DEF Exchange, Quiet, Runs, Stops, Asks, Tells
  <2>3. drv'.cyl = drv.cyl BY <1>0, <1>7 DEF TakePayload, DriveView
  <2> QED BY <2>1, <2>2, <2>3, AdvanceOK
<1>8. CASE TakeStream
  <2>1. ~Idle /\ Now = "stream" /\ drv' = drv BY <1>8 DEF TakeStream, Streamed
  <2>2. Fail \/ Advance \/ UNCHANGED <<opened, script>> BY <1>8 DEF TakeStream
  <2>3. CASE Advance BY <2>1, <2>3, AdvanceOK
  <2> QED BY <1>1, <2>1, <2>2, <2>3, FailOK, SameOK
<1>9. CASE TakeStop
  <2>1. ~Idle /\ Now = "StopStream" BY <1>9, Typed DEF TakeStop
  <2>2. SameView(drv', drv)
    <3>1. drv' = drv \/ drv' = [drv EXCEPT !.present = TRUE] BY <1>9 DEF TakeStop
    <3> QED BY <1>0, <3>1 DEF SameView, DriveView
  <2>3. Fail \/ Advance \/ UNCHANGED <<opened, script>> BY <1>9 DEF TakeStop
  <2>4. CASE Advance BY <2>1, <2>2, <2>4, AdvanceOK DEF SameView
  <2> QED BY <2>1, <2>2, <2>3, <2>4, FailOK, SameOK
<1>10. CASE Deadline
  <2>1. ~Idle /\ Fail BY <1>10 DEF Deadline, Reading
  <2> QED BY <2>1, FailOK
<1>11. CASE Firmware \/ Stream \/ Deliver \/ ChangeDisk \/ Closed \/ UNCHANGED vars
  <2>1. UNCHANGED <<opened, script, drv>>
    BY <1>11 DEF Firmware, Stream, Deliver, ChangeDisk, Closed, vars, callVars
  <2> QED BY <1>1, <2>1, SameOK
<1> QED BY <1>2, <1>3, <1>4, <1>5, <1>6, <1>7, <1>8, <1>9, <1>10, <1>11 DEF Next, Driver

(* What comes first in what is left.                                       *)
LEMMA NextStep ==
    ASSUME TypeOK, ~Idle, ScriptOK(opened, drv, script), script' = Tail(script)
    PROVE  /\ Now = "StartStream" => ~Idle' /\ Now' = "stream"
           /\ Now = "stream" => ~Idle' /\ Now' = "StopStream"
           /\ Now \notin {"StartStream", "stream"} => Idle' \/ Now' \notin {"stream", "StopStream"}
<1> DEFINE s == script
           t == Tail(script)
<1>1. /\ s # <<>> /\ 1 \in DOMAIN s /\ s \in Seq(Todo) /\ Now = s[1].do
      /\ Streams(s)
  BY First DEF Now, ScriptOK
<1>2. /\ t \in Seq(Todo) /\ DOMAIN t = 1..(Len(s) - 1) /\ Len(s) \in Nat \ {0} /\ DOMAIN s = 1..Len(s)
      /\ \A i \in DOMAIN t : i + 1 \in DOMAIN s /\ t[i] = s[i + 1]
  BY <1>1, TailIs
<1>3. script' = t /\ Now' = t[1].do /\ (Idle' <=> t = <<>>) BY DEF Now, Idle
<1> HIDE DEF s, t
<1>4. 2 \in DOMAIN s => 1 \in DOMAIN t /\ t[1] = s[2] /\ t # <<>>
  <2> SUFFICES ASSUME 2 \in DOMAIN s PROVE 1 \in DOMAIN t /\ t[1] = s[2] /\ t # <<>> OBVIOUS
  <2>1. 1 \in DOMAIN t /\ 1 + 1 = 2 BY <1>2
  <2>2. t[1] = s[2] BY <1>2, <2>1
  <2>3. DOMAIN <<>> = {} OBVIOUS
  <2>4. t # <<>> BY <2>1, <2>3
  <2> QED BY <2>1, <2>2, <2>4
<1>5. /\ Now = "StartStream" => 2 \in DOMAIN s /\ s[2].do = "stream"
      /\ Now = "stream" => 2 \in DOMAIN s /\ s[2].do = "StopStream"
  <2>1. 1 + 1 = 2 OBVIOUS
  <2> QED BY <1>1, <2>1 DEF Streams
<1>6. t # <<>> => 2 \in DOMAIN s
  <2> SUFFICES ASSUME t # <<>> PROVE 2 \in DOMAIN s OBVIOUS
  <2>1. 1 \in DOMAIN t /\ 1 + 1 = 2 BY <1>2, EmptySeq
  <2> QED BY <1>2, <2>1
<1>7. 2 \in DOMAIN s =>
        /\ s[2].do = "stream" => Now = "StartStream"
        /\ s[2].do = "StopStream" => Now = "stream"
  <2>1. 2 > 1 /\ 2 - 1 = 1 OBVIOUS
  <2> QED BY <1>1, <2>1 DEF Streams
<1> QED BY <1>3, <1>4, <1>5, <1>6, <1>7

LEMMA QuietNext ==
    ASSUME wire' = <<>>, outbox' = <<>>, inbox' = <<>>, ~fw'.streaming, phase' = "send",
           View(opened, drv, script)', Idle' \/ Now' \notin {"stream", "StopStream"}
    PROVE  Exchange'
BY DEF Exchange, Quiet

LEMMA FailNext == ASSUME Fail PROVE phase' = "send" /\ (Idle' \/ Now' \notin {"stream", "StopStream"})
<1>1. script' = <<>> \/ script' = MotorScript(FALSE) BY DEF Fail
<1> QED BY <1>1, OffOK DEF Fail, Begins, Idle, Now

LEMMA SkipExchange ==
    ASSUME TypeOK, ScriptOK(opened, drv, script), Exchange, Skip PROVE Exchange'
<1>0. ~Idle /\ phase = "send" /\ Local BY DEF Skip
<1>1. Now \notin {"stream", "StopStream", "SeekZero", "MotorAOff", "MotorBOff", "DeselectA", "DeselectB",
                  "StartStream"}
  BY <1>0 DEF Local
<1>2. /\ wire = <<>> /\ outbox = <<>> /\ (inbox = <<>> \/ Now = "purge")
      /\ ~fw.streaming /\ View(opened, drv, script)
  BY <1>0, <1>1 DEF Exchange, Quiet, Runs, Stops, Asks, Tells
<1>3. /\ wire' = <<>> /\ outbox' = <<>> /\ inbox' = <<>> /\ ~fw'.streaming
      /\ UNCHANGED fw /\ drv' = drv /\ SameView(drv', drv)
  BY <1>2 DEF Skip, SameView
<1>4. CASE Advance
  <2>1. script' = Tail(script) /\ phase' = "send" BY <1>4 DEF Advance
  <2>2. trouble \subseteq trouble' BY DEF Skip
  <2>3. View(opened, drv, Tail(script)) /\ After = opened BY <1>0, <1>1, <1>2, TailView DEF After
  <2>4. View(opened, drv, script)' BY <1>0, <1>3, <1>4, <2>2, <2>3, AdvanceView
  <2> QED BY <1>0, <1>1, <1>3, <2>1, <2>4, NextStep, QuietNext
<1>5. CASE Fail /\ ~Advance
  <2>1. /\ Now \in {"range", "zero", "version", "timings", "join"}
        /\ trouble' = IF Now = "version" THEN trouble \cup {"old"} ELSE trouble
    BY <1>5 DEF Skip
  <2>2. opened = "open" \/ (opened = "opening" /\ Now = "version")
    BY <1>0, <2>1, StepsOf DEF Opening
  <2>3. View(opened, drv, script)' BY <1>2, <1>3, <1>5, <2>1, <2>2, FailView
  <2> QED BY <1>3, <1>5, <2>3, FailNext, QuietNext
<1> QED BY <1>4, <1>5 DEF Skip

LEMMA SendExchange ==
    ASSUME TypeOK, ScriptOK(opened, drv, script), Exchange, Send PROVE Exchange'
<1>0. ~Idle /\ phase = "send" /\ ~Local /\ Now # "stream" BY DEF Send, Streamed
<1>1. /\ UNCHANGED <<opened, script, drv, fw, outbox, inbox, trouble>> /\ phase' = "ack"
      /\ wire' = Append(wire, Packet)
  BY DEF Send, historyVars
<1>2. ~Idle' /\ Now' = Now /\ ~Local' /\ Packet' = Packet /\ Link' = Link
  BY <1>0, <1>1 DEF Idle, Now, Arg, Local, Packet, Link
<1>3. View(opened, drv, script) /\ wire = <<>>
  BY <1>0 DEF Exchange, Quiet, Runs, Stops, Asks, Tells
<1>4. wire' = <<Packet>> BY <1>1, <1>3
<1>5. View(opened, drv, script)' BY <1>1, <1>3, ViewKept DEF SameView
<1>6. CASE Now = "StopStream"
  <2>1. fw.streaming /\ AllFlux(0) BY <1>0, <1>6 DEF Exchange, Quiet, Runs, Stops, Asks, Tells
  <2>2. fw'.streaming /\ AllFlux(0)' BY <1>1, <1>2, <2>1 DEF AllFlux
  <2>3. wire' = <<Packet'>> BY <1>2, <1>4
  <2> QED BY <1>1, <1>2, <1>5, <1>6, <2>2, <2>3 DEF Exchange, Runs
<1>7. CASE Now # "StopStream"
  <2>1. Quiet BY <1>0, <1>7 DEF Exchange, Runs, Stops, Asks, Tells
  <2>2. Now # "purge" BY <1>0 DEF Local
  <2>3. inbox = <<>> /\ outbox = <<>> /\ ~fw.streaming BY <2>1, <2>2 DEF Quiet
  <2>4. Link = <<>> BY <2>3, LinkIs
  <2>5. wire' = <<Packet'>> /\ Link' = <<>> /\ ~fw'.streaming BY <1>1, <1>2, <1>4, <2>3, <2>4
  <2> QED BY <1>0, <1>1, <1>2, <1>5, <1>7, <2>5 DEF Exchange, Asks
<1> QED BY <1>6, <1>7

(* The whole answer is read, and nothing behind it.                        *)
LEMMA AllRead ==
    ASSUME TypeOK, inbox' \in Seq(Byte), UNCHANGED outbox, NEW n \in Nat, Dropped(n), Len(Link) = n
    PROVE  inbox' = <<>> /\ outbox' = <<>>
<1>1. inbox' \in Seq(Byte) /\ outbox' \in Seq(Byte) /\ Len(Link') = 0 BY Typed, LinkIs DEF Dropped
<1>2. PICK a : a = inbox' OBVIOUS
<1>3. PICK b : b = outbox' OBVIOUS
<1>4. a \in Seq(Byte) /\ b \in Seq(Byte) /\ Link' = a \o b BY <1>1, <1>2, <1>3 DEF Link
<1>5. Len(a \o b) = Len(a) + Len(b) /\ Len(a) \in Nat /\ Len(b) \in Nat BY <1>4, CatIs
<1>6. Len(a) = 0 /\ Len(b) = 0 BY <1>1, <1>4, <1>5
<1> QED BY <1>2, <1>3, <1>4, <1>6, EmptySeq

LEMMA AcknowledgeExchange ==
    ASSUME TypeOK, ScriptOK(opened, drv, script), Exchange, Acknowledge PROVE Exchange'
<1>0. ~Idle /\ phase = "ack" /\ Now # "StopStream" /\ Len(inbox) >= 2 BY Typed DEF Acknowledge
<1>1. /\ inbox' \in Seq(Byte) /\ Dropped(2)
      /\ Link[1] = inbox[1] /\ Link[2] = inbox[2] /\ Len(Link) >= 2
      /\ UNCHANGED <<wire, outbox, fw, trouble>>
  <2>1. inbox' = SubSeq(inbox, 3, Len(inbox)) /\ UNCHANGED <<wire, outbox, fw, trouble>>
    BY DEF Acknowledge, historyVars
  <2> QED BY <1>0, <2>1, DropTwo
<1>2. Asks BY <1>0 DEF Exchange, Quiet, Runs, Stops, Tells
<1>3. Link # <<>> BY <1>1, LinkIs
<1>4. wire = <<>> /\ (Refused \/ Accepted) /\ ~Local /\ Now # "stream" BY <1>2, <1>3 DEF Asks
<1>5. CASE Refused
  <2>1. Len(Link) = 2 /\ inbox[2] # "OK" /\ ~fw.streaming /\ View(opened, drv, script)
        /\ (opened = "open" \/ "refused" \in trouble)
    BY <1>1, <1>5 DEF Refused
  <2>2. Fail
    BY <2>1 DEF Acknowledge
  <2>3. SameView(drv', drv)
    <3>1. drv' \in {drv, [drv EXCEPT !.present = FALSE], [drv EXCEPT !.protected = TRUE]}
      BY <2>1 DEF Acknowledge
    <3> QED BY <3>1, Typed DEF SameView, DriveView
  <2>4. opened # "closed" BY <1>0, StepsOf
  <2>5. View(opened, drv, script)' BY <1>1, <2>1, <2>2, <2>3, <2>4, FailView
  <2>6. 2 \in Nat OBVIOUS
  <2>7. inbox' = <<>> /\ outbox' = <<>> BY <1>1, <2>1, <2>6, AllRead
  <2> QED BY <1>1, <1>4, <2>1, <2>2, <2>5, <2>7, FailNext, QuietNext
<1>6. CASE Accepted
  <2>1. /\ inbox[1] = Packet.do /\ inbox[2] = "OK" /\ View(After, Recorded, Tail(script))
        /\ IF Now = "StartStream" THEN fw.streaming /\ AllFlux(2)
           ELSE ~fw.streaming /\ Len(Link) = IF Now \in {"Info", "Status"} THEN 3 ELSE 2
    BY <1>1, <1>6 DEF Accepted
  <2>2. CASE Now \in {"Info", "Status"}
    <3>1. phase' = "payload" /\ UNCHANGED <<opened, script, drv>> BY <2>1, <2>2 DEF Acknowledge
    <3>2. After = opened /\ SameView(drv, Recorded)
      <4>1. script[1] # MotorOn /\ script[1] # MotorOff BY <2>2, PairsAre DEF Now
      <4> QED BY <1>0, <2>2, <4>1, RecordedIs DEF After, SameView
    <3>3. View(opened, drv, Tail(script))'
      <4>1. View(opened, drv, Tail(script))
        BY <2>1, <3>2 DEF View, Agrees, Untouched, SameView
      <4> QED BY <1>1, <3>1, <4>1 DEF View, Agrees, Untouched, Closes
    <3>4. Len(Link') = 1
      <4>1. Len(Link) = 3 /\ Len(Link') = Len(Link) - 2 BY <1>1, <2>1, <2>2 DEF Dropped
      <4> QED BY <4>1
    <3>5. ~Idle' /\ Now' = Now BY <1>0, <3>1 DEF Idle, Now
    <3>6. wire' = <<>> /\ ~fw'.streaming BY <1>1, <1>4, <2>1, <2>2
    <3> QED BY <2>2, <3>1, <3>3, <3>4, <3>5, <3>6 DEF Exchange, Tells
  <2>3. CASE Now \notin {"Info", "Status"}
    <3>1. Advance /\ drv' = Recorded BY <2>1, <2>3 DEF Acknowledge
    <3>2. script' = Tail(script) /\ phase' = "send" BY <3>1 DEF Advance
    <3>3. View(opened, drv, script)' BY <1>0, <1>1, <2>1, <3>1, AdvanceView DEF SameView
    <3>4. CASE Now = "StartStream"
      <4>1. ~Idle' /\ Now' = "stream" BY <1>0, <3>2, <3>4, NextStep
      <4>2. AllFlux(0)'
        <5> SUFFICES ASSUME NEW i \in DOMAIN Link', i > 0 PROVE Link'[i] \in {"flux", "index"}
          BY DEF AllFlux
        <5>1. i \in 1..Len(Link') /\ i + 2 \in DOMAIN Link /\ i + 2 > 2 /\ Link'[i] = Link[i + 2]
          BY <1>1, LinkIs DEF Dropped
        <5> QED BY <2>1, <3>4, <5>1 DEF AllFlux
      <4>3. wire' = <<>> /\ fw'.streaming BY <1>1, <1>4, <2>1, <3>4
      <4> QED BY <3>2, <3>3, <4>1, <4>2, <4>3 DEF Exchange, Runs
    <3>5. CASE Now # "StartStream"
      <4>1. Len(Link) = 2 /\ ~fw.streaming /\ 2 \in Nat BY <2>1, <2>3, <3>5
      <4>2. inbox' = <<>> /\ outbox' = <<>> BY <1>1, <4>1, AllRead
      <4>3. Idle' \/ Now' \notin {"stream", "StopStream"} BY <1>0, <1>4, <3>2, <3>5, NextStep
      <4> QED BY <1>1, <1>4, <3>2, <3>3, <4>1, <4>2, <4>3, QuietNext
    <3> QED BY <3>4, <3>5
  <2> QED BY <2>2, <2>3
<1> QED BY <1>4, <1>5, <1>6

LEMMA PayloadExchange ==
    ASSUME TypeOK, ScriptOK(opened, drv, script), Exchange, TakePayload PROVE Exchange'
<1>0. ~Idle /\ phase = "payload" /\ inbox # <<>> /\ Advance BY Typed DEF TakePayload
<1>1. Tells BY <1>0 DEF Exchange, Quiet, Runs, Stops, Asks
<1>2. UNCHANGED <<wire, outbox, fw, trouble>> /\ inbox' = Tail(inbox) BY DEF TakePayload, historyVars
<1>3. inbox' \in Seq(Byte) /\ Dropped(1) /\ 1 \in Nat BY <1>0, <1>2, DropOne
<1>4. inbox' = <<>> /\ outbox' = <<>> BY <1>1, <1>2, <1>3, AllRead DEF Tells
<1>5. SameView(drv', drv)
  <2>1. drv \in DriveView BY Typed
  <2> QED BY <2>1 DEF TakePayload, SameView, DriveView
<1>6. After = opened BY <1>1 DEF Tells, After
<1>7. View(opened, drv, script)' BY <1>0, <1>1, <1>2, <1>5, <1>6, AdvanceView DEF Tells
<1>8. script' = Tail(script) /\ phase' = "send" BY <1>0 DEF Advance
<1>9. Idle' \/ Now' \notin {"stream", "StopStream"} BY <1>0, <1>1, <1>8, NextStep DEF Tells
<1>10. wire' = <<>> /\ ~fw'.streaming BY <1>1, <1>2 DEF Tells
<1> QED BY <1>4, <1>7, <1>8, <1>9, <1>10, QuietNext

LEMMA TakeStreamExchange ==
    ASSUME TypeOK, ScriptOK(opened, drv, script), Exchange, TakeStream, Sound' PROVE Exchange'
<1>0. ~Idle /\ Now = "stream" BY DEF TakeStream, Streamed
<1>1. Runs BY <1>0 DEF Exchange, Quiet, Stops, Asks, Tells
<1>2. /\ phase = "send" /\ fw.streaming /\ wire = <<>> /\ AllFlux(0) /\ View(opened, drv, script)
  BY <1>0, <1>1 DEF Runs
<1>3. /\ inbox # <<>> /\ inbox' = Tail(inbox) /\ UNCHANGED <<drv, wire, outbox, fw, trouble>>
      /\ Advance \/ UNCHANGED <<opened, script, phase>>
  BY DEF TakeStream, Sound
<1>4. Dropped(1) BY <1>3, DropOne
<1>5. AllFlux(0)'
  <2> SUFFICES ASSUME NEW i \in DOMAIN Link', i > 0 PROVE Link'[i] \in {"flux", "index"}
    BY DEF AllFlux
  <2>1. i \in 1..Len(Link') /\ i + 1 \in DOMAIN Link /\ i + 1 > 0 /\ Link'[i] = Link[i + 1]
    BY <1>4, LinkIs DEF Dropped
  <2> QED BY <1>2, <2>1 DEF AllFlux
<1>6. CASE Advance
  <2>1. script' = Tail(script) /\ phase' = "send" BY <1>6 DEF Advance
  <2>2. ~Idle' /\ Now' = "StopStream" BY <1>0, <2>1, NextStep
  <2>3. View(opened, drv, Tail(script)) /\ After = opened BY <1>0, <1>2, TailView DEF After
  <2>4. View(opened, drv, script)' BY <1>0, <1>3, <1>6, <2>3, AdvanceView DEF SameView
  <2> QED BY <1>2, <1>3, <1>5, <2>1, <2>2, <2>4 DEF Exchange, Runs
<1>7. CASE UNCHANGED <<opened, script, phase>>
  <2>1. View(opened, drv, script)' BY <1>2, <1>3, <1>7, ViewKept DEF SameView
  <2>2. ~Idle' /\ Now' = Now BY <1>0, <1>7 DEF Idle, Now
  <2> QED BY <1>0, <1>2, <1>3, <1>5, <1>7, <2>1, <2>2 DEF Exchange, Runs
<1> QED BY <1>3, <1>6, <1>7

LEMMA StopExchange ==
    ASSUME TypeOK, ScriptOK(opened, drv, script), Exchange, TakeStop PROVE Exchange'
<1>0. ~Idle /\ phase = "ack" /\ Now = "StopStream" /\ inbox # <<>> BY Typed DEF TakeStop
<1>1. Runs \/ Stops BY <1>0 DEF Exchange, Quiet, Asks, Tells
<1>2. View(opened, drv, script) BY <1>1 DEF Runs, Stops
<1>3. /\ UNCHANGED <<wire, outbox, fw, trouble>> /\ SameView(drv', drv)
  <2>1. UNCHANGED <<wire, outbox, fw, trouble>> BY DEF TakeStop, historyVars
  <2>2. drv' = drv \/ drv' = [drv EXCEPT !.present = TRUE] BY DEF TakeStop
  <2> QED BY <2>1, <2>2, Typed DEF SameView, DriveView
<1>4. 1 \in DOMAIN Link /\ Link[1] = inbox[1] /\ Len(Link) \in Nat \ {0} /\ Len(inbox) \in Nat \ {0}
      /\ Len(Link) = Len(inbox) + Len(outbox) /\ Len(outbox) \in Nat
  <2>1. Len(inbox) # 0 /\ Len(inbox) \in Nat /\ Len(outbox) \in Nat /\ Len(Link) = Len(inbox) + Len(outbox)
    BY <1>0, LinkIs
  <2>2. 1 \in 1..Len(inbox) /\ 1 \in 1..Len(Link) /\ Len(Link) \in Nat \ {0} BY <2>1
  <2> QED BY <2>1, <2>2, LinkIs
<1>5. CASE inbox[1] \in {"stopped", "overrun"}
  <2>1. Stops
    <3>1. ~Runs BY <1>4, <1>5 DEF Runs, AllFlux
    <3> QED BY <1>1, <3>1
  <2>2. Len(Link) = 1
    <3>1. ~(1 \in 1..(Len(Link) - 1)) BY <1>4, <1>5, <2>1 DEF Stops
    <3> QED BY <1>4, <3>1
  <2>3. outbox = <<>> BY <1>4, <2>2, LinkIs
  <2>4. inbox' = <<>>
    <3>1. inbox' = <<>> \/ inbox' = Tail(inbox) BY DEF TakeStop
    <3>2. CASE inbox' = Tail(inbox)
      <4>1. inbox' \in Seq(Byte) /\ Dropped(1) /\ UNCHANGED outbox /\ 1 \in Nat
        BY <1>0, <1>3, <3>2, DropOne
      <4> QED BY <2>2, <4>1, AllRead
    <3> QED BY <3>1, <3>2
  <2>5. Fail \/ Advance BY <1>5 DEF TakeStop
  <2>6. opened = "open" BY <1>0, StepsOf DEF Opening
  <2>7. View(opened, drv, script)' /\ phase' = "send" /\ (Idle' \/ Now' \notin {"stream", "StopStream"})
    <3>1. CASE Fail
      <4>1. View(opened, drv, script)' BY <1>2, <1>3, <2>6, <3>1, FailView
      <4> QED BY <3>1, <4>1, FailNext
    <3>2. CASE Advance
      <4>1. View(opened, drv, Tail(script)) /\ After = opened BY <1>0, <1>2, TailView DEF After
      <4>2. View(opened, drv, script)' BY <1>0, <1>3, <3>2, <4>1, AdvanceView
      <4>3. script' = Tail(script) /\ phase' = "send" BY <3>2 DEF Advance
      <4> QED BY <1>0, <4>2, <4>3, NextStep
    <3> QED BY <2>5, <3>1, <3>2
  <2>8. wire' = <<>> /\ outbox' = <<>> /\ ~fw'.streaming BY <1>3, <2>1, <2>3 DEF Stops
  <2> QED BY <2>4, <2>7, <2>8, QuietNext
<1>6. CASE inbox[1] \notin {"stopped", "overrun"}
  <2>1. inbox' = Tail(inbox) /\ UNCHANGED <<opened, script, phase, drv>> BY <1>6 DEF TakeStop
  <2>2. Dropped(1) BY <1>0, <1>3, <2>1, DropOne
  <2>3. View(opened, drv, script)' BY <1>2, <1>3, <2>1, ViewKept DEF SameView
  <2>4. ~Idle' /\ Now' = Now /\ Packet' = Packet BY <1>0, <2>1 DEF Idle, Now, Packet
  <2>5. CASE Runs
    <3>1. AllFlux(0)'
      <4> SUFFICES ASSUME NEW i \in DOMAIN Link', i > 0 PROVE Link'[i] \in {"flux", "index"}
        BY DEF AllFlux
      <4>1. i \in 1..Len(Link') /\ i + 1 \in DOMAIN Link /\ i + 1 > 0 /\ Link'[i] = Link[i + 1]
        BY <2>2, LinkIs DEF Dropped
      <4> QED BY <2>5, <4>1 DEF AllFlux, Runs
    <3>2. wire = <<Packet>> /\ fw.streaming BY <1>0, <2>5 DEF Runs
    <3>3. wire' = <<Packet'>> /\ fw'.streaming /\ phase' = "ack" BY <1>0, <1>3, <2>1, <2>4, <3>2
    <3> QED BY <1>0, <2>3, <2>4, <3>1, <3>3 DEF Exchange, Runs
  <2>6. CASE Stops
    <3>1. Link[Len(Link)] \in {"stopped", "overrun"} /\ \A i \in 1..(Len(Link) - 1) : Link[i] \in {"flux", "index"}
      BY <2>6 DEF Stops
    <3>2. Len(Link) # 1 BY <1>4, <1>6, <3>1
    <3>3. Len(Link') = Len(Link) - 1 /\ \A i \in 1..Len(Link') : Link'[i] = Link[i + 1]
      BY <2>2 DEF Dropped
    <3>4. Len(Link') >= 1 /\ Len(Link') \in 1..Len(Link') /\ Len(Link') + 1 = Len(Link)
      BY <1>4, <3>2, <3>3
    <3>5. Link'[Len(Link')] \in {"stopped", "overrun"} BY <3>1, <3>3, <3>4
    <3>6. ASSUME NEW i \in 1..(Len(Link') - 1) PROVE Link'[i] \in {"flux", "index"}
      <4>1. i \in 1..Len(Link') /\ i + 1 \in 1..(Len(Link) - 1) BY <1>4, <3>3
      <4> QED BY <3>1, <3>3, <4>1
    <3>7. wire' = <<>> /\ ~fw'.streaming /\ phase' = "ack" BY <1>0, <1>3, <2>1, <2>6 DEF Stops
    <3> QED BY <1>0, <2>3, <2>4, <3>4, <3>5, <3>6, <3>7 DEF Exchange, Stops
  <2> QED BY <1>1, <2>5, <2>6
<1> QED BY <1>5, <1>6

(* A deadline that passes is a late answer or an abandoned stream.         *)
LEMMA DeadlineUnsound == ASSUME TypeOK, Exchange, Sound, Sound', Deadline PROVE FALSE
<1>1. ~Idle /\ ~Streamed /\ phase # "send" /\ Len(inbox) < Wanted
  BY DEF Deadline, Reading, Sound
<1>2. wire = <<>> /\ outbox = <<>>
  <2>1. late' = late BY DEF Sound
  <2>2. ~UnderWay
    <3>1. late \in Nat BY Typed
    <3>2. UnderWay => late' = late + 1 BY <1>1 DEF Deadline
    <3> QED BY <2>1, <3>1, <3>2
  <2> QED BY <2>2 DEF UnderWay
<1>3. Len(inbox) = Len(Link) /\ Len(Link) \in Nat BY <1>2, LinkIs
<1>4. Now # "stream" BY <1>1 DEF Streamed
<1>5. phase \in {"ack", "payload"} BY <1>1, Typed
<1>6. wire # <<Packet>> BY <1>2
<1>7. CASE phase = "ack" /\ Now = "StopStream"
  <2>1. Stops BY <1>6, <1>7 DEF Exchange, Quiet, Runs, Asks, Tells
  <2> QED BY <1>1, <1>3, <1>7, <2>1 DEF Stops, Wanted
<1>8. CASE phase = "ack" /\ Now # "StopStream"
  <2>1. Asks BY <1>8 DEF Exchange, Quiet, Runs, Stops, Tells
  <2>2. Len(Link) >= 2 BY <1>6, <2>1 DEF Asks, Refused, Accepted
  <2> QED BY <1>1, <1>3, <1>8, <2>2 DEF Wanted
<1>9. CASE phase = "payload"
  <2>1. Tells BY <1>9 DEF Exchange, Quiet, Runs, Stops, Asks
  <2> QED BY <1>1, <1>3, <1>9, <2>1 DEF Tells, Wanted
<1> QED BY <1>5, <1>7, <1>8, <1>9

LEMMA FirmwareExchange ==
    ASSUME TypeOK, ScriptOK(opened, drv, script), Exchange, Firmware PROVE Exchange'
<1>1. wire # <<>> /\ wire' = Tail(wire) /\ UNCHANGED <<opened, script, phase, drv, inbox>>
  BY DEF Firmware, callVars
<1>2. /\ wire = <<Packet>> /\ phase = "ack" /\ ~Idle /\ View(opened, drv, script) /\ Now # "stream"
      /\ \/ Now = "StopStream" /\ fw.streaming /\ AllFlux(0)
         \/ Now # "StopStream" /\ ~Local /\ Link = <<>> /\ ~fw.streaming
  BY <1>1 DEF Exchange, Quiet, Runs, Stops, Asks, Tells
<1> DEFINE p == Packet
<1>3. /\ p \in Sent /\ (Now = "StopStream" <=> p.do = "StopStream")
      /\ Now \in {"Info", "Status"} <=> p.do \in {"Info", "Status"}
      /\ Now # "StartStream" => p.do # "StartStream"
  BY <1>2, PacketIs, PairsAre
<1>4. Head(wire) = p /\ wire' = <<>> BY <1>1, <1>2
<1>5. /\ ~Idle' /\ Now' = Now /\ Packet' = Packet /\ (Local' <=> Local) /\ After' = After
      /\ Recorded' = Recorded /\ Tail(script)' = Tail(script)
  BY <1>1, <1>2 DEF Idle, Now, Arg, Packet, Local, After, Recorded
<1> HIDE DEF p
<1>6. \/ /\ p.do = "StopStream" /\ fw.streaming /\ fw' = [fw EXCEPT !.streaming = FALSE]
         /\ Link' \in Seq(Byte) /\ Len(Link') = Len(Link) + 1
         /\ \A i \in 1..Len(Link) : Link'[i] = Link[i]
         /\ Link'[Len(Link) + 1] \in {"stopped", "overrun"}
         /\ UNCHANGED trouble
      \/ /\ p.do = "StopStream" /\ ~fw.streaming /\ UNCHANGED <<outbox, fw, trouble>>
      \/ /\ p.do # "StopStream" /\ OK(p) /\ fw' = Obeyed(p) /\ UNCHANGED trouble
         /\ Objections(p) \subseteq {"BAD"}
      \/ /\ p.do # "StopStream" /\ Refuses(p) /\ UNCHANGED fw
         /\ trouble' = IF opened = "open" THEN trouble ELSE trouble \cup {"refused"}
  BY <1>4, FirmwareIs
<1>7. CASE Now = "StopStream"
  <2>1. /\ fw' = [fw EXCEPT !.streaming = FALSE]
        /\ Len(Link') = Len(Link) + 1
        /\ \A i \in 1..Len(Link) : Link'[i] = Link[i]
        /\ Link'[Len(Link) + 1] \in {"stopped", "overrun"}
        /\ UNCHANGED trouble
    BY <1>2, <1>3, <1>6, <1>7
  <2>2. Len(Link) \in Nat /\ DOMAIN Link = 1..Len(Link) BY LinkIs
  <2>3. Len(Link') >= 1 /\ Link'[Len(Link')] \in {"stopped", "overrun"} BY <2>1, <2>2
  <2>4. ASSUME NEW i \in 1..(Len(Link') - 1) PROVE Link'[i] \in {"flux", "index"}
    <3>1. i \in 1..Len(Link) /\ i > 0 BY <2>1, <2>2
    <3> QED BY <1>2, <1>7, <2>1, <2>2, <3>1 DEF AllFlux
  <2>5. ~fw'.streaming /\ View(opened, drv, script)'
    <3>1. fw \in Firm BY Typed
    <3>2. /\ ~fw'.streaming /\ fw'.selected = fw.selected /\ fw'.motor = fw.motor /\ fw'.cyl = fw.cyl
          /\ fw'.side = fw.side /\ fw'.placed = fw.placed
      BY <2>1, <3>1 DEF Firm
    <3> QED BY <1>1, <1>2, <2>1, <3>2 DEF View, Agrees, Untouched, Closes
  <2> QED BY <1>1, <1>2, <1>4, <1>5, <1>7, <2>3, <2>4, <2>5 DEF Exchange, Stops
<1>8. CASE Now # "StopStream" /\ Refuses(p) /\ UNCHANGED fw
           /\ trouble' = IF opened = "open" THEN trouble ELSE trouble \cup {"refused"}
  <2>1. PICK bytes \in Seq(Byte) : Adds(bytes) /\ Len(bytes) = 2 /\ bytes[1] = p.do /\ bytes[2] # "OK"
    BY <1>8 DEF Refuses
  <2>2. Len(Link) = 0 /\ 2 \in 1..Len(bytes) BY <1>2, <1>8, <2>1, LinkIs
  <2>3. Len(Link') = 2 /\ Link'[2] # "OK" BY <2>1, <2>2 DEF Adds
  <2>4. trouble \subseteq trouble' /\ (opened' = "open" \/ "refused" \in trouble') BY <1>1, <1>8
  <2>5. View(opened, drv, script)' BY <1>1, <1>2, <1>8, <2>4, ViewKept DEF SameView
  <2>6. ~fw'.streaming BY <1>2, <1>8
  <2>7. Refused' BY <2>3, <2>4, <2>5, <2>6 DEF Refused
  <2> QED BY <1>1, <1>2, <1>4, <1>5, <1>8, <2>7 DEF Exchange, Asks
<1>9. CASE Now # "StopStream" /\ OK(p) /\ fw' = Obeyed(p) /\ UNCHANGED trouble
  <2> DEFINE n == IF p.do \in {"Info", "Status"} THEN 3 ELSE 2
  <2>1. PICK bytes \in Seq(Byte) : Adds(bytes) /\ Len(bytes) = n /\ bytes[1] = p.do /\ bytes[2] = "OK"
    BY <1>9 DEF OK
  <2>2. Len(Link) = 0 /\ 1 \in 1..Len(bytes) /\ 2 \in 1..Len(bytes) BY <1>2, <1>9, <2>1, LinkIs
  <2>3. Len(Link') = n /\ Link'[1] = p.do /\ Link'[2] = "OK" /\ DOMAIN Link' = 1..n
    BY <2>1, <2>2 DEF Adds
  <2>4. View(After, Recorded, Tail(script))' BY <1>1, <1>2, <1>9, ObeyView DEF p
  <2>5. fw'.streaming = (IF p.do = "StartStream" THEN TRUE ELSE fw.streaming) BY <1>3, <1>9, ObeyedIs
  <2>6. IF Now = "StartStream" THEN fw'.streaming /\ AllFlux(2)'
        ELSE ~fw'.streaming /\ Len(Link') = IF Now \in {"Info", "Status"} THEN 3 ELSE 2
    <3>1. CASE Now = "StartStream"
      <4>1. p.do = "StartStream" BY <1>2, <3>1, PacketIs DEF p
      <4>2. AllFlux(2)' BY <2>3, <4>1 DEF AllFlux
      <4> QED BY <2>5, <3>1, <4>1, <4>2
    <3>2. CASE Now # "StartStream" BY <1>2, <1>3, <1>9, <2>3, <2>5, <3>2
    <3> QED BY <3>1, <3>2
  <2>7. Len(Link') >= 2 /\ Link'[1] = Packet'.do BY <1>5, <2>3 DEF p
  <2>8. Accepted' BY <1>5, <2>3, <2>4, <2>6, <2>7 DEF Accepted
  <2> QED BY <1>1, <1>2, <1>4, <1>5, <1>9, <2>8 DEF Exchange, Asks
<1> QED BY <1>3, <1>6, <1>7, <1>8, <1>9

(* A step of which the driver and the firmware see nothing.                *)
LEMMA ExchangeKept ==
    ASSUME Exchange, UNCHANGED <<opened, script, phase, drv, wire, fw, trouble>>, Link' = Link,
           outbox = <<>> => UNCHANGED <<inbox, outbox>>
    PROVE  Exchange'
<1>1. Idle' = Idle /\ Now' = Now /\ Packet' = Packet /\ (Local' <=> Local)
  BY DEF Idle, Now, Arg, Packet, Local
<1>2. \A o, d, s : View(o, d, s) => View(o, d, s)' BY DEF View, Agrees, Untouched, Closes
<1>3. ASSUME View(opened, drv, script) PROVE View(opened, drv, script)'
  BY <1>2, <1>3
<1>4. ASSUME View(opened, drv, Tail(script)) PROVE View(opened, drv, Tail(script))'
  BY <1>2, <1>4
<1>5. ASSUME View(After, Recorded, Tail(script)) PROVE View(After, Recorded, Tail(script))'
  <2>1. After' = After /\ Recorded' = Recorded /\ Tail(script)' = Tail(script)
    BY DEF After, Recorded, Now, Arg
  <2> QED BY <1>2, <1>5, <2>1
<1>6. \A n : AllFlux(n) => AllFlux(n)' BY DEF AllFlux
<1>7. CASE Quiet BY <1>1, <1>3, <1>7 DEF Quiet, Exchange
<1>8. CASE Runs BY <1>1, <1>3, <1>6, <1>8 DEF Runs, Exchange
<1>9. CASE Stops BY <1>1, <1>3, <1>9 DEF Stops, Exchange
<1>10. CASE Asks
  <2>1. Refused => Refused' BY <1>3 DEF Refused
  <2>2. Accepted => Accepted' BY <1>1, <1>5, <1>6 DEF Accepted
  <2> QED BY <1>1, <1>3, <1>10, <2>1, <2>2 DEF Asks, Exchange
<1>11. CASE Tells BY <1>1, <1>4, <1>11 DEF Tells, Exchange
<1> QED BY <1>7, <1>8, <1>9, <1>10, <1>11 DEF Exchange

(* What the firmware streams goes behind what is there.                    *)
LEMMA StreamExchange == ASSUME TypeOK, Exchange, Stream PROVE Exchange'
<1>1. PICK b \in {"flux", "index"} : outbox' = Append(outbox, b) BY DEF Stream
<1>2. fw.streaming /\ UNCHANGED <<opened, script, phase, drv, wire, inbox, fw, trouble>>
  BY DEF Stream, callVars, historyVars
<1>3. /\ Len(Link') = Len(Link) + 1 /\ DOMAIN Link' = 1..(Len(Link) + 1)
      /\ \A i \in 1..Len(Link) : Link'[i] = Link[i]
      /\ Link'[Len(Link) + 1] = b
  BY <1>1, <1>2, Bytes, AnswersOne
<1>4. Len(Link) \in Nat /\ DOMAIN Link = 1..Len(Link) BY LinkIs
<1>5. \A n \in Nat : AllFlux(n) => AllFlux(n)'
  <2>1. SUFFICES ASSUME NEW n \in Nat, AllFlux(n), NEW i \in DOMAIN Link', i > n
                 PROVE  Link'[i] \in {"flux", "index"}
    BY DEF AllFlux
  <2>2. CASE i = Len(Link) + 1 BY <1>1, <1>3, <2>2
  <2>3. CASE i # Len(Link) + 1
    <3>1. i \in 1..Len(Link) BY <1>3, <1>4, <2>3
    <3> QED BY <1>3, <1>4, <2>1, <3>1 DEF AllFlux
  <2> QED BY <2>2, <2>3
<1>6. Idle' = Idle /\ Now' = Now /\ Packet' = Packet /\ (Local' <=> Local)
  BY <1>2 DEF Idle, Now, Arg, Packet, Local
<1>7. \A o, d, s : View(o, d, s) => View(o, d, s)' BY <1>2 DEF View, Agrees, Untouched, Closes
<1>8. CASE Runs
  <2>1. View(opened, drv, script)' BY <1>2, <1>7, <1>8 DEF Runs
  <2>2. AllFlux(0)' BY <1>5, <1>8 DEF Runs
  <2> QED BY <1>2, <1>6, <1>8, <2>1, <2>2 DEF Runs, Exchange
<1>9. CASE Asks
  <2>1. Accepted /\ Now = "StartStream" /\ wire = <<>> BY <1>2, <1>9 DEF Asks, Refused, Accepted
  <2>2. After' = After /\ Recorded' = Recorded /\ Tail(script)' = Tail(script)
    BY <1>2 DEF After, Recorded, Now, Arg
  <2>3. View(After, Recorded, Tail(script))' BY <1>7, <2>1, <2>2 DEF Accepted
  <2>4. AllFlux(2)' BY <1>5, <2>1 DEF Accepted
  <2>5. Len(Link) >= 2 /\ Link[1] = Packet.do /\ Link[2] = "OK" BY <2>1 DEF Accepted
  <2>6. Len(Link') >= 2 /\ Link'[1] = Packet'.do /\ Link'[2] = "OK" BY <1>3, <1>4, <1>6, <2>5
  <2>7. Accepted' BY <1>2, <1>6, <2>1, <2>3, <2>4, <2>6 DEF Accepted
  <2> QED BY <1>2, <1>6, <1>9, <2>1, <2>7 DEF Asks, Exchange
<1> QED BY <1>2, <1>8, <1>9 DEF Exchange, Quiet, Stops, Tells

LEMMA IdleQuiet == ASSUME Idle, Exchange PROVE Quiet /\ inbox = <<>>
BY DEF Exchange, Quiet, Runs, Stops, Asks, Tells

LEMMA CallExchange == ASSUME TypeOK, Exchange, Call \/ Drop PROVE Exchange'
<1>1. Idle /\ opened = "open" BY DEF Call, Drop
<1>2. Quiet /\ inbox = <<>> BY <1>1, IdleQuiet
<1>3. UNCHANGED <<phase, drv, wire, outbox, inbox, fw, trouble>> BY DEF Call, Drop, linkVars, historyVars
<1>4. Agrees(drv) BY <1>1, <1>2 DEF Quiet, View
<1>5. Begins(script') /\ View(opened, drv, script)'
  <2>1. CASE Call
    <3>1. opened' = "open" /\ Begins(script') BY <1>1, <2>1, ScriptsOK DEF Call
    <3>2. Agrees(drv)' BY <1>3, <1>4 DEF Agrees
    <3> QED BY <3>1, <3>2 DEF View
  <2>2. CASE Drop
    <3>1. opened' = "closing" /\ script' = MotorScript(FALSE) BY <2>2 DEF Drop
    <3>2. Begins(script') /\ Ahead(MotorOffOf(Drive), script') BY <3>1, OffOK
    <3>3. \A u \in Units : fw'.motor[u] => u = Drive BY <1>3, <1>4 DEF Agrees
    <3>4. Closes(script)' BY <3>2, <3>3 DEF Closes
    <3> QED BY <3>1, <3>2, <3>4 DEF View
  <2> QED BY <2>1, <2>2
<1>6. wire = <<>> /\ outbox = <<>> /\ ~fw.streaming /\ phase = "send" BY <1>2 DEF Quiet
<1>7. Now' \notin {"stream", "StopStream"} BY <1>5 DEF Begins, Now
<1> QED BY <1>2, <1>3, <1>5, <1>6, <1>7, QuietNext

-----------------------------------------------------------------------------
LEMMA LinkStep == ASSUME LinkInv, [Next]_vars PROVE LinkInv'
<1>1. TypeOK /\ TypeOK' BY TypeStep DEF LinkInv
<1>2. SUFFICES ASSUME Sound' PROVE ScriptOK(opened, drv, script)' /\ Exchange' BY <1>1 DEF LinkInv
<1>3. (late' = late \/ late' = late + 1) /\ trouble \subseteq trouble'
  <2>1. CASE Call \/ Drop BY <2>1 DEF Call, Drop, historyVars
  <2>2. CASE Driver
    BY <2>2 DEF Driver, Skip, Send, Acknowledge, TakePayload, TakeStream, TakeStop, Deadline, historyVars
  <2>3. CASE Firmware
    <3>1. late' = late /\ (trouble' = trouble \/ trouble' = trouble \cup {"refused"})
      BY <2>3 DEF Firmware
    <3> QED BY <3>1
  <2>4. CASE Stream \/ Deliver \/ ChangeDisk \/ Closed \/ UNCHANGED vars
    BY <2>4 DEF Stream, Deliver, ChangeDisk, Closed, vars, historyVars
  <2> QED BY <2>1, <2>2, <2>3, <2>4 DEF Next
<1>4. Sound /\ late' = late BY <1>1, <1>2, <1>3, SoundEarlier
<1>5. ScriptOK(opened, drv, script) /\ Exchange BY <1>4 DEF LinkInv
<1>6. ScriptOK(opened, drv, script)' BY <1>1, <1>5, ScriptSteps
<1>7. Exchange'
  <2>1. CASE Call \/ Drop BY <1>1, <1>5, <2>1, CallExchange
  <2>2. CASE Skip BY <1>1, <1>5, <2>2, SkipExchange
  <2>3. CASE Send BY <1>1, <1>5, <2>3, SendExchange
  <2>4. CASE Acknowledge BY <1>1, <1>5, <2>4, AcknowledgeExchange
  <2>5. CASE TakePayload BY <1>1, <1>5, <2>5, PayloadExchange
  <2>6. CASE TakeStream BY <1>1, <1>2, <1>5, <2>6, TakeStreamExchange
  <2>7. CASE TakeStop BY <1>1, <1>5, <2>7, StopExchange
  <2>8. CASE Deadline BY <1>1, <1>2, <1>4, <1>5, <2>8, DeadlineUnsound
  <2>9. CASE Firmware BY <1>1, <1>5, <2>9, FirmwareExchange
  <2>10. CASE Stream BY <1>1, <1>5, <2>10, StreamExchange
  <2>11. CASE Deliver
    <3>1. UNCHANGED <<opened, script, phase, drv, wire, fw, trouble>> /\ outbox # <<>>
      BY <2>11 DEF Deliver, callVars, historyVars
    <3> QED BY <1>1, <1>5, <2>11, <3>1, DeliverLink, ExchangeKept
  <2>12. CASE ChangeDisk \/ Closed \/ UNCHANGED vars
    <3>1. UNCHANGED <<opened, script, phase, drv, wire, inbox, outbox, fw, trouble>>
      BY <2>12 DEF ChangeDisk, Closed, vars, callVars, linkVars, historyVars
    <3>2. Link' = Link BY <3>1 DEF Link
    <3> QED BY <1>5, <3>1, <3>2, ExchangeKept
  <2> QED BY <2>1, <2>2, <2>3, <2>4, <2>5, <2>6, <2>7, <2>8, <2>9, <2>10, <2>11, <2>12 DEF Next, Driver
<1> QED BY <1>6, <1>7

LEMMA LinkInit == ASSUME Init PROVE LinkInv
<1>1. TypeOK BY TypeInit
<1>2. opened = "opening" /\ script = OpenScript /\ phase = "send" /\ wire = <<>> /\ outbox = <<>>
  BY DEF Init
<1>3. ScriptOK(opened, drv, script) BY <1>2, OpenOK
<1>4. ~Idle /\ Now = "purge" BY <1>2, OpenOK DEF Idle, Now
<1>5. ~drv.selected /\ ~drv.motor /\ drv.cyl = 0 /\ drv.side = 0 /\ fw.placed = {}
  BY FoundIs DEF Init
<1>6. Untouched(drv, script) BY <1>2, <1>5, OpenOK DEF Untouched
<1>7. View(opened, drv, script) BY <1>2, <1>6 DEF View
<1>8. Sound => ~fw.streaming BY DEF Init, Sound
<1>9. Sound => Exchange BY <1>2, <1>4, <1>7, <1>8 DEF Exchange, Quiet
<1> QED BY <1>1, <1>3, <1>9 DEF LinkInv

(* What the driver, the line and the firmware are between any two steps:   *)
(* as long as no answer came after its deadline and no stream was given    *)
(* up, every byte on the line belongs to the step in hand, and what the    *)
(* driver has recorded differs from the drive by that step at most         *)
(* (raw_command and the methods of the device).                            *)
THEOREM CardTypes == Spec => []LinkInv
<1>1. Init => LinkInv BY LinkInit
<1>2. LinkInv /\ [Next]_vars => LinkInv' BY LinkStep
<1> QED BY <1>1, <1>2, PTL DEF Spec

(* Between calls the line is silent and no stream runs: raw_command reads  *)
(* all of its answer, and read_stream ends in CMD_STOP_STREAM.             *)
THEOREM CardInStep == Spec => []InStep
<1>1. LinkInv => InStep
  <2> SUFFICES ASSUME LinkInv, opened = "open", Idle, Sound
               PROVE  wire = <<>> /\ outbox = <<>> /\ inbox = <<>> /\ ~fw.streaming
    BY DEF InStep
  <2>1. Quiet /\ inbox = <<>> BY IdleQuiet DEF LinkInv
  <2> QED BY <2>1 DEF Quiet
<1> QED BY <1>1, CardTypes, PTL

(* Between calls the cached selection and motor are those of the drive,    *)
(* the cylinder and the side are those the last StepTo and Side set, and   *)
(* the other drive's cable is idle, whatever failed.                       *)
THEOREM CardRecordsTrue == Spec => []RecordsTrue
<1>1. LinkInv => RecordsTrue
  <2> SUFFICES ASSUME LinkInv, opened = "open", Idle, Sound
               PROVE  /\ drv.selected = fw.selected[Drive] /\ drv.motor = fw.motor[Drive]
                      /\ drv.cyl = (IF "cyl" \in fw.placed THEN fw.cyl ELSE 0) /\ drv.cyl < MaxCylinders
                      /\ drv.side = IF "side" \in fw.placed THEN fw.side ELSE 0
                      /\ \A u \in Units \ {Drive} : ~fw.selected[u] /\ ~fw.motor[u]
    BY DEF RecordsTrue
  <2>1. Agrees(drv) BY IdleQuiet DEF LinkInv, Quiet, View
  <2>2. drv.selected \in BOOLEAN /\ drv.motor \in BOOLEAN BY Typed DEF LinkInv, DriveView
  <2>3. Drive \in Units BY SuperCardProAssumption
  <2>4. /\ fw.selected[Drive] = (Drive = Drive /\ drv.selected)
        /\ fw.motor[Drive] = (Drive = Drive /\ drv.motor)
    BY <2>1, <2>3 DEF Agrees
  <2> QED BY <2>1, <2>2, <2>4 DEF Agrees
<1> QED BY <1>1, CardTypes, PTL

(* A command that acts on a drive finds it selected, but for the SeekZero  *)
(* of open, which finds no drive selected; and no_click_step steps         *)
(* outwards only at cylinder zero, once StepTo has placed the head         *)
(* (select, seek, no_click_step).                                          *)
THEOREM CardAddressed == Spec => []Addressed
<1>1. LinkInv => Addressed
  <2> SUFFICES ASSUME LinkInv, wire # <<>>, Sound
               PROVE  /\ Head(wire).do \in Insists => fw.selected[Drive]
                      /\ Head(wire).do = "SeekZero" => \A u \in Units : ~fw.selected[u]
                      /\ Head(wire).do = "StepOut" /\ "cyl" \in fw.placed => fw.cyl = 0
    BY DEF Addressed, Insists
  <2>1. TypeOK /\ ScriptOK(opened, drv, script) /\ Exchange BY DEF LinkInv
  <2>2. wire = <<Packet>> /\ ~Idle /\ Now # "stream" /\ View(opened, drv, script)
    BY <2>1 DEF Exchange, Quiet, Runs, Stops, Asks, Tells
  <2>3. Head(wire) = Packet BY <2>2
  <2> SUFFICES ASSUME Packet.do \in NeedDrive
               PROVE  /\ Packet.do \in Insists => fw.selected[Drive]
                      /\ Packet.do = "SeekZero" => \A u \in Units : ~fw.selected[u]
                      /\ Packet.do = "StepOut" /\ "cyl" \in fw.placed => fw.cyl = 0
    BY <2>3 DEF Insists, NeedDrive
  <2>4. Now = Packet.do
    <3>1. Now \notin {"select", "deselect", "idle"}
      BY <2>1, <2>2, PacketIs, PairsAre DEF NeedDrive
    <3> QED BY <2>1, <2>2, <3>1, PacketIs
  <2>5. /\ 1 \in DOMAIN script /\ script[1].do = Now /\ script \in Seq(Todo)
    BY <2>1, <2>2, First DEF Now
  <2>6. CASE Packet.do = "SeekZero"
    <3>1. opened = "opening" BY <2>1, <2>4, <2>5, <2>6 DEF ScriptOK, Ahead
    <3>2. Untouched(drv, script) BY <2>2, <3>1 DEF View
    <3>3. \A j \in DOMAIN script : script[j].do \in {"select", "Status", "idle", "SeekZero"}
      <4>1. \A j \in DOMAIN script : j = 1 \/ j > 1 BY <2>5
      <4> QED BY <2>1, <2>4, <2>5, <2>6, <4>1 DEF ScriptOK, OpensOnly
    <3>4. \A u \in Units : ~Ahead(DeselectOf(u), script) BY <3>3 DEF Ahead, DeselectOf
    <3> QED BY <2>6, <3>2, <3>4 DEF Untouched, Insists
  <2>7. CASE Packet.do \in Insists
    <3>1. opened = "open" BY <2>1, <2>2, <2>4, <2>7, StepsOf DEF Insists, NeedDrive, Opening
    <3>2. drv.selected /\ (Now = "StepOut" => drv.cyl = 0) BY <2>1, <2>4, <2>5, <2>7 DEF ScriptOK
    <3>3. Agrees(drv) BY <2>2, <3>1 DEF View
    <3>4. /\ fw.selected[Drive] = (Drive = Drive /\ drv.selected)
          /\ "cyl" \in fw.placed => drv.cyl = fw.cyl
      BY <3>3, SuperCardProAssumption DEF Agrees
    <3> QED BY <2>4, <2>7, <3>2, <3>4 DEF Insists
  <2> QED BY <2>6, <2>7 DEF Insists
<1> QED BY <1>1, CardTypes, PTL

-----------------------------------------------------------------------------
(* How a card is let go of, late answers and running streams included: the *)
(* motor is told to stop before anything else, and no MotorOn comes after. *)
NoneOn(n) == \A i \in DOMAIN wire : i > n => wire[i].do # MotorOn.do
StopsMotor ==
    \/ "refused" \in trouble
    \/ opened = "closing" /\ phase = "send" /\ script = MotorScript(FALSE)
    \/ \E i \in DOMAIN wire : wire[i] = MotorOff /\ NoneOn(i)
    \/ ~fw.motor[Drive] /\ NoneOn(0)
ClosingInv ==
    /\ opened = "closing" => script \in {MotorScript(FALSE), Tail(MotorScript(FALSE))}
    /\ opened = "closed" => script = <<>>
    /\ opened \in {"closing", "closed"} => StopsMotor

(* The two steps of the closing script.                                    *)
LEMMA OffSteps ==
    LET s == MotorScript(FALSE)
    IN  /\ s # <<>> /\ s[1] = MotorOff /\ Tail(s) # <<>> /\ Tail(s)[1].do = "deselect"
        /\ Tail(Tail(s)) = <<>>
<1> DEFINE x == MotorOff
           y == Step("deselect", 0)
           s == MotorScript(FALSE)
<1>1. s = <<x, y>> /\ y.do = "deselect" BY DEF MotorScript, Step
<1>2. x \in Todo /\ y \in Todo BY PairsAre, StepIs DEF Steps
<1> HIDE DEF x, y, s
<1>3. Tail(s) = <<y>> BY <1>1, <1>2
<1>4. Tail(Tail(s)) = <<>> BY <1>2, <1>3
<1>5. s # <<>> /\ s[1] = x BY <1>1, <1>2
<1>6. Tail(s) # <<>> /\ Tail(s)[1].do = "deselect" BY <1>1, <1>2, <1>3
<1> QED BY <1>4, <1>5, <1>6 DEF x, s

LEMMA OffIsNotOn ==
    /\ MotorOff.do # MotorOn.do /\ MotorOff.do \notin Local0 \cup {"select", "deselect", "idle", "stream"}
    /\ Deselect.do # MotorOn.do /\ MotorOn.do \in {"MotorAOn", "MotorBOn"}
    /\ MotorOff.do \in {"MotorAOff", "MotorBOff"}
<1>1. CASE Drive = "A"
  BY <1>1 DEF MotorOn, MotorOff, Deselect, Command, Step, Local0
<1>2. CASE Drive = "B"
  BY <1>2 DEF MotorOn, MotorOff, Deselect, Command, Step, Local0
<1> QED BY <1>1, <1>2, DriveIs

(* A step of the driver that sends nothing.                                *)
LEMMA StopsKept ==
    ASSUME StopsMotor, UNCHANGED <<wire, fw>>, trouble \subseteq trouble',
           (opened = "closing" /\ phase = "send" /\ script = MotorScript(FALSE)) =>
              UNCHANGED <<opened, phase, script>>
    PROVE  StopsMotor'
<1>1. MotorOn' = MotorOn /\ MotorOff' = MotorOff /\ MotorScript(FALSE)' = MotorScript(FALSE) OBVIOUS
<1>2. \A n : NoneOn(n) => NoneOn(n)' BY DEF NoneOn
<1> QED BY <1>1, <1>2 DEF StopsMotor

LEMMA EndsClosing ==
    ASSUME TypeOK, ClosingInv, ~Idle, Fail \/ Advance, UNCHANGED <<wire, fw>>, trouble \subseteq trouble',
           opened = "closing" /\ phase = "send" => script # MotorScript(FALSE)
    PROVE  ClosingInv'
<1>1. opened \in {"opening", "open", "closing"}
  BY Typed DEF ClosingInv, Idle
<1>2. CASE opened = "closing"
  <2>1. StopsMotor' BY <1>2, StopsKept DEF ClosingInv
  <2>2. script[1].do # "SeekZero" BY <1>2, OffSteps, OffIsNotOn DEF ClosingInv
  <2>3. Tail(script) \in {Tail(MotorScript(FALSE)), <<>>} BY <1>2, OffSteps DEF ClosingInv
  <2>4. \/ opened' = "closed" /\ script' = <<>>
        \/ opened' = "closing" /\ script' = Tail(MotorScript(FALSE))
    BY <1>2, <2>2, <2>3 DEF Fail, Advance, Now
  <2> QED BY <2>1, <2>4 DEF ClosingInv
<1>3. CASE opened # "closing"
  <2>1. \/ opened' \in {"opening", "open"}
        \/ opened' = "closing" /\ script' = MotorScript(FALSE) /\ phase' = "send"
    BY <1>1, <1>3 DEF Fail, Advance
  <2>2. MotorScript(FALSE)' = MotorScript(FALSE) OBVIOUS
  <2> QED BY <2>1, <2>2 DEF ClosingInv, StopsMotor
<1> QED BY <1>2, <1>3

LEMMA ClosingDriver == ASSUME TypeOK, ClosingInv, Driver PROVE ClosingInv'
<1>1. phase = "ack" \/ phase = "payload" => ~Idle /\ phase # "send" BY Typed
<1>2. ASSUME UNCHANGED <<opened, script, wire, fw>>, trouble \subseteq trouble',
             opened = "closing" /\ phase = "send" => script # MotorScript(FALSE)
      PROVE  ClosingInv'
  <2>1. StopsMotor => StopsMotor' BY <1>2, StopsKept
  <2> QED BY <1>2, <2>1 DEF ClosingInv
<1>3. CASE Skip
  <2>1. ~Idle /\ Local /\ (Fail \/ Advance) /\ UNCHANGED <<wire, fw>> /\ trouble \subseteq trouble'
    BY <1>3 DEF Skip
  <2>2. script # MotorScript(FALSE) BY <2>1, OffSteps, OffIsNotOn DEF Local, Local0, Now
  <2> QED BY <2>1, <2>2, EndsClosing
<1>4. CASE Send
  <2>1. /\ ~Idle /\ wire' = Append(wire, Packet) /\ phase' = "ack"
        /\ UNCHANGED <<opened, script, fw, trouble>> /\ wire \in Seq(Sent)
    BY <1>4, Typed DEF Send, historyVars
  <2>2. SUFFICES ASSUME opened \in {"closing", "closed"} PROVE StopsMotor'
    BY <2>1 DEF ClosingInv
  <2>3. opened = "closing" /\ script \in {MotorScript(FALSE), Tail(MotorScript(FALSE))} /\ StopsMotor
    BY <2>1, <2>2 DEF ClosingInv, Idle
  <2>4. Packet \in Sent /\ Now # "stream" BY <1>4, <2>1, PacketIs DEF Send, Streamed
  <2>5. /\ DOMAIN wire' = 1..(Len(wire) + 1) /\ DOMAIN wire = 1..Len(wire) /\ Len(wire) \in Nat
        /\ wire'[Len(wire) + 1] = Packet /\ \A i \in DOMAIN wire : wire'[i] = wire[i]
    BY <2>1, <2>4, AppendProperties
  <2>6. CASE script = MotorScript(FALSE)
    <3>1. Packet = MotorOff BY <2>1, <2>4, <2>6, OffSteps, OffIsNotOn, PacketIs DEF Now
    <3>2. PICK n \in Nat : n = Len(wire) + 1 BY <2>5
    <3>3. NoneOn(n)' BY <2>5, <3>2 DEF NoneOn
    <3>4. n \in DOMAIN wire' /\ wire'[n] = MotorOff BY <2>5, <3>1, <3>2
    <3> QED BY <3>3, <3>4 DEF StopsMotor
  <2>7. CASE script # MotorScript(FALSE)
    <3>1. Packet = Deselect BY <2>1, <2>3, <2>4, <2>7, OffSteps, PacketIs DEF Now
    <3>2. Packet.do # MotorOn.do BY <3>1, OffIsNotOn
    <3>3. \A n : NoneOn(n) => NoneOn(n)' BY <2>5, <3>2 DEF NoneOn
    <3>4. CASE \E i \in DOMAIN wire : wire[i] = MotorOff /\ NoneOn(i)
      <4>1. PICK i \in DOMAIN wire : wire[i] = MotorOff /\ NoneOn(i) BY <3>4
      <4>2. i \in DOMAIN wire' /\ wire'[i] = MotorOff BY <2>5, <4>1
      <4> QED BY <3>3, <4>1, <4>2 DEF StopsMotor
    <3>5. CASE "refused" \in trouble BY <2>1, <3>5 DEF StopsMotor
    <3>6. CASE ~fw.motor[Drive] /\ NoneOn(0) BY <2>1, <3>3, <3>6 DEF StopsMotor
    <3> QED BY <2>3, <2>7, <3>4, <3>5, <3>6 DEF StopsMotor
  <2> QED BY <2>6, <2>7
<1>5. CASE Acknowledge
  <2>1. phase = "ack" /\ UNCHANGED <<wire, fw, trouble>> BY <1>5 DEF Acknowledge, historyVars
  <2>2. Fail \/ Advance \/ UNCHANGED <<opened, script>> BY <1>5 DEF Acknowledge
  <2> QED BY <1>1, <1>2, <2>1, <2>2, EndsClosing
<1>6. CASE TakePayload
  <2>1. phase = "payload" /\ Advance /\ UNCHANGED <<wire, fw, trouble>>
    BY <1>6 DEF TakePayload, historyVars
  <2> QED BY <1>1, <2>1, EndsClosing
<1>7. CASE TakeStream
  <2>1. /\ ~Idle /\ Streamed /\ UNCHANGED <<wire, fw>> /\ trouble \subseteq trouble'
        /\ Fail \/ Advance \/ UNCHANGED <<opened, script>>
    BY <1>7 DEF TakeStream
  <2>2. script # MotorScript(FALSE) BY <2>1, OffSteps, OffIsNotOn DEF Streamed, Now
  <2> QED BY <1>2, <2>1, <2>2, EndsClosing
<1>8. CASE TakeStop
  <2>1. phase = "ack" /\ UNCHANGED <<wire, fw, trouble>> BY <1>8 DEF TakeStop, historyVars
  <2>2. Fail \/ Advance \/ UNCHANGED <<opened, script>> BY <1>8 DEF TakeStop
  <2> QED BY <1>1, <1>2, <2>1, <2>2, EndsClosing
<1>9. CASE Deadline
  <2>1. /\ ~Idle /\ (phase # "send" \/ Streamed) /\ Fail /\ UNCHANGED <<wire, fw>>
        /\ trouble \subseteq trouble'
    BY <1>9 DEF Deadline, Reading
  <2>2. phase = "send" => script # MotorScript(FALSE)
    BY <2>1, OffSteps, OffIsNotOn DEF Streamed, Now
  <2> QED BY <2>1, <2>2, EndsClosing
<1> QED BY <1>3, <1>4, <1>5, <1>6, <1>7, <1>8, <1>9 DEF Driver

(* The firmware takes the command in front.                                *)
LEMMA ClosingFirmware == ASSUME TypeOK, ClosingInv, Firmware PROVE ClosingInv'
<1> DEFINE p == Head(wire)
<1>1. UNCHANGED <<opened, script, phase>> BY DEF Firmware, callVars
<1>2. SUFFICES ASSUME opened \in {"closing", "closed"} PROVE StopsMotor' BY <1>1 DEF ClosingInv
<1>3. StopsMotor BY <1>2 DEF ClosingInv
<1>4. /\ wire \in Seq(Sent) /\ wire # <<>> /\ wire' = Tail(wire) BY Typed DEF Firmware
<1>5. /\ 1 \in DOMAIN wire /\ p = wire[1]
      /\ \A i \in DOMAIN wire' : i \in Nat /\ i + 1 \in DOMAIN wire /\ wire'[i] = wire[i + 1]
      /\ \A i \in DOMAIN wire : i # 1 => i \in Nat /\ i - 1 \in DOMAIN wire' /\ wire'[i - 1] = wire[i]
  <2>1. /\ 1 \in DOMAIN wire /\ DOMAIN wire = 1..Len(wire) /\ DOMAIN Tail(wire) = 1..(Len(wire) - 1)
        /\ \A i \in DOMAIN Tail(wire) : i + 1 \in DOMAIN wire /\ Tail(wire)[i] = wire[i + 1]
        /\ \A i \in DOMAIN wire : i # 1 => i - 1 \in DOMAIN Tail(wire) /\ Tail(wire)[i - 1] = wire[i]
    BY <1>4, TailIs
  <2> QED BY <1>4, <2>1
<1>6. p \in Sent /\ fw \in Firm BY FirmwareIs, Typed
<1>7. \/ UNCHANGED <<fw, trouble>>
      \/ "refused" \in trouble'
      \/ fw' = [fw EXCEPT !.streaming = FALSE] /\ p.do = "StopStream" /\ UNCHANGED trouble
      \/ fw' = Obeyed(p) /\ UNCHANGED trouble
  BY <1>2, FirmwareIs
<1>8. trouble \subseteq trouble' BY FirmwareIs
<1>9. SUFFICES ASSUME "refused" \notin trouble' PROVE StopsMotor' BY DEF StopsMotor
<1> HIDE DEF p
<1>10. fw'.motor[Drive] => fw.motor[Drive] \/ p.do = MotorOn.do
  <2>1. CASE fw' = Obeyed(p)
    <3>1. Obeyed(p).motor[Drive] = IF p.do = (IF Drive = "A" THEN "MotorAOn" ELSE "MotorBOn") THEN TRUE
                                   ELSE IF p.do = MotorOffOf(Drive) THEN FALSE ELSE fw.motor[Drive]
      BY <1>6, ObeyedIs, UnitsAre
    <3>2. MotorOn.do = IF Drive = "A" THEN "MotorAOn" ELSE "MotorBOn"
      BY DEF MotorOn, Command, Step
    <3> QED BY <2>1, <3>1, <3>2
  <2>2. CASE fw' = fw \/ fw' = [fw EXCEPT !.streaming = FALSE] BY <1>6, <2>2 DEF Firm
  <2> QED BY <1>7, <1>9, <2>1, <2>2
<1>11. CASE opened = "closing" /\ phase = "send" /\ script = MotorScript(FALSE)
  BY <1>1, <1>11 DEF StopsMotor
<1>12. CASE ~fw.motor[Drive] /\ NoneOn(0)
  <2>1. p.do # MotorOn.do BY <1>5, <1>12 DEF NoneOn
  <2>2. NoneOn(0)' 
    <3>1. \A i \in DOMAIN wire' : i + 1 > 0 BY <1>5
    <3> QED BY <1>5, <1>12, <3>1 DEF NoneOn
  <2> QED BY <1>10, <1>12, <2>1, <2>2 DEF StopsMotor
<1>13. ASSUME NEW i \in DOMAIN wire, wire[i] = MotorOff, NoneOn(i) PROVE StopsMotor'
  <2>1. CASE i = 1
    <3>1. p = MotorOff BY <1>5, <1>13, <2>1
    <3>2. NoneOn(0)'
      <4>1. \A j \in DOMAIN wire' : j > 0 => j + 1 > i BY <1>5, <2>1
      <4> QED BY <1>5, <1>13, <2>1, <4>1 DEF NoneOn
    <3>3. CASE fw' = Obeyed(p)
      <4>1. p.do = MotorOffOf(Drive) /\ MotorOff.do # MotorOn.do BY <3>1, PairsAre, OffIsNotOn
      <4>2. MotorOn.do = IF Drive = "A" THEN "MotorAOn" ELSE "MotorBOn"
        BY DEF MotorOn, Command, Step
      <4>3. Obeyed(p).motor[Drive] = IF p.do = (IF Drive = "A" THEN "MotorAOn" ELSE "MotorBOn") THEN TRUE
                                     ELSE IF p.do = MotorOffOf(Drive) THEN FALSE ELSE fw.motor[Drive]
        BY <1>6, ObeyedIs, UnitsAre
      <4>4. ~fw'.motor[Drive] BY <3>1, <3>3, <4>1, <4>2, <4>3
      <4> QED BY <3>2, <4>4 DEF StopsMotor
    <3>4. p.do # "StopStream" BY <3>1, OffIsNotOn
    <3>5. fw' = Obeyed(p) BY <1>9, <3>4, FirmwareIs, <1>2 DEF p
    <3> QED BY <3>3, <3>5
  <2>2. CASE i # 1
    <3>1. i - 1 \in DOMAIN wire' /\ wire'[i - 1] = MotorOff BY <1>5, <1>13, <2>2
    <3>2. NoneOn(i - 1)'
      <4>1. \A j \in DOMAIN wire' : j > i - 1 => j + 1 > i BY <1>5
      <4> QED BY <1>5, <1>13, <4>1 DEF NoneOn
    <3> QED BY <3>1, <3>2 DEF StopsMotor
  <2> QED BY <2>1, <2>2
<1> QED BY <1>3, <1>8, <1>9, <1>11, <1>12, <1>13 DEF StopsMotor

LEMMA ClosingStep == ASSUME TypeOK, ClosingInv, [Next]_vars PROVE ClosingInv'
<1>1. CASE Call BY <1>1 DEF Call, ClosingInv
<1>2. CASE Drop
  <2>1. opened' = "closing" /\ script' = MotorScript(FALSE) /\ phase' = "send"
    BY <1>2, Typed DEF Drop, Idle
  <2>2. MotorScript(FALSE)' = MotorScript(FALSE) OBVIOUS
  <2> QED BY <2>1, <2>2 DEF ClosingInv, StopsMotor
<1>3. CASE Driver BY <1>3, ClosingDriver
<1>4. CASE Firmware BY <1>4, ClosingFirmware
<1>5. CASE Stream \/ Deliver \/ ChangeDisk \/ Closed \/ UNCHANGED vars
  <2>1. UNCHANGED <<opened, script, phase, wire, fw, trouble>>
    BY <1>5 DEF Stream, Deliver, ChangeDisk, Closed, vars, callVars, linkVars, historyVars
  <2>2. StopsMotor => StopsMotor' BY <2>1, StopsKept
  <2> QED BY <2>1, <2>2 DEF ClosingInv
<1> QED BY <1>1, <1>2, <1>3, <1>4, <1>5 DEF Next

(* close and a failed open stop the drive's motor whatever the line is     *)
(* like, unless a command to the firmware was refused on the way; and      *)
(* where no answer was late and no stream was left running, they leave     *)
(* both motors off, unless the firmware is too old to be used.             *)
THEOREM CardLeftQuiet == Spec => []LeftQuiet
<1>1. Init => ClosingInv BY DEF Init, ClosingInv
<1>2. Spec => []ClosingInv
  <2>1. LinkInv /\ ClosingInv /\ [Next]_vars => ClosingInv' BY ClosingStep DEF LinkInv
  <2> QED BY <1>1, <2>1, CardTypes, PTL DEF Spec
<1>3. LinkInv /\ ClosingInv => LeftQuiet
  <2> SUFFICES ASSUME LinkInv, ClosingInv, opened = "closed", "refused" \notin trouble
               PROVE  /\ fw.motor[Drive] => \E i \in DOMAIN wire : wire[i] = MotorOff
                      /\ Sound => \A u \in Units : fw.motor[u] => u # Drive /\ "old" \in trouble
    BY DEF LeftQuiet
  <2>1. fw.motor[Drive] => \E i \in DOMAIN wire : wire[i] = MotorOff BY DEF ClosingInv, StopsMotor
  <2>2. ASSUME Sound, NEW u \in Units, fw.motor[u] PROVE u # Drive /\ "old" \in trouble
    <3>1. Exchange /\ script = <<>> BY <2>2 DEF LinkInv, ClosingInv
    <3>2. Closes(script) BY <3>1, IdleQuiet DEF Idle, Quiet, View
    <3>3. \A x : ~Ahead(x, script) BY <3>1 DEF Ahead
    <3> QED BY <2>2, <3>2, <3>3 DEF Closes
  <2> QED BY <2>1, <2>2
<1> QED BY <1>2, <1>3, CardTypes, PTL
=============================================================================
