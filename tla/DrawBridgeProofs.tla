--------------------------- MODULE DrawBridgeProofs ---------------------------
(***************************************************************************)
(* The link to a DrawBridge, for every firmware it may meet, whatever an   *)
(* earlier session left that doing, any refusals and streams of any        *)
(* length, as long as answers keep their deadlines and no call leaves the  *)
(* firmware half way.  The inductive invariant is LinkInv: what is left of *)
(* the call is a possible rest of one (ScriptOK), an opening that failed   *)
(* has its excuse (Recovers), and the line and the firmware are where the  *)
(* step in hand says (Exchange).                                           *)
(***************************************************************************)
EXTENDS DrawBridge, SequenceLemmas, TLAPS
-----------------------------------------------------------------------------
(* Types.                                                                  *)
OpenSteps == {"purge", "pulse", "sync", "version", "features", "rewind", "disk"}
WorkSteps ==
    {"disk", "motor", "range", "seek", "side", "noclick", "nothing", "density", "high", "read",
     "stream", "stop", "join", "encode", "permit", "length", "ready", "data"}
Switches == {"motor", "high"}
Todo == [do : Switches, arg : BOOLEAN] \cup [do : (OpenSteps \cup WorkSteps) \ Switches, arg : Nat]
Byte == {"1", "#", "x", "0", "2", "H", "D", "N", "Y", "!", "X", "Z", "V", "S", "s", "F", "f", "i"}
DriverTyped ==
    /\ opened \in {"opening", "open", "closing", "closed"} /\ attempt \in {1, 2}
    /\ script \in Seq(Todo) /\ sent \in BOOLEAN /\ (sent => ~Idle /\ Now # "range")
LinkTyped == wire \in Seq(Todo) /\ inbox \in Seq(Byte) /\ outbox \in Seq(Byte)
DriveView == [motor : BOOLEAN, cyl : Nat, side : Nat, present : BOOLEAN, protected : BOOLEAN,
              high : BOOLEAN, minor : Nat, full : BOOLEAN, detect : BOOLEAN]
Firm == [mode : {"idle", "stream", "permitted", "data"}, motor : BOOLEAN, cyl : Nat, side : Nat,
         high : BOOLEAN]
TypeOK ==
    /\ DriverTyped /\ LinkTyped /\ drv \in DriveView /\ fw \in Firm /\ late \in Nat
    /\ board \in Boards

(* The scripts.                                                            *)
Ahead(do, s) == \E i \in DOMAIN s : s[i].do = do
Pairs == {<<"read", "stream">>, <<"stream", "stop">>, <<"permit", "length">>, <<"length", "ready">>,
          <<"ready", "data">>}
Coupled(s) ==
    \A i \in DOMAIN s : \A p \in Pairs :
       /\ s[i].do = p[1] => i + 1 \in DOMAIN s /\ s[i + 1].do = p[2]
       /\ s[i].do = p[2] /\ i > 1 => s[i - 1].do = p[1]
Ranged(s) ==
    \A i \in DOMAIN s : s[i].do = "seek" =>
       IF i = 1 THEN s[i].arg < MaxCylinders ELSE s[i - 1] = Step("range", s[i].arg)
Syncs(s) ==
    \A i, j \in DOMAIN s : s[j].do = "sync" =>
       /\ i < j => s[i].do \in {"pulse", "purge"}
       /\ i > j => s[i].do \notin {"pulse", "sync"}
ScriptOK(o, s) ==
    /\ Coupled(s) /\ Ranged(s) /\ Syncs(s)
    /\ \A i \in DOMAIN s : /\ o = "opening" => s[i].do \in OpenSteps
                           /\ o = "open" => s[i].do \in WorkSteps
                           /\ o = "closing" => s[i] = Step("motor", FALSE)
                           /\ s[i].do = "pulse" => Ahead("sync", s)
    /\ o = "closed" => s = <<>>
    /\ o = "opening" => s # <<>>

(* An opening that fails has an excuse.                                    *)
Excuse == board.minor < 8 \/ late > 0 \/ "refused" \in trouble
Recovers ==
    /\ opened = "opening" => op = "open" /\ "abandoned" \notin trouble
    /\ opened \in {"closing", "closed"} => op = "drop" \/ (op = "open" /\ Excuse)

(* What the driver knows of the firmware: d of it, s still to do.          *)
Agrees(d) ==
    /\ d.motor = fw.motor /\ d.side = fw.side /\ d.cyl < MaxCylinders
    /\ config.density # "High" => d.high = fw.high
View(o, d, s) ==
    /\ o = "opening" => /\ Agrees(d) /\ ~d.motor /\ d.minor = board.minor
                        /\ d.cyl = fw.cyl \/ (d.cyl = 0 /\ Ahead("rewind", s))
    /\ o = "open" => Agrees(d) /\ d.cyl = fw.cyl
    /\ o \in {"closing", "closed"} => "refused" \in trouble \/ (fw.motor => Ahead("motor", s))
Doing(d) ==
    CASE Now = "rewind" -> [d EXCEPT !.cyl = 0]
      [] Now = "seek" -> [d EXCEPT !.cyl = Arg]
      [] Now = "motor" -> [d EXCEPT !.motor = Arg]
      [] Now = "side" -> [d EXCEPT !.side = Arg]
      [] Now = "high" -> [d EXCEPT !.high = Arg]
      [] OTHER -> d

(* The exchange, once the firmware has been heard.                         *)
Link == inbox \o outbox
FluxIn(l, n) == \A i \in DOMAIN l : i > n => l[i] \in {"f", "i"}
Mode ==
    IF Idle THEN "idle"
    ELSE CASE Now \in {"stream", "stop"} -> "stream"
           [] Now \in {"length", "ready"} -> "permitted"
           [] Now = "data" -> "data"
           [] OTHER -> "idle"
Before ==
    /\ ~Ahead("sync", script) /\ (sent => ~Idle /\ ~Local /\ ~Streamed)
    /\ wire = IF sent THEN <<script[1]>> ELSE <<>>
    /\ fw.mode = Mode /\ (IF Mode = "stream" THEN FluxIn(Link, 0) ELSE Link = <<>>)
    /\ View(opened, drv, script)
Answered == ~Ahead("sync", script) /\ ~Idle /\ sent /\ ~Local /\ ~Streamed /\ wire = <<>>
Refused ==
    /\ Answered /\ Len(Link) = 1 /\ Link[1] = "0" /\ Now # "disk" /\ Mode = "idle" /\ fw.mode = "idle"
    /\ View(opened, drv, script) /\ (opened = "open" \/ "refused" \in trouble)
Apt(do, l, mode) ==   \* what is on the line is all of an answer to do, or what is left of one
    CASE do = "stop" ->
           /\ Len(l) >= 1 /\ l[Len(l)] = "S" /\ mode = "idle"
           /\ \A i \in 1..(Len(l) - 1) : l[i] \in {"f", "i"}
      [] do = "read" -> Len(l) >= 1 /\ l[1] = "1" /\ FluxIn(l, 1) /\ mode = "stream"
      [] do = "permit" ->
           Len(l) = 2 /\ l[1] = "1" /\ <<l[2], mode>> \in {<<"N", "idle">>, <<"Y", "permitted">>}
      [] do = "ready" -> Len(l) = 1 /\ l[1] = "!" /\ mode = "data"
      [] do = "data" -> Len(l) = 1 /\ l[1] \in {"1", "X", "Y", "Z"} /\ mode = "idle"
      [] do = "disk" -> Len(l) = 2 /\ l[1] \in {"1", "#"} /\ mode = "idle"
      [] do = "density" ->
           Len(l) = 2 /\ l[1] = "1" /\ l[2] \in {"H", "D", "x"} /\ mode = "idle"
      [] do = "features" -> Len(l) = 2 /\ l[1] = "1" /\ mode = "idle"
      [] do \in {"seek", "noclick"} ->
           /\ mode = "idle"
           /\ (Len(l) = 3 /\ l[1] = "1") \/ (do = "seek" /\ Len(l) = 1 /\ l[1] = "2")
      [] OTHER -> Len(l) = 1 /\ l[1] = "1" /\ mode = "idle"
After == Answered /\ Apt(Now, Link, fw.mode) /\ View(opened, Doing(drv), Tail(script))

(* And before: the firmware may be doing anything, and what it has sent    *)
(* has no version in it until it answers a request for one.                *)
Unheard == \A i \in DOMAIN Link : Link[i] # "V"
Heard ==
    /\ Len(Link) >= 1 /\ Link[Len(Link)] = "V" /\ \A i \in 1..(Len(Link) - 1) : Link[i] # "V"
    /\ fw.mode = "idle" /\ ~fw.motor /\ fw.side = 0 /\ ~fw.high
Foreign ==
    /\ opened = "opening" /\ Ahead("sync", script) /\ Ahead("rewind", script)
    /\ ~drv.motor /\ drv.cyl = 0 /\ drv.side = 0 /\ (config.density # "High" => ~drv.high)
    /\ ~sent => wire = <<>> /\ Unheard
    /\ sent => /\ Now = "sync"
               /\ \/ wire = <<script[1]>> /\ Unheard
                  \/ wire = <<>> /\ Heard
                  \/ wire = <<>> /\ Unheard /\ attempt = 1
    /\ attempt = 2 /\ Now # "pulse" => fw.mode = "idle"
Exchange == Foreign \/ Before \/ Refused \/ After
LinkInv == TypeOK /\ ScriptOK(opened, script) /\ Recovers /\ (Sound => Exchange)

-----------------------------------------------------------------------------
(* The scripts.                                                            *)
LEMMA StepIs ==
    /\ \A d \in (OpenSteps \cup WorkSteps) \ Switches : \A a \in Nat :
          Step(d, a) \in Todo /\ Step(d, a).do = d /\ Step(d, a).arg = a
    /\ \A d \in Switches : \A a \in BOOLEAN :
          Step(d, a) \in Todo /\ Step(d, a).do = d /\ Step(d, a).arg = a
BY DEF Step, Todo

LEMMA TodoIs ==
    ASSUME NEW p \in Todo
    PROVE  /\ p.do \in OpenSteps \cup WorkSteps
           /\ p.do \in Switches => p.arg \in BOOLEAN
           /\ p.do \notin Switches => p.arg \in Nat
BY DEF Todo, Switches, WorkSteps

LEMMA PairsAre ==
    \A p \in Pairs : /\ p[1] \in {"read", "stream", "permit", "length", "ready"}
                     /\ p[2] \in {"stream", "stop", "length", "ready", "data"}
BY DEF Pairs

(* A script without a pair.                                                *)
LEMMA PlainOK ==
    ASSUME NEW s, \A i \in DOMAIN s : s[i].do \notin {"read", "stream", "stop", "permit", "length", "ready", "data"}
    PROVE  Coupled(s)
BY PairsAre DEF Coupled

LEMMA OpenIs ==
    /\ OpenScript \in Seq(Todo) /\ DOMAIN OpenScript = 1..7 /\ OpenScript # <<>>
    /\ OpenScript[1].do = "purge" /\ OpenScript[2].do = "sync" /\ OpenScript[3].do = "version"
    /\ OpenScript[4].do = "purge" /\ OpenScript[5].do = "features" /\ OpenScript[6].do = "rewind"
    /\ OpenScript[7].do = "disk"
<1> DEFINE a == Step("purge", 0)
           b == Step("sync", 0)
           c == Step("version", 0)
           d == Step("features", 0)
           e == Step("rewind", 0)
           f == Step("disk", 0)
<1>1. /\ a \in Todo /\ b \in Todo /\ c \in Todo /\ d \in Todo /\ e \in Todo /\ f \in Todo
      /\ a.do = "purge" /\ b.do = "sync" /\ c.do = "version" /\ d.do = "features" /\ e.do = "rewind"
      /\ f.do = "disk"
  BY StepIs DEF OpenSteps, Switches
<1>2. OpenScript = <<a, b, c, a, d, e, f>> BY DEF OpenScript
<1> HIDE DEF a, b, c, d, e, f
<1> QED BY <1>1, <1>2

LEMMA OpenOK ==
    /\ ScriptOK("opening", OpenScript)
    /\ Ahead("sync", OpenScript) /\ Ahead("rewind", OpenScript)
<1> DEFINE s == OpenScript
<1>1. /\ DOMAIN s = 1..7 /\ s # <<>> /\ s[1].do = "purge" /\ s[2].do = "sync" /\ s[3].do = "version"
      /\ s[4].do = "purge" /\ s[5].do = "features" /\ s[6].do = "rewind" /\ s[7].do = "disk"
  BY OpenIs
<1> HIDE DEF s
<1>2. \A i \in DOMAIN s : /\ s[i].do \in OpenSteps /\ s[i].do # "pulse"
                          /\ s[i].do = "sync" => i = 2
                          /\ i < 2 => s[i].do = "purge"
  BY <1>1 DEF OpenSteps
<1>3. Coupled(s) BY <1>2, PlainOK DEF OpenSteps
<1>4. Ranged(s) BY <1>2 DEF Ranged, OpenSteps
<1>5. Syncs(s)
  <2> SUFFICES ASSUME NEW i \in DOMAIN s, NEW j \in DOMAIN s, s[j].do = "sync"
               PROVE  /\ i < j => s[i].do \in {"pulse", "purge"}
                      /\ i > j => s[i].do \notin {"pulse", "sync"}
    BY DEF Syncs
  <2>1. j = 2 BY <1>2
  <2> QED BY <1>2, <2>1
<1>6. Ahead("sync", s) /\ Ahead("rewind", s) BY <1>1 DEF Ahead
<1> QED BY <1>1, <1>2, <1>3, <1>4, <1>5, <1>6 DEF ScriptOK, s

LEMMA DropIs ==
    /\ DropScript \in Seq(Todo) /\ DOMAIN DropScript = 1..1 /\ DropScript[1] = Step("motor", FALSE)
    /\ DropScript[1].do = "motor" /\ DropScript # <<>>
<1> DEFINE a == Step("motor", FALSE)
<1>1. a \in Todo /\ a.do = "motor" BY StepIs DEF Switches
<1>2. DropScript = << a >> BY DEF DropScript
<1> HIDE DEF a
<1>3. DropScript \in Seq(Todo) /\ DOMAIN DropScript = 1..1 /\ DropScript[1] = a /\ DropScript # <<>>
  BY <1>1, <1>2
<1> QED BY <1>1, <1>3 DEF a

LEMMA EmptyOK == ScriptOK("open", <<>>) /\ ScriptOK("closed", <<>>)
BY DEF ScriptOK, Coupled, Ranged, Syncs

LEMMA DropOK == ScriptOK("closing", DropScript) /\ Ahead("motor", DropScript) /\ ~Ahead("sync", DropScript)
<1> DEFINE s == DropScript
<1>2. DOMAIN s = 1..1 /\ s[1] = Step("motor", FALSE) /\ s[1].do = "motor" BY DropIs
<1> HIDE DEF s
<1>0. \A i \in 1..1 : i = 1 OBVIOUS
<1>1. \A i \in DOMAIN s : i = 1 /\ s[i] = Step("motor", FALSE) /\ s[i].do = "motor"
  BY <1>0, <1>2, Zenon
<1>3. Coupled(s) /\ Ranged(s) /\ Syncs(s) BY <1>1, PlainOK DEF Ranged, Syncs
<1>4. Ahead("motor", s) /\ ~Ahead("sync", s) BY <1>1, <1>2 DEF Ahead
<1> QED BY <1>1, <1>3, <1>4 DEF ScriptOK, s

(* What a call may begin with.                                             *)
Begins(s) == s # <<>> /\ s[1].do \notin {"stream", "stop", "length", "ready", "data", "purge"}

(* A script of one step.                                                   *)
LEMMA ShortOK ==
    ASSUME NEW p \in Todo, NEW s, s = << p >>,
           p.do \in {"disk", "motor", "side", "noclick", "nothing"}
    PROVE  s \in Seq(Todo) /\ Begins(s) /\ ScriptOK("open", s)
<1>1. s \in Seq(Todo) /\ DOMAIN s = 1..1 /\ s[1] = p /\ s # <<>> OBVIOUS
<1>2. \A i \in DOMAIN s : i = 1 /\ s[i].do \in {"disk", "motor", "side", "noclick", "nothing"}
  BY <1>1
<1>3. Coupled(s) BY <1>2, PlainOK
<1>4. Ranged(s) /\ Syncs(s) BY <1>2 DEF Ranged, Syncs
<1>5. \A i \in DOMAIN s : s[i].do \in WorkSteps /\ s[i].do # "pulse" BY <1>2 DEF WorkSteps
<1> QED BY <1>1, <1>3, <1>4, <1>5 DEF ScriptOK, Begins

LEMMA SeekOK ==
    ASSUME NEW c \in Nat
    PROVE  SeekScript(c) \in Seq(Todo) /\ Begins(SeekScript(c)) /\ ScriptOK("open", SeekScript(c))
<1> DEFINE s == SeekScript(c)
           a == Step("range", c)
           b == Step("seek", c)
<1>1. a \in Todo /\ b \in Todo /\ a.do = "range" /\ b.do = "seek" /\ b.arg = c
  BY StepIs DEF WorkSteps, Switches
<1>2. s = <<a, b>> BY DEF SeekScript
<1>3. /\ s \in Seq(Todo) /\ DOMAIN s = 1..2 /\ s # <<>> /\ s[1] = a /\ s[2] = b
  <2> HIDE DEF a, b, s
  <2> QED BY <1>1, <1>2
<1> HIDE DEF s
<1>4. \A i \in DOMAIN s : (i = 1 /\ s[i] = a) \/ (i = 2 /\ s[i] = b) BY <1>3
<1>5. Ranged(s)
  <2> SUFFICES ASSUME NEW i \in DOMAIN s, s[i].do = "seek"
               PROVE  i # 1 /\ s[i - 1] = Step("range", s[i].arg)
    BY DEF Ranged
  <2>1. i = 2 /\ s[i] = b /\ i - 1 = 1 BY <1>1, <1>4
  <2> QED BY <1>1, <1>3, <2>1
<1> HIDE DEF a, b
<1>6. \A i \in DOMAIN s : s[i].do \in {"range", "seek"} BY <1>1, <1>4
<1>7. Coupled(s) /\ Syncs(s) BY <1>6, PlainOK DEF Syncs
<1> QED BY <1>1, <1>3, <1>5, <1>6, <1>7 DEF ScriptOK, Begins, s, WorkSteps

LEMMA DensityIs ==
    \E p \in Todo : DensityScript = << p >> /\ p.do \in {"density", "high"}
<1>1. Step("density", 0) \in Todo /\ Step("density", 0).do = "density" BY StepIs DEF WorkSteps, Switches
<1>2. PICK b \in BOOLEAN : b = (config.density = "High") OBVIOUS
<1>3. Step("high", b) \in Todo /\ Step("high", b).do = "high" BY StepIs DEF Switches
<1>4. DensityScript = <<Step("density", 0)>> \/ DensityScript = <<Step("high", b)>>
  BY <1>2 DEF DensityScript
<1> QED BY <1>1, <1>3, <1>4

(* One step, and then others.                                              *)
LEMMA OneThen ==
    ASSUME NEW p \in Todo, NEW t \in Seq(Todo)
    PROVE  /\ << p >> \o t \in Seq(Todo) /\ DOMAIN (<< p >> \o t) = 1..(Len(t) + 1)
           /\ (<< p >> \o t)[1] = p /\ << p >> \o t # <<>>
           /\ \A i \in 1..Len(t) : (<< p >> \o t)[i + 1] = t[i]
<1> DEFINE o == << p >>
<1>1. o \in Seq(Todo) OBVIOUS
<1>2. Len(o) = 1 /\ o[1] = p /\ 1 \in 1..Len(o) OBVIOUS
<1> HIDE DEF o
<1> DEFINE s == o \o t
<1>3. /\ s \in Seq(Todo) /\ Len(s) = Len(o) + Len(t) /\ Len(t) \in Nat
      /\ \A i \in 1..Len(o) : s[i] = o[i]
      /\ \A i \in 1..Len(t) : s[i + Len(o)] = t[i]
  BY ONLY <1>1, t \in Seq(Todo), CatIs
<1> HIDE DEF s
<1>4. s \in Seq(Todo) /\ DOMAIN s = 1..(Len(t) + 1) /\ s[1] = p BY <1>2, <1>3
<1>5. \A i \in 1..Len(t) : s[i + 1] = t[i] BY <1>2, <1>3
<1>6. s # <<>> BY <1>3, <1>4
<1> QED BY <1>4, <1>5, <1>6 DEF o, s

LEMMA ReadOK == ReadScript \in Seq(Todo) /\ Begins(ReadScript) /\ ScriptOK("open", ReadScript)
<1>1. PICK p \in Todo : DensityScript = << p >> /\ p.do \in {"density", "high"} BY DensityIs
<1> DEFINE a == Step("read", 0)
           b == Step("stream", 0)
           c == Step("stop", 0)
           d == Step("join", 0)
           s == ReadScript
<1>2. /\ a \in Todo /\ b \in Todo /\ c \in Todo /\ d \in Todo
      /\ a.do = "read" /\ b.do = "stream" /\ c.do = "stop" /\ d.do = "join"
  BY StepIs DEF WorkSteps, Switches
<1>3. s = << p >> \o <<a, b, c, d>> BY <1>1 DEF ReadScript
<1> HIDE DEF a, b, c, d, s
<1> DEFINE t == <<a, b, c, d>>
<1>4. t \in Seq(Todo) BY <1>2
<1>5. Len(t) = 4 /\ t[1] = a /\ t[2] = b /\ t[3] = c /\ t[4] = d OBVIOUS
<1>5a. s = << p >> \o t BY <1>3
<1> HIDE DEF t
<1>6. /\ s \in Seq(Todo) /\ DOMAIN s = 1..5 /\ s # <<>>
      /\ s[1] = p /\ s[2] = a /\ s[3] = b /\ s[4] = c /\ s[5] = d
  <2>1. /\ s \in Seq(Todo) /\ DOMAIN s = 1..(Len(t) + 1) /\ s # <<>> /\ s[1] = p
        /\ \A i \in 1..Len(t) : s[i + 1] = t[i]
    BY ONLY p \in Todo, <1>4, <1>5a, OneThen
  <2>2. s[1 + 1] = t[1] /\ s[2 + 1] = t[2] /\ s[3 + 1] = t[3] /\ s[4 + 1] = t[4] BY <1>5, <2>1
  <2> QED BY <1>5, <2>1, <2>2
<1>7. \A i \in DOMAIN s : /\ s[i].do \in {"density", "high", "read", "stream", "stop", "join"}
                          /\ s[i].do = "read" <=> i = 2
                          /\ s[i].do = "stream" <=> i = 3
                          /\ s[i].do = "stop" <=> i = 4
  BY <1>1, <1>2, <1>6
<1>8. Coupled(s)
  <2> SUFFICES ASSUME NEW i \in DOMAIN s, NEW q \in Pairs
               PROVE  /\ s[i].do = q[1] => i + 1 \in DOMAIN s /\ s[i + 1].do = q[2]
                      /\ s[i].do = q[2] /\ i > 1 => s[i - 1].do = q[1]
    BY DEF Coupled
  <2>1. \/ q[1] = "read" /\ q[2] = "stream"
        \/ q[1] = "stream" /\ q[2] = "stop"
        \/ q[1] \in {"permit", "length", "ready"} /\ q[2] \in {"length", "ready", "data"}
    BY DEF Pairs
  <2>2. 2 \in DOMAIN s /\ 3 \in DOMAIN s /\ 4 \in DOMAIN s BY <1>6
  <2>3. CASE q[1] = "read" /\ q[2] = "stream"
    <3>1. s[i].do = "read" => i + 1 = 3 BY <1>7
    <3>2. s[i].do = "stream" => i - 1 = 2 BY <1>7
    <3> QED BY <1>7, <2>2, <2>3, <3>1, <3>2
  <2>4. CASE q[1] = "stream" /\ q[2] = "stop"
    <3>1. s[i].do = "stream" => i + 1 = 4 BY <1>7
    <3>2. s[i].do = "stop" => i - 1 = 3 BY <1>7
    <3> QED BY <1>7, <2>2, <2>4, <3>1, <3>2
  <2>5. CASE q[1] \in {"permit", "length", "ready"} /\ q[2] \in {"length", "ready", "data"} BY <1>7, <2>5
  <2> QED BY <2>1, <2>3, <2>4, <2>5
<1>9. Ranged(s) /\ Syncs(s) BY <1>7 DEF Ranged, Syncs
<1> QED BY <1>1, <1>6, <1>7, <1>8, <1>9 DEF ScriptOK, Begins, WorkSteps, s

LEMMA WriteOK == WriteScript \in Seq(Todo) /\ Begins(WriteScript) /\ ScriptOK("open", WriteScript)
<1>1. PICK p \in Todo : DensityScript = << p >> /\ p.do \in {"density", "high"} BY DensityIs
<1> DEFINE a == Step("encode", 0)
           b == Step("permit", 0)
           c == Step("length", 0)
           d == Step("ready", 0)
           e == Step("data", 0)
           s == WriteScript
<1>2. /\ a \in Todo /\ b \in Todo /\ c \in Todo /\ d \in Todo /\ e \in Todo
      /\ a.do = "encode" /\ b.do = "permit" /\ c.do = "length" /\ d.do = "ready" /\ e.do = "data"
  BY StepIs DEF WorkSteps, Switches
<1>3. s = << p >> \o <<a, b, c, d, e>> BY <1>1 DEF WriteScript
<1> HIDE DEF a, b, c, d, e, s
<1> DEFINE t == <<a, b, c, d, e>>
<1>4. t \in Seq(Todo) BY <1>2
<1>5. Len(t) = 5 /\ t[1] = a /\ t[2] = b /\ t[3] = c /\ t[4] = d /\ t[5] = e OBVIOUS
<1>5a. s = << p >> \o t BY <1>3
<1> HIDE DEF t
<1>6. /\ s \in Seq(Todo) /\ DOMAIN s = 1..6 /\ s # <<>>
      /\ s[1] = p /\ s[2] = a /\ s[3] = b /\ s[4] = c /\ s[5] = d /\ s[6] = e
  <2>1. /\ s \in Seq(Todo) /\ DOMAIN s = 1..(Len(t) + 1) /\ s # <<>> /\ s[1] = p
        /\ \A i \in 1..Len(t) : s[i + 1] = t[i]
    BY ONLY p \in Todo, <1>4, <1>5a, OneThen
  <2>2. /\ s[1 + 1] = t[1] /\ s[2 + 1] = t[2] /\ s[3 + 1] = t[3] /\ s[4 + 1] = t[4]
        /\ s[5 + 1] = t[5]
    BY <1>5, <2>1
  <2> QED BY <1>5, <2>1, <2>2
<1>7. \A i \in DOMAIN s : /\ s[i].do \in {"density", "high", "encode", "permit", "length", "ready", "data"}
                          /\ s[i].do = "permit" <=> i = 3
                          /\ s[i].do = "length" <=> i = 4
                          /\ s[i].do = "ready" <=> i = 5
                          /\ s[i].do = "data" <=> i = 6
  BY <1>1, <1>2, <1>6
<1>8. Coupled(s)
  <2> SUFFICES ASSUME NEW i \in DOMAIN s, NEW q \in Pairs
               PROVE  /\ s[i].do = q[1] => i + 1 \in DOMAIN s /\ s[i + 1].do = q[2]
                      /\ s[i].do = q[2] /\ i > 1 => s[i - 1].do = q[1]
    BY DEF Coupled
  <2>1. \/ q[1] = "permit" /\ q[2] = "length"
        \/ q[1] = "length" /\ q[2] = "ready"
        \/ q[1] = "ready" /\ q[2] = "data"
        \/ q[1] \in {"read", "stream"} /\ q[2] \in {"stream", "stop"}
    BY DEF Pairs
  <2>2. 3 \in DOMAIN s /\ 4 \in DOMAIN s /\ 5 \in DOMAIN s /\ 6 \in DOMAIN s BY <1>6
  <2>3. CASE q[1] = "permit" /\ q[2] = "length"
    <3>1. s[i].do = "permit" => i + 1 = 4 BY <1>7
    <3>2. s[i].do = "length" => i - 1 = 3 BY <1>7
    <3> QED BY <1>7, <2>2, <2>3, <3>1, <3>2
  <2>4. CASE q[1] = "length" /\ q[2] = "ready"
    <3>1. s[i].do = "length" => i + 1 = 5 BY <1>7
    <3>2. s[i].do = "ready" => i - 1 = 4 BY <1>7
    <3> QED BY <1>7, <2>2, <2>4, <3>1, <3>2
  <2>5. CASE q[1] = "ready" /\ q[2] = "data"
    <3>1. s[i].do = "ready" => i + 1 = 6 BY <1>7
    <3>2. s[i].do = "data" => i - 1 = 5 BY <1>7
    <3> QED BY <1>7, <2>2, <2>5, <3>1, <3>2
  <2>6. CASE q[1] \in {"read", "stream"} /\ q[2] \in {"stream", "stop"} BY <1>7, <2>6
  <2> QED BY <2>1, <2>3, <2>4, <2>5, <2>6
<1>9. Ranged(s) /\ Syncs(s) BY <1>7 DEF Ranged, Syncs
<1> QED BY <1>1, <1>6, <1>7, <1>8, <1>9 DEF ScriptOK, Begins, WorkSteps, s

LEMMA ScriptsOK ==
    ASSUME NEW r \in Scripts
    PROVE  r.script \in Seq(Todo) /\ Begins(r.script) /\ ScriptOK("open", r.script)
<1> DEFINE s == r.script
<1>1. \/ s = <<Step("disk", 0)>> \/ s = <<Step("motor", TRUE)>> \/ s = <<Step("motor", FALSE)>>
      \/ \E c \in Nat : s = SeekScript(c)
      \/ \E b \in {0, 1} : s = <<Step("side", b)>>
      \/ s = NoClickScript \/ s = ReadScript \/ s = WriteScript
  <2>1. Cylinders \subseteq Nat BY DrawBridgeAssumption
  <2>2. PICK S : /\ r \in S
                 /\ \/ S = [op : {"status"} \cap Ops, script : {<<Step("disk", 0)>>}]
                    \/ S = [op : {"on"} \cap Ops, script : {<<Step("motor", TRUE)>>}]
                    \/ S = [op : {"off"} \cap Ops, script : {<<Step("motor", FALSE)>>}]
                    \/ S = [op : {"seek"} \cap Ops, script : {SeekScript(c) : c \in Cylinders}]
                    \/ S = [op : {"side"} \cap Ops, script : {<<Step("side", b)>> : b \in {0, 1}}]
                    \/ S = [op : {"noclick"} \cap Ops, script : {NoClickScript}]
                    \/ S = [op : IF drv.motor /\ drv.present THEN {"read"} \cap Ops ELSE {}, script : {ReadScript}]
                    \/ S = [op : {"write"} \cap Ops, script : {WriteScript}]
    BY Zenon DEF Scripts
  <2>3. ASSUME NEW A, NEW B, r \in [op : A, script : B] PROVE r.script \in B BY <2>3
  <2>4. \/ s \in {<<Step("disk", 0)>>} \/ s \in {<<Step("motor", TRUE)>>} \/ s \in {<<Step("motor", FALSE)>>}
        \/ s \in {SeekScript(c) : c \in Cylinders}
        \/ s \in {<<Step("side", b)>> : b \in {0, 1}}
        \/ s \in {NoClickScript} \/ s \in {ReadScript} \/ s \in {WriteScript}
    BY ONLY <2>2, <2>3, Zenon
  <2> QED BY <2>1, <2>4, Zenon
<1>2. /\ \A d \in {"disk", "side", "noclick", "nothing"} : \A a \in Nat :
            Step(d, a) \in Todo /\ Step(d, a).do = d
      /\ \A a \in BOOLEAN : Step("motor", a) \in Todo /\ Step("motor", a).do = "motor"
  BY StepIs DEF WorkSteps, Switches
<1>3. CASE s = <<Step("disk", 0)>> BY <1>2, <1>3, ShortOK
<1>4. CASE s = <<Step("motor", TRUE)>> BY <1>2, <1>4, ShortOK
<1>5. CASE s = <<Step("motor", FALSE)>> BY <1>2, <1>5, ShortOK
<1>6. CASE \E c \in Nat : s = SeekScript(c) BY <1>6, SeekOK
<1>7. CASE \E b \in {0, 1} : s = <<Step("side", b)>>
  <2>1. PICK b \in {0, 1} : s = <<Step("side", b)>> BY <1>7
  <2> QED BY <1>2, <2>1, ShortOK
<1>8. CASE s = NoClickScript
  <2>1. s = <<Step("noclick", 0)>> \/ s = <<Step("nothing", 0)>> BY <1>8 DEF NoClickScript
  <2> QED BY <1>2, <2>1, ShortOK
<1>9. CASE s = ReadScript BY <1>9, ReadOK
<1>10. CASE s = WriteScript BY <1>10, WriteOK
<1> QED BY <1>1, <1>3, <1>4, <1>5, <1>6, <1>7, <1>8, <1>9, <1>10

(* What is left of a script when its first step is done.                   *)
LEMMA TailIs ==
    ASSUME NEW s \in Seq(Todo), s # <<>>
    PROVE  /\ Tail(s) \in Seq(Todo) /\ Len(s) \in Nat \ {0} /\ DOMAIN s = 1..Len(s)
           /\ 1 \in DOMAIN s /\ s[1] \in Todo
           /\ Len(Tail(s)) = Len(s) - 1 /\ DOMAIN Tail(s) = 1..(Len(s) - 1)
           /\ \A i \in DOMAIN Tail(s) : i + 1 \in DOMAIN s /\ Tail(s)[i] = s[i + 1]
           /\ \A i \in DOMAIN s : i # 1 => i - 1 \in DOMAIN Tail(s) /\ Tail(s)[i - 1] = s[i]
<1> DEFINE t == Tail(s)
<1>1. /\ t \in Seq(Todo) /\ Len(t) = Len(s) - 1 /\ Len(s) \in Nat \ {0}
      /\ \A i \in 1..Len(t) : t[i] = s[i + 1]
  BY HeadTailProperties, EmptySeq
<1> HIDE DEF t
<1>2. /\ DOMAIN s = 1..Len(s) /\ DOMAIN t = 1..(Len(s) - 1) /\ 1 \in DOMAIN s /\ s[1] \in Todo BY <1>1
<1>3. \A i \in DOMAIN t : i + 1 \in DOMAIN s /\ t[i] = s[i + 1] BY <1>1, <1>2
<1>4. ASSUME NEW i \in DOMAIN s, i # 1 PROVE i - 1 \in DOMAIN t /\ t[i - 1] = s[i]
  <2>1. i - 1 \in DOMAIN t /\ i - 1 + 1 = i BY <1>1, <1>2, <1>4
  <2> QED BY <1>3, <2>1
<1> QED BY <1>1, <1>2, <1>3, <1>4 DEF t

LEMMA TailAhead ==
    ASSUME NEW s \in Seq(Todo), s # <<>>, NEW x
    PROVE  /\ Ahead(x, Tail(s)) => Ahead(x, s)
           /\ Ahead(x, s) /\ s[1].do # x => Ahead(x, Tail(s))
<1>1. /\ \A i \in DOMAIN Tail(s) : i + 1 \in DOMAIN s /\ Tail(s)[i] = s[i + 1]
      /\ \A i \in DOMAIN s : i # 1 => i - 1 \in DOMAIN Tail(s) /\ Tail(s)[i - 1] = s[i]
  BY TailIs
<1>2. ASSUME Ahead(x, Tail(s)) PROVE Ahead(x, s) BY <1>1, <1>2 DEF Ahead
<1>3. ASSUME Ahead(x, s), s[1].do # x PROVE Ahead(x, Tail(s))
  <2>1. PICK i \in DOMAIN s : s[i].do = x BY <1>3 DEF Ahead
  <2>2. i - 1 \in DOMAIN Tail(s) /\ Tail(s)[i - 1].do = x BY <1>1, <1>3, <2>1
  <2> QED BY <2>2 DEF Ahead
<1> QED BY <1>2, <1>3

(* Behind the request for the version none is to come.                     *)
LEMMA TailOK ==
    ASSUME NEW s \in Seq(Todo), s # <<>>, NEW o, ScriptOK(o, s),
           s[1].do = "range" => s[1].arg < MaxCylinders
    PROVE  /\ Coupled(Tail(s)) /\ Ranged(Tail(s)) /\ Syncs(Tail(s))
           /\ \A i \in DOMAIN Tail(s) : /\ o = "opening" => Tail(s)[i].do \in OpenSteps
                                        /\ o = "open" => Tail(s)[i].do \in WorkSteps
                                        /\ o = "closing" => Tail(s)[i] = Step("motor", FALSE)
                                        /\ Tail(s)[i].do = "pulse" => Ahead("sync", Tail(s))
           /\ s[1].do = "sync" => ~Ahead("sync", Tail(s)) /\ ~Ahead("pulse", Tail(s))
<1> DEFINE t == Tail(s)
<1>1. /\ t \in Seq(Todo) /\ Len(s) \in Nat \ {0} /\ DOMAIN s = 1..Len(s)
      /\ 1 \in DOMAIN s /\ s[1] \in Todo
      /\ DOMAIN t = 1..(Len(s) - 1)
      /\ \A i \in DOMAIN t : i \in Nat \ {0} /\ i + 1 \in DOMAIN s /\ t[i] = s[i + 1]
      /\ \A i \in DOMAIN s : i # 1 => i - 1 \in DOMAIN t /\ t[i - 1] = s[i]
  <2>1. /\ t \in Seq(Todo) /\ Len(s) \in Nat \ {0} /\ DOMAIN s = 1..Len(s)
        /\ 1 \in DOMAIN s /\ s[1] \in Todo
        /\ DOMAIN t = 1..(Len(s) - 1)
        /\ \A i \in DOMAIN t : i + 1 \in DOMAIN s /\ t[i] = s[i + 1]
        /\ \A i \in DOMAIN s : i # 1 => i - 1 \in DOMAIN t /\ t[i - 1] = s[i]
    BY TailIs
  <2>2. \A i \in DOMAIN t : i \in Nat \ {0} BY <2>1
  <2> QED BY <2>1, <2>2
<1>2. \A x : (Ahead(x, t) => Ahead(x, s)) /\ (Ahead(x, s) /\ s[1].do # x => Ahead(x, t))
  BY TailAhead
<1> HIDE DEF t
<1>3. /\ Coupled(s) /\ Ranged(s) /\ Syncs(s)
      /\ \A i \in DOMAIN s : /\ o = "opening" => s[i].do \in OpenSteps
                             /\ o = "open" => s[i].do \in WorkSteps
                             /\ o = "closing" => s[i] = Step("motor", FALSE)
                             /\ s[i].do = "pulse" => Ahead("sync", s)
  BY DEF ScriptOK
<1>4. Coupled(t)
  <2> SUFFICES ASSUME NEW i \in DOMAIN t, NEW q \in Pairs
               PROVE  /\ t[i].do = q[1] => i + 1 \in DOMAIN t /\ t[i + 1].do = q[2]
                      /\ t[i].do = q[2] /\ i > 1 => t[i - 1].do = q[1]
    BY DEF Coupled
  <2> DEFINE k == i + 1
  <2>1. k \in DOMAIN s /\ t[i] = s[k] /\ k > 1 /\ k - 1 = i BY <1>1
  <2>2. /\ s[k].do = q[1] => k + 1 \in DOMAIN s /\ s[k + 1].do = q[2]
        /\ s[k].do = q[2] => s[k - 1].do = q[1]
    BY <1>3, <2>1 DEF Coupled
  <2>3. k + 1 \in DOMAIN s => i + 1 \in DOMAIN t /\ t[i + 1] = s[k + 1] BY <1>1
  <2>4. i > 1 => t[i - 1] = s[k - 1] BY <1>1
  <2> QED BY <2>1, <2>2, <2>3, <2>4
<1>5. Ranged(t)
  <2> SUFFICES ASSUME NEW i \in DOMAIN t, t[i].do = "seek"
               PROVE  IF i = 1 THEN t[i].arg < MaxCylinders ELSE t[i - 1] = Step("range", t[i].arg)
    BY DEF Ranged
  <2> DEFINE k == i + 1
  <2>1. k \in DOMAIN s /\ t[i] = s[k] /\ k # 1 /\ k - 1 = i /\ i \in Nat BY <1>1
  <2>2. s[k - 1] = Step("range", s[k].arg) BY <1>3, <2>1 DEF Ranged
  <2>3. CASE i = 1
    <3>1. s[1].do = "range" /\ s[1].arg = t[i].arg BY <2>1, <2>2, <2>3 DEF Step
    <3> QED BY <2>3, <3>1
  <2>4. CASE i # 1
    <3>1. t[i - 1] = s[k - 1] BY <1>1, <2>4
    <3> QED BY <2>1, <2>2, <2>4, <3>1
  <2> QED BY <2>3, <2>4
<1>6. Syncs(t)
  <2> SUFFICES ASSUME NEW i \in DOMAIN t, NEW j \in DOMAIN t, t[j].do = "sync"
               PROVE  /\ i < j => t[i].do \in {"pulse", "purge"}
                      /\ i > j => t[i].do \notin {"pulse", "sync"}
    BY DEF Syncs
  <2>1. /\ i + 1 \in DOMAIN s /\ t[i] = s[i + 1] /\ j + 1 \in DOMAIN s /\ t[j] = s[j + 1]
        /\ i < j => i + 1 < j + 1
        /\ i > j => i + 1 > j + 1
    BY <1>1
  <2> QED BY <1>3, <2>1 DEF Syncs
<1>7. ASSUME s[1].do = "sync" PROVE ~Ahead("sync", t) /\ ~Ahead("pulse", t)
  <2> SUFFICES ASSUME NEW i \in DOMAIN t PROVE t[i].do \notin {"pulse", "sync"} BY DEF Ahead
  <2>1. i + 1 \in DOMAIN s /\ t[i] = s[i + 1] /\ i + 1 > 1 BY <1>1
  <2> QED BY <1>1, <1>3, <1>7, <2>1 DEF Syncs
<1>8. ASSUME NEW i \in DOMAIN t
      PROVE  /\ o = "opening" => t[i].do \in OpenSteps
             /\ o = "open" => t[i].do \in WorkSteps
             /\ o = "closing" => t[i] = Step("motor", FALSE)
             /\ t[i].do = "pulse" => Ahead("sync", t)
  <2>1. i + 1 \in DOMAIN s /\ t[i] = s[i + 1] BY <1>1
  <2>2. ASSUME t[i].do = "pulse" PROVE Ahead("sync", t)
    <3>1. Ahead("sync", s) BY <1>3, <2>1, <2>2
    <3>2. s[1].do # "sync"
      <4>1. Ahead("pulse", t) BY <2>2 DEF Ahead
      <4> QED BY <1>7, <4>1
    <3> QED BY <1>2, <3>1, <3>2
  <2> QED BY <1>3, <2>1, <2>2
<1> QED BY <1>4, <1>5, <1>6, <1>7, <1>8 DEF t

(* choose_density goes on to set the density it has found.                 *)
LEMMA HighOK ==
    ASSUME NEW s \in Seq(Todo), s # <<>>, ScriptOK("open", s), s[1].do = "density", NEW b \in BOOLEAN
    PROVE  /\ <<Step("high", b)>> \o Tail(s) \in Seq(Todo) /\ <<Step("high", b)>> \o Tail(s) # <<>>
           /\ (<<Step("high", b)>> \o Tail(s))[1] = Step("high", b)
           /\ ScriptOK("open", <<Step("high", b)>> \o Tail(s))
           /\ \A x : Ahead(x, s) /\ x # "density" => Ahead(x, <<Step("high", b)>> \o Tail(s))
<1>1. PICK p \in Todo : p = Step("high", b) /\ p.do = "high" BY StepIs DEF Switches
<1> DEFINE t == Tail(s)
           r == << p >> \o t
<1>2. /\ t \in Seq(Todo) /\ Len(s) \in Nat \ {0} /\ DOMAIN s = 1..Len(s) /\ Len(t) = Len(s) - 1
      /\ \A i \in DOMAIN s : i # 1 => i - 1 \in DOMAIN t /\ t[i - 1] = s[i]
      /\ DOMAIN t = 1..(Len(s) - 1)
  BY TailIs
<1>3. /\ r \in Seq(Todo) /\ DOMAIN r = 1..(Len(t) + 1) /\ r[1] = p /\ r # <<>>
      /\ \A i \in 1..Len(t) : r[i + 1] = t[i]
  BY <1>2, OneThen
<1> HIDE DEF t, r
<1>4. DOMAIN r = DOMAIN s /\ \A i \in DOMAIN r : i # 1 => r[i] = s[i]
  <2>1. DOMAIN r = DOMAIN s BY <1>2, <1>3
  <2>2. ASSUME NEW i \in DOMAIN s, i # 1 PROVE r[i] = s[i]
    <3>1. i - 1 \in 1..Len(t) /\ (i - 1) + 1 = i /\ t[i - 1] = s[i] BY <1>2, <2>2
    <3> QED BY <1>3, <3>1
  <2> QED BY <2>1, <2>2
<1>5. /\ Coupled(s) /\ Ranged(s) /\ Syncs(s)
      /\ \A i \in DOMAIN s : s[i].do \in WorkSteps /\ (s[i].do = "pulse" => Ahead("sync", s))
  BY DEF ScriptOK
<1>6. \A i \in DOMAIN s : i \in Nat \ {0} BY <1>2
<1>7. Coupled(r)
  <2> SUFFICES ASSUME NEW i \in DOMAIN s, NEW q \in Pairs
               PROVE  /\ r[i].do = q[1] => i + 1 \in DOMAIN r /\ r[i + 1].do = q[2]
                      /\ r[i].do = q[2] /\ i > 1 => r[i - 1].do = q[1]
    BY <1>4 DEF Coupled
  <2>0. q[1] \notin {"high", "density"} /\ q[2] \notin {"high", "density"} BY PairsAre
  <2>1. CASE i = 1 BY <1>1, <1>3, <2>0, <2>1
  <2>2. CASE i # 1
    <3>1. r[i] = s[i] /\ i + 1 # 1 /\ i \in Nat BY <1>4, <1>6, <2>2
    <3>2. s[i].do = q[1] => i + 1 \in DOMAIN s /\ s[i + 1].do = q[2] BY <1>5 DEF Coupled
    <3>3. i + 1 \in DOMAIN s => r[i + 1] = s[i + 1] BY <1>4, <3>1
    <3>4. ASSUME s[i].do = q[2], i > 1 PROVE r[i - 1].do = q[1]
      <4>1. s[i - 1].do = q[1] BY <1>5, <3>4 DEF Coupled
      <4>2. i - 1 # 1 /\ i - 1 \in DOMAIN s BY <1>2, <2>0, <3>4, <4>1
      <4> QED BY <1>4, <4>1, <4>2
    <3> QED BY <1>4, <3>1, <3>2, <3>3, <3>4
  <2> QED BY <2>1, <2>2
<1>8. Ranged(r)
  <2> SUFFICES ASSUME NEW i \in DOMAIN s, r[i].do = "seek"
               PROVE  IF i = 1 THEN r[i].arg < MaxCylinders ELSE r[i - 1] = Step("range", r[i].arg)
    BY <1>4 DEF Ranged
  <2>1. i # 1 /\ r[i] = s[i] BY <1>1, <1>3, <1>4
  <2>2. s[i - 1] = Step("range", s[i].arg) BY <1>5, <2>1 DEF Ranged
  <2>3. i - 1 # 1 /\ i - 1 \in DOMAIN s BY <1>2, <2>1, <2>2 DEF Step
  <2> QED BY <1>4, <2>1, <2>2, <2>3
<1>9. ~Ahead("sync", s) BY <1>5 DEF Ahead, WorkSteps
<1>10. \A i \in DOMAIN r : r[i].do \in WorkSteps BY <1>1, <1>3, <1>4, <1>5 DEF WorkSteps
<1>11. Syncs(r) /\ \A i \in DOMAIN r : r[i].do # "pulse" BY <1>10 DEF Syncs, WorkSteps
<1>12. ASSUME NEW x, Ahead(x, s), x # "density" PROVE Ahead(x, r)
  <2>1. PICK i \in DOMAIN s : s[i].do = x BY <1>12 DEF Ahead
  <2>2. i # 1 BY <1>12, <2>1
  <2> QED BY <1>4, <2>1, <2>2 DEF Ahead
<1>13. ScriptOK("open", r) BY <1>3, <1>7, <1>8, <1>10, <1>11 DEF ScriptOK
<1> QED BY <1>1, <1>3, <1>12, <1>13 DEF r, t

(* sync_version a second time, after the pulse.                            *)
LEMMA ResyncOK ==
    ASSUME NEW s \in Seq(Todo), s # <<>>, ScriptOK("opening", s), s[1].do = "sync"
    PROVE  /\ Resync \o Tail(s) \in Seq(Todo) /\ Resync \o Tail(s) # <<>>
           /\ (Resync \o Tail(s))[1].do = "pulse"
           /\ ScriptOK("opening", Resync \o Tail(s))
           /\ Ahead("sync", Resync \o Tail(s))
           /\ Ahead("rewind", s) => Ahead("rewind", Resync \o Tail(s))
<1> DEFINE a == Step("pulse", 0)
           b == Step("purge", 0)
           c == Step("sync", 0)
           t == Tail(s)
           r == Resync \o t
<1>1. /\ a \in Todo /\ b \in Todo /\ c \in Todo /\ a.do = "pulse" /\ b.do = "purge" /\ c.do = "sync"
  BY StepIs DEF OpenSteps, Switches
<1>2. /\ t \in Seq(Todo) /\ Len(s) \in Nat \ {0} /\ DOMAIN s = 1..Len(s) /\ Len(t) = Len(s) - 1
      /\ \A i \in DOMAIN s : i # 1 => i - 1 \in DOMAIN t /\ t[i - 1] = s[i]
      /\ DOMAIN t = 1..Len(t) /\ Len(t) \in Nat
  BY TailIs
<1>3. /\ Coupled(t) /\ Ranged(t) /\ Syncs(t) /\ ~Ahead("sync", t) /\ ~Ahead("pulse", t)
      /\ \A i \in DOMAIN t : t[i].do \in OpenSteps
  BY TailOK
<1>4. Resync \in Seq(Todo) /\ Len(Resync) = 3 /\ Resync[1] = a /\ Resync[2] = b /\ Resync[3] = c
  <2>1. Resync = <<a, b, c>> BY DEF Resync
  <2> HIDE DEF a, b, c
  <2> QED BY <1>1, <2>1
<1> HIDE DEF a, b, c, t
<1>5. /\ r \in Seq(Todo) /\ DOMAIN r = 1..(3 + Len(t)) /\ r[1] = a /\ r[2] = b /\ r[3] = c
      /\ \A i \in 1..Len(t) : r[i + 3] = t[i]
  <2>1. /\ r \in Seq(Todo) /\ Len(r) = Len(Resync) + Len(t)
        /\ \A i \in 1..Len(Resync) : r[i] = Resync[i]
        /\ \A i \in 1..Len(t) : r[i + Len(Resync)] = t[i]
    <3>1. t \in Seq(Todo) /\ Resync \in Seq(Todo) BY <1>2, <1>4
    <3> QED BY ONLY <3>1, CatIs
  <2> HIDE DEF r
  <2>2. 1 \in 1..Len(Resync) /\ 2 \in 1..Len(Resync) /\ 3 \in 1..Len(Resync) BY <1>4
  <2>3. r[1] = a /\ r[2] = b /\ r[3] = c BY <1>4, <2>1, <2>2
  <2> QED BY <1>2, <1>4, <2>1, <2>3
<1> HIDE DEF r
<1>6. \A i \in DOMAIN r : i > 3 => i - 3 \in DOMAIN t /\ r[i] = t[i - 3]
  <2> SUFFICES ASSUME NEW i \in DOMAIN r, i > 3 PROVE i - 3 \in DOMAIN t /\ r[i] = t[i - 3] OBVIOUS
  <2>1. i - 3 \in 1..Len(t) /\ (i - 3) + 3 = i BY <1>2, <1>5
  <2> QED BY <1>2, <1>5, <2>1
<1>7. \A i \in DOMAIN r : /\ i \in Nat /\ (i = 1 \/ i = 2 \/ i = 3 \/ i > 3)
                          /\ r[i].do \in OpenSteps
                          /\ r[i].do = "sync" => i = 3
                          /\ i < 3 => r[i].do \in {"pulse", "purge"}
                          /\ i > 3 => r[i].do \notin {"pulse", "sync"}
  <2> SUFFICES ASSUME NEW i \in DOMAIN r
               PROVE  /\ i \in Nat /\ (i = 1 \/ i = 2 \/ i = 3 \/ i > 3)
                      /\ r[i].do \in OpenSteps
                      /\ r[i].do = "sync" => i = 3
                      /\ i < 3 => r[i].do \in {"pulse", "purge"}
                      /\ i > 3 => r[i].do \notin {"pulse", "sync"}
    OBVIOUS
  <2>1. i \in Nat /\ (i = 1 \/ i = 2 \/ i = 3 \/ i > 3) BY <1>2, <1>5
  <2>2. CASE i > 3
    <3>1. i - 3 \in DOMAIN t /\ r[i] = t[i - 3] BY <1>6, <2>2
    <3>2. t[i - 3].do \in OpenSteps /\ t[i - 3].do \notin {"pulse", "sync"} BY <1>3, <3>1 DEF Ahead
    <3> QED BY <2>1, <2>2, <3>1, <3>2
  <2>3. CASE ~(i > 3) BY <1>1, <1>5, <2>1, <2>3 DEF OpenSteps
  <2> QED BY <2>2, <2>3
<1>8. Coupled(r) /\ Ranged(r)
  <2>1. \A i \in DOMAIN r : r[i].do \in OpenSteps BY <1>7
  <2> QED BY <2>1, PlainOK DEF Ranged, OpenSteps
<1>9. Syncs(r)
  <2> SUFFICES ASSUME NEW i \in DOMAIN r, NEW j \in DOMAIN r, r[j].do = "sync"
               PROVE  /\ i < j => r[i].do \in {"pulse", "purge"}
                      /\ i > j => r[i].do \notin {"pulse", "sync"}
    BY DEF Syncs
  <2>1. j = 3 BY <1>7
  <2> QED BY <1>7, <2>1
<1>10. 3 \in DOMAIN r /\ r # <<>> /\ Ahead("sync", r) BY <1>1, <1>2, <1>5 DEF Ahead
<1>11. ASSUME Ahead("rewind", s) PROVE Ahead("rewind", r)
  <2>1. PICK i \in DOMAIN s : s[i].do = "rewind" BY <1>11 DEF Ahead
  <2>2. i - 1 \in DOMAIN t /\ t[i - 1].do = "rewind" BY <1>2, <2>1
  <2>3. i - 1 \in 1..Len(t) /\ (i - 1) + 3 \in DOMAIN r BY <1>2, <1>5, <2>2
  <2> QED BY <1>5, <2>2, <2>3 DEF Ahead
<1>12. ScriptOK("opening", r) BY <1>7, <1>8, <1>9, <1>10 DEF ScriptOK
<1> QED BY <1>1, <1>5, <1>10, <1>11, <1>12 DEF r, t

-----------------------------------------------------------------------------
(* Types.                                                                  *)
LEMMA Typed ==
    ASSUME TypeOK
    PROVE  /\ opened \in {"opening", "open", "closing", "closed"} /\ attempt \in {1, 2}
           /\ script \in Seq(Todo) /\ sent \in BOOLEAN /\ (sent => ~Idle /\ Now # "range")
           /\ wire \in Seq(Todo) /\ inbox \in Seq(Byte) /\ outbox \in Seq(Byte)
           /\ drv \in DriveView /\ fw \in Firm /\ late \in Nat /\ board \in Boards
BY DEF TypeOK, DriverTyped, LinkTyped

LEMMA First ==
    ASSUME TypeOK, ~Idle
    PROVE  /\ script \in Seq(Todo) /\ script # <<>> /\ 1 \in DOMAIN script /\ script[1] \in Todo
           /\ script[1].do = Now /\ script[1].arg = Arg /\ Tail(script) \in Seq(Todo)
           /\ Now \in OpenSteps \cup WorkSteps
           /\ Now \in Switches => Arg \in BOOLEAN
           /\ Now \notin Switches => Arg \in Nat
<1>1. script \in Seq(Todo) /\ script # <<>> BY Typed DEF Idle
<1>2. 1 \in DOMAIN script /\ script[1] \in Todo /\ Tail(script) \in Seq(Todo) BY <1>1, TailIs
<1> QED BY <1>1, <1>2, TodoIs DEF Now, Arg

(* What a step that is done leaves of the call, and one that has failed.   *)
LEMMA ThenIs ==
    ASSUME NEW steps, Then(steps)
    PROVE  /\ sent' = FALSE /\ script' = steps \o Tail(script)
           /\ script' # <<>> => UNCHANGED <<opened, attempt, op>>
           /\ script' = <<>> => /\ opened' = (IF opened = "closing" THEN "closed" ELSE "open")
                                /\ attempt' = 1
                                /\ op' = (IF opened = "open" THEN "none" ELSE op)
BY DEF Then, Done

LEMMA NoneBefore == ASSUME TypeOK, ~Idle PROVE <<>> \o Tail(script) = Tail(script)
<1>1. Tail(script) \in Seq(Todo) BY First
<1> QED BY <1>1, ConcatEmptySeq

Resyncs ==
    /\ opened = "opening" /\ Now = "sync" /\ attempt = 1
    /\ opened' = "opening" /\ script' = Resync \o Tail(script) /\ attempt' = 2 /\ op' = op
Ends ==
    /\ attempt' = 1 /\ (opened # "open" => op' = op)
    /\ \/ opened = "opening" /\ opened' = "closed" /\ script' = <<>>
       \/ opened = "opening" /\ opened' = "closing" /\ script' = DropScript
       \/ opened = "open" /\ opened' = "open" /\ script' = <<>>
       \/ opened = "closing" /\ opened' = "closed" /\ script' = <<>>
    /\ opened = "opening" => Now # "disk" /\ ~(Now = "sync" /\ attempt = 1)

LEMMA FailIs ==
    ASSUME TypeOK, ~Idle, opened # "closed", NEW result, Fail(result)
    PROVE  /\ sent' = FALSE
           /\ Resyncs \/ (opened = "opening" /\ Now = "disk" /\ Then(<<>>)) \/ Ends
<1>1. opened \in {"opening", "open", "closing"} /\ attempt \in {1, 2} BY Typed
<1>2. CASE opened = "opening" /\ Now = "sync" /\ attempt = 1 BY <1>2 DEF Fail, Resyncs
<1>3. CASE opened = "opening" /\ Now = "disk"
  <2>1. Then(<<>>) BY <1>3 DEF Fail
  <2> QED BY <1>3, <2>1, ThenIs
<1>4. CASE opened = "opening" /\ (Now = "version" \/ (Now = "sync" /\ attempt = 2))
  <2>1. opened' = "closed" /\ script' = <<>> /\ Done(result) BY <1>4 DEF Fail
  <2> QED BY <1>4, <2>1 DEF Done, Ends
<1>5. CASE opened = "opening" /\ Now \notin {"sync", "version", "disk"}
  <2>1. opened' = "closing" /\ script' = DropScript /\ Done(result) BY <1>5 DEF Fail
  <2> QED BY <1>5, <2>1 DEF Done, Ends
<1>6. CASE opened # "opening"
  <2>1. opened' = (IF opened = "closing" THEN "closed" ELSE opened) /\ script' = <<>> /\ Done(result)
    BY <1>6 DEF Fail
  <2> QED BY <1>1, <1>6, <2>1 DEF Done, Ends
<1> QED BY <1>1, <1>2, <1>3, <1>4, <1>5, <1>6

LEMMA ThenTyped ==
    ASSUME TypeOK, ~Idle, NEW steps \in Seq(Todo), Then(steps)
    PROVE  DriverTyped'
<1>1. script' \in Seq(Todo)
  <2>1. Tail(script) \in Seq(Todo) /\ script' = steps \o Tail(script) BY First, ThenIs
  <2> QED BY <2>1, ConcatProperties
<1> QED BY <1>1, ThenIs, Typed DEF DriverTyped

LEMMA FailTyped ==
    ASSUME TypeOK, ~Idle, opened # "closed", NEW result, Fail(result)
    PROVE  DriverTyped'
<1>1. sent' = FALSE /\ (Resyncs \/ (opened = "opening" /\ Now = "disk" /\ Then(<<>>)) \/ Ends)
  BY FailIs
<1>0. <<>> \in Seq(Todo) OBVIOUS
<1>2. CASE Resyncs
  <2>1. Tail(script) \in Seq(Todo) BY First
  <2>2. Resync \in Seq(Todo)
    <3> DEFINE a == Step("pulse", 0)
               b == Step("purge", 0)
               c == Step("sync", 0)
    <3>1. a \in Todo /\ b \in Todo /\ c \in Todo BY StepIs DEF OpenSteps, Switches
    <3>2. Resync = <<a, b, c>> BY DEF Resync
    <3> HIDE DEF a, b, c
    <3> QED BY <3>1, <3>2
  <2>3. script' \in Seq(Todo) BY <1>2, <2>1, <2>2, ConcatProperties DEF Resyncs
  <2> QED BY <1>1, <1>2, <2>3 DEF Resyncs, DriverTyped
<1>3. CASE opened = "opening" /\ Now = "disk" /\ Then(<<>>) BY <1>0, <1>3, ThenTyped
<1>4. CASE Ends
  <2>1. script' \in Seq(Todo) BY <1>0, <1>4, DropIs DEF Ends
  <2> QED BY <1>1, <1>4, <2>1 DEF Ends, DriverTyped
<1> QED BY <1>1, <1>2, <1>3, <1>4

(* What the driver goes by: no step of it is about more.                   *)
SameView(d, e) ==
    d.motor = e.motor /\ d.cyl = e.cyl /\ d.side = e.side /\ d.high = e.high /\ d.minor = e.minor

LEMMA DoingIs ==
    ASSUME TypeOK, ~Idle, NEW d \in DriveView
    PROVE  /\ Doing(d) \in DriveView
           /\ Doing(d).motor = IF Now = "motor" THEN Arg ELSE d.motor
           /\ Doing(d).cyl = IF Now = "rewind" THEN 0 ELSE IF Now = "seek" THEN Arg ELSE d.cyl
           /\ Doing(d).side = IF Now = "side" THEN Arg ELSE d.side
           /\ Doing(d).high = IF Now = "high" THEN Arg ELSE d.high
           /\ Doing(d).minor = d.minor
<1>1. (Now \in {"motor", "high"} => Arg \in BOOLEAN) /\ (Now \in {"seek", "side"} => Arg \in Nat)
  BY First DEF Switches
<1>2. CASE Now = "rewind" BY <1>2 DEF Doing, DriveView
<1>3. CASE Now = "seek" BY <1>1, <1>3 DEF Doing, DriveView
<1>4. CASE Now = "motor" BY <1>1, <1>4 DEF Doing, DriveView
<1>5. CASE Now = "side" BY <1>1, <1>5 DEF Doing, DriveView
<1>6. CASE Now = "high" BY <1>1, <1>6 DEF Doing, DriveView
<1>7. CASE Now \notin {"rewind", "seek", "motor", "side", "high"} BY <1>7 DEF Doing, DriveView
<1> QED BY <1>2, <1>3, <1>4, <1>5, <1>6, <1>7

LEMMA SensedIs ==
    ASSUME NEW d \in DriveView PROVE Sensed(d) \in DriveView /\ SameView(Sensed(d), d)
<1>1. PICK a : a = (IF inbox[2] = "x" THEN d.present ELSE inbox[2] = "1") OBVIOUS
<1>2. PICK b : b = (inbox[3] = "1") OBVIOUS
<1>3. a \in BOOLEAN /\ b \in BOOLEAN
  <2>1. d.present \in BOOLEAN BY DEF DriveView
  <2>2. CASE inbox[2] = "x" BY <1>1, <1>2, <2>1, <2>2
  <2>3. CASE inbox[2] # "x" BY <1>1, <1>2, <2>3
  <2> QED BY <2>2, <2>3
<1>4. Sensed(d) = d \/ Sensed(d) = [d EXCEPT !.present = a, !.protected = b]
  BY <1>1, <1>2, Zenon DEF Sensed
<1> QED BY <1>3, <1>4 DEF DriveView, SameView

(* A step is recorded as it was meant, whatever else the answer tells.     *)
LEMMA RecordedIs ==
    ASSUME TypeOK, ~Idle
    PROVE  Recorded \in DriveView /\ SameView(Recorded, Doing(drv))
<1>0. drv \in DriveView /\ Doing(drv) \in DriveView BY Typed, DoingIs
<1>1. board.detect \in BOOLEAN BY DrawBridgeAssumption, Typed
<1>2. CASE Now = "features"
  <2>1. Recorded = [drv EXCEPT !.detect = board.detect] /\ Doing(drv) = drv BY <1>2 DEF Recorded, Doing
  <2> QED BY <1>0, <1>1, <2>1 DEF DriveView, SameView
<1>3. CASE Now = "disk"
  <2>1. PICK a : a = (inbox[1] = "1") OBVIOUS
  <2>2. PICK b : b = (IF inbox[2] = "1" THEN TRUE
                      ELSE IF inbox[2] \in {"#", "0"} THEN FALSE ELSE drv.protected) OBVIOUS
  <2>3. a \in BOOLEAN /\ b \in BOOLEAN BY <1>0, <2>1, <2>2 DEF DriveView
  <2>4. Recorded = [drv EXCEPT !.present = a, !.protected = b] BY <1>3, <2>1, <2>2 DEF Recorded
  <2>5. Doing(drv) = drv BY <1>3 DEF Doing
  <2> QED BY <1>0, <2>3, <2>4, <2>5 DEF DriveView, SameView
<1>4. CASE Now = "seek"
  <2>1. Recorded = Sensed([drv EXCEPT !.cyl = Arg]) /\ Doing(drv) = [drv EXCEPT !.cyl = Arg]
    BY <1>4 DEF Recorded, Doing
  <2> QED BY <1>0, <2>1, SensedIs
<1>5. CASE Now = "noclick"
  <2>1. Recorded = Sensed(drv) /\ Doing(drv) = drv BY <1>5 DEF Recorded, Doing
  <2> QED BY <1>0, <2>1, SensedIs
<1>6. CASE Now = "density"
  <2>1. Recorded \in {drv, [drv EXCEPT !.present = FALSE]}
    <3>1. CASE inbox[2] = "x" BY <1>6, <3>1 DEF Recorded
    <3>2. CASE inbox[2] # "x" BY <1>6, <3>2 DEF Recorded
    <3> QED BY <3>1, <3>2
  <2>2. Doing(drv) = drv BY <1>6 DEF Doing
  <2> QED BY <1>0, <2>1, <2>2 DEF DriveView, SameView
<1>7. CASE Now \in {"rewind", "motor", "side", "high"}
  <2>1. Recorded = Doing(drv) BY <1>7 DEF Recorded, Doing, Switched
  <2> QED BY <1>0, <2>1 DEF SameView
<1>8. CASE Now \notin {"features", "disk", "seek", "noclick", "density", "rewind", "motor", "side", "high"}
  <2>1. Recorded = drv /\ Doing(drv) = drv BY <1>8 DEF Recorded, Doing
  <2> QED BY <1>0, <2>1 DEF SameView
<1> QED BY <1>2, <1>3, <1>4, <1>5, <1>6, <1>7, <1>8

-----------------------------------------------------------------------------
(* The bytes to be read are those that have arrived and, behind them,      *)
(* those under way.                                                        *)
LEMMA LinkIs ==
    ASSUME TypeOK
    PROVE  /\ Link \in Seq(Byte) /\ Len(Link) = Len(inbox) + Len(outbox)
           /\ Len(inbox) \in Nat /\ Len(outbox) \in Nat /\ Len(Link) \in Nat
           /\ DOMAIN Link = 1..Len(Link)
           /\ \A i \in 1..Len(inbox) : Link[i] = inbox[i]
           /\ Link = <<>> <=> inbox = <<>> /\ outbox = <<>>
           /\ inbox = <<>> <=> Len(inbox) = 0
           /\ outbox = <<>> <=> Len(outbox) = 0
           /\ Link = <<>> <=> Len(Link) = 0
<1>0. inbox \in Seq(Byte) /\ outbox \in Seq(Byte) BY Typed
<1>1. /\ Link \in Seq(Byte) /\ Len(Link) = Len(inbox) + Len(outbox)
      /\ Len(inbox) \in Nat /\ Len(outbox) \in Nat
      /\ \A i \in 1..Len(inbox) : Link[i] = inbox[i]
      /\ Link = <<>> <=> inbox = <<>> /\ outbox = <<>>
  BY ONLY <1>0, CatIs DEF Link
<1> HIDE DEF Link
<1>2. Len(Link) \in Nat /\ DOMAIN Link = 1..Len(Link) BY <1>1
<1>3. /\ inbox = <<>> <=> Len(inbox) = 0
      /\ outbox = <<>> <=> Len(outbox) = 0
      /\ Link = <<>> <=> Len(Link) = 0
  BY ONLY <1>0, <1>1, EmptySeq
<1> QED BY <1>1, <1>2, <1>3

LEMMA NoLink == ASSUME inbox = <<>>, outbox = <<>> PROVE Link = <<>>
BY DEF Link

(* Bytes arrive in the order in which they were sent.                      *)
LEMMA DeliverLink == ASSUME TypeOK, Deliver PROVE Link' = Link /\ inbox' \in Seq(Byte) /\ outbox' \in Seq(Byte)
<1>1. inbox \in Seq(Byte) /\ outbox \in Seq(Byte) /\ outbox # <<>>
  BY Typed DEF Deliver
<1>2. Append(inbox, Head(outbox)) \o Tail(outbox) = inbox \o outbox
  BY <1>1, MoveOver
<1>3. Append(inbox, Head(outbox)) \in Seq(Byte) /\ Tail(outbox) \in Seq(Byte)
  BY <1>1, HeadTailProperties
<1> QED BY <1>2, <1>3 DEF Deliver, Link

(* The first n bytes have been read.                                       *)
Dropped(n) ==
    /\ n \in Nat /\ Link' \in Seq(Byte) /\ Len(Link') = Len(Link) - n /\ DOMAIN Link' = 1..Len(Link')
    /\ \A i \in 1..Len(Link') : i + n \in 1..Len(Link) /\ Link'[i] = Link[i + n]

LEMMA DropFront ==
    ASSUME TypeOK, inbox' \in Seq(Byte), UNCHANGED outbox, NEW n \in Nat,
           Len(inbox') = Len(inbox) - n, \A i \in 1..Len(inbox') : inbox'[i] = inbox[i + n]
    PROVE  Dropped(n)
<1>1. inbox \in Seq(Byte) /\ outbox \in Seq(Byte) BY Typed
<1>2. PICK a : a = inbox OBVIOUS
<1>3. PICK b : b = outbox OBVIOUS
<1>4. PICK c : c = inbox' OBVIOUS
<1>5. /\ a \in Seq(Byte) /\ b \in Seq(Byte) /\ c \in Seq(Byte)
      /\ Len(c) = Len(a) - n /\ \A i \in 1..Len(c) : c[i] = a[i + n]
  BY <1>1, <1>2, <1>3, <1>4
<1>6. /\ c \o b \in Seq(Byte) /\ Len(c \o b) = Len(a \o b) - n
      /\ \A i \in 1..Len(c \o b) : i + n \in 1..Len(a \o b) /\ (c \o b)[i] = (a \o b)[i + n]
  <2>1. c \o b \in Seq(Byte) /\ Len(c \o b) = Len(a \o b) - n
    <3>1. c \o b \in Seq(Byte) /\ Len(c \o b) = Len(c) + Len(b) BY ONLY <1>5, ConcatProperties
    <3>2. Len(a \o b) = Len(a) + Len(b) BY ONLY <1>5, ConcatProperties
    <3>3. Len(a) \in Nat /\ Len(b) \in Nat BY <1>5
    <3> QED BY <1>5, <3>1, <3>2, <3>3
  <2>2. \A i \in 1..Len(c \o b) : i + n \in 1..Len(a \o b) /\ (c \o b)[i] = (a \o b)[i + n]
    BY <1>5, FrontDropped
  <2> QED BY <2>1, <2>2
<1>7. Link = a \o b /\ Link' = c \o b BY <1>2, <1>3, <1>4 DEF Link
<1>8. DOMAIN (c \o b) = 1..Len(c \o b) BY <1>6
<1> QED BY <1>6, <1>7, <1>8 DEF Dropped

(* read_byte, as often as the answer says.                                 *)
LEMMA DropN ==
    ASSUME TypeOK, NEW n \in Nat, n >= 1, Len(inbox) >= n, inbox' = SubSeq(inbox, n + 1, Len(inbox)), UNCHANGED outbox
    PROVE  /\ inbox' \in Seq(Byte) /\ Dropped(n)
           /\ \A i \in 1..n : Link[i] = inbox[i]
           /\ Len(Link) >= n
<1>0. inbox \in Seq(Byte) /\ Len(inbox) \in Nat /\ Len(outbox) \in Nat BY Typed, LinkIs
<1>1. PICK a : a = inbox OBVIOUS
<1>2. PICK c : c = SubSeq(a, n + 1, Len(a)) OBVIOUS
<1>3. c \in Seq(Byte) /\ Len(c) = Len(a) - n /\ \A i \in 1..Len(c) : c[i] = a[i + n]
  BY <1>0, <1>1, <1>2, AfterN
<1>4. inbox' = c BY <1>1, <1>2
<1>5. Dropped(n) BY <1>1, <1>3, <1>4, DropFront
<1>6. \A i \in 1..n : i \in 1..Len(inbox) BY <1>0
<1>7. \A i \in 1..n : Link[i] = inbox[i] BY <1>6, LinkIs
<1>8. Len(Link) >= n BY <1>0, LinkIs
<1> QED BY <1>3, <1>4, <1>5, <1>7, <1>8

(* And one byte.                                                           *)
LEMMA DropOne ==
    ASSUME TypeOK, inbox # <<>>, inbox' = Tail(inbox), UNCHANGED outbox
    PROVE  /\ inbox' \in Seq(Byte) /\ Dropped(1) /\ Link[1] = inbox[1] /\ Len(Link) >= 1
<1>0. inbox \in Seq(Byte) BY Typed
<1>1. /\ inbox' \in Seq(Byte) /\ Len(inbox') = Len(inbox) - 1 /\ Len(inbox) \in Nat \ {0}
      /\ \A i \in 1..Len(inbox') : inbox'[i] = inbox[i + 1]
  BY <1>0, HeadTailProperties, EmptySeq
<1>2. 1 \in 1..Len(inbox) BY <1>1
<1>3. Dropped(1) BY <1>1, DropFront
<1>4. Link[1] = inbox[1] /\ Len(Link) >= 1 BY <1>2, LinkIs
<1> QED BY <1>1, <1>3, <1>4

(* The whole answer is read, and nothing behind it.                        *)
LEMMA AllRead ==
    ASSUME TypeOK, inbox' \in Seq(Byte), UNCHANGED outbox, NEW n \in Nat, Dropped(n), Len(Link) = n
    PROVE  inbox' = <<>> /\ outbox' = <<>> /\ Link' = <<>>
<1>1. inbox' \in Seq(Byte) /\ outbox' \in Seq(Byte) /\ Len(Link') = 0 BY Typed, LinkIs DEF Dropped
<1>2. PICK a : a = inbox' OBVIOUS
<1>3. PICK b : b = outbox' OBVIOUS
<1>4. a \in Seq(Byte) /\ b \in Seq(Byte) /\ Link' = a \o b BY <1>1, <1>2, <1>3 DEF Link
<1>5. Len(a \o b) = Len(a) + Len(b) /\ Len(a) \in Nat /\ Len(b) \in Nat BY <1>4, CatIs
<1>6. Len(a) = 0 /\ Len(b) = 0 BY <1>1, <1>4, <1>5
<1>7. a = <<>> /\ b = <<>> BY <1>4, <1>6, EmptySeq
<1>8. Link' = <<>> BY <1>4, <1>7
<1> QED BY <1>2, <1>3, <1>7, <1>8

(* What the firmware sends goes to the back.                               *)
Adds(bytes) ==
    /\ bytes \in Seq(Byte) /\ outbox' \in Seq(Byte)
    /\ Link' \in Seq(Byte) /\ Len(Link') = Len(Link) + Len(bytes) /\ DOMAIN Link' = 1..Len(Link')
    /\ \A i \in 1..Len(Link) : Link'[i] = Link[i]
    /\ \A i \in 1..Len(bytes) : Link'[i + Len(Link)] = bytes[i]

LEMMA Answers ==
    ASSUME TypeOK, NEW bytes \in Seq(Byte), outbox' = outbox \o bytes, UNCHANGED inbox
    PROVE  Adds(bytes)
<1>0. inbox \in Seq(Byte) /\ outbox \in Seq(Byte) /\ Link \in Seq(Byte) BY Typed, LinkIs
<1>1. outbox' \in Seq(Byte) BY <1>0, CatIs
<1>2. Link' = Link \o bytes
  <2>1. inbox \o (outbox \o bytes) = (inbox \o outbox) \o bytes
    BY ONLY <1>0, bytes \in Seq(Byte), ConcatAssociative
  <2> QED BY <2>1 DEF Link
<1>3. PICK l : l = Link OBVIOUS
<1>4. /\ l \o bytes \in Seq(Byte) /\ Len(l \o bytes) = Len(l) + Len(bytes)
      /\ \A i \in 1..Len(l) : (l \o bytes)[i] = l[i]
      /\ \A i \in 1..Len(bytes) : (l \o bytes)[i + Len(l)] = bytes[i]
  BY ONLY <1>0, <1>3, bytes \in Seq(Byte), CatIs
<1>5. DOMAIN (l \o bytes) = 1..Len(l \o bytes) BY <1>4
<1> QED BY <1>1, <1>2, <1>3, <1>4, <1>5 DEF Adds

(* One byte of them.                                                       *)
LEMMA AnswersOne ==
    ASSUME TypeOK, NEW b \in Byte, outbox' = Append(outbox, b), UNCHANGED inbox
    PROVE  Adds(<< b >>)
<1>1. outbox \in Seq(Byte) BY Typed
<1>2. << b >> \in Seq(Byte) OBVIOUS
<1>3. outbox' = outbox \o << b >> BY <1>1, AppendIsConcat
<1> QED BY <1>2, <1>3, Answers

(* What a firmware that waits for a command answers it.                    *)
Commands == {"features", "rewind", "disk", "motor", "side", "high", "seek", "noclick", "density",
             "read", "permit"}
Does(p, f) ==
    /\ f.motor = IF p.do = "motor" THEN p.arg ELSE fw.motor
    /\ f.cyl = IF p.do = "rewind" THEN 0 ELSE IF p.do = "seek" THEN p.arg ELSE fw.cyl
    /\ f.side = IF p.do = "side" THEN p.arg ELSE fw.side
    /\ f.high = IF p.do = "high" THEN p.arg ELSE fw.high

LEMMA BytesAre ==
    /\ \A a \in Byte : << a >> \in Seq(Byte) /\ Len(<< a >>) = 1 /\ << a >>[1] = a /\ DOMAIN << a >> = 1..1
    /\ \A a, b \in Byte : /\ <<a, b>> \in Seq(Byte) /\ Len(<<a, b>>) = 2
                         /\ <<a, b>>[1] = a /\ <<a, b>>[2] = b
    /\ {"1", "#", "x", "0", "2", "H", "D", "N", "Y", "!", "X", "Z", "V", "S", "s", "F", "f", "i"} \subseteq Byte
<1>1. {"1", "#", "x", "0", "2", "H", "D", "N", "Y", "!", "X", "Z", "V", "S", "s", "F", "f", "i"} \subseteq Byte
  BY DEF Byte
<1> HIDE DEF Byte
<1> QED BY <1>1

LEMMA PoweredIs ==
    ASSUME fw \in Firm, NEW f, f = [Powered EXCEPT !.cyl = fw.cyl]
    PROVE  f \in Firm /\ f.mode = "idle" /\ ~f.motor /\ f.side = 0 /\ ~f.high /\ f.cyl = fw.cyl
<1>1. f = [mode |-> "idle", motor |-> FALSE, cyl |-> fw.cyl, side |-> 0, high |-> FALSE] BY DEF Powered
<1>2. fw.cyl \in Nat BY DEF Firm
<1>3. f.mode = "idle" /\ ~f.motor /\ f.side = 0 /\ ~f.high /\ f.cyl = fw.cyl BY <1>1
<1>4. PICK c \in Nat : c = fw.cyl BY <1>2
<1>5. f = [mode |-> "idle", motor |-> FALSE, cyl |-> c, side |-> 0, high |-> FALSE] BY <1>1, <1>4
<1>6. f \in Firm BY ONLY c \in Nat, <1>5 DEF Firm
<1> QED BY <1>3, <1>6

LEMMA SeesIs ==
    \A s \in Sees : << "1" >> \o s \in Seq(Byte) /\ Len(<< "1" >> \o s) = 3 /\ (<< "1" >> \o s)[1] = "1"
<1> SUFFICES ASSUME NEW s \in Sees
             PROVE  << "1" >> \o s \in Seq(Byte) /\ Len(<< "1" >> \o s) = 3 /\ (<< "1" >> \o s)[1] = "1"
  OBVIOUS
<1>1. s \in Seq(Byte) /\ Len(s) = 2
  <2>1. PICK a \in {"1", "#", "x"}, b \in {"1", "#"} : s = <<a, b>> BY DEF Sees, Flag
  <2>2. a \in Byte /\ b \in Byte BY BytesAre
  <2> QED BY <2>1, <2>2, BytesAre
<1> DEFINE a == << "1" >>
<1>2. a \in Seq(Byte) /\ Len(a) = 1 /\ a[1] = "1" BY BytesAre
<1> HIDE DEF a
<1>3. a \in Seq(Byte) /\ s \in Seq(Byte) BY <1>1, <1>2
<1>4. a \o s \in Seq(Byte) /\ Len(a \o s) = Len(a) + Len(s) BY ONLY <1>3, CatIs
<1>5. \A i \in 1..Len(a) : (a \o s)[i] = a[i] BY ONLY <1>3, CatIs
<1>6. 1 \in 1..Len(a) BY <1>2
<1>7. (a \o s)[1] = "1" BY <1>2, <1>5, <1>6
<1> QED BY <1>1, <1>2, <1>4, <1>7 DEF a

LEMMA RepliesIs ==
    ASSUME fw \in Firm, NEW p \in Todo, NEW r \in Replies(p)
    PROVE  /\ r.bytes \in Seq(Byte) /\ r.after \in Firm
           /\ p.do # "sync" => Does(p, r.after)
           /\ p.do \in Commands /\ fw.mode = "idle" => Apt(p.do, r.bytes, r.after.mode)
           /\ p.do = "sync" => /\ r.bytes = << "V" >> /\ r.after = [Powered EXCEPT !.cyl = fw.cyl]
<1> DEFINE Goal == /\ r.bytes \in Seq(Byte) /\ r.after \in Firm
                   /\ p.do # "sync" => Does(p, r.after)
                   /\ p.do \in Commands /\ fw.mode = "idle" => Apt(p.do, r.bytes, r.after.mode)
                   /\ p.do = "sync" => /\ r.bytes = << "V" >> /\ r.after = [Powered EXCEPT !.cyl = fw.cyl]
<1>0. /\ p.do \in {"motor", "high"} => p.arg \in BOOLEAN
      /\ p.do \in {"seek", "side"} => p.arg \in Nat
  BY TodoIs DEF Switches
<1>1. CASE p.do = "sync"
  <2>1. r.bytes = << "V" >> /\ r.after = [Powered EXCEPT !.cyl = fw.cyl] BY <1>1 DEF Replies
  <2>2. r.bytes \in Seq(Byte)
    <3>1. "S" \in Byte /\ "s" \in Byte /\ "V" \in Byte BY BytesAre
    <3> QED BY <2>1, <3>1, BytesAre
  <2>3. r.after \in Firm BY <2>1, PoweredIs
  <2> QED BY <1>1, <2>1, <2>2, <2>3 DEF Commands
<1>2. CASE p.do = "features"
  <2>1. r.bytes = <<"1", "F">> /\ r.after = fw BY <1>2 DEF Replies
  <2>2. r.bytes \in Seq(Byte) /\ Len(r.bytes) = 2 /\ r.bytes[1] = "1" BY <2>1, BytesAre
  <2> QED BY <1>2, <2>1, <2>2 DEF Apt, Does
<1>3. CASE p.do \in {"rewind", "motor", "side", "high"}
  <2>1. /\ r.bytes = << "1" >>
        /\ \/ p.do = "rewind" /\ r.after = [fw EXCEPT !.cyl = 0]
           \/ p.do = "motor" /\ r.after = [fw EXCEPT !.motor = p.arg]
           \/ p.do = "side" /\ r.after = [fw EXCEPT !.side = p.arg]
           \/ p.do = "high" /\ r.after = [fw EXCEPT !.high = p.arg]
    BY <1>3 DEF Replies
  <2>2. r.bytes \in Seq(Byte) /\ Len(r.bytes) = 1 /\ r.bytes[1] = "1" BY <2>1, BytesAre
  <2>3. r.after \in Firm /\ Does(p, r.after) /\ r.after.mode = fw.mode BY <1>0, <2>1 DEF Firm, Does
  <2> QED BY <1>3, <2>2, <2>3 DEF Apt
<1>4. CASE p.do = "disk"
  <2>1. r.bytes = <<Flag(disk.present), Flag(disk.protected)>> /\ r.after = fw BY <1>4 DEF Replies
  <2>2. r.bytes \in Seq(Byte) /\ Len(r.bytes) = 2 /\ r.bytes[1] \in {"1", "#"} BY <2>1, BytesAre DEF Flag
  <2> QED BY <1>4, <2>1, <2>2 DEF Apt, Does
<1>5. CASE p.do = "seek"
  <2>1. r.after = [fw EXCEPT !.cyl = p.arg] /\ (r.bytes = << "2" >> \/ \E s \in Sees : r.bytes = << "1" >> \o s)
    BY <1>5 DEF Replies
  <2>2. /\ r.bytes \in Seq(Byte)
        /\ (Len(r.bytes) = 3 /\ r.bytes[1] = "1") \/ (Len(r.bytes) = 1 /\ r.bytes[1] = "2")
    <3>1. CASE r.bytes = << "2" >> BY <3>1, BytesAre
    <3>2. CASE \E s \in Sees : r.bytes = << "1" >> \o s BY <3>2, SeesIs
    <3> QED BY <2>1, <3>1, <3>2
  <2>3. r.after \in Firm /\ Does(p, r.after) /\ r.after.mode = fw.mode BY <1>0, <1>5, <2>1 DEF Firm, Does
  <2> QED BY <1>5, <2>2, <2>3 DEF Apt
<1>6. CASE p.do = "noclick"
  <2>1. r.after = fw /\ \E s \in Sees : r.bytes = << "1" >> \o s BY <1>6 DEF Replies
  <2>2. r.bytes \in Seq(Byte) /\ Len(r.bytes) = 3 /\ r.bytes[1] = "1" BY <2>1, SeesIs
  <2> QED BY <1>6, <2>1, <2>2 DEF Apt, Does
<1>7. CASE p.do = "density"
  <2>1. PICK b \in {"x", "H", "D"} : r.bytes = <<"1", b>> /\ r.after = fw BY <1>7 DEF Replies
  <2>2. r.bytes \in Seq(Byte) /\ Len(r.bytes) = 2 /\ r.bytes[1] = "1" /\ r.bytes[2] = b
    <3>1. b \in Byte /\ "1" \in Byte BY BytesAre
    <3> QED BY <2>1, <3>1, BytesAre
  <2> QED BY <1>7, <2>1, <2>2 DEF Apt, Does
<1>8. CASE p.do = "read"
  <2>1. r.bytes = << "1" >> /\ r.after = [fw EXCEPT !.mode = "stream"] BY <1>8 DEF Replies
  <2>2. r.bytes \in Seq(Byte) /\ Len(r.bytes) = 1 /\ r.bytes[1] = "1" /\ DOMAIN r.bytes = 1..1 BY <2>1, BytesAre
  <2>3. r.after \in Firm /\ Does(p, r.after) /\ r.after.mode = "stream" BY <1>8, <2>1 DEF Firm, Does
  <2>4. FluxIn(r.bytes, 1) BY <2>2 DEF FluxIn
  <2> QED BY <1>8, <2>2, <2>3, <2>4 DEF Apt
<1>9. CASE p.do = "permit"
  <2>1. \/ r.bytes = <<"1", "N">> /\ r.after = fw
        \/ r.bytes = <<"1", "Y">> /\ r.after = [fw EXCEPT !.mode = "permitted"]
    BY <1>9 DEF Replies
  <2>2. r.bytes \in Seq(Byte) /\ Len(r.bytes) = 2 /\ r.bytes[1] = "1"
    <3>1. PICK b \in {"N", "Y"} : r.bytes = <<"1", b>> BY <2>1
    <3>2. "1" \in Byte /\ b \in Byte BY BytesAre
    <3> QED BY <3>1, <3>2, BytesAre
  <2>3. r.after \in Firm /\ Does(p, r.after) BY <1>9, <2>1 DEF Firm, Does
  <2>4. fw.mode = "idle" => <<r.bytes[2], r.after.mode>> \in {<<"N", "idle">>, <<"Y", "permitted">>}
    BY <2>1 DEF Firm
  <2> QED BY <1>9, <2>2, <2>3, <2>4 DEF Apt
<1>10. CASE p.do \notin Commands \cup {"sync"}
  <2>1. r.bytes = <<>> /\ r.after = fw BY <1>10 DEF Replies, Commands
  <2>2. r.bytes \in Seq(Byte) BY <2>1
  <2>3. Does(p, r.after) BY <1>10, <2>1 DEF Does, Commands
  <2> QED BY <1>10, <2>1, <2>2, <2>3
<1>11. \/ p.do = "sync" \/ p.do = "features" \/ p.do \in {"rewind", "motor", "side", "high"}
       \/ p.do = "disk" \/ p.do = "seek" \/ p.do = "noclick" \/ p.do = "density" \/ p.do = "read"
       \/ p.do = "permit" \/ p.do \notin Commands \cup {"sync"}
  BY DEF Commands
<1> QED BY <1>1, <1>2, <1>3, <1>4, <1>5, <1>6, <1>7, <1>8, <1>9, <1>10, <1>11

(* And what one that is busy makes of it.                                  *)
LEMMA HandledIs ==
    ASSUME fw \in Firm, NEW p \in Todo, NEW r \in Handled(p)
    PROVE  /\ r.bytes \in Seq(Byte) /\ r.after \in Firm
           /\ fw.mode = "idle" => r \in Replies(p)
           /\ fw.mode = "stream" /\ p.do = "stop" => r.bytes = << "S" >> /\ r.after = [fw EXCEPT !.mode = "idle"]
           /\ fw.mode = "stream" /\ p.do = "sync" =>
                 r.bytes = <<"S", "V">> /\ r.after = [Powered EXCEPT !.cyl = fw.cyl]
           /\ fw.mode \in {"permitted", "data"} /\ p.do = "sync" => r.bytes = <<>> /\ r.after = fw
           /\ fw.mode = "permitted" /\ p.do = "ready" => r.bytes = << "!" >> /\ r.after = [fw EXCEPT !.mode = "data"]
           /\ fw.mode = "data" /\ p.do = "data" =>
                 /\ \E b \in {"1", "X", "Y", "Z"} : r.bytes = << b >>
                 /\ r.after = [fw EXCEPT !.mode = "idle"]
<1>1. fw.mode \in {"idle", "stream", "permitted", "data"} BY DEF Firm
<1>2. CASE fw.mode = "idle"
  <2>1. r \in Replies(p) BY <1>2 DEF Handled
  <2>2. r.bytes \in Seq(Byte) /\ r.after \in Firm BY <2>1, RepliesIs
  <2> QED BY <1>2, <2>1, <2>2
<1>3. CASE fw.mode = "stream"
  <2>1. \/ p.do = "stop" /\ r.bytes = << "S" >> /\ r.after = [fw EXCEPT !.mode = "idle"]
        \/ p.do = "sync" /\ r.bytes = <<"S", "V">> /\ r.after = [Powered EXCEPT !.cyl = fw.cyl]
        \/ p.do \notin {"stop", "sync"} /\ r.bytes = <<>> /\ r.after = fw
        \/ p.do \notin {"stop", "sync"} /\ r.bytes = << "s" >> /\ r.after = [fw EXCEPT !.mode = "idle"]
    BY <1>3 DEF Handled
  <2>2. r.bytes \in Seq(Byte)
    <3>1. "S" \in Byte /\ "s" \in Byte /\ "V" \in Byte BY BytesAre
    <3>2. <<>> \in Seq(Byte) OBVIOUS
    <3>3. << "S" >> \in Seq(Byte) /\ << "s" >> \in Seq(Byte) /\ <<"S", "V">> \in Seq(Byte) BY <3>1, BytesAre
    <3> QED BY <2>1, <3>2, <3>3, Zenon
  <2>3. r.after \in Firm BY <2>1, PoweredIs DEF Firm
  <2> QED BY <1>3, <2>1, <2>2, <2>3
<1>4. CASE fw.mode = "permitted"
  <2>1. \/ p.do = "ready" /\ r.bytes = << "!" >> /\ r.after = [fw EXCEPT !.mode = "data"]
        \/ p.do # "ready" /\ r.bytes = <<>> /\ r.after = fw
    BY <1>4 DEF Handled
  <2>2. r.bytes \in Seq(Byte)
    <3>1. "!" \in Byte /\ <<>> \in Seq(Byte) BY BytesAre
    <3>2. << "!" >> \in Seq(Byte) BY <3>1, BytesAre
    <3> QED BY <2>1, <3>1, <3>2, Zenon
  <2>3. r.after \in Firm BY <2>1 DEF Firm
  <2> QED BY <1>4, <2>1, <2>2, <2>3
<1>5. CASE fw.mode = "data"
  <2>1. \/ p.do = "data" /\ (\E b \in {"1", "X", "Y", "Z"} : r.bytes = << b >>) /\ r.after = [fw EXCEPT !.mode = "idle"]
        \/ p.do # "data" /\ r.bytes = <<>> /\ r.after = fw
    BY <1>5 DEF Handled
  <2>2. r.bytes \in Seq(Byte)
    <3>1. CASE \E b \in {"1", "X", "Y", "Z"} : r.bytes = << b >> BY <3>1, BytesAre
    <3>2. CASE r.bytes = <<>>
      <4>1. <<>> \in Seq(Byte) OBVIOUS
      <4> QED BY <3>2, <4>1
    <3> QED BY <2>1, <3>1, <3>2
  <2>3. r.after \in Firm BY <2>1 DEF Firm
  <2> QED BY <1>5, <2>1, <2>2, <2>3
<1> QED BY <1>1, <1>2, <1>3, <1>4, <1>5

LEMMA FirmwareIs ==
    ASSUME TypeOK, Firmware, NEW p, p = Head(wire)
    PROVE  /\ p \in Todo /\ wire' = Tail(wire) /\ wire' \in Seq(Todo) /\ outbox' \in Seq(Byte) /\ fw' \in Firm
           /\ \/ /\ \E r \in Handled(p) : outbox' = outbox \o r.bytes /\ fw' = r.after
                 /\ UNCHANGED trouble
              \/ /\ fw.mode = "idle" /\ p.do \notin {"sync", "disk"} /\ outbox' = Append(outbox, "0")
                 /\ trouble' = IF opened = "open" THEN trouble ELSE trouble \cup {"refused"}
                 /\ UNCHANGED fw
<1>1. p \in Todo /\ wire' \in Seq(Todo)
  <2>1. wire \in Seq(Todo) /\ wire # <<>> BY Typed DEF Firmware
  <2> QED BY <2>1, HeadTailProperties DEF Firmware
<1>2. outbox \in Seq(Byte) /\ fw \in Firm BY Typed
<1>3. CASE /\ \E r \in Handled(p) : outbox' = outbox \o r.bytes /\ fw' = r.after
           /\ UNCHANGED trouble
  <2>1. PICK r \in Handled(p) : outbox' = outbox \o r.bytes /\ fw' = r.after BY <1>3
  <2>2. r.bytes \in Seq(Byte) /\ r.after \in Firm BY <1>1, <1>2, HandledIs
  <2>3. outbox' \in Seq(Byte) BY <1>2, <2>1, <2>2, ConcatProperties
  <2> QED BY <1>1, <1>3, <2>1, <2>2, <2>3 DEF Firmware
<1>4. CASE /\ fw.mode = "idle" /\ p.do \notin {"sync", "disk"} /\ outbox' = Append(outbox, "0")
           /\ trouble' = IF opened = "open" THEN trouble ELSE trouble \cup {"refused"}
           /\ UNCHANGED fw
  <2>1. "0" \in Byte BY DEF Byte
  <2>2. outbox' \in Seq(Byte) BY <1>2, <1>4, <2>1, AppendProperties
  <2> QED BY <1>1, <1>2, <1>4, <2>2 DEF Firmware
<1> QED BY <1>3, <1>4, Zenon DEF Firmware

LEMMA TypeNext ==
    ASSUME DriverTyped', drv' \in DriveView, LinkTyped', fw' \in Firm, late' \in Nat, board' \in Boards
    PROVE  TypeOK'
BY DEF TypeOK
LEMMA DriverSame == ASSUME TypeOK, UNCHANGED <<opened, attempt, script, sent>> PROVE DriverTyped'
BY DEF TypeOK, DriverTyped, Idle, Now

LEMMA NotClosed == ASSUME ScriptOK(opened, script), ~Idle PROVE opened # "closed"
BY DEF ScriptOK, Idle

(* How many bytes an answer has.                                           *)
LEMMA AnswerLengthIs == AnswerLength \in {1, 2, 3}
<1>1. CASE Now = "disk" BY <1>1 DEF AnswerLength
<1>2. CASE Now \in {"features", "density", "permit"} /\ inbox # <<>> /\ inbox[1] = "1" BY <1>2 DEF AnswerLength
<1>3. CASE Now \in {"seek", "noclick"} /\ inbox # <<>> /\ inbox[1] = "1" BY <1>3 DEF AnswerLength
<1>4. CASE ~(\/ Now = "disk"
             \/ Now \in {"features", "density", "permit"} /\ inbox # <<>> /\ inbox[1] = "1"
             \/ Now \in {"seek", "noclick"} /\ inbox # <<>> /\ inbox[1] = "1")
  BY <1>4 DEF AnswerLength
<1> QED BY <1>1, <1>2, <1>3, <1>4

LEMMA AnswerReads ==
    ASSUME TypeOK, Answer
    PROVE  /\ inbox' \in Seq(Byte) /\ Dropped(AnswerLength)
           /\ \A i \in 1..AnswerLength : Link[i] = inbox[i]
           /\ Len(Link) >= AnswerLength
<1>1. PICK n \in {1, 2, 3} : n = AnswerLength BY AnswerLengthIs
<1>2. n \in Nat /\ n >= 1 /\ Len(inbox) >= n /\ inbox' = SubSeq(inbox, n + 1, Len(inbox)) /\ UNCHANGED outbox
  BY <1>1 DEF Answer
<1>3. inbox' \in Seq(Byte) /\ Dropped(n) /\ (\A i \in 1..n : Link[i] = inbox[i]) /\ Len(Link) >= n
  BY ONLY TypeOK, <1>2, DropN
<1> QED BY <1>1, <1>3

LEMMA DriverTypes == ASSUME TypeOK, ScriptOK(opened, script), Driver PROVE TypeOK'
<1>1. /\ drv \in DriveView /\ fw \in Firm /\ late \in Nat /\ LinkTyped /\ DriverTyped /\ board \in Boards
      /\ inbox \in Seq(Byte) /\ outbox \in Seq(Byte) /\ wire \in Seq(Todo)
  BY DEF TypeOK, LinkTyped
<1>2. <<>> \in Seq(Byte) /\ <<>> \in Seq(Todo) OBVIOUS
<1>3. CASE Skip
  <2>0. ~Idle /\ opened # "closed" BY <1>3, NotClosed DEF Skip
  <2>1. DriverTyped'
    <3>1. Then(<<>>) \/ Fail("failed") BY <1>3 DEF Skip
    <3> QED BY <1>2, <2>0, <3>1, ThenTyped, FailTyped
  <2>2. inbox' \in Seq(Byte) BY <1>1, <1>2, <1>3 DEF Skip
  <2>3. wire' \in Seq(Todo) /\ fw' \in Firm
    <3>1. (wire' = <<>> /\ fw' = [Powered EXCEPT !.cyl = fw.cyl]) \/ UNCHANGED <<wire, fw>> BY <1>3 DEF Skip
    <3> QED BY <1>1, <1>2, <3>1, PoweredIs
  <2>4. drv' \in DriveView
    <3>1. drv' = drv \/ drv' = [drv EXCEPT !.present = TRUE] BY <1>3 DEF Skip
    <3> QED BY <1>1, <3>1 DEF DriveView
  <2>5. UNCHANGED <<outbox, late, board>> BY <1>3 DEF Skip
  <2> QED BY <1>1, <2>1, <2>2, <2>3, <2>4, <2>5, TypeNext DEF LinkTyped
<1>4. CASE Send
  <2>1. script[1] \in Todo BY <1>4, First DEF Send
  <2>2. UNCHANGED <<opened, attempt, script, drv, outbox, inbox, fw, late, board>> /\ sent' = TRUE /\ ~Idle
    BY <1>4 DEF Send, historyVars
  <2>3. wire' \in Seq(Todo) BY <1>1, <1>4, <2>1, AppendProperties DEF Send
  <2>4. ~Local BY <1>4 DEF Send
  <2>5. DriverTyped' BY <1>1, <2>2, <2>4 DEF DriverTyped, Idle, Local, Now
  <2> QED BY <1>1, <2>2, <2>3, <2>5, TypeNext DEF LinkTyped
<1>5. CASE Answer
  <2>0. ~Idle /\ opened # "closed" BY <1>5, NotClosed DEF Answer
  <2>1. inbox' \in Seq(Byte) BY <1>5, AnswerReads
  <2>2. DriverTyped'
    <3>1. \/ Then(<<>>) \/ Fail("failed") \/ \E b \in BOOLEAN : Then(<<Step("high", b)>>)
      <4>1. PICK b \in BOOLEAN : b = (inbox[2] = "H") OBVIOUS
      <4>2. Then(IF Now = "density" THEN <<Step("high", b)>> ELSE <<>>) \/ Fail("failed")
        BY <1>5, <4>1 DEF Answer
      <4> QED BY <4>2
    <3>2. \A b \in BOOLEAN : <<Step("high", b)>> \in Seq(Todo)
      <4>1. \A b \in BOOLEAN : Step("high", b) \in Todo BY StepIs DEF Switches
      <4>2. \A q \in Todo : << q >> \in Seq(Todo) OBVIOUS
      <4> QED BY <4>1, <4>2
    <3> QED BY <1>2, <2>0, <3>1, <3>2, ThenTyped, FailTyped
  <2>3. drv' \in DriveView
    <3>1. drv' \in {drv, Recorded, [drv EXCEPT !.protected = TRUE]} BY <1>5 DEF Answer
    <3>2. Recorded \in DriveView BY <2>0, RecordedIs
    <3> QED BY <1>1, <3>1, <3>2 DEF DriveView
  <2>4. UNCHANGED <<wire, outbox, fw, late, board>> BY <1>5 DEF Answer
  <2> QED BY <1>1, <2>1, <2>2, <2>3, <2>4, TypeNext DEF LinkTyped
<1>6. CASE Scan
  <2>0. ~Idle /\ inbox # <<>> BY <1>6 DEF Scan
  <2>1. DriverTyped'
    <3>1. Then(<<>>) \/ UNCHANGED <<opened, attempt, script, sent>> BY <1>6 DEF Scan
    <3> QED BY <1>2, <2>0, <3>1, ThenTyped, DriverSame
  <2>2. inbox' \in Seq(Byte)
    <3>1. UNCHANGED outbox /\ (inbox' = <<>> \/ inbox' = Tail(inbox)) BY <1>6 DEF Scan
    <3> QED BY <1>2, <2>0, <3>1, DropOne
  <2>3. drv' \in DriveView
    <3>1. drv' = drv \/ drv' = [drv EXCEPT !.minor = board.minor, !.full = board.full] BY <1>6 DEF Scan
    <3>2. board.minor \in Nat /\ board.full \in BOOLEAN BY <1>1, DrawBridgeAssumption
    <3> QED BY <1>1, <3>1, <3>2 DEF DriveView
  <2>4. UNCHANGED <<wire, outbox, fw, late, board>> BY <1>6 DEF Scan
  <2> QED BY <1>1, <2>1, <2>2, <2>3, <2>4, TypeNext DEF LinkTyped
<1>7. CASE TakeStream
  <2>0. ~Idle /\ opened # "closed" BY <1>7, NotClosed DEF TakeStream
  <2>1. DriverTyped'
    <3>1. Then(<<>>) \/ Fail("failed") \/ UNCHANGED <<opened, attempt, script, sent>> BY <1>7 DEF TakeStream
    <3> QED BY <1>2, <2>0, <3>1, ThenTyped, FailTyped, DriverSame
  <2>2. inbox' \in Seq(Byte)
    <3>1. UNCHANGED outbox /\ (inbox' = inbox \/ (inbox # <<>> /\ inbox' = Tail(inbox)))
      BY <1>7 DEF TakeStream
    <3> QED BY <1>1, <3>1, DropOne
  <2>3. UNCHANGED <<drv, wire, outbox, fw, late, board>> BY <1>7 DEF TakeStream
  <2> QED BY <1>1, <2>1, <2>2, <2>3, TypeNext DEF LinkTyped
<1>8. CASE Deadline
  <2>0. ~Idle /\ opened # "closed" BY <1>8, NotClosed DEF Deadline, Reading
  <2>1. DriverTyped' BY <1>8, <2>0, FailTyped DEF Deadline
  <2>2. inbox' \in Seq(Byte) /\ late' \in Nat BY <1>1, <1>2, <1>8 DEF Deadline
  <2>3. UNCHANGED <<drv, wire, outbox, fw, board>> BY <1>8 DEF Deadline
  <2> QED BY <1>1, <2>1, <2>2, <2>3, TypeNext DEF LinkTyped
<1> QED BY <1>3, <1>4, <1>5, <1>6, <1>7, <1>8 DEF Driver

LEMMA TypeStep == ASSUME TypeOK, ScriptOK(opened, script), [Next]_vars PROVE TypeOK'
<1>1. /\ drv \in DriveView /\ fw \in Firm /\ late \in Nat /\ LinkTyped /\ DriverTyped /\ board \in Boards
      /\ inbox \in Seq(Byte) /\ outbox \in Seq(Byte) /\ wire \in Seq(Todo)
  BY DEF TypeOK, LinkTyped
<1>2. CASE Call
  <2>1. script' \in Seq(Todo)
    <3>1. \E s \in Scripts : script' = s.script BY <1>2 DEF Call
    <3> QED BY <3>1, ScriptsOK
  <2>2. Idle /\ UNCHANGED <<opened, attempt, sent, drv, wire, outbox, inbox, fw, late, board>>
    BY <1>2 DEF Call, linkVars, historyVars
  <2>3. DriverTyped' BY <1>1, <2>1, <2>2 DEF DriverTyped
  <2> QED BY <1>1, <2>2, <2>3, TypeNext DEF LinkTyped
<1>3. CASE Drop
  <2>1. script' \in Seq(Todo) BY <1>3, DropIs DEF Drop
  <2>2. Idle /\ opened' = "closing" /\ UNCHANGED <<attempt, sent, drv, wire, outbox, inbox, fw, late, board>>
    BY <1>3 DEF Drop, linkVars, historyVars
  <2>3. DriverTyped' BY <1>1, <2>1, <2>2 DEF DriverTyped
  <2> QED BY <1>1, <2>2, <2>3, TypeNext DEF LinkTyped
<1>4. CASE Driver BY <1>4, DriverTypes
<1>5. CASE Firmware
  <2>1. wire' \in Seq(Todo) /\ outbox' \in Seq(Byte) /\ fw' \in Firm BY <1>5, FirmwareIs
  <2>2. UNCHANGED <<opened, attempt, script, sent, drv, inbox, late, board>> BY <1>5 DEF Firmware, callVars
  <2> QED BY <1>1, <2>1, <2>2, DriverSame, TypeNext DEF LinkTyped
<1>6. CASE Stream
  <2>1. PICK b \in {"f", "i"} : outbox' = Append(outbox, b) BY <1>6 DEF Stream
  <2>2. b \in Byte BY BytesAre
  <2>3. outbox' \in Seq(Byte) BY <1>1, <2>1, <2>2, AppendProperties
  <2>4. UNCHANGED <<opened, attempt, script, sent, drv, inbox, wire, fw, late, board>>
    BY <1>6 DEF Stream, callVars, historyVars
  <2> QED BY <1>1, <2>3, <2>4, DriverSame, TypeNext DEF LinkTyped
<1>7. CASE Deliver
  <2>1. inbox' \in Seq(Byte) /\ outbox' \in Seq(Byte) BY <1>7, DeliverLink
  <2>2. UNCHANGED <<opened, attempt, script, sent, drv, wire, fw, late, board>>
    BY <1>7 DEF Deliver, callVars, historyVars
  <2> QED BY <1>1, <2>1, <2>2, DriverSame, TypeNext DEF LinkTyped
<1>8. CASE ChangeDisk \/ Closed \/ UNCHANGED vars
  <2>1. UNCHANGED <<opened, attempt, script, sent, drv, wire, outbox, inbox, fw, late, board>>
    BY <1>8 DEF ChangeDisk, Closed, vars, callVars, linkVars, historyVars
  <2> QED BY <1>1, <2>1, DriverSame, TypeNext DEF LinkTyped
<1> QED BY <1>2, <1>3, <1>4, <1>5, <1>6, <1>7, <1>8 DEF Next

LEMMA TypeInit == ASSUME Init PROVE TypeOK
<1>1. DriverTyped
  <2>1. OpenScript \in Seq(Todo) /\ OpenScript # <<>> BY OpenIs
  <2> QED BY <2>1 DEF Init, DriverTyped, Idle
<1>2. drv \in DriveView
  <2>1. PICK b \in BOOLEAN : b = (config.density = "High") OBVIOUS
  <2>2. drv = [motor |-> FALSE, cyl |-> 0, side |-> 0, present |-> FALSE, protected |-> FALSE,
               high |-> b, minor |-> 0, full |-> FALSE, detect |-> FALSE]
    BY <2>1 DEF Init
  <2> QED BY <2>2 DEF DriveView
<1>3. fw \in Firm
  <2>1. PICK m \in LeftModes, on \in BOOLEAN :
           fw = [mode |-> m, motor |-> on, cyl |-> 1, side |-> 1, high |-> TRUE]
    BY Zenon DEF Init
  <2>2. m \in {"idle", "stream", "permitted", "data"} BY DrawBridgeAssumption
  <2> QED BY <2>1, <2>2 DEF Firm
<1>4. LinkTyped
  <2>1. inbox = <<>> /\ wire = <<>> /\ outbox \in {<<>>, << "1" >>} BY DEF Init
  <2>2. <<>> \in Seq(Byte) /\ <<>> \in Seq(Todo) OBVIOUS
  <2>3. << "1" >> \in Seq(Byte)
    <3>1. "1" \in Byte BY BytesAre
    <3> QED BY <3>1, BytesAre
  <2> QED BY <2>1, <2>2, <2>3 DEF LinkTyped
<1> QED BY <1>1, <1>2, <1>3, <1>4 DEF Init, TypeOK

-----------------------------------------------------------------------------
(* Scripts, through the steps.                                             *)
LEMMA StepsOf ==
    ASSUME TypeOK, ~Idle, ScriptOK(opened, script)
    PROVE  /\ opened \in {"opening", "open", "closing"}
           /\ opened = "opening" => Now \in OpenSteps
           /\ opened = "open" => Now \in WorkSteps
           /\ opened = "closing" => Now = "motor" /\ Arg = FALSE
<1>1. script # <<>> /\ 1 \in DOMAIN script /\ Now = script[1].do /\ Arg = script[1].arg BY First
<1>2. opened \in {"opening", "open", "closing"} BY <1>1, Typed DEF ScriptOK
<1>3. Step("motor", FALSE).do = "motor" /\ Step("motor", FALSE).arg = FALSE BY StepIs DEF Switches
<1> QED BY <1>1, <1>2, <1>3 DEF ScriptOK

LEMMA ThenOK ==
    ASSUME TypeOK, ~Idle, ScriptOK(opened, script), Then(<<>>), Now = "range" => Arg < MaxCylinders
    PROVE  ScriptOK(opened, script)' /\ script' = Tail(script)
<1>1. script \in Seq(Todo) /\ script # <<>> /\ script[1].do = Now /\ script[1].arg = Arg BY First
<1>2. script' = Tail(script) BY NoneBefore, ThenIs
<1>3. opened \in {"opening", "open", "closing"} BY StepsOf
<1>4. CASE script' # <<>>
  <2>1. opened' = opened BY <1>4, ThenIs
  <2>2. PICK t : t = Tail(script) OBVIOUS
  <2>3. /\ Coupled(t) /\ Ranged(t) /\ Syncs(t)
        /\ \A i \in DOMAIN t : /\ opened = "opening" => t[i].do \in OpenSteps
                               /\ opened = "open" => t[i].do \in WorkSteps
                               /\ opened = "closing" => t[i] = Step("motor", FALSE)
                               /\ t[i].do = "pulse" => Ahead("sync", t)
    BY <1>1, <2>2, TailOK
  <2>4. ScriptOK(opened, t) BY <1>2, <1>3, <1>4, <2>2, <2>3 DEF ScriptOK
  <2> QED BY <1>2, <2>1, <2>2, <2>4
<1>5. CASE script' = <<>>
  <2>1. opened' \in {"open", "closed"} BY <1>5, ThenIs
  <2> QED BY <1>2, <1>5, <2>1, EmptyOK
<1> QED BY <1>4, <1>5

LEMMA HighThenOK ==
    ASSUME TypeOK, ~Idle, ScriptOK(opened, script), Now = "density", NEW b \in BOOLEAN,
           Then(<<Step("high", b)>>)
    PROVE  /\ ScriptOK(opened, script)' /\ opened = "open" /\ opened' = "open"
           /\ ~Idle' /\ Now' = "high" /\ Arg' = b
           /\ script' = <<Step("high", b)>> \o Tail(script)
<1>1. script \in Seq(Todo) /\ script # <<>> /\ script[1].do = Now BY First
<1>2. opened = "open" BY StepsOf DEF OpenSteps
<1>3. script' = <<Step("high", b)>> \o Tail(script) BY ThenIs
<1>4. script' # <<>> /\ script'[1] = Step("high", b) /\ ScriptOK("open", script')
  BY <1>1, <1>2, <1>3, HighOK
<1>5. opened' = "open" BY <1>2, <1>4, ThenIs
<1>6. Step("high", b).do = "high" /\ Step("high", b).arg = b BY StepIs DEF Switches
<1> QED BY <1>2, <1>3, <1>4, <1>5, <1>6 DEF Idle, Now, Arg

LEMMA FailOK ==
    ASSUME TypeOK, ~Idle, ScriptOK(opened, script), NEW result, Fail(result)
    PROVE  ScriptOK(opened, script)'
<1>1. opened \in {"opening", "open", "closing"} BY StepsOf
<1>2. Resyncs \/ (opened = "opening" /\ Now = "disk" /\ Then(<<>>)) \/ Ends BY <1>1, FailIs
<1>3. CASE Resyncs
  <2>1. script \in Seq(Todo) /\ script # <<>> /\ script[1].do = "sync" /\ ScriptOK("opening", script)
    BY <1>3, First DEF Resyncs
  <2>2. ScriptOK("opening", Resync \o Tail(script)) BY <2>1, ResyncOK
  <2> QED BY <1>3, <2>2 DEF Resyncs
<1>4. CASE Now = "disk" /\ Then(<<>>) BY <1>4, ThenOK
<1>5. CASE Ends BY <1>5, EmptyOK, DropOK DEF Ends
<1> QED BY <1>2, <1>3, <1>4, <1>5

LEMMA ScriptSteps ==
    ASSUME TypeOK, ScriptOK(opened, script), [Next]_vars PROVE ScriptOK(opened, script)'
<1>1. CASE Call
  <2>1. opened' = "open" /\ \E s \in Scripts : script' = s.script BY <1>1 DEF Call
  <2> QED BY <2>1, ScriptsOK
<1>2. CASE Drop BY <1>2, DropOK DEF Drop
<1>3. CASE Skip
  <2>1. ~Idle BY <1>3 DEF Skip
  <2>2. CASE Fail("failed") BY <2>1, <2>2, FailOK
  <2>3. CASE ~Fail("failed")
    <3>1. Then(<<>>) /\ ~(Now = "range" /\ Arg >= MaxCylinders) BY <1>3, <2>3 DEF Skip
    <3>2. Now = "range" => Arg < MaxCylinders
      <4>1. Now = "range" => Arg \in Nat BY <2>1, First DEF Switches
      <4> QED BY <3>1, <4>1 DEF MaxCylinders
    <3> QED BY <2>1, <3>1, <3>2, ThenOK
  <2> QED BY <2>2, <2>3
<1>4. CASE Answer
  <2>1. ~Idle /\ sent BY <1>4 DEF Answer
  <2>2. Now # "range" BY <2>1, Typed
  <2>3. PICK b \in BOOLEAN : b = (inbox[2] = "H") OBVIOUS
  <2>4. Then(IF Now = "density" THEN <<Step("high", b)>> ELSE <<>>) \/ Fail("failed")
    BY <1>4, <2>3 DEF Answer
  <2>5. CASE Now = "density" /\ Then(<<Step("high", b)>>) BY <2>1, <2>5, HighThenOK
  <2>6. CASE Then(<<>>) BY <2>1, <2>2, <2>6, ThenOK
  <2>7. CASE Fail("failed") BY <2>1, <2>7, FailOK
  <2> QED BY <2>4, <2>5, <2>6, <2>7
<1>5. CASE Scan
  <2>1. ~Idle /\ Now # "range" BY <1>5 DEF Scan, Scanning
  <2>2. Then(<<>>) \/ UNCHANGED <<opened, script>> BY <1>5 DEF Scan
  <2> QED BY <2>1, <2>2, ThenOK
<1>6. CASE TakeStream
  <2>1. ~Idle /\ Now # "range" BY <1>6 DEF TakeStream, Streamed
  <2>2. Then(<<>>) \/ Fail("failed") \/ UNCHANGED <<opened, script>> BY <1>6 DEF TakeStream
  <2> QED BY <2>1, <2>2, ThenOK, FailOK
<1>7. CASE Deadline
  <2>1. ~Idle /\ Fail("timeout") BY <1>7 DEF Deadline, Reading
  <2> QED BY <2>1, FailOK
<1>8. CASE Send \/ Firmware \/ Stream \/ Deliver \/ ChangeDisk \/ Closed \/ UNCHANGED vars
  <2>1. UNCHANGED <<opened, script>>
    BY <1>8 DEF Send, Firmware, Stream, Deliver, ChangeDisk, Closed, vars, callVars
  <2> QED BY <2>1
<1> QED BY <1>1, <1>2, <1>3, <1>4, <1>5, <1>6, <1>7, <1>8 DEF Next, Driver

(* What comes first in what is left.                                       *)
LEMMA NextStep ==
    ASSUME TypeOK, ~Idle, ScriptOK(opened, script), script' = Tail(script)
    PROVE  /\ Now = "read" => ~Idle' /\ Now' = "stream"
           /\ Now = "stream" => ~Idle' /\ Now' = "stop"
           /\ Now = "permit" => ~Idle' /\ Now' = "length"
           /\ Now = "length" => ~Idle' /\ Now' = "ready"
           /\ Now = "ready" => ~Idle' /\ Now' = "data"
           /\ Now \notin {"read", "stream", "permit", "length", "ready"} =>
                 Idle' \/ Now' \notin {"stream", "stop", "length", "ready", "data"}
<1> DEFINE s == script
           t == Tail(script)
<1>1. s # <<>> /\ 1 \in DOMAIN s /\ s \in Seq(Todo) /\ Now = s[1].do /\ Coupled(s)
  BY First DEF ScriptOK
<1>2. /\ t \in Seq(Todo) /\ DOMAIN t = 1..(Len(s) - 1) /\ Len(s) \in Nat \ {0} /\ DOMAIN s = 1..Len(s)
      /\ \A i \in DOMAIN t : i + 1 \in DOMAIN s /\ t[i] = s[i + 1]
  BY <1>1, TailIs
<1>3. script' = t /\ Now' = t[1].do /\ (Idle' <=> t = <<>>) BY DEF Now, Idle
<1> HIDE DEF s, t
<1>4. 2 \in DOMAIN s => 1 \in DOMAIN t /\ t[1] = s[2] /\ t # <<>>
  <2> SUFFICES ASSUME 2 \in DOMAIN s PROVE 1 \in DOMAIN t /\ t[1] = s[2] /\ t # <<>> OBVIOUS
  <2>1. 1 \in DOMAIN t /\ 1 + 1 = 2 BY <1>2
  <2>2. t[1] = s[2] BY <1>2, <2>1
  <2>3. DOMAIN <<>> = {} OBVIOUS
  <2>4. t # <<>> BY <2>1, <2>3
  <2> QED BY <2>1, <2>2, <2>4
<1>5. t # <<>> => 2 \in DOMAIN s
  <2> SUFFICES ASSUME t # <<>> PROVE 2 \in DOMAIN s OBVIOUS
  <2>1. 1 \in DOMAIN t /\ 1 + 1 = 2 BY <1>2, EmptySeq
  <2> QED BY <1>2, <2>1
<1>6. \A p \in Pairs :
        /\ Now = p[1] => 2 \in DOMAIN s /\ s[2].do = p[2]
        /\ 2 \in DOMAIN s /\ s[2].do = p[2] => Now = p[1]
  <2>1. 1 + 1 = 2 /\ 2 > 1 /\ 2 - 1 = 1 OBVIOUS
  <2> QED BY <1>1, <2>1 DEF Coupled
<1>7. \A p \in Pairs :
        /\ Now = p[1] => ~Idle' /\ Now' = p[2]
        /\ ~Idle' /\ Now' = p[2] => Now = p[1]
  BY <1>3, <1>4, <1>5, <1>6
<1>8. /\ <<"read", "stream">> \in Pairs /\ <<"stream", "stop">> \in Pairs /\ <<"permit", "length">> \in Pairs
      /\ <<"length", "ready">> \in Pairs /\ <<"ready", "data">> \in Pairs
  BY DEF Pairs
<1>9. /\ Now = "read" => ~Idle' /\ Now' = "stream"
      /\ Now = "stream" => ~Idle' /\ Now' = "stop"
      /\ Now = "permit" => ~Idle' /\ Now' = "length"
      /\ Now = "length" => ~Idle' /\ Now' = "ready"
      /\ Now = "ready" => ~Idle' /\ Now' = "data"
  BY <1>7, <1>8
<1>10. /\ ~Idle' /\ Now' = "stream" => Now = "read"
       /\ ~Idle' /\ Now' = "stop" => Now = "stream"
       /\ ~Idle' /\ Now' = "length" => Now = "permit"
       /\ ~Idle' /\ Now' = "ready" => Now = "length"
       /\ ~Idle' /\ Now' = "data" => Now = "ready"
  BY <1>7, <1>8
<1> QED BY <1>9, <1>10

-----------------------------------------------------------------------------
(* The driver's view, through the steps.                                   *)
NoMore == UNCHANGED <<config, board, fw>> /\ trouble \subseteq trouble'

LEMMA NoneAhead == \A x : ~Ahead(x, <<>>)
BY DEF Ahead

LEMMA ViewKept ==
    ASSUME NEW o, NEW d, NEW e, NEW s, View(o, d, s), SameView(e, d), NoMore
    PROVE  /\ o = "opening" => /\ e.motor = fw'.motor /\ e.side = fw'.side /\ e.cyl < MaxCylinders
                               /\ (config'.density # "High" => e.high = fw'.high) /\ ~e.motor /\ e.minor = board'.minor
                               /\ e.cyl = fw'.cyl \/ (e.cyl = 0 /\ Ahead("rewind", s))
           /\ o = "open" => /\ e.motor = fw'.motor /\ e.side = fw'.side /\ e.cyl < MaxCylinders
                            /\ (config'.density # "High" => e.high = fw'.high)
                            /\ e.cyl = fw'.cyl
           /\ o \in {"closing", "closed"} => "refused" \in trouble' \/ (fw'.motor => Ahead("motor", s))
BY DEF View, Agrees, SameView, NoMore

LEMMA ViewNext ==
    ASSUME View(opened, drv, script), SameView(drv', drv), NoMore, UNCHANGED <<opened, script>>
    PROVE  View(opened, drv, script)'
BY ViewKept DEF View, Agrees

LEMMA ThenView ==
    ASSUME TypeOK, ~Idle, ScriptOK(opened, script), Then(<<>>), NEW d, View(opened, d, Tail(script)),
           SameView(drv', d), NoMore
    PROVE  View(opened, drv, script)'
<1>1. script' = Tail(script) BY NoneBefore, ThenIs
<1>2. opened \in {"opening", "open", "closing"} BY StepsOf
<1>3. CASE script' # <<>>
  <2>1. opened' = opened BY <1>3, ThenIs
  <2>2. View(opened, d, script') BY <1>1
  <2>3. CASE opened = "opening"
    <3>1. /\ drv'.motor = fw'.motor /\ drv'.side = fw'.side /\ drv'.cyl < MaxCylinders
          /\ (config'.density # "High" => drv'.high = fw'.high) /\ ~drv'.motor /\ drv'.minor = board'.minor
          /\ drv'.cyl = fw'.cyl \/ (drv'.cyl = 0 /\ Ahead("rewind", script'))
      BY <2>2, <2>3, ViewKept
    <3> QED BY <2>1, <2>3, <3>1 DEF View, Agrees
  <2>4. CASE opened = "open"
    <3>1. /\ drv'.motor = fw'.motor /\ drv'.side = fw'.side /\ drv'.cyl < MaxCylinders
          /\ (config'.density # "High" => drv'.high = fw'.high)
          /\ drv'.cyl = fw'.cyl
      BY <2>2, <2>4, ViewKept
    <3> QED BY <2>1, <2>4, <3>1 DEF View, Agrees
  <2>5. CASE opened = "closing"
    <3>1. "refused" \in trouble' \/ (fw'.motor => Ahead("motor", script')) BY <2>2, <2>5, ViewKept
    <3> QED BY <2>1, <2>5, <3>1 DEF View
  <2> QED BY <1>2, <2>3, <2>4, <2>5
<1>4. CASE script' = <<>>
  <2>1. opened' = (IF opened = "closing" THEN "closed" ELSE "open") BY <1>4, ThenIs
  <2>2. ~Ahead("rewind", Tail(script)) BY <1>1, <1>4, NoneAhead
  <2>3. CASE opened = "closing"
    <3>1. "refused" \in trouble' \/ (fw'.motor => Ahead("motor", script')) BY <1>1, <2>3, ViewKept
    <3> QED BY <2>1, <2>3, <3>1 DEF View
  <2>4. CASE opened \in {"opening", "open"}
    <3>1. /\ drv'.motor = fw'.motor /\ drv'.side = fw'.side /\ drv'.cyl < MaxCylinders
          /\ (config'.density # "High" => drv'.high = fw'.high)
          /\ drv'.cyl = fw'.cyl
      BY <2>2, <2>4, ViewKept
    <3> QED BY <2>1, <2>4, <3>1 DEF View, Agrees
  <2> QED BY <1>2, <2>3, <2>4
<1> QED BY <1>3, <1>4

(* Steps that are not about motor or head leave it as it was.              *)
LEMMA TailView ==
    ASSUME TypeOK, ~Idle, NEW d, View(opened, d, script), Now \notin {"rewind", "motor"}
    PROVE  View(opened, d, Tail(script))
<1>1. script \in Seq(Todo) /\ script # <<>> /\ script[1].do = Now BY First
<1>2. /\ Ahead("rewind", script) => Ahead("rewind", Tail(script))
      /\ Ahead("motor", script) => Ahead("motor", Tail(script))
  BY <1>1, TailAhead
<1> QED BY <1>2 DEF View

LEMMA FailView ==
    ASSUME View(opened, drv, script), Ends, SameView(drv', drv), NoMore,
           opened = "closing" => "refused" \in trouble
    PROVE  View(opened, drv, script)'
<1>1. CASE opened = "opening"
  <2>1. ~fw'.motor BY <1>1, ViewKept
  <2>2. opened' \in {"closing", "closed"} BY <1>1 DEF Ends
  <2> QED BY <2>1, <2>2 DEF View
<1>2. CASE opened = "open"
  <2>1. /\ drv'.motor = fw'.motor /\ drv'.side = fw'.side /\ drv'.cyl < MaxCylinders
        /\ (config'.density # "High" => drv'.high = fw'.high)
        /\ drv'.cyl = fw'.cyl
    BY <1>2, ViewKept
  <2>2. opened' = "open" BY <1>2 DEF Ends
  <2> QED BY <2>1, <2>2 DEF View, Agrees
<1>3. CASE opened = "closing"
  <2>1. "refused" \in trouble' /\ opened' = "closed" BY <1>3 DEF Ends, NoMore
  <2> QED BY <2>1 DEF View
<1> QED BY <1>1, <1>2, <1>3 DEF Ends

(* What a command that is obeyed makes of it.                              *)
LEMMA ObeyView ==
    ASSUME TypeOK, ~Idle, ScriptOK(opened, script), View(opened, drv, script), Does(script[1], fw'),
           UNCHANGED <<config, board, trouble, opened, script, drv>>
    PROVE  View(opened, Doing(drv), Tail(script))'
<1>1. /\ script \in Seq(Todo) /\ script # <<>> /\ script[1].do = Now /\ script[1].arg = Arg /\ 1 \in DOMAIN script
      /\ drv \in DriveView
  BY First, Typed
<1>2. PICK e : e = Doing(drv) OBVIOUS
<1>3. /\ e.motor = IF Now = "motor" THEN Arg ELSE drv.motor
      /\ e.cyl = IF Now = "rewind" THEN 0 ELSE IF Now = "seek" THEN Arg ELSE drv.cyl
      /\ e.side = IF Now = "side" THEN Arg ELSE drv.side
      /\ e.high = IF Now = "high" THEN Arg ELSE drv.high
      /\ e.minor = drv.minor
  BY <1>1, <1>2, DoingIs
<1>4. /\ fw'.motor = IF Now = "motor" THEN Arg ELSE fw.motor
      /\ fw'.cyl = IF Now = "rewind" THEN 0 ELSE IF Now = "seek" THEN Arg ELSE fw.cyl
      /\ fw'.side = IF Now = "side" THEN Arg ELSE fw.side
      /\ fw'.high = IF Now = "high" THEN Arg ELSE fw.high
  BY <1>1 DEF Does
<1>5. Doing(drv)' = e /\ Tail(script)' = Tail(script)
  BY <1>2 DEF Doing, Now, Arg
<1>6. Now = "seek" => Arg < MaxCylinders BY <1>1 DEF ScriptOK, Ranged
<1>7. Ahead("rewind", script) /\ Now # "rewind" => Ahead("rewind", Tail(script)) BY <1>1, TailAhead
<1>8. CASE opened = "opening"
  <2>1. Now \notin {"motor", "seek", "side", "high"} BY <1>8, StepsOf DEF OpenSteps
  <2>2. Agrees(drv) /\ ~drv.motor /\ drv.minor = board.minor
        /\ (drv.cyl = fw.cyl \/ (drv.cyl = 0 /\ Ahead("rewind", script)))
    BY <1>8 DEF View
  <2>3. e.motor = fw'.motor /\ e.side = fw'.side /\ (config'.density # "High" => e.high = fw'.high)
        /\ ~e.motor /\ e.minor = board'.minor
    BY <1>3, <1>4, <2>1, <2>2 DEF Agrees
  <2>4. e.cyl < MaxCylinders BY <1>3, <2>1, <2>2 DEF Agrees, MaxCylinders
  <2>5. e.cyl = fw'.cyl \/ (e.cyl = 0 /\ Ahead("rewind", Tail(script)))
    BY <1>3, <1>4, <1>7, <2>1, <2>2
  <2> QED BY <1>5, <1>8, <2>3, <2>4, <2>5 DEF View, Agrees
<1>9. CASE opened = "open"
  <2>1. Agrees(drv) /\ drv.cyl = fw.cyl BY <1>9 DEF View
  <2>2. e.motor = fw'.motor /\ e.side = fw'.side /\ (config'.density # "High" => e.high = fw'.high)
    BY <1>3, <1>4, <2>1 DEF Agrees
  <2>3. e.cyl = fw'.cyl BY <1>3, <1>4, <2>1
  <2>4. e.cyl < MaxCylinders BY <1>3, <1>6, <2>1 DEF Agrees, MaxCylinders
  <2> QED BY <1>5, <1>9, <2>2, <2>3, <2>4 DEF View, Agrees
<1>10. CASE opened = "closing"
  <2>1. Now = "motor" /\ Arg = FALSE BY <1>10, StepsOf
  <2>2. ~fw'.motor BY <1>4, <2>1
  <2> QED BY <1>10, <2>2 DEF View
<1> QED BY <1>8, <1>9, <1>10, StepsOf

(* An exchange that is over, and the one that follows it.                  *)
LEMMA BeforeNext ==
    ASSUME ~Ahead("sync", script)', sent' = FALSE, wire' = <<>>, fw'.mode = Mode',
           IF Mode' = "stream" THEN FluxIn(Link', 0) ELSE Link' = <<>>, View(opened, drv, script)'
    PROVE  Exchange'
BY DEF Exchange, Before, FluxIn

LEMMA ModeIdle == ASSUME Idle \/ Now \notin {"stream", "stop", "length", "ready", "data"} PROVE Mode = "idle"
BY DEF Mode

LEMMA QuietNext ==
    ASSUME ~Ahead("sync", script)', sent' = FALSE, wire' = <<>>, fw'.mode = "idle", Link' = <<>>,
           Idle' \/ Now' \notin {"stream", "stop", "length", "ready", "data"}, View(opened, drv, script)'
    PROVE  Exchange'
<1>1. Mode' = "idle" BY DEF Mode
<1> QED BY <1>1, BeforeNext

LEMMA EndsNext ==
    ASSUME Ends
    PROVE  /\ ~Ahead("sync", script)'
           /\ Idle' \/ Now' \notin {"stream", "stop", "length", "ready", "data"}
<1>1. script' = <<>> \/ script' = DropScript BY DEF Ends
<1> QED BY <1>1, DropIs, DropOK, NoneAhead DEF Idle, Now

LEMMA NoSync ==
    ASSUME TypeOK, ~Idle, ~Ahead("sync", script)
    PROVE  Now # "sync" /\ ~Ahead("sync", Tail(script))
BY First, TailAhead DEF Ahead

(* Which exchange a step without one, or not sent yet, is in.              *)
LEMMA ForeignIs ==
    ASSUME TypeOK, ScriptOK(opened, script), Foreign
    PROVE  ~Idle /\ Now \in {"pulse", "purge", "sync"}
<1>1. ~Idle BY DEF ScriptOK, Foreign, Idle
<1>2. PICK j \in DOMAIN script : script[j].do = "sync" BY DEF Foreign, Ahead
<1>3. 1 \in DOMAIN script /\ script[1].do = Now /\ script \in Seq(Todo) BY <1>1, First
<1>4. j = 1 \/ 1 < j BY <1>3
<1> QED BY <1>1, <1>2, <1>3, <1>4 DEF ScriptOK, Syncs

LEMMA NotPulse ==
    ASSUME TypeOK, ~Idle, ScriptOK(opened, script), ~Ahead("sync", script) PROVE Now # "pulse"
BY First DEF ScriptOK

-----------------------------------------------------------------------------
(* The exchange, through the driver's steps.                               *)
LEMMA SkipForeign ==
    ASSUME TypeOK, ScriptOK(opened, script), Foreign, Skip PROVE Exchange'
<1>1. /\ ~Idle /\ Now \in {"pulse", "purge"} /\ ~sent /\ wire = <<>> /\ Unheard /\ opened = "opening"
      /\ Ahead("sync", script) /\ Ahead("rewind", script)
  BY ForeignIs DEF Foreign, Skip, Local
<1>2. Then(<<>>) /\ UNCHANGED <<drv, outbox, config>> BY <1>1 DEF Skip
<1>3. wire' = <<>> BY <1>1 DEF Skip
<1>4. script' = Tail(script) BY <1>1, <1>2, NoneBefore, ThenIs
<1>5. Ahead("sync", script') /\ Ahead("rewind", script')
  <2>1. script \in Seq(Todo) /\ script # <<>> /\ script[1].do = Now BY <1>1, First
  <2> QED BY <1>1, <1>4, <2>1, TailAhead
<1>6. script' # <<>> BY <1>5, NoneAhead
<1>7. sent' = FALSE /\ UNCHANGED <<opened, attempt>> BY <1>2, <1>6, ThenIs
<1>8. Unheard'
  <2>1. CASE Now = "purge"
    <3>1. inbox' = <<>> BY <2>1 DEF Skip
    <3>2. PICK n \in Nat : n = Len(inbox) BY LinkIs
    <3>3. inbox' \in Seq(Byte) /\ Len(inbox') = Len(inbox) - n
          /\ \A i \in 1..Len(inbox') : inbox'[i] = inbox[i + n]
      BY <3>1, <3>2
    <3>4. Dropped(n) BY <1>2, <3>3, DropFront
    <3>5. DOMAIN Link = 1..Len(Link) BY LinkIs
    <3> QED BY <1>1, <3>4, <3>5 DEF Dropped, Unheard
  <2>2. CASE Now = "pulse"
    <3>1. UNCHANGED <<inbox, outbox>> BY <2>2 DEF Skip
    <3> QED BY <1>1, <3>1 DEF Unheard, Link
  <2> QED BY <1>1, <2>1, <2>2
<1>9. attempt' = 2 => fw'.mode = "idle"
  <2>1. CASE Now = "purge"
    <3>1. UNCHANGED fw BY <2>1 DEF Skip
    <3> QED BY <1>7, <2>1, <3>1 DEF Foreign
  <2>2. CASE Now = "pulse"
    <3>1. fw' = [Powered EXCEPT !.cyl = fw.cyl] /\ fw \in Firm BY <2>2, Typed DEF Skip
    <3>2. PICK f : f = fw' OBVIOUS
    <3>3. f = [Powered EXCEPT !.cyl = fw.cyl] BY <3>1, <3>2
    <3> QED BY <3>1, <3>2, <3>3, PoweredIs
  <2> QED BY <1>1, <2>1, <2>2
<1>10. Foreign' BY <1>1, <1>2, <1>3, <1>5, <1>7, <1>8, <1>9 DEF Foreign
<1> QED BY <1>10 DEF Exchange

LEMMA SkipBefore ==
    ASSUME TypeOK, ScriptOK(opened, script), Before, Skip, "abandoned" \notin trouble' PROVE Exchange'
<1>1. /\ ~Idle /\ ~sent /\ Local /\ ~Ahead("sync", script) /\ wire = <<>> /\ fw.mode = Mode
      /\ View(opened, drv, script)
  BY DEF Skip, Before
<1>2. Now # "pulse" /\ Now # "sync" BY <1>1, NotPulse, NoSync
<1>3. /\ Now \in {"purge", "version", "range", "nothing", "encode", "length", "join", "features", "high"}
      /\ Mode = (IF Now = "length" THEN "permitted" ELSE "idle")
  BY <1>1, <1>2 DEF Local, Mode
<1>4. Link = <<>> BY <1>3 DEF Before
<1>5. /\ UNCHANGED <<config, board, wire, fw>> /\ trouble \subseteq trouble'
      /\ inbox' = <<>> /\ outbox' = <<>> /\ wire' = <<>>
  BY <1>1, <1>2, <1>4, LinkIs DEF Skip
<1>6. Link' = <<>> BY <1>5 DEF Link
<1>7. NoMore BY <1>5 DEF NoMore
<1>8. SameView(drv', drv)
  <2>1. drv \in DriveView /\ (drv' = drv \/ drv' = [drv EXCEPT !.present = TRUE]) BY Typed DEF Skip
  <2> QED BY <2>1 DEF SameView, DriveView
<1>9. CASE Then(<<>>)
  <2>1. script' = Tail(script) /\ sent' = FALSE BY <1>1, <1>9, NoneBefore, ThenIs
  <2>2. View(opened, drv, Tail(script)) BY <1>1, <1>3, TailView
  <2>3. View(opened, drv, script)' BY <1>1, <1>7, <1>8, <1>9, <2>2, ThenView
  <2>4. ~Ahead("sync", script)' BY <1>1, <2>1, NoSync
  <2>5. CASE Now = "length"
    <3>1. ~Idle' /\ Now' = "ready" BY <1>1, <2>1, <2>5, NextStep
    <3>2. Mode' = "permitted" BY <3>1 DEF Mode
    <3>3. fw'.mode = Mode' BY <1>1, <1>3, <1>5, <2>5, <3>2
    <3>4. IF Mode' = "stream" THEN FluxIn(Link', 0) ELSE Link' = <<>> BY <1>6, <3>2
    <3> QED BY <1>5, <2>1, <2>3, <2>4, <3>3, <3>4, BeforeNext
  <2>6. CASE Now # "length"
    <3>1. Idle' \/ Now' \notin {"stream", "stop", "length", "ready", "data"}
      BY <1>1, <1>3, <2>1, <2>6, NextStep
    <3>2. fw'.mode = "idle" BY <1>1, <1>3, <1>5, <2>6
    <3> QED BY <1>5, <1>6, <2>1, <2>3, <2>4, <3>1, <3>2, QuietNext
  <2> QED BY <2>5, <2>6
<1>10. CASE Fail("failed") /\ ~Then(<<>>)
  <2>1. Now \in {"version", "range", "encode", "length", "join"} BY <1>3, <1>10 DEF Skip
  <2>2. Now # "length" BY <1>10 DEF Skip
  <2>3. opened # "closed" /\ (opened = "closing" => Now = "motor") BY <1>1, StepsOf
  <2>4. Ends /\ sent' = FALSE BY <1>1, <1>10, <2>1, <2>3, FailIs DEF Resyncs
  <2>5. View(opened, drv, script)' BY <1>1, <1>7, <1>8, <2>1, <2>3, <2>4, FailView
  <2>6. fw'.mode = "idle" BY <1>1, <1>3, <1>5, <2>2
  <2> QED BY <1>5, <1>6, <2>4, <2>5, <2>6, EndsNext, QuietNext
<1> QED BY <1>9, <1>10 DEF Skip

LEMMA SendExchange ==
    ASSUME TypeOK, ScriptOK(opened, script), Exchange, Send PROVE Exchange'
<1>1. /\ ~Idle /\ ~sent /\ ~Local /\ ~Streamed /\ sent' = TRUE /\ wire' = Append(wire, script[1])
      /\ UNCHANGED <<config, opened, script, attempt, drv, inbox, outbox, board, fw, trouble>>
  BY DEF Send, historyVars
<1>2. Idle' = Idle /\ Now' = Now /\ (Local' <=> Local) /\ (Streamed' <=> Streamed) /\ Link' = Link /\ Mode' = Mode
  BY <1>1 DEF Idle, Now, Arg, Local, Streamed, Link, Mode
<1>3. wire = <<>> BY <1>1 DEF Exchange, Foreign, Before, Refused, After, Answered
<1>4. wire' = <<script'[1]>> BY <1>1, <1>3
<1>5. CASE Foreign
  <2>1. Now = "sync" BY <1>1, <1>5, ForeignIs DEF Local
  <2>2. Unheard' BY <1>1, <1>2, <1>5 DEF Foreign, Unheard
  <2>3. Foreign' BY <1>1, <1>2, <1>4, <1>5, <2>1, <2>2 DEF Foreign
  <2> QED BY <2>3 DEF Exchange
<1>6. CASE Before
  <2>1. View(opened, drv, script)'
    <3>1. SameView(drv', drv) /\ NoMore BY <1>1 DEF SameView, NoMore
    <3> QED BY <1>1, <1>6, <3>1, ViewNext DEF Before
  <2>2. IF Mode' = "stream" THEN FluxIn(Link', 0) ELSE Link' = <<>> BY <1>2, <1>6 DEF Before
  <2>3. fw'.mode = Mode' BY <1>1, <1>2, <1>6 DEF Before
  <2>4. ~Ahead("sync", script)' BY <1>1, <1>6 DEF Before
  <2>5. Before' BY <1>1, <1>2, <1>4, <2>1, <2>2, <2>3, <2>4 DEF Before
  <2> QED BY <2>5 DEF Exchange
<1> QED BY <1>1, <1>5, <1>6 DEF Exchange, Refused, After, Answered

(* sync_version, and the end of read_stream.                               *)
LEMMA ScanForeign ==
    ASSUME TypeOK, ScriptOK(opened, script), Foreign, Scan PROVE Exchange'
<1>1. /\ ~Idle /\ sent /\ Now = "sync" /\ inbox # <<>> /\ opened = "opening"
      /\ Ahead("sync", script) /\ Ahead("rewind", script)
      /\ UNCHANGED <<config, wire, outbox, board, fw, trouble>>
  BY DEF Foreign, Scan
<1>2. Len(inbox) \in Nat /\ Len(inbox) # 0 /\ 1 \in 1..Len(inbox) BY LinkIs, <1>1
<1>3. /\ Link[1] = inbox[1] /\ DOMAIN Link = 1..Len(Link) /\ Len(Link) \in Nat /\ Len(Link) >= 1
      /\ Len(Link) = Len(inbox) + Len(outbox) /\ 1 \in DOMAIN Link /\ Len(outbox) \in Nat
  <2>1. Link[1] = inbox[1] BY <1>2, LinkIs
  <2>2. /\ DOMAIN Link = 1..Len(Link) /\ Len(Link) \in Nat
        /\ Len(Link) = Len(inbox) + Len(outbox) /\ Len(outbox) \in Nat
    BY LinkIs
  <2> QED BY <1>2, <2>1, <2>2
<1>4. CASE inbox[1] = "V"
  <2>1. ~Unheard BY <1>3, <1>4 DEF Unheard
  <2>2. Heard /\ wire = <<>> BY <1>1, <2>1 DEF Foreign
  <2>3. Len(Link) = 1
    <3>1. ~(1 \in 1..(Len(Link) - 1)) BY <1>3, <1>4, <2>2 DEF Heard
    <3> QED BY <1>3, <3>1
  <2>4. outbox = <<>>
    <3>1. PICK a \in Nat, b \in Nat, c \in Nat : a = Len(inbox) /\ b = Len(outbox) /\ c = Len(Link) BY LinkIs
    <3>2. c = a + b /\ a # 0 /\ c = 1 BY <1>2, <1>3, <2>3, <3>1
    <3>3. b = 0 BY ONLY a \in Nat, b \in Nat, c \in Nat, <3>2
    <3>4. Len(outbox) = 0 BY <3>1, <3>3
    <3> QED BY <3>4, LinkIs
  <2>5. inbox' = <<>> /\ Then(<<>>) /\ drv' = [drv EXCEPT !.minor = board.minor, !.full = board.full]
    BY <1>1, <1>4 DEF Scan
  <2>6. Link' = <<>> BY <1>1, <2>4, <2>5 DEF Link
  <2>7. script \in Seq(Todo) /\ script # <<>> /\ script[1].do = Now BY <1>1, First
  <2>8. script' = Tail(script) /\ sent' = FALSE BY <1>1, <2>5, NoneBefore, ThenIs
  <2>9. ~Ahead("sync", script)' /\ Ahead("rewind", script)'
    <3>1. ~Ahead("sync", Tail(script)) BY <1>1, <2>7, TailOK
    <3>2. Ahead("rewind", Tail(script)) BY <1>1, <2>7, TailAhead
    <3> QED BY <2>8, <3>1, <3>2
  <2>10. opened' = "opening"
    <3>1. script' # <<>> BY <2>9, NoneAhead
    <3> QED BY <1>1, <2>5, <3>1, ThenIs
  <2>11. View(opened, drv, script)'
    <3>1. /\ drv'.motor = drv.motor /\ drv'.side = drv.side /\ drv'.high = drv.high /\ drv'.cyl = drv.cyl
          /\ drv'.minor = board.minor
      BY <2>5, Typed DEF DriveView
    <3>2. ~drv.motor /\ drv.cyl = 0 /\ drv.side = 0 /\ (config.density # "High" => ~drv.high) BY DEF Foreign
    <3>3. ~fw.motor /\ fw.side = 0 /\ ~fw.high BY <2>2 DEF Heard
    <3>4. drv.motor \in BOOLEAN /\ fw.motor \in BOOLEAN /\ drv.high \in BOOLEAN /\ fw.high \in BOOLEAN
      BY Typed DEF DriveView, Firm
    <3>5. drv.motor = fw.motor /\ (config.density # "High" => drv.high = fw.high) BY <3>2, <3>3, <3>4
    <3>6. Agrees(drv)' BY <1>1, <3>1, <3>2, <3>3, <3>5 DEF Agrees, MaxCylinders
    <3> QED BY <1>1, <2>9, <2>10, <3>1, <3>2, <3>6 DEF View
  <2>12. Idle' \/ Now' \notin {"stream", "stop", "length", "ready", "data"} BY <1>1, <2>8, NextStep
  <2>13. fw'.mode = "idle" /\ wire' = <<>> BY <1>1, <2>2 DEF Heard
  <2> QED BY <2>6, <2>8, <2>9, <2>11, <2>12, <2>13, QuietNext
<1>5. CASE inbox[1] # "V"
  <2>1. inbox' = Tail(inbox) /\ UNCHANGED <<drv, opened, script, sent, attempt>> BY <1>1, <1>5 DEF Scan
  <2>2. Dropped(1) BY <1>1, <2>1, DropOne
  <2>3. Len(Link') = Len(Link) - 1 /\ DOMAIN Link' = 1..Len(Link')
        /\ \A i \in 1..Len(Link') : i + 1 \in 1..Len(Link) /\ Link'[i] = Link[i + 1]
    BY <2>2 DEF Dropped
  <2>4. Unheard => Unheard' BY <1>3, <2>3 DEF Unheard
  <2>5. ASSUME Heard PROVE Heard'
    <3>1. Len(Link) # 1 BY <1>3, <1>5, <2>5 DEF Heard
    <3>2. Len(Link') >= 1 /\ Len(Link') \in 1..Len(Link') /\ Len(Link') + 1 = Len(Link) BY <1>3, <2>3, <3>1
    <3>3. Link'[Len(Link')] = "V" BY <2>3, <2>5, <3>2 DEF Heard
    <3>4. ASSUME NEW i \in 1..(Len(Link') - 1) PROVE Link'[i] # "V"
      <4>1. i \in 1..Len(Link') /\ i + 1 \in 1..(Len(Link) - 1) BY <1>3, <2>3, <3>2
      <4> QED BY <2>3, <2>5, <4>1 DEF Heard
    <3> QED BY <1>1, <2>5, <3>2, <3>3, <3>4 DEF Heard
  <2>6. Now' = Now BY <2>1 DEF Now
  <2>7. Foreign' BY <1>1, <2>1, <2>4, <2>5, <2>6 DEF Foreign
  <2> QED BY <2>7 DEF Exchange
<1> QED BY <1>4, <1>5

LEMMA ScanExchange ==
    ASSUME TypeOK, ScriptOK(opened, script), Exchange, ~Foreign, Scan PROVE Exchange'
<1>1. /\ ~Idle /\ sent /\ Now = "stop" /\ inbox # <<>> /\ ~Ahead("sync", script)
      /\ UNCHANGED <<config, wire, outbox, board, fw, trouble>>
  <2>1. ~Ahead("sync", script) BY DEF Exchange, Before, Refused, After, Answered
  <2>2. ~Idle /\ sent /\ Now \in {"sync", "stop"} /\ inbox # <<>> BY DEF Scan, Scanning
  <2> QED BY <2>1, <2>2, NoSync DEF Scan
<1>2. Len(inbox) \in Nat /\ Len(inbox) # 0 /\ 1 \in 1..Len(inbox) BY LinkIs, <1>1
<1>3. Link[1] = inbox[1] /\ DOMAIN Link = 1..Len(Link) /\ Len(Link) \in Nat /\ Len(Link) >= 1
  <2>1. Link[1] = inbox[1] BY <1>2, LinkIs
  <2>2. /\ DOMAIN Link = 1..Len(Link) /\ Len(Link) \in Nat
        /\ Len(Link) = Len(inbox) + Len(outbox) /\ Len(outbox) \in Nat
    BY LinkIs
  <2> QED BY <1>2, <2>1, <2>2
<1>4. Mode = "stream" BY <1>1 DEF Mode
<1>5. Doing(drv) = drv BY <1>1 DEF Doing
<1>6. NoMore /\ SameView(drv, drv) BY <1>1 DEF NoMore, SameView
<1>7. ASSUME inbox' = Tail(inbox), UNCHANGED <<drv, opened, script, sent, attempt>>
      PROVE  /\ Len(Link') = Len(Link) - 1 /\ DOMAIN Link' = 1..Len(Link')
             /\ \A i \in 1..Len(Link') : i + 1 \in 1..Len(Link) /\ Link'[i] = Link[i + 1]
             /\ Idle' = Idle /\ Now' = Now /\ (Local' <=> Local) /\ (Streamed' <=> Streamed) /\ Mode' = Mode
  <2>1. Dropped(1) BY <1>1, <1>7, DropOne
  <2>2. Idle' = Idle /\ Now' = Now /\ (Local' <=> Local) /\ (Streamed' <=> Streamed) /\ Mode' = Mode
    BY <1>7 DEF Idle, Now, Arg, Local, Streamed, Mode
  <2> QED BY <2>1, <2>2 DEF Dropped
<1>8. CASE Before
  <2>1. FluxIn(Link, 0) /\ fw.mode = "stream" BY <1>4, <1>8 DEF Before
  <2>2. inbox[1] # "S" BY <1>3, <2>1 DEF FluxIn
  <2>3. inbox' = Tail(inbox) /\ UNCHANGED <<drv, opened, script, sent, attempt>> BY <1>1, <2>2 DEF Scan
  <2>4. /\ Len(Link') = Len(Link) - 1 /\ DOMAIN Link' = 1..Len(Link')
        /\ \A i \in 1..Len(Link') : i + 1 \in 1..Len(Link) /\ Link'[i] = Link[i + 1]
        /\ Idle' = Idle /\ Now' = Now /\ (Local' <=> Local) /\ (Streamed' <=> Streamed) /\ Mode' = Mode
    BY <1>7, <2>3
  <2>5. FluxIn(Link', 0) BY <1>3, <2>1, <2>4 DEF FluxIn
  <2>6. View(opened, drv, script)' BY <1>6, <1>8, <2>3, ViewNext DEF Before
  <2>7. Before' BY <1>1, <1>4, <1>8, <2>1, <2>3, <2>4, <2>5, <2>6 DEF Before
  <2> QED BY <2>7 DEF Exchange
<1>9. CASE After
  <2>1. /\ Len(Link) >= 1 /\ Link[Len(Link)] = "S" /\ fw.mode = "idle"
        /\ \A i \in 1..(Len(Link) - 1) : Link[i] \in {"f", "i"}
        /\ View(opened, drv, Tail(script)) /\ wire = <<>>
    BY <1>1, <1>5, <1>9 DEF After, Apt, Answered
  <2>2. CASE inbox[1] = "S"
    <3>1. Len(Link) = 1
      <4>1. ~(1 \in 1..(Len(Link) - 1)) BY <1>3, <2>1, <2>2
      <4> QED BY <1>3, <4>1
    <3>2. outbox = <<>>
      <4>1. Len(outbox) = 0 BY <1>2, <3>1, LinkIs
      <4> QED BY <4>1, LinkIs
    <3>3. inbox' = <<>> /\ drv' = drv /\ Then(<<>>) BY <1>1, <2>2 DEF Scan
    <3>4. Link' = <<>> BY <1>1, <3>2, <3>3 DEF Link
    <3>5. script' = Tail(script) /\ sent' = FALSE BY <1>1, <3>3, NoneBefore, ThenIs
    <3>6. View(opened, drv, script)' BY <1>1, <1>6, <2>1, <3>3, ThenView
    <3>7. ~Ahead("sync", script)' BY <1>1, <3>5, NoSync
    <3>8. Idle' \/ Now' \notin {"stream", "stop", "length", "ready", "data"} BY <1>1, <3>5, NextStep
    <3>9. wire' = <<>> /\ fw'.mode = "idle" BY <1>1, <2>1
    <3> QED BY <3>4, <3>5, <3>6, <3>7, <3>8, <3>9, QuietNext
  <2>3. CASE inbox[1] # "S"
    <3>1. inbox' = Tail(inbox) /\ UNCHANGED <<drv, opened, script, sent, attempt>> BY <1>1, <2>3 DEF Scan
    <3>2. /\ Len(Link') = Len(Link) - 1 /\ DOMAIN Link' = 1..Len(Link')
          /\ \A i \in 1..Len(Link') : i + 1 \in 1..Len(Link) /\ Link'[i] = Link[i + 1]
          /\ Idle' = Idle /\ Now' = Now /\ (Local' <=> Local) /\ (Streamed' <=> Streamed) /\ Mode' = Mode
      BY <1>7, <3>1
    <3>3. Len(Link) # 1 BY <1>3, <2>1, <2>3
    <3>4. Len(Link') >= 1 /\ Len(Link') \in 1..Len(Link') /\ Len(Link') + 1 = Len(Link) BY <1>3, <3>2, <3>3
    <3>5. Link'[Len(Link')] = "S" BY <2>1, <3>2, <3>4
    <3>6. ASSUME NEW i \in 1..(Len(Link') - 1) PROVE Link'[i] \in {"f", "i"}
      <4>1. i \in 1..Len(Link') /\ i + 1 \in 1..(Len(Link) - 1) BY <1>3, <3>2, <3>4
      <4> QED BY <2>1, <3>2, <4>1
    <3>7. Apt(Now', Link', fw'.mode) BY <1>1, <2>1, <3>2, <3>4, <3>5, <3>6 DEF Apt
    <3>8. View(opened, Doing(drv), Tail(script))'
      <4>1. Doing(drv)' = drv' BY <1>1, <3>2 DEF Doing
      <4>2. Tail(script)' = Tail(script) BY <3>1
      <4>3. opened' = opened /\ drv' = drv BY <3>1
      <4> QED BY <1>1, <2>1, <4>1, <4>2, <4>3 DEF View, Agrees
    <3>9. Answered' BY <1>1, <1>9, <3>1, <3>2 DEF After, Answered
    <3>10. After' BY <3>7, <3>8, <3>9 DEF After
    <3> QED BY <3>10 DEF Exchange
  <2> QED BY <2>2, <2>3
<1> QED BY <1>4, <1>8, <1>9 DEF Exchange, Refused

(* The loop of read_stream.                                                *)
LEMMA NotStreamed ==
    ASSUME TypeOK, ScriptOK(opened, script), Exchange, ~Idle, Now = "stream"
    PROVE  /\ Before /\ ~sent /\ wire = <<>> /\ FluxIn(Link, 0) /\ fw.mode = "stream" /\ opened = "open"
           /\ ~Ahead("sync", script)
<1>1. ~Foreign BY ForeignIs
<1>2. Before /\ ~sent BY <1>1 DEF Exchange, Before, Refused, After, Answered, Streamed
<1>3. Mode = "stream" BY DEF Mode
<1>4. opened = "open" BY StepsOf DEF OpenSteps
<1> QED BY <1>2, <1>3, <1>4 DEF Before

LEMMA TakeStreamExchange ==
    ASSUME TypeOK, ScriptOK(opened, script), Exchange, TakeStream, "abandoned" \notin trouble' PROVE Exchange'
<1>1. ~Idle /\ Now = "stream" BY DEF TakeStream, Streamed
<1>2. Before /\ ~sent /\ wire = <<>> /\ FluxIn(Link, 0) /\ fw.mode = "stream" /\ ~Ahead("sync", script)
  BY <1>1, NotStreamed
<1>3. /\ inbox # <<>> /\ inbox' = Tail(inbox) /\ UNCHANGED <<config, board, drv, wire, outbox, fw, trouble>>
      /\ Then(<<>>) \/ UNCHANGED <<opened, script, sent, attempt>>
  BY DEF TakeStream
<1>4. NoMore /\ SameView(drv', drv) BY <1>3 DEF NoMore, SameView
<1>5. FluxIn(Link', 0)
  <2>1. Dropped(1) BY <1>3, DropOne
  <2>2. DOMAIN Link = 1..Len(Link) BY LinkIs
  <2> QED BY <1>2, <2>1, <2>2 DEF Dropped, FluxIn
<1>6. CASE Then(<<>>)
  <2>1. script' = Tail(script) /\ sent' = FALSE BY <1>1, <1>6, NoneBefore, ThenIs
  <2>2. ~Idle' /\ Now' = "stop" BY <1>1, <2>1, NextStep
  <2>3. Mode' = "stream" BY <2>2 DEF Mode
  <2>4. View(opened, drv, Tail(script)) BY <1>1, <1>2, TailView DEF Before
  <2>5. View(opened, drv, script)' BY <1>1, <1>4, <1>6, <2>4, ThenView
  <2>6. ~Ahead("sync", script)' BY <1>1, <1>2, <2>1, NoSync
  <2>7. wire' = <<>> /\ fw'.mode = Mode' BY <1>2, <1>3, <2>3
  <2> QED BY <1>5, <2>1, <2>3, <2>5, <2>6, <2>7, BeforeNext
<1>7. CASE UNCHANGED <<opened, script, sent, attempt>>
  <2>1. Mode' = "stream" BY <1>1, <1>7 DEF Mode, Idle, Now
  <2>2. View(opened, drv, script)' BY <1>2, <1>4, <1>7, ViewNext DEF Before
  <2>3. ~Ahead("sync", script)' /\ sent' = FALSE /\ wire' = <<>> /\ fw'.mode = Mode'
    BY <1>1, <1>2, <1>3, <1>7, <2>1, Typed
  <2> QED BY <1>5, <2>1, <2>2, <2>3, BeforeNext
<1> QED BY <1>3, <1>6, <1>7

(* read_byte: an answer that is all on the line, or a refusal.             *)
LEMMA AptIs ==
    ASSUME TypeOK, ~Idle, NEW l, NEW m, Apt(Now, l, m), inbox # <<>>, l[1] = inbox[1], Now # "sync"
    PROVE  /\ Now \notin {"read", "stop"} => AnswerLength = Len(l)
           /\ Now = "read" => AnswerLength = 1
<1>1. CASE Now = "disk" BY <1>1 DEF Apt, AnswerLength
<1>2. CASE Now \in {"features", "density", "permit"} BY <1>2 DEF Apt, AnswerLength
<1>3. CASE Now \in {"seek", "noclick"}
  <2>1. \/ Len(l) = 3 /\ inbox[1] = "1"
        \/ Len(l) = 1 /\ inbox[1] = "2"
    BY <1>3 DEF Apt
  <2> QED BY <1>3, <2>1 DEF AnswerLength
<1>4. CASE Now \notin {"disk", "features", "density", "permit", "seek", "noclick"}
  <2>1. AnswerLength = 1 BY <1>4 DEF AnswerLength
  <2>2. Now \notin {"read", "stop"} => Len(l) = 1 BY <1>4 DEF Apt
  <2> QED BY <2>1, <2>2
<1> QED BY <1>1, <1>2, <1>3, <1>4

(* Only a write is turned down by an answer that came in step.             *)
LEMMA AptAccepted ==
    ASSUME NEW l, NEW m, Apt(Now, l, m), l[1] = inbox[1], Now # "read" /\ Len(l) = 2 => l[2] = inbox[2],
           Now \notin {"sync", "stop"}
    PROVE  /\ ~Accepted => Now \in {"permit", "data"} /\ m = "idle"
           /\ Accepted /\ Now = "permit" => m = "permitted"
           /\ Now = "read" => m = "stream"
           /\ Now = "ready" => m = "data"
           /\ Now \notin {"read", "permit", "ready"} => m = "idle"
<1>1. CASE Now = "permit" BY <1>1 DEF Apt, Accepted
<1>2. CASE Now = "data" BY <1>2 DEF Apt, Accepted
<1>3. CASE Now \in {"read", "ready"} BY <1>3 DEF Apt, Accepted
<1>4. CASE Now = "density" BY <1>4 DEF Apt, Accepted
<1>5. CASE Now \in {"disk", "features"} BY <1>5 DEF Apt, Accepted
<1>6. CASE Now \in {"seek", "noclick"} BY <1>6 DEF Apt, Accepted
<1>7. CASE Now \notin {"permit", "data", "read", "ready", "density", "disk", "features", "seek", "noclick"}
  BY <1>7 DEF Apt, Accepted
<1> QED BY <1>1, <1>2, <1>3, <1>4, <1>5, <1>6, <1>7

LEMMA AnswerKind ==
    ASSUME TypeOK, ScriptOK(opened, script), Exchange, Answer
    PROVE  /\ Refused \/ After
           /\ Answered /\ ~Idle /\ Now \notin {"sync", "stop", "stream"} /\ ~Ahead("sync", script)
           /\ opened \in {"opening", "open", "closing"}
           /\ inbox # <<>> /\ Link[1] = inbox[1] /\ Len(inbox) \in Nat /\ Len(Link) \in Nat
           /\ inbox' \in Seq(Byte) /\ Dropped(AnswerLength) /\ Len(Link) >= AnswerLength
           /\ \A i \in 1..AnswerLength : Link[i] = inbox[i]
           /\ UNCHANGED <<config, wire, outbox, board, fw, trouble>>
<1>1. ~Idle /\ sent /\ Now \notin {"sync", "stop"} /\ inbox # <<>> BY DEF Answer, Scanning
<1>2. ~Foreign BY <1>1 DEF Foreign
<1>3. ~Before
  <2> SUFFICES ASSUME Before PROVE FALSE OBVIOUS
  <2>1. Now # "stream" BY <1>1 DEF Before, Streamed
  <2>2. Mode # "stream" BY <1>1, <2>1 DEF Mode
  <2>3. Link = <<>> BY <2>2 DEF Before
  <2> QED BY <1>1, <2>3, LinkIs
<1>4. Refused \/ After BY <1>2, <1>3 DEF Exchange
<1>5. Answered BY <1>4 DEF Refused, After
<1>6. Link[1] = inbox[1] /\ Len(inbox) \in Nat /\ Len(Link) \in Nat
  <2>1. Len(inbox) \in Nat /\ Len(inbox) # 0 /\ Len(Link) \in Nat BY <1>1, LinkIs
  <2>2. 1 \in 1..Len(inbox) BY <2>1
  <2> QED BY <2>1, <2>2, LinkIs
<1>7. Now # "stream" /\ ~Ahead("sync", script) BY <1>5 DEF Answered, Streamed
<1>8. opened \in {"opening", "open", "closing"} BY <1>1, StepsOf
<1>9. /\ inbox' \in Seq(Byte) /\ Dropped(AnswerLength) /\ Len(Link) >= AnswerLength
      /\ \A i \in 1..AnswerLength : Link[i] = inbox[i]
  BY AnswerReads
<1>10. UNCHANGED <<config, wire, outbox, board, fw, trouble>> BY DEF Answer
<1> QED BY <1>1, <1>4, <1>5, <1>6, <1>7, <1>8, <1>9, <1>10

LEMMA RefusedAnswer ==
    ASSUME TypeOK, ScriptOK(opened, script), Exchange, Answer, Refused
    PROVE  Exchange' /\ Ends /\ ("refused" \in trouble' \/ opened = "open")
<1>1. /\ Answered /\ ~Idle /\ Now \notin {"sync", "stop", "stream"} /\ inbox # <<>> /\ Link[1] = inbox[1]
      /\ opened \in {"opening", "open", "closing"}
      /\ inbox' \in Seq(Byte) /\ Dropped(AnswerLength)
      /\ UNCHANGED <<config, wire, outbox, board, fw, trouble>>
  BY AnswerKind
<1>2. /\ Len(Link) = 1 /\ inbox[1] = "0" /\ Now # "disk" /\ fw.mode = "idle" /\ wire = <<>>
      /\ View(opened, drv, script) /\ (opened = "open" \/ "refused" \in trouble)
  BY <1>1 DEF Refused, Answered
<1>3. AnswerLength = 1 BY <1>2 DEF AnswerLength
<1>4. ~Accepted BY <1>2 DEF Accepted
<1>5. Fail("failed") /\ drv' = drv BY <1>2, <1>4 DEF Answer
<1>6. Ends /\ sent' = FALSE BY <1>1, <1>2, <1>5, FailIs DEF Resyncs
<1>7. Link' = <<>>
  <2>1. PICK n \in Nat : n = 1 OBVIOUS
  <2>2. Dropped(n) /\ Len(Link) = n /\ UNCHANGED outbox BY <1>1, <1>2, <1>3, <2>1
  <2> QED BY <1>1, <2>2, AllRead
<1>8. View(opened, drv, script)'
  <2>1. NoMore /\ SameView(drv', drv) BY <1>1, <1>5 DEF NoMore, SameView
  <2> QED BY <1>2, <1>6, <2>1, FailView
<1>9. wire' = <<>> /\ fw'.mode = "idle" /\ ("refused" \in trouble' \/ opened = "open") BY <1>1, <1>2
<1> QED BY <1>6, <1>7, <1>8, <1>9, EndsNext, QuietNext

LEMMA AfterAnswer ==
    ASSUME TypeOK, ScriptOK(opened, script), Exchange, Answer, After
    PROVE  Exchange' /\ (~Accepted => opened = "open")
<1>1. /\ Answered /\ ~Idle /\ Now \notin {"sync", "stop", "stream"} /\ inbox # <<>> /\ Link[1] = inbox[1]
      /\ ~Ahead("sync", script) /\ inbox' \in Seq(Byte) /\ Dropped(AnswerLength)
      /\ \A i \in 1..AnswerLength : Link[i] = inbox[i]
      /\ UNCHANGED <<config, wire, outbox, board, fw, trouble>>
  BY AnswerKind
<1>2. Apt(Now, Link, fw.mode) /\ View(opened, Doing(drv), Tail(script)) /\ wire = <<>>
  BY DEF After, Answered
<1>3. /\ Now # "read" => AnswerLength = Len(Link)
      /\ Now = "read" => AnswerLength = 1
  BY <1>1, <1>2, AptIs
<1>4. Now # "read" /\ Len(Link) = 2 => Link[2] = inbox[2] BY <1>1, <1>3
<1>5. /\ ~Accepted => Now \in {"permit", "data"} /\ fw.mode = "idle"
      /\ Accepted /\ Now = "permit" => fw.mode = "permitted"
      /\ Now = "read" => fw.mode = "stream"
      /\ Now = "ready" => fw.mode = "data"
      /\ Now \notin {"read", "permit", "ready"} => fw.mode = "idle"
  BY <1>1, <1>2, <1>4, AptAccepted
<1>6. Recorded \in DriveView /\ SameView(Recorded, Doing(drv)) /\ Doing(drv) \in DriveView
  BY <1>1, RecordedIs, DoingIs, Typed
<1>7. NoMore BY <1>1 DEF NoMore
<1>8. Now # "read" => Link' = <<>>
  <2> SUFFICES ASSUME Now # "read" PROVE Link' = <<>> OBVIOUS
  <2>1. PICK n \in Nat : n = Len(Link) BY LinkIs
  <2>2. Dropped(n) /\ Len(Link) = n /\ UNCHANGED outbox BY <1>1, <1>3, <2>1
  <2> QED BY <1>1, <2>2, AllRead
<1>9. ~Ahead("sync", Tail(script)) BY <1>1, NoSync
<1>10. CASE Accepted /\ Now # "density"
  <2>1. drv' = Recorded /\ Then(<<>>) BY <1>10 DEF Answer
  <2>2. script' = Tail(script) /\ sent' = FALSE BY <1>1, <2>1, NoneBefore, ThenIs
  <2>3. View(opened, drv, script)' BY <1>1, <1>2, <1>6, <1>7, <2>1, ThenView
  <2>4. ~Ahead("sync", script)' /\ wire' = <<>> BY <1>1, <1>2, <1>9, <2>2
  <2>5. CASE Now = "read"
    <3>1. ~Idle' /\ Now' = "stream" BY <1>1, <2>2, <2>5, NextStep
    <3>2. Mode' = "stream" BY <3>1 DEF Mode
    <3>3. fw'.mode = Mode' BY <1>1, <1>5, <2>5, <3>2
    <3>4. FluxIn(Link', 0)
      <4>1. FluxIn(Link, 1) /\ Dropped(1) BY <1>1, <1>2, <1>3, <2>5 DEF Apt
      <4>2. DOMAIN Link = 1..Len(Link) BY LinkIs
      <4> QED BY <4>1, <4>2 DEF Dropped, FluxIn
    <3> QED BY <2>2, <2>3, <2>4, <3>2, <3>3, <3>4, <1>10, BeforeNext
  <2>6. CASE Now \in {"permit", "ready"}
    <3>1. ~Idle' /\ Now' = (IF Now = "permit" THEN "length" ELSE "data") BY <1>1, <2>2, <2>6, NextStep
    <3>2. Mode' = (IF Now = "permit" THEN "permitted" ELSE "data") BY <2>6, <3>1 DEF Mode
    <3>3. fw'.mode = Mode' BY <1>1, <1>5, <1>10, <2>6, <3>2
    <3>4. IF Mode' = "stream" THEN FluxIn(Link', 0) ELSE Link' = <<>> BY <1>8, <2>6, <3>2
    <3> QED BY <2>2, <2>3, <2>4, <3>3, <3>4, <1>10, BeforeNext
  <2>7. CASE Now \notin {"read", "permit", "ready"}
    <3>1. Now # "length" BY <1>1 DEF Answered, Local
    <3>2. Idle' \/ Now' \notin {"stream", "stop", "length", "ready", "data"} BY <1>1, <2>2, <2>7, <3>1, NextStep
    <3>3. fw'.mode = "idle" /\ Link' = <<>> BY <1>1, <1>5, <1>8, <2>7
    <3> QED BY <2>2, <2>3, <2>4, <3>2, <3>3, <1>10, QuietNext
  <2> QED BY <1>10, <2>5, <2>6, <2>7
<1>11. CASE Accepted /\ Now = "density"
  <2>1. PICK b \in BOOLEAN : b = (inbox[2] = "H") OBVIOUS
  <2>2. drv' = Recorded /\ Then(<<Step("high", b)>>) BY <1>11, <2>1 DEF Answer
  <2>3. opened = "open" /\ opened' = "open" /\ Now' = "high" /\ ScriptOK(opened, script)'
    BY <1>1, <1>11, <2>2, HighThenOK
  <2>4. sent' = FALSE BY <2>2, ThenIs
  <2>5. View(opened, drv, script)'
    <3>1. View("open", Doing(drv), Tail(script)) BY <1>2, <2>3
    <3>2. /\ drv'.motor = fw'.motor /\ drv'.side = fw'.side /\ drv'.cyl < MaxCylinders
          /\ (config'.density # "High" => drv'.high = fw'.high)
          /\ drv'.cyl = fw'.cyl
      BY <1>6, <1>7, <2>2, <3>1, ViewKept
    <3> QED BY <2>3, <3>2 DEF View, Agrees
  <2>6. ~Ahead("sync", script)' BY <2>3 DEF ScriptOK, Ahead, WorkSteps
  <2>7. fw'.mode = "idle" /\ Link' = <<>> /\ wire' = <<>> BY <1>1, <1>2, <1>5, <1>8, <1>11
  <2> QED BY <2>3, <2>4, <2>5, <2>6, <2>7, <1>11, QuietNext
<1>12. CASE ~Accepted
  <2>1. Now \in {"permit", "data"} /\ fw.mode = "idle" BY <1>5, <1>12
  <2>2. opened = "open" BY <1>1, <2>1, StepsOf DEF OpenSteps
  <2>3. Fail("failed") /\ drv' \in {drv, [drv EXCEPT !.protected = TRUE]} BY <1>12 DEF Answer
  <2>4. Ends /\ sent' = FALSE BY <1>1, <2>2, <2>3, FailIs DEF Resyncs
  <2>5. SameView(drv', drv) BY <2>3, Typed DEF SameView, DriveView
  <2>6. View(opened, drv, script)
    <3>1. Doing(drv) = drv BY <2>1 DEF Doing
    <3> QED BY <1>2, <2>2, <3>1 DEF View
  <2>7. View(opened, drv, script)' BY <1>7, <2>2, <2>4, <2>5, <2>6, FailView
  <2>8. fw'.mode = "idle" /\ Link' = <<>> /\ wire' = <<>> BY <1>1, <1>2, <1>8, <2>1
  <2>9. Exchange' BY <2>4, <2>7, <2>8, EndsNext, QuietNext
  <2> QED BY <2>2, <2>9
<1> QED BY <1>10, <1>11, <1>12

(* Until the firmware was heard a deadline leads to the reset pulse; after *)
(* that nothing but a late answer passes one.                              *)
LEMMA DeadlineExchange ==
    ASSUME TypeOK, ScriptOK(opened, script), Exchange, Deadline, late = 0, late' = 0, "abandoned" \notin trouble'
    PROVE  Exchange' /\ (Resyncs \/ (Now = "disk" /\ Then(<<>>)))
<1>1. /\ ~Idle /\ sent /\ ~Streamed /\ wire = <<>> /\ outbox = <<>> /\ Len(inbox) < AnswerLength
      /\ Fail("timeout") /\ inbox' = <<>>
      /\ UNCHANGED <<config, drv, wire, outbox, board, fw, trouble>>
  <2>1. ~Streamed BY DEF Deadline
  <2>2. ~UnderWay BY <2>1 DEF Deadline
  <2> QED BY <2>1, <2>2 DEF Deadline, Reading, UnderWay
<1>2. Len(inbox) \in Nat /\ Len(Link) = Len(inbox) /\ Len(Link) \in Nat
  <2>1. PICK a \in Nat, b \in Nat, c \in Nat : a = Len(inbox) /\ b = Len(outbox) /\ c = Len(Link) /\ c = a + b
    BY LinkIs
  <2>2. b = 0 BY <1>1, <2>1
  <2> QED BY <2>1, <2>2
<1>3. ASSUME Len(Link) >= 1 PROVE inbox # <<>> /\ Link[1] = inbox[1]
  <2>1. 1 \in 1..Len(inbox) BY <1>2, <1>3
  <2> QED BY <1>2, <1>3, <2>1, LinkIs
<1>4. Link' = <<>> BY <1>1 DEF Link
<1>5. ~Before BY <1>1 DEF Before
<1>6. ~Refused
  <2> SUFFICES ASSUME Refused PROVE FALSE OBVIOUS
  <2>1. Len(Link) = 1 /\ inbox # <<>> /\ inbox[1] = "0" /\ Now # "disk" BY <1>3 DEF Refused
  <2>2. AnswerLength = 1 BY <2>1 DEF AnswerLength
  <2> QED BY <1>1, <1>2, <2>1, <2>2
<1>7. ~After
  <2> SUFFICES ASSUME After PROVE FALSE OBVIOUS
  <2>1. Apt(Now, Link, fw.mode) /\ Now # "sync" BY <1>1, NoSync DEF After, Answered
  <2>2. Len(Link) >= 1
    <3>1. CASE Now = "stop" BY <2>1, <3>1 DEF Apt
    <3>2. CASE Now = "read" BY <2>1, <3>2 DEF Apt
    <3>3. CASE Now \in {"permit", "ready", "data", "disk", "density", "features"} BY <2>1, <3>3 DEF Apt
    <3>4. CASE Now \in {"seek", "noclick"} BY <2>1, <3>4 DEF Apt
    <3>5. CASE Now \notin {"stop", "read", "permit", "ready", "data", "disk", "density", "features", "seek", "noclick"}
      BY <2>1, <3>5 DEF Apt
    <3> QED BY <3>1, <3>2, <3>3, <3>4, <3>5
  <2>3. inbox # <<>> /\ Link[1] = inbox[1] BY <1>3, <2>2
  <2>4. /\ Now \notin {"read", "stop"} => AnswerLength = Len(Link)
        /\ Now = "read" => AnswerLength = 1
    BY <1>1, <2>1, <2>3, AptIs
  <2>5. Now = "stop" => AnswerLength = 1 BY DEF AnswerLength
  <2> QED BY <1>1, <1>2, <2>2, <2>4, <2>5
<1>8. Foreign BY <1>5, <1>6, <1>7 DEF Exchange
<1>9. Now = "sync" /\ attempt = 1 /\ opened = "opening"
  <2>1. Now = "sync" /\ opened = "opening" BY <1>1, <1>8 DEF Foreign
  <2>2. AnswerLength = 1 BY <2>1 DEF AnswerLength
  <2>3. Len(Link) = 0 BY <1>1, <1>2, <2>2
  <2>4. ~Heard BY <2>3 DEF Heard
  <2> QED BY <1>1, <1>8, <2>1, <2>4 DEF Foreign
<1>10. Resyncs /\ sent' = FALSE BY <1>1, <1>9, FailIs DEF Ends
<1>11. script \in Seq(Todo) /\ script # <<>> /\ ScriptOK("opening", script) /\ script[1].do = "sync"
       /\ Ahead("rewind", script)
  BY <1>1, <1>8, <1>9, First DEF Foreign
<1>12. /\ (Resync \o Tail(script))[1].do = "pulse"
       /\ Ahead("sync", Resync \o Tail(script)) /\ Ahead("rewind", Resync \o Tail(script))
  BY <1>11, ResyncOK
<1>13. opened' = "opening" /\ script' = Resync \o Tail(script) /\ attempt' = 2 BY <1>10 DEF Resyncs
<1>14. Now' = "pulse" /\ Ahead("sync", script)' /\ Ahead("rewind", script)' BY <1>12, <1>13 DEF Now
<1>15. Unheard' BY <1>4 DEF Unheard
<1>16. wire' = <<>> /\ sent' = FALSE BY <1>1, <1>10
<1>17. /\ ~drv'.motor /\ drv'.cyl = 0 /\ drv'.side = 0 /\ (config'.density # "High" => ~drv'.high)
  BY <1>1, <1>8 DEF Foreign
<1>18. Foreign' BY <1>13, <1>14, <1>15, <1>16, <1>17 DEF Foreign
<1> QED BY <1>10, <1>18 DEF Exchange

-----------------------------------------------------------------------------
(* The firmware's steps.                                                   *)
LEMMA FirmwareSame ==
    ASSUME TypeOK, Firmware
    PROVE  /\ UNCHANGED <<config, board, opened, script, sent, attempt, drv, inbox>>
           /\ Idle' = Idle /\ Now' = Now /\ Arg' = Arg /\ (Local' <=> Local) /\ (Streamed' <=> Streamed) /\ Mode' = Mode
           /\ Doing(drv)' = Doing(drv)
<1>1. UNCHANGED <<config, board, opened, script, sent, attempt, drv, inbox>> BY DEF Firmware, callVars
<1>2. Idle' = Idle /\ Now' = Now /\ Arg' = Arg BY <1>1 DEF Idle, Now, Arg
<1> QED BY <1>1, <1>2 DEF Local, Streamed, Mode, Doing

LEMMA FirmwareForeign ==
    ASSUME TypeOK, ScriptOK(opened, script), Foreign, Firmware PROVE Exchange'
<1>1. /\ wire # <<>> /\ ~Idle
      /\ UNCHANGED <<config, board, opened, script, sent, attempt, drv, inbox>> /\ Now' = Now
  BY ForeignIs, FirmwareSame DEF Firmware
<1>2. sent /\ Now = "sync" /\ wire = <<script[1]>> /\ Unheard BY <1>1 DEF Foreign
<1>3. PICK p : p = Head(wire) OBVIOUS
<1>4. p = script[1] /\ p.do = "sync" /\ Tail(wire) = <<>>
  <2>1. PICK q : q = script[1] OBVIOUS
  <2>2. Head(<< q >>) = q /\ Tail(<< q >>) = <<>> OBVIOUS
  <2> QED BY <1>2, <1>3, <2>1, <2>2 DEF Now
<1>5. p \in Todo /\ wire' = <<>> /\ outbox' \in Seq(Byte)
  BY <1>3, <1>4, FirmwareIs
<1>6. PICK r \in Handled(p) : outbox' = outbox \o r.bytes /\ fw' = r.after BY <1>3, <1>4, FirmwareIs
<1>7. fw \in Firm /\ DOMAIN Link = 1..Len(Link) /\ Len(Link) \in Nat BY Typed, LinkIs
<1>8. r.bytes \in Seq(Byte) /\ Adds(r.bytes)
  <2>1. r.bytes \in Seq(Byte) BY <1>5, <1>7, HandledIs
  <2> QED BY <1>1, <1>6, <2>1, Answers
<1>9. ASSUME NEW n \in {1, 2}, Len(r.bytes) = n, r.bytes[n] = "V", n = 2 => r.bytes[1] # "V",
             r.after = [Powered EXCEPT !.cyl = fw.cyl]
      PROVE  Exchange'
  <2>1. /\ Len(Link') = Len(Link) + n /\ DOMAIN Link' = 1..Len(Link')
        /\ \A i \in 1..Len(Link) : Link'[i] = Link[i]
        /\ \A i \in 1..n : Link'[i + Len(Link)] = r.bytes[i]
    BY <1>8, <1>9 DEF Adds
  <2>2. Len(Link') >= 1 /\ n \in 1..n /\ n + Len(Link) = Len(Link') BY <1>7, <2>1
  <2>3. Link'[Len(Link')] = "V" BY <1>9, <2>1, <2>2
  <2>4. ASSUME NEW i \in 1..(Len(Link') - 1) PROVE Link'[i] # "V"
    <3>1. CASE i \in 1..Len(Link) BY <1>2, <1>7, <2>1, <3>1 DEF Unheard
    <3>2. CASE i \notin 1..Len(Link)
      <4>1. n = 2 /\ i = 1 + Len(Link) /\ 1 \in 1..n BY <1>7, <2>1, <3>2
      <4> QED BY <1>9, <2>1, <4>1
    <3> QED BY <3>1, <3>2
  <2>5. fw'.mode = "idle" /\ ~fw'.motor /\ fw'.side = 0 /\ ~fw'.high
    <3>1. PICK f : f = r.after OBVIOUS
    <3>2. f.mode = "idle" /\ ~f.motor /\ f.side = 0 /\ ~f.high BY <1>7, <1>9, <3>1, PoweredIs
    <3> QED BY <1>6, <3>1, <3>2
  <2>6. Heard' BY <2>2, <2>3, <2>4, <2>5 DEF Heard
  <2>7. Foreign' BY <1>1, <1>2, <1>5, <2>5, <2>6 DEF Foreign
  <2> QED BY <2>7 DEF Exchange
<1>10. CASE fw.mode = "idle"
  <2>1. r.bytes = << "V" >> /\ r.after = [Powered EXCEPT !.cyl = fw.cyl]
    <3>1. r \in Replies(p) BY <1>5, <1>7, <1>10, HandledIs
    <3> QED BY <1>4, <1>5, <1>7, <3>1, RepliesIs
  <2>2. Len(r.bytes) = 1 /\ r.bytes[1] = "V" BY <2>1
  <2> QED BY <1>9, <2>1, <2>2
<1>11. CASE fw.mode = "stream"
  <2>1. r.bytes = <<"S", "V">> /\ r.after = [Powered EXCEPT !.cyl = fw.cyl] BY <1>4, <1>5, <1>7, <1>11, HandledIs
  <2>2. Len(r.bytes) = 2 /\ r.bytes[1] = "S" /\ r.bytes[2] = "V" BY <2>1
  <2> QED BY <1>9, <2>1, <2>2
<1>12. CASE fw.mode \in {"permitted", "data"}
  <2>1. r.bytes = <<>> /\ r.after = fw BY <1>4, <1>5, <1>7, <1>12, HandledIs
  <2>2. Unheard'
    <3>1. Len(r.bytes) = 0 BY <2>1
    <3>2. Len(Link') = Len(Link) /\ DOMAIN Link' = 1..Len(Link') /\ \A i \in 1..Len(Link) : Link'[i] = Link[i]
      BY <1>7, <1>8, <3>1 DEF Adds
    <3> QED BY <1>2, <1>7, <3>2 DEF Unheard
  <2>3. attempt # 2 BY <1>2, <1>12 DEF Foreign
  <2>4. attempt' = 1 BY <1>1, <2>3, Typed
  <2>5. Foreign' BY <1>1, <1>2, <1>5, <2>2, <2>4 DEF Foreign
  <2> QED BY <2>5 DEF Exchange
<1> QED BY <1>7, <1>10, <1>11, <1>12 DEF Firm

LEMMA FirmwareExchange ==
    ASSUME TypeOK, ScriptOK(opened, script), Before, Firmware PROVE Exchange'
<1>1. /\ UNCHANGED <<config, board, opened, script, sent, attempt, drv, inbox>>
      /\ Idle' = Idle /\ Now' = Now /\ Arg' = Arg /\ (Local' <=> Local) /\ (Streamed' <=> Streamed) /\ Mode' = Mode
      /\ Doing(drv)' = Doing(drv)
  BY FirmwareSame
<1>2. /\ sent /\ ~Idle /\ ~Local /\ ~Streamed /\ wire = <<script[1]>> /\ ~Ahead("sync", script)
      /\ fw.mode = Mode /\ (IF Mode = "stream" THEN FluxIn(Link, 0) ELSE Link = <<>>)
      /\ View(opened, drv, script)
  BY DEF Before, Firmware
<1>3. PICK p : p = Head(wire) OBVIOUS
<1>4. p = script[1] /\ p.do = Now /\ p \in Todo /\ Tail(wire) = <<>> /\ Now # "sync"
  <2>1. PICK q : q = script[1] OBVIOUS
  <2>2. Head(<< q >>) = q /\ Tail(<< q >>) = <<>> OBVIOUS
  <2> QED BY <1>2, <1>3, <2>1, <2>2, First, NoSync
<1>5. wire' = <<>> /\ outbox' \in Seq(Byte)
  BY <1>3, <1>4, FirmwareIs
<1>6. fw \in Firm /\ DOMAIN Link = 1..Len(Link) /\ Len(Link) \in Nat BY Typed, LinkIs
<1>7. Answered' BY <1>1, <1>2, <1>5 DEF Answered
<1>8. CASE fw.mode = "idle" /\ p.do \notin {"sync", "disk"} /\ outbox' = Append(outbox, "0") /\ UNCHANGED fw
           /\ trouble' = IF opened = "open" THEN trouble ELSE trouble \cup {"refused"}
  <2>1. Link = <<>> /\ Mode = "idle" BY <1>2, <1>8
  <2>2. Adds(<< "0" >>)
    <3>1. "0" \in Byte BY BytesAre
    <3> QED BY <1>1, <1>8, <3>1, AnswersOne
  <2>3. Len(Link') = 1 /\ Link'[1] = "0"
    <3>1. Len(<< "0" >>) = 1 /\ << "0" >>[1] = "0" /\ 1 \in 1..1 OBVIOUS
    <3>2. Len(Link) = 0 BY <2>1
    <3> QED BY <2>2, <3>1, <3>2 DEF Adds
  <2>4. View(opened, drv, script)'
    <3>1. trouble \subseteq trouble' BY <1>8
    <3>2. NoMore /\ SameView(drv', drv) BY <1>1, <1>8, <3>1 DEF NoMore, SameView
    <3> QED BY <1>1, <1>2, <3>2, ViewNext
  <2>5. opened' = "open" \/ "refused" \in trouble' BY <1>1, <1>8
  <2>6. Now' # "disk" /\ Mode' = "idle" /\ fw'.mode = "idle" BY <1>1, <1>4, <1>8, <2>1
  <2>7. Refused' BY <1>7, <2>3, <2>4, <2>5, <2>6 DEF Refused
  <2> QED BY <2>7 DEF Exchange
<1>9. CASE (\E r \in Handled(p) : outbox' = outbox \o r.bytes /\ fw' = r.after) /\ UNCHANGED trouble
  <2>1. PICK r \in Handled(p) : outbox' = outbox \o r.bytes /\ fw' = r.after BY <1>9
  <2>2. r.bytes \in Seq(Byte) /\ Adds(r.bytes)
    <3>1. r.bytes \in Seq(Byte) BY <1>4, <1>6, HandledIs
    <3> QED BY <1>1, <2>1, <3>1, Answers
  <2>3. ASSUME Link = <<>> PROVE Link' = r.bytes
    <3>1. inbox = <<>> /\ outbox = <<>> BY <2>3, LinkIs
    <3>2. inbox' \o outbox' = <<>> \o (<<>> \o r.bytes) BY <1>1, <2>1, <3>1
    <3>3. <<>> \o r.bytes = r.bytes BY <2>2, ConcatEmptySeq
    <3> QED BY <3>2, <3>3 DEF Link
  <2>4. ASSUME Now \in {"stop", "ready", "data"}, fw'.motor = fw.motor, fw'.cyl = fw.cyl, fw'.side = fw.side,
               fw'.high = fw.high
        PROVE  View(opened, Doing(drv), Tail(script))'
    <3>1. Doing(drv)' = drv BY <1>1, <2>4 DEF Doing
    <3>2. View(opened, drv, Tail(script)) BY <1>2, <2>4, TailView
    <3>3. Tail(script)' = Tail(script) BY <1>1
    <3>4. UNCHANGED <<opened, config, board, trouble, drv>> BY <1>1, <1>9
    <3> QED BY <2>4, <3>1, <3>2, <3>3, <3>4 DEF View, Agrees
  <2>5. CASE Now = "stop"
    <3>1. Mode = "stream" BY <1>2, <2>5 DEF Mode
    <3>2. r.bytes = << "S" >> /\ r.after = [fw EXCEPT !.mode = "idle"] BY <1>2, <1>4, <1>6, <2>5, <3>1, HandledIs
    <3>3. FluxIn(Link, 0) BY <1>2, <3>1
    <3>4. /\ Len(Link') = Len(Link) + 1 /\ \A i \in 1..Len(Link) : Link'[i] = Link[i]
          /\ Link'[1 + Len(Link)] = "S"
      <4>1. Len(r.bytes) = 1 /\ r.bytes[1] = "S" /\ 1 \in 1..1 BY <3>2
      <4> QED BY <2>2, <4>1 DEF Adds
    <3>5. Len(Link') >= 1 /\ Link'[Len(Link')] = "S" BY <1>6, <3>4
    <3>6. ASSUME NEW i \in 1..(Len(Link') - 1) PROVE Link'[i] \in {"f", "i"}
      <4>1. i \in 1..Len(Link) /\ i > 0 BY <1>6, <3>4
      <4> QED BY <1>6, <3>3, <3>4, <4>1 DEF FluxIn
    <3>7. /\ fw'.mode = "idle" /\ fw'.motor = fw.motor /\ fw'.cyl = fw.cyl /\ fw'.side = fw.side
          /\ fw'.high = fw.high
      BY <1>6, <2>1, <3>2 DEF Firm
    <3>8. View(opened, Doing(drv), Tail(script))' BY <2>4, <2>5, <3>7
    <3>9. Apt(Now', Link', fw'.mode) BY <1>1, <2>5, <3>5, <3>6, <3>7 DEF Apt
    <3>10. After' BY <1>7, <3>8, <3>9 DEF After
    <3> QED BY <3>10 DEF Exchange
  <2>6. CASE Now \in {"ready", "data"}
    <3>1. Mode = (IF Now = "ready" THEN "permitted" ELSE "data") BY <1>2, <2>6 DEF Mode
    <3>2. Link = <<>> BY <1>2, <2>6, <3>1
    <3>3. /\ Now = "ready" => r.bytes = << "!" >> /\ r.after = [fw EXCEPT !.mode = "data"]
          /\ Now = "data" => (\E b \in {"1", "X", "Y", "Z"} : r.bytes = << b >>) /\ r.after = [fw EXCEPT !.mode = "idle"]
      <4>1. CASE Now = "ready" BY <1>2, <1>4, <1>6, <3>1, <4>1, HandledIs
      <4>2. CASE Now = "data" BY <1>2, <1>4, <1>6, <3>1, <4>2, HandledIs
      <4> QED BY <2>6, <4>1, <4>2
    <3>4. /\ fw'.mode = (IF Now = "ready" THEN "data" ELSE "idle") /\ fw'.motor = fw.motor /\ fw'.cyl = fw.cyl
          /\ fw'.side = fw.side /\ fw'.high = fw.high
      BY <1>6, <2>1, <2>6, <3>3 DEF Firm
    <3>5. View(opened, Doing(drv), Tail(script))' BY <2>4, <2>6, <3>4
    <3>6. Link' = r.bytes BY <2>3, <3>2
    <3>7. Apt(Now', Link', fw'.mode)
      <4>1. CASE Now = "ready"
        <5>1. Len(r.bytes) = 1 /\ r.bytes[1] = "!" BY <3>3, <4>1
        <5> QED BY <1>1, <3>4, <3>6, <4>1, <5>1 DEF Apt
      <4>2. CASE Now = "data"
        <5>1. Len(r.bytes) = 1 /\ r.bytes[1] \in {"1", "X", "Y", "Z"} BY <3>3, <4>2
        <5> QED BY <1>1, <3>4, <3>6, <4>2, <5>1 DEF Apt
      <4> QED BY <2>6, <4>1, <4>2
    <3>8. After' BY <1>7, <3>5, <3>7 DEF After
    <3> QED BY <3>8 DEF Exchange
  <2>7. CASE Now \notin {"stop", "ready", "data"}
    <3>1. Now \in Commands
      <4>1. Now \in OpenSteps \cup WorkSteps BY <1>2, First
      <4> QED BY <1>2, <1>4, <2>7, <4>1 DEF Local, Streamed, Commands, OpenSteps, WorkSteps
    <3>2. Mode = "idle" BY <3>1, ModeIdle DEF Commands
    <3>3. fw.mode = "idle" /\ Link = <<>> BY <1>2, <3>2
    <3>4. r \in Replies(p) BY <1>4, <1>6, <3>3, HandledIs
    <3>5. Does(p, r.after) /\ Apt(p.do, r.bytes, r.after.mode) BY <1>4, <1>6, <3>1, <3>3, <3>4, RepliesIs
    <3>6. Link' = r.bytes BY <2>3, <3>3
    <3>7. Apt(Now', Link', fw'.mode) BY <1>1, <1>4, <2>1, <3>5, <3>6
    <3>8. View(opened, Doing(drv), Tail(script))'
      <4>1. Does(script[1], fw') BY <1>4, <2>1, <3>5
      <4> QED BY <1>1, <1>2, <1>9, <4>1, ObeyView
    <3>9. After' BY <1>7, <3>7, <3>8 DEF After
    <3> QED BY <3>9 DEF Exchange
  <2> QED BY <2>5, <2>6, <2>7
<1> QED BY <1>3, <1>8, <1>9, FirmwareIs

(* What the firmware streams goes behind what is there.                    *)
LEMMA SameNext ==
    ASSUME UNCHANGED <<config, board, opened, script, sent, attempt, drv, wire, fw, trouble>>
    PROVE  /\ Idle' = Idle /\ Now' = Now /\ (Local' <=> Local) /\ (Streamed' <=> Streamed) /\ Mode' = Mode
           /\ View(opened, drv, script) => View(opened, drv, script)'
           /\ View(opened, Doing(drv), Tail(script)) => View(opened, Doing(drv), Tail(script))'
           /\ Answered => Answered'
<1>1. Idle' = Idle /\ Now' = Now /\ Arg' = Arg BY DEF Idle, Now, Arg
<1>2. (Local' <=> Local) /\ (Streamed' <=> Streamed) /\ Mode' = Mode /\ Doing(drv)' = Doing(drv)
  BY <1>1 DEF Local, Streamed, Mode, Doing
<1>3. View(opened, drv, script) => View(opened, drv, script)' BY DEF View, Agrees
<1>4. View(opened, Doing(drv), Tail(script)) => View(opened, Doing(drv), Tail(script))'
  <2>1. Tail(script)' = Tail(script) OBVIOUS
  <2> QED BY <1>2, <2>1 DEF View, Agrees
<1>5. Answered => Answered' BY <1>1, <1>2 DEF Answered
<1> QED BY <1>1, <1>2, <1>3, <1>4, <1>5

LEMMA StreamExchange == ASSUME TypeOK, ScriptOK(opened, script), Exchange, Stream PROVE Exchange'
<1>1. PICK b \in {"f", "i"} : outbox' = Append(outbox, b) BY DEF Stream
<1>2. fw.mode = "stream" /\ UNCHANGED <<config, board, opened, script, sent, attempt, drv, wire, inbox, fw, trouble>>
  BY DEF Stream, callVars, historyVars
<1>3. /\ Len(Link') = Len(Link) + 1 /\ DOMAIN Link' = 1..Len(Link')
      /\ \A i \in 1..Len(Link) : Link'[i] = Link[i]
      /\ Link'[1 + Len(Link)] = b
  <2>1. b \in Byte BY BytesAre
  <2>2. Adds(<< b >>) BY <1>1, <1>2, <2>1, AnswersOne
  <2>3. Len(<< b >>) = 1 /\ << b >>[1] = b /\ 1 \in 1..1 OBVIOUS
  <2> QED BY <2>2, <2>3 DEF Adds
<1>4. Len(Link) \in Nat /\ DOMAIN Link = 1..Len(Link) BY LinkIs
<1>5. ASSUME NEW i \in DOMAIN Link' PROVE (i \in DOMAIN Link /\ Link'[i] = Link[i]) \/ Link'[i] = b
  <2>1. i \in 1..Len(Link) \/ i = 1 + Len(Link) BY <1>3, <1>4
  <2> QED BY <1>3, <1>4, <2>1
<1>6. \A n : FluxIn(Link, n) => FluxIn(Link', n) BY <1>1, <1>5 DEF FluxIn
<1>7. /\ Now' = Now /\ Mode' = Mode /\ Idle' = Idle /\ (Local' <=> Local) /\ (Streamed' <=> Streamed)
      /\ View(opened, drv, script) => View(opened, drv, script)'
      /\ View(opened, Doing(drv), Tail(script)) => View(opened, Doing(drv), Tail(script))'
      /\ Answered => Answered'
  BY <1>2, SameNext
<1>8. CASE Foreign
  <2>1. ~Heard BY <1>2 DEF Heard
  <2>2. Unheard BY <1>8, <2>1 DEF Foreign
  <2>3. Unheard' BY <1>1, <1>5, <2>2 DEF Unheard
  <2>4. Foreign' BY <1>2, <1>7, <1>8, <2>1, <2>3 DEF Foreign
  <2> QED BY <2>4 DEF Exchange
<1>9. CASE Before
  <2>1. Mode = "stream" /\ FluxIn(Link, 0) BY <1>2, <1>9 DEF Before
  <2>2. FluxIn(Link', 0) BY <1>6, <2>1
  <2>3. Before' BY <1>2, <1>7, <1>9, <2>1, <2>2 DEF Before
  <2> QED BY <2>3 DEF Exchange
<1>10. CASE After
  <2>1. Apt(Now, Link, "stream") BY <1>2, <1>10 DEF After
  <2>2. Now = "read"
    <3>1. CASE Now \in {"stop", "permit", "ready", "data"} BY <2>1, <3>1 DEF Apt
    <3>2. CASE Now \in {"disk", "density", "features"} BY <2>1, <3>2 DEF Apt
    <3>3. CASE Now \in {"seek", "noclick"} BY <2>1, <3>3 DEF Apt
    <3>4. CASE Now \notin {"stop", "permit", "ready", "data", "disk", "density", "features", "seek", "noclick"}
      BY <2>1, <3>4 DEF Apt
    <3> QED BY <3>1, <3>2, <3>3, <3>4
  <2>3. Len(Link) >= 1 /\ Link[1] = "1" /\ FluxIn(Link, 1) BY <2>1, <2>2 DEF Apt
  <2>4. Len(Link') >= 1 /\ Link'[1] = "1" /\ FluxIn(Link', 1) BY <1>3, <1>4, <1>6, <2>3
  <2>5. Apt(Now', Link', fw'.mode) BY <1>2, <1>7, <2>2, <2>4 DEF Apt
  <2>6. After' BY <1>7, <1>10, <2>5 DEF After
  <2> QED BY <2>6 DEF Exchange
<1> QED BY <1>2, <1>8, <1>9, <1>10 DEF Exchange, Refused

(* A step of which the driver and the firmware see nothing.                *)
LEMMA ExchangeKept ==
    ASSUME Exchange, Link' = Link,
           UNCHANGED <<config, board, opened, script, sent, attempt, drv, wire, fw, trouble>>
    PROVE  Exchange'
<1>1. /\ Now' = Now /\ Mode' = Mode /\ Idle' = Idle /\ (Local' <=> Local) /\ (Streamed' <=> Streamed)
      /\ View(opened, drv, script) => View(opened, drv, script)'
      /\ View(opened, Doing(drv), Tail(script)) => View(opened, Doing(drv), Tail(script))'
      /\ Answered => Answered'
  BY SameNext
<1>2. (Unheard => Unheard') /\ (Heard => Heard') BY DEF Unheard, Heard
<1>3. CASE Foreign
  <2>1. Foreign' BY <1>1, <1>2, <1>3 DEF Foreign
  <2> QED BY <2>1 DEF Exchange
<1>4. CASE Before
  <2>1. IF Mode' = "stream" THEN FluxIn(Link', 0) ELSE Link' = <<>> BY <1>1, <1>4 DEF Before
  <2>2. Before' BY <1>1, <1>4, <2>1 DEF Before
  <2> QED BY <2>2 DEF Exchange
<1>5. CASE Refused
  <2>1. Refused' BY <1>1, <1>5 DEF Refused
  <2> QED BY <2>1 DEF Exchange
<1>6. CASE After
  <2>1. Apt(Now', Link', fw'.mode) BY <1>1, <1>6 DEF After
  <2>2. After' BY <1>1, <1>6, <2>1 DEF After
  <2> QED BY <2>2 DEF Exchange
<1> QED BY <1>3, <1>4, <1>5, <1>6 DEF Exchange

LEMMA IdleBefore ==
    ASSUME TypeOK, ScriptOK(opened, script), Idle, Exchange
    PROVE  /\ Before /\ wire = <<>> /\ inbox = <<>> /\ outbox = <<>> /\ fw.mode = "idle"
           /\ View(opened, drv, script) /\ ~sent
<1>1. Before /\ ~sent
  <2>1. ~Foreign BY ForeignIs
  <2> QED BY <2>1, Typed DEF Exchange, Refused, After, Answered
<1>2. Mode = "idle" BY ModeIdle
<1> QED BY <1>1, <1>2, LinkIs DEF Before

LEMMA CallExchange == ASSUME TypeOK, ScriptOK(opened, script), Exchange, Call \/ Drop PROVE Exchange'
<1>1. Idle /\ opened = "open" BY DEF Call, Drop
<1>2. /\ wire = <<>> /\ inbox = <<>> /\ outbox = <<>> /\ fw.mode = "idle" /\ View(opened, drv, script) /\ ~sent
  BY <1>1, IdleBefore
<1>3. UNCHANGED <<config, board, sent, drv, wire, inbox, outbox, fw, trouble>>
  BY DEF Call, Drop, linkVars, historyVars
<1>4. Link' = <<>> BY <1>2, <1>3 DEF Link
<1>5. Agrees(drv) /\ drv.cyl = fw.cyl BY <1>1, <1>2 DEF View
<1>6. /\ ~Ahead("sync", script)' /\ View(opened, drv, script)'
      /\ Now' \notin {"stream", "stop", "length", "ready", "data"}
  <2>1. CASE Call
    <3>1. opened' = "open" /\ \E s \in Scripts : script' = s.script BY <1>1, <2>1 DEF Call
    <3>2. Begins(script') /\ ScriptOK("open", script') BY <3>1, ScriptsOK
    <3>3. ~Ahead("sync", script)' BY <3>2 DEF ScriptOK, Ahead, WorkSteps
    <3>4. View(opened, drv, script)' BY <1>3, <1>5, <3>1 DEF View, Agrees
    <3> QED BY <3>2, <3>3, <3>4 DEF Begins, Now
  <2>2. CASE Drop
    <3>1. opened' = "closing" /\ script' = DropScript BY <2>2 DEF Drop
    <3>2. Ahead("motor", script') /\ ~Ahead("sync", script') /\ script'[1].do = "motor" BY <3>1, DropOK, DropIs
    <3> QED BY <3>1, <3>2 DEF View, Now
  <2> QED BY <2>1, <2>2
<1>7. wire' = <<>> /\ fw'.mode = "idle" /\ sent' = FALSE BY <1>2, <1>3, Typed
<1> QED BY <1>4, <1>6, <1>7, QuietNext

-----------------------------------------------------------------------------
(* An opening that fails has an excuse.                                    *)
Earlier == (late' = late \/ late' = late + 1) /\ trouble \subseteq trouble'

LEMMA TroubleStays == ASSUME TypeOK, [Next]_vars PROVE Earlier
<1>1. CASE Call \/ Drop BY <1>1 DEF Call, Drop, historyVars, Earlier
<1>2. CASE Driver
  <2>1. CASE Skip BY <2>1 DEF Skip, Earlier
  <2>2. CASE Send BY <2>2 DEF Send, historyVars, Earlier
  <2>3. CASE Answer BY <2>3 DEF Answer, Earlier
  <2>4. CASE Scan BY <2>4 DEF Scan, Earlier
  <2>5. CASE TakeStream BY <2>5 DEF TakeStream, Earlier
  <2>6. CASE Deadline BY <2>6 DEF Deadline, Earlier
  <2> QED BY <1>2, <2>1, <2>2, <2>3, <2>4, <2>5, <2>6 DEF Driver
<1>3. CASE Firmware
  <2>1. late' = late /\ (trouble' = trouble \/ trouble' = trouble \cup {"refused"})
    BY <1>3 DEF Firmware
  <2> QED BY <2>1 DEF Earlier
<1>4. CASE Stream \/ Deliver \/ ChangeDisk \/ Closed \/ UNCHANGED vars
  BY <1>4 DEF Stream, Deliver, ChangeDisk, Closed, vars, historyVars, Earlier
<1> QED BY <1>1, <1>2, <1>3, <1>4 DEF Next

LEMMA SoundEarlier == ASSUME TypeOK, Earlier, Sound' PROVE Sound /\ late = 0 /\ late' = 0 /\ "abandoned" \notin trouble'
<1>1. late \in Nat /\ late' = 0 BY Typed DEF Sound
<1>2. late = 0 BY <1>1 DEF Earlier
<1> QED BY <1>1, <1>2 DEF Sound, Earlier

LEMMA ExcuseStays == ASSUME TypeOK, Earlier, UNCHANGED board, Excuse PROVE Excuse'
<1>1. late \in Nat BY Typed
<1>2. late > 0 => late' > 0 BY <1>1 DEF Earlier
<1> QED BY <1>2 DEF Excuse, Earlier

LEMMA ThenRecovers ==
    ASSUME TypeOK, ~Idle, ScriptOK(opened, script), Recovers, Earlier, UNCHANGED board, NEW steps, Then(steps),
           opened = "opening" => "abandoned" \notin trouble'
    PROVE  Recovers'
<1>1. opened \in {"opening", "open", "closing"} BY StepsOf
<1>2. script' # <<>> => UNCHANGED <<opened, op>> BY ThenIs
<1>3. script' = <<>> => /\ opened' = (IF opened = "closing" THEN "closed" ELSE "open")
                        /\ op' = (IF opened = "open" THEN "none" ELSE op)
  BY ThenIs
<1>4. Excuse => Excuse' BY ExcuseStays
<1>5. CASE opened = "opening"
  <2>1. op = "open" BY <1>5 DEF Recovers
  <2>2. (opened' = "opening" /\ op' = "open") \/ opened' = "open" BY <1>2, <1>3, <1>5, <2>1
  <2> QED BY <1>5, <2>2 DEF Recovers
<1>6. CASE opened = "open"
  <2>1. opened' = "open" BY <1>2, <1>3, <1>6
  <2> QED BY <2>1 DEF Recovers
<1>7. CASE opened = "closing"
  <2>1. opened' \in {"closing", "closed"} /\ op' = op BY <1>2, <1>3, <1>7
  <2>2. op = "drop" \/ (op = "open" /\ Excuse) BY <1>7 DEF Recovers
  <2>3. opened' # "opening" BY <2>1
  <2> QED BY <1>4, <2>1, <2>2, <2>3 DEF Recovers
<1> QED BY <1>1, <1>5, <1>6, <1>7

LEMMA EndsRecovers ==
    ASSUME TypeOK, Recovers, Earlier, UNCHANGED board, Ends, opened = "opening" => Excuse'
    PROVE  Recovers'
<1>1. Excuse => Excuse' BY ExcuseStays
<1>2. CASE opened = "opening"
  <2>1. op' = "open" /\ opened' \in {"closing", "closed"} BY <1>2 DEF Ends, Recovers
  <2>2. opened' # "opening" BY <2>1
  <2> QED BY <1>2, <2>1, <2>2 DEF Recovers
<1>3. CASE opened = "open"
  <2>1. opened' = "open" BY <1>3 DEF Ends
  <2> QED BY <2>1 DEF Recovers
<1>4. CASE opened = "closing"
  <2>1. opened' = "closed" /\ op' = op BY <1>4 DEF Ends
  <2>2. op = "drop" \/ (op = "open" /\ Excuse) BY <1>4 DEF Recovers
  <2> QED BY <1>1, <2>1, <2>2 DEF Recovers
<1> QED BY <1>2, <1>3, <1>4 DEF Ends

LEMMA ResyncsRecovers ==
    ASSUME Recovers, Resyncs, "abandoned" \notin trouble' PROVE Recovers'
<1>1. opened' = "opening" /\ op' = "open" BY DEF Resyncs, Recovers
<1> QED BY <1>1 DEF Recovers

(* While the drive is opened nothing is streamed, written or given up.     *)
LEMMA OpeningSound ==
    ASSUME TypeOK, LinkInv, opened = "opening", late = 0 PROVE Exchange
BY DEF LinkInv, Recovers, Sound

LEMMA RecoversStep ==
    ASSUME LinkInv, TypeOK, ScriptOK(opened, script), Recovers, Earlier, [Next]_vars PROVE Recovers'
<1>0. UNCHANGED board
  BY DEF Next, Call, Drop, Driver, Skip, Send, Answer, Scan, TakeStream, Deadline, Firmware, Stream, Deliver,
         ChangeDisk, Closed, vars
<1>1. CASE Call
  <2>1. opened' = "open" BY <1>1 DEF Call
  <2> QED BY <2>1 DEF Recovers
<1>2. CASE Drop
  <2>1. opened' = "closing" /\ op' = "drop" BY <1>2 DEF Drop
  <2> QED BY <2>1 DEF Recovers
<1>3. CASE Skip
  <2>1. ~Idle BY <1>3 DEF Skip
  <2>2. /\ opened \in {"opening", "open", "closing"}
        /\ opened = "opening" => Now \in OpenSteps
        /\ opened = "closing" => Now = "motor"
    BY <2>1, StepsOf
  <2>3. opened = "opening" => "abandoned" \notin trouble'
    <3>1. opened = "opening" => Now # "length" BY <2>2 DEF OpenSteps
    <3>2. Now # "length" => trouble' = trouble BY <1>3 DEF Skip
    <3> QED BY <3>1, <3>2 DEF Recovers
  <2>4. CASE Then(<<>>) BY <1>0, <2>1, <2>3, <2>4, ThenRecovers
  <2>5. CASE Fail("failed") /\ ~Then(<<>>)
    <3>1. (Now = "version" /\ drv.minor < 8) \/ Now \in {"range", "encode", "join", "length"} BY <1>3, <2>5 DEF Skip
    <3>2. Ends BY <2>1, <2>2, <2>5, <3>1, FailIs DEF Resyncs
    <3>3. ASSUME opened = "opening" PROVE Excuse'
      <4>1. Now = "version" /\ drv.minor < 8 BY <2>2, <3>1, <3>3 DEF OpenSteps
      <4>2. CASE late = 0
        <5>1. Exchange BY <3>3, <4>2, OpeningSound
        <5>2. ~Foreign BY <4>1, ForeignIs
        <5>3. ~sent BY <1>3 DEF Skip
        <5>4. View(opened, drv, script) BY <5>1, <5>2, <5>3 DEF Exchange, Before, Refused, After, Answered
        <5>5. board.minor < 8 BY <3>3, <4>1, <5>4 DEF View
        <5> QED BY <1>0, <5>5 DEF Excuse
      <4>3. CASE late # 0
        <5>1. Excuse BY <4>3, Typed DEF Excuse
        <5> QED BY <1>0, <5>1, ExcuseStays
      <4> QED BY <4>2, <4>3
    <3> QED BY <1>0, <3>2, <3>3, EndsRecovers
  <2> QED BY <1>3, <2>4, <2>5 DEF Skip
<1>4. CASE Answer
  <2>1. ~Idle /\ trouble' = trouble /\ Now # "sync" BY <1>4 DEF Answer, Scanning
  <2>2. /\ opened \in {"opening", "open", "closing"}
        /\ opened = "opening" => Now \in OpenSteps
    BY <2>1, StepsOf
  <2>3. opened = "opening" => "abandoned" \notin trouble' BY <2>1 DEF Recovers
  <2>4. CASE Accepted
    <3>1. \E steps : Then(steps) BY <1>4, <2>4 DEF Answer
    <3> QED BY <1>0, <2>1, <2>3, <3>1, ThenRecovers
  <2>5. CASE ~Accepted
    <3>1. Fail("failed") BY <1>4, <2>5 DEF Answer
    <3>2. (opened = "opening" /\ Now = "disk" /\ Then(<<>>)) \/ Ends
      BY <2>1, <2>2, <3>1, FailIs DEF Resyncs
    <3>3. ASSUME opened = "opening", Ends PROVE Excuse'
      <4>1. CASE late = 0
        <5>1. Exchange BY <3>3, <4>1, OpeningSound
        <5>2. Refused \/ After BY <1>4, <5>1, AnswerKind
        <5>3. ~After BY <1>4, <2>5, <3>3, <5>1, AfterAnswer
        <5>4. "refused" \in trouble BY <3>3, <5>2, <5>3 DEF Refused
        <5> QED BY <2>1, <5>4 DEF Excuse
      <4>2. CASE late # 0
        <5>1. Excuse BY <4>2, Typed DEF Excuse
        <5> QED BY <1>0, <5>1, ExcuseStays
      <4> QED BY <4>1, <4>2
    <3> QED BY <1>0, <2>1, <2>3, <3>2, <3>3, ThenRecovers, EndsRecovers
  <2> QED BY <2>4, <2>5
<1>5. CASE Scan
  <2>1. ~Idle /\ trouble' = trouble /\ (Then(<<>>) \/ UNCHANGED <<opened, op>>) BY <1>5 DEF Scan
  <2>2. opened = "opening" => "abandoned" \notin trouble' BY <2>1 DEF Recovers
  <2>3. CASE Then(<<>>) BY <1>0, <2>1, <2>2, <2>3, ThenRecovers
  <2>4. CASE UNCHANGED <<opened, op>>
    <3>1. Excuse => Excuse' BY <1>0, ExcuseStays
    <3> QED BY <2>1, <2>4, <3>1 DEF Recovers
  <2> QED BY <2>1, <2>3, <2>4
<1>6. CASE TakeStream
  <2>1. ~Idle /\ Now = "stream" BY <1>6 DEF TakeStream, Streamed
  <2>2. opened = "open" BY <2>1, StepsOf DEF OpenSteps
  <2>3. Then(<<>>) \/ Fail("failed") \/ opened' = opened BY <1>6 DEF TakeStream
  <2>4. CASE Then(<<>>) BY <1>0, <2>1, <2>2, <2>4, ThenRecovers
  <2>5. CASE Fail("failed")
    <3>1. Ends BY <2>1, <2>2, <2>5, FailIs DEF Resyncs
    <3> QED BY <1>0, <2>2, <3>1, EndsRecovers
  <2>6. CASE opened' = opened BY <2>2, <2>6 DEF Recovers
  <2> QED BY <2>3, <2>4, <2>5, <2>6
<1>7. CASE Deadline
  <2>1. ~Idle /\ Fail("timeout") BY <1>7 DEF Deadline, Reading
  <2>2. /\ opened \in {"opening", "open", "closing"}
        /\ opened = "opening" => Now \in OpenSteps
    BY <2>1, StepsOf
  <2>3. Resyncs \/ (opened = "opening" /\ Now = "disk" /\ Then(<<>>)) \/ Ends BY <2>1, <2>2, FailIs
  <2>4. opened = "opening" => trouble' = trouble
    <3>1. opened = "opening" => ~Streamed BY <2>2 DEF OpenSteps, Streamed
    <3> QED BY <1>7, <3>1 DEF Deadline
  <2>5. opened = "opening" => "abandoned" \notin trouble' BY <2>4 DEF Recovers
  <2>6. CASE Resyncs BY <2>5, <2>6, ResyncsRecovers DEF Resyncs
  <2>7. CASE opened = "opening" /\ Now = "disk" /\ Then(<<>>) BY <1>0, <2>1, <2>5, <2>7, ThenRecovers
  <2>8. CASE Ends /\ ~Resyncs /\ ~(opened = "opening" /\ Now = "disk" /\ Then(<<>>))
    <3>1. ASSUME opened = "opening" PROVE Excuse'
      <4>1. late \in Nat /\ (late' = late \/ late' = late + 1) BY Typed DEF Earlier
      <4>2. CASE late' # 0
        <5>1. late' > 0 BY <4>1, <4>2
        <5> QED BY <5>1 DEF Excuse
      <4>3. CASE late' = 0
        <5>1. late = 0 BY <4>1, <4>3
        <5>2. Exchange BY <3>1, <5>1, OpeningSound
        <5>3. Resyncs \/ (Now = "disk" /\ Then(<<>>)) BY <1>7, <2>5, <3>1, <4>3, <5>1, <5>2, DeadlineExchange
        <5> QED BY <2>8, <3>1, <5>3
      <4> QED BY <4>2, <4>3
    <3> QED BY <1>0, <2>8, <3>1, EndsRecovers
  <2> QED BY <2>3, <2>6, <2>7, <2>8
<1>8. CASE Send \/ Firmware \/ Stream \/ Deliver \/ ChangeDisk \/ Closed \/ UNCHANGED vars
  <2>1. UNCHANGED <<opened, op>>
    BY <1>8 DEF Send, Firmware, Stream, Deliver, ChangeDisk, Closed, vars, callVars
  <2>2. opened = "opening" /\ "abandoned" \notin trouble => "abandoned" \notin trouble'
    <3>1. CASE Firmware BY <3>1 DEF Firmware
    <3>2. CASE Send \/ Stream \/ Deliver \/ ChangeDisk \/ Closed \/ UNCHANGED vars
      BY <3>2 DEF Send, Stream, Deliver, ChangeDisk, Closed, vars, historyVars
    <3> QED BY <1>8, <3>1, <3>2
  <2>3. Excuse => Excuse' BY <1>0, ExcuseStays
  <2> QED BY <2>1, <2>2, <2>3 DEF Recovers
<1> QED BY <1>1, <1>2, <1>3, <1>4, <1>5, <1>6, <1>7, <1>8 DEF Next, Driver

-----------------------------------------------------------------------------
LEMMA LinkStep == ASSUME LinkInv, [Next]_vars PROVE LinkInv'
<1>1. TypeOK /\ ScriptOK(opened, script) /\ Recovers BY DEF LinkInv
<1>2. TypeOK' BY <1>1, TypeStep
<1>3. ScriptOK(opened, script)' BY <1>1, ScriptSteps
<1>4. Earlier BY <1>1, TroubleStays
<1>5. Recovers' BY <1>1, <1>4, RecoversStep
<1>6. ASSUME Sound' PROVE Exchange'
  <2>1. late = 0 /\ late' = 0 /\ "abandoned" \notin trouble' /\ Exchange
    BY <1>1, <1>4, <1>6, SoundEarlier DEF LinkInv
  <2>2. CASE Call \/ Drop BY <1>1, <2>1, <2>2, CallExchange
  <2>3. CASE Skip
    <3>1. Foreign \/ Before BY <2>1, <2>3 DEF Skip, Exchange, Refused, After, Answered
    <3> QED BY <1>1, <2>1, <2>3, <3>1, SkipForeign, SkipBefore
  <2>4. CASE Send BY <1>1, <2>1, <2>4, SendExchange
  <2>5. CASE Answer
    <3>1. Refused \/ After BY <1>1, <2>1, <2>5, AnswerKind
    <3> QED BY <1>1, <2>1, <2>5, <3>1, RefusedAnswer, AfterAnswer
  <2>6. CASE Scan BY <1>1, <2>1, <2>6, ScanForeign, ScanExchange
  <2>7. CASE TakeStream BY <1>1, <2>1, <2>7, TakeStreamExchange
  <2>8. CASE Deadline BY <1>1, <2>1, <2>8, DeadlineExchange
  <2>9. CASE Firmware
    <3>1. Foreign \/ Before BY <2>1, <2>9 DEF Firmware, Exchange, Refused, After, Answered
    <3> QED BY <1>1, <2>9, <3>1, FirmwareForeign, FirmwareExchange
  <2>10. CASE Stream BY <1>1, <2>1, <2>10, StreamExchange
  <2>11. CASE Deliver
    <3>1. UNCHANGED <<config, board, opened, script, sent, attempt, drv, wire, fw, trouble>>
      BY <2>11 DEF Deliver, callVars, historyVars
    <3>2. Link' = Link BY <1>1, <2>11, DeliverLink
    <3> QED BY <2>1, <3>1, <3>2, ExchangeKept
  <2>12. CASE ChangeDisk \/ Closed \/ UNCHANGED vars
    <3>1. UNCHANGED <<config, board, opened, script, sent, attempt, drv, wire, inbox, outbox, fw, trouble>>
      BY <2>12 DEF ChangeDisk, Closed, vars, callVars, linkVars, historyVars
    <3>2. Link' = Link BY <3>1 DEF Link
    <3> QED BY <2>1, <3>1, <3>2, ExchangeKept
  <2> QED BY <2>2, <2>3, <2>4, <2>5, <2>6, <2>7, <2>8, <2>9, <2>10, <2>11, <2>12 DEF Next, Driver
<1> QED BY <1>2, <1>3, <1>5, <1>6 DEF LinkInv

LEMMA LinkInit == ASSUME Init PROVE LinkInv
<1>1. TypeOK BY TypeInit
<1>2. /\ opened = "opening" /\ op = "open" /\ script = OpenScript /\ ~sent /\ attempt = 1
      /\ wire = <<>> /\ inbox = <<>> /\ outbox \in {<<>>, << "1" >>} /\ trouble = {}
  BY DEF Init
<1>3. ScriptOK(opened, script) /\ Ahead("sync", script) /\ Ahead("rewind", script) BY <1>2, OpenOK
<1>4. Recovers BY <1>2 DEF Recovers
<1>5. Unheard
  <2>1. CASE outbox = <<>>
    <3>1. Link = <<>> BY <1>2, <2>1, NoLink
    <3> QED BY <3>1 DEF Unheard
  <2>2. CASE outbox = << "1" >>
    <3>1. << "1" >> \in Seq(Byte)
      <4>1. "1" \in Byte BY BytesAre
      <4> QED BY <4>1
    <3>2. <<>> \o << "1" >> = << "1" >> BY <3>1, ConcatEmptySeq
    <3>3. Link = << "1" >> BY <1>2, <2>2, <3>2 DEF Link
    <3>4. \A i \in DOMAIN << "1" >> : << "1" >>[i] = "1" OBVIOUS
    <3> QED BY <3>3, <3>4 DEF Unheard
  <2> QED BY <1>2, <2>1, <2>2
<1>6. ~drv.motor /\ drv.cyl = 0 /\ drv.side = 0 /\ (config.density # "High" => ~drv.high)
  <2>1. PICK b : b = (config.density = "High") OBVIOUS
  <2>2. drv = [motor |-> FALSE, cyl |-> 0, side |-> 0, present |-> FALSE, protected |-> FALSE,
               high |-> b, minor |-> 0, full |-> FALSE, detect |-> FALSE]
    BY <2>1 DEF Init
  <2> QED BY <2>1, <2>2
<1>7. Foreign BY <1>2, <1>3, <1>5, <1>6 DEF Foreign
<1> QED BY <1>1, <1>3, <1>4, <1>7 DEF LinkInv, Exchange

(* What the driver, the line and the firmware are between any two steps:   *)
(* as long as no answer came after its deadline and no call left the       *)
(* firmware half way, the line holds nothing but the exchange of the step  *)
(* in hand, and what the driver has recorded differs from the drive by     *)
(* that step at most; and an opening that has failed has its excuse        *)
(* (read_byte and read_stream, sync_version, the methods of the device).   *)
THEOREM BridgeLinkTypes == Spec => []LinkInv
<1>1. Init => LinkInv BY LinkInit
<1>2. LinkInv /\ [Next]_vars => LinkInv' BY LinkStep
<1> QED BY <1>1, <1>2, PTL DEF Spec

(* Between calls the line is silent and the firmware waits for a command,  *)
(* whatever was refused, protected or garbled: sync_version purges what an *)
(* earlier session left, and read_stream ends in the signature.            *)
THEOREM BridgeInStep == Spec => []InStep
<1>1. LinkInv => InStep
  <2> SUFFICES ASSUME LinkInv, opened = "open", Idle, Sound
               PROVE  wire = <<>> /\ outbox = <<>> /\ inbox = <<>> /\ fw.mode = "idle"
    BY DEF InStep
  <2> QED BY IdleBefore DEF LinkInv
<1> QED BY <1>1, BridgeLinkTypes, PTL

(* Between calls the recorded motor, cylinder, side and density are those  *)
(* of the firmware, for any calls, refusals and disks.                     *)
THEOREM BridgeRecordsTrue == Spec => []RecordsTrue
<1>1. LinkInv => RecordsTrue
  <2> SUFFICES ASSUME LinkInv, opened = "open", Idle, Sound
               PROVE  /\ drv.motor = fw.motor /\ drv.cyl = fw.cyl /\ drv.side = fw.side
                      /\ drv.cyl < MaxCylinders
                      /\ config.density # "High" => drv.high = fw.high
    BY DEF RecordsTrue
  <2>1. View(opened, drv, script) BY IdleBefore DEF LinkInv
  <2> QED BY <2>1 DEF View, Agrees
<1> QED BY <1>1, BridgeLinkTypes, PTL

(* A firmware new enough is opened whatever it was left doing, for one     *)
(* whose version was not heard is reset and asked again (sync_version).    *)
THEOREM BridgeOpenRecovers == Spec => []OpenRecovers
<1>1. LinkInv => OpenRecovers
  <2> SUFFICES ASSUME LinkInv, opened = "closed", op = "open" PROVE Excuse
    BY DEF OpenRecovers, Excuse
  <2> QED BY DEF LinkInv, Recovers
<1> QED BY <1>1, BridgeLinkTypes, PTL

(* The drive stands still once it is let go of: by drop, by an opening     *)
(* that failed, or because the opening restarted the firmware.             *)
THEOREM BridgeLeftQuiet == Spec => []LeftQuiet
<1>1. LinkInv => LeftQuiet
  <2> SUFFICES ASSUME LinkInv, opened = "closed", Sound, "refused" \notin trouble PROVE ~fw.motor
    BY DEF LeftQuiet
  <2>1. script = <<>> BY DEF LinkInv, ScriptOK
  <2>2. Idle BY <2>1 DEF Idle
  <2>3. View(opened, drv, script) BY <2>2, IdleBefore DEF LinkInv
  <2> QED BY <2>1, <2>3, NoneAhead DEF View
<1> QED BY <1>1, BridgeLinkTypes, PTL
=============================================================================
