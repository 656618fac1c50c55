-------------------------- MODULE GreaseweazleProofs --------------------------
(***************************************************************************)
(* The link to a Greaseweazle, for every bus, every set of cylinders and   *)
(* disks, any refusals and streams of any length, as long as the answers   *)
(* keep their deadlines.  The inductive invariant is LinkInv of            *)
(* Greaseweazle, under TypeOK, and for what a status tells PinInv, below.  *)
(***************************************************************************)
EXTENDS Greaseweazle, SequenceLemmas, TLAPS

-----------------------------------------------------------------------------
(* The line.                                                               *)

(* The bytes yet to be read are those that have arrived and then those     *)
(* that have not.                                                          *)
LEMMA LinkIs ==
    ASSUME inbox \in Seq(Byte), outbox \in Seq(Byte)
    PROVE  /\ Link \in Seq(Byte) /\ Len(Link) = Len(inbox) + Len(outbox)
           /\ Len(inbox) \in Nat /\ Len(outbox) \in Nat /\ Len(Link) \in Nat
           /\ \A i \in 1..Len(inbox) : Link[i] = inbox[i]
           /\ \A i \in 1..Len(outbox) : Link[i + Len(inbox)] = outbox[i]
           /\ Link = <<>> <=> inbox = <<>> /\ outbox = <<>>
<1>1. Link = inbox \o outbox BY DEF Link
<1>2. /\ inbox \o outbox \in Seq(Byte) /\ Len(inbox \o outbox) = Len(inbox) + Len(outbox)
      /\ Len(inbox) \in Nat /\ Len(outbox) \in Nat
  BY CatIs
<1>3. /\ \A i \in 1..Len(inbox) : (inbox \o outbox)[i] = inbox[i]
      /\ \A i \in 1..Len(outbox) : (inbox \o outbox)[i + Len(inbox)] = outbox[i]
      /\ inbox \o outbox = <<>> <=> inbox = <<>> /\ outbox = <<>>
  BY CatIs
<1> QED BY <1>1, <1>2, <1>3

(* Bytes arrive in the order in which they were sent.                      *)
LEMMA DeliverLink == ASSUME TypeOK, Deliver PROVE Link' = Link
<1>1. inbox \in Seq(Byte) /\ outbox \in Seq(Byte) /\ outbox # <<>>
  BY DEF TypeOK, Deliver
<1>2. Append(inbox, Head(outbox)) \o Tail(outbox) = inbox \o outbox
  BY <1>1, MoveOver
<1> QED BY <1>2 DEF Deliver, Link

(* The first n bytes have been read, or purged.                            *)
Dropped(n) ==
    /\ n \in Nat /\ Len(Link') = Len(Link) - n
    /\ \A i \in 1..Len(Link') : i + n \in 1..Len(Link) /\ Link'[i] = Link[i + n]

LEMMA DropFront ==
    ASSUME inbox \in Seq(Byte), outbox \in Seq(Byte), inbox' \in Seq(Byte), UNCHANGED outbox,
           NEW n \in Nat, Len(inbox') = Len(inbox) - n,
           \A i \in 1..Len(inbox') : inbox'[i] = inbox[i + n]
    PROVE  Link' \in Seq(Byte) /\ Dropped(n)
<1>1. /\ Link' \in Seq(Byte) /\ Len(Link') = Len(inbox') + Len(outbox)
      /\ Len(inbox') \in Nat /\ Len(outbox) \in Nat
      /\ \A i \in 1..Len(inbox') : Link'[i] = inbox'[i]
      /\ \A i \in 1..Len(outbox) : Link'[i + Len(inbox')] = outbox[i]
  <2>1. Link' = inbox' \o outbox BY DEF Link
  <2>2. /\ inbox' \o outbox \in Seq(Byte) /\ Len(inbox' \o outbox) = Len(inbox') + Len(outbox)
        /\ Len(inbox') \in Nat /\ Len(outbox) \in Nat
    BY ONLY inbox' \in Seq(Byte), outbox \in Seq(Byte), CatIs
  <2>3. /\ \A i \in 1..Len(inbox') : (inbox' \o outbox)[i] = inbox'[i]
        /\ \A i \in 1..Len(outbox) : (inbox' \o outbox)[i + Len(inbox')] = outbox[i]
    BY CatIs
  <2> QED BY <2>1, <2>2, <2>3
<1>2. ASSUME NEW i \in 1..Len(Link') PROVE i + n \in 1..Len(Link) /\ Link'[i] = Link[i + n]
  <2>1. i + n \in 1..Len(Link) /\ i \in Nat BY <1>1, LinkIs
  <2>2. CASE i <= Len(inbox')
    <3>1. i \in 1..Len(inbox') /\ i + n \in 1..Len(inbox) BY <1>1, <2>1, <2>2, LinkIs
    <3> QED BY <1>1, <2>1, <3>1, LinkIs
  <2>3. CASE i > Len(inbox')
    <3> DEFINE k == i - Len(inbox')
    <3>1. k \in 1..Len(outbox) /\ i = k + Len(inbox') /\ i + n = k + Len(inbox)
      BY <1>1, <2>3, LinkIs
    <3> HIDE DEF k
    <3>2. Link'[i] = outbox[k] BY <1>1, <3>1
    <3>3. Link[i + n] = outbox[k] BY <3>1, LinkIs
    <3> QED BY <2>1, <3>2, <3>3
  <2> QED BY <1>1, <2>1, <2>2, <2>3
<1>3. Len(Link') = Len(Link) - n BY <1>1, LinkIs
<1> QED BY <1>1, <1>2, <1>3 DEF Dropped

(* read_exact_until of an acknowledgement.                                 *)
LEMMA DropTwo ==
    ASSUME inbox \in Seq(Byte), outbox \in Seq(Byte), Len(inbox) >= 2,
           inbox' = SubSeq(inbox, 3, Len(inbox)), UNCHANGED outbox
    PROVE  /\ inbox' \in Seq(Byte) /\ Dropped(2)
           /\ Link[1] = inbox[1] /\ Link[2] = inbox[2] /\ Len(Link) >= 2
<1>1. /\ inbox' \in Seq(Byte) /\ Len(inbox') = Len(inbox) - 2
      /\ \A i \in 1..Len(inbox') : inbox'[i] = inbox[i + 2]
  BY AfterTwo
<1>2. 1 \in 1..Len(inbox) /\ 2 \in 1..Len(inbox) BY LinkIs
<1>3. Dropped(2) BY <1>1, DropFront
<1>4. Link[1] = inbox[1] /\ Link[2] = inbox[2] /\ Len(Link) >= 2 BY <1>2, LinkIs
<1> QED BY <1>1, <1>3, <1>4

(* And of one byte.                                                        *)
LEMMA DropOne ==
    ASSUME inbox \in Seq(Byte), outbox \in Seq(Byte), inbox # <<>>,
           inbox' = Tail(inbox), UNCHANGED outbox
    PROVE  /\ inbox' \in Seq(Byte) /\ Dropped(1)
           /\ Link[1] = inbox[1] /\ inbox[1] \in Byte /\ Len(Link) >= 1
<1>1. /\ inbox' \in Seq(Byte) /\ Len(inbox') = Len(inbox) - 1 /\ Len(inbox) \in Nat \ {0}
      /\ \A i \in 1..Len(inbox') : inbox'[i] = inbox[i + 1]
  BY HeadTailProperties
<1>2. 1 \in 1..Len(inbox) BY <1>1
<1>3. Dropped(1) BY <1>1, DropFront
<1>4. Link[1] = inbox[1] /\ inbox[1] \in Byte /\ Len(Link) >= 1 BY <1>2, LinkIs
<1> QED BY <1>1, <1>3, <1>4

(* And of all that has arrived.                                            *)
LEMMA DropAll ==
    ASSUME inbox \in Seq(Byte), outbox \in Seq(Byte), inbox' = <<>>, UNCHANGED outbox
    PROVE  inbox' \in Seq(Byte) /\ Dropped(Len(inbox)) /\ Link' = outbox
<1>1. inbox' \in Seq(Byte) /\ Len(inbox') = 0 /\ Len(inbox) \in Nat BY LinkIs
<1>2. Link' = outbox BY CatIs DEF Link
<1> QED BY <1>1, <1>2, DropFront

(* The firmware answers: the bytes go to the back.                         *)
LEMMA Answers ==
    ASSUME inbox \in Seq(Byte), outbox \in Seq(Byte), NEW bytes \in Seq(Byte),
           outbox' = outbox \o bytes, UNCHANGED inbox
    PROVE  /\ outbox' \in Seq(Byte) /\ Link' = Link \o bytes
           /\ Link' \in Seq(Byte) /\ Len(Link') = Len(Link) + Len(bytes) /\ Len(bytes) \in Nat
           /\ \A i \in 1..Len(Link) : Link'[i] = Link[i]
           /\ \A i \in 1..Len(bytes) : Link'[i + Len(Link)] = bytes[i]
<1>1. outbox' \in Seq(Byte) BY CatIs
<1>2. Link' = Link \o bytes
  <2>1. inbox \o (outbox \o bytes) = (inbox \o outbox) \o bytes BY ConcatAssociative
  <2> QED BY <2>1 DEF Link
<1>3. Link \in Seq(Byte) BY LinkIs
<1>4. /\ Link \o bytes \in Seq(Byte) /\ Len(Link \o bytes) = Len(Link) + Len(bytes)
      /\ Len(bytes) \in Nat
  BY <1>3, CatIs
<1>5. /\ \A i \in 1..Len(Link) : (Link \o bytes)[i] = Link[i]
      /\ \A i \in 1..Len(bytes) : (Link \o bytes)[i + Len(Link)] = bytes[i]
  BY <1>3, CatIs
<1> QED BY <1>1, <1>2, <1>4, <1>5
-----------------------------------------------------------------------------
(* Types.                                                                  *)
LEMMA CodeIs ==
    /\ DOMAIN Code = {"info", "seek", "head", "setparams", "params", "motor", "read", "write",
                      "fluxstatus", "select", "deselect", "bus", "reset", "pin", "noclick"}
    /\ \A d \in DOMAIN Code : /\ Code[d] \in Byte
                              /\ Code[d] = 16 <=> d = "reset"
                              /\ Code[d] = 6 <=> d = "motor"
                              /\ Code[d] # 1
    /\ Code.reset = 16 /\ Code.motor = 6 /\ Code["motor"] = 6 /\ Code["reset"] = 16
BY DEF Code, Byte

(* What the Device methods do is made of the steps there are.              *)
LEMMA ScriptsTyped ==
    /\ OpenScript \in Seq(Todo) /\ DropScript \in Seq(Todo) /\ DropScript # <<>>
    /\ \A s \in Scripts : s.script \in Seq(Todo) /\ s.script # <<>>
<1>0. Bus \in Nat BY LinkAssumption
<1>1. ASSUME NEW d \in Steps, NEW a \in Nat PROVE Step(d, a) \in Todo
  BY DEF Step, Todo
<1>2. CheckPins \in Seq(Todo) /\ CheckPins # <<>> BY <1>1 DEF CheckPins, Steps
<1>3. OpenScript \in Seq(Todo)
  <2> DEFINE first == <<Step("purge", 0), Step("info", 0), Step("version", 0), Step("reset", 0),
                        Step("params", 0), Step("step", 0), Step("bus", Bus)>>
  <2>1. first \in Seq(Todo) BY <1>0, <1>1 DEF Steps
  <2> HIDE DEF first
  <2>2. first \o CheckPins \in Seq(Todo) BY <1>2, <2>1, ConcatProperties
  <2> QED BY <2>2 DEF OpenScript, first
<1>4. \A on, c \in Nat, quick \in BOOLEAN :
        MotorScript(on, quick) \in Seq(Todo) /\ MotorScript(on, quick) # <<>>
  BY <1>1 DEF MotorScript, Steps, QuickDelay, SpinUpDelay
<1>5. \A c \in Nat : SeekScript(c) \in Seq(Todo) /\ SeekScript(c) # <<>>
                     /\ SideScript(c) \in Seq(Todo) /\ SideScript(c) # <<>>
  BY <1>1 DEF SeekScript, SideScript, Steps
<1>6. NoClickScript \in Seq(Todo) /\ NoClickScript # <<>>
  <2>1. <<Step("select", 0), Step("noclick", 0)>> \in Seq(Todo) BY <1>1 DEF Steps
  <2> QED BY <1>2, <2>1, CatIs DEF NoClickScript
<1>7. ReadScript \in Seq(Todo) /\ ReadScript # <<>> BY <1>1 DEF ReadScript, Steps
<1>8. WriteScript \in Seq(Todo) /\ WriteScript # <<>> BY <1>1 DEF WriteScript, Steps
<1>9. ASSUME NEW s \in Scripts PROVE s.script \in Seq(Todo) /\ s.script # <<>>
  <2>1. \/ s.script \in {CheckPins, NoClickScript, ReadScript, WriteScript}
        \/ \E quick \in BOOLEAN : s.script \in {MotorScript(1, quick), MotorScript(0, TRUE)}
        \/ \E c \in Cylinders : s.script = SeekScript(c)
        \/ \E c \in {0, 1} : s.script = SideScript(c)
    BY <1>9 DEF Scripts
  <2> QED BY <1>2, <1>4, <1>5, <1>6, <1>7, <1>8, <2>1, LinkAssumption
<1> QED BY <1>3, <1>4, <1>9 DEF DropScript

LEMMA ScriptSteps ==
    ASSUME script \in Seq(Todo), ~Idle
    PROVE  /\ script[1] \in Todo /\ Now \in Steps /\ Arg \in Nat
           /\ Tail(script) \in Seq(Todo) /\ Len(Tail(script)) = Len(script) - 1
           /\ Len(script) \in Nat \ {0} /\ 1 \in DOMAIN script
           /\ DOMAIN script = 1..Len(script)
           /\ DOMAIN Tail(script) = 1..Len(Tail(script))
           /\ \A i \in 1..Len(Tail(script)) : Tail(script)[i] = script[i + 1]
<1>1. /\ Tail(script) \in Seq(Todo) /\ Len(Tail(script)) = Len(script) - 1
      /\ \A i \in 1..Len(Tail(script)) : Tail(script)[i] = script[i + 1]
  BY HeadTailProperties DEF Idle
<1>2. Len(script) \in Nat \ {0} /\ DOMAIN script = 1..Len(script)
      /\ DOMAIN Tail(script) = 1..Len(Tail(script))
  BY <1>1, EmptySeq DEF Idle
<1>3. script[1] \in Todo BY <1>2
<1> QED BY <1>1, <1>2, <1>3 DEF Todo, Now, Arg

(* A step sends one of the commands there are.                             *)
LEMMA PacketTyped ==
    ASSUME TypeOK, ~Idle, ~Local \/ Now = "step", Now \notin {"stream", "sync", "flux"}
    PROVE  Packet \in Sent /\ Packet.do \in DOMAIN Code
<1>1. script[1] \in Todo /\ Now \in Steps /\ Arg \in Nat /\ drv.delay \in Nat
  BY ScriptSteps DEF TypeOK
<1>2. Packet.do \in DOMAIN Code /\ Packet.arg \in Nat
  BY <1>1, CodeIs DEF Packet, Local, Step, Steps, Todo, Now, Arg
<1>3. Packet = [do |-> Packet.do, arg |-> Packet.arg]
  BY <1>1 DEF Packet, Step, Todo
<1> QED BY <1>2, <1>3 DEF Sent

LEMMA FailTyped ==
    ASSUME TypeOK, Fail
    PROVE  /\ opened' \in {"opening", "open", "closing", "closed"} /\ phase' = "send"
           /\ outcome' \in {"none", "ok", "failed"} /\ attempt' \in Nat /\ script' \in Seq(Todo)
<1>1. <<Step("purge", 0)>> \o script \in Seq(Todo)
  <2>1. <<Step("purge", 0)>> \in Seq(Todo) BY DEF Step, Todo, Steps
  <2> QED BY <2>1, CatIs DEF TypeOK
<1>2. <<>> \in Seq(Todo) OBVIOUS
<1>3. script' \in Seq(Todo) BY <1>1, <1>2, ScriptsTyped DEF Fail
<1>4. opened' \in {"opening", "open", "closing", "closed"} BY DEF Fail, TypeOK
<1>5. outcome' \in {"none", "ok", "failed"} /\ attempt' \in Nat /\ phase' = "send"
  BY DEF Fail, TypeOK
<1> QED BY <1>3, <1>4, <1>5

LEMMA AdvanceTyped ==
    ASSUME TypeOK, ~Idle, Advance
    PROVE  /\ opened' \in {"opening", "open", "closing", "closed"} /\ phase' = "send"
           /\ outcome' \in {"none", "ok", "failed"} /\ attempt' \in Nat /\ script' \in Seq(Todo)
BY ScriptSteps DEF Advance, TypeOK

(* The variables but for the link and the firmware; and those.             *)
DriverTyped ==
    /\ opened \in {"opening", "open", "closing", "closed"}
    /\ outcome \in {"none", "ok", "failed"} /\ attempt \in Nat
    /\ script \in Seq(Todo) /\ phase \in {"send", "ack", "payload"} /\ (Idle => phase = "send")
DrvTyped == drv \in [selected : BOOLEAN, motor : BOOLEAN, cyl : Nat, side : Nat, present : BOOLEAN,
                     protected : BOOLEAN, delay : Nat]
FwFields == [selected : BOOLEAN, motor : BOOLEAN, cyl : Nat, side : Nat,
             placed : SUBSET {"cyl", "side"}, delay : Nat, writing : BOOLEAN, flux : Nat]
FwTyped == fw \in FwFields
LinkTyped == wire \in Seq(Sent) /\ inbox \in Seq(Byte) /\ outbox \in Seq(Byte)
WorldTyped == disk \in Disks /\ since \subseteq Disks /\ late \in Nat /\ changes \in Nat

LEMMA TypeParts == TypeOK <=> DriverTyped /\ DrvTyped /\ FwTyped /\ LinkTyped /\ WorldTyped
BY DEF TypeOK, DriverTyped, DrvTyped, FwTyped, FwFields, LinkTyped, WorldTyped
LEMMA TypePartsNext ==
    ASSUME DriverTyped', DrvTyped', FwTyped', LinkTyped', WorldTyped' PROVE TypeOK'
BY DEF TypeOK, DriverTyped, DrvTyped, FwTyped, FwFields, LinkTyped, WorldTyped

LEMMA DoneTyped == ASSUME TypeOK, Fail \/ (~Idle /\ Advance) PROVE DriverTyped'
BY FailTyped, AdvanceTyped DEF DriverTyped

LEMMA LinkOf == ASSUME TypeOK PROVE inbox \in Seq(Byte) /\ outbox \in Seq(Byte) /\ wire \in Seq(Sent)
BY DEF TypeOK

LEMMA RecordedTyped ==
    ASSUME TypeOK, ~Idle PROVE Recorded \in [selected : BOOLEAN, motor : BOOLEAN, cyl : Nat,
        side : Nat, present : BOOLEAN, protected : BOOLEAN, delay : Nat]
<1>1. Arg \in Nat BY ScriptSteps DEF TypeOK
<1> QED BY <1>1 DEF Recorded, TypeOK

LEMMA FluxTyped ==
    ASSUME NEW n \in Nat
    PROVE  /\ Flux(n) \in Seq(Byte) /\ Len(Flux(n)) = n + 1
           /\ Flux(n)[n + 1] = 0 /\ \A i \in 1..n : Flux(n)[i] = FluxByte
<1> DEFINE f == [i \in 1..n |-> FluxByte]
<1>1. FluxByte \in Byte /\ 0 \in Byte BY DEF FluxByte, Byte
<1>2. f \in Seq(Byte) /\ Len(f) = n /\ \A i \in 1..n : f[i] = FluxByte BY <1>1
<1>3. <<0>> \in Seq(Byte) /\ Len(<<0>>) = 1 /\ <<0>>[1] = 0 BY <1>1
<1> HIDE DEF f
<1>4. f \o <<0>> \in Seq(Byte) /\ Len(f \o <<0>>) = n + 1 BY <1>2, <1>3, CatIs
<1>5. \A i \in 1..n : (f \o <<0>>)[i] = FluxByte BY <1>2, <1>3, CatIs
<1>6. (f \o <<0>>)[1 + n] = 0 BY <1>2, <1>3, CatIs
<1>7. Flux(n) = f \o <<0>> BY DEF Flux, f
<1> QED BY <1>4, <1>5, <1>6, <1>7

LEMMA FollowsTyped ==
    ASSUME TypeOK, NEW p
    PROVE  /\ Follows(p) \in Seq(Byte)
           /\ Len(Follows(p)) = IF p.do \in {"pin", "info", "params"} THEN 1 ELSE 0
<1>1. PinLevel(p.arg) \in Byte /\ fw.delay \in Byte /\ 1 \in Byte
  BY DEF PinLevel, TypeOK, Byte
<1> QED BY <1>1 DEF Follows

LEMMA DoesTyped ==
    ASSUME TypeOK, NEW p \in Sent
    PROVE  Does(p) \in FwFields
<1>1. p.arg \in Nat BY DEF Sent
<1>2. fw \in FwFields BY DEF TypeOK, FwFields
<1>3. CASE p.do \in {"select", "deselect", "motor", "setparams"}
  BY <1>1, <1>2, <1>3 DEF Does, FwFields
<1>4. CASE p.do = "seek"
  <2> DEFINE moved == [fw EXCEPT !.cyl = p.arg]
  <2>1. Does(p) = [moved EXCEPT !.placed = fw.placed \cup {"cyl"}] BY <1>2, <1>4 DEF Does, FwFields
  <2>2. moved \in FwFields BY <1>1, <1>2 DEF FwFields
  <2>3. fw.placed \cup {"cyl"} \in SUBSET {"cyl", "side"} BY <1>2 DEF FwFields
  <2> HIDE DEF moved
  <2> QED BY <2>1, <2>2, <2>3 DEF FwFields
<1>5. CASE p.do = "head"
  <2> DEFINE turned == [fw EXCEPT !.side = p.arg]
  <2>1. Does(p) = [turned EXCEPT !.placed = fw.placed \cup {"side"}] BY <1>2, <1>5 DEF Does, FwFields
  <2>2. turned \in FwFields BY <1>1, <1>2 DEF FwFields
  <2>3. fw.placed \cup {"side"} \in SUBSET {"cyl", "side"} BY <1>2 DEF FwFields
  <2> HIDE DEF turned
  <2> QED BY <2>1, <2>2, <2>3 DEF FwFields
<1>6. CASE p.do = "reset"
  <2> DEFINE still == [fw EXCEPT !.selected = FALSE, !.motor = FALSE]
  <2>1. Does(p) = [still EXCEPT !.delay = SpinUpDelay]
    BY <1>6, Zenon DEF Does
  <2>2. still \in FwFields BY <1>2 DEF FwFields
  <2> HIDE DEF still
  <2> QED BY <2>1, <2>2 DEF SpinUpDelay, FwFields
<1>7. CASE p.do \notin {"select", "deselect", "seek", "head", "setparams", "motor", "reset"}
  BY <1>2, <1>7 DEF Does
<1> QED BY <1>3, <1>4, <1>5, <1>6, <1>7

(* What a command that is obeyed does to the drive.                        *)
LEMMA DoesIs ==
    ASSUME TypeOK, NEW p, p.do # "reset"
    PROVE  /\ Does(p).selected =
                 IF p.do \in {"select", "deselect"} THEN p.do = "select" ELSE fw.selected
           /\ Does(p).motor = IF p.do = "motor" THEN p.arg = 1 ELSE fw.motor
           /\ Does(p).cyl = IF p.do = "seek" THEN p.arg ELSE fw.cyl
           /\ Does(p).side = IF p.do = "head" THEN p.arg ELSE fw.side
           /\ Does(p).placed = CASE p.do = "seek" -> fw.placed \cup {"cyl"}
                                 [] p.do = "head" -> fw.placed \cup {"side"}
                                 [] OTHER -> fw.placed
           /\ Does(p).writing = fw.writing
<1>1. fw \in FwFields BY DEF TypeOK, FwFields
<1>2. CASE p.do \in {"select", "deselect", "motor", "setparams"} BY <1>1, <1>2 DEF Does, FwFields
<1>3. CASE p.do \in {"seek", "head"} BY <1>1, <1>3 DEF Does, FwFields
<1>4. CASE p.do \notin {"select", "deselect", "motor", "setparams", "seek", "head"}
  BY <1>4 DEF Does
<1> QED BY <1>2, <1>3, <1>4

(* What the firmware answers, of the exchange it is in.                    *)
LEMMA FirmwareTyped ==
    ASSUME TypeOK, Firmware
    PROVE  wire' \in Seq(Sent) /\ outbox' \in Seq(Byte) /\ FwTyped'
<1> DEFINE p == Head(wire)
<1>1. wire' \in Seq(Sent) /\ p \in Sent
  <2>1. wire \in Seq(Sent) /\ wire # <<>> /\ wire' = Tail(wire) BY DEF TypeOK, Firmware
  <2> QED BY <2>1, HeadTailProperties
<1>2. outbox \in Seq(Byte) BY LinkOf
<1>3. ASSUME NEW b \in Seq(Byte), Answer(b) PROVE outbox' \in Seq(Byte)
  BY <1>2, <1>3, CatIs DEF Answer
<1>4. ASSUME p.do # "flux" PROVE Code[p.do] \in Byte BY <1>1, <1>4, CodeIs DEF Sent
<1>5. /\ AckOk \in Byte /\ AckBadCommand \in Byte /\ AckWriteProtected \in Byte /\ fw.flux \in Byte
      /\ fw.flux \in Nat /\ AckOk \in Nat /\ AckNoIndex \in Nat /\ AckFluxOverflow \in Nat
      /\ AckFluxUnderflow \in Nat
  BY DEF AckOk, AckBadCommand, AckWriteProtected, AckNoIndex, AckFluxOverflow, AckFluxUnderflow,
         Byte, TypeOK
<1> HIDE DEF p
<1>6. CASE TakesFlux(p)
  <2>1. CASE Answer(<<0>>) /\ \E s \in {AckOk, AckFluxUnderflow} :
                                fw' = [fw EXCEPT !.writing = FALSE, !.flux = s]
    <3>1. <<0>> \in Seq(Byte) BY DEF Byte
    <3>2. PICK s \in {AckOk, AckFluxUnderflow} : fw' = [fw EXCEPT !.writing = FALSE, !.flux = s]
      BY <2>1
    <3>3. s \in Nat BY <1>5
    <3>4. FwTyped' BY <3>2, <3>3 DEF FwTyped, FwFields, TypeOK
    <3> QED BY <1>1, <1>3, <2>1, <3>1, <3>4
  <2>2. CASE UNCHANGED <<outbox, fw>>
    BY <1>1, <1>2, <2>2 DEF FwTyped, FwFields, TypeOK
  <2> QED BY <1>6, <2>1, <2>2 DEF TakesFlux
<1>7. CASE TellsFlux(p)
  <2>1. <<Code[p.do], fw.flux>> \in Seq(Byte) BY <1>4, <1>5, <1>7 DEF TellsFlux, Heeds
  <2>2. outbox' \in Seq(Byte) BY <1>3, <1>7, <2>1 DEF TellsFlux
  <2> QED BY <1>1, <1>7, <2>2 DEF TellsFlux, FwTyped, FwFields, TypeOK
<1>8. CASE Writes(p)
  <2>1. <<Code[p.do], AckWriteProtected>> \in Seq(Byte) /\ <<Code[p.do], AckOk>> \in Seq(Byte)
    BY <1>4, <1>5, <1>8 DEF Writes, Heeds
  <2>2. outbox' \in Seq(Byte) BY <1>3, <1>8, <2>1 DEF Writes
  <2> QED BY <1>1, <1>8, <2>2 DEF Writes, FwTyped, FwFields, TypeOK
<1>9. CASE Reads(p)
  <2>1. PICK n \in 0..StreamBytes : Answer(<<Code[p.do], AckOk>> \o Flux(n)) BY <1>9 DEF Reads
  <2>2. n \in Nat BY LinkAssumption
  <2>3. <<Code[p.do], AckOk>> \in Seq(Byte) BY <1>4, <1>5, <1>9 DEF Reads, Heeds
  <2>4. <<Code[p.do], AckOk>> \o Flux(n) \in Seq(Byte) BY <2>2, <2>3, FluxTyped, CatIs
  <2>5. PICK s \in Nat : fw' = [fw EXCEPT !.flux = s] BY <1>5, <1>9 DEF Reads
  <2>6. FwTyped' BY <2>5 DEF FwTyped, FwFields, TypeOK
  <2> QED BY <1>1, <1>3, <2>1, <2>4, <2>6
<1>10. CASE Refuses(p)
  <2>1. <<Code[p.do], AckBadCommand>> \in Seq(Byte)
    BY <1>4, <1>5, <1>10 DEF Refuses, Plain, Heeds
  <2>2. outbox' \in Seq(Byte) BY <1>3, <1>10, <2>1 DEF Refuses
  <2> QED BY <1>1, <1>10, <2>2 DEF Refuses, FwTyped, FwFields, TypeOK
<1>11. CASE Obeys(p)
  <2>1. <<Code[p.do], AckOk>> \in Seq(Byte) BY <1>4, <1>5, <1>11 DEF Obeys, Plain, Heeds
  <2>2. <<Code[p.do], AckOk>> \o Follows(p) \in Seq(Byte) BY <2>1, FollowsTyped, CatIs
  <2>3. outbox' \in Seq(Byte) BY <1>3, <1>11, <2>2 DEF Obeys
  <2> QED BY <1>1, <1>11, <2>3, DoesTyped DEF Obeys, FwTyped
<1> QED BY <1>6, <1>7, <1>8, <1>9, <1>10, <1>11 DEF Firmware, p
(* Steps of the driver, by what they do to the link.                       *)
LEMMA DriverTypes == ASSUME TypeOK, Driver PROVE TypeOK'
<1>1. LinkTyped /\ DrvTyped /\ FwTyped /\ WorldTyped /\ DriverTyped BY TypeParts
<1>2. 0 \in Nat /\ <<>> \in Seq(Byte) /\ \A n \in Nat : n + 1 \in Nat OBVIOUS
<1>3. CASE Skip
  <2>1. DriverTyped' BY <1>3, DoneTyped DEF Skip
  <2>2. DrvTyped' BY <1>1, <1>3 DEF Skip, DrvTyped
  <2>3. LinkTyped' BY <1>1, <1>2, <1>3 DEF Skip, LinkTyped
  <2> QED BY <1>1, <1>3, <2>1, <2>2, <2>3, TypePartsNext DEF Skip, FwTyped, WorldTyped, worldVars
<1>4. CASE Send
  <2>1. Packet \in Sent BY <1>4, PacketTyped DEF Send
  <2>2. Arg \in Nat BY <1>4, ScriptSteps DEF Send, TypeOK
  <2>3. DriverTyped' BY <1>1, <1>4 DEF Send, DriverTyped, Idle
  <2>4. DrvTyped' BY <1>1, <1>4, <2>2 DEF Send, DrvTyped
  <2>5. LinkTyped' BY <1>1, <1>4, <2>1 DEF Send, LinkTyped
  <2> QED BY <1>1, <1>4, <2>3, <2>4, <2>5, TypePartsNext DEF Send, FwTyped, WorldTyped, worldVars
<1>5. CASE SendFlux
  <2>1. DriverTyped' BY <1>5, DoneTyped DEF SendFlux
  <2>2. Step("flux", 0) \in Sent BY DEF Step, Sent
  <2>3. LinkTyped'
    <3>1. wire' = Append(wire, Step("flux", 0)) \/ wire' = wire BY <1>5 DEF SendFlux
    <3>2. wire \in Seq(Sent) BY <1>1 DEF LinkTyped
    <3>3. Append(wire, Step("flux", 0)) \in Seq(Sent)
      <4> DEFINE x == Step("flux", 0)
      <4>1. x \in Sent BY <2>2
      <4> HIDE DEF x
      <4>2. Append(wire, x) \in Seq(Sent) BY ONLY <3>2, <4>1
      <4> QED BY <4>2 DEF x
    <3>4. wire' \in Seq(Sent) BY ONLY <3>1, <3>2, <3>3
    <3> QED BY <1>1, <1>5, <3>4 DEF SendFlux, LinkTyped
  <2>4. late' \in Nat BY <1>1, <1>2, <1>5 DEF SendFlux, WorldTyped
  <2>5. WorldTyped' BY <1>1, <1>5, <2>4 DEF SendFlux, WorldTyped, worldVars
  <2> QED BY <1>1, <1>5, <2>1, <2>3, <2>5, TypePartsNext DEF SendFlux, FwTyped, DrvTyped
<1>6. CASE Acknowledge
  <2>1. ~Idle BY <1>1, <1>6 DEF Acknowledge, DriverTyped
  <2>2. inbox' \in Seq(Byte)
    <3>1. SubSeq(inbox, 3, Len(inbox)) \in Seq(Byte) BY <1>1, <1>6, AfterTwo DEF Acknowledge, Refused, Retried, Accepted, LinkTyped
    <3> QED BY <1>2, <1>6, <3>1 DEF Acknowledge, Refused, Retried, Accepted
  <2>3. DrvTyped'
    <3>1. \/ drv' = [drv EXCEPT !.present = FALSE]
          \/ drv' = drv
          \/ drv' = Recorded
      BY <1>6 DEF Acknowledge, Refused, Retried, Accepted
    <3> QED BY <1>1, <2>1, <3>1, RecordedTyped DEF DrvTyped
  <2>4. CASE Fail \/ Advance
    <3>1. DriverTyped' BY <2>1, <2>4, DoneTyped
    <3> QED BY <1>1, <1>6, <2>2, <2>3, <3>1, TypePartsNext
            DEF Acknowledge, FwTyped, WorldTyped, LinkTyped, worldVars
  <2>5. CASE ~(Fail \/ Advance)
    <3>1. <<Step("read", 0), Step("stream", 0)>> \in Seq(Todo) BY DEF Step, Todo, Steps
    <3>2. /\ <<Step("read", 0), Step("stream", 0)>> \o script \in Seq(Todo)
          /\ <<Step("read", 0), Step("stream", 0)>> \o script # <<>>
      BY <1>1, <3>1, CatIs DEF DriverTyped
    <3>3. \/ /\ script' = <<Step("read", 0), Step("stream", 0)>> \o script
             /\ phase' = "send" /\ attempt' = IF attempt < MaxAttempts THEN attempt + 1 ELSE attempt
             /\ UNCHANGED <<opened, outcome>>
          \/ phase' = "payload" /\ UNCHANGED <<opened, script, attempt, outcome>>
      BY <1>6, <2>5 DEF Acknowledge, Refused, Retried, Accepted
    <3>4. DriverTyped' BY <1>1, <1>2, <2>1, <3>2, <3>3 DEF DriverTyped, Idle
    <3> QED BY <1>1, <1>6, <2>2, <2>3, <3>4, TypePartsNext
            DEF Acknowledge, FwTyped, WorldTyped, LinkTyped, worldVars
  <2> QED BY <2>4, <2>5
<1>7. CASE TakePayload
  <2>1. ~Idle BY <1>1, <1>7 DEF TakePayload, DriverTyped
  <2>2. DriverTyped' BY <1>7, <2>1, DoneTyped DEF TakePayload
  <2>3. inbox' \in Seq(Byte) /\ inbox[1] \in Byte
    BY <1>1, <1>7, DropOne DEF TakePayload, LinkTyped
  <2>4. DrvTyped' BY <1>1, <1>7, <2>3 DEF TakePayload, DrvTyped, PinRead, Byte
  <2> QED BY <1>1, <1>7, <2>2, <2>3, <2>4, TypePartsNext
          DEF TakePayload, FwTyped, WorldTyped, LinkTyped, worldVars
<1>8. CASE TakeStream
  <2>1. DriverTyped'
    <3>1. Advance \/ Fail \/ UNCHANGED <<opened, script, phase, attempt, outcome>>
      BY <1>8 DEF TakeStream
    <3> QED BY <1>1, <1>8, <3>1, DoneTyped DEF TakeStream, DriverTyped, Idle
  <2> QED BY <1>1, <1>2, <1>8, <2>1, TypePartsNext
          DEF TakeStream, FwTyped, DrvTyped, WorldTyped, LinkTyped, worldVars
<1>9. CASE TakeSync
  <2>1. DriverTyped' BY <1>9, DoneTyped DEF TakeSync
  <2>2. inbox' \in Seq(Byte) BY <1>1, <1>9, DropOne DEF TakeSync, LinkTyped
  <2> QED BY <1>1, <1>9, <2>1, <2>2, TypePartsNext
          DEF TakeSync, FwTyped, DrvTyped, WorldTyped, LinkTyped, worldVars
<1>10. CASE Deadline
  <2>1. DriverTyped' BY <1>10, DoneTyped DEF Deadline
  <2>2. late' \in Nat BY <1>1, <1>2, <1>10 DEF Deadline, WorldTyped
  <2> QED BY <1>1, <1>2, <1>10, <2>1, <2>2, TypePartsNext
          DEF Deadline, FwTyped, DrvTyped, WorldTyped, LinkTyped, worldVars
<1> QED BY <1>3, <1>4, <1>5, <1>6, <1>7, <1>8, <1>9, <1>10 DEF Driver

LEMMA TypeStep == ASSUME TypeOK, [Next]_vars PROVE TypeOK'
<1>1. LinkTyped /\ DrvTyped /\ FwTyped /\ WorldTyped /\ DriverTyped BY TypeParts
<1>2. CASE Call
  <2>1. script' \in Seq(Todo) /\ script' # <<>> BY <1>2, ScriptsTyped DEF Call
  <2>2. DriverTyped' BY <1>1, <1>2, <2>1 DEF Call, DriverTyped, Idle
  <2>3. WorldTyped' BY <1>1, <1>2 DEF Call, WorldTyped, worldVars
  <2> QED BY <1>1, <1>2, <2>2, <2>3, TypePartsNext DEF Call, FwTyped, DrvTyped, LinkTyped, linkVars
<1>3. CASE Drop
  <2>1. DriverTyped' BY <1>1, <1>3, ScriptsTyped DEF Drop, DriverTyped, Idle
  <2> QED BY <1>1, <1>3, <2>1, TypePartsNext
          DEF Drop, FwTyped, DrvTyped, LinkTyped, linkVars, WorldTyped, worldVars
<1>4. CASE Driver BY <1>4, DriverTypes
<1>5. CASE Firmware
  <2>1. wire' \in Seq(Sent) /\ outbox' \in Seq(Byte) /\ FwTyped' BY <1>5, FirmwareTyped
  <2> QED BY <1>1, <1>5, <2>1, TypePartsNext
          DEF Firmware, DriverTyped, Idle, DrvTyped, LinkTyped, WorldTyped, driverVars, worldVars
<1>6. CASE Deliver
  <2>1. inbox' \in Seq(Byte) /\ outbox' \in Seq(Byte)
    BY <1>1, <1>6, HeadTailProperties DEF Deliver, LinkTyped
  <2> QED BY <1>1, <1>6, <2>1, TypePartsNext
          DEF Deliver, DriverTyped, Idle, DrvTyped, FwTyped, LinkTyped, WorldTyped, driverVars,
              worldVars
<1>7. CASE ChangeDisk
  <2>1. WorldTyped' BY <1>1, <1>7 DEF ChangeDisk, WorldTyped
  <2> QED BY <1>1, <1>7, <2>1, TypePartsNext
          DEF ChangeDisk, DriverTyped, Idle, DrvTyped, FwTyped, LinkTyped, driverVars, linkVars
<1>8. CASE Closed \/ UNCHANGED vars
  BY <1>1, <1>8, TypePartsNext
     DEF Closed, vars, DriverTyped, Idle, DrvTyped, FwTyped, LinkTyped, WorldTyped, driverVars,
         linkVars, worldVars
<1> QED BY <1>2, <1>3, <1>4, <1>5, <1>6, <1>7, <1>8 DEF Next
LEMMA TypeInit == ASSUME Init PROVE TypeOK
<1>1. DriverTyped BY ScriptsTyped DEF Init, DriverTyped
<1>2. DrvTyped BY DEF Init, DrvTyped
<1>3. FwTyped BY DEF Init, FoundFirmware, FwTyped, FwFields, SpinUpDelay, AckOk
<1>4. LinkTyped
  <2>1. Leftovers \subseteq Seq(Byte) BY LinkAssumption DEF Byte
  <2>2. outbox \in Seq(Byte)
    <3>1. outbox \in Leftovers \cup {<<>>} BY DEF Init
    <3>2. <<>> \in Seq(Byte) OBVIOUS
    <3> QED BY <2>1, <3>1, <3>2
  <2> QED BY <2>2 DEF Init, LinkTyped
<1>5. WorldTyped BY DEF Init, WorldTyped
<1> QED BY <1>1, <1>2, <1>3, <1>4, <1>5, TypeParts

-----------------------------------------------------------------------------
(* Scripts.                                                                *)
NoReset(s) == \A i \in DOMAIN s : s[i].do # "reset"
(* A call does not begin with the answer to a question.                    *)
Begins(s) == s[1].do \notin {"flux", "stream", "sync"}

LEMMA TailOK ==
    ASSUME NEW s \in Seq(Todo), s # <<>>, ScriptOK(s),
           s[1].do = "range" => s[1].arg < MaxCylinders
    PROVE  ScriptOK(Tail(s))
<1> DEFINE t == Tail(s)
<1>1. /\ Len(s) \in Nat \ {0} /\ DOMAIN s = 1..Len(s) /\ DOMAIN t = 1..(Len(s) - 1)
      /\ \A i \in DOMAIN t : i + 1 \in DOMAIN s /\ t[i] = s[i + 1]
  BY HeadTailProperties
<1> HIDE DEF t
<1>2. ASSUME NEW i \in DOMAIN t, i + 2 \in DOMAIN s PROVE i + 1 \in DOMAIN t /\ t[i + 1] = s[i + 2]
  BY <1>1, <1>2
<1>3. ASSUME NEW i \in DOMAIN t, i > 1 PROVE i - 1 \in DOMAIN t /\ t[i - 1] = s[i]
  BY <1>1, <1>3
<1>4. ASSUME NEW i \in DOMAIN t
      PROVE  /\ t[i].do = "write" => i + 1 \in DOMAIN t /\ t[i + 1].do = "flux"
             /\ t[i].do = "flux" => i + 1 \in DOMAIN t /\ t[i + 1].do = "sync"
             /\ t[i].do = "read" => i + 1 \in DOMAIN t /\ t[i + 1].do = "stream"
  <2>1. i + 1 \in DOMAIN s /\ t[i] = s[i + 1] /\ i + 1 + 1 = i + 2 BY <1>1
  <2>2. s[i + 1].do \in {"write", "flux", "read"} => i + 2 \in DOMAIN s
    BY <2>1 DEF ScriptOK
  <2> QED BY <1>2, <2>1, <2>2 DEF ScriptOK
<1>5. ASSUME NEW i \in DOMAIN t, i > 1
      PROVE  /\ t[i].do = "flux" => t[i - 1].do = "write"
             /\ t[i].do = "sync" => t[i - 1].do = "flux"
             /\ t[i].do = "stream" => t[i - 1].do = "read"
  <2>1. i + 1 \in DOMAIN s /\ t[i] = s[i + 1] /\ i + 1 - 1 = i /\ i + 1 > 1 BY <1>1
  <2>2. ASSUME NEW k \in DOMAIN s, k > 1
        PROVE  /\ s[k].do = "flux" => s[k - 1].do = "write"
               /\ s[k].do = "sync" => s[k - 1].do = "flux"
               /\ s[k].do = "stream" => s[k - 1].do = "read"
    BY <2>2 DEF ScriptOK
  <2>3. /\ s[i + 1].do = "flux" => s[i + 1 - 1].do = "write"
        /\ s[i + 1].do = "sync" => s[i + 1 - 1].do = "flux"
        /\ s[i + 1].do = "stream" => s[i + 1 - 1].do = "read"
    BY <2>1, <2>2
  <2> QED BY <1>3, <1>5, <2>1, <2>3
<1>6. ASSUME NEW i \in DOMAIN t, t[i].do = "seek"
      PROVE  \/ t[i].arg < MaxCylinders
             \/ \E j \in 1..(i - 1) : t[j].do = "range" /\ t[j].arg = t[i].arg
  <2>1. i + 1 \in DOMAIN s /\ t[i] = s[i + 1] /\ i + 1 - 1 = i BY <1>1
  <2>2. \/ t[i].arg < MaxCylinders
        \/ \E j \in 1..i : s[j].do = "range" /\ s[j].arg = t[i].arg
    <3>1. ASSUME NEW k \in DOMAIN s, s[k].do = "seek"
          PROVE  \/ s[k].arg < MaxCylinders
                 \/ \E j \in 1..(k - 1) : s[j].do = "range" /\ s[j].arg = s[k].arg
      BY <3>1 DEF ScriptOK
    <3>2. \/ s[i + 1].arg < MaxCylinders
          \/ \E j \in 1..(i + 1 - 1) : s[j].do = "range" /\ s[j].arg = s[i + 1].arg
      BY <1>6, <2>1, <3>1
    <3> QED BY <2>1, <3>2
  <2>3. CASE ~(t[i].arg < MaxCylinders)
    <3>1. PICK j \in 1..i : s[j].do = "range" /\ s[j].arg = t[i].arg BY <2>2, <2>3
    <3>2. j # 1 BY <2>3, <3>1
    <3>3. j - 1 \in DOMAIN t /\ j - 1 \in 1..(i - 1) /\ j - 1 + 1 = j BY <1>1, <3>2
    <3>4. t[j - 1] = s[j] BY <1>1, <3>3
    <3> QED BY <3>1, <3>3, <3>4
  <2> QED BY <2>3
<1>7. ASSUME NEW i \in DOMAIN t, t[i].do = "reset", NEW j \in DOMAIN t
      PROVE  /\ j < i => t[j].do \in {"purge", "info", "version"}
             /\ j > i => t[j].do # "reset"
  <2>1. /\ i + 1 \in DOMAIN s /\ t[i] = s[i + 1] /\ j + 1 \in DOMAIN s /\ t[j] = s[j + 1]
        /\ j < i <=> j + 1 < i + 1
        /\ j > i <=> j + 1 > i + 1
    BY <1>1
  <2> QED BY <1>7, <2>1 DEF ScriptOK
<1>8. ScriptOK(t) BY <1>4, <1>5, <1>6, <1>7 DEF ScriptOK
<1> QED BY <1>8 DEF t

(* What a step leaves to be done.                                          *)
LEMMA AdvanceScript ==
    ASSUME TypeOK, ~Idle, Advance, ScriptOK(script), ~OutOfRange
    PROVE  /\ ScriptOK(script')
           /\ \A d : Ahead(d)' => Ahead(d)
           /\ \A d : Ahead(d) /\ Now # d => Ahead(d)'
           /\ Now = "reset" => NoReset(script')
           /\ NoReset(script) => NoReset(script')
           /\ Now = "write" => script' # <<>> /\ script'[1].do = "flux"
           /\ Now = "flux" => script' # <<>> /\ script'[1].do = "sync"
           /\ Now = "read" => script' # <<>> /\ script'[1].do = "stream"
           /\ Now \notin {"write", "flux", "read"} /\ script' # <<>> => Begins(script')
           /\ \A i \in DOMAIN script' : script'[i] = script[i + 1] /\ i + 1 \in DOMAIN script
<1>1. /\ script' = Tail(script) /\ script # <<>> /\ script \in Seq(Todo)
      /\ script' \in Seq(Todo) /\ Len(script') = Len(script) - 1 /\ Len(script) \in Nat \ {0}
      /\ 1 \in DOMAIN script
      /\ DOMAIN script = 1..Len(script) /\ DOMAIN script' = 1..Len(script')
      /\ \A i \in DOMAIN script' : script'[i] = script[i + 1] /\ i + 1 \in DOMAIN script
  <2>1. script' = Tail(script) /\ script # <<>> /\ script \in Seq(Todo)
    BY DEF Advance, TypeOK, Idle
  <2>2. Len(script) \in Nat \ {0} /\ DOMAIN script = 1..Len(script) /\ 1 \in DOMAIN script
    BY <2>1, ScriptSteps
  <2>3. /\ script' \in Seq(Todo) /\ Len(script') = Len(script) - 1
        /\ DOMAIN script' = 1..Len(script')
        /\ \A i \in 1..Len(script') : script'[i] = script[i + 1]
    BY <2>1, ScriptSteps
  <2>4. \A i \in 1..Len(script') : i + 1 \in DOMAIN script BY <2>2, <2>3
  <2> QED BY <2>1, <2>2, <2>3, <2>4
<1>2. Now = "range" => Arg < MaxCylinders
  <2>1. Arg \in Nat BY ScriptSteps DEF TypeOK
  <2> QED BY <2>1 DEF OutOfRange, MaxCylinders
<1>3. ScriptOK(script') BY <1>1, <1>2, TailOK DEF Now, Arg
<1>4. ASSUME NEW d, Ahead(d)' PROVE Ahead(d) BY <1>1, <1>4 DEF Ahead
<1>5. ASSUME NEW d, Ahead(d), Now # d PROVE Ahead(d)'
  <2>1. PICK i \in DOMAIN script : script[i].do = d BY <1>5 DEF Ahead
  <2>2. i # 1 BY <1>5, <2>1 DEF Now
  <2>3. i - 1 \in DOMAIN script' /\ i - 1 + 1 = i BY <1>1, <2>2
  <2>4. script'[i - 1] = script[i] BY <1>1, <2>3
  <2> QED BY <2>1, <2>3, <2>4 DEF Ahead
<1>6. ASSUME Now = "reset" PROVE NoReset(script')
  <2> SUFFICES ASSUME NEW i \in DOMAIN script' PROVE script'[i].do # "reset" BY DEF NoReset
  <2>1. i + 1 > 1 /\ i + 1 \in DOMAIN script /\ script'[i] = script[i + 1] BY <1>1
  <2> QED BY <1>1, <1>6, <2>1 DEF ScriptOK, Now
<1>7. NoReset(script) => NoReset(script') BY <1>1 DEF NoReset
<1>8. /\ Now = "write" => 1 + 1 \in DOMAIN script /\ script[1 + 1].do = "flux"
      /\ Now = "flux" => 1 + 1 \in DOMAIN script /\ script[1 + 1].do = "sync"
      /\ Now = "read" => 1 + 1 \in DOMAIN script /\ script[1 + 1].do = "stream"
  BY <1>1 DEF ScriptOK, Now
<1>9. 1 + 1 \in DOMAIN script => 1 \in DOMAIN script' /\ script'[1] = script[1 + 1] BY <1>1
<1>10. 1 \in DOMAIN script' => script' # <<>> OBVIOUS
<1>11. ASSUME Now \notin {"write", "flux", "read"}, script' # <<>> PROVE Begins(script')
  <2>1. 1 \in DOMAIN script' BY <1>1, <1>11, EmptySeq
  <2>2. 1 + 1 \in DOMAIN script /\ script'[1] = script[1 + 1] /\ 1 + 1 > 1 /\ 1 + 1 - 1 = 1
    BY <1>1, <2>1
  <2> QED BY <1>11, <2>2 DEF ScriptOK, Begins, Now
<1> QED BY <1>1, <1>3, <1>4, <1>5, <1>6, <1>7, <1>8, <1>9, <1>10, <1>11

LEMMA SeekInRange == ASSUME TypeOK, ~Idle, ScriptOK(script), Now = "seek" PROVE Arg < MaxCylinders
<1>1. 1 \in DOMAIN script BY ScriptSteps DEF TypeOK
<1> QED BY <1>1 DEF ScriptOK, Now, Arg

LEMMA PlainScript ==
    ASSUME NEW s \in Seq(Todo),
           \A i \in DOMAIN s : s[i].do \notin {"write", "flux", "sync", "read", "stream", "seek", "reset"}
    PROVE  ScriptOK(s) /\ NoReset(s)
BY DEF ScriptOK, NoReset
LEMMA DropIs ==
    /\ DropScript \in Seq(Todo) /\ DropScript # <<>> /\ ScriptOK(DropScript)
    /\ NoReset(DropScript) /\ Begins(DropScript)
    /\ \A i \in DOMAIN DropScript :
         /\ DropScript[i].do \in {"delay", "motor", "deselect"}
         /\ DropScript[i].do = "motor" => DropScript[i].arg = 0
    /\ \E i \in DOMAIN DropScript : DropScript[i].do = "motor"
<1>1. DropScript = <<Step("delay", 10), Step("motor", 0), Step("deselect", 0)>>
  BY DEF DropScript, MotorScript, QuickDelay
<1>2. /\ \A i \in DOMAIN DropScript :
           /\ DropScript[i].do \in {"delay", "motor", "deselect"}
           /\ DropScript[i].do = "motor" => DropScript[i].arg = 0
      /\ 2 \in DOMAIN DropScript /\ DropScript[2].do = "motor" /\ DropScript[1].do = "delay"
  BY <1>1 DEF Step
<1>3. DropScript \in Seq(Todo) /\ DropScript # <<>> BY ScriptsTyped
<1> QED BY <1>2, <1>3, PlainScript DEF Begins

(* The steps of check_pins, behind others.                                 *)
LEMMA CheckPinsIs ==
    /\ CheckPins \in Seq(Todo) /\ Len(CheckPins) = 4
    /\ \A i \in 1..4 : CheckPins[i].do \in {"select", "pin", "presume", "idle"}
<1>0. Bus \in Nat BY LinkAssumption
<1>1. \A d \in Steps : \A a \in Nat : Step(d, a) \in Todo BY DEF Step, Todo
<1>2. CheckPins \in Seq(Todo) BY <1>1 DEF CheckPins, Steps
<1>3. Len(CheckPins) = 4 BY DEF CheckPins
<1>4. /\ CheckPins[1].do = "select" /\ CheckPins[2].do = "pin"
      /\ CheckPins[3].do \in {"pin", "presume"} /\ CheckPins[4].do = "idle"
  BY DEF CheckPins, Step
<1> QED BY <1>2, <1>3, <1>4

LEMMA BehindOK ==
    ASSUME NEW s \in Seq(Todo), NEW i \in DOMAIN (s \o CheckPins)
    PROVE  \/ i \in DOMAIN s /\ (s \o CheckPins)[i] = s[i]
           \/ /\ i > Len(s) /\ Len(s) \in Nat
              /\ (s \o CheckPins)[i].do \in {"select", "pin", "presume", "idle"}
<1>1. /\ s \o CheckPins \in Seq(Todo) /\ Len(s \o CheckPins) = Len(s) + 4 /\ Len(s) \in Nat
      /\ \A j \in 1..Len(s) : (s \o CheckPins)[j] = s[j]
      /\ \A j \in 1..4 : (s \o CheckPins)[j + Len(s)] = CheckPins[j]
  <2>1. CheckPins \in Seq(Todo) /\ Len(CheckPins) = 4 BY CheckPinsIs
  <2>2. s \o CheckPins \in Seq(Todo) /\ Len(s \o CheckPins) = Len(s) + 4 /\ Len(s) \in Nat
    <3>1. s \o CheckPins \in Seq(Todo) /\ Len(s \o CheckPins) = Len(s) + Len(CheckPins)
      BY <2>1, ConcatProperties
    <3>2. Len(s) \in Nat OBVIOUS
    <3> QED BY <2>1, <3>1, <3>2
  <2>3. \A j \in 1..Len(s) : (s \o CheckPins)[j] = s[j] BY <2>1, CatIs
  <2>4. \A j \in 1..4 : (s \o CheckPins)[j + Len(s)] = CheckPins[j]
    <3>1. \A j \in 1..Len(CheckPins) : (s \o CheckPins)[j + Len(s)] = CheckPins[j]
      <4> SUFFICES ASSUME NEW j \in 1..Len(CheckPins)
                   PROVE  (s \o CheckPins)[j + Len(s)] = CheckPins[j]
        OBVIOUS
      <4> DEFINE k == j + Len(s)
      <4>1. k \in 1..(Len(s) + Len(CheckPins)) /\ ~(k <= Len(s)) /\ k - Len(s) = j
        BY <2>1, <2>2
      <4> HIDE DEF k
      <4>2. (s \o CheckPins)[k] = CheckPins[k - Len(s)]
        BY <2>1, <4>1, ConcatProperties
      <4> QED BY <4>1, <4>2 DEF k
    <3> QED BY <2>1, <3>1
  <2> QED BY <2>2, <2>3, <2>4
<1>2. i \in 1..(Len(s) + 4) /\ DOMAIN s = 1..Len(s) BY <1>1
<1>3. CASE i <= Len(s) BY <1>1, <1>2, <1>3
<1>4. CASE i > Len(s)
  <2>1. i - Len(s) \in 1..4 /\ i - Len(s) + Len(s) = i BY <1>1, <1>2, <1>4
  <2>2. (s \o CheckPins)[i] = CheckPins[i - Len(s)] BY <1>1, <2>1
  <2> QED BY <1>1, <1>4, <2>1, <2>2, CheckPinsIs
<1> QED BY <1>1, <1>2, <1>3, <1>4

LEMMA OpenScriptOK ==
    /\ ScriptOK(OpenScript) /\ OpenScript # <<>> /\ \E i \in DOMAIN OpenScript : OpenScript[i].do = "reset"
<1> DEFINE first == <<Step("purge", 0), Step("info", 0), Step("version", 0), Step("reset", 0),
                      Step("params", 0), Step("step", 0), Step("bus", Bus)>>
           s == OpenScript
<1>0. Bus \in Nat BY LinkAssumption
<1>1. first \in Seq(Todo) /\ Len(first) = 7 BY <1>0 DEF Step, Todo, Steps
<1>2. /\ first[1].do = "purge" /\ first[2].do = "info" /\ first[3].do = "version"
      /\ first[4].do = "reset" /\ first[5].do = "params" /\ first[6].do = "step"
      /\ first[7].do = "bus"
  BY DEF Step
<1>3. s = first \o CheckPins BY DEF OpenScript
<1> HIDE DEF first, s
<1>4. ASSUME NEW i \in DOMAIN s
      PROVE  /\ i \in Nat
             /\ s[i].do \in {"purge", "info", "version", "reset", "params", "step", "bus", "select", "pin",
                             "presume", "idle"}
             /\ i < 4 => s[i].do \in {"purge", "info", "version"}
             /\ s[i].do = "reset" <=> i = 4
  <2>1. \/ i \in DOMAIN first /\ s[i] = first[i]
        \/ i > 7 /\ s[i].do \in {"select", "pin", "presume", "idle"}
    BY <1>1, <1>3, BehindOK
  <2>2. i \in Nat
    <3>1. s \in Seq(Todo) BY <1>1, <1>3, CheckPinsIs, CatIs
    <3> QED BY <3>1
  <2>3. i \in DOMAIN first => i \in 1..7 BY <1>1
  <2> QED BY <1>2, <2>1, <2>2, <2>3
<1>5. ScriptOK(s)
  <2> SUFFICES ASSUME NEW i \in DOMAIN s, s[i].do = "reset", NEW j \in DOMAIN s
               PROVE  /\ j < i => s[j].do \in {"purge", "info", "version"}
                      /\ j > i => s[j].do # "reset"
    BY <1>4 DEF ScriptOK
  <2> QED BY <1>4
<1>6. 4 \in DOMAIN s /\ s # <<>> /\ s[4].do = "reset"
  <2>1. CheckPins \in Seq(Todo) /\ Len(CheckPins) = 4 BY CheckPinsIs
  <2>2. Len(s) = 11 /\ s \in Seq(Todo)
    <3>1. s \in Seq(Todo) /\ Len(s) = Len(first) + Len(CheckPins)
      BY <1>1, <1>3, <2>1, ConcatProperties
    <3> QED BY <1>1, <2>1, <3>1
  <2>3. 4 \in 1..Len(first) BY <1>1
  <2>4. s[4] = first[4]
    <3>1. \A i \in 1..Len(first) : s[i] = first[i]
      <4> SUFFICES ASSUME NEW i \in 1..Len(first) PROVE s[i] = first[i]
        OBVIOUS
      <4>1. i \in 1..(Len(first) + Len(CheckPins)) /\ i <= Len(first) BY <1>1, <2>1
      <4> QED BY <1>1, <1>3, <2>1, <4>1, ConcatProperties
    <3> QED BY <2>3, <3>1
  <2>5. 4 \in DOMAIN s /\ s # <<>> BY <2>2
  <2> QED BY <1>2, <2>4, <2>5
<1> QED BY <1>5, <1>6 DEF s

LEMMA ScriptsOK ==
    ASSUME NEW c \in Scripts PROVE ScriptOK(c.script) /\ NoReset(c.script) /\ Begins(c.script)
<1> DEFINE s == c.script
<1>1. \/ s \in {CheckPins, NoClickScript, ReadScript, WriteScript}
      \/ \E on \in {0, 1}, quick \in BOOLEAN : s = MotorScript(on, quick)
      \/ \E n \in Cylinders : s = SeekScript(n)
      \/ \E n \in {0, 1} : s = SideScript(n)
  BY DEF Scripts
<1>2. s \in Seq(Todo) BY ScriptsTyped
<1> HIDE DEF s
<1>3. CASE s = CheckPins
  <2>1. DOMAIN CheckPins = 1..4 BY DEF CheckPins
  <2>2. s[1].do = "select" BY <1>3 DEF CheckPins, Step
  <2>3. \A i \in DOMAIN s : s[i].do \in {"select", "pin", "presume", "idle"}
    BY <1>3, <2>1, CheckPinsIs
  <2>4. ScriptOK(s) /\ NoReset(s) BY <1>2, <2>3, PlainScript
  <2> QED BY <2>2, <2>4 DEF Begins, s
<1>4. CASE s = NoClickScript
  <2> DEFINE first == <<Step("select", 0), Step("noclick", 0)>>
  <2>1. first \in Seq(Todo) /\ Len(first) = 2 BY DEF Step, Todo, Steps
  <2>2. first[1].do = "select" /\ first[2].do = "noclick" BY DEF Step
  <2>3. s = first \o CheckPins BY <1>4 DEF NoClickScript
  <2> HIDE DEF first
  <2>4. \A i \in DOMAIN s : s[i].do \in {"select", "noclick", "pin", "presume", "idle"}
    BY <2>1, <2>2, <2>3, BehindOK
  <2>5. s[1] = first[1]
    <3>1. 1 \in 1..Len(first) BY <2>1
    <3> QED BY <2>1, <2>3, <3>1, CheckPinsIs, CatIs
  <2>6. ScriptOK(s) /\ NoReset(s) BY <1>2, <2>4, PlainScript
  <2> QED BY <2>2, <2>5, <2>6 DEF Begins, s
<1>5. CASE s = ReadScript
  <2>1. DOMAIN s = 1..6 BY <1>5 DEF ReadScript
  <2>2. /\ s[1].do = "select" /\ s[2].do = "read" /\ s[3].do = "stream" /\ s[4].do = "fluxstatus"
        /\ s[5].do = "idle" /\ s[6].do = "join"
    BY <1>5 DEF ReadScript, Step
  <2>3. ScriptOK(s) /\ NoReset(s) /\ Begins(s) BY <2>1, <2>2 DEF ScriptOK, NoReset, Begins
  <2> QED BY <2>3 DEF s
<1>6. CASE s = WriteScript
  <2>1. DOMAIN s = 1..6 BY <1>6 DEF WriteScript
  <2>2. /\ s[1].do = "timings" /\ s[2].do = "select" /\ s[3].do = "write" /\ s[4].do = "flux"
        /\ s[5].do = "sync" /\ s[6].do = "written"
    BY <1>6 DEF WriteScript, Step
  <2>3. ScriptOK(s) /\ NoReset(s) /\ Begins(s) BY <2>1, <2>2 DEF ScriptOK, NoReset, Begins
  <2> QED BY <2>3 DEF s
<1>7. ASSUME NEW on \in {0, 1}, NEW quick \in BOOLEAN, s = MotorScript(on, quick)
      PROVE  ScriptOK(s) /\ NoReset(s) /\ Begins(s)
  <2>1. /\ \A i \in DOMAIN s : s[i].do \in {"delay", "motor", "select", "deselect"}
        /\ s[1].do = "delay"
    BY <1>7 DEF MotorScript, Step
  <2> QED BY <1>2, <2>1, PlainScript DEF Begins
<1>8. ASSUME NEW n \in Cylinders, s = SeekScript(n)
      PROVE  ScriptOK(s) /\ NoReset(s) /\ Begins(s)
  <2>1. DOMAIN s = 1..4 BY <1>8 DEF SeekScript
  <2>2. /\ s[1].do = "range" /\ s[1].arg = n /\ s[2].do = "select" /\ s[3].do = "seek" /\ s[3].arg = n
        /\ s[4].do = "idle"
    BY <1>8 DEF SeekScript, Step
  <2>3. 1 \in 1..(3 - 1) OBVIOUS
  <2> QED BY <2>1, <2>2, <2>3 DEF ScriptOK, NoReset, Begins
<1>9. ASSUME NEW n \in {0, 1}, s = SideScript(n)
      PROVE  ScriptOK(s) /\ NoReset(s) /\ Begins(s)
  <2>1. (\A i \in DOMAIN s : s[i].do = "head") /\ s[1].do = "head" BY <1>9 DEF SideScript, Step
  <2> QED BY <1>2, <2>1, PlainScript DEF Begins
<1>10. ScriptOK(s) /\ NoReset(s) /\ Begins(s)
  <2>1. CASE s \in {CheckPins, NoClickScript, ReadScript, WriteScript}
    BY <2>1, <1>3, <1>4, <1>5, <1>6 DEF s
  <2>2. CASE \E on \in {0, 1}, quick \in BOOLEAN : s = MotorScript(on, quick) BY <2>2, <1>7
  <2>3. CASE \E n \in Cylinders : s = SeekScript(n) BY <2>3, <1>8
  <2>4. CASE \E n \in {0, 1} : s = SideScript(n) BY <2>4, <1>9
  <2> QED BY <1>1, <2>1, <2>2, <2>3, <2>4
<1> QED BY <1>10 DEF s
(* One step more, before the others.                                       *)
LEMMA Before ==
    ASSUME NEW s \in Seq(Todo), s # <<>>, ScriptOK(s), NEW x \in Todo, NEW t, t = <<x>> \o s,
           x.do \notin {"write", "flux", "seek", "reset"}, s[1].do \notin {"flux", "sync"},
           x.do = "read" <=> s[1].do = "stream",
           x.do = "purge" \/ NoReset(s)
    PROVE  /\ t \in Seq(Todo) /\ t # <<>> /\ ScriptOK(t) /\ t[1] = x
           /\ NoReset(s) <=> NoReset(t)
<1>1. /\ t \in Seq(Todo) /\ DOMAIN t = 1..(Len(s) + 1)
      /\ Len(s) \in Nat \ {0} /\ DOMAIN s = 1..Len(s)
      /\ t[1] = x /\ 1 \in DOMAIN s
      /\ \A i \in DOMAIN s : i + 1 \in DOMAIN t /\ t[i + 1] = s[i]
  <2> DEFINE first == <<x>>
  <2>1. first \in Seq(Todo) /\ Len(first) = 1 /\ first[1] = x OBVIOUS
  <2>2. t = first \o s OBVIOUS
  <2> HIDE DEF first
  <2>3. t \in Seq(Todo) /\ Len(t) = 1 + Len(s) /\ Len(s) \in Nat BY <2>1, <2>2, ConcatProperties
  <2>4. 1 \in 1..(Len(first) + Len(s)) /\ 1 <= Len(first) BY <2>1, <2>3
  <2>5. t[1] = first[1] BY <2>1, <2>2, <2>4, ConcatProperties
  <2>6. ASSUME NEW i \in 1..Len(s) PROVE t[i + 1] = s[i]
    <3> DEFINE k == i + 1
    <3>1. k \in 1..(Len(first) + Len(s)) /\ ~(k <= Len(first)) /\ k - Len(first) = i
      BY <2>1, <2>3
    <3> HIDE DEF k
    <3>2. t[k] = s[k - Len(first)] BY <2>1, <2>2, <3>1, ConcatProperties
    <3> QED BY <3>1, <3>2 DEF k
  <2>7. Len(s) # 0 BY EmptySeq
  <2> QED BY <2>1, <2>3, <2>5, <2>6, <2>7
<1>2. ASSUME NEW i \in DOMAIN t, i # 1
      PROVE  /\ i - 1 \in DOMAIN s /\ t[i] = s[i - 1]
             /\ i - 1 > 1 => i - 1 - 1 \in DOMAIN s /\ t[i - 1] = s[i - 1 - 1]
             /\ i - 1 = 1 => t[i] = s[1] /\ t[i - 1] = x
             /\ i - 1 + 1 \in DOMAIN s => i + 1 \in DOMAIN t /\ t[i + 1] = s[i - 1 + 1]
  <2>1. i - 1 \in DOMAIN s /\ i - 1 + 1 = i BY <1>1, <1>2
  <2>2. t[i] = s[i - 1] BY <1>1, <2>1
  <2>3. i - 1 > 1 => i - 1 - 1 \in DOMAIN s /\ i - 1 - 1 + 1 = i - 1 BY <1>1, <2>1
  <2>4. i \in DOMAIN s => i + 1 \in DOMAIN t /\ t[i + 1] = s[i] BY <1>1
  <2> QED BY <1>1, <2>1, <2>2, <2>3, <2>4
<1>3. ASSUME NEW i \in DOMAIN t
      PROVE  /\ t[i].do = "write" => i + 1 \in DOMAIN t /\ t[i + 1].do = "flux"
             /\ t[i].do = "flux" => i + 1 \in DOMAIN t /\ t[i + 1].do = "sync"
             /\ t[i].do = "read" => i + 1 \in DOMAIN t /\ t[i + 1].do = "stream"
  <2>1. CASE i = 1 BY <1>1, <2>1
  <2>2. CASE i # 1
    <3>1. ASSUME NEW k \in DOMAIN s
          PROVE  /\ s[k].do = "write" => k + 1 \in DOMAIN s /\ s[k + 1].do = "flux"
                 /\ s[k].do = "flux" => k + 1 \in DOMAIN s /\ s[k + 1].do = "sync"
                 /\ s[k].do = "read" => k + 1 \in DOMAIN s /\ s[k + 1].do = "stream"
      BY DEF ScriptOK
    <3> QED BY <1>2, <2>2, <3>1
  <2> QED BY <2>1, <2>2
<1>4. ASSUME NEW i \in DOMAIN t, i > 1
      PROVE  /\ t[i].do = "flux" => t[i - 1].do = "write"
             /\ t[i].do = "sync" => t[i - 1].do = "flux"
             /\ t[i].do = "stream" => t[i - 1].do = "read"
  <2>1. i - 1 \in DOMAIN s /\ t[i] = s[i - 1] BY <1>2, <1>4
  <2>2. CASE i - 1 = 1 BY <1>2, <1>4, <2>1, <2>2
  <2>3. CASE i - 1 > 1
    <3>1. ASSUME NEW k \in DOMAIN s, k > 1
          PROVE  /\ s[k].do = "flux" => s[k - 1].do = "write"
                 /\ s[k].do = "sync" => s[k - 1].do = "flux"
                 /\ s[k].do = "stream" => s[k - 1].do = "read"
      BY <3>1 DEF ScriptOK
    <3> QED BY <1>2, <1>4, <2>1, <2>3, <3>1
  <2> QED BY <1>1, <2>1, <2>2, <2>3
<1>5. ASSUME NEW i \in DOMAIN t, t[i].do = "seek"
      PROVE  \/ t[i].arg < MaxCylinders
             \/ \E j \in 1..(i - 1) : t[j].do = "range" /\ t[j].arg = t[i].arg
  <2>1. i # 1 BY <1>1, <1>5
  <2>2. i - 1 \in DOMAIN s /\ t[i] = s[i - 1] BY <1>2, <2>1
  <2>3. ASSUME NEW k \in DOMAIN s, s[k].do = "seek"
        PROVE  \/ s[k].arg < MaxCylinders
               \/ \E j \in 1..(k - 1) : s[j].do = "range" /\ s[j].arg = s[k].arg
    BY <2>3 DEF ScriptOK
  <2>4. CASE ~(t[i].arg < MaxCylinders)
    <3>1. PICK j \in 1..(i - 1 - 1) : s[j].do = "range" /\ s[j].arg = t[i].arg
      BY <1>5, <2>2, <2>3, <2>4
    <3>2. j \in DOMAIN s /\ j + 1 \in 1..(i - 1) BY <1>1, <2>2
    <3>3. t[j + 1] = s[j] BY <1>1, <3>2
    <3> QED BY <3>1, <3>2, <3>3
  <2> QED BY <2>4
<1>6. ASSUME NEW i \in DOMAIN t, t[i].do = "reset", NEW j \in DOMAIN t
      PROVE  /\ j < i => t[j].do \in {"purge", "info", "version"}
             /\ j > i => t[j].do # "reset"
  <2>1. i # 1 BY <1>1, <1>6
  <2>2. i - 1 \in DOMAIN s /\ t[i] = s[i - 1] BY <1>2, <2>1
  <2>3. CASE j = 1 BY <1>1, <1>6, <2>2, <2>3 DEF NoReset
  <2>4. CASE j # 1
    <3>1. j - 1 \in DOMAIN s /\ t[j] = s[j - 1] BY <1>2, <2>4
    <3>2. /\ j < i <=> j - 1 < i - 1
          /\ j > i <=> j - 1 > i - 1
      BY <1>1
    <3> QED BY <1>6, <2>2, <3>1, <3>2 DEF ScriptOK
  <2> QED BY <2>3, <2>4
<1>7. ScriptOK(t)
  <2>1. ASSUME NEW i \in DOMAIN t, t[i].do = "reset"
        PROVE  \A j \in DOMAIN t : /\ j < i => t[j].do \in {"purge", "info", "version"}
                                   /\ j > i => t[j].do # "reset"
    BY <1>6, <2>1
  <2>2. ASSUME NEW i \in DOMAIN t
        PROVE  /\ t[i].do = "write" => i + 1 \in DOMAIN t /\ t[i + 1].do = "flux"
               /\ t[i].do = "flux" => i + 1 \in DOMAIN t /\ t[i + 1].do = "sync"
               /\ t[i].do = "read" => i + 1 \in DOMAIN t /\ t[i + 1].do = "stream"
               /\ t[i].do = "flux" /\ i > 1 => t[i - 1].do = "write"
               /\ t[i].do = "sync" /\ i > 1 => t[i - 1].do = "flux"
               /\ t[i].do = "stream" /\ i > 1 => t[i - 1].do = "read"
               /\ t[i].do = "seek" =>
                     \/ t[i].arg < MaxCylinders
                     \/ \E j \in 1..(i - 1) : t[j].do = "range" /\ t[j].arg = t[i].arg
    BY <1>3, <1>4, <1>5
  <2> SUFFICES ASSUME NEW i \in DOMAIN t
               PROVE  /\ t[i].do = "write" => i + 1 \in DOMAIN t /\ t[i + 1].do = "flux"
                      /\ t[i].do = "flux" => i + 1 \in DOMAIN t /\ t[i + 1].do = "sync"
                      /\ t[i].do = "read" => i + 1 \in DOMAIN t /\ t[i + 1].do = "stream"
                      /\ t[i].do = "flux" /\ i > 1 => t[i - 1].do = "write"
                      /\ t[i].do = "sync" /\ i > 1 => t[i - 1].do = "flux"
                      /\ t[i].do = "stream" /\ i > 1 => t[i - 1].do = "read"
                      /\ t[i].do = "seek" =>
                            \/ t[i].arg < MaxCylinders
                            \/ \E j \in 1..(i - 1) : t[j].do = "range" /\ t[j].arg = t[i].arg
                      /\ t[i].do = "reset" =>
                            \A j \in DOMAIN t : /\ j < i => t[j].do \in {"purge", "info", "version"}
                                                /\ j > i => t[j].do # "reset"
    BY Zenon DEF ScriptOK
  <2> QED BY <2>1, <2>2
<1>8. t # <<>>
  <2>1. 1 \in DOMAIN t BY <1>1
  <2> QED BY <2>1
<1>9. NoReset(s) => NoReset(t) BY <1>1, <1>2 DEF NoReset
<1>10. NoReset(t) => NoReset(s) BY <1>1 DEF NoReset
<1> QED BY <1>1, <1>7, <1>8, <1>9, <1>10

(* read_stream's second revolution.                                        *)
LEMMA ReadAgain ==
    ASSUME NEW s \in Seq(Todo), s # <<>>, ScriptOK(s), s[1].do = "fluxstatus",
           NEW t, t = <<Step("read", 0), Step("stream", 0)>> \o s
    PROVE  ScriptOK(t) /\ t # <<>> /\ t[1].do = "read" /\ NoReset(t)
<1> DEFINE u == <<Step("stream", 0)>> \o s
<1>1. /\ Step("read", 0) \in Todo /\ Step("stream", 0) \in Todo
      /\ Step("read", 0).do = "read" /\ Step("stream", 0).do = "stream"
  BY DEF Step, Todo, Steps
<1>2. NoReset(s)
  <2> SUFFICES ASSUME NEW i \in DOMAIN s, s[i].do = "reset" PROVE FALSE BY DEF NoReset
  <2>1. i \in 1..Len(s) /\ Len(s) \in Nat OBVIOUS
  <2>2. 1 \in DOMAIN s /\ (1 < i \/ i = 1) BY <2>1
  <2> QED BY <2>2 DEF ScriptOK
<1>3. /\ u \in Seq(Todo) /\ u # <<>> /\ ScriptOK(u) /\ NoReset(u) /\ u[1] = Step("stream", 0)
  <2> DEFINE x == Step("stream", 0)
  <2>1. /\ x \in Todo /\ x.do = "stream" /\ u = <<x>> \o s BY <1>1
  <2> HIDE DEF x, u
  <2>2. /\ x.do \notin {"write", "flux", "seek", "reset"} /\ s[1].do \notin {"flux", "sync"}
        /\ x.do = "read" <=> s[1].do = "stream"
    BY <2>1
  <2>3. u \in Seq(Todo) /\ u # <<>> BY <1>2, <2>1, <2>2, Before
  <2>4. ScriptOK(u) BY <1>2, <2>1, <2>2, Before
  <2>5. NoReset(u) BY <1>2, <2>1, <2>2, Before
  <2>6. u[1] = x BY <1>2, <2>1, <2>2, Before
  <2> QED BY <2>3, <2>4, <2>5, <2>6 DEF x
<1>4. t = <<Step("read", 0)>> \o u
  <2> DEFINE a == Step("read", 0)
             b == Step("stream", 0)
             ab == <<a>> \o <<b>>
  <2>1. a \in Todo /\ b \in Todo BY <1>1
  <2> HIDE DEF a, b
  <2>2. <<a>> \in Seq(Todo) /\ <<b>> \in Seq(Todo) /\ <<a, b>> \in Seq(Todo) BY <2>1
  <2>3. <<a>> \o (<<b>> \o s) = ab \o s BY <2>2, ConcatAssociative
  <2>4. ab \in Seq(Todo) /\ Len(ab) = 2 /\ ab[1] = a /\ ab[2] = b
    <3>1. 1 \in 1..Len(<<a>>) /\ 1 \in 1..Len(<<b>>) /\ Len(<<a>>) = 1 /\ Len(<<b>>) = 1 OBVIOUS
    <3>2. ab \in Seq(Todo) /\ Len(ab) = 1 + 1 BY <2>2, <3>1, ConcatProperties
    <3>3. 1 \in 1..(1 + 1) /\ 2 \in 1..(1 + 1) /\ 1 <= 1 /\ ~(2 <= 1) /\ 2 - 1 = 1 OBVIOUS
    <3>4. ab[1] = <<a>>[1] BY <2>2, <3>1, <3>3, ConcatProperties
    <3>5. ab[2] = <<b>>[2 - 1] BY <2>2, <3>1, <3>3, ConcatProperties
    <3> QED BY <3>2, <3>4, <3>5
  <2> HIDE DEF ab
  <2>5. ab = <<a, b>> BY <2>2, <2>4, SeqEqual
  <2> QED BY <2>3, <2>5 DEF a, b
<1>5. ScriptOK(t) /\ t # <<>> /\ NoReset(t) /\ t[1] = Step("read", 0)
  <2> DEFINE x == Step("read", 0)
  <2>1. /\ x \in Todo /\ x.do = "read" /\ t = <<x>> \o u /\ u[1].do = "stream" BY <1>1, <1>3, <1>4
  <2> HIDE DEF x, u
  <2>2. /\ x.do \notin {"write", "flux", "seek", "reset"} /\ u[1].do \notin {"flux", "sync"}
        /\ x.do = "read" <=> u[1].do = "stream"
    BY <2>1
  <2>3. u \in Seq(Todo) /\ u # <<>> /\ ScriptOK(u) /\ NoReset(u) BY <1>3
  <2>4. ScriptOK(t) BY ONLY <2>1, <2>2, <2>3, Before
  <2>5. t # <<>> /\ t[1] = x BY <2>1, <2>2, <2>3, Before
  <2>6. NoReset(t) BY <2>1, <2>2, <2>3, Before
  <2> QED BY <2>4, <2>5, <2>6 DEF x
<1> QED BY <1>1, <1>5
(* What a failed step leaves.                                              *)
LEMMA FailScript ==
    ASSUME TypeOK, ~Idle, Fail, ScriptOK(script)
    PROVE  /\ ScriptOK(script') /\ (NoReset(script) => NoReset(script'))
           /\ script' = <<>> \/ Begins(script')
           /\ phase' = "send"
           /\ \/ /\ opened = "opening" /\ opened' = "opening" /\ outcome' = outcome /\ Now = "info"
                 /\ Ahead("reset") => Ahead("reset")'
              \/ opened = "opening" /\ opened' = "closing" /\ script' = DropScript
              \/ opened = "closing" /\ opened' = "closed" /\ script' = <<>> /\ outcome' = "failed"
              \/ opened \notin {"opening", "closing"} /\ UNCHANGED opened /\ script' = <<>>
                 /\ outcome' = "failed"
<1>1. ScriptOK(<<>>) /\ NoReset(<<>>) BY DEF ScriptOK, NoReset
<1>2. CASE opened = "opening" /\ Now = "info" /\ attempt = 1
  <2> DEFINE x == Step("purge", 0)
  <2>1. script' = <<x>> \o script /\ UNCHANGED <<opened, outcome>> /\ phase' = "send"
    BY <1>2 DEF Fail
  <2>2. x \in Todo /\ x.do = "purge" BY DEF Step, Todo, Steps
  <2>3. script \in Seq(Todo) /\ script # <<>> /\ script[1].do = "info"
    BY <1>2 DEF TypeOK, Idle, Now
  <2> HIDE DEF x
  <2>4. /\ x.do \notin {"write", "flux", "seek", "reset"} /\ script[1].do \notin {"flux", "sync"}
        /\ x.do = "read" <=> script[1].do = "stream"
    BY <2>2, <2>3
  <2>5. ScriptOK(script') BY <2>1, <2>2, <2>3, <2>4, Before
  <2>6. script' # <<>> /\ script'[1] = x
    <3>1. script' # <<>> BY <2>1, <2>2, <2>3, <2>4, Before
    <3>2. script'[1] = x BY ONLY <2>1, <2>2, <2>3, <2>4, Before
    <3> QED BY <3>1, <3>2
  <2>7. NoReset(script) <=> NoReset(script') BY <2>1, <2>2, <2>3, <2>4, Before
  <2>9. Ahead("reset") => Ahead("reset")' BY <2>7 DEF Ahead, NoReset
  <2>10. Begins(script') BY <2>2, <2>6 DEF Begins
  <2> QED BY <1>2, <2>1, <2>5, <2>7, <2>9, <2>10
<1>3. CASE ~(opened = "opening" /\ Now = "info" /\ attempt = 1)
  <2>1. /\ phase' = "send" /\ outcome' = "failed"
        /\ script' = IF opened = "opening" THEN DropScript ELSE <<>>
        /\ opened' = CASE opened = "opening" -> "closing"
                       [] opened = "closing" -> "closed"
                       [] OTHER -> opened
    BY <1>3 DEF Fail
  <2>2. CASE opened = "opening"
    <3>1. script' = DropScript /\ opened' = "closing" BY <2>1, <2>2
    <3> QED BY <2>1, <2>2, <3>1, DropIs
  <2>3. CASE opened # "opening" BY <1>1, <2>1, <2>3
  <2> QED BY <2>2, <2>3
<1> QED BY <1>2, <1>3

-----------------------------------------------------------------------------
(* The link in step.                                                       *)
Quiet == Silent /\ Agrees(drv) /\ ~fw.writing

LEMMA QuietNext ==
    ASSUME TypeOK', Quiet', phase' = "send", script' = <<>> \/ Begins(script') PROVE Exchange'
<1>1. Silent' /\ Agrees(drv)' /\ ~fw'.writing BY DEF Quiet
<1>2. Idle' \/ Now' \notin {"flux", "stream", "sync"} BY DEF Begins, Now, Idle
<1>3. phase' # "ack" /\ phase' # "payload" OBVIOUS
<1>4. fw'.writing = FALSE BY <1>1 DEF TypeOK
<1> QED BY <1>1, <1>2, <1>3, <1>4 DEF Exchange

(* What is told apart of the driver's state and of the link.               *)
LEMMA NoResetAhead == Ahead("reset") <=> ~NoReset(script)
BY DEF Ahead, NoReset
LEMMA NoResetAheadNext == Ahead("reset")' <=> ~NoReset(script')
BY DEF Ahead, NoReset

(* A step that needs no exchange, and one that failed, leave it silent.    *)
LEMMA SkipSynced ==
    ASSUME TypeOK, TypeOK', ScriptOK(script), Synced, Skip
    PROVE  ScriptOK(script') /\ Synced'
<1>1. ~Idle /\ phase = "send" /\ Now \notin {"stream", "sync", "flux", "write", "read"}
      /\ UNCHANGED <<wire, outbox, fw>> /\ ((Advance /\ ~OutOfRange) \/ Fail)
  BY DEF Skip, Local
<1>2. Quiet BY <1>1 DEF Synced, Exchange, Quiet
<1>3. inbox = <<>> /\ outbox = <<>> BY <1>2, LinkOf, LinkIs DEF Quiet, Silent
<1>4. inbox' = <<>> BY <1>3 DEF Skip
<1>5. Quiet'
  <2>1. Link' = Link BY <1>1, <1>3, <1>4 DEF Link
  <2>2. Agrees(drv)' BY <1>1, <1>2 DEF Skip, Agrees, Quiet, TypeOK
  <2> QED BY <1>1, <1>2, <2>1, <2>2 DEF Quiet, Silent
<1>6. ~Ahead("reset") BY DEF Synced
<1>7. /\ ScriptOK(script') /\ NoReset(script') /\ phase' = "send"
      /\ script' = <<>> \/ Begins(script')
  <2>1. CASE Advance /\ ~OutOfRange
    BY <1>1, <1>6, <2>1, AdvanceScript, NoResetAhead DEF Advance
  <2>2. CASE Fail BY <1>1, <1>6, <2>2, FailScript, NoResetAhead
  <2> QED BY <1>1, <2>1, <2>2
<1> QED BY <1>5, <1>7, QuietNext, NoResetAheadNext DEF Synced

LEMMA SendSynced ==
    ASSUME TypeOK, TypeOK', ScriptOK(script), Synced, Send
    PROVE  ScriptOK(script') /\ Synced'
<1>1. /\ ~Idle /\ phase = "send" /\ Now \notin {"stream", "sync", "flux"} /\ ~Local
      /\ UNCHANGED <<script, outbox, inbox, fw>> /\ phase' = "ack" /\ wire' = Append(wire, Packet)
  BY DEF Send
<1>2. Quiet BY <1>1 DEF Synced, Exchange, Quiet
<1>3. wire' = <<Packet>> /\ Link' = <<>> BY <1>1, <1>2 DEF Quiet, Silent, Link
<1>4. Agrees(drv)' BY <1>1, <1>2 DEF Send, Agrees, Quiet, TypeOK
<1>5. Packet' = Packet /\ Now' = Now BY <1>1 DEF Packet, Now, Arg, Send
<1>6. Packet.do \in DOMAIN Code BY <1>1, PacketTyped
<1>7. Exchange' BY <1>1, <1>2, <1>3, <1>4, <1>5, <1>6 DEF Exchange, Quiet
<1> QED BY <1>1, <1>7 DEF Synced, Ahead

LEMMA SendFluxSynced ==
    ASSUME TypeOK, TypeOK', ScriptOK(script), Synced, SendFlux, PunctualAnswers
    PROVE  ScriptOK(script') /\ Synced'
<1>1. ~Idle /\ phase = "send" /\ Now = "flux" /\ Advance /\ ~OutOfRange
      /\ UNCHANGED <<drv, outbox, inbox, fw>> /\ wire' = Append(wire, Step("flux", 0))
  BY DEF SendFlux, OutOfRange, PunctualAnswers, TypeOK
<1>2. Silent /\ Agrees(drv) /\ fw.writing BY <1>1 DEF Synced, Exchange
<1>3. wire' = <<Step("flux", 0)>> /\ Link' = <<>> BY <1>1, <1>2 DEF Silent, Link
<1>4. Agrees(drv)' /\ fw'.writing BY <1>1, <1>2 DEF Agrees
<1>5. /\ ScriptOK(script') /\ NoReset(script') /\ phase' = "send"
      /\ script' # <<>> /\ script'[1].do = "sync"
  BY <1>1, AdvanceScript, NoResetAhead DEF Synced, Advance
<1>6. Exchange' BY <1>3, <1>4, <1>5 DEF Exchange, Now, Idle
<1> QED BY <1>5, <1>6, NoResetAheadNext DEF Synced
LEMMA DroppedAll ==
    ASSUME Link' \in Seq(Byte), NEW n, Dropped(n), Len(Link) = n PROVE Link' = <<>>
<1>1. Len(Link') = 0 BY DEF Dropped
<1> QED BY <1>1, EmptySeq

LEMMA StreamDropped ==
    ASSUME Link \in Seq(Byte), Link' \in Seq(Byte), NEW n \in Nat, Dropped(n), NEW k \in Nat \ {0},
           Len(Link) >= k + n, StreamFrom(k + n)
    PROVE  StreamFrom(k)'
<1> DEFINE l == Len(Link)
           m == Len(Link')
<1>1. l \in Nat /\ m \in Nat /\ m = l - n BY DEF Dropped
<1>2. Link[l] = 0 /\ \A i \in (k + n)..(l - 1) : Link[i] # 0 BY DEF StreamFrom
<1>3. m >= k /\ m \in 1..m /\ m + n = l BY ONLY <1>1, l >= k + n, n \in Nat, k \in Nat \ {0}
<1>4. \A i \in 1..m : Link'[i] = Link[i + n] BY DEF Dropped
<1> HIDE DEF l, m
<1>5. Link'[m] = 0 BY <1>2, <1>3, <1>4
<1>6. ASSUME NEW i \in k..(m - 1) PROVE Link'[i] # 0
  <2>1. i \in 1..m /\ i + n \in (k + n)..(l - 1) BY <1>1, <1>3
  <2> QED BY <1>2, <1>4, <2>1
<1> QED BY <1>3, <1>5, <1>6 DEF StreamFrom, m

(* Where an acknowledgement has arrived, it is at the front of the link.   *)
LEMMA AckFront ==
    ASSUME TypeOK, TypeOK', Acknowledge
    PROVE  /\ ~Idle /\ phase = "ack" /\ UNCHANGED <<wire, outbox, fw>>
           /\ Len(Link) >= 2 /\ Link \in Seq(Byte) /\ Link' \in Seq(Byte)
           /\ Link[1] = inbox[1] /\ Link[2] = inbox[2]
<1>1. phase = "ack" /\ ~Idle /\ Len(inbox) >= 2 /\ UNCHANGED <<wire, outbox, fw>>
  BY DEF Acknowledge, TypeOK
<1>2. inbox \in Seq(Byte) /\ outbox \in Seq(Byte) /\ inbox' \in Seq(Byte)
  BY LinkOf DEF TypeOK
<1>3. 1 \in 1..Len(inbox) /\ 2 \in 1..Len(inbox) BY <1>1, <1>2
<1>4. Len(Link) = Len(inbox) + Len(outbox) /\ Link \in Seq(Byte)
      /\ Len(inbox) \in Nat /\ Len(outbox) \in Nat
  BY <1>2, LinkIs
<1>5. \A i \in 1..Len(inbox) : Link[i] = inbox[i] BY <1>2, LinkIs
<1>6. Link' \in Seq(Byte) BY <1>1, <1>2, ConcatProperties DEF Link
<1> QED BY <1>1, <1>3, <1>4, <1>5, <1>6

LEMMA AcknowledgeSynced ==
    ASSUME TypeOK, TypeOK', ScriptOK(script), Synced, Acknowledge
    PROVE  /\ ScriptOK(script') /\ Synced'
           /\ Accepted(inbox[2]) /\ Now = "motor" => fw.motor = (Arg = 1)
<1>1. /\ ~Idle /\ phase = "ack" /\ UNCHANGED <<wire, outbox, fw>>
      /\ Len(Link) >= 2 /\ Link \in Seq(Byte) /\ Link' \in Seq(Byte)
      /\ Link[1] = inbox[1] /\ Link[2] = inbox[2]
  BY AckFront
<1>2. Answered /\ Now \notin {"stream", "sync", "flux"}
  <2>1. Link # <<>> BY <1>1
  <2> QED BY <1>1, <2>1 DEF Synced, Exchange
<1>3. wire' = <<>> /\ Echoed BY <1>1, <1>2 DEF Answered, Echoed
<1>4. NoReset(script) BY NoResetAhead DEF Synced
<1>5. inbox \in Seq(Byte) /\ outbox \in Seq(Byte) /\ Len(inbox) >= 2
  BY LinkOf DEF Acknowledge
<1>6. inbox[2] # AckOk => Len(Link) = 2 /\ Agrees(drv) /\ ~fw.writing
  BY <1>1, <1>2 DEF Answered
<1>7. CASE Refused(inbox[2])
  <2>1. Len(Link) = 2 /\ Agrees(drv) /\ ~fw.writing /\ Fail /\ inbox[2] # AckOk
        /\ inbox' = SubSeq(inbox, 3, Len(inbox))
    BY <1>3, <1>6, <1>7 DEF Refused
  <2>2. Link' = <<>>
    <3>1. Dropped(2) BY <1>1, <1>5, <2>1, DropTwo
    <3> QED BY <1>1, <2>1, <3>1, DroppedAll
  <2>3. drv' = drv \/ drv' = [drv EXCEPT !.present = FALSE] BY <1>7 DEF Refused
  <2>4. Agrees(drv)' BY <1>1, <2>1, <2>3 DEF Agrees, TypeOK
  <2>5. Quiet' BY <1>1, <1>3, <2>1, <2>2, <2>4 DEF Quiet, Silent
  <2>6. /\ ScriptOK(script') /\ NoReset(script') /\ phase' = "send"
        /\ script' = <<>> \/ Begins(script')
    BY <1>1, <1>4, <2>1, FailScript
  <2>7. ~Accepted(inbox[2]) BY <2>1 DEF Accepted
  <2> QED BY <2>5, <2>6, <2>7, QuietNext, NoResetAheadNext DEF Synced
<1>8. CASE Retried(inbox[2])
  <2>1. /\ inbox' = <<>> /\ script' = <<Step("read", 0), Step("stream", 0)>> \o script
        /\ phase' = "send" /\ drv' = drv /\ Now = "fluxstatus" /\ inbox[2] # AckOk
    BY <1>8 DEF Retried, Retry, AckOk, AckFluxOverflow
  <2>2. Link' = <<>>
    <3>1. Dropped(Len(inbox)) /\ Link' = outbox BY <1>1, <1>5, <2>1, DropAll
    <3>2. Len(Link) = Len(inbox) + Len(outbox) /\ Len(outbox) \in Nat /\ Len(inbox) \in Nat
      BY <1>5, LinkIs
    <3>3. Len(outbox) = 0 BY <1>5, <1>6, <2>1, <3>2
    <3> QED BY <1>5, <3>1, <3>3, EmptySeq
  <2>3. Agrees(drv)' BY <1>1, <1>6, <2>1 DEF Agrees
  <2>4. Quiet' BY <1>1, <1>3, <1>6, <2>1, <2>2, <2>3 DEF Quiet, Silent
  <2>5. script \in Seq(Todo) /\ script # <<>> /\ script[1].do = "fluxstatus"
    BY <1>1, <2>1 DEF TypeOK, Idle, Now
  <2>6. ScriptOK(script') /\ NoReset(script') /\ script'[1].do = "read"
    BY <2>1, <2>5, ReadAgain
  <2>7. Begins(script') BY <2>6 DEF Begins
  <2>8. ~Accepted(inbox[2]) BY <2>1 DEF Accepted
  <2> QED BY <2>1, <2>4, <2>6, <2>7, <2>8, QuietNext, NoResetAheadNext DEF Synced
<1>9. CASE Accepted(inbox[2])
  <2>1. /\ inbox[2] = AckOk /\ Agrees(Recorded) /\ fw.writing = (Now = "write")
        /\ IF Now = "read" THEN StreamFrom(3) ELSE Len(Link) = IF Payload THEN 3 ELSE 2
    BY <1>1, <1>2, <1>9 DEF Accepted, Answered
  <2>2. Dropped(2) BY <1>5, <1>1, <1>9, DropTwo DEF Accepted
  <2>3. CASE Payload
    <3>1. phase' = "payload" /\ UNCHANGED <<script, drv>> BY <1>9, <2>3 DEF Accepted
    <3>2. Now \notin {"read", "write", "motor"} /\ Recorded = drv
      BY <2>3 DEF Payload, Recorded
    <3>3. Len(Link') = 1 BY <1>1, <2>1, <2>2, <2>3, <3>2 DEF Dropped
    <3>4. Payload' /\ Now' = Now /\ Agrees(drv)' /\ ~fw'.writing
      BY <1>1, <2>1, <2>3, <3>1, <3>2 DEF Payload, Now, Agrees
    <3>5. Exchange' BY <1>3, <3>1, <3>3, <3>4 DEF Exchange
    <3> QED BY <1>4, <3>1, <3>2, <3>5, NoResetAheadNext DEF Synced
  <2>4. CASE ~Payload
    <3>1. Advance /\ drv' = Recorded BY <1>9, <2>4 DEF Accepted
    <3>2. /\ ScriptOK(script') /\ NoReset(script') /\ phase' = "send"
          /\ Now = "write" => script' # <<>> /\ script'[1].do = "flux"
          /\ Now = "read" => script' # <<>> /\ script'[1].do = "stream"
          /\ Now \notin {"write", "flux", "read"} /\ script' # <<>> => Begins(script')
      <4>1. ~OutOfRange
        <5>1. Packet.do \in DOMAIN Code BY <1>1 DEF Synced, Exchange
        <5>2. Now = "range" => Packet.do = "range" BY DEF Packet, Now
        <5> QED BY <5>1, <5>2, CodeIs DEF OutOfRange
      <4> QED BY <1>1, <1>4, <3>1, <4>1, AdvanceScript DEF Advance
    <3>3. Agrees(drv)' BY <1>1, <2>1, <3>1 DEF Agrees
    <3>4. Now = "motor" => fw.motor = (Arg = 1)
      BY <2>1 DEF Agrees, Recorded, TypeOK
    <3>5. CASE Now = "read"
      <4>1. StreamFrom(1)'
        <5>1. StreamFrom(1 + 2) /\ Len(Link) >= 1 + 2 BY <2>1, <3>5 DEF StreamFrom
        <5> QED BY <1>1, <2>2, <5>1, StreamDropped
      <4>2. Exchange' BY <1>1, <1>3, <2>1, <3>2, <3>3, <3>5, <4>1 DEF Exchange, Now, Idle
      <4> QED BY <3>2, <3>4, <4>2, NoResetAheadNext DEF Synced
    <3>6. CASE Now # "read"
      <4>1. Link' = <<>> BY <1>1, <2>1, <2>2, <2>4, <3>6, DroppedAll
      <4>2. CASE Now = "write"
        <5>1. Exchange' BY <1>1, <1>3, <2>1, <3>2, <3>3, <4>1, <4>2 DEF Exchange, Now, Idle, Silent
        <5> QED BY <3>2, <3>4, <5>1, NoResetAheadNext DEF Synced
      <4>3. CASE Now # "write"
        <5>1. Quiet' BY <1>1, <1>3, <2>1, <3>3, <4>1, <4>3 DEF Quiet, Silent
        <5> QED BY <1>2, <3>2, <3>4, <3>6, <4>3, <5>1, QuietNext, NoResetAheadNext DEF Synced
      <4> QED BY <4>2, <4>3
    <3> QED BY <3>5, <3>6
  <2> QED BY <2>3, <2>4
<1> QED BY <1>7, <1>8, <1>9 DEF Acknowledge
LEMMA PayloadSynced ==
    ASSUME TypeOK, TypeOK', ScriptOK(script), Synced, TakePayload
    PROVE  ScriptOK(script') /\ Synced' /\ Now # "motor"
<1>1. phase = "payload" /\ ~Idle /\ inbox # <<>> /\ Advance /\ inbox' = Tail(inbox)
      /\ UNCHANGED <<wire, outbox, fw>>
  BY DEF TakePayload, TypeOK
<1>2. Payload /\ wire = <<>> /\ Len(Link) = 1 /\ Agrees(drv) /\ ~fw.writing
  BY <1>1 DEF Synced, Exchange
<1>3. inbox \in Seq(Byte) /\ outbox \in Seq(Byte) /\ inbox' \in Seq(Byte) /\ Link' \in Seq(Byte)
  <2>1. inbox \in Seq(Byte) /\ outbox \in Seq(Byte) /\ inbox' \in Seq(Byte) BY LinkOf DEF TypeOK
  <2> QED BY <1>1, <2>1, ConcatProperties DEF Link
<1>4. Link' = <<>> BY <1>1, <1>2, <1>3, DropOne, DroppedAll
<1>5. Agrees(drv)'
  <2>1. \/ drv' = drv
        \/ \E v \in BOOLEAN : drv' = [drv EXCEPT !.protected = v] \/ drv' = [drv EXCEPT !.present = v]
        \/ drv' = [drv EXCEPT !.delay = inbox[1]]
    BY DEF TakePayload, PinRead
  <2>2. UNCHANGED <<drv.selected, drv.motor, drv.cyl, drv.side>> BY <2>1 DEF TypeOK
  <2> QED BY <1>1, <1>2, <2>2 DEF Agrees
<1>6. Quiet' BY <1>1, <1>2, <1>4, <1>5 DEF Quiet, Silent
<1>7. Now \in {"info", "params", "pin"} /\ ~OutOfRange BY <1>2 DEF Payload, OutOfRange
<1>8. /\ ScriptOK(script') /\ NoReset(script') /\ phase' = "send"
      /\ script' = <<>> \/ Begins(script')
  BY <1>1, <1>7, AdvanceScript, NoResetAhead DEF Synced, Advance
<1> QED BY <1>6, <1>7, <1>8, QuietNext, NoResetAheadNext DEF Synced

LEMMA StreamSynced ==
    ASSUME TypeOK, TypeOK', ScriptOK(script), Synced, TakeStream
    PROVE  ScriptOK(script') /\ Synced'
<1>1. ~Idle /\ Now = "stream" /\ inbox # <<>> /\ inbox' = <<>>
      /\ UNCHANGED <<drv, wire, outbox, fw>>
  BY DEF TakeStream
<1>2. phase = "send"
  <2>1. phase \in {"send", "ack", "payload"} BY DEF TypeOK
  <2>2. phase # "ack" /\ phase # "payload" BY <1>1 DEF Synced, Exchange, Payload
  <2> QED BY <2>1, <2>2
<1>3. wire = <<>> /\ Agrees(drv) /\ ~fw.writing /\ StreamFrom(1)
  BY <1>1, <1>2 DEF Synced, Exchange
<1>4. inbox \in Seq(Byte) /\ outbox \in Seq(Byte) BY LinkOf
<1>5. /\ Len(Link) = Len(inbox) + Len(outbox) /\ Len(inbox) \in Nat \ {0} /\ Len(outbox) \in Nat
      /\ \A i \in 1..Len(inbox) : Link[i] = inbox[i]
      /\ Link \in Seq(Byte)
  <2>1. Len(inbox) # 0 BY <1>1, <1>4, EmptySeq
  <2>2. Len(Link) = Len(inbox) + Len(outbox) /\ Len(inbox) \in Nat /\ Len(outbox) \in Nat
        /\ Link \in Seq(Byte)
    BY <1>4, LinkIs
  <2>3. \A i \in 1..Len(inbox) : Link[i] = inbox[i] BY <1>4, LinkIs
  <2> QED BY <2>1, <2>2, <2>3
<1>6. Dropped(Len(inbox)) /\ Link' = outbox BY <1>1, <1>4, DropAll
<1>7. Link[Len(Link)] = 0 /\ \A i \in 1..(Len(Link) - 1) : Link[i] # 0 BY <1>3 DEF StreamFrom
<1>8. Agrees(drv)' /\ ~fw'.writing /\ wire' = <<>> BY <1>1, <1>3 DEF Agrees
<1>9. CASE \E i \in DOMAIN inbox : inbox[i] = 0
  <2>1. PICK i \in 1..Len(inbox) : inbox[i] = 0 BY <1>4, <1>9
  <2>2. Link[i] = 0 BY <1>5, <2>1
  <2>3. i = Len(Link)
    <3> DEFINE l == Len(Link)
               n == Len(inbox)
               o == Len(outbox)
    <3>1. l = n + o /\ n \in Nat /\ o \in Nat /\ i \in 1..n BY <1>5
    <3>2. i \notin 1..(l - 1) BY <1>7, <2>2
    <3> HIDE DEF l, n, o
    <3>3. i = l BY ONLY <3>1, <3>2
    <3> QED BY <3>3 DEF l
  <2>4. Len(outbox) = 0 BY <1>5, <2>3
  <2>5. Link' = <<>> BY <1>4, <1>6, <2>4, EmptySeq
  <2>6. Quiet' BY <1>8, <2>5 DEF Quiet, Silent
  <2>7. /\ ScriptOK(script') /\ NoReset(script') /\ phase' = "send"
        /\ script' = <<>> \/ Begins(script')
    <3>1. Advance \/ Fail BY <1>9 DEF TakeStream
    <3>2. ~OutOfRange /\ NoReset(script) BY <1>1, NoResetAhead DEF OutOfRange, Synced
    <3>3. CASE Advance BY <1>1, <3>2, <3>3, AdvanceScript DEF Advance
    <3>4. CASE Fail BY <1>1, <3>2, <3>4, FailScript
    <3> QED BY <3>1, <3>3, <3>4
  <2> QED BY <2>6, <2>7, QuietNext, NoResetAheadNext DEF Synced
<1>10. CASE ~\E i \in DOMAIN inbox : inbox[i] = 0
  <2>1. UNCHANGED <<script, phase>> BY <1>10 DEF TakeStream
  <2>2. Len(outbox) >= 1
    <3> SUFFICES ASSUME Len(outbox) = 0 PROVE FALSE BY <1>5
    <3>1. Len(Link) = Len(inbox) /\ Len(inbox) \in 1..Len(inbox) BY <1>5
    <3>2. inbox[Len(inbox)] = 0 BY <1>5, <1>7, <3>1
    <3> QED BY <1>4, <1>10, <3>1, <3>2
  <2>3. StreamFrom(1)'
    <3> DEFINE l == Len(Link)
               n == Len(inbox)
               o == Len(outbox)
    <3>1. l = n + o /\ n \in Nat \ {0} /\ o \in Nat /\ o >= 1 /\ Len(Link') = o /\ l \in Nat
      BY <1>5, <1>6, <2>2
    <3>2. \A i \in 1..Len(Link') : Link'[i] = Link[i + n] BY <1>6 DEF Dropped
    <3>3. Link[l] = 0 /\ \A i \in 1..(l - 1) : Link[i] # 0 BY <1>7
    <3> HIDE DEF l, n, o
    <3>4. o \in 1..o /\ o + n = l BY <3>1
    <3>5. Link'[o] = 0 BY <3>1, <3>2, <3>3, <3>4
    <3>6. ASSUME NEW i \in 1..(o - 1) PROVE Link'[i] # 0
      <4>1. i \in 1..o /\ i + n \in 1..(l - 1) BY <3>1, <3>4
      <4> QED BY <3>1, <3>2, <3>3, <4>1
    <3> QED BY <3>1, <3>5, <3>6 DEF StreamFrom
  <2>4. Exchange' BY <1>1, <1>2, <1>8, <2>1, <2>3 DEF Exchange, Now, Idle
  <2> QED BY <2>1, <2>4 DEF Synced, Ahead
<1> QED BY <1>9, <1>10

LEMMA SyncSynced ==
    ASSUME TypeOK, TypeOK', ScriptOK(script), Synced, TakeSync
    PROVE  ScriptOK(script') /\ Synced'
<1>1. ~Idle /\ Now = "sync" /\ inbox # <<>> /\ inbox' = Tail(inbox) /\ Advance
      /\ UNCHANGED <<drv, wire, outbox, fw>>
  BY DEF TakeSync
<1>2. phase = "send"
  <2>1. phase \in {"send", "ack", "payload"} BY DEF TypeOK
  <2>2. phase # "ack" /\ phase # "payload" BY <1>1 DEF Synced, Exchange, Payload
  <2> QED BY <2>1, <2>2
<1>3. inbox \in Seq(Byte) /\ outbox \in Seq(Byte) BY LinkOf
<1>4. Link # <<>> BY <1>1, <1>3, LinkIs
<1>5. wire = <<>> /\ Agrees(drv) /\ ~fw.writing /\ Len(Link) = 1
  BY <1>1, <1>2, <1>4 DEF Synced, Exchange
<1>6. Link' = <<>>
  <2>1. Link' \in Seq(Byte)
    <3>1. inbox' \in Seq(Byte) BY <1>1, <1>3, DropOne
    <3> QED BY <1>1, <1>3, <3>1, ConcatProperties DEF Link
  <2> QED BY <1>1, <1>3, <1>5, <2>1, DropOne, DroppedAll
<1>7. Quiet' BY <1>1, <1>5, <1>6 DEF Quiet, Silent, Agrees
<1>8. ~OutOfRange BY <1>1 DEF OutOfRange
<1>9. /\ ScriptOK(script') /\ NoReset(script') /\ phase' = "send"
      /\ script' = <<>> \/ Begins(script')
  BY <1>1, <1>8, AdvanceScript, NoResetAhead DEF Synced, Advance
<1> QED BY <1>7, <1>9, QuietNext, NoResetAheadNext DEF Synced

(* In step, an answer is always under way or read: no deadline passes.     *)
LEMMA NeverLate ==
    ASSUME TypeOK, PunctualAnswers, Synced PROVE ~Deadline
<1> SUFFICES ASSUME Deadline PROVE FALSE OBVIOUS
<1>1. Reading /\ Len(inbox) < (IF phase = "ack" THEN 2 ELSE 1) /\ ~UnderWay
  BY DEF Deadline, PunctualAnswers, TypeOK
<1>2. inbox \in Seq(Byte) /\ outbox \in Seq(Byte) /\ wire = <<>> /\ outbox = <<>>
  BY <1>1, LinkOf DEF UnderWay
<1>3. Len(Link) = Len(inbox) /\ Len(inbox) \in Nat
  <2>1. Len(Link) = Len(inbox) + Len(outbox) /\ Len(inbox) \in Nat BY <1>2, LinkIs
  <2>2. Len(outbox) = 0 BY <1>2
  <2> QED BY <2>1, <2>2
<1>4. CASE phase = "ack"
  <2>1. Answered BY <1>2, <1>4 DEF Synced, Exchange
  <2> QED BY <1>1, <1>3, <1>4, <2>1 DEF Answered
<1>5. CASE phase = "payload" BY <1>1, <1>3, <1>5 DEF Synced, Exchange
<1>6. CASE phase = "send"
  <2>1. ~Idle /\ Now \in {"stream", "sync"} BY <1>1, <1>6 DEF Reading
  <2>2. Len(Link) >= 1
    <3>1. CASE Now = "stream" BY <1>6, <2>1, <3>1 DEF Synced, Exchange, StreamFrom
    <3>2. CASE Now = "sync"
      <4>1. Link = <<0>> BY <1>2, <1>6, <2>1, <3>2 DEF Synced, Exchange
      <4> QED BY <4>1
    <3> QED BY <2>1, <3>1, <3>2
  <2> QED BY <1>1, <1>3, <1>6, <2>2
<1> QED BY <1>4, <1>5, <1>6 DEF TypeOK
(* The firmware's answer is the whole of what is to be read.               *)
LEMMA AnswerAlone ==
    ASSUME TypeOK, TypeOK', Link = <<>>, UNCHANGED inbox, NEW b \in Seq(Byte), Answer(b)
    PROVE  Link' = b
<1>1. Link' = Link \o b BY LinkOf, Answers DEF Answer
<1> QED BY <1>1, ConcatEmptySeq

LEMMA FirmwareSynced ==
    ASSUME TypeOK, TypeOK', ScriptOK(script), Synced, Firmware
    PROVE  /\ ScriptOK(script') /\ Synced'
           /\ fw.motor' # fw.motor => phase = "ack" /\ ~Idle /\ Now = "motor" /\ fw.motor' = (Arg = 1)
<1>1. /\ wire # <<>> /\ wire' = Tail(wire) /\ UNCHANGED <<script, phase, drv, inbox, disk>>
  BY DEF Firmware, driverVars, worldVars
<1>2. /\ (Idle' <=> Idle) /\ Now' = Now /\ Arg' = Arg /\ Packet' = Packet /\ Recorded' = Recorded
      /\ Payload' = Payload /\ NoReset(script)
  BY <1>1, NoResetAhead DEF Idle, Now, Arg, Packet, Recorded, Payload, Synced
<1>3. CASE phase = "send"
  <2>1. ~Idle /\ Now = "sync" /\ Agrees(drv) /\ wire = <<Step("flux", 0)>> /\ Link = <<>> /\ fw.writing
    BY <1>1, <1>3 DEF Synced, Exchange, Silent
  <2>2. Head(wire).do = "flux" /\ wire' = <<>> BY <1>1, <2>1 DEF Step
  <2>3. TakesFlux(Head(wire))
    BY <2>1, <2>2 DEF Firmware, TellsFlux, Writes, Reads, Refuses, Obeys, Plain, Heeds
  <2>4. Answer(<<0>>) /\ \E s \in {AckOk, AckFluxUnderflow} :
                            fw' = [fw EXCEPT !.writing = FALSE, !.flux = s]
    BY <2>1, <2>2, <2>3 DEF TakesFlux
  <2>5. Link' = <<0>>
    <3>1. <<0>> \in Seq(Byte) BY DEF Byte
    <3> QED BY <1>1, <2>1, <2>4, <3>1, AnswerAlone
  <2>6. ~fw'.writing /\ UNCHANGED <<fw.selected, fw.motor, fw.cyl, fw.side, fw.placed>> BY <2>4 DEF TypeOK
  <2>7. Agrees(drv)' BY <1>1, <2>1, <2>6 DEF Agrees
  <2>8. Exchange' BY <1>1, <1>2, <1>3, <2>1, <2>2, <2>5, <2>6, <2>7 DEF Exchange
  <2> QED BY <1>1, <1>2, <2>6, <2>8, NoResetAheadNext DEF Synced
<1>4. CASE phase = "ack"
  <2> DEFINE p == Packet
  <2>1. /\ wire = <<p>> /\ Link = <<>> /\ Agrees(drv) /\ ~fw.writing /\ p.do \in DOMAIN Code
        /\ Now \notin {"stream", "sync", "flux"} /\ ~Idle
    BY <1>1, <1>4 DEF Synced, Exchange, Answered, TypeOK
  <2>2. Head(wire) = p /\ wire' = <<>> BY <1>1, <2>1
  <2>3. p.do # "flux" /\ Code[p.do] \in Byte /\ AckOk \in Byte /\ AckBadCommand \in Byte
        /\ AckWriteProtected \in Byte /\ fw.flux \in Byte
    BY <2>1, CodeIs DEF AckOk, AckBadCommand, AckWriteProtected, Byte, TypeOK
  <2>4. /\ p.do = "write" => Now = "write"
        /\ p.do = "read" <=> Now = "read"
        /\ Now = "write" => p.do = "write"
        /\ p.do \in {"pin", "info", "params"} <=> Payload
        /\ p.do = "fluxstatus" => Now \in {"fluxstatus", "written"}
        /\ p.do = "select" => Now = "select"
        /\ p.do = "deselect" => Now \in {"deselect", "idle"}
        /\ p.do \in {"seek", "head", "motor", "reset"} => Now = p.do /\ p.arg = Arg
        /\ Now \in {"seek", "head", "motor", "select", "deselect", "reset"} => p.do = Now
        /\ Now = "idle" => p.do = "deselect"
    BY DEF Packet, Step, Payload, Now, Arg
  <2> HIDE DEF p
  (* What is to be shown of an answer of two bytes, and of a refusal.      *)
  <2>5. ASSUME NEW ack \in Byte, Answer(<<Code[p.do], ack>>),
               UNCHANGED <<fw.selected, fw.motor, fw.cyl, fw.side, fw.placed, fw.writing>>,
               ack = AckOk => Agrees(Recorded) /\ Now \notin {"read", "write"} /\ ~Payload
        PROVE  Synced'
    <3>1. <<Code[p.do], ack>> \in Seq(Byte) BY <2>3
    <3>2. Link' = <<Code[p.do], ack>> BY <1>1, <2>1, <2>5, <3>1, AnswerAlone
    <3>3. Len(Link') = 2 /\ Link'[1] = Code[p.do] /\ Link'[2] = ack BY <3>2
    <3>4. Agrees(drv)' /\ ~fw'.writing /\ fw'.writing = FALSE /\ fw.writing = FALSE
      BY <1>1, <2>1, <2>5 DEF Agrees, TypeOK
    <3>5. ack = AckOk => Agrees(Recorded)' BY <1>1, <1>2, <2>5 DEF Agrees
    <3>6. Answered'
      <4>1. CASE ack # AckOk BY <1>2, <2>2, <3>3, <3>4, <4>1 DEF Answered, p
      <4>2. CASE ack = AckOk
        <5>1. Agrees(Recorded)' /\ fw'.writing = (Now' = "write") /\ Now' # "read" /\ ~Payload'
          BY <1>2, <2>5, <3>4, <3>5, <4>2
        <5> QED BY <1>2, <2>2, <3>3, <4>2, <5>1 DEF Answered, p
      <4> QED BY <4>1, <4>2
    <3>7. Exchange' BY <1>1, <1>2, <1>4, <2>1, <3>6 DEF Exchange, p
    <3> QED BY <1>1, <1>2, <3>7, NoResetAheadNext DEF Synced
  <2>6. CASE TakesFlux(p) BY <2>1, <2>3, <2>6 DEF TakesFlux
  <2>7. CASE TellsFlux(p)
    <3>1. Answer(<<Code[p.do], fw.flux>>) /\ UNCHANGED fw /\ p.do = "fluxstatus"
      BY <2>7 DEF TellsFlux
    <3>2. Agrees(Recorded) /\ Now \notin {"read", "write"} /\ ~Payload
      BY <2>1, <2>4, <3>1 DEF Recorded, Agrees, TypeOK, Payload
    <3> QED BY <1>1, <2>3, <2>5, <3>1, <3>2
  <2>8. CASE Writes(p)
    <3>1. p.do = "write" /\ Now = "write" BY <2>4, <2>8 DEF Writes
    <3>2. CASE disk.protected
      <4>1. Answer(<<Code[p.do], AckWriteProtected>>) /\ UNCHANGED fw
        BY <2>8, <3>2 DEF Writes
      <4>2. AckWriteProtected # AckOk BY DEF AckWriteProtected, AckOk
      <4> QED BY <1>1, <2>3, <2>5, <4>1, <4>2
    <3>3. CASE ~disk.protected
      <4>1. Answer(<<Code[p.do], AckOk>>) /\ fw' = [fw EXCEPT !.writing = TRUE]
        BY <2>8, <3>3 DEF Writes
      <4>2. <<Code[p.do], AckOk>> \in Seq(Byte) BY <2>3
      <4>3. Link' = <<Code[p.do], AckOk>> BY <1>1, <2>1, <4>1, <4>2, AnswerAlone
      <4>4. fw'.writing = TRUE /\ UNCHANGED <<fw.selected, fw.motor, fw.cyl, fw.side, fw.placed>>
        BY <4>1 DEF TypeOK
      <4>5. Recorded = drv /\ ~Payload BY <3>1 DEF Recorded, Payload
      <4>6. Agrees(Recorded)' BY <1>1, <1>2, <2>1, <4>4, <4>5 DEF Agrees
      <4>7. Len(Link') = 2 /\ Link'[1] = Code[p.do] /\ Link'[2] = AckOk BY <4>3
      <4>8. Link'[1] = Code[Packet'.do] /\ fw'.writing = (Now' = "write") /\ Now' # "read" /\ ~Payload'
        BY <1>2, <3>1, <4>4, <4>5, <4>7 DEF p
      <4>9. Answered' BY <2>2, <4>6, <4>7, <4>8 DEF Answered
      <4>10. Exchange' BY <1>1, <1>2, <1>4, <2>1, <4>9 DEF Exchange, p
      <4> QED BY <1>1, <1>2, <4>4, <4>10, NoResetAheadNext DEF Synced
    <3> QED BY <3>2, <3>3
  <2>9. CASE Reads(p)
    <3>1. PICK n \in 0..StreamBytes : Answer(<<Code[p.do], AckOk>> \o Flux(n)) BY <2>9 DEF Reads
    <3>2. p.do = "read" /\ Now = "read" BY <2>4, <2>9 DEF Reads
    <3> DEFINE a == <<Code[p.do], AckOk>>
               f == Flux(n)
    <3>3. n \in Nat BY LinkAssumption
    <3>4. a \in Seq(Byte) /\ Len(a) = 2 /\ a[1] = Code[p.do] /\ a[2] = AckOk BY <2>3
    <3>5. /\ f \in Seq(Byte) /\ Len(f) = n + 1 /\ f[n + 1] = 0 /\ \A i \in 1..n : f[i] = FluxByte
      BY <3>3, FluxTyped
    <3>6. Answer(a \o f) BY <3>1
    <3> HIDE DEF a, f
    <3>7. a \o f \in Seq(Byte) /\ Len(a \o f) = n + 3
      <4>1. a \o f \in Seq(Byte) /\ Len(a \o f) = Len(a) + Len(f) BY <3>4, <3>5, ConcatProperties
      <4> QED BY <3>3, <3>4, <3>5, <4>1
    <3>8. Link' = a \o f BY <1>1, <2>1, <3>6, <3>7, AnswerAlone
    <3>9. Link'[1] = Code[p.do] /\ Link'[2] = AckOk
      <4>1. a \in Seq(Byte) /\ f \in Seq(Byte) /\ Len(a) = 2 BY <3>4, <3>5
      <4>2. /\ 1 \in 1..(Len(a) + Len(f)) /\ 1 <= Len(a)
            /\ 2 \in 1..(Len(a) + Len(f)) /\ 2 <= Len(a)
        BY <3>3, <3>5, <4>1
      <4>3. (a \o f)[1] = a[1] /\ (a \o f)[2] = a[2] BY <4>1, <4>2, ConcatProperties
      <4> QED BY <3>4, <3>8, <4>3
    <3>10. StreamFrom(3)'
      <4>1. \A i \in 1..Len(f) : (a \o f)[i + Len(a)] = f[i] BY <3>4, <3>5, CatIs
      <4>2. \A i \in 1..(n + 1) : Link'[i + 2] = f[i] BY <3>4, <3>5, <3>8, <4>1
      <4>3. Len(Link') = n + 3 /\ n + 1 \in 1..(n + 1) /\ n + 1 + 2 = n + 3 BY <3>3, <3>7, <3>8
      <4>4. Link'[n + 3] = 0 BY <3>5, <4>2, <4>3
      <4>5. ASSUME NEW i \in 3..(n + 3 - 1) PROVE Link'[i] # 0
        <5>1. i - 2 \in 1..n /\ i - 2 \in 1..(n + 1) /\ i - 2 + 2 = i BY <3>3
        <5>2. Link'[i - 2 + 2] = FluxByte BY <3>5, <4>2, <5>1
        <5> QED BY <5>1, <5>2 DEF FluxByte
      <4> QED BY <3>3, <4>3, <4>4, <4>5 DEF StreamFrom
    <3>11. UNCHANGED <<fw.selected, fw.motor, fw.cyl, fw.side, fw.placed, fw.writing>>
      <4>1. \E s : fw' = [fw EXCEPT !.flux = s] BY <2>9 DEF Reads
      <4> QED BY <4>1 DEF TypeOK
    <3>12. Recorded = drv BY <3>2 DEF Recorded
    <3>13. Agrees(Recorded)' /\ fw'.writing = FALSE BY <1>1, <1>2, <2>1, <3>11, <3>12 DEF Agrees, TypeOK
    <3>14. Len(Link') >= 2 BY <3>3, <3>7, <3>8
    <3>15. Answered'
      BY <1>2, <2>2, <3>2, <3>9, <3>10, <3>13, <3>14 DEF Answered, p
    <3>16. Exchange' BY <1>1, <1>2, <1>4, <2>1, <3>15 DEF Exchange, p
    <3> QED BY <1>1, <1>2, <3>11, <3>16, NoResetAheadNext DEF Synced
  <2>10. CASE Refuses(p)
    <3>1. Answer(<<Code[p.do], AckBadCommand>>) /\ UNCHANGED fw BY <2>10 DEF Refuses
    <3>2. AckBadCommand # AckOk BY DEF AckBadCommand, AckOk
    <3> QED BY <1>1, <2>3, <2>5, <3>1, <3>2
  <2>11. CASE Obeys(p)
    <3>1. /\ Answer(<<Code[p.do], AckOk>> \o Follows(p)) /\ fw' = Does(p)
          /\ p.do \notin {"fluxstatus", "write", "read"}
      BY <2>11 DEF Obeys, Plain
    <3> DEFINE a == <<Code[p.do], AckOk>>
               f == Follows(p)
    <3>2. a \in Seq(Byte) /\ Len(a) = 2 /\ a[1] = Code[p.do] /\ a[2] = AckOk BY <2>3
    <3>3. f \in Seq(Byte) /\ Len(f) = IF Payload THEN 1 ELSE 0
      BY <2>4, FollowsTyped
    <3>4. Answer(a \o f) BY <3>1
    <3> HIDE DEF a, f
    <3>5. a \o f \in Seq(Byte) /\ Len(a \o f) = Len(a) + Len(f) BY <3>2, <3>3, ConcatProperties
    <3>6. Link' = a \o f BY <1>1, <2>1, <3>4, <3>5, AnswerAlone
    <3>7. Link'[1] = Code[p.do] /\ Link'[2] = AckOk
      <4>1. 1 \in 1..Len(a) /\ 2 \in 1..Len(a) BY <3>2
      <4>2. \A i \in 1..Len(a) : (a \o f)[i] = a[i] BY <3>2, <3>3, CatIs
      <4> QED BY <3>2, <3>6, <4>1, <4>2
    <3>8. Len(Link') = IF Payload THEN 3 ELSE 2 BY <3>2, <3>3, <3>5, <3>6
    <3>9. Now \notin {"read", "write", "reset"}
      <4>1. Now # "reset"
        <5>1. Now = "reset" => Ahead("reset")
          <6>1. 1 \in DOMAIN script BY <2>1, ScriptSteps DEF TypeOK
          <6> QED BY <6>1 DEF Ahead, Now
        <5> QED BY <5>1 DEF Synced
      <4> QED BY <2>4, <3>1, <4>1
    <3>10. p.do # "reset" BY <2>4, <3>9
    <3>11. Arg \in Nat /\ (Now = "seek" => Arg < MaxCylinders)
      BY <2>1, ScriptSteps, SeekInRange DEF TypeOK
    <3>12. fw'.writing = FALSE
      BY <2>1, <3>1, <3>10, DoesIs DEF TypeOK
    <3>13. /\ fw'.selected = IF p.do \in {"select", "deselect"} THEN p.do = "select" ELSE fw.selected
           /\ fw'.motor = IF p.do = "motor" THEN p.arg = 1 ELSE fw.motor
           /\ fw'.cyl = IF p.do = "seek" THEN p.arg ELSE fw.cyl
           /\ fw'.side = IF p.do = "head" THEN p.arg ELSE fw.side
           /\ fw'.placed = CASE p.do = "seek" -> fw.placed \cup {"cyl"}
                             [] p.do = "head" -> fw.placed \cup {"side"}
                             [] OTHER -> fw.placed
      BY <3>1, <3>10, DoesIs
    <3>14. /\ Recorded.selected = IF Now \in {"select", "deselect", "idle"} THEN Now = "select" ELSE drv.selected
           /\ Recorded.motor = IF Now = "motor" THEN Arg = 1 ELSE drv.motor
           /\ Recorded.cyl = IF Now = "seek" THEN Arg ELSE drv.cyl
           /\ Recorded.side = IF Now = "head" THEN Arg ELSE drv.side
      BY DEF Recorded, TypeOK
    <3>15. Agrees(Recorded)'
      BY <1>2, <2>1, <2>4, <3>11, <3>13, <3>14 DEF Agrees
    <3>16. Answered'
      <4>1. Link'[1] = Code[Packet'.do] /\ Len(Link') = IF Payload' THEN 3 ELSE 2
        BY <1>2, <3>7, <3>8 DEF p
      <4>2. fw'.writing = (Now' = "write") /\ Now' # "read" BY <1>2, <3>9, <3>12
      <4> QED BY <2>2, <3>7, <3>15, <4>1, <4>2 DEF Answered
    <3>17. Exchange' BY <1>1, <1>2, <1>4, <2>1, <3>16 DEF Exchange, p
    <3> QED BY <1>1, <1>2, <1>4, <2>1, <2>4, <3>13, <3>17, NoResetAheadNext DEF Synced
  <2>12. TakesFlux(p) \/ TellsFlux(p) \/ Writes(p) \/ Reads(p) \/ Refuses(p) \/ Obeys(p)
    BY <2>2 DEF Firmware
  <2> QED BY <2>6, <2>7, <2>8, <2>9, <2>10, <2>11, <2>12
<1>5. phase # "payload" BY <1>1 DEF Synced, Exchange
<1> QED BY <1>3, <1>4, <1>5 DEF TypeOK
(* What the driver is about, and what it records, is left alone: bytes     *)
(* arrive, a disk is changed.                                              *)
LEMMA Undisturbed ==
    ASSUME LinkInv, UNCHANGED <<opened, script, phase, outcome, drv, wire, fw>>, Link' = Link
    PROVE  LinkInv'
<1>1. ScriptOK(script') /\ (Ahead("reset")' <=> Ahead("reset")) /\ (Ahead("motor")' <=> Ahead("motor"))
  BY DEF LinkInv, Ahead
<1>2. (Idle' <=> Idle) /\ Now' = Now /\ Arg' = Arg /\ Packet' = Packet /\ Recorded' = Recorded
      /\ (Payload' <=> Payload) /\ (Silent' <=> Silent) /\ (Resetting' <=> Resetting)
  BY DEF Idle, Now, Arg, Packet, Recorded, Payload, Silent, Resetting
<1>3. (Agrees(drv)' <=> Agrees(drv)) /\ (Agrees(Recorded)' <=> Agrees(Recorded))
      /\ (StreamFrom(1)' <=> StreamFrom(1)) /\ (StreamFrom(3)' <=> StreamFrom(3))
  BY <1>2 DEF Agrees, StreamFrom
<1>4. Answered' <=> Answered BY <1>2, <1>3 DEF Answered
<1>5. Exchange' <=> Exchange BY <1>2, <1>3, <1>4 DEF Exchange
<1>6. Foreign' <=> Foreign
  BY <1>1, <1>2 DEF Foreign, ForeignScript, ForeignDrive, ForeignWire, ForeignLink
<1>7. LettingGo' <=> LettingGo BY <1>1, <1>2 DEF LettingGo, LeftQuiet
<1> QED BY <1>1, <1>5, <1>6, <1>7 DEF LinkInv, Synced

(* A call begins where the last one has left the link: silent.             *)
LEMMA CallLinked ==
    ASSUME TypeOK, TypeOK', LinkInv, Call \/ Drop
    PROVE  LinkInv'
<1>1. /\ Idle /\ opened = "open" /\ phase = "send" /\ UNCHANGED <<phase, drv, wire, inbox, outbox, fw>>
  BY DEF Call, Drop, TypeOK, linkVars
<1>2. Synced BY <1>1 DEF LinkInv, Foreign, ForeignScript
<1>3. Quiet BY <1>1, <1>2 DEF Synced, Exchange, Quiet
<1>4. Quiet' BY <1>1, <1>3 DEF Quiet, Silent, Link, Agrees
<1>5. ScriptOK(script') /\ NoReset(script') /\ Begins(script')
  <2>1. CASE Call BY <2>1, ScriptsOK DEF Call
  <2>2. CASE Drop BY <2>2, DropIs DEF Drop
  <2> QED BY <2>1, <2>2
<1>6. Synced' BY <1>1, <1>4, <1>5, QuietNext, NoResetAheadNext DEF Synced
<1>7. LettingGo'
  <2>1. CASE Call BY <1>1, <2>1 DEF Call, LettingGo, LeftQuiet
  <2>2. CASE Drop
    <3>1. opened' = "closing" /\ script' = DropScript BY <2>2 DEF Drop
    <3>2. ~Idle' /\ Ahead("motor")' /\ \A i \in DOMAIN script' : script'[i].do = "motor" => script'[i].arg = 0
      BY <3>1, DropIs DEF Idle, Ahead
    <3> QED BY <3>1, <3>2 DEF LettingGo, LeftQuiet
  <2> QED BY <2>1, <2>2
<1> QED BY <1>5, <1>6, <1>7 DEF LinkInv

-----------------------------------------------------------------------------
(* Letting go.                                                             *)
LEMMA LettingAdvance ==
    ASSUME TypeOK, ScriptOK(script), LettingGo, ~Idle, Advance, ~OutOfRange, UNCHANGED fw,
           Now = "motor" /\ opened = "closing" => ~fw.motor
    PROVE  LettingGo'
<1>1. /\ \A d : Ahead(d) /\ Now # d => Ahead(d)'
      /\ \A i \in DOMAIN script' : script'[i] = script[i + 1] /\ i + 1 \in DOMAIN script
  BY AdvanceScript
<1>2. CASE opened = "closing"
  <2>1. ~Ahead("motor")' => ~fw.motor BY <1>1, <1>2 DEF LettingGo
  <2>2. CASE script' = <<>>
    <3>1. opened' = "closed" /\ Idle' BY <1>2, <2>2 DEF Advance, Idle
    <3>2. ~Ahead("motor")' BY <2>2 DEF Ahead
    <3> QED BY <2>1, <3>1, <3>2 DEF LettingGo, LeftQuiet
  <2>3. CASE script' # <<>>
    <3>1. opened' = "closing" /\ ~Idle' BY <1>2, <2>3 DEF Advance, Idle
    <3>2. \A i \in DOMAIN script' : script'[i].do = "motor" => script'[i].arg = 0
      BY <1>1, <1>2 DEF LettingGo
    <3> QED BY <2>1, <3>1, <3>2 DEF LettingGo, LeftQuiet
  <2> QED BY <2>2, <2>3
<1>3. CASE opened # "closing"
  <2>1. opened' \in {"opening", "open"} BY <1>3 DEF Advance, LettingGo, TypeOK
  <2> QED BY <2>1 DEF LettingGo, LeftQuiet
<1> QED BY <1>2, <1>3

LEMMA LettingFail ==
    ASSUME TypeOK, ScriptOK(script), LettingGo, ~Idle, Fail PROVE LettingGo'
<1>1. CASE opened = "opening" /\ opened' = "closing" /\ script' = DropScript
  <2>1. ~Idle' /\ Ahead("motor")' /\ \A i \in DOMAIN script' : script'[i].do = "motor" => script'[i].arg = 0
    BY <1>1, DropIs DEF Idle, Ahead
  <2> QED BY <1>1, <2>1 DEF LettingGo, LeftQuiet
<1>2. CASE opened = "closing" /\ opened' = "closed" /\ script' = <<>> /\ outcome' = "failed"
  BY <1>2 DEF LettingGo, LeftQuiet, Idle
<1>3. CASE opened' \in {"opening", "open"} BY <1>3 DEF LettingGo, LeftQuiet
<1> QED BY <1>1, <1>2, <1>3, FailScript DEF LettingGo, TypeOK

LEMMA LettingStay ==
    ASSUME LettingGo, UNCHANGED <<opened, script, outcome>>,
           opened \in {"closing", "closed"} /\ fw'.motor => fw.motor \/ (~Idle /\ Now = "motor"),
           TypeOK
    PROVE  LettingGo'
<1>1. (Idle' <=> Idle) /\ (Ahead("motor")' <=> Ahead("motor")) BY DEF Idle, Ahead
<1>2. ~Idle /\ Now = "motor" => Ahead("motor")
  <2>1. ~Idle => 1 \in DOMAIN script BY ScriptSteps DEF TypeOK
  <2> QED BY <2>1 DEF Ahead, Now
<1> QED BY <1>1, <1>2 DEF LettingGo, LeftQuiet

(* A drop's Motor command, once acknowledged, has stopped the motor.       *)
LEMMA LettingMotor ==
    ASSUME TypeOK, LettingGo, opened = "closing", ~Idle, Now = "motor" PROVE Arg = 0
<1>1. 1 \in DOMAIN script BY ScriptSteps DEF TypeOK
<1> QED BY <1>1 DEF LettingGo, Now, Arg
-----------------------------------------------------------------------------
(* The link as an earlier session, or a failed open, leaves it.            *)

(* Open does nothing before its Reset but ask after the firmware; a drop   *)
(* stops the motor and no more.                                            *)
LEMMA ForeignNow ==
    ASSUME TypeOK, ScriptOK(script), LettingGo, Foreign, ~Idle
    PROVE  /\ opened \in {"opening", "closing"}
           /\ opened = "opening" => Now \in {"purge", "info", "version", "reset"}
           /\ opened = "closing" => Now \in {"delay", "motor", "deselect"}
           /\ Now = "motor" => Arg = 0
           /\ Now \notin {"stream", "sync", "flux", "read", "write", "fluxstatus", "range"}
           /\ ~OutOfRange
<1>1. 1 \in DOMAIN script /\ DOMAIN script = 1..Len(script) /\ Len(script) \in Nat
  BY ScriptSteps DEF TypeOK
<1>2. opened \in {"opening", "closing"}
  BY DEF Foreign, ForeignScript, LettingGo, TypeOK
<1>3. opened = "opening" => Now \in {"purge", "info", "version", "reset"}
  <2> SUFFICES ASSUME opened = "opening" PROVE Now \in {"purge", "info", "version", "reset"}
    OBVIOUS
  <2>1. PICK i \in DOMAIN script : script[i].do = "reset" BY DEF Foreign, ForeignScript, Ahead
  <2>2. i = 1 \/ 1 < i BY <1>1
  <2> QED BY <1>1, <2>1, <2>2 DEF ScriptOK, Now
<1>4. opened = "closing" => Now \in {"delay", "motor", "deselect"}
  BY <1>1 DEF Foreign, ForeignScript, Now
<1>5. Now = "motor" => Arg = 0 BY <1>2, <1>3, LettingMotor
<1> QED BY <1>2, <1>3, <1>4, <1>5 DEF OutOfRange

LEMMA ForeignAdvance ==
    ASSUME TypeOK, ScriptOK(script), LettingGo, Foreign, ~Idle, Advance, Now # "reset"
    PROVE  /\ ScriptOK(script') /\ ForeignScript'
           /\ opened' = "opening" => opened = "opening" /\ ~Resetting
<1>1. /\ opened \in {"opening", "closing"} /\ ~OutOfRange BY ForeignNow
<1>2. /\ ScriptOK(script') /\ (Ahead("reset") => Ahead("reset")')
      /\ \A i \in DOMAIN script' : script'[i] = script[i + 1] /\ i + 1 \in DOMAIN script
  BY <1>1, AdvanceScript
<1>3. phase' = "send" BY DEF Advance
<1>4. CASE opened = "opening"
  <2>1. Ahead("reset")' BY <1>2, <1>4 DEF Foreign, ForeignScript
  <2>2. script' # <<>> BY <2>1 DEF Ahead
  <2>3. opened' = "opening" BY <1>4, <2>2 DEF Advance
  <2> QED BY <1>2, <1>3, <1>4, <2>1, <2>3 DEF ForeignScript, Resetting
<1>5. CASE opened = "closing"
  <2>1. opened' \in {"closing", "closed"} BY <1>5 DEF Advance
  <2>2. \A i \in DOMAIN script' : script'[i].do \in {"delay", "motor", "deselect"}
    BY <1>2, <1>5 DEF Foreign, ForeignScript
  <2> QED BY <1>2, <1>3, <2>1, <2>2 DEF ForeignScript
<1> QED BY <1>1, <1>4, <1>5

LEMMA ForeignFail ==
    ASSUME TypeOK, ScriptOK(script), LettingGo, Foreign, ~Idle, Fail
    PROVE  /\ ScriptOK(script') /\ ForeignScript'
           /\ opened' = "opening" => opened = "opening" /\ ~Resetting
<1>1. ScriptOK(script') /\ phase' = "send" BY FailScript
<1>2. CASE /\ opened = "opening" /\ opened' = "opening" /\ Now = "info"
           /\ Ahead("reset") => Ahead("reset")'
  BY <1>1, <1>2 DEF Foreign, ForeignScript, Resetting
<1>3. CASE opened = "opening" /\ opened' = "closing" /\ script' = DropScript
  BY <1>1, <1>3, DropIs DEF ForeignScript
<1>4. CASE opened = "closing" /\ opened' = "closed"
  BY <1>1, <1>4 DEF ForeignScript
<1>5. opened \in {"opening", "closing"} BY ForeignNow
<1> QED BY <1>2, <1>3, <1>4, <1>5, FailScript

(* Bytes are read, and others follow them as they did.                     *)
LEMMA ForeignDropped ==
    ASSUME TypeOK, Link \in Seq(Byte), Link' \in Seq(Byte), Foreign, NEW n, Dropped(n), UNCHANGED fw,
           opened' = "opening" => opened = "opening" /\ ~Resetting
    PROVE  ForeignLink'
<1>1. /\ n \in Nat /\ Len(Link') = Len(Link) - n /\ Len(Link) \in Nat /\ Len(Link') \in Nat
      /\ DOMAIN Link' = 1..Len(Link') /\ DOMAIN Link = 1..Len(Link)
      /\ \A i \in 1..Len(Link') : i + n \in 1..Len(Link) /\ Link'[i] = Link[i + n]
  BY DEF Dropped
<1> SUFFICES ASSUME NEW i \in DOMAIN Link'
             PROVE  /\ Link'[i] = Code.motor =>
                         i < Len(Link') /\ (Link'[i + 1] = AckOk => ~fw'.motor)
                    /\ Link'[i] = Code.reset => opened' # "opening"
  BY DEF ForeignLink
<1>2. i + n \in DOMAIN Link /\ Link'[i] = Link[i + n] BY <1>1
<1>3. Link'[i] = Code.reset => opened' # "opening"
  BY <1>2 DEF Foreign, ForeignLink
<1>4. ASSUME Link'[i] = Code.motor
      PROVE  i < Len(Link') /\ (Link'[i + 1] = AckOk => ~fw'.motor)
  <2>1. i + n < Len(Link) /\ (Link[i + n + 1] = AckOk => ~fw.motor)
    BY <1>2, <1>4 DEF Foreign, ForeignLink
  <2>2. i < Len(Link') /\ i + 1 \in 1..Len(Link') /\ i + 1 + n = i + n + 1 BY <1>1, <2>1
  <2>3. Link'[i + 1] = Link[i + n + 1] BY <1>1, <2>2
  <2> QED BY <2>1, <2>2, <2>3
<1> QED BY <1>3, <1>4

LEMMA ForeignWireStays ==
    ASSUME Foreign, UNCHANGED wire, opened' = "opening" => opened = "opening" /\ ~Resetting
    PROVE  ForeignWire'
BY DEF Foreign, ForeignWire

(* A step of the driver that reads, or purges, and sends nothing.          *)
LEMMA ForeignReads ==
    ASSUME TypeOK, TypeOK', Foreign, ScriptOK(script), LettingGo, ~Idle, Fail \/ (Advance /\ Now # "reset"),
           NEW n, Dropped(n), UNCHANGED <<wire, fw>>,
           ~drv'.selected, ~drv'.motor, drv'.cyl = 0, drv'.side = 0
    PROVE  ScriptOK(script') /\ Foreign'
<1>1. /\ ScriptOK(script') /\ ForeignScript'
      /\ opened' = "opening" => opened = "opening" /\ ~Resetting
  BY ForeignAdvance, ForeignFail
<1>2. Link \in Seq(Byte) /\ Link' \in Seq(Byte)
  <2>1. inbox \in Seq(Byte) /\ outbox \in Seq(Byte) /\ inbox' \in Seq(Byte) /\ outbox' \in Seq(Byte)
    BY DEF TypeOK
  <2>2. Link \in Seq(Byte) BY <2>1, LinkIs
  <2>3. Link' \in Seq(Byte) BY <2>1, ConcatProperties DEF Link
  <2> QED BY <2>2, <2>3
<1>3. ForeignLink' BY <1>1, <1>2, ForeignDropped
<1>4. ForeignWire' BY <1>1, ForeignWireStays
<1>5. ForeignDrive' BY DEF Foreign, ForeignDrive
<1> QED BY <1>1, <1>3, <1>4, <1>5 DEF Foreign

LEMMA DroppedNone == ASSUME TypeOK, UNCHANGED <<inbox, outbox>> PROVE Dropped(0)
<1>1. Link' = Link /\ Link \in Seq(Byte)
  <2>1. Link \in Seq(Byte) BY LinkOf, LinkIs
  <2> QED BY <2>1 DEF Link
<1> QED BY <1>1 DEF Dropped
LEMMA SkipForeign ==
    ASSUME TypeOK, TypeOK', ScriptOK(script), LettingGo, Foreign, Skip
    PROVE  ScriptOK(script') /\ Foreign'
<1>1. /\ ~Idle /\ Now # "reset" /\ (Advance \/ Fail) /\ UNCHANGED <<wire, outbox, fw>>
      /\ inbox' = inbox \/ inbox' = <<>>
  BY DEF Skip, Local
<1>2. inbox \in Seq(Byte) /\ outbox \in Seq(Byte) BY LinkOf
<1>3. Dropped(0) \/ Dropped(Len(inbox)) BY <1>1, <1>2, DroppedNone, DropAll
<1>4. ~drv'.selected /\ ~drv'.motor /\ drv'.cyl = 0 /\ drv'.side = 0
  BY DEF Skip, Foreign, ForeignDrive, TypeOK
<1> QED BY <1>1, <1>3, <1>4, ForeignReads

LEMMA SendForeign ==
    ASSUME TypeOK, TypeOK', ScriptOK(script), LettingGo, Foreign, Send
    PROVE  ScriptOK(script') /\ Foreign'
<1>1. /\ ~Idle /\ phase = "send" /\ ~Local /\ phase' = "ack" /\ wire' = Append(wire, Packet)
      /\ UNCHANGED <<opened, script, inbox, outbox, fw>>
  BY DEF Send
<1>2. ForeignScript' BY <1>1 DEF Foreign, ForeignScript, Ahead
<1>3. ForeignDrive' BY <1>1 DEF Send, Foreign, ForeignDrive, TypeOK
<1>4. Packet.do \in {"info", "reset", "setparams", "motor"}
      /\ (Packet.do = "motor" => Packet.arg = 0)
      /\ (Packet.do = "reset" => Now = "reset")
  <2>1. /\ opened \in {"opening", "closing"}
        /\ opened = "opening" => Now \in {"purge", "info", "version", "reset"}
        /\ opened = "closing" => Now \in {"delay", "motor", "deselect"}
        /\ Now = "motor" => Arg = 0
    BY <1>1, ForeignNow
  <2>2. Now \in {"info", "reset", "delay", "motor"}
    BY <1>1, <2>1 DEF Local, Foreign, ForeignDrive
  <2> QED BY <2>1, <2>2 DEF Packet, Step, Now, Arg
<1>5. ~Resetting BY <1>1 DEF Resetting
<1>6. ForeignWire'
  <2>1. wire \in Seq(Sent) /\ Packet \in Sent
    <3>1. Now \notin {"stream", "sync", "flux"} BY DEF Send
    <3> QED BY <1>1, <3>1, PacketTyped DEF TypeOK
  <2>2. /\ Len(wire') = Len(wire) + 1 /\ Len(wire) \in Nat /\ DOMAIN wire' = 1..(Len(wire) + 1)
        /\ wire'[Len(wire) + 1] = Packet /\ \A i \in 1..Len(wire) : wire'[i] = wire[i]
        /\ DOMAIN wire = 1..Len(wire)
    BY <1>1, <2>1
  <2> SUFFICES ASSUME NEW i \in DOMAIN wire'
               PROVE  /\ wire'[i].do \in {"info", "reset", "setparams", "motor"}
                      /\ wire'[i].do = "motor" => wire'[i].arg = 0
                      /\ wire'[i].do = "reset" /\ opened' = "opening" => i = Len(wire') /\ Resetting'
    BY DEF ForeignWire
  <2>3. CASE i \in DOMAIN wire BY <1>1, <1>5, <2>2, <2>3 DEF Foreign, ForeignWire
  <2>4. CASE i = Len(wire) + 1 BY <1>1, <1>4, <2>2, <2>4 DEF Resetting, Now
  <2> QED BY <2>2, <2>3, <2>4
<1>7. ForeignLink'
  <2>1. Dropped(0) BY <1>1, DroppedNone
  <2>2. Link' = Link /\ Link \in Seq(Byte)
    <3>1. Link \in Seq(Byte) BY LinkOf, LinkIs
    <3> QED BY <1>1, <3>1 DEF Link
  <2> QED BY <1>1, <1>5, <2>1, <2>2, ForeignDropped
<1> QED BY <1>1, <1>2, <1>3, <1>6, <1>7 DEF Foreign

LEMMA AcknowledgeForeign ==
    ASSUME TypeOK, TypeOK', ScriptOK(script), LettingGo, Foreign, Acknowledge
    PROVE  /\ ScriptOK(script') /\ (Synced' \/ Foreign')
           /\ Accepted(inbox[2]) /\ Now = "motor" => ~fw.motor
<1>1. /\ ~Idle /\ phase = "ack" /\ UNCHANGED <<wire, outbox, fw>>
      /\ Len(Link) >= 2 /\ Link \in Seq(Byte) /\ Link' \in Seq(Byte)
      /\ Link[1] = inbox[1] /\ Link[2] = inbox[2]
  BY AckFront
<1>2. /\ opened \in {"opening", "closing"}
      /\ opened = "opening" => Now \in {"purge", "info", "version", "reset"}
      /\ opened = "closing" => Now \in {"delay", "motor", "deselect"}
      /\ Now = "motor" => Arg = 0
      /\ Now \notin {"stream", "sync", "flux", "read", "write", "fluxstatus", "range"}
      /\ ~OutOfRange
  BY <1>1, ForeignNow
<1>3. inbox \in Seq(Byte) /\ outbox \in Seq(Byte) /\ Len(inbox) >= 2
  BY LinkOf DEF Acknowledge
<1>4. 1 \in DOMAIN Link BY <1>1
<1>5. ~drv.selected /\ ~drv.motor /\ drv.cyl = 0 /\ drv.side = 0 /\ fw.placed = {}
  BY DEF Foreign, ForeignDrive
<1>6. CASE Refused(inbox[2])
  <2>1. Fail /\ inbox' = SubSeq(inbox, 3, Len(inbox)) /\ drv' = drv BY <1>2, <1>6 DEF Refused
  <2>2. Dropped(2) BY <1>1, <1>3, <2>1, DropTwo
  <2>3. ~Accepted(inbox[2]) BY <1>6 DEF Refused, Accepted
  <2> QED BY <1>1, <1>5, <2>1, <2>2, <2>3, ForeignReads
<1>7. CASE Retried(inbox[2]) BY <1>2, <1>7 DEF Retried
<1>8. CASE Accepted(inbox[2])
  <2>1. Link[1] = Code[Packet.do] /\ Link[2] = AckOk BY <1>1, <1>8 DEF Accepted, Echoed
  <2>2. Dropped(2) BY <1>1, <1>3, <1>8, DropTwo DEF Accepted
  <2>3. Now = "motor" => ~fw.motor
    <3>1. Now = "motor" => Link[1] = Code.motor BY <2>1 DEF Packet, Now
    <3>2. 1 + 1 = 2 OBVIOUS
    <3> QED BY <1>4, <2>1, <3>1, <3>2 DEF Foreign, ForeignLink
  <2>4. CASE Now = "reset"
    <3>1. opened = "opening" /\ Advance /\ drv' = drv /\ ~Payload
      BY <1>2, <1>8, <2>4 DEF Accepted, Payload, Recorded
    <3>2. Link[1] = Code.reset BY <2>1, <2>4 DEF Packet, Now
    <3>3. wire = <<>> /\ 1 = Len(Link) - 1 /\ ~fw.selected /\ ~fw.motor /\ ~fw.writing
      <4>1. 1 + 1 = 2 OBVIOUS
      <4> QED BY <1>4, <2>1, <3>1, <3>2, <4>1 DEF Foreign, ForeignLink
    <3>4. Len(Link) = 2 BY <1>1, <3>3
    <3>5. Link' = <<>> BY <1>1, <2>2, <3>4, DroppedAll
    <3>6. Agrees(drv)' BY <1>1, <1>5, <3>1, <3>3 DEF Agrees, MaxCylinders, TypeOK
    <3>7. Quiet' BY <1>1, <1>5, <3>3, <3>5, <3>6 DEF Quiet, Silent
    <3>8. /\ ScriptOK(script') /\ NoReset(script') /\ phase' = "send"
          /\ script' = <<>> \/ Begins(script')
      BY <1>1, <1>2, <2>4, <3>1, AdvanceScript DEF Advance
    <3> QED BY <2>4, <3>7, <3>8, QuietNext, NoResetAheadNext DEF Synced
  <2>5. CASE Now # "reset" /\ ~Payload
    <3>1. Advance /\ drv' = Recorded BY <1>8, <2>5 DEF Accepted
    <3>2. ~drv'.selected /\ ~drv'.motor /\ drv'.cyl = 0 /\ drv'.side = 0
      <4>1. Now \in {"purge", "version", "delay", "motor", "deselect"}
        BY <1>2, <2>5 DEF Payload
      <4>2. CASE Now = "motor"
        <5>1. Recorded = [drv EXCEPT !.motor = (Arg = 1)] BY <4>2 DEF Recorded
        <5> QED BY <1>2, <1>5, <3>1, <4>2, <5>1 DEF TypeOK
      <4>3. CASE Now = "deselect"
        <5>1. Recorded = [drv EXCEPT !.selected = FALSE] BY <4>3 DEF Recorded
        <5> QED BY <1>5, <3>1, <5>1 DEF TypeOK
      <4>4. CASE Now \in {"purge", "version", "delay"}
        <5>1. Recorded = drv BY <4>4 DEF Recorded
        <5> QED BY <1>5, <3>1, <5>1
      <4> QED BY <4>1, <4>2, <4>3, <4>4
    <3> QED BY <1>1, <2>2, <2>3, <2>5, <3>1, <3>2, ForeignReads
  <2>6. CASE Payload
    <3>1. phase' = "payload" /\ UNCHANGED <<opened, script, drv>> /\ Now = "info"
      BY <1>2, <1>8, <2>6 DEF Accepted, Payload
    <3>2. ForeignScript' BY <3>1 DEF Foreign, ForeignScript, Ahead, Now
    <3>3. ForeignDrive' BY <1>1, <3>1 DEF Foreign, ForeignDrive
    <3>4. ~Resetting BY <3>1 DEF Resetting
    <3>5. ForeignWire' /\ ForeignLink'
      BY <1>1, <2>2, <3>1, <3>4, ForeignWireStays, ForeignDropped
    <3> QED BY <2>3, <3>1, <3>2, <3>3, <3>5 DEF Foreign
  <2> QED BY <2>4, <2>5, <2>6
<1> QED BY <1>6, <1>7, <1>8 DEF Acknowledge

LEMMA PayloadForeign ==
    ASSUME TypeOK, TypeOK', ScriptOK(script), LettingGo, Foreign, TakePayload
    PROVE  ScriptOK(script') /\ Foreign' /\ Now # "motor"
<1>1. phase = "payload" /\ ~Idle /\ inbox # <<>> /\ Advance /\ inbox' = Tail(inbox)
      /\ UNCHANGED <<wire, outbox, fw>>
  BY DEF TakePayload, TypeOK
<1>2. Now = "info" BY <1>1 DEF Foreign, ForeignScript
<1>3. drv' = drv BY <1>2 DEF TakePayload
<1>4. Dropped(1) BY <1>1, LinkOf, DropOne
<1>5. ~drv'.selected /\ ~drv'.motor /\ drv'.cyl = 0 /\ drv'.side = 0
  BY <1>3 DEF Foreign, ForeignDrive
<1> QED BY <1>1, <1>2, <1>4, <1>5, ForeignReads

LEMMA DeadlineForeign ==
    ASSUME TypeOK, TypeOK', ScriptOK(script), LettingGo, Foreign, Deadline
    PROVE  ScriptOK(script') /\ Foreign'
<1>1. ~Idle /\ Fail /\ inbox' = <<>> /\ UNCHANGED <<drv, wire, outbox, fw>>
  BY DEF Deadline, Reading
<1>2. Dropped(Len(inbox)) BY <1>1, LinkOf, DropAll
<1>3. ~drv'.selected /\ ~drv'.motor /\ drv'.cyl = 0 /\ drv'.side = 0
  BY <1>1 DEF Foreign, ForeignDrive
<1> QED BY <1>1, <1>2, <1>3, ForeignReads

(* An answer goes behind what is on the line; a Reset's is the last.       *)
LEMMA ForeignAnswers ==
    ASSUME TypeOK, TypeOK', Foreign, Firmware, NEW p, p = Head(wire),
           NEW ack \in Byte, NEW f \in Seq(Byte), Answer(<<Code[p.do], ack>> \o f),
           ack \in {AckOk, AckBadCommand},
           f = <<>> \/ (p.do = "info" /\ f = << 1 >>),
           fw'.motor => fw.motor,
           ack = AckOk /\ p.do = "motor" => ~fw'.motor,
           ack = AckOk /\ p.do = "reset" => ~fw'.motor /\ ~fw'.selected /\ ~fw'.writing
    PROVE  ForeignLink'
<1>1. /\ wire \in Seq(Sent) /\ wire # <<>> /\ wire' = Tail(wire) /\ UNCHANGED <<opened, script, phase, inbox>>
  BY DEF Firmware, TypeOK, driverVars
<1>2. 1 \in DOMAIN wire /\ p = wire[1] /\ Len(wire) \in Nat BY <1>1, EmptySeq
<1>3. /\ p.do \in {"info", "reset", "setparams", "motor"}
      /\ p.do = "reset" /\ opened = "opening" => Len(wire) = 1 /\ Resetting
  BY <1>2 DEF Foreign, ForeignWire
<1>4. Code[p.do] \in Byte /\ (Code[p.do] = 16 <=> p.do = "reset") /\ (Code[p.do] = 6 <=> p.do = "motor")
      /\ Code.reset = 16 /\ Code.motor = 6
  BY <1>3, CodeIs
<1> DEFINE a == <<Code[p.do], ack>>
           b == a \o f
           l == Len(Link)
<1>5. a \in Seq(Byte) /\ Len(a) = 2 /\ a[1] = Code[p.do] /\ a[2] = ack BY <1>4
<1> HIDE DEF a
<1>6. Len(f) \in {0, 1} /\ (Len(f) = 1 => p.do = "info" /\ f[1] = 1) OBVIOUS
<1>7. b \in Seq(Byte) /\ Len(b) = 2 + Len(f) /\ b[1] = Code[p.do] /\ b[2] = ack
      /\ (Len(f) = 1 => b[3] = 1)
  <2>1. b \in Seq(Byte) /\ Len(b) = Len(a) + Len(f) BY <1>5, ConcatProperties
  <2>2. /\ 1 \in 1..(Len(a) + Len(f)) /\ 1 <= Len(a)
        /\ 2 \in 1..(Len(a) + Len(f)) /\ 2 <= Len(a)
    BY <1>5, <1>6
  <2>3. b[1] = a[1] /\ b[2] = a[2] BY <1>5, <2>2, ConcatProperties
  <2>4. ASSUME Len(f) = 1 PROVE b[3] = 1
    <3>1. 3 \in 1..(Len(a) + Len(f)) /\ ~(3 <= Len(a)) /\ 3 - Len(a) = 1 BY <1>5, <2>4
    <3>2. b[3] = f[3 - Len(a)] BY <1>5, <3>1, ConcatProperties
    <3> QED BY <1>6, <2>4, <3>1, <3>2
  <2> QED BY <1>5, <2>1, <2>3, <2>4
<1>8. outbox' = outbox \o b BY DEF Answer, a
<1> HIDE DEF b
<1>9. /\ Link' \in Seq(Byte) /\ Len(Link') = l + Len(b) /\ Len(b) \in Nat
      /\ \A i \in 1..l : Link'[i] = Link[i]
      /\ \A i \in 1..Len(b) : Link'[i + l] = b[i]
  <2>1. inbox \in Seq(Byte) /\ outbox \in Seq(Byte) BY LinkOf
  <2>2. Link' \in Seq(Byte) /\ Len(Link') = l + Len(b) /\ Len(b) \in Nat
    BY <1>1, <1>7, <1>8, <2>1, Answers
  <2>3. \A i \in 1..l : Link'[i] = Link[i] BY <1>1, <1>7, <1>8, <2>1, Answers
  <2>4. \A i \in 1..Len(b) : Link'[i + l] = b[i] BY <1>1, <1>7, <1>8, <2>1, Answers
  <2> QED BY <2>2, <2>3, <2>4
<1>10. Link \in Seq(Byte) /\ l \in Nat /\ DOMAIN Link = 1..l
  <2>1. Link \in Seq(Byte) BY LinkOf, LinkIs
  <2> QED BY <2>1
<1> HIDE DEF l
<1> SUFFICES ASSUME NEW i \in DOMAIN Link'
             PROVE  /\ Link'[i] = Code.motor =>
                         i < Len(Link') /\ (Link'[i + 1] = AckOk => ~fw'.motor)
                    /\ Link'[i] = Code.reset /\ opened' = "opening" =>
                         /\ wire' = <<>> /\ i = Len(Link') - 1 /\ Resetting'
                         /\ Link'[i + 1] = AckOk => ~fw'.selected /\ ~fw'.motor /\ ~fw'.writing
  BY DEF ForeignLink
<1>11. i \in 1..(l + Len(b)) /\ Len(b) = 2 + Len(f) BY <1>7, <1>9
<1>12. CASE i <= l
  <2>1. i \in DOMAIN Link /\ Link'[i] = Link[i] BY <1>9, <1>10, <1>11, <1>12
  <2>2. ~(Link[i] = Code.reset /\ opened = "opening") BY <1>1, <2>1 DEF Foreign, ForeignLink
  <2>3. ASSUME Link[i] = Code.motor
        PROVE  i < Len(Link') /\ (Link'[i + 1] = AckOk => ~fw'.motor)
    <3>1. i < l /\ (Link[i + 1] = AckOk => ~fw.motor)
      BY <2>1, <2>3 DEF Foreign, ForeignLink, l
    <3>2. i + 1 \in 1..l BY <1>10, <2>1, <3>1
    <3>3. Link'[i + 1] = Link[i + 1] BY <1>9, <3>2
    <3>4. i < l + Len(b) BY <1>9, <1>10, <2>1, <3>1
    <3> QED BY <1>9, <3>1, <3>3, <3>4
  <2> QED BY <1>1, <2>1, <2>2, <2>3
<1>13. CASE i = l + 1
  <2>1. 1 \in 1..Len(b) /\ 2 \in 1..Len(b) /\ 1 + l = i /\ 2 + l = i + 1
    BY <1>6, <1>10, <1>11, <1>13
  <2>2. Link'[1 + l] = b[1] /\ Link'[2 + l] = b[2] BY <1>9, <2>1
  <2>3. Link'[i] = Code[p.do] /\ Link'[i + 1] = ack BY <1>7, <2>1, <2>2
  <2>4. i < Len(Link') BY <1>6, <1>9, <1>10, <1>11, <1>13
  <2>5. ASSUME p.do = "reset", opened' = "opening"
        PROVE  wire' = <<>> /\ i = Len(Link') - 1 /\ Resetting'
    <3>1. Len(wire) = 1 /\ Resetting BY <1>1, <1>3, <2>5
    <3>2. Len(wire') = 0 /\ wire' \in Seq(Sent) BY <1>1, <3>1, HeadTailProperties
    <3>3. Len(f) = 0 BY <1>6, <2>5
    <3>4. i = Len(Link') - 1 BY <1>9, <1>10, <1>11, <1>13, <3>3
    <3> QED BY <1>1, <3>1, <3>2, <3>4, EmptySeq DEF Resetting, Now
  <2> QED BY <1>4, <2>3, <2>4, <2>5
<1>14. CASE i = l + 2
  <2>1. 2 \in 1..Len(b) /\ 2 + l = i BY <1>6, <1>10, <1>11, <1>14
  <2>2. Link'[2 + l] = b[2] BY <1>9, <2>1
  <2>3. Link'[i] = ack BY <1>7, <2>1, <2>2
  <2> QED BY <1>4, <2>3 DEF AckOk, AckBadCommand
<1>15. CASE i = l + 3
  <2>1. 3 \in 1..Len(b) /\ 3 + l = i /\ Len(f) = 1 BY <1>6, <1>10, <1>11, <1>15
  <2>2. Link'[3 + l] = b[3] BY <1>9, <2>1
  <2>3. Link'[i] = 1 BY <1>7, <2>1, <2>2
  <2> QED BY <1>4, <2>3
<1>16. i <= l \/ i = l + 1 \/ i = l + 2 \/ i = l + 3
  <2> DEFINE n == Len(b)
             m == Len(f)
  <2>1. m \in {0, 1} /\ n = 2 + m /\ l \in Nat /\ i \in 1..(l + n) BY ONLY <1>6, <1>10, <1>11
  <2> HIDE DEF n, m
  <2> QED BY ONLY <2>1
<1> QED BY <1>12, <1>13, <1>14, <1>15, <1>16

(* The flux that an earlier session did not end is ended by a packet that  *)
(* is answered by a byte of zero.                                          *)
FluxEnded == Answer(<<0>>)
LEMMA ForeignEnded ==
    ASSUME TypeOK, Foreign, UNCHANGED <<opened, inbox>>, wire # <<>>, FluxEnded, ~fw'.writing,
           fw'.motor => fw.motor
    PROVE  ForeignLink'
<1> DEFINE l == Len(Link)
<1>1. inbox \in Seq(Byte) /\ outbox \in Seq(Byte) /\ <<0>> \in Seq(Byte) /\ Len(<<0>>) = 1
      /\ <<0>>[1] = 0
  BY LinkOf DEF Byte
<1>2. /\ Link' \in Seq(Byte) /\ Len(Link') = l + 1 /\ l \in Nat
      /\ \A i \in 1..l : Link'[i] = Link[i]
      /\ \A i \in 1..1 : Link'[i + l] = <<0>>[i]
  BY <1>1, Answers, LinkIs DEF Answer, FluxEnded
<1>3. Link'[l + 1] = 0
  <2>1. 1 \in 1..1 /\ 1 + l = l + 1 BY <1>2
  <2> QED BY <1>1, <1>2, <2>1
<1>4. DOMAIN Link = 1..l
  <2>1. Link \in Seq(Byte) BY <1>1, LinkIs
  <2> QED BY <2>1
<1> HIDE DEF l
<1> SUFFICES ASSUME NEW i \in DOMAIN Link'
             PROVE  /\ Link'[i] = Code.motor =>
                         i < Len(Link') /\ (Link'[i + 1] = AckOk => ~fw'.motor)
                    /\ ~(Link'[i] = Code.reset /\ opened' = "opening")
  BY DEF ForeignLink
<1>5. i \in 1..(l + 1) /\ Code.motor = 6 /\ Code.reset = 16
  <2>1. DOMAIN Link' = 1..(l + 1) BY <1>2
  <2> QED BY <2>1, CodeIs
<1>6. CASE i = l + 1 BY <1>3, <1>5, <1>6
<1>7. CASE i <= l
  <2>1. i \in DOMAIN Link /\ Link'[i] = Link[i] BY <1>2, <1>4, <1>5, <1>7
  <2>2. ~(Link[i] = Code.reset /\ opened = "opening") BY <2>1 DEF Foreign, ForeignLink
  <2>3. ASSUME Link[i] = Code.motor
        PROVE  i < Len(Link') /\ (Link'[i + 1] = AckOk => ~fw'.motor)
    <3>1. i < l /\ (Link[i + 1] = AckOk => ~fw.motor)
      BY <2>1, <2>3 DEF Foreign, ForeignLink, l
    <3>2. i + 1 \in 1..l BY <1>2, <1>5, <3>1
    <3>3. Link'[i + 1] = Link[i + 1] BY <1>2, <3>2
    <3> QED BY <1>2, <3>1, <3>2, <3>3
  <2> QED BY <2>1, <2>2, <2>3
<1> QED BY <1>2, <1>5, <1>6, <1>7

LEMMA FirmwareForeign ==
    ASSUME TypeOK, TypeOK', Foreign, Firmware
    PROVE  Foreign' /\ (fw'.motor => fw.motor)
<1> DEFINE p == Head(wire)
<1>1. /\ wire \in Seq(Sent) /\ wire # <<>> /\ wire' = Tail(wire)
      /\ UNCHANGED <<opened, script, phase, drv, inbox>>
  BY DEF Firmware, TypeOK, driverVars
<1>2. /\ 1 \in DOMAIN wire /\ p = wire[1] /\ Len(wire) \in Nat \ {0} /\ DOMAIN wire = 1..Len(wire)
      /\ Len(wire') = Len(wire) - 1 /\ wire' \in Seq(Sent) /\ DOMAIN wire' = 1..Len(wire')
      /\ \A i \in 1..Len(wire') : wire'[i] = wire[i + 1]
  <2>1. Len(wire) # 0 BY <1>1, EmptySeq
  <2> QED BY <1>1, <2>1, HeadTailProperties
<1>3. p.do \in {"info", "reset", "setparams", "motor"} /\ (p.do = "motor" => p.arg = 0)
  BY <1>2 DEF Foreign, ForeignWire
<1> HIDE DEF p
<1>5. TakesFlux(p) \/ Refuses(p) \/ Obeys(p)
  BY <1>3 DEF Firmware, p, TellsFlux, Writes, Reads
<1>6. ForeignScript' BY <1>1 DEF Foreign, ForeignScript, Ahead, Now
<1>7. ForeignWire'
  <2> SUFFICES ASSUME NEW i \in DOMAIN wire'
               PROVE  /\ wire'[i].do \in {"info", "reset", "setparams", "motor"}
                      /\ wire'[i].do = "motor" => wire'[i].arg = 0
                      /\ wire'[i].do = "reset" /\ opened' = "opening" => i = Len(wire') /\ Resetting'
    BY DEF ForeignWire
  <2>1. i + 1 \in DOMAIN wire /\ wire'[i] = wire[i + 1] BY <1>2
  <2>2. i + 1 = Len(wire) => i = Len(wire') BY <1>2
  <2>3. Resetting' <=> Resetting BY <1>1 DEF Resetting, Now
  <2> QED BY <1>1, <2>1, <2>2, <2>3 DEF Foreign, ForeignWire
<1>8. AckOk \in Byte /\ AckBadCommand \in Byte /\ AckBadCommand # AckOk /\ 1 \in Byte
  BY DEF AckOk, AckBadCommand, Byte
<1>9. CASE Refuses(p)
  <2>1. UNCHANGED fw /\ Answer(<<Code[p.do], AckBadCommand>>) BY <1>9 DEF Refuses
  <2>2. Code[p.do] \in Byte BY <1>3, CodeIs
  <2>3. <<>> \in Seq(Byte) /\ <<Code[p.do], AckBadCommand>> \in Seq(Byte) BY <1>8, <2>2
  <2>4. Answer(<<Code[p.do], AckBadCommand>> \o <<>>) BY <2>1, <2>3, ConcatEmptySeq
  <2>5. ForeignLink' BY <1>8, <2>1, <2>3, <2>4, ForeignAnswers DEF p
  <2>6. ForeignDrive' BY <1>1, <2>1 DEF Foreign, ForeignDrive
  <2> QED BY <1>6, <1>7, <2>1, <2>5, <2>6 DEF Foreign
<1>10. CASE Obeys(p)
  <2>1. Answer(<<Code[p.do], AckOk>> \o Follows(p)) /\ fw' = Does(p) BY <1>10 DEF Obeys
  <2>2. Follows(p) \in Seq(Byte) /\ (Follows(p) = <<>> \/ (p.do = "info" /\ Follows(p) = << 1 >>))
    BY <1>3, FollowsTyped DEF Follows
  <2>3. /\ fw'.motor => fw.motor
        /\ p.do = "motor" => ~fw'.motor
        /\ p.do = "reset" => ~fw'.motor /\ ~fw'.selected /\ ~fw'.writing
        /\ fw'.placed = fw.placed
    <3>1. CASE p.do = "motor"
      <4>1. fw' = [fw EXCEPT !.motor = (p.arg = 1)] BY <2>1, <3>1 DEF Does
      <4>2. fw'.motor = (p.arg = 1) /\ p.arg = 0 BY <1>3, <3>1, <4>1 DEF TypeOK
      <4>3. p.arg # 1 /\ fw'.motor \in BOOLEAN BY <4>2 DEF TypeOK
      <4>4. ~fw'.motor BY ONLY <4>2, <4>3
      <4>5. fw'.placed = fw.placed BY <4>1 DEF TypeOK
      <4> QED BY <3>1, <4>4, <4>5
    <3>2. CASE p.do = "reset" BY <1>10, <2>1, <3>2 DEF Obeys, Plain, Heeds, Does, TypeOK
    <3>3. CASE p.do = "setparams" BY <2>1, <3>3 DEF Does, TypeOK
    <3>4. CASE p.do = "info" BY <2>1, <3>4 DEF Does, TypeOK
    <3> QED BY <1>3, <3>1, <3>2, <3>3, <3>4
  <2>4. ForeignLink' BY <1>8, <2>1, <2>2, <2>3, ForeignAnswers DEF p
  <2>5. ForeignDrive' BY <1>1, <2>3 DEF Foreign, ForeignDrive
  <2> QED BY <1>6, <1>7, <2>3, <2>4, <2>5 DEF Foreign
<1>11. CASE TakesFlux(p)
  <2>1. CASE UNCHANGED <<outbox, fw>>
    <3>1. Link' = Link BY <1>1, <2>1 DEF Link
    <3>2. ForeignLink' BY <1>1, <2>1, <3>1 DEF Foreign, ForeignLink
    <3>3. ForeignDrive' BY <1>1, <2>1 DEF Foreign, ForeignDrive
    <3> QED BY <1>6, <1>7, <2>1, <3>2, <3>3 DEF Foreign
  <2>2. CASE Answer(<<0>>) /\ \E s \in {AckOk, AckFluxUnderflow} :
                                fw' = [fw EXCEPT !.writing = FALSE, !.flux = s]
    <3>1. ~fw'.writing /\ fw'.motor = fw.motor /\ fw'.placed = fw.placed BY <2>2 DEF TypeOK
    <3>2. ForeignLink' BY <1>1, <2>2, <3>1, ForeignEnded DEF FluxEnded
    <3>3. ForeignDrive' BY <1>1, <3>1 DEF Foreign, ForeignDrive
    <3> QED BY <1>6, <1>7, <3>1, <3>2, <3>3 DEF Foreign
  <2> QED BY <1>11, <2>1, <2>2 DEF TakesFlux
<1> QED BY <1>5, <1>9, <1>10, <1>11

-----------------------------------------------------------------------------
(* The invariant holds at first.                                           *)
LEMMA InitLinked == ASSUME Init, HarmlessLeftovers PROVE LinkInv
<1>1. /\ opened = "opening" /\ script = OpenScript /\ phase = "send" /\ wire = <<>>
      /\ inbox = <<>> /\ outbox \in Leftovers \cup {<<>>}
      /\ ~drv.selected /\ ~drv.motor /\ drv.cyl = 0 /\ drv.side = 0 /\ fw.placed = {}
  BY DEF Init, FoundFirmware
<1>2. ScriptOK(script) /\ Ahead("reset") BY <1>1, OpenScriptOK DEF Ahead
<1>3. ForeignScript BY <1>1, <1>2 DEF ForeignScript
<1>4. ForeignDrive BY <1>1 DEF ForeignDrive
<1>5. ForeignWire BY <1>1 DEF ForeignWire
<1>6. Link = outbox
  <2>1. Leftovers \subseteq Seq(Nat) BY LinkAssumption
  <2>2. <<>> \in Seq(Nat) OBVIOUS
  <2>3. outbox \in Seq(Nat) BY <1>1, <2>1, <2>2
  <2> QED BY <1>1, <2>3, ConcatEmptySeq DEF Link
<1>7. \A i \in DOMAIN outbox : outbox[i] \notin {Code.reset, Code.motor}
  BY <1>1 DEF HarmlessLeftovers
<1>8. ForeignLink BY <1>6, <1>7 DEF ForeignLink
<1>9. LettingGo BY <1>1 DEF LettingGo, LeftQuiet
<1> QED BY <1>2, <1>3, <1>4, <1>5, <1>8, <1>9 DEF LinkInv, Foreign

(* A retried capture keeps what a drop has yet to do.                      *)
LEMMA LettingRetried ==
    ASSUME TypeOK, LettingGo, ~Idle, Retried(inbox[2]), UNCHANGED fw
    PROVE  LettingGo'
<1> DEFINE again == <<Step("read", 0), Step("stream", 0)>>
<1>1. script' = again \o script /\ UNCHANGED <<opened, outcome>> BY DEF Retried
<1>2. again \in Seq(Todo) /\ Len(again) = 2 /\ again[1].do = "read" /\ again[2].do = "stream"
  BY DEF Todo, Steps, Step
<1>3. script \in Seq(Todo) /\ Len(script) \in Nat \ {0} /\ DOMAIN script = 1..Len(script)
  BY ScriptSteps DEF TypeOK
<1> HIDE DEF again
<1>4. /\ script' \in Seq(Todo) /\ Len(script') = Len(script) + 2
      /\ \A i \in 1..2 : script'[i] = again[i]
      /\ \A i \in 1..Len(script) : script'[i + 2] = script[i]
  <2> DEFINE t == again \o script
  <2>1. t \in Seq(Todo) /\ Len(t) = Len(again) + Len(script) BY <1>2, <1>3, ConcatProperties
  <2>2. ASSUME NEW i \in 1..2 PROVE t[i] = again[i]
    <3>1. i \in 1..(Len(again) + Len(script)) /\ i <= Len(again) BY <1>2, <1>3
    <3> QED BY <1>2, <1>3, <3>1, ConcatProperties
  <2>3. ASSUME NEW i \in 1..Len(script) PROVE t[i + 2] = script[i]
    <3> DEFINE j == i + 2
    <3>1. j \in 1..(Len(again) + Len(script)) /\ ~(j <= Len(again)) /\ j - Len(again) = i
      BY <1>2, <1>3
    <3> HIDE DEF j
    <3>2. t[j] = script[j - Len(again)] BY <1>2, <1>3, <3>1, ConcatProperties
    <3> QED BY <3>1, <3>2 DEF j
  <2>4. Len(again) + Len(script) = Len(script) + 2 BY <1>2, <1>3
  <2>5. script' = t BY <1>1
  <2> HIDE DEF t
  <2> QED BY <2>1, <2>2, <2>3, <2>4, <2>5
<1>5. DOMAIN script' = 1..(Len(script) + 2) /\ script' # <<>> BY <1>3, <1>4
<1>6. ASSUME NEW i \in DOMAIN script', script'[i].do = "motor"
      PROVE  i - 2 \in DOMAIN script /\ script'[i] = script[i - 2]
  <2>1. i # 1 /\ i # 2 BY <1>2, <1>4, <1>6
  <2>2. i - 2 \in 1..Len(script) /\ (i - 2) + 2 = i BY <1>3, <1>5, <2>1
  <2>3. script'[(i - 2) + 2] = script[i - 2] BY <1>4, <2>2
  <2> QED BY <1>3, <2>2, <2>3
<1>7. Ahead("motor") => Ahead("motor")'
  <2> SUFFICES ASSUME NEW i \in DOMAIN script, script[i].do = "motor"
               PROVE  Ahead("motor")'
    BY DEF Ahead
  <2>1. i + 2 \in DOMAIN script' /\ script'[i + 2] = script[i] BY <1>3, <1>4, <1>5
  <2> QED BY <2>1 DEF Ahead
<1>8. ~Idle' BY <1>5 DEF Idle
<1>9. opened' = "closing" => \A i \in DOMAIN script' : script'[i].do = "motor" => script'[i].arg = 0
  BY <1>1, <1>6 DEF LettingGo
<1> QED BY <1>1, <1>7, <1>8, <1>9 DEF LettingGo, LeftQuiet

LEMMA LinkStep ==
    ASSUME TypeOK, TypeOK', LinkInv, [Next]_vars, PunctualAnswers
    PROVE  LinkInv'
<1> USE DEF LinkInv
<1>1. CASE Call \/ Drop BY <1>1, CallLinked
<1>2. CASE Skip
  <2>1. ~Idle /\ UNCHANGED fw /\ (Local \/ Now = "step") BY <1>2 DEF Skip
  <2>2. ScriptOK(script') /\ (Synced' \/ Foreign') BY <1>2, SkipSynced, SkipForeign
  <2>3. Now # "motor" BY <2>1 DEF Local
  <2>4. (~OutOfRange /\ Advance) \/ Fail BY <1>2 DEF Skip
  <2>5. LettingGo' BY <2>1, <2>3, <2>4, LettingAdvance, LettingFail
  <2> QED BY <2>2, <2>5
<1>3. CASE Send
  <2>1. ScriptOK(script') /\ (Synced' \/ Foreign') BY <1>3, SendSynced, SendForeign
  <2>2. UNCHANGED <<opened, script, outcome, fw>> BY <1>3 DEF Send
  <2>3. LettingGo' BY <2>2, LettingStay
  <2> QED BY <2>1, <2>3
<1>4. CASE SendFlux
  <2>1. ~Idle /\ Now = "flux" /\ Advance /\ UNCHANGED fw /\ ~OutOfRange
    BY <1>4 DEF SendFlux, OutOfRange, PunctualAnswers, TypeOK
  <2>2. Synced BY <2>1, ForeignNow
  <2>3. ScriptOK(script') /\ Synced' BY <1>4, <2>2, SendFluxSynced
  <2>4. LettingGo' BY <2>1, LettingAdvance
  <2> QED BY <2>3, <2>4
<1>5. CASE Acknowledge
  <2>1. ~Idle /\ phase = "ack" /\ UNCHANGED fw BY <1>5, AckFront
  <2>2. ScriptOK(script') /\ (Synced' \/ Foreign')
    BY <1>5, AcknowledgeSynced, AcknowledgeForeign
  <2>3. ~OutOfRange
    <3>1. CASE Foreign BY <2>1, <3>1, ForeignNow
    <3>2. CASE Synced
      <4>1. Packet.do \in DOMAIN Code BY <2>1, <3>2 DEF Synced, Exchange
      <4>2. Now = "range" => Packet.do = "range" BY DEF Packet, Now
      <4> QED BY <4>1, <4>2, CodeIs DEF OutOfRange
    <3> QED BY <3>1, <3>2
  <2>4. Refused(inbox[2]) \/ Retried(inbox[2]) \/ Accepted(inbox[2]) BY <1>5 DEF Acknowledge
  <2>5. CASE Refused(inbox[2])
    <3>1. LettingGo' BY <2>1, <2>5, LettingFail DEF Refused
    <3> QED BY <2>2, <3>1
  <2>6. CASE Retried(inbox[2])
    <3>1. LettingGo' BY <2>1, <2>6, LettingRetried
    <3> QED BY <2>2, <3>1
  <2>7. CASE Accepted(inbox[2])
    <3>1. CASE Payload
      <4>1. UNCHANGED <<opened, script, outcome>> BY <2>7, <3>1 DEF Accepted
      <4>2. LettingGo' BY <2>1, <4>1, LettingStay
      <4> QED BY <2>2, <4>2
    <3>2. CASE ~Payload
      <4>1. Advance BY <2>7, <3>2 DEF Accepted
      <4>2. Now = "motor" /\ opened = "closing" => ~fw.motor
        <5> SUFFICES ASSUME Now = "motor", opened = "closing" PROVE ~fw.motor OBVIOUS
        <5>1. CASE Foreign BY <1>5, <2>7, <5>1, AcknowledgeForeign
        <5>2. CASE Synced
          <6>1. fw.motor = (Arg = 1) BY <1>5, <2>7, <5>2, AcknowledgeSynced
          <6>2. Arg = 0 BY <2>1, LettingMotor
          <6>3. Arg # 1 /\ fw.motor \in BOOLEAN BY <6>2 DEF TypeOK
          <6> QED BY ONLY <6>1, <6>3
        <5> QED BY <5>1, <5>2
      <4>3. LettingGo' BY <2>1, <2>3, <4>1, <4>2, LettingAdvance
      <4> QED BY <2>2, <4>3
    <3> QED BY <3>1, <3>2
  <2> QED BY <2>4, <2>5, <2>6, <2>7
<1>6. CASE TakePayload
  <2>1. Advance /\ UNCHANGED fw /\ phase = "payload" BY <1>6 DEF TakePayload
  <2>2. ~Idle BY <2>1 DEF TypeOK
  <2>3. ScriptOK(script') /\ (Synced' \/ Foreign') /\ Now # "motor"
    BY <1>6, PayloadSynced, PayloadForeign
  <2>4. ~OutOfRange
    <3>1. Synced => Payload BY <2>1 DEF Synced, Exchange
    <3> QED BY <2>2, <3>1, ForeignNow DEF Payload, OutOfRange
  <2>5. LettingGo' BY <2>1, <2>2, <2>3, <2>4, LettingAdvance
  <2> QED BY <2>3, <2>5
<1>7. CASE TakeStream
  <2>1. ~Idle /\ Now = "stream" /\ UNCHANGED fw BY <1>7 DEF TakeStream
  <2>2. Synced BY <2>1, ForeignNow
  <2>3. ScriptOK(script') /\ Synced' BY <1>7, <2>2, StreamSynced
  <2>4. ~OutOfRange BY <2>1 DEF OutOfRange
  <2>5. Advance \/ Fail \/ UNCHANGED <<opened, script, outcome>> BY <1>7 DEF TakeStream
  <2>6. Advance => LettingGo' BY <2>1, <2>4, LettingAdvance
  <2>7. Fail => LettingGo' BY <2>1, LettingFail
  <2>8. UNCHANGED <<opened, script, outcome>> => LettingGo' BY <2>1, LettingStay
  <2> QED BY <2>3, <2>5, <2>6, <2>7, <2>8
<1>8. CASE TakeSync
  <2>1. ~Idle /\ Now = "sync" /\ Advance /\ UNCHANGED fw BY <1>8 DEF TakeSync
  <2>2. Synced BY <2>1, ForeignNow
  <2>3. ScriptOK(script') /\ Synced' BY <1>8, <2>2, SyncSynced
  <2>4. ~OutOfRange BY <2>1 DEF OutOfRange
  <2>5. LettingGo' BY <2>1, <2>4, LettingAdvance
  <2> QED BY <2>3, <2>5
<1>9. CASE Deadline
  <2>1. ~Idle /\ Fail BY <1>9 DEF Deadline, Reading
  <2>2. Foreign BY <1>9, NeverLate
  <2>3. ScriptOK(script') /\ Foreign' BY <1>9, <2>2, DeadlineForeign
  <2>4. LettingGo' BY <2>1, LettingFail
  <2> QED BY <2>3, <2>4
<1>10. CASE Firmware
  <2>1. UNCHANGED <<opened, script, outcome>> BY <1>10 DEF Firmware, driverVars
  <2>2. CASE Synced
    <3>1. ScriptOK(script') /\ Synced' BY <1>10, <2>2, FirmwareSynced
    <3>2. fw.motor' # fw.motor => ~Idle /\ Now = "motor" BY <1>10, <2>2, FirmwareSynced
    <3>3. fw'.motor => fw.motor \/ (~Idle /\ Now = "motor")
      <4>1. fw.motor \in BOOLEAN /\ fw'.motor \in BOOLEAN BY DEF TypeOK
      <4> QED BY <3>2, <4>1
    <3>4. LettingGo' BY <2>1, <3>3, LettingStay
    <3> QED BY <3>1, <3>4
  <2>3. CASE Foreign
    <3>1. Foreign' /\ (fw'.motor => fw.motor) BY <1>10, <2>3, FirmwareForeign
    <3>2. LettingGo' BY <2>1, <3>1, LettingStay
    <3> QED BY <2>1, <3>1, <3>2 DEF ScriptOK
  <2> QED BY <2>2, <2>3
<1>11. CASE Deliver
  <2>1. Link' = Link BY <1>11, DeliverLink
  <2>2. UNCHANGED <<opened, script, phase, outcome, drv, wire, fw>> BY <1>11 DEF Deliver, driverVars
  <2> QED BY <2>1, <2>2, Undisturbed
<1>12. CASE ChangeDisk \/ Closed \/ UNCHANGED vars
  <2>1. UNCHANGED <<opened, script, phase, outcome, drv, wire, fw>> /\ UNCHANGED <<inbox, outbox>>
    BY <1>12 DEF ChangeDisk, Closed, vars, driverVars, linkVars
  <2>2. Link' = Link BY <2>1 DEF Link
  <2> QED BY <2>1, <2>2, Undisturbed
<1> QED BY <1>1, <1>2, <1>3, <1>4, <1>5, <1>6, <1>7, <1>8, <1>9, <1>10, <1>11, <1>12
        DEF Next, Driver

-----------------------------------------------------------------------------
(* LinkTypes: the driver, the link and the firmware have the types their   *)
(* declarations in greaseweazle.rs give them, in every state.              *)
THEOREM LinkTypes == Spec => []TypeOK
<1>1. Init => TypeOK BY TypeInit
<1>2. TypeOK /\ [Next]_vars => TypeOK' BY TypeStep
<1> QED BY <1>1, <1>2, PTL DEF Spec

(* Linked: one exchange is under way at a time, or open has not got as far *)
(* as its Reset, as long as every answer arrives before its deadline and   *)
(* nothing left on the line can pass for a Reset's or a Motor's.           *)
THEOREM Linked ==
    ASSUME PunctualAnswers, HarmlessLeftovers
    PROVE  Spec => [](TypeOK /\ LinkInv)
<1>1. Init => TypeOK /\ LinkInv BY TypeInit, InitLinked
<1>2. TypeOK /\ LinkInv /\ [Next]_vars => TypeOK' /\ LinkInv' BY TypeStep, LinkStep
<1> QED BY <1>1, <1>2, PTL DEF Spec

(* What Linked says of an open device between two calls.                   *)
LEMMA BetweenCalls ==
    ASSUME TypeOK, LinkInv, Idle
    PROVE  opened = "open" => ~fw.writing /\ Silent /\ Agrees(drv)
<1>1. phase = "send" BY DEF TypeOK
<1>2. CASE Synced BY <1>1, <1>2 DEF Synced, Exchange
<1>3. CASE Foreign BY <1>3 DEF Foreign, ForeignScript
<1> QED BY <1>2, <1>3 DEF LinkInv

(* LinkInStep: InStep. Between calls the link is silent and the firmware   *)
(* does not wait for flux, whatever the calls came to (the reads and       *)
(* purges of read_flux, write_flux and map_ack in greaseweazle.rs).        *)
THEOREM LinkInStep ==
    ASSUME PunctualAnswers, HarmlessLeftovers
    PROVE  Spec => []InStep
<1>1. TypeOK /\ LinkInv => InStep
  <2> SUFFICES ASSUME TypeOK, LinkInv, Idle, opened = "open"
               PROVE  ~fw.writing /\ wire = <<>> /\ outbox = <<>> /\ inbox = <<>>
    BY DEF InStep
  <2> QED BY BetweenCalls, LinkIs, LinkOf DEF Silent
<1> QED BY <1>1, Linked, PTL

(* RecordsTrueHolds: RecordsTrue. Between calls the driver's selected and  *)
(* motor are the firmware's, its cylinder and its side once a Seek and a   *)
(* Head have set them, wherever the head was found (select, set_motor,     *)
(* seek and select_side in greaseweazle.rs record what was acknowledged).  *)
THEOREM RecordsTrueHolds ==
    ASSUME PunctualAnswers, HarmlessLeftovers
    PROVE  Spec => []RecordsTrue
<1>1. TypeOK /\ LinkInv => RecordsTrue BY BetweenCalls DEF RecordsTrue
<1> QED BY <1>1, Linked, PTL

(* LeftQuietHolds: LeftQuiet. After a drop that succeeds the motor is off, *)
(* whatever state an earlier session left the drive in.                    *)
THEOREM LeftQuietHolds ==
    ASSUME PunctualAnswers, HarmlessLeftovers
    PROVE  Spec => []LeftQuiet
<1>1. LinkInv => LeftQuiet BY DEF LinkInv, LettingGo
<1> QED BY <1>1, Linked, PTL
-----------------------------------------------------------------------------
(* What a status tells of the disk.                                        *)
Level(d, pin) ==
    IF pin = 28 THEN (IF d.protected THEN 0 ELSE 1) ELSE (IF d.present THEN 1 ELSE 0)
Told(level) == \E d \in since : level = Level(d, Arg)
(* A level on its way to the driver is that of a disk of this call.        *)
LevelTold ==
    ~Idle /\ Now = "pin" =>
       /\ phase = "payload" => Told(Link[1])
       /\ phase = "ack" /\ wire = <<>> /\ Link[2] = AckOk => Told(Link[3])
(* A call that asks still has to, or knows; nothing in it only presumes.   *)
AsksProtected(s) == \E i \in DOMAIN s : s[i].do = "pin" /\ s[i].arg = 28
AsksPresent(s) == \E i \in DOMAIN s : s[i].do = "pin" /\ s[i].arg # 28
Unpresumed(s) == \A i \in DOMAIN s : s[i].do \notin {"presume", "fluxstatus"}
Asking ==
    /\ opened \in {"opening", "open"} /\ op \in {"open", "status", "noclick"}
    /\ outcome # "failed" /\ Bus = 1
KnowsProtected == \E d \in since : drv.protected = d.protected
KnowsPresent == \E d \in since : drv.present = d.present
PinInv ==
    /\ disk \in since /\ LevelTold
    /\ ~Idle /\ opened \in {"opening", "open"} => outcome = "none"
    /\ Asking => /\ Unpresumed(script)
                 /\ AsksProtected(script) \/ KnowsProtected
                 /\ AsksPresent(script) \/ KnowsPresent

(* Every status asks for both pins.                                        *)
Pins(s) == AsksProtected(s) /\ AsksPresent(s) /\ Unpresumed(s)
LEMMA PinsBehind ==
    ASSUME NEW a \in Seq(Todo), NEW b \in Seq(Todo), Unpresumed(a)
    PROVE  /\ Unpresumed(b) => Unpresumed(a \o b)
           /\ AsksProtected(b) => AsksProtected(a \o b)
           /\ AsksPresent(b) => AsksPresent(a \o b)
<1> DEFINE c == a \o b
<1>1. PICK m \in Nat, n \in Nat : m = Len(a) /\ n = Len(b) BY CatIs
<1>2. /\ c \in Seq(Todo) /\ Len(c) = m + n
      /\ \A i \in 1..m : c[i] = a[i]
      /\ \A i \in 1..n : c[i + m] = b[i]
  BY <1>1, CatIs
<1> HIDE DEF c
<1>3. DOMAIN c = 1..(m + n) /\ DOMAIN a = 1..m /\ DOMAIN b = 1..n BY <1>1, <1>2
<1>4. ASSUME NEW i \in 1..n PROVE i + m \in 1..(m + n) BY <1>4
<1>5. ASSUME NEW i \in 1..(m + n), i \notin 1..m PROVE \E j \in 1..n : i = j + m
  <2>1. i - m \in 1..n /\ i = (i - m) + m BY ONLY <1>5, m \in Nat, n \in Nat
  <2> QED BY <2>1
<1>6. Unpresumed(b) => Unpresumed(c)
  <2> SUFFICES ASSUME Unpresumed(b), NEW i \in 1..(m + n) PROVE c[i].do \notin {"presume", "fluxstatus"}
    BY <1>3 DEF Unpresumed
  <2>1. CASE i \in 1..m BY <1>2, <1>3, <2>1 DEF Unpresumed
  <2>2. CASE i \notin 1..m
    <3>1. PICK j \in 1..n : i = j + m BY <1>5, <2>2
    <3>2. c[i] = b[j] BY <1>2, <3>1
    <3> QED BY <1>3, <3>2 DEF Unpresumed
  <2> QED BY <2>1, <2>2
<1>7. AsksProtected(b) => AsksProtected(c)
  <2> SUFFICES ASSUME AsksProtected(b) PROVE AsksProtected(c) OBVIOUS
  <2>1. PICK j \in 1..n : b[j].do = "pin" /\ b[j].arg = 28 BY <1>3 DEF AsksProtected
  <2>2. c[j + m] = b[j] /\ j + m \in DOMAIN c BY <1>2, <1>3, <1>4
  <2> QED BY <2>1, <2>2 DEF AsksProtected
<1>8. AsksPresent(b) => AsksPresent(c)
  <2> SUFFICES ASSUME AsksPresent(b) PROVE AsksPresent(c) OBVIOUS
  <2>1. PICK j \in 1..n : b[j].do = "pin" /\ b[j].arg # 28 BY <1>3 DEF AsksPresent
  <2>2. c[j + m] = b[j] /\ j + m \in DOMAIN c BY <1>2, <1>3, <1>4
  <2> QED BY <2>1, <2>2 DEF AsksPresent
<1> QED BY <1>6, <1>7, <1>8 DEF c

LEMMA CheckPinsAsks == Bus = 1 => CheckPins \in Seq(Todo) /\ Pins(CheckPins)
<1> SUFFICES ASSUME Bus = 1 PROVE CheckPins \in Seq(Todo) /\ Pins(CheckPins) OBVIOUS
<1> DEFINE s == <<Step("select", 0), Step("pin", 28), Step("pin", 34), Step("idle", 0)>>
<1>1. CheckPins = s BY DEF CheckPins
<1>2. s \in Seq(Todo) BY DEF Step, Todo, Steps
<1>3. /\ DOMAIN s = 1..4 /\ s[2] = Step("pin", 28) /\ s[3] = Step("pin", 34)
      /\ s[1] = Step("select", 0) /\ s[4] = Step("idle", 0)
  OBVIOUS
<1>4. AsksProtected(s) /\ AsksPresent(s)
  <2>1. 2 \in 1..4 /\ 3 \in 1..4 OBVIOUS
  <2> HIDE DEF s
  <2> QED BY <1>3, <2>1 DEF AsksProtected, AsksPresent, Step
<1>5. Unpresumed(s)
  <2>1. \A i \in 1..4 : i \in {1, 2, 3, 4} OBVIOUS
  <2> HIDE DEF s
  <2> QED BY <1>3, <2>1 DEF Unpresumed, Step
<1> QED BY <1>1, <1>2, <1>4, <1>5 DEF Pins

LEMMA StatusAsks ==
    ASSUME Bus = 1
    PROVE  /\ Pins(OpenScript)
           /\ \A s \in Scripts : s.op \in {"status", "noclick"} => Pins(s.script)
           /\ \A s \in Scripts : s.op # "open"
<1>1. CheckPins \in Seq(Todo) /\ Pins(CheckPins) BY CheckPinsAsks
<1>2. Pins(OpenScript)
  <2> DEFINE first == <<Step("purge", 0), Step("info", 0), Step("version", 0), Step("reset", 0),
                        Step("params", 0), Step("step", 0), Step("bus", Bus)>>
  <2>1. first \in Seq(Todo) BY DEF Step, Todo, Steps
  <2>2. Unpresumed(first) BY DEF Step, Unpresumed
  <2>3. OpenScript = first \o CheckPins BY DEF OpenScript
  <2> HIDE DEF first
  <2> QED BY <1>1, <2>1, <2>2, <2>3, PinsBehind DEF Pins
<1>3. Pins(NoClickScript)
  <2> DEFINE first == <<Step("select", 0), Step("noclick", 0)>>
  <2>1. first \in Seq(Todo) BY DEF Step, Todo, Steps
  <2>2. Unpresumed(first) BY DEF Step, Unpresumed
  <2>3. NoClickScript = first \o CheckPins BY DEF NoClickScript
  <2> HIDE DEF first
  <2> QED BY <1>1, <2>1, <2>2, <2>3, PinsBehind DEF Pins
<1>4. \A s \in Scripts : s.op \in {"status", "noclick"} => s.script \in {CheckPins, NoClickScript}
  BY DEF Scripts
<1>5. \A s \in Scripts : s.op # "open" BY LinkAssumption DEF Scripts
<1> QED BY <1>1, <1>2, <1>3, <1>4, <1>5

(* What an exchange does to what is known.                                 *)
LEMMA NothingTold == ASSUME phase' = "send" PROVE LevelTold'
BY DEF LevelTold
LEMMA AdvanceBegun ==
    ASSUME TypeOK, LettingGo, ~Idle, Advance, PinInv
    PROVE  ~Idle' /\ opened' \in {"opening", "open"} => outcome' = "none"
BY DEF Advance, Idle, LettingGo, PinInv, TypeOK

LEMMA AskingAdvance ==
    ASSUME TypeOK, LettingGo, ~Idle, Advance, UNCHANGED <<op, since>>, PinInv,
           Asking /\ Now = "pin" /\ Arg = 28 => KnowsProtected',
           Asking /\ Now = "pin" /\ Arg # 28 => KnowsPresent',
           Asking /\ KnowsProtected /\ ~(Now = "pin" /\ Arg = 28) => KnowsProtected',
           Asking /\ KnowsPresent /\ ~(Now = "pin" /\ Arg # 28) => KnowsPresent'
    PROVE  Asking' => /\ Unpresumed(script')
                      /\ AsksProtected(script') \/ KnowsProtected'
                      /\ AsksPresent(script') \/ KnowsPresent'
<1>1. PICK l \in Nat \ {0} :
        /\ l = Len(script) /\ DOMAIN script = 1..l /\ DOMAIN script' = 1..(l - 1)
        /\ \A i \in 1..(l - 1) : script'[i] = script[i + 1]
  <2>1. script \in Seq(Todo) /\ script' = Tail(script) BY DEF TypeOK, Advance
  <2>4. Len(script) \in Nat \ {0} BY <2>1, ScriptSteps
  <2>2. PICK l \in Nat \ {0} : l = Len(script) BY <2>4
  <2>3. /\ DOMAIN script = 1..l /\ Len(script') = l - 1 /\ DOMAIN script' = 1..Len(script')
        /\ \A i \in 1..Len(script') : script'[i] = script[i + 1]
    BY <2>1, <2>2, ScriptSteps
  <2> QED BY <2>2, <2>3
<1>2. Asking' => Asking
  <2>1. opened # "closed" BY DEF LettingGo
  <2>2. opened' \in {"opening", "open"} => opened \in {"opening", "open"}
    BY <2>1 DEF Advance, TypeOK
  <2> QED BY <2>2 DEF Asking, PinInv
<1> SUFFICES ASSUME Asking, Asking'
             PROVE  /\ Unpresumed(script')
                    /\ AsksProtected(script') \/ KnowsProtected'
                    /\ AsksPresent(script') \/ KnowsPresent'
  BY <1>2
<1>3. Unpresumed(script')
  <2>1. \A i \in 1..(l - 1) : i + 1 \in 1..l OBVIOUS
  <2> QED BY <1>1, <2>1 DEF PinInv, Unpresumed
<1>4. ASSUME NEW i \in 1..l, i # 1 PROVE i - 1 \in 1..(l - 1) /\ script'[i - 1] = script[i]
  <2>1. i - 1 \in 1..(l - 1) /\ (i - 1) + 1 = i BY <1>4
  <2> QED BY <1>1, <2>1
<1>5. AsksProtected(script') \/ KnowsProtected'
  <2>1. CASE AsksProtected(script)
    <3>1. PICK i \in 1..l : script[i].do = "pin" /\ script[i].arg = 28
      BY <1>1, <2>1 DEF AsksProtected
    <3>2. CASE i = 1 BY <3>1, <3>2 DEF Now, Arg
    <3>3. CASE i # 1 BY <1>1, <1>4, <3>1, <3>3 DEF AsksProtected
    <3> QED BY <3>2, <3>3
  <2>2. CASE KnowsProtected BY <2>2
  <2> QED BY <2>1, <2>2 DEF PinInv
<1>6. AsksPresent(script') \/ KnowsPresent'
  <2>1. CASE AsksPresent(script)
    <3>1. PICK i \in 1..l : script[i].do = "pin" /\ script[i].arg # 28
      BY <1>1, <2>1 DEF AsksPresent
    <3>2. CASE i = 1 BY <3>1, <3>2 DEF Now, Arg
    <3>3. CASE i # 1 BY <1>1, <1>4, <3>1, <3>3 DEF AsksPresent
    <3> QED BY <3>2, <3>3
  <2>2. CASE KnowsPresent BY <2>2
  <2> QED BY <2>1, <2>2 DEF PinInv
<1> QED BY <1>3, <1>5, <1>6

(* A step that leaves the view of the disk alone.                          *)
LEMMA AskingOn ==
    ASSUME TypeOK, LettingGo, ~Idle, Advance, PinInv, UNCHANGED <<op, since, disk>>,
           Asking => UNCHANGED <<drv.present, drv.protected>>, Now # "pin"
    PROVE  PinInv'
<1>1. Asking => (KnowsProtected' <=> KnowsProtected) /\ (KnowsPresent' <=> KnowsPresent)
  BY DEF KnowsProtected, KnowsPresent
<1>2. LevelTold' BY NothingTold DEF Advance
<1>4. ~Idle' /\ opened' \in {"opening", "open"} => outcome' = "none" BY AdvanceBegun
<1>3. Asking' => /\ Unpresumed(script')
                 /\ AsksProtected(script') \/ KnowsProtected'
                 /\ AsksPresent(script') \/ KnowsPresent'
  BY <1>1, AskingAdvance
<1> QED BY <1>2, <1>3, <1>4 DEF PinInv

(* One that fails: no status comes of it, or the firmware is asked again.  *)
LEMMA AskingFail ==
    ASSUME TypeOK, ~Idle, Fail, UNCHANGED <<op, since, disk>>, PinInv,
           drv' = drv \/ Now # "info"
    PROVE  PinInv'
<1>1. disk' \in since' BY DEF PinInv
<1>2. LevelTold' BY NothingTold DEF Fail
<1>3. CASE outcome' = "failed" /\ (opened' = "closing" \/ script' = <<>> \/ opened' \notin {"opening", "open"})
  BY <1>1, <1>2, <1>3 DEF PinInv, Asking, Idle
<1>4. CASE /\ opened = "opening" /\ Now = "info" /\ script' = <<Step("purge", 0)>> \o script
           /\ UNCHANGED <<opened, outcome>>
  <2>1. drv' = drv BY <1>4
  <2>2. Asking' <=> Asking BY <1>4 DEF Asking
  <2>3. (KnowsProtected' <=> KnowsProtected) /\ (KnowsPresent' <=> KnowsPresent)
    BY <2>1 DEF KnowsProtected, KnowsPresent
  <2>4. <<Step("purge", 0)>> \in Seq(Todo) /\ script \in Seq(Todo) BY DEF TypeOK, Step, Todo, Steps
  <2>5. Unpresumed(<<Step("purge", 0)>>) BY DEF Step, Unpresumed
  <2>6. /\ Unpresumed(script) => Unpresumed(script')
        /\ AsksProtected(script) => AsksProtected(script')
        /\ AsksPresent(script) => AsksPresent(script')
    BY <1>4, <2>4, <2>5, PinsBehind
  <2>7. ~Idle' /\ opened' \in {"opening", "open"} => outcome' = "none" BY <1>4 DEF PinInv
  <2>8. CASE Asking BY <1>1, <1>2, <2>2, <2>3, <2>6, <2>7, <2>8 DEF PinInv
  <2>9. CASE ~Asking BY <1>1, <1>2, <2>2, <2>7, <2>9 DEF PinInv
  <2> QED BY <2>8, <2>9
<1> QED BY <1>3, <1>4 DEF Fail

(* One that leaves the call where it was and the firmware silent.          *)
LEMMA AskingStays ==
    ASSUME PinInv, UNCHANGED <<opened, op, script, outcome, drv.present, drv.protected>>,
           disk' \in since', since \subseteq since', LevelTold'
    PROVE  PinInv'
<1>1. (Asking' <=> Asking) /\ (Idle' <=> Idle) BY DEF Asking, Idle
<1>2. (KnowsProtected => KnowsProtected') /\ (KnowsPresent => KnowsPresent')
  BY DEF KnowsProtected, KnowsPresent
<1>3. /\ Unpresumed(script') <=> Unpresumed(script)
      /\ AsksProtected(script') <=> AsksProtected(script)
      /\ AsksPresent(script') <=> AsksPresent(script)
  OBVIOUS
<1> QED BY <1>1, <1>2, <1>3 DEF PinInv

LEMMA ToldStays ==
    ASSUME LevelTold, UNCHANGED <<script, phase, wire>>, Link' = Link, since \subseteq since'
    PROVE  LevelTold'
<1>1. (Idle' <=> Idle) /\ Now' = Now /\ Arg' = Arg BY DEF Idle, Now, Arg
<1>2. ASSUME NEW l, Told(l) PROVE Told(l)' BY <1>1, <1>2 DEF Told
<1> QED BY <1>1, <1>2 DEF LevelTold

(* No call that asks presumes, or reads.                                   *)
LEMMA AskingNow ==
    ASSUME TypeOK, ~Idle, PinInv, Asking PROVE Now \notin {"presume", "fluxstatus"}
<1>1. 1 \in DOMAIN script BY ScriptSteps DEF TypeOK
<1> QED BY <1>1 DEF PinInv, Unpresumed, Now

(* A pin is only asked for in step with the firmware.                      *)
LEMMA PinSynced ==
    ASSUME TypeOK, LinkInv, ~Idle, Now = "pin" PROVE Synced
BY ForeignNow DEF LinkInv

LEMMA FirmwareTold ==
    ASSUME TypeOK, TypeOK', LinkInv, PinInv, Firmware PROVE LevelTold'
<1>1. /\ wire # <<>> /\ wire' = Tail(wire) /\ UNCHANGED <<script, phase, inbox, disk, since>>
  BY DEF Firmware, driverVars, worldVars
<1>2. (Idle' <=> Idle) /\ Now' = Now /\ Arg' = Arg BY <1>1 DEF Idle, Now, Arg
<1> SUFFICES ASSUME ~Idle, Now = "pin" PROVE LevelTold'
  BY <1>2 DEF LevelTold
<1>3. Synced BY PinSynced
<1>4. CASE phase = "payload" BY <1>1, <1>3, <1>4 DEF Synced, Exchange
<1>5. CASE phase = "send" BY <1>1, <1>5 DEF LevelTold
<1>6. CASE phase = "ack"
  <2>1. wire = <<Packet>> /\ Link = <<>> /\ ~fw.writing
    BY <1>1, <1>3, <1>6 DEF Synced, Exchange, Answered
  <2> DEFINE p == Head(wire)
  <2>2. p.do = "pin" /\ p.arg = Arg BY <2>1 DEF Packet, Now, Arg
  <2>3. Refuses(p) \/ Obeys(p)
    BY <2>1, <2>2 DEF Firmware, TakesFlux, TellsFlux, Writes, Reads
  <2> HIDE DEF p
  <2>4. PinLevel(Arg) \in Byte /\ Code["pin"] \in Byte /\ AckOk \in Byte /\ AckBadCommand \in Byte
    BY CodeIs DEF PinLevel, Byte, AckOk, AckBadCommand
  <2>5. CASE Refuses(p)
    <3>1. Answer(<<Code["pin"], AckBadCommand>>) BY <2>2, <2>5 DEF Refuses
    <3>2. <<Code["pin"], AckBadCommand>> \in Seq(Byte) BY <2>4
    <3>3. Link' = <<Code["pin"], AckBadCommand>> BY <1>1, <2>1, <3>1, <3>2, AnswerAlone
    <3>4. Link'[2] # AckOk BY <3>3 DEF AckOk, AckBadCommand
    <3> QED BY <1>1, <1>6, <3>4 DEF LevelTold
  <2>6. CASE Obeys(p)
    <3>1. Answer(<<Code["pin"], AckOk>> \o <<PinLevel(Arg)>>) BY <2>2, <2>6 DEF Obeys, Follows
    <3>2. PICK a \in Seq(Byte), b \in Seq(Byte) : a = <<Code["pin"], AckOk>> /\ b = <<PinLevel(Arg)>>
      <4>1. <<Code["pin"], AckOk>> \in Seq(Byte) BY <2>4
      <4>2. <<PinLevel(Arg)>> \in Seq(Byte) BY <2>4
      <4> QED BY <4>1, <4>2
    <3>3. /\ a \o b \in Seq(Byte) /\ \A i \in 1..Len(b) : (a \o b)[i + Len(a)] = b[i]
          /\ Len(a) = 2 /\ Len(b) = 1 /\ b[1] = PinLevel(Arg)
      BY <3>2, CatIs
    <3>4. Link' = a \o b BY <1>1, <2>1, <3>1, <3>2, <3>3, AnswerAlone
    <3>5. Link'[3] = Level(disk, Arg)
      <4>1. 1 \in 1..Len(b) /\ 1 + Len(a) = 3 BY <3>3
      <4>2. Link'[3] = PinLevel(Arg) BY <3>3, <3>4, <4>1
      <4> QED BY <4>2 DEF PinLevel, Level
    <3>6. Told(Link[3])' BY <1>1, <1>2, <3>5 DEF Told, PinInv
    <3> QED BY <1>1, <1>6, <3>6 DEF LevelTold
  <2> QED BY <2>3, <2>5, <2>6
<1> QED BY <1>4, <1>5, <1>6 DEF TypeOK

(* An acknowledgement is read, and the level is next.                      *)
LEMMA AcknowledgePins ==
    ASSUME TypeOK, TypeOK', LinkInv, PinInv, Acknowledge PROVE PinInv'
<1>1. /\ ~Idle /\ phase = "ack" /\ UNCHANGED <<op, wire, outbox, disk, since>>
      /\ Link \in Seq(Byte) /\ Link' \in Seq(Byte) /\ Len(Link) >= 2
      /\ Link[1] = inbox[1] /\ Link[2] = inbox[2]
  BY AckFront DEF Acknowledge, worldVars
<1>2. LettingGo BY DEF LinkInv
<1>3. CASE Refused(inbox[2])
  <2>1. Fail /\ (drv' = drv \/ Now # "info") BY <1>3 DEF Refused
  <2> QED BY <1>1, <2>1, AskingFail
<1>4. CASE Retried(inbox[2])
  <2>1. /\ Now = "fluxstatus" /\ phase' = "send" /\ UNCHANGED <<opened, outcome>> BY <1>4 DEF Retried
  <2>2. ~Asking' BY <1>1, <2>1, AskingNow DEF Asking
  <2>3. LevelTold' BY <2>1, NothingTold
  <2> QED BY <1>1, <2>1, <2>2, <2>3 DEF PinInv
<1>5. CASE Accepted(inbox[2]) /\ ~Payload
  <2>1. Advance /\ drv' = Recorded BY <1>5 DEF Accepted
  <2>2. Now # "pin" BY <1>5 DEF Payload
  <2>3. Asking => UNCHANGED <<drv.present, drv.protected>>
    BY <1>1, <2>1, AskingNow DEF Recorded, TypeOK
  <2> QED BY <1>1, <1>2, <2>1, <2>2, <2>3, AskingOn
<1>6. CASE Accepted(inbox[2]) /\ Payload
  <2>1. phase' = "payload" /\ UNCHANGED <<opened, script, outcome, drv>> BY <1>6 DEF Accepted
  <2>2. inbox[2] = AckOk /\ inbox' = SubSeq(inbox, 3, Len(inbox)) BY <1>6 DEF Accepted
  <2>3. LevelTold'
    <3>1. (Idle' <=> Idle) /\ Now' = Now /\ Arg' = Arg BY <2>1 DEF Idle, Now, Arg
    <3> SUFFICES ASSUME Now = "pin" PROVE LevelTold' BY <3>1 DEF LevelTold
    <3>2. Answered
      <4>1. Link # <<>> BY <1>1
      <4> QED BY <1>1, <4>1, PinSynced DEF Synced, Exchange
    <3>3. wire = <<>> /\ Len(Link) = 3 BY <1>1, <1>6, <2>2, <3>2 DEF Answered
    <3>4. Told(Link[3]) BY <1>1, <2>2, <3>3 DEF PinInv, LevelTold
    <3>5. inbox \in Seq(Byte) /\ outbox \in Seq(Byte) /\ Len(inbox) >= 2 BY LinkOf DEF Acknowledge
    <3>6. Dropped(2) BY <1>1, <2>2, <3>5, DropTwo
    <3>7. Link'[1] = Link[3]
      <4>1. Len(Link') = 1 BY <3>3, <3>6 DEF Dropped
      <4>2. 1 \in 1..Len(Link') /\ 1 + 2 = 3 BY <4>1
      <4> QED BY <3>6, <4>2 DEF Dropped
    <3>8. Told(Link[1])' BY <1>1, <3>1, <3>4, <3>7 DEF Told
    <3> QED BY <2>1, <3>8 DEF LevelTold
  <2> QED BY <1>1, <2>1, <2>3, AskingStays DEF PinInv
<1> QED BY <1>3, <1>4, <1>5, <1>6 DEF Acknowledge

(* The level is read, and the driver knows.                                *)
LEMMA PayloadPins ==
    ASSUME TypeOK, TypeOK', LinkInv, PinInv, TakePayload PROVE PinInv'
<1>1. /\ ~Idle /\ phase = "payload" /\ inbox # <<>> /\ inbox' = Tail(inbox) /\ Advance
      /\ UNCHANGED <<op, outbox, disk, since>>
  BY DEF TakePayload, TypeOK, worldVars
<1>2. LettingGo BY DEF LinkInv
<1>3. CASE Now # "pin"
  <2>1. UNCHANGED <<drv.present, drv.protected>> BY <1>3 DEF TakePayload, TypeOK
  <2> QED BY <1>1, <1>2, <1>3, <2>1, AskingOn
<1>4. CASE Now = "pin"
  <2>1. Link[1] = inbox[1] BY <1>1, DropOne, LinkOf
  <2>2. PICK d \in since : inbox[1] = Level(d, Arg)
    BY <1>1, <1>4, <2>1 DEF PinInv, LevelTold, Told
  <2>3. d.present \in BOOLEAN /\ d.protected \in BOOLEAN BY LinkAssumption DEF TypeOK
  <2>4. drv' = PinRead(inbox[1]) BY <1>4 DEF TakePayload
  <2>11. /\ Arg = 28 => drv'.protected = (inbox[1] = 0) /\ drv'.present = drv.present
         /\ Arg # 28 => drv'.present = (inbox[1] = 1) /\ drv'.protected = drv.protected
    BY <2>4 DEF PinRead, TypeOK
  <2>12. /\ Arg = 28 => (inbox[1] = 0) = d.protected
         /\ Arg # 28 => (inbox[1] = 1) = d.present
    <3>1. CASE Arg = 28
      <4>1. inbox[1] = IF d.protected THEN 0 ELSE 1 BY <2>2, <3>1 DEF Level
      <4> QED BY <2>3, <3>1, <4>1
    <3>2. CASE Arg # 28
      <4>1. inbox[1] = IF d.present THEN 1 ELSE 0 BY <2>2, <3>2 DEF Level
      <4> QED BY <2>3, <3>2, <4>1
    <3> QED BY <3>1, <3>2
  <2>5. Arg = 28 => drv'.protected = d.protected /\ drv'.present = drv.present BY <2>11, <2>12
  <2>6. Arg # 28 => drv'.present = d.present /\ drv'.protected = drv.protected BY <2>11, <2>12
  <2>7. /\ Arg = 28 => KnowsProtected' /\ (KnowsPresent => KnowsPresent')
        /\ Arg # 28 => KnowsPresent' /\ (KnowsProtected => KnowsProtected')
    BY <1>1, <2>5, <2>6 DEF KnowsProtected, KnowsPresent
  <2>8. Asking' => /\ Unpresumed(script')
                   /\ AsksProtected(script') \/ KnowsProtected'
                   /\ AsksPresent(script') \/ KnowsPresent'
    BY <1>1, <1>2, <1>4, <2>7, AskingAdvance
  <2>9. LevelTold' BY <1>1, NothingTold DEF Advance
  <2>10. ~Idle' /\ opened' \in {"opening", "open"} => outcome' = "none" BY <1>1, <1>2, AdvanceBegun
  <2> QED BY <1>1, <2>8, <2>9, <2>10 DEF PinInv
<1> QED BY <1>3, <1>4

LEMMA CallPins == ASSUME TypeOK, TypeOK', PinInv, Call \/ Drop PROVE PinInv'
<1>1. Idle /\ opened = "open" /\ phase' = "send" BY DEF Call, Drop, TypeOK
<1>2. LevelTold' BY <1>1, NothingTold
<1>3. CASE Call
  <2>1. /\ disk' \in since' /\ outcome' = "none" /\ opened' = "open" BY <1>1, <1>3 DEF Call, worldVars
  <2>2. PICK s \in Scripts : op' = s.op /\ script' = s.script BY <1>3 DEF Call
  <2>3. Asking' => Pins(script') BY <2>2, StatusAsks DEF Asking
  <2> QED BY <1>2, <2>1, <2>3 DEF PinInv, Pins
<1>4. CASE Drop
  <2>1. opened' = "closing" /\ UNCHANGED <<disk, since>> BY <1>4 DEF Drop, worldVars
  <2> QED BY <1>2, <2>1 DEF PinInv, Asking
<1> QED BY <1>3, <1>4

LEMMA PinStep ==
    ASSUME TypeOK, TypeOK', LinkInv, PinInv, [Next]_vars, PunctualAnswers PROVE PinInv'
<1>0. LettingGo BY DEF LinkInv
<1>1. CASE Call \/ Drop BY <1>1, CallPins
<1>2. CASE Skip
  <2>1. ~Idle /\ (Local \/ Now = "step") /\ UNCHANGED <<op, disk, since>>
    BY <1>2 DEF Skip, worldVars
  <2>2. Now \notin {"pin", "info"} BY <2>1 DEF Local
  <2>3. Asking => drv' = drv BY <1>2, <2>1, AskingNow DEF Skip
  <2>4. Advance \/ Fail BY <1>2 DEF Skip
  <2>5. Advance => PinInv' BY <1>0, <2>1, <2>2, <2>3, AskingOn
  <2>6. Fail => PinInv' BY <2>1, <2>2, AskingFail
  <2> QED BY <2>4, <2>5, <2>6
<1>3. CASE Send
  <2>1. /\ UNCHANGED <<opened, op, script, outcome, disk, since>> /\ phase' = "ack"
        /\ UNCHANGED <<drv.present, drv.protected>>
    BY <1>3 DEF Send, worldVars, TypeOK
  <2>2. wire' # <<>>
    <3>1. wire' = Append(wire, Packet) /\ wire \in Seq(Sent) BY <1>3, LinkOf DEF Send
    <3>2. Append(wire, Packet) # <<>> BY <3>1, AppendProperties, PacketTyped, <1>3 DEF Send
    <3> QED BY <3>1, <3>2
  <2>3. LevelTold' BY <2>1, <2>2 DEF LevelTold
  <2> QED BY <2>1, <2>3, AskingStays DEF PinInv
<1>4. CASE SendFlux \/ TakeSync
  <2>1. ~Idle /\ Now # "pin" /\ Advance /\ UNCHANGED <<op, drv, disk, since>>
    BY <1>4 DEF SendFlux, TakeSync, worldVars, PunctualAnswers, TypeOK
  <2> QED BY <1>0, <2>1, AskingOn
<1>5. CASE Acknowledge BY <1>5, AcknowledgePins
<1>6. CASE TakePayload BY <1>6, PayloadPins
<1>7. CASE TakeStream
  <2>1. ~Idle /\ Now = "stream" /\ UNCHANGED <<op, drv, disk, since>> BY <1>7 DEF TakeStream, worldVars
  <2>2. Advance \/ Fail \/ UNCHANGED <<opened, script, phase, outcome>> BY <1>7 DEF TakeStream
  <2>3. Advance => PinInv' BY <1>0, <2>1, AskingOn
  <2>4. Fail => PinInv' BY <2>1, AskingFail
  <2>5. ASSUME UNCHANGED <<opened, script, phase, outcome>> PROVE PinInv'
    <3>1. LevelTold' BY <2>1, <2>5 DEF LevelTold, Now
    <3> QED BY <2>1, <2>5, <3>1, AskingStays DEF PinInv
  <2> QED BY <2>2, <2>3, <2>4, <2>5
<1>8. CASE Deadline
  <2>1. ~Idle /\ Fail /\ UNCHANGED <<op, drv, disk, since>> BY <1>8 DEF Deadline, Reading, worldVars
  <2> QED BY <2>1, AskingFail
<1>9. CASE Firmware
  <2>1. UNCHANGED <<opened, op, script, outcome, drv, disk, since>>
    BY <1>9 DEF Firmware, driverVars, worldVars
  <2>2. LevelTold' BY <1>9, FirmwareTold
  <2> QED BY <2>1, <2>2, AskingStays DEF PinInv
<1>10. CASE Deliver
  <2>1. UNCHANGED <<opened, op, script, phase, outcome, drv, wire, disk, since>>
    BY <1>10 DEF Deliver, driverVars, worldVars
  <2>2. LevelTold' BY <1>10, <2>1, DeliverLink, ToldStays DEF PinInv
  <2> QED BY <2>1, <2>2, AskingStays DEF PinInv
<1>11. CASE ChangeDisk \/ Closed \/ UNCHANGED vars
  <2>1. UNCHANGED <<opened, op, script, phase, outcome, drv, wire, inbox, outbox>>
    BY <1>11 DEF ChangeDisk, Closed, vars, driverVars, linkVars
  <2>2. disk' \in since' /\ since \subseteq since'
    BY <1>11 DEF ChangeDisk, Closed, vars, worldVars, PinInv
  <2>3. Link' = Link BY <2>1 DEF Link
  <2>4. LevelTold' BY <2>1, <2>2, <2>3, ToldStays DEF PinInv
  <2> QED BY <2>1, <2>2, <2>4, AskingStays
<1> QED BY <1>1, <1>2, <1>3, <1>4, <1>5, <1>6, <1>7, <1>8, <1>9, <1>10, <1>11 DEF Next, Driver

LEMMA PinInit == ASSUME Init PROVE PinInv
<1>1. disk \in since /\ phase = "send" /\ outcome = "none" /\ script = OpenScript BY DEF Init
<1>2. LevelTold BY <1>1 DEF LevelTold
<1>3. Asking => Pins(script) BY <1>1, StatusAsks DEF Asking
<1> QED BY <1>1, <1>2, <1>3 DEF PinInv, Pins

(* PinsFreshHolds: PinsFresh. A status, an opening or a no-click step that *)
(* succeeds reports protection and presence as they were at some moment of *)
(* that call (check_pins in greaseweazle.rs takes each from a GetPin of    *)
(* its own), whatever disks were changed during it.                        *)
THEOREM PinsFreshHolds ==
    ASSUME PunctualAnswers, HarmlessLeftovers
    PROVE  Spec => []PinsFresh
<1>1. Init => PinInv BY PinInit
<1>2. TypeOK /\ LinkInv /\ (TypeOK /\ LinkInv)' /\ PinInv /\ [Next]_vars => PinInv' BY PinStep
<1>3. TypeOK /\ PinInv => PinsFresh
  <2> SUFFICES ASSUME PinInv, opened = "open", Idle, outcome = "ok",
                      op \in {"open", "status", "noclick"}, Bus = 1
               PROVE  \E d, e \in since : drv.protected = d.protected /\ drv.present = e.present
    BY DEF PinsFresh
  <2>1. Asking BY DEF Asking
  <2>2. ~AsksProtected(script) /\ ~AsksPresent(script) BY DEF Idle, AsksProtected, AsksPresent
  <2> QED BY <2>1, <2>2 DEF PinInv, KnowsProtected, KnowsPresent
<1> QED BY <1>1, <1>2, <1>3, Linked, PTL DEF Spec
===============================================================================
