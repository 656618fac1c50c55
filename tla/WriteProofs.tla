------------------------------ MODULE WriteProofs ------------------------------
(***************************************************************************)
(* Where writes land, and what a write leaves in the cache.  Both need to  *)
(* know where the head is, which Worker::position can tell only of a drive *)
(* that does not act on commands whose answers it loses, and as long as no *)
(* no-click step turns the head behind its back: FaithfulDrive.  The       *)
(* inductive invariant is WriteInv of Controller, under TypeOK.  Then the  *)
(* order of their events, the bridge with a faithful drive as the write    *)
(* service of WriteService, and that no write is left without its answer.  *)
(***************************************************************************)
EXTENDS ControllerProofs, SequenceTheorems

HeadVars == <<head, physical, positioned>>

-----------------------------------------------------------------------------
(* Worker::position.                                                       *)

(* Where the record is right, a successful position leaves both the head   *)
(* and the record on the track it was asked for.                           *)
LEMMA PositionOkHead ==
    ASSUME PositionType, NEW t \in Track, PositionOk(t), positioned => head = physical
    PROVE  head' = t /\ physical' = t
<1>1. t = [cyl |-> t.cyl, side |-> t.side] /\ head = [cyl |-> head.cyl, side |-> head.side]
  BY DEF Track, PositionType
<1>2. head' = [cyl |-> t.cyl, side |-> t.side] BY DEF PositionOk, NeedSeek, NeedSide
<1> QED BY <1>1, <1>2 DEF PositionOk

(* A failed position of a faithful drive leaves the record right: what it  *)
(* confirmed it has recorded, and nothing else has moved.                  *)
LEMMA PositionFailsHead ==
    ASSUME PositionType, ~LostAcks, NEW t \in Track, PositionFails(t),
           positioned => head = physical
    PROVE  positioned' => head' = physical'
<1> SUFFICES ASSUME positioned PROVE head' = physical'
  BY DEF PositionFails
<1>1. CASE head' = head /\ UNCHANGED physical BY <1>1
<1>2. CASE /\ head' = IF NeedSeek(t) THEN [head EXCEPT !.cyl = t.cyl] ELSE head
           /\ physical' = [physical EXCEPT !.cyl = t.cyl]
  <2>1. CASE NeedSeek(t) BY <1>2, <2>1
  <2>2. CASE ~NeedSeek(t)
    <3>1. physical.cyl = t.cyl BY <2>2 DEF NeedSeek
    <3>2. [physical EXCEPT !.cyl = t.cyl] = physical BY <3>1 DEF PositionType, Track
    <3> QED BY <1>2, <2>2, <3>2
  <2> QED BY <2>1, <2>2
<1> QED BY <1>1, <1>2 DEF PositionFails

-----------------------------------------------------------------------------
(* HeadKnown.                                                              *)

(* The head is unknown at first, and no command is on its way.             *)
LEMMA HeadInit == Init => HeadKnown
<1> SUFFICES ASSUME Init PROVE HeadKnown
  OBVIOUS
<1>1. wpc = "select" /\ commands = <<>> /\ positioned = FALSE BY DEF Init
<1> QED BY <1>1 DEF HeadKnown

(* A client that never asks for a no-click step never queues one.          *)
LEMMA HeadClient ==
    ASSUME TypeOK, FaithfulDrive, HeadKnown, Client PROVE HeadKnown'
<1>1. UNCHANGED <<HeadVars, wpc, command, wanted>>
  BY DEF Client, SetMotor, Seek, ReadTrack, Advance, SubmitWrite, NoClickStep, Nudge, Lookup,
         StallCheck, StallTimeout, AdvanceWish, SubmitPlace, SubmitEnqueue, PollEvent, Drop,
         DropSend, DropJoin, sharedByWorker, workerVars, HeadVars
<1>2. \/ UNCHANGED commands
      \/ \E c : c.op \in {"write", "shutdown"} /\ TrySend(c)
  <2>1. CASE SubmitEnqueue
    <3>1. [op |-> "write", id |-> nextWrite, request |-> call].op \in {"write", "shutdown"}
      OBVIOUS
    <3> QED BY <2>1, <3>1 DEF SubmitEnqueue
  <2>2. CASE DropSend
    <3>1. [op |-> "shutdown"].op \in {"write", "shutdown"} OBVIOUS
    <3> QED BY <2>2, <3>1 DEF DropSend
  <2>3. CASE ~SubmitEnqueue /\ ~DropSend
    BY <2>3
    DEF Client, SetMotor, Seek, ReadTrack, Advance, SubmitWrite, NoClickStep, Nudge, Lookup,
        StallCheck, StallTimeout, AdvanceWish, SubmitPlace, PollEvent, Drop, DropJoin,
        FaithfulDrive
  <2> QED BY <2>1, <2>2, <2>3
<1>3. \A i \in 1..Len(commands') : commands'[i].op # "noclick"
  <2>1. CASE UNCHANGED commands BY <2>1 DEF HeadKnown
  <2>2. ASSUME NEW c, c.op \in {"write", "shutdown"}, commands' = Append(commands, c)
        PROVE  \A i \in 1..Len(commands') : commands'[i].op # "noclick"
    <3>1. commands \in Seq(Command) BY DEF TypeOK, ChannelType
    <3> SUFFICES ASSUME NEW i \in 1..Len(commands') PROVE commands'[i].op # "noclick"
      OBVIOUS
    <3>2. CASE i \in 1..Len(commands) BY <2>2, <3>1, <3>2 DEF HeadKnown
    <3>3. CASE i = Len(commands) + 1 BY <2>2, <3>1, <3>3
    <3> QED BY <2>2, <3>1, <3>2, <3>3
  <2> QED BY <1>2, <2>1, <2>2 DEF TrySend
<1> QED BY <1>1, <1>3 DEF HeadKnown, HeadVars

(* Steps that leave the head, its record and the queue alone, and do not   *)
(* enter a phase that relies on where the head is.                         *)
LEMMA HeadFrame ==
    ASSUME HeadKnown, UNCHANGED <<HeadVars, commands, wanted>>,
           wpc' \notin {"noclick", "burn", "read", "withdraw", "insert"}
    PROVE  HeadKnown'
BY DEF HeadKnown, HeadVars

(* The commands left behind one that was taken were in the queue before.   *)
LEMMA HeadTake ==
    ASSUME TypeOK, HeadKnown, TakeCommand PROVE HeadKnown'
<1>1. commands \in Seq(Command) /\ commands # <<>> BY DEF TakeCommand, TypeOK, ChannelType
<1>2. /\ commands' = Tail(commands) /\ UNCHANGED HeadVars
      /\ LET c == Head(commands) IN wpc' = IF c.op = "shutdown" THEN "exit" ELSE c.op
  BY DEF TakeCommand, NextCommand, HeadVars, positionVars
<1>3. /\ Head(commands) = commands[1] /\ 1 \in 1..Len(commands)
      /\ \A i \in 1..Len(Tail(commands)) : /\ i + 1 \in 1..Len(commands)
                                           /\ Tail(commands)[i] = commands[i + 1]
  BY <1>1, EmptySeq, HeadTailProperties
<1>4. Head(commands).op \in {"write", "noclick", "shutdown"}
  BY <1>1 DEF Command, WriteCommand, NoClickCommand
<1>5. wpc' \in {"write", "exit"} BY <1>2, <1>3, <1>4 DEF HeadKnown
<1>6. \A i \in 1..Len(commands') : commands'[i].op # "noclick" BY <1>2, <1>3 DEF HeadKnown
<1> QED BY <1>2, <1>5, <1>6 DEF HeadKnown, HeadVars

(* The phases that move the head.                                          *)
LEMMA HeadMove ==
    ASSUME TypeOK, FaithfulDrive, HeadKnown,
           WritePosition \/ ApplyTarget \/ ApplyMotorSide \/ CapturePosition
    PROVE  HeadKnown'
<1> USE DEF FaithfulDrive
<1>1. /\ PositionType /\ target \in Track
      /\ wpc = "turn" => MotorTrack \in Track
      /\ wpc = "write" => command.request.track \in Track
      /\ wpc = "capture" /\ CaptureNeeded => wanted \in Track
      /\ positioned => head = physical
  BY DEF TypeOK, IntentType, CallType, WriteCommand, PlacedRequest, MotorTrack, Motor, Track,
         CaptureNeeded, HeadKnown
<1>2. UNCHANGED <<commands, wanted>>
  BY DEF WritePosition, ApplyTarget, ApplyMotorSide, CapturePosition, intentVars
<1>3. CASE WritePosition
  <2>1. UNCHANGED command BY <1>3 DEF WritePosition
  <2>2. CASE PositionOk(command.request.track) /\ wpc' = "burn"
    <3>1. head' = command.request.track /\ physical' = command.request.track
      BY <1>1, <1>3, <2>2, PositionOkHead DEF WritePosition
    <3> QED BY <1>2, <2>1, <2>2, <3>1 DEF HeadKnown
  <2>3. CASE PositionFails(command.request.track) /\ wpc' = "forget"
    <3>1. positioned' => head' = physical'
      BY <1>1, <1>3, <2>3, PositionFailsHead DEF WritePosition
    <3> QED BY <1>2, <2>3, <3>1 DEF HeadKnown
  <2> QED BY <1>3, <2>2, <2>3 DEF WritePosition
<1>4. CASE ApplyTarget
  <2>1. positioned' => head' = physical'
    BY <1>1, <1>4, PositionOkHead, PositionFailsHead DEF ApplyTarget
  <2>2. wpc' \in {"turn", "refresh", "exit"} BY <1>4 DEF ApplyTarget, AfterMove, GoTo
  <2> QED BY <1>2, <2>1, <2>2 DEF HeadKnown
<1>5. CASE ApplyMotorSide
  <2>1. positioned' => head' = physical'
    BY <1>1, <1>5, PositionOkHead, PositionFailsHead DEF ApplyMotorSide
  <2>2. wpc' \in {"motor", "refresh", "exit"} BY <1>5 DEF ApplyMotorSide, GoTo
  <2> QED BY <1>2, <2>1, <2>2 DEF HeadKnown
<1>6. CASE CapturePosition
  <2>1. CASE PositionOk(wanted) /\ wpc' = "read"
    <3>1. head' = wanted /\ physical' = wanted
      BY <1>1, <1>6, <2>1, PositionOkHead DEF CapturePosition
    <3> QED BY <1>2, <2>1, <3>1 DEF HeadKnown
  <2>2. CASE PositionFails(wanted) /\ GoTo("select")
    <3>1. positioned' => head' = physical'
      BY <1>1, <1>6, <2>2, PositionFailsHead DEF CapturePosition
    <3>2. wpc' \in {"select", "exit"} BY <2>2 DEF GoTo
    <3> QED BY <1>2, <3>1, <3>2 DEF HeadKnown
  <2> QED BY <1>6, <2>1, <2>2 DEF CapturePosition
<1> QED BY <1>3, <1>4, <1>5, <1>6

(* The phases of a capture keep the head where the capture began.          *)
LEMMA HeadCapture ==
    ASSUME HeadKnown, ReadOk \/ ReadFails \/ Withdraw \/ InsertCapture \/ Progress
    PROVE  HeadKnown'
<1>1. UNCHANGED <<HeadVars, commands, wanted>>
  BY DEF ReadOk, ReadFails, Withdraw, InsertCapture, Progress, HeadVars, positionVars,
         intentVars, workerVars
<1>2. /\ wpc \in {"read", "withdraw", "insert"}
      /\ wpc' \in {"read", "withdraw", "insert", "select", "exit", "drain"}
  BY DEF ReadOk, ReadFails, Withdraw, InsertCapture, Progress, GoTo, workerVars
<1> QED BY <1>1, <1>2 DEF HeadKnown, HeadVars

(* Every step of a faithful controller keeps the head known.               *)
LEMMA HeadStep ==
    TypeOK /\ FaithfulDrive /\ HeadKnown /\ [Next]_vars => HeadKnown'
<1> SUFFICES ASSUME TypeOK, FaithfulDrive, HeadKnown, [Next]_vars PROVE HeadKnown'
  OBVIOUS
<1>1. CASE Client BY <1>1, HeadClient
<1>2. CASE Worker
  <2>1. CASE TakeCommand BY <2>1, HeadTake
  <2>2. CASE WritePosition \/ ApplyTarget \/ ApplyMotorSide \/ CapturePosition
    BY <2>2, HeadMove
  <2>3. CASE ReadOk \/ ReadFails \/ Withdraw \/ InsertCapture BY <2>3, HeadCapture
  <2>4. CASE PerformNoClick BY <2>4 DEF PerformNoClick, HeadKnown
  <2>5. CASE Wake \/ Burn \/ Invalidate \/ Report \/ ApplyMotor \/ RefreshNotDue \/ Drained
             \/ RefreshQuery \/ RefreshClear \/ RefreshNotify \/ RefreshStore \/ CaptureSkip
             \/ ExitMotorOff
    <3>1. /\ UNCHANGED <<HeadVars, commands, wanted>>
          /\ wpc' \notin {"noclick", "burn", "read", "withdraw", "insert"}
      BY <2>5
      DEF Wake, Burn, Invalidate, Report, ApplyMotor, RefreshNotDue, Drained, RefreshQuery, RefreshClear,
          RefreshNotify, RefreshStore, CaptureSkip, ExitMotorOff, GoTo, HeadVars, positionVars,
          intentVars
    <3> QED BY <3>1, HeadFrame
  <2>6. CASE TakeWishes
    <3>1. UNCHANGED <<HeadVars, commands>> /\ wpc' \in {"move", "turn", "refresh"}
      BY <2>6 DEF TakeWishes, HeadVars, positionVars
    <3> QED BY <3>1 DEF HeadKnown, HeadVars
  <2>7. CASE Stop
    <3>1. UNCHANGED HeadVars /\ commands' = <<>> /\ wpc' = "done"
      BY <2>7 DEF Stop, HeadVars, positionVars
    <3> QED BY <3>1 DEF HeadKnown, HeadVars
  <2> QED BY <1>2, <2>1, <2>2, <2>3, <2>4, <2>5, <2>6, <2>7 DEF Worker
<1>3. CASE Progress BY <1>3, HeadCapture
<1>4. CASE ChangeDisk \/ UNCHANGED vars
  <2>1. UNCHANGED <<HeadVars, commands, wanted, wpc, command>>
    BY <1>4 DEF ChangeDisk, vars, workerVars, HeadVars
  <2> QED BY <2>1 DEF HeadKnown, HeadVars
<1> QED BY <1>1, <1>2, <1>3, <1>4 DEF Next, Finished

-----------------------------------------------------------------------------
(* ReadingCoherent and CacheCoherent.                                      *)
Coherent == ReadingCoherent /\ CacheCoherent
FluxVars == <<captures, serial, platter>>

(* What an advance leaves of a deque was in it before.                     *)
LEMMA TailFrom ==
    ASSUME NEW deque \in Seq(Capture), NEW i \in 1..Len(Tail(deque)), deque # <<>>
    PROVE  \E j \in 1..Len(deque) : Tail(deque)[i] = deque[j]
<1>1. i + 1 \in 1..Len(deque) /\ Tail(deque)[i] = deque[i + 1] BY HeadTailProperties
<1> QED BY <1>1

(* What a push leaves in a deque was in it before, or is what was pushed.  *)
LEMMA PushFrom ==
    ASSUME NEW deque \in Seq(Capture), NEW c \in Capture, NEW i \in 1..Len(Push(deque, c))
    PROVE  Push(deque, c)[i] = c \/ \E j \in 1..Len(deque) : Push(deque, c)[i] = deque[j]
<1>1. CASE Len(deque) >= CapturesPerTrack
  <2>1. deque # <<>> BY <1>1, EmptySeq, ConstantsAssumption
  <2>2. Tail(deque) \in Seq(Capture) BY <2>1, HeadTailProperties
  <2>3. Push(deque, c) = Append(Tail(deque), c) BY <1>1 DEF Push
  <2>4. i = Len(Tail(deque)) + 1 => Push(deque, c)[i] = c BY <2>2, <2>3
  <2>5. i # Len(Tail(deque)) + 1 =>
           i \in 1..Len(Tail(deque)) /\ Push(deque, c)[i] = Tail(deque)[i]
    BY <2>2, <2>3
  <2> QED BY <2>1, <2>4, <2>5, TailFrom
<1>2. CASE ~(Len(deque) >= CapturesPerTrack)
  <2>1. Push(deque, c) = Append(deque, c) BY <1>2 DEF Push
  <2> QED BY <2>1
<1> QED BY <1>1, <1>2

(* Nothing has been written, and nothing read, at first.                   *)
LEMMA CoherentInit == Init => Coherent
<1> SUFFICES ASSUME Init PROVE Coherent
  OBVIOUS
<1>1. wpc = "select" /\ \A t \in Track : Len(captures[t]) = 0 BY EmptySeq DEF Init
<1> QED BY <1>1 DEF Coherent, ReadingCoherent, CacheCoherent

(* Steps that leave flux and readings alone.                               *)
LEMMA CoherentFrame ==
    ASSUME Coherent, UNCHANGED FluxVars,
           \/ UNCHANGED <<wpc, command, wanted, reading>>
           \/ wpc # "forget" /\ wpc' \notin {"withdraw", "insert"}
    PROVE  Coherent'
BY DEF Coherent, ReadingCoherent, CacheCoherent, FluxVars

(* A cache that only loses readings stays coherent.                        *)
LEMMA CoherentLess ==
    ASSUME Coherent, UNCHANGED <<serial, platter, wanted, reading>>,
           (wpc' = wpc /\ command' = command) \/ wpc' \notin {"withdraw", "insert", "forget"},
           \A t \in Track : \A i \in 1..Len(captures'[t]) :
              \E j \in 1..Len(captures[t]) : captures'[t][i] = captures[t][j],
           wpc # wpc' /\ wpc = "forget" => captures'[command.request.track] = <<>>
    PROVE  Coherent'
<1> USE DEF Coherent
<1>1. ReadingCoherent' BY DEF ReadingCoherent
<1>2. CacheCoherent'
  <2> SUFFICES ASSUME NEW t \in Track, NEW i \in 1..Len(captures'[t]),
                      captures'[t][i].serial = serial
               PROVE  \/ captures'[t][i].write = platter[t]
                      \/ wpc' = "forget" /\ command'.request.track = t
    BY DEF CacheCoherent
  <2>1. PICK j \in 1..Len(captures[t]) : captures'[t][i] = captures[t][j] OBVIOUS
  <2>2. \/ captures[t][j].write = platter[t]
        \/ wpc = "forget" /\ command.request.track = t
    BY <2>1 DEF CacheCoherent
  <2>3. ~(wpc # wpc' /\ wpc = "forget" /\ command.request.track = t) BY EmptySeq
  <2> QED BY <2>1, <2>2, <2>3
<1> QED BY <1>1, <1>2

(* advance_revolution, the remove of perform_write, and the clear of       *)
(* refresh_status_if_due only take readings away.                          *)
LEMMA CoherentForget ==
    ASSUME TypeOK, Coherent,
           \/ \E t \in ClientTracks : Advance(t)
           \/ Invalidate \/ RefreshClear
    PROVE  Coherent'
<1>1. UNCHANGED <<serial, platter, wanted, reading, command>>
  BY DEF Advance, Invalidate, RefreshClear, sharedByWorker, workerVars, driveVars, intentVars,
         callVars
<1>2. Len(<<>>) = 0 /\ captures \in [Track -> Seq(Capture)]
  BY EmptySeq DEF TypeOK, CacheType
<1>3. CASE \E t \in ClientTracks : Advance(t)
  <2>1. PICK t0 \in ClientTracks : Advance(t0) BY <1>3
  <2>2. ClampTrack(t0) \in Track BY ClampInTrack, ConstantsAssumption
  <2>3. \A t \in Track : \/ captures'[t] = captures[t]
                         \/ captures[t] # <<>> /\ captures'[t] = Tail(captures[t])
    BY <1>2, <2>1, <2>2 DEF Advance
  <2>4. \A t \in Track : \A i \in 1..Len(captures'[t]) :
           \E j \in 1..Len(captures[t]) : captures'[t][i] = captures[t][j]
    <3> SUFFICES ASSUME NEW t \in Track, NEW i \in 1..Len(captures'[t])
                 PROVE  \E j \in 1..Len(captures[t]) : captures'[t][i] = captures[t][j]
      OBVIOUS
    <3>1. captures[t] \in Seq(Capture) BY <1>2
    <3>2. CASE captures'[t] = captures[t] BY <3>2
    <3>3. CASE captures[t] # <<>> /\ captures'[t] = Tail(captures[t])
      <4>1. i \in 1..Len(Tail(captures[t])) BY <3>3
      <4> QED BY <3>1, <3>3, <4>1, TailFrom
    <3> QED BY <2>3, <3>2, <3>3
  <2>5. wpc' = wpc BY <2>1 DEF Advance, sharedByWorker, workerVars
  <2> QED BY <1>1, <2>4, <2>5, CoherentLess
<1>4. CASE Invalidate
  <2>1. command.request.track \in Track
    BY <1>4 DEF Invalidate, TypeOK, CallType, WriteCommand, PlacedRequest
  <2>2. \A t \in Track :
           captures'[t] = IF t = command.request.track THEN <<>> ELSE captures[t]
    BY <1>2, <1>4, <2>1 DEF Invalidate
  <2>3. wpc = "forget" /\ wpc' = "report" BY <1>4 DEF Invalidate
  <2>4. \A t \in Track : \A i \in 1..Len(captures'[t]) :
           \E j \in 1..Len(captures[t]) : captures'[t][i] = captures[t][j]
    BY <1>2, <2>2
  <2> QED BY <1>1, <2>1, <2>2, <2>3, <2>4, CoherentLess
<1>5. CASE RefreshClear
  <2>1. wpc = "clear" /\ wpc' = "notify" /\ \A t \in Track : captures'[t] = <<>>
    BY <1>5 DEF RefreshClear
  <2> QED BY <1>1, <1>2, <2>1, CoherentLess
<1> QED BY <1>3, <1>4, <1>5

(* A write lands where the command says, and perform_write goes on to      *)
(* forget that track.                                                      *)
LEMMA CoherentBurn ==
    ASSUME TypeOK, HeadKnown, Coherent, Burn PROVE Coherent'
<1> USE DEF Coherent
<1>1. /\ UNCHANGED <<captures, serial, command>>
      /\ wpc = "burn" /\ wpc' = "forget" /\ head = command.request.track
  BY DEF Burn, cacheVars, HeadKnown
<1>2. \A t \in Track : t # command.request.track => platter'[t] = platter[t]
  BY <1>1 DEF Burn, TypeOK, DriveType
<1>3. ReadingCoherent' BY <1>1 DEF ReadingCoherent
<1>4. CacheCoherent' BY <1>1, <1>2 DEF CacheCoherent
<1> QED BY <1>3, <1>4

(* A reading is of the flux under the head: of the wanted track, as the    *)
(* last write of it left it.                                               *)
LEMMA CoherentRead ==
    ASSUME TypeOK, HeadKnown, Coherent, ReadOk \/ Withdraw PROVE Coherent'
<1> USE DEF Coherent
<1>1. UNCHANGED <<FluxVars, wanted, command>> /\ wpc # "forget" /\ wpc' # "forget"
  BY DEF ReadOk, Withdraw, FluxVars, cacheVars, driveVars, intentVars, callVars, GoTo
<1>2. CacheCoherent' BY <1>1 DEF CacheCoherent, FluxVars
<1>3. ReadingCoherent'
  <2>1. serial \in Nat BY DEF TypeOK, DriveType
  <2>2. CASE Withdraw
    <3>1. wpc = "withdraw" /\ UNCHANGED reading BY <2>2 DEF Withdraw, callVars
    <3> QED BY <1>1, <3>1 DEF ReadingCoherent, FluxVars
  <2>3. CASE ReadOk
    <3>1. head = wanted BY <2>3 DEF ReadOk, HeadKnown
    <3>2. \/ reading'.serial = serial /\ reading'.write = platter[wanted]
          \/ wpc' \notin {"withdraw", "insert"}
      BY <2>3, <3>1 DEF ReadOk, GoTo
    <3> QED BY <1>1, <2>1, <3>2 DEF ReadingCoherent, FluxVars
  <2> QED BY <2>2, <2>3
<1> QED BY <1>2, <1>3

(* What is inserted is the reading in hand.                                *)
LEMMA CoherentInsert ==
    ASSUME TypeOK, Coherent, InsertCapture PROVE Coherent'
<1> USE DEF Coherent
<1> DEFINE c == [gen |-> generation, quality |-> reading.quality, bits |-> reading.bits,
                 serial |-> reading.serial, write |-> reading.write]
<1>1. c \in Capture /\ c.serial = reading.serial /\ c.write = reading.write
  BY DEF InsertCapture, TypeOK, CallType, Reading, ErrorType, Capture
<1>2. wanted \in Track /\ captures \in [Track -> Seq(Capture)]
  BY DEF InsertCapture, TypeOK, IntentType, CacheType
<1>3. UNCHANGED <<serial, platter, wanted>> /\ wpc = "insert" /\ wpc' = "drain"
  BY DEF InsertCapture, driveVars, intentVars
<1>4. PICK evicted \in Victims :
        captures' = [t \in Track |-> IF t \in evicted THEN <<>>
                                     ELSE IF t = wanted THEN Push(captures[t], c)
                                     ELSE captures[t]]
  BY DEF InsertCapture
<1> HIDE DEF c
<1>5. ASSUME NEW t \in Track, NEW i \in 1..Len(captures'[t])
      PROVE  \/ t = wanted /\ captures'[t][i] = c
             \/ \E j \in 1..Len(captures[t]) : captures'[t][i] = captures[t][j]
  <2>1. captures[t] \in Seq(Capture) /\ Len(<<>>) = 0 BY <1>2, EmptySeq
  <2>2. captures'[t] = IF t \in evicted THEN <<>>
                       ELSE IF t = wanted THEN Push(captures[t], c) ELSE captures[t]
    BY <1>4
  <2>3. CASE t \in evicted BY <2>1, <2>2, <2>3
  <2>4. CASE t \notin evicted /\ t = wanted
    <3>1. captures'[t] = Push(captures[t], c) BY <2>2, <2>4
    <3>2. i \in 1..Len(Push(captures[t], c)) BY <3>1
    <3> QED BY <1>1, <2>1, <2>4, <3>1, <3>2, PushFrom
  <2>5. CASE t \notin evicted /\ t # wanted
    <3>1. captures'[t] = captures[t] BY <2>2, <2>5
    <3> QED BY <3>1
  <2> QED BY <2>3, <2>4, <2>5
<1>6. /\ c.serial <= serial
      /\ c.serial = serial => c.write = platter[wanted]
  BY <1>1, <1>3 DEF ReadingCoherent
<1>7. ReadingCoherent' BY <1>3, <1>5, <1>6 DEF ReadingCoherent
<1>8. CacheCoherent' BY <1>3, <1>5, <1>6 DEF CacheCoherent
<1> QED BY <1>7, <1>8

(* Every reading taken so far is of an earlier disk than a new one.        *)
LEMMA CoherentChange ==
    ASSUME TypeOK, Coherent, ChangeDisk PROVE Coherent'
<1> USE DEF Coherent
<1>1. UNCHANGED <<captures, wpc, command, reading, wanted>> /\ serial' = serial + 1
  BY DEF ChangeDisk, cacheVars, workerVars
<1>2. serial \in Nat BY DEF TypeOK, DriveType
<1>3. \A t \in Track : \A i \in 1..Len(captures[t]) : captures[t][i].serial \in Nat
  <2> SUFFICES ASSUME NEW t \in Track, NEW i \in 1..Len(captures[t])
               PROVE  captures[t][i].serial \in Nat
    OBVIOUS
  <2>1. captures[t] \in Seq(Capture) BY DEF TypeOK, CacheType
  <2>2. captures[t][i] \in Capture BY <2>1, ElementOfSeq
  <2> QED BY <2>2 DEF Capture
<1>4. wpc \in {"withdraw", "insert"} => reading.serial \in Nat
  BY DEF TypeOK, CallType, Reading
<1>5. ReadingCoherent' BY <1>1, <1>2, <1>3, <1>4 DEF ReadingCoherent
<1>6. CacheCoherent' BY <1>1, <1>2, <1>3 DEF CacheCoherent, ReadingCoherent
<1> QED BY <1>5, <1>6

(* Every step of a faithful controller keeps flux and readings together.   *)
LEMMA CoherentStep ==
    TypeOK /\ HeadKnown /\ Coherent /\ [Next]_vars => Coherent'
<1> SUFFICES ASSUME TypeOK, HeadKnown, Coherent, [Next]_vars PROVE Coherent'
  OBVIOUS
<1>1. CASE Client
  <2>1. CASE \E t \in ClientTracks : Advance(t) BY <2>1, CoherentForget
  <2>2. CASE ~(\E t \in ClientTracks : Advance(t))
    <3>1. UNCHANGED <<FluxVars, wpc, command, wanted, reading>>
      BY <1>1, <2>2
      DEF Client, SetMotor, Seek, ReadTrack, SubmitWrite, NoClickStep, Nudge, Lookup, StallCheck,
          StallTimeout, AdvanceWish, SubmitPlace, SubmitEnqueue, PollEvent, Drop, DropSend,
          DropJoin, cacheVars, sharedByWorker, workerVars, driveVars, FluxVars
    <3> QED BY <3>1, CoherentFrame
  <2> QED BY <2>1, <2>2
<1>2. CASE Worker
  <2>1. CASE Invalidate \/ RefreshClear BY <2>1, CoherentForget
  <2>2. CASE Burn BY <2>2, CoherentBurn
  <2>3. CASE ReadOk \/ Withdraw BY <2>3, CoherentRead
  <2>4. CASE InsertCapture BY <2>4, CoherentInsert
  <2>5. CASE TakeCommand
    <3>1. commands \in Seq(Command) /\ commands # <<>> BY <2>5 DEF TakeCommand, TypeOK, ChannelType
    <3>2. Head(commands).op \in {"write", "noclick", "shutdown"}
      BY <3>1 DEF Command, WriteCommand, NoClickCommand
    <3>3. UNCHANGED FluxVars /\ wpc # "forget" /\ wpc' \notin {"withdraw", "insert"}
      BY <2>5, <3>2 DEF TakeCommand, NextCommand, FluxVars, cacheVars, driveVars
    <3> QED BY <3>3, CoherentFrame
  <2>6. CASE Wake \/ PerformNoClick \/ WritePosition \/ Report \/ TakeWishes \/ ApplyTarget
             \/ ApplyMotorSide \/ ApplyMotor
    <3>1. UNCHANGED FluxVars /\ wpc # "forget" /\ wpc' \notin {"withdraw", "insert"}
      BY <2>6
      DEF Wake, PerformNoClick, WritePosition, Report, TakeWishes, ApplyTarget,
          ApplyMotorSide, ApplyMotor, AfterMove, GoTo, FluxVars, cacheVars, driveVars
    <3> QED BY <3>1, CoherentFrame
  <2>7. CASE RefreshNotDue \/ Drained \/ RefreshQuery \/ RefreshNotify \/ RefreshStore \/ CaptureSkip
             \/ CapturePosition \/ ReadFails \/ ExitMotorOff \/ Stop
    <3>1. UNCHANGED FluxVars /\ wpc # "forget" /\ wpc' \notin {"withdraw", "insert"}
      BY <2>7
      DEF RefreshNotDue, Drained, RefreshQuery, RefreshNotify, RefreshStore, CaptureSkip,
          CapturePosition, ReadFails, ExitMotorOff, Stop, GoTo, FluxVars, cacheVars, driveVars
    <3> QED BY <3>1, CoherentFrame
  <2> QED BY <1>2, <2>1, <2>2, <2>3, <2>4, <2>5, <2>6, <2>7 DEF Worker
<1>3. CASE Progress
  <2>1. UNCHANGED <<FluxVars, wpc, command, wanted, reading>>
    BY <1>3 DEF Progress, cacheVars, workerVars, driveVars, FluxVars
  <2> QED BY <2>1, CoherentFrame
<1>4. CASE ChangeDisk BY <1>4, CoherentChange
<1>5. CASE UNCHANGED vars
  <2>1. UNCHANGED <<FluxVars, wpc, command, wanted, reading>>
    BY <1>5 DEF vars, cacheVars, workerVars, driveVars, FluxVars
  <2> QED BY <2>1, CoherentFrame
<1> QED BY <1>1, <1>2, <1>3, <1>4, <1>5 DEF Next, Finished

-----------------------------------------------------------------------------
(* With a faithful drive WriteInv is invariant.                            *)
THEOREM WriteCorrect == FaithfulDrive => (Spec => [](TypeOK /\ WriteInv))
<1>1. FaithfulDrive /\ TypeOK /\ HeadKnown /\ Coherent /\ [Next]_vars
        => (TypeOK /\ HeadKnown /\ Coherent)'
  BY TypeStep, HeadStep, CoherentStep
<1>2. Init => TypeOK /\ HeadKnown /\ Coherent BY TypeInit, HeadInit, CoherentInit
<1>3. HeadKnown /\ Coherent <=> WriteInv BY DEF WriteInv, Coherent
<1>4. CASE FaithfulDrive
  <2>1. TypeOK /\ HeadKnown /\ Coherent /\ [Next]_vars => (TypeOK /\ HeadKnown /\ Coherent)'
    BY <1>1, <1>4
  <2> QED BY <1>2, <1>3, <2>1, PTL DEF Spec
<1> QED BY <1>4

(* CacheCoherentHolds: with a faithful drive no reading survives a write   *)
(* of its track, in whatever order writes, captures, wishes, failures and  *)
(* disk changes come (the remove of perform_write).                        *)
THEOREM CacheCoherentHolds == FaithfulDrive => (Spec => []CacheCoherent)
<1>1. WriteInv => CacheCoherent BY DEF WriteInv
<1>2. CASE FaithfulDrive
  <2>1. Spec => [](TypeOK /\ WriteInv) BY <1>2, WriteCorrect
  <2> QED BY <1>1, <2>1, PTL
<1> QED BY <1>2

(* WritesLandHolds: with a faithful drive, perform_write changes flux on   *)
(* the track the request names and on no other.                            *)
THEOREM WritesLandHolds == FaithfulDrive => (Spec => WritesLandWhereAsked)
<1>1. TypeOK /\ WriteInv /\ [Next]_vars =>
        [\A t \in Track :
           platter'[t] # platter[t] => serial' # serial \/ t = command.request.track]_vars
  <2> SUFFICES ASSUME TypeOK, WriteInv, [Next]_vars, NEW t \in Track, platter'[t] # platter[t]
               PROVE  serial' # serial \/ t = command.request.track
    OBVIOUS
  <2>1. CASE Burn
    BY <2>1 DEF Burn, WriteInv, HeadKnown, TypeOK, DriveType
  <2>2. CASE ChangeDisk BY <2>2 DEF ChangeDisk, TypeOK, DriveType
  <2>3. CASE Client \/ Progress \/ UNCHANGED vars
    <3>1. UNCHANGED platter
      BY <2>3
      DEF Client, SetMotor, Seek, ReadTrack, Advance, SubmitWrite, NoClickStep, Nudge, Lookup,
          StallCheck, StallTimeout, AdvanceWish, SubmitPlace, SubmitEnqueue, PollEvent, Drop,
          DropSend, DropJoin, sharedByWorker, Progress, vars, driveVars
    <3> QED BY <3>1
  <2>4. CASE Worker /\ ~Burn
    <3>1. UNCHANGED platter
      BY <2>4
      DEF Worker, TakeCommand, Wake, PerformNoClick, WritePosition, Invalidate, Report,
          TakeWishes, ApplyTarget, ApplyMotorSide, ApplyMotor, RefreshNotDue, Drained, RefreshQuery,
          RefreshClear, RefreshNotify, RefreshStore, CaptureSkip, CapturePosition, ReadOk,
          ReadFails, Withdraw, InsertCapture, ExitMotorOff, Stop, driveVars
    <3> QED BY <3>1
  <2> QED BY <2>1, <2>2, <2>3, <2>4 DEF Next, Finished
<1>2. CASE FaithfulDrive
  <2>1. Spec => [](TypeOK /\ WriteInv) BY <1>2, WriteCorrect
  <2> QED BY <1>1, <2>1, PTL DEF WritesLandWhereAsked, Spec
<1> QED BY <1>2

-----------------------------------------------------------------------------
(* Writes come out in the order they went in, each at most once.           *)

(* Indices into what is left of a queue when its head is taken.            *)
LEMMA TailIndex ==
    ASSUME NEW S, NEW s \in Seq(S), s # <<>>
    PROVE  /\ Head(s) = s[1] /\ 1 \in DOMAIN s /\ Tail(s) \in Seq(S)
           /\ \A i \in DOMAIN Tail(s) : i + 1 \in DOMAIN s /\ Tail(s)[i] = s[i + 1]
           /\ \A j \in DOMAIN s \ {1} : j - 1 \in DOMAIN Tail(s) /\ Tail(s)[j - 1] = s[j]
<1>1. Len(s) \in Nat /\ Len(s) >= 1 /\ DOMAIN s = 1..Len(s)
  BY EmptySeq
<1>2. /\ Head(s) = s[1] /\ Tail(s) \in Seq(S) /\ Len(Tail(s)) = Len(s) - 1
      /\ \A i \in 1..Len(Tail(s)) : Tail(s)[i] = s[i + 1]
  BY HeadTailProperties
<1>3. DOMAIN Tail(s) = 1..(Len(s) - 1)
  BY <1>2
<1>4. \A i \in DOMAIN Tail(s) : i \in Int /\ i + 1 \in DOMAIN s /\ Tail(s)[i] = s[i + 1]
  BY <1>1, <1>2, <1>3
<1>5. ASSUME NEW j \in DOMAIN s \ {1}
      PROVE  j - 1 \in DOMAIN Tail(s) /\ Tail(s)[j - 1] = s[j]
  <2>1. j \in Int /\ j - 1 \in DOMAIN Tail(s) /\ (j - 1) + 1 = j
    BY <1>1, <1>3
  <2> QED BY <2>1, <1>4
<1> QED BY <1>1, <1>2, <1>4, <1>5

(* Indices into a queue something was added to.                            *)
LEMMA AppendIndex ==
    ASSUME NEW S, NEW s \in Seq(S), NEW e
    PROVE  /\ DOMAIN Append(s, e) = DOMAIN s \cup {Len(s) + 1}
           /\ Len(s) + 1 \notin DOMAIN s /\ Append(s, e)[Len(s) + 1] = e
           /\ \A i \in DOMAIN s : Append(s, e)[i] = s[i] /\ i < Len(s) + 1 /\ i \in Int
           /\ Len(s) + 1 \in Int
<1>1. Len(s) \in Nat /\ DOMAIN s = 1..Len(s)
  OBVIOUS
<1>2. /\ DOMAIN Append(s, e) = 1..(Len(s) + 1) /\ Append(s, e)[Len(s) + 1] = e
      /\ \A i \in 1..Len(s) : Append(s, e)[i] = s[i]
  OBVIOUS
<1> QED BY <1>1, <1>2

-----------------------------------------------------------------------------
(* What most steps leave as it is: identifiers, queued requests, outcomes, *)
(* and the request in hand.                                                *)
SameQueued == Queued' = Queued /\ \A i \in Queued : commands'[i] = commands[i]
SameReports == Reports' = Reports /\ \A i \in Reports : events'[i] = events[i]
SameInHand == Performing' = Performing /\ (Performing => command' = command)
Same ==
    nextWrite' = nextWrite /\ polled' = polled /\ SameQueued /\ SameReports /\ SameInHand

(* Commands and events of other kinds leave the writes among them alone.   *)
LEMMA OtherCommand ==
    ASSUME commands \in Seq(Command), NEW c, c.op # "write", TrySend(c)
    PROVE  SameQueued
<1>1. CASE commands' = commands BY <1>1 DEF SameQueued, Queued
<1>2. CASE commands' = Append(commands, c) BY <1>2, AppendIndex DEF SameQueued, Queued
<1> QED BY <1>1, <1>2 DEF TrySend

LEMMA OtherEvent ==
    ASSUME events \in Seq(Event), NEW e, e.kind # "write", TryEvent(e)
    PROVE  SameReports
<1>1. CASE events' = events BY <1>1 DEF SameReports, Reports
<1>2. CASE events' = Append(events, e) BY <1>2, AppendIndex DEF SameReports, Reports
<1> QED BY <1>1, <1>2 DEF TryEvent

LEMMA ErrorNoted ==
    ASSUME events \in Seq(Event), NEW k, NoteError(k)
    PROVE  SameReports
<1>1. CASE UNCHANGED events BY <1>1 DEF SameReports, Reports
<1>2. CASE TryEvent([kind |-> "disconnected"]) BY <1>2, OtherEvent
<1> QED BY <1>1, <1>2 DEF NoteError

(* All but these steps leave it.                                           *)
WriteStep == SubmitEnqueue \/ PollEvent \/ TakeCommand \/ Report \/ Stop

LEMMA ClientSame ==
    ASSUME TypeOK, Client, ~WriteStep
    PROVE  Same
<1>1. commands \in Seq(Command) BY DEF TypeOK, ChannelType
<1>2. UNCHANGED <<nextWrite, polled, events, wpc, command>>
  BY DEF WriteStep, Client, SetMotor, Seek, ReadTrack, Advance, SubmitWrite, NoClickStep, Nudge,
         Lookup, StallCheck, StallTimeout, AdvanceWish, SubmitPlace, Drop, DropSend, DropJoin,
         sharedByWorker, workerVars, clientVars, historyVars, writeHistory
<1>3. SameQueued
  <2>1. CASE DropSend
    <3>1. [op |-> "shutdown"].op # "write" OBVIOUS
    <3> QED BY <1>1, <2>1, <3>1, OtherCommand DEF DropSend
  <2>2. CASE \E side \in Sides : NoClickStep(side)
    <3>1. \A side : [op |-> "noclick", side |-> side].op # "write" OBVIOUS
    <3> QED BY <1>1, <2>2, <3>1, OtherCommand DEF NoClickStep
  <2>3. CASE ~DropSend /\ ~(\E side \in Sides : NoClickStep(side))
    <3>1. UNCHANGED commands
      BY <2>3
      DEF WriteStep, Client, SetMotor, Seek, ReadTrack, Advance, SubmitWrite, Nudge, Lookup,
          StallCheck, StallTimeout, AdvanceWish, SubmitPlace, Drop, DropJoin
    <3> QED BY <3>1 DEF SameQueued, Queued
  <2> QED BY <2>1, <2>2, <2>3
<1>4. SameReports BY <1>2 DEF SameReports, Reports
<1>5. SameInHand BY <1>2 DEF SameInHand, Performing
<1> QED BY <1>2, <1>3, <1>4, <1>5 DEF Same

LEMMA WorkerSame ==
    ASSUME TypeOK, Worker, ~WriteStep
    PROVE  Same
<1>1. commands \in Seq(Command) /\ events \in Seq(Event) BY DEF TypeOK, ChannelType
<1>2. UNCHANGED <<nextWrite, polled, commands>>
  BY DEF WriteStep, Worker, Wake, PerformNoClick, WritePosition, Burn, Invalidate, TakeWishes,
         ApplyTarget, ApplyMotorSide, ApplyMotor, RefreshNotDue, Drained, RefreshQuery, RefreshClear,
         RefreshNotify, RefreshStore, CaptureSkip, CapturePosition, ReadOk, ReadFails, Withdraw,
         InsertCapture, ExitMotorOff, clientSide, clientVars
<1>3. SameQueued BY <1>2 DEF SameQueued, Queued
<1>4. SameReports
  <2>1. CASE RefreshNotify
    <3>1. [kind |-> "disk", present |-> snapshot.present].kind # "write" OBVIOUS
    <3> QED BY <1>1, <2>1, <3>1, OtherEvent DEF RefreshNotify
  <2>2. CASE UNCHANGED events BY <2>2 DEF SameReports, Reports
  <2>3. CASE \E k : NoteError(k) BY <1>1, <2>3, ErrorNoted
  <2>4. UNCHANGED events \/ (\E k : NoteError(k)) \/ RefreshNotify
    BY DEF WriteStep, Worker, Wake, PerformNoClick, WritePosition, Burn, Invalidate, TakeWishes,
           ApplyTarget, ApplyMotorSide, ApplyMotor, RefreshNotDue, Drained, RefreshQuery, RefreshClear,
           RefreshStore, CaptureSkip, CapturePosition, ReadOk, ReadFails, Withdraw,
           InsertCapture, ExitMotorOff
  <2> QED BY <2>1, <2>2, <2>3, <2>4
<1>5. SameInHand
  <2>1. CASE WritePosition \/ Burn \/ Invalidate
    BY <2>1 DEF WritePosition, Burn, Invalidate, SameInHand, Performing, callVars
  <2>2. CASE Wake \/ PerformNoClick \/ TakeWishes \/ ApplyTarget \/ ApplyMotorSide \/ ApplyMotor
    <3>1. /\ wpc \in {"select", "noclick", "wishes", "move", "turn", "motor"}
          /\ wpc' \in {"drain", "exit", "move", "turn", "refresh", "motor"}
      BY <2>2
      DEF Wake, PerformNoClick, TakeWishes, ApplyTarget, ApplyMotorSide, ApplyMotor, AfterMove, GoTo
    <3> QED BY <3>1 DEF SameInHand, Performing
  <2>3. CASE RefreshNotDue \/ Drained \/ RefreshQuery \/ RefreshClear \/ RefreshNotify \/ RefreshStore
    <3>1. /\ wpc \in {"drain", "refresh", "clear", "notify", "store"}
          /\ wpc' \in {"capture", "wishes", "exit", "clear", "notify", "store"}
      BY <2>3
      DEF RefreshNotDue, Drained, RefreshQuery, RefreshClear, RefreshNotify, RefreshStore, GoTo
    <3> QED BY <3>1 DEF SameInHand, Performing
  <2>4. CASE CaptureSkip \/ CapturePosition \/ ReadOk \/ ReadFails \/ Withdraw \/ InsertCapture
             \/ ExitMotorOff
    <3>1. /\ wpc \in {"capture", "read", "withdraw", "insert", "exit"}
          /\ wpc' \in {"select", "exit", "read", "withdraw", "insert", "drain", "stop"}
      BY <2>4
      DEF CaptureSkip, CapturePosition, ReadOk, ReadFails, Withdraw, InsertCapture, ExitMotorOff,
          GoTo
    <3> QED BY <3>1 DEF SameInHand, Performing
  <2> QED BY <2>1, <2>2, <2>3, <2>4 DEF Worker, WriteStep
<1> QED BY <1>2, <1>3, <1>4, <1>5 DEF Same

LEMMA OthersSame ==
    ASSUME TypeOK, [Next]_vars, ~WriteStep
    PROVE  Same
<1>1. CASE Progress \/ ChangeDisk \/ UNCHANGED vars
  <2>1. UNCHANGED <<nextWrite, polled, commands, events, wpc, command>>
    BY <1>1 DEF Progress, ChangeDisk, vars, clientSide, clientVars, historyVars, writeHistory,
                workerVars
  <2> QED BY <2>1 DEF Same, SameQueued, SameReports, SameInHand, Queued, Reports, Performing
<1> QED BY <1>1, ClientSame, WorkerSame DEF Next, Finished

-----------------------------------------------------------------------------
(* The order of writes.                                                    *)

LEMMA IdsAreNat ==
    ASSUME TypeOK
    PROVE  /\ nextWrite \in Nat /\ polled \in Nat
           /\ \A i \in Queued : commands[i].id \in Nat /\ commands[i].request.track \in Track
           /\ \A i \in Reports : events[i].id \in Nat
           /\ Performing => command.id \in Nat /\ command.request.track \in Track
<1>1. ASSUME NEW i \in Queued
      PROVE  commands[i].id \in Nat /\ commands[i].request.track \in Track
  <2>1. commands[i] \in Command /\ commands[i].op = "write"
    BY DEF Queued, TypeOK, ChannelType
  <2>2. commands[i] \in WriteCommand
    BY <2>1 DEF Command, NoClickCommand
  <2> QED BY <2>2 DEF WriteCommand, PlacedRequest
<1>2. ASSUME NEW i \in Reports PROVE events[i].id \in Nat
  BY DEF Reports, TypeOK, ChannelType, Event
<1>3. Performing => command.id \in Nat /\ command.request.track \in Track
  BY DEF Performing, TypeOK, CallType, WriteCommand, PlacedRequest
<1> QED BY <1>1, <1>2, <1>3 DEF TypeOK, ClientType, HistoryType

LEMMA OrderSame ==
    ASSUME WriteEventsInOrder, Same
    PROVE  WriteEventsInOrder'
BY DEF WriteEventsInOrder, Same, SameQueued, SameReports, SameInHand

(* A new identifier, later than every other one.                           *)
Fresh(n) ==
    /\ polled < n
    /\ \A i \in Reports : events[i].id < n
    /\ Performing => command.id < n
    /\ \A i \in Queued : commands[i].id < n

LEMMA OrderSubmit ==
    ASSUME TypeOK, WriteEventsInOrder, SubmitEnqueue
    PROVE  WriteEventsInOrder'
<1> DEFINE c == [op |-> "write", id |-> nextWrite, request |-> call]
<1>1. /\ commands \in Seq(Command) /\ TrySend(c) /\ nextWrite' = nextWrite + 1
      /\ UNCHANGED <<events, polled, wpc, command>>
  BY DEF SubmitEnqueue, TypeOK, ChannelType, sharedByWorker, workerVars
<1>2. SameReports /\ SameInHand
  BY <1>1 DEF SameReports, SameInHand, Reports, Performing
<1>3. CASE commands' = commands
  <2>1. SameQueued BY <1>3 DEF SameQueued, Queued
  <2> QED
    BY <1>1, <1>2, <2>1, IdsAreNat
    DEF WriteEventsInOrder, SameQueued, SameReports, SameInHand
<1>4. CASE commands' = Append(commands, c)
  <2> DEFINE new == Len(commands) + 1
  <2>1. /\ Queued' = Queued \cup {new} /\ new \notin Queued /\ commands'[new].id = nextWrite
        /\ \A i \in Queued : commands'[i] = commands[i] /\ i < new /\ i \in Int
        /\ new \in Int
    BY <1>1, <1>4, AppendIndex DEF Queued
  <2> HIDE DEF new
  <2>2. ~(new < new) /\ \A i \in Queued : ~(new < i)
    BY <2>1
  <2>3. Fresh(commands'[new].id)
    BY <1>1, <1>2, <2>1, IdsAreNat DEF WriteEventsInOrder, SameReports, SameInHand, Fresh
  <2>4. /\ polled' < nextWrite'
        /\ \A i \in Reports' :
             /\ polled' < events'[i].id /\ events'[i].id < nextWrite'
             /\ Performing' => events'[i].id < command'.id
             /\ \A j \in Reports' : i < j => events'[i].id < events'[j].id
        /\ Performing' => polled' < command'.id /\ command'.id < nextWrite'
    BY <1>1, <1>2, IdsAreNat DEF WriteEventsInOrder, SameReports, SameInHand
  <2>5. \A i \in Reports' : \A j \in Queued' : events'[i].id < commands'[j].id
    BY <1>2, <2>1, <2>3 DEF WriteEventsInOrder, SameReports, Fresh
  <2>6. \A i \in Queued' :
           /\ polled' < commands'[i].id /\ commands'[i].id < nextWrite'
           /\ Performing' => command'.id < commands'[i].id
    BY <1>1, <1>2, <2>1, <2>3, IdsAreNat DEF WriteEventsInOrder, SameInHand, Fresh
  <2>7. \A i \in Queued' : \A j \in Queued' : i < j => commands'[i].id < commands'[j].id
    BY <2>1, <2>2, <2>3 DEF WriteEventsInOrder, Fresh
  <2> QED BY <2>4, <2>5, <2>6, <2>7 DEF WriteEventsInOrder
<1> QED BY <1>1, <1>3, <1>4 DEF TrySend

LEMMA OrderPoll ==
    ASSUME TypeOK, WriteEventsInOrder, PollEvent
    PROVE  WriteEventsInOrder'
<1>1. /\ events \in Seq(Event) /\ events # <<>> /\ events' = Tail(events)
      /\ polled' = IF Head(events).kind = "write" THEN Head(events).id ELSE polled
      /\ UNCHANGED <<commands, nextWrite, wpc, command>>
  BY DEF PollEvent, TypeOK, ChannelType, clientVars, sharedByWorker, workerVars
<1>2. SameQueued /\ SameInHand
  BY <1>1 DEF SameQueued, SameInHand, Queued, Performing
<1>3. /\ Head(events) = events[1] /\ 1 \in DOMAIN events
      /\ \A i \in DOMAIN events' : i + 1 \in DOMAIN events /\ events'[i] = events[i + 1]
      /\ \A i \in DOMAIN events' : i \in Int /\ i >= 1
  BY <1>1, TailIndex
<1>4. \A i \in Reports' : i + 1 \in Reports /\ events'[i] = events[i + 1] /\ 1 < i + 1 /\ i \in Int
  BY <1>3 DEF Reports
<1>5. /\ polled' \in Int /\ polled' < nextWrite
      /\ \A i \in Reports' : polled' < events'[i].id
      /\ Performing => polled' < command.id
      /\ \A i \in Queued : polled' < commands[i].id
  <2>1. CASE Head(events).kind = "write"
    <3>1. 1 \in Reports /\ polled' = events[1].id
      BY <1>1, <1>3, <2>1 DEF Reports
    <3> QED BY <1>4, <3>1, IdsAreNat DEF WriteEventsInOrder
  <2>2. CASE Head(events).kind # "write"
    <3>1. polled' = polled /\ polled \in Int BY <1>1, <2>2, IdsAreNat
    <3>2. \A i \in Reports' : polled < events'[i].id BY <1>4 DEF WriteEventsInOrder
    <3> QED BY <3>1, <3>2 DEF WriteEventsInOrder
  <2> QED BY <2>1, <2>2
<1>6. \A i \in Reports' :
         /\ events'[i].id < nextWrite
         /\ Performing => events'[i].id < command.id
         /\ \A j \in Queued : events'[i].id < commands[j].id
  BY <1>4 DEF WriteEventsInOrder
<1>7. \A i \in Reports' : \A j \in Reports' : i < j => events'[i].id < events'[j].id
  <2> SUFFICES ASSUME NEW i \in Reports', NEW j \in Reports', i < j
               PROVE  events'[i].id < events'[j].id
    OBVIOUS
  <2>1. i + 1 < j + 1 BY <1>4
  <2> QED BY <1>4, <2>1 DEF WriteEventsInOrder
<1>8. \A i \in Queued :
         /\ commands[i].id < nextWrite
         /\ Performing => command.id < commands[i].id /\ command.id < nextWrite
         /\ \A j \in Queued : i < j => commands[i].id < commands[j].id
  BY DEF WriteEventsInOrder
<1>9. Performing => command.id < nextWrite BY DEF WriteEventsInOrder
<1> QED
  BY <1>1, <1>2, <1>5, <1>6, <1>7, <1>8, <1>9 DEF WriteEventsInOrder, SameQueued, SameInHand

LEMMA OrderTake ==
    ASSUME TypeOK, WriteEventsInOrder, TakeCommand
    PROVE  WriteEventsInOrder'
<1>1. /\ commands \in Seq(Command) /\ commands # <<>> /\ commands' = Tail(commands)
      /\ ~Performing /\ UNCHANGED <<events, nextWrite, polled>>
      /\ command' = IF Head(commands).op = "shutdown" THEN None ELSE Head(commands)
      /\ wpc' = IF Head(commands).op = "shutdown" THEN "exit" ELSE Head(commands).op
  BY DEF TakeCommand, NextCommand, TypeOK, ChannelType, Performing, clientSide, clientVars
<1>2. SameReports BY <1>1 DEF SameReports, Reports
<1>3. /\ Head(commands) = commands[1] /\ 1 \in DOMAIN commands
      /\ \A i \in DOMAIN commands' : i + 1 \in DOMAIN commands /\ commands'[i] = commands[i + 1]
      /\ \A i \in DOMAIN commands' : i \in Int /\ i >= 1
  BY <1>1, TailIndex
<1>4. \A i \in Queued' :
         i + 1 \in Queued /\ commands'[i] = commands[i + 1] /\ 1 < i + 1 /\ i \in Int
  BY <1>3 DEF Queued
<1>5. Performing' => 1 \in Queued /\ command' = commands[1]
  <2>1. Head(commands).op \in {"write", "noclick", "shutdown"}
    BY <1>1, <1>3 DEF Command, WriteCommand, NoClickCommand
  <2>2. Performing' => Head(commands).op = "write"
    BY <1>1, <2>1 DEF Performing
  <2> QED BY <1>1, <1>3, <2>2 DEF Queued
<1>6. \A i \in Queued' :
         /\ polled < commands'[i].id /\ commands'[i].id < nextWrite
         /\ \A j \in Reports : events[j].id < commands'[i].id
         /\ Performing' => command'.id < commands'[i].id
  BY <1>4, <1>5 DEF WriteEventsInOrder
<1>7. \A i \in Queued' : \A j \in Queued' : i < j => commands'[i].id < commands'[j].id
  <2> SUFFICES ASSUME NEW i \in Queued', NEW j \in Queued', i < j
               PROVE  commands'[i].id < commands'[j].id
    OBVIOUS
  <2>1. i + 1 < j + 1 BY <1>4
  <2> QED BY <1>4, <2>1 DEF WriteEventsInOrder
<1>8. Performing' =>
         /\ polled < command'.id /\ command'.id < nextWrite
         /\ \A j \in Reports : events[j].id < command'.id
  BY <1>5 DEF WriteEventsInOrder
<1>9. /\ polled < nextWrite
      /\ \A i \in Reports :
           /\ polled < events[i].id /\ events[i].id < nextWrite
           /\ \A j \in Reports : i < j => events[i].id < events[j].id
  BY DEF WriteEventsInOrder
<1> QED
  BY <1>1, <1>2, <1>6, <1>7, <1>8, <1>9 DEF WriteEventsInOrder, SameReports

LEMMA OrderReport ==
    ASSUME TypeOK, WriteEventsInOrder, Report
    PROVE  WriteEventsInOrder'
<1> DEFINE e == [kind |-> "write", id |-> command.id, ok |-> result = "completed"]
<1>1. /\ events \in Seq(Event) /\ TryEvent(e) /\ Performing /\ ~Performing'
      /\ UNCHANGED <<commands, nextWrite, polled>>
  BY DEF Report, TypeOK, ChannelType, Performing, clientSide, clientVars
<1>2. SameQueued BY <1>1 DEF SameQueued, Queued
<1>3. CASE events' = events
  <2>1. SameReports BY <1>3 DEF SameReports, Reports
  <2> QED BY <1>1, <1>2, <2>1 DEF WriteEventsInOrder, SameQueued, SameReports
<1>4. CASE events' = Append(events, e)
  <2> DEFINE new == Len(events) + 1
  <2>1. /\ Reports' = Reports \cup {new} /\ new \notin Reports /\ events'[new].id = command.id
        /\ \A i \in Reports : events'[i] = events[i] /\ i < new /\ i \in Int
        /\ new \in Int
    BY <1>1, <1>4, AppendIndex DEF Reports
  <2> HIDE DEF new
  <2>2. ~(new < new) /\ \A i \in Reports : ~(new < i)
    BY <2>1
  <2> QED
    BY <1>1, <1>2, <2>1, <2>2, IdsAreNat DEF WriteEventsInOrder, SameQueued
<1> QED BY <1>1, <1>3, <1>4 DEF TryEvent

LEMMA OrderStop ==
    ASSUME WriteEventsInOrder, Stop
    PROVE  WriteEventsInOrder'
<1>1. Queued' = {} /\ ~Performing' /\ UNCHANGED <<events, nextWrite, polled>>
  BY DEF Stop, Queued, Performing, clientSide, clientVars
<1>2. SameReports BY <1>1 DEF SameReports, Reports
<1> QED BY <1>1, <1>2 DEF WriteEventsInOrder, SameReports

LEMMA OrderInit == Init => WriteEventsInOrder
  BY DEF Init, WriteEventsInOrder, Reports, Queued, Performing

LEMMA OrderStep == TypeOK /\ WriteEventsInOrder /\ [Next]_vars => WriteEventsInOrder'
  BY OthersSame, OrderSame, OrderSubmit, OrderPoll, OrderTake, OrderReport, OrderStop
  DEF WriteStep

(* InOrderHolds: WriteEventsInOrder for every capacity of the queues and   *)
(* every behaviour of client, drive and worker: whatever is refused, fails *)
(* or is lost, outcomes are reported in the order of submission.           *)
THEOREM InOrderHolds == Spec => []WriteEventsInOrder
<1>1. TypeOK /\ WriteEventsInOrder /\ [Next]_vars => (TypeOK /\ WriteEventsInOrder)'
  BY TypeStep, OrderStep
<1>2. Init => TypeOK /\ WriteEventsInOrder BY TypeInit, OrderInit
<1> QED BY <1>1, <1>2, PTL DEF Spec

-----------------------------------------------------------------------------
(* The refinement.                                                         *)

(* A request in hand has come to something once its outcome is worth       *)
(* recording, and not before.                                              *)
ResultKnown ==
    IF wpc \in {"forget", "report"} THEN result \in {"completed", "failed"} ELSE result = None

LEMMA ResultInit == Init => ResultKnown
  BY DEF Init, ResultKnown

(* Between perform_write's outcome and its report nothing else touches it. *)
Performed == WritePosition \/ Burn \/ Report

LEMMA OthersKeep ==
    ASSUME TypeOK, [Next]_vars, ~Performed, ~Stop, ~ChangeDisk
    PROVE  /\ UNCHANGED <<result, platter>>
           /\ (wpc' = "done") = (wpc = "done")
           /\ (wpc \in {"forget", "report"}) = (wpc' \in {"forget", "report"})
<1>1. CASE Client
  BY <1>1
  DEF Client, SetMotor, Seek, ReadTrack, Advance, SubmitWrite, NoClickStep, Nudge, Lookup,
      StallCheck, StallTimeout, AdvanceWish, SubmitPlace, SubmitEnqueue, PollEvent, Drop, DropSend,
      DropJoin, sharedByWorker, workerVars, driveVars
<1>2. CASE TakeCommand
  <2>1. Head(commands).op \in {"write", "noclick", "shutdown"}
    <3>1. commands \in Seq(Command) /\ commands # <<>>
      BY <1>2 DEF TakeCommand, TypeOK, ChannelType
    <3>2. Head(commands) \in Command BY <3>1, TailIndex, ElementOfSeq
    <3> QED BY <3>2 DEF Command, WriteCommand, NoClickCommand
  <2> QED BY <1>2, <2>1 DEF TakeCommand, NextCommand, driveVars
<1>3. CASE Wake \/ PerformNoClick \/ Invalidate \/ TakeWishes \/ ApplyTarget \/ ApplyMotorSide
           \/ ApplyMotor
  BY <1>3
  DEF Wake, PerformNoClick, Invalidate, TakeWishes, ApplyTarget, ApplyMotorSide, ApplyMotor,
      AfterMove, GoTo, callVars, driveVars
<1>4. CASE RefreshNotDue \/ Drained \/ RefreshQuery \/ RefreshClear \/ RefreshNotify \/ RefreshStore
  BY <1>4
  DEF RefreshNotDue, Drained, RefreshQuery, RefreshClear, RefreshNotify, RefreshStore, GoTo, callVars,
      driveVars
<1>5. CASE CaptureSkip \/ CapturePosition \/ ReadOk \/ ReadFails \/ Withdraw \/ InsertCapture
           \/ ExitMotorOff
  <2>1. /\ UNCHANGED <<result, platter>>
        /\ wpc \in {"capture", "read", "withdraw", "insert", "exit"}
        /\ wpc' \in {"select", "exit", "read", "withdraw", "insert", "drain", "stop"}
    BY <1>5
    DEF CaptureSkip, CapturePosition, ReadOk, ReadFails, Withdraw, InsertCapture, ExitMotorOff,
        GoTo, callVars, driveVars
  <2> QED BY <2>1
<1>6. CASE Progress \/ UNCHANGED vars
  BY <1>6 DEF Progress, vars, workerVars, driveVars
<1> QED BY <1>1, <1>2, <1>3, <1>4, <1>5, <1>6 DEF Next, Finished, Worker, Performed

LEMMA ResultStep == TypeOK /\ ResultKnown /\ [Next]_vars => ResultKnown'
<1> SUFFICES ASSUME TypeOK, ResultKnown, [Next]_vars PROVE ResultKnown'
  OBVIOUS
<1>1. CASE WritePosition BY <1>1 DEF WritePosition, ResultKnown
<1>2. CASE Burn BY <1>2 DEF Burn, ResultKnown
<1>3. CASE Report BY <1>3 DEF Report, ResultKnown
<1>4. CASE Stop BY <1>4 DEF Stop, ResultKnown, callVars
<1>5. CASE ChangeDisk BY <1>5 DEF ChangeDisk, ResultKnown, workerVars
<1> QED BY <1>1, <1>2, <1>3, <1>4, <1>5, OthersKeep DEF Performed, ResultKnown

-----------------------------------------------------------------------------
(* What the service sees of an unchanged queue, request or list of events. *)
LEMMA BarQueued == ASSUME SameQueued PROVE UNCHANGED PendingWrites
  BY DEF SameQueued, PendingWrites, Accepted
LEMMA BarReports == ASSUME SameReports PROVE UNCHANGED Outcomes
  BY DEF SameReports, Outcomes
LEMMA BarInHand == ASSUME SameInHand PROVE UNCHANGED CurrentWrite
  BY DEF SameInHand, CurrentWrite, Accepted

LEMMA BarSame ==
    ASSUME Same, UNCHANGED <<result, platter>>, (wpc' = "done") = (wpc = "done")
    PROVE  UNCHANGED Service!vars
<1>1. UNCHANGED <<PendingWrites, Outcomes, CurrentWrite, nextWrite>>
  BY BarQueued, BarReports, BarInHand DEF Same
<1> QED BY <1>1 DEF Service!vars

LEMMA BarInit == Init => Service!Init
<1> SUFFICES ASSUME Init PROVE Service!Init
  OBVIOUS
<1>1. Queued = {} /\ Reports = {} /\ ~Performing
  BY DEF Init, Queued, Reports, Performing
<1>2. PendingWrites = {} /\ Outcomes = {} /\ CurrentWrite = None
  BY <1>1 DEF PendingWrites, Outcomes, CurrentWrite
<1>3. nextWrite = 1 /\ result = None /\ platter = [t \in Track |-> 0] /\ (wpc # "done") = TRUE
  BY DEF Init
<1> QED BY <1>2, <1>3 DEF Service!Init

(* submit_write: Submit.                                                   *)
LEMMA BarSubmit ==
    ASSUME TypeOK, SubmitEnqueue PROVE Service!Submit
<1> DEFINE c == [op |-> "write", id |-> nextWrite, request |-> call]
<1>1. /\ commands \in Seq(Command) /\ TrySend(c) /\ nextWrite' = nextWrite + 1
      /\ UNCHANGED <<events, polled, wpc, command, result, platter>>
      /\ call.track \in Track
  BY DEF SubmitEnqueue, TypeOK, ChannelType, sharedByWorker, workerVars, driveVars, ClientType,
         PlacedRequest
<1>2. UNCHANGED <<CurrentWrite, Outcomes>>
  BY <1>1, BarReports, BarInHand DEF SameReports, SameInHand, Reports, Performing
<1>3. CASE commands' = commands
  <2>1. UNCHANGED PendingWrites BY <1>3, BarQueued DEF SameQueued, Queued
  <2> QED BY <1>1, <1>2, <2>1 DEF Service!Submit
<1>4. CASE commands' = Append(commands, c) /\ wpc # "done"
  <2> DEFINE new == Len(commands) + 1
  <2>1. /\ Queued' = Queued \cup {new} /\ commands'[new] = c
        /\ \A i \in Queued : commands'[i] = commands[i]
    BY <1>1, <1>4, AppendIndex DEF Queued
  <2>2. Accepted(c) = [id |-> nextWrite, track |-> call.track]
    BY DEF Accepted
  <2> HIDE DEF new, c
  <2>3. PendingWrites' = PendingWrites \cup {Accepted(c)}
    BY <2>1 DEF PendingWrites, Accepted
  <2> QED BY <1>1, <1>2, <1>4, <2>2, <2>3 DEF Service!Submit
<1> QED BY <1>1, <1>3, <1>4 DEF TrySend, CanSend

(* The head of the queue taken, if it is a write: Begin.                   *)
LEMMA BarTake ==
    ASSUME TypeOK, WriteEventsInOrder, ResultKnown, TakeCommand
    PROVE  Service!Begin \/ UNCHANGED Service!vars
<1>1. /\ commands \in Seq(Command) /\ commands # <<>> /\ commands' = Tail(commands)
      /\ ~Performing /\ UNCHANGED <<events, nextWrite, result, platter>> /\ wpc # "done"
      /\ command' = IF Head(commands).op = "shutdown" THEN None ELSE Head(commands)
      /\ wpc' = IF Head(commands).op = "shutdown" THEN "exit" ELSE Head(commands).op
  BY DEF TakeCommand, NextCommand, TypeOK, ChannelType, Performing, clientSide, clientVars,
         driveVars
<1>2. UNCHANGED Outcomes BY <1>1, BarReports DEF SameReports, Reports
<1>3. /\ Head(commands) = commands[1] /\ 1 \in DOMAIN commands
      /\ \A i \in DOMAIN commands' : i + 1 \in DOMAIN commands /\ commands'[i] = commands[i + 1]
      /\ \A i \in DOMAIN commands' : i \in Int /\ i >= 1
      /\ \A j \in DOMAIN commands \ {1} : j - 1 \in DOMAIN commands' /\ commands'[j - 1] = commands[j]
      /\ \A j \in DOMAIN commands \ {1} : 1 < j
  BY <1>1, TailIndex
<1>4. Head(commands).op \in {"write", "noclick", "shutdown"}
  BY <1>1, <1>3 DEF Command, WriteCommand, NoClickCommand
<1>5. PendingWrites' = {Accepted(commands[j]) : j \in Queued \ {1}}
  <2>1. \A i \in Queued' : i + 1 \in Queued \ {1} /\ commands'[i] = commands[i + 1]
    BY <1>3 DEF Queued
  <2>2. \A j \in Queued \ {1} : j - 1 \in Queued' /\ commands'[j - 1] = commands[j]
    BY <1>3 DEF Queued
  <2> QED BY <2>1, <2>2 DEF PendingWrites, Accepted
<1>6. CurrentWrite = None BY <1>1 DEF CurrentWrite
<1>7. CASE Head(commands).op = "write"
  <2>1. 1 \in Queued /\ command' = commands[1] /\ wpc' = "write"
    BY <1>1, <1>3, <1>7 DEF Queued
  <2>2. CurrentWrite' = Accepted(commands[1])
    BY <2>1 DEF CurrentWrite, Performing, Accepted
  <2>3. \A j \in Queued \ {1} : commands[1].id < commands[j].id
    BY <1>3, <2>1 DEF WriteEventsInOrder, Queued
  <2>4. Accepted(commands[1]) \in Service!Oldest(PendingWrites)
    BY <2>1, <2>3, IdsAreNat DEF Service!Oldest, PendingWrites, Accepted
  <2>5. \A j \in Queued \ {1} : Accepted(commands[j]) # Accepted(commands[1])
    BY <2>1, <2>3, IdsAreNat DEF Accepted
  <2>6. PendingWrites' = PendingWrites \ {Accepted(commands[1])}
    BY <1>5, <2>1, <2>5 DEF PendingWrites
  <2>7. (wpc' # "done") = (wpc # "done") BY <1>1, <2>1
  <2> QED BY <1>1, <1>2, <1>6, <2>2, <2>4, <2>6, <2>7 DEF Service!Begin
<1>8. CASE Head(commands).op # "write"
  <2>1. 1 \notin Queued /\ ~Performing' /\ wpc' # "done"
    BY <1>1, <1>3, <1>4, <1>8 DEF Queued, Performing
  <2>2. UNCHANGED <<PendingWrites, CurrentWrite>>
    BY <1>5, <1>6, <2>1 DEF PendingWrites, CurrentWrite
  <2> QED BY <1>1, <1>2, <2>1, <2>2 DEF Service!vars
<1> QED BY <1>7, <1>8

(* A write that fails on the way to its track, or is made there: Perform.  *)
LEMMA BarPerform ==
    ASSUME TypeOK, HeadKnown, ResultKnown, WritePosition \/ Burn
    PROVE  Service!Perform \/ UNCHANGED Service!vars
<1>1. /\ Performing /\ Performing' /\ wpc # "done" /\ wpc' # "done" /\ result = None
      /\ UNCHANGED <<commands, events, nextWrite, command>>
  BY DEF WritePosition, Burn, Performing, ResultKnown, clientSide, clientVars
<1>2. UNCHANGED <<PendingWrites, Outcomes, CurrentWrite>>
  BY <1>1, BarQueued, BarReports, BarInHand
  DEF SameQueued, SameReports, SameInHand, Queued, Reports
<1>3. CurrentWrite = Accepted(command) /\ CurrentWrite # None
  <2>1. Accepted(command) \in [id : Nat, track : Track]
    BY <1>1, IdsAreNat DEF Accepted
  <2> QED BY <1>1, <2>1, NoneAssumption DEF CurrentWrite
<1>4. \/ UNCHANGED <<result, platter>>
      \/ /\ result' \in {"completed", "failed"}
         /\ \/ platter' = [platter EXCEPT ![command.request.track] = command.id]
            \/ result' = "failed" /\ UNCHANGED platter
  <2>1. CASE WritePosition BY <2>1 DEF WritePosition, driveVars
  <2>2. CASE Burn
    <3>1. head = command.request.track BY <2>2 DEF Burn, HeadKnown
    <3> QED BY <2>2, <3>1 DEF Burn
  <2> QED BY <2>1, <2>2
<1>5. CASE UNCHANGED <<result, platter>>
  BY <1>1, <1>2, <1>5 DEF Service!vars
<1>6. CASE ~UNCHANGED <<result, platter>>
  <2>1. CurrentWrite.track = command.request.track /\ CurrentWrite.id = command.id
    BY <1>3 DEF Accepted
  <2> QED BY <1>1, <1>2, <1>3, <1>4, <1>6, <2>1 DEF Service!Perform
<1> QED BY <1>5, <1>6

(* WriteCompleted or WriteFailed, sent or dropped: Report.                 *)
LEMMA BarReport ==
    ASSUME TypeOK, ResultKnown, Report
    PROVE  Service!Report
<1> DEFINE e == [kind |-> "write", id |-> command.id, ok |-> result = "completed"]
<1>1. /\ events \in Seq(Event) /\ TryEvent(e) /\ Performing /\ ~Performing'
      /\ UNCHANGED <<commands, nextWrite, platter>> /\ wpc # "done" /\ wpc' # "done"
      /\ result \in {"completed", "failed"} /\ result' = None
  BY DEF Report, TypeOK, ChannelType, Performing, ResultKnown, clientSide, clientVars, driveVars
<1>2. UNCHANGED PendingWrites BY <1>1, BarQueued DEF SameQueued, Queued
<1>3. CurrentWrite.id = command.id /\ CurrentWrite' = None /\ result # None
  BY <1>1, NoneAssumption DEF CurrentWrite, Accepted
<1>4. \/ UNCHANGED Outcomes
      \/ Outcomes' = Outcomes \cup {[id |-> command.id, ok |-> result = "completed"]}
  <2>1. CASE events' = events BY <2>1, BarReports DEF SameReports, Reports
  <2>2. CASE events' = Append(events, e)
    <3> DEFINE new == Len(events) + 1
    <3>1. /\ Reports' = Reports \cup {new} /\ events'[new] = e
          /\ \A i \in Reports : events'[i] = events[i]
      BY <1>1, <2>2, AppendIndex DEF Reports
    <3>2. [id |-> e.id, ok |-> e.ok] = [id |-> command.id, ok |-> result = "completed"]
      OBVIOUS
    <3> HIDE DEF new, e
    <3>3. Outcomes' = Outcomes \cup {[id |-> e.id, ok |-> e.ok]}
      BY <3>1 DEF Outcomes
    <3> QED BY <3>2, <3>3
  <2> QED BY <1>1, <2>1, <2>2 DEF TryEvent
<1> QED BY <1>1, <1>2, <1>3, <1>4 DEF Service!Report

(* poll_event, if what it returns is the outcome of a write: Poll.         *)
LEMMA BarPoll ==
    ASSUME TypeOK, WriteEventsInOrder, PollEvent
    PROVE  Service!Poll \/ UNCHANGED Service!vars
<1>1. /\ events \in Seq(Event) /\ events # <<>> /\ events' = Tail(events)
      /\ UNCHANGED <<commands, nextWrite, wpc, command, result, platter>>
  BY DEF PollEvent, TypeOK, ChannelType, clientVars, sharedByWorker, workerVars, driveVars
<1>2. UNCHANGED <<PendingWrites, CurrentWrite>>
  BY <1>1, BarQueued, BarInHand DEF SameQueued, SameInHand, Queued, Performing
<1>3. /\ 1 \in DOMAIN events
      /\ \A i \in DOMAIN events' : i + 1 \in DOMAIN events /\ events'[i] = events[i + 1]
      /\ \A i \in DOMAIN events' : i \in Int /\ i >= 1
      /\ \A j \in DOMAIN events \ {1} : j - 1 \in DOMAIN events' /\ events'[j - 1] = events[j]
      /\ \A j \in DOMAIN events \ {1} : 1 < j
  BY <1>1, TailIndex
<1> DEFINE Outcome(i) == [id |-> events[i].id, ok |-> events[i].ok]
<1>4. Outcomes' = {Outcome(j) : j \in Reports \ {1}}
  <2>1. \A i \in Reports' : i + 1 \in Reports \ {1} /\ events'[i] = events[i + 1]
    BY <1>3 DEF Reports
  <2>2. \A j \in Reports \ {1} : j - 1 \in Reports' /\ events'[j - 1] = events[j]
    BY <1>3 DEF Reports
  <2> QED BY <2>1, <2>2 DEF Outcomes
<1>5. Outcomes = {Outcome(j) : j \in Reports} BY DEF Outcomes
<1>6. CASE 1 \in Reports
  <2>1. \A j \in Reports \ {1} : events[1].id < events[j].id
    BY <1>3, <1>6 DEF WriteEventsInOrder, Reports
  <2>2. Outcome(1) \in Service!Oldest(Outcomes)
    BY <1>5, <1>6, <2>1, IdsAreNat DEF Service!Oldest
  <2>3. \A j \in Reports \ {1} : Outcome(j) # Outcome(1)
    <3> SUFFICES ASSUME NEW j \in Reports \ {1}, Outcome(j) = Outcome(1) PROVE FALSE
      OBVIOUS
    <3>1. events[j].id = events[1].id OBVIOUS
    <3> QED BY <1>6, <2>1, <3>1, IdsAreNat
  <2>4. Outcomes' = Outcomes \ {Outcome(1)}
    <3> HIDE DEF Outcome
    <3> QED BY <1>4, <1>5, <1>6, <2>3
  <2> QED BY <1>1, <1>2, <2>2, <2>4 DEF Service!Poll
<1>7. CASE 1 \notin Reports
  <2>1. UNCHANGED Outcomes
    <3> HIDE DEF Outcome
    <3> QED BY <1>4, <1>5, <1>7
  <2> QED BY <1>1, <1>2, <2>1 DEF Service!vars
<1> QED BY <1>6, <1>7

(* The end of the worker: Close.                                           *)
LEMMA BarStop == ASSUME Stop PROVE Service!Close
<1>1. /\ Queued' = {} /\ ~Performing /\ ~Performing' /\ wpc' = "done"
      /\ UNCHANGED <<events, nextWrite, result, platter>>
  BY DEF Stop, Queued, Performing, clientSide, clientVars, callVars, driveVars
<1>2. UNCHANGED Outcomes BY <1>1, BarReports DEF SameReports, Reports
<1>3. PendingWrites' = {} /\ UNCHANGED CurrentWrite
  BY <1>1 DEF PendingWrites, CurrentWrite
<1> QED BY <1>1, <1>2, <1>3 DEF Service!Close

LEMMA BarChange == ASSUME TypeOK, ChangeDisk PROVE Service!ChangeDisk
<1>1. /\ ~WriteStep /\ platter' = [t \in Track |-> 0]
      /\ UNCHANGED <<commands, events, nextWrite, polled, wpc, command, result>>
  BY DEF ChangeDisk, WriteStep, SubmitEnqueue, PollEvent, TakeCommand, Report, Stop, clientVars,
         workerVars, historyVars, writeHistory, driveVars, sharedByWorker
<1>2. UNCHANGED <<PendingWrites, Outcomes, CurrentWrite>>
  BY <1>1, BarQueued, BarReports, BarInHand
  DEF SameQueued, SameReports, SameInHand, Queued, Reports, Performing
<1> QED BY <1>1, <1>2 DEF Service!ChangeDisk

(* Every step of the bridge is a step of the service, or none.             *)
LEMMA BarStep ==
    ASSUME TypeOK, HeadKnown, WriteEventsInOrder, ResultKnown, [Next]_vars
    PROVE  [Service!Next]_Service!vars
<1>1. CASE SubmitEnqueue BY <1>1, BarSubmit DEF Service!Next
<1>2. CASE TakeCommand BY <1>2, BarTake DEF Service!Next
<1>3. CASE WritePosition \/ Burn BY <1>3, BarPerform DEF Service!Next
<1>4. CASE Report BY <1>4, BarReport DEF Service!Next
<1>5. CASE PollEvent BY <1>5, BarPoll DEF Service!Next
<1>6. CASE Stop BY <1>6, BarStop DEF Service!Next
<1>7. CASE ChangeDisk BY <1>7, BarChange DEF Service!Next
<1>8. CASE ~WriteStep /\ ~Performed /\ ~ChangeDisk
  <2>1. ~Stop BY <1>8 DEF WriteStep
  <2>2. Same BY <1>8, OthersSame
  <2>3. UNCHANGED <<result, platter>> /\ (wpc' = "done") = (wpc = "done")
    BY <1>8, <2>1, OthersKeep
  <2> QED BY <2>2, <2>3, BarSame
<1> QED BY <1>1, <1>2, <1>3, <1>4, <1>5, <1>6, <1>7, <1>8 DEF WriteStep, Performed

(* ServiceImplemented: with a faithful drive the bridge implements the     *)
(* write service, for every capacity of its queues: an accepted request is *)
(* performed after those accepted before it, on its own track, and its     *)
(* outcome is reported truly, in order and at most once.                   *)
THEOREM ServiceImplemented == FaithfulDrive => (Spec => WritesServed)
<1> DEFINE Inv == TypeOK /\ WriteEventsInOrder /\ ResultKnown
<1>1. Inv /\ [Next]_vars => Inv'
  BY TypeStep, OrderStep, ResultStep
<1>2. Init => Inv /\ Service!Init BY TypeInit, OrderInit, ResultInit, BarInit
<1>3. CASE FaithfulDrive
  <2>1. Spec => [](TypeOK /\ WriteInv) BY <1>3, WriteCorrect
  <2>2. Inv /\ TypeOK /\ WriteInv /\ [Next]_vars => [Service!Next]_Service!vars
    BY BarStep DEF WriteInv
  <2> QED BY <1>1, <1>2, <2>1, <2>2, PTL DEF Spec, WritesServed, Service!Spec
<1> QED BY <1>3

-----------------------------------------------------------------------------
(* Every accepted write gets its outcome from a worker that is not lost    *)
(* and finds room for it.                                                  *)
Attended == ~failed /\ (wpc = "report" => RoomForEvent)

(* An accepted write is answered, waits in the queue, or is in hand.       *)
Accounted ==
    \A n \in accepted : \/ n \in answered
                        \/ \E i \in Queued : commands[i].id = n
                        \/ Performing /\ command.id = n
Leaving == cpc \in {"join", "gone"}
(* Nothing is queued behind the Shutdown of drop, and the worker leaves    *)
(* its loop with an empty queue that will stay empty.                      *)
ShutdownLast ==
    /\ \A i \in DOMAIN commands : commands[i].op = "shutdown" => Leaving /\ i = Len(commands)
    /\ Ending => Leaving /\ commands = <<>>

LEMMA OthersAccount ==
    ASSUME TypeOK, Accounted, [Next]_vars, ~WriteStep PROVE Accounted'
<1>1. UNCHANGED <<accepted, answered>>
  <2>1. CASE Client
    BY <2>1
    DEF WriteStep, Client, SetMotor, Seek, ReadTrack, Advance, SubmitWrite, NoClickStep, Nudge,
        Lookup, StallCheck, StallTimeout, AdvanceWish, SubmitPlace, Drop, DropSend, DropJoin,
        historyVars, writeHistory
  <2>2. CASE Worker
    BY <2>2
    DEF WriteStep, Worker, Wake, PerformNoClick, WritePosition, Burn, Invalidate, TakeWishes,
        ApplyTarget, ApplyMotorSide, ApplyMotor, RefreshNotDue, Drained, RefreshQuery, RefreshClear,
        RefreshNotify, RefreshStore, CaptureSkip, CapturePosition, ReadOk, ReadFails, Withdraw,
        InsertCapture, ExitMotorOff, clientSide
  <2>3. CASE Progress \/ ChangeDisk \/ UNCHANGED vars
    BY <2>3 DEF Progress, ChangeDisk, vars, clientSide, historyVars, writeHistory
  <2> QED BY <2>1, <2>2, <2>3 DEF Next, Finished
<1> QED BY <1>1, OthersSame DEF Accounted, Same, SameQueued, SameInHand

(* submit_write: an identifier is given out only with its command queued.  *)
LEMMA SubmitAccount ==
    ASSUME TypeOK, Accounted, SubmitEnqueue PROVE Accounted'
<1> DEFINE c == [op |-> "write", id |-> nextWrite, request |-> call]
<1>1. /\ commands \in Seq(Command) /\ TrySend(c) /\ UNCHANGED <<wpc, command, answered>>
      /\ accepted' = IF CanSend THEN accepted \cup {nextWrite} ELSE accepted
  BY DEF SubmitEnqueue, TypeOK, ChannelType, sharedByWorker, workerVars
<1>2. CASE ~CanSend
  <2>1. UNCHANGED <<commands, accepted>> BY <1>1, <1>2 DEF TrySend
  <2> QED BY <1>1, <2>1 DEF Accounted, Queued, Performing
<1>3. CASE CanSend
  <2>1. commands' = Append(commands, c) /\ c.op = "write" /\ c.id = nextWrite
    BY <1>1, <1>3 DEF TrySend
  <2>2. /\ \A i \in Queued : i \in Queued' /\ commands'[i] = commands[i]
        /\ \E i \in Queued' : commands'[i].id = nextWrite
    BY <1>1, <2>1, AppendIndex DEF Queued
  <2> QED BY <1>1, <1>3, <2>2 DEF Accounted, Performing
<1> QED BY <1>2, <1>3

(* process: the command taken off the queue is the one in hand.            *)
LEMMA TakeAccount ==
    ASSUME TypeOK, Accounted, TakeCommand PROVE Accounted'
<1>1. /\ commands \in Seq(Command) /\ commands # <<>> /\ commands' = Tail(commands)
      /\ ~Performing /\ UNCHANGED <<accepted, answered>>
      /\ command' = IF Head(commands).op = "shutdown" THEN None ELSE Head(commands)
      /\ wpc' = IF Head(commands).op = "shutdown" THEN "exit" ELSE Head(commands).op
  BY DEF TakeCommand, NextCommand, TypeOK, ChannelType, Performing, clientSide
<1>2. /\ Head(commands) = commands[1] /\ 1 \in DOMAIN commands
      /\ \A j \in DOMAIN commands \ {1} :
           j - 1 \in DOMAIN commands' /\ commands'[j - 1] = commands[j]
  BY <1>1, TailIndex
<1>3. ASSUME NEW j \in Queued
      PROVE  \/ \E i \in Queued' : commands'[i].id = commands[j].id
             \/ Performing' /\ command'.id = commands[j].id
  <2>1. CASE j = 1 BY <1>1, <1>2, <1>3, <2>1 DEF Queued, Performing
  <2>2. CASE j # 1 BY <1>2, <1>3, <2>2 DEF Queued
  <2> QED BY <2>1, <2>2
<1>4. \A n \in accepted : n \in answered \/ \E j \in Queued : commands[j].id = n
  BY <1>1 DEF Accounted
<1>5. ASSUME NEW n \in accepted'
      PROVE  \/ n \in answered'
             \/ \E i \in Queued' : commands'[i].id = n
             \/ Performing' /\ command'.id = n
  <2>1. accepted' = accepted /\ answered' = answered BY <1>1
  <2>2. CASE n \in answered BY <2>1, <2>2
  <2>3. CASE n \notin answered
    <3>1. PICK j \in Queued : commands[j].id = n BY <1>4, <1>5, <2>1, <2>3
    <3> QED BY ONLY <3>1, <1>3
  <2> QED BY <2>2, <2>3
<1> QED BY <1>5 DEF Accounted

(* perform_write: the event goes out before the next command is taken.     *)
LEMMA ReportAccount ==
    ASSUME Attended, Accounted, Report PROVE Accounted'
<1>1. /\ answered' = answered \cup {command.id} /\ UNCHANGED <<accepted, commands>>
      /\ Performing /\ ~Performing'
  BY DEF Attended, Report, Performing, clientSide
<1> QED BY <1>1 DEF Accounted, Queued

(* What is lost with the queue at the end of run is nothing.               *)
LEMMA StopAccount ==
    ASSUME ShutdownLast, Accounted, Stop PROVE Accounted'
<1>1. /\ Queued = {} /\ ~Performing /\ UNCHANGED <<accepted, answered>>
  BY DEF ShutdownLast, Ending, Stop, Queued, Performing, clientSide
<1> QED BY <1>1 DEF Accounted

LEMMA AccountStep ==
    TypeOK /\ Attended /\ ShutdownLast /\ Accounted /\ [Next]_vars => Accounted'
<1>1. ASSUME Accounted, PollEvent PROVE Accounted'
  BY <1>1 DEF PollEvent, Accounted, Queued, Performing, sharedByWorker, workerVars
<1> QED BY <1>1, OthersAccount, SubmitAccount, TakeAccount, ReportAccount, StopAccount
        DEF WriteStep

(* The last command of a handle is its Shutdown.                           *)
LEMMA LastClient ==
    ASSUME TypeOK, ShutdownLast, Client PROVE ShutdownLast'
<1>1. commands \in Seq(Command) /\ UNCHANGED wpc
  BY DEF TypeOK, ChannelType, Client, SetMotor, Seek, ReadTrack, Advance, SubmitWrite, NoClickStep,
         Nudge, Lookup, StallCheck, StallTimeout, AdvanceWish, SubmitPlace, SubmitEnqueue,
         PollEvent, Drop, DropSend, DropJoin, sharedByWorker, workerVars
<1>2. CASE UNCHANGED commands
  <2>1. Leaving => Leaving'
    BY DEF Leaving, Client, SetMotor, Seek, ReadTrack, Advance, SubmitWrite, NoClickStep, Nudge,
           Lookup, StallCheck, StallTimeout, AdvanceWish, SubmitPlace, SubmitEnqueue, PollEvent,
           Drop, DropSend, DropJoin, clientVars
  <2> QED BY <1>1, <1>2, <2>1 DEF ShutdownLast, Ending
<1>3. ASSUME NEW c, commands' = Append(commands, c), ~Leaving,
             c.op = "shutdown" => Leaving'
      PROVE  ShutdownLast'
  <2>1. ~Ending' BY <1>1, <1>3 DEF ShutdownLast, Ending
  <2>2. \A i \in DOMAIN commands : commands[i].op # "shutdown" BY <1>3 DEF ShutdownLast
  <2>3. Len(commands') = Len(commands) + 1 BY <1>1, <1>3
  <2>4. \A i \in DOMAIN commands' : commands'[i].op = "shutdown" => Leaving' /\ i = Len(commands')
    BY <1>1, <1>3, <2>2, <2>3, AppendIndex
  <2> QED BY <2>1, <2>4 DEF ShutdownLast
<1>4. \/ UNCHANGED commands
      \/ \E c : commands' = Append(commands, c) /\ ~Leaving /\ (c.op = "shutdown" => Leaving')
  <2>1. CASE SubmitEnqueue
    <3>1. [op |-> "write", id |-> nextWrite, request |-> call].op # "shutdown" OBVIOUS
    <3> QED BY <2>1, <3>1 DEF SubmitEnqueue, TrySend, Leaving
  <2>2. CASE \E side \in Sides : NoClickStep(side)
    <3>1. \A side : [op |-> "noclick", side |-> side].op # "shutdown" OBVIOUS
    <3> QED BY <2>2, <3>1 DEF NoClickStep, TrySend, Leaving
  <2>3. CASE DropSend BY <2>3 DEF DropSend, TrySend, Leaving
  <2>4. CASE ~SubmitEnqueue /\ ~(\E side \in Sides : NoClickStep(side)) /\ ~DropSend
    BY <2>4
    DEF Client, SetMotor, Seek, ReadTrack, Advance, SubmitWrite, Nudge, Lookup, StallCheck,
        StallTimeout, AdvanceWish, SubmitPlace, PollEvent, Drop, DropJoin
  <2> QED BY <2>1, <2>2, <2>3, <2>4
<1> QED BY <1>2, <1>3, <1>4

(* A worker whose link is not lost leaves its loop at the Shutdown only.   *)
LEMMA LastWorker ==
    ASSUME TypeOK, ~failed', ShutdownLast, Worker PROVE ShutdownLast'
<1>1. UNCHANGED cpc BY DEF Worker, TakeCommand, Wake, PerformNoClick, WritePosition, Burn,
        Invalidate, Report, TakeWishes, ApplyTarget, ApplyMotorSide, ApplyMotor, RefreshNotDue, Drained,
        RefreshQuery, RefreshClear, RefreshNotify, RefreshStore, CaptureSkip, CapturePosition,
        ReadOk, ReadFails, Withdraw, InsertCapture, ExitMotorOff, Stop, clientSide, clientVars
<1>2. CASE TakeCommand
  <2>1. /\ commands \in Seq(Command) /\ commands # <<>> /\ commands' = Tail(commands)
        /\ wpc' = IF Head(commands).op = "shutdown" THEN "exit" ELSE Head(commands).op
    BY <1>2 DEF TakeCommand, NextCommand, TypeOK, ChannelType
  <2>2. PICK n \in Nat : n = Len(commands) /\ DOMAIN commands = 1..n BY <2>1
  <2>3. /\ Head(commands) = commands[1] /\ 1 \in DOMAIN commands
        /\ Len(commands') = n - 1 /\ DOMAIN commands' = 1..(n - 1) /\ commands' \in Seq(Command)
        /\ \A i \in DOMAIN commands' : i + 1 \in DOMAIN commands /\ commands'[i] = commands[i + 1]
    BY <2>1, <2>2, TailIndex, HeadTailProperties
  <2>4. \A i \in DOMAIN commands' : commands'[i].op = "shutdown" => Leaving' /\ i = Len(commands')
    <3> SUFFICES ASSUME NEW i \in DOMAIN commands', commands'[i].op = "shutdown"
                 PROVE  Leaving' /\ i = Len(commands')
      OBVIOUS
    <3>1. Leaving /\ i + 1 = n BY <2>2, <2>3 DEF ShutdownLast
    <3>2. i \in Int BY <2>3
    <3>3. i = n - 1 BY ONLY <2>2, <3>1, <3>2
    <3> QED BY <1>1, <2>3, <3>1, <3>3 DEF Leaving
  <2>5. Ending' => Leaving' /\ commands' = <<>>
    <3> SUFFICES ASSUME Ending' PROVE Leaving' /\ commands' = <<>>
      OBVIOUS
    <3>1. Head(commands) \in Command BY <2>1, <2>3
    <3>2. commands[1].op = "shutdown"
      BY <2>1, <2>3, <3>1 DEF Ending, Command, WriteCommand, NoClickCommand
    <3>3. Leaving /\ 1 = n BY <2>2, <2>3, <3>2 DEF ShutdownLast
    <3>4. Len(commands') = 0 BY <2>3, <3>3
    <3>5. commands' = <<>> BY <2>3, <3>4, EmptySeq
    <3> QED BY <1>1, <3>3, <3>5 DEF Leaving
  <2> QED BY <2>4, <2>5 DEF ShutdownLast
<1>3. CASE ExitMotorOff \/ Stop
  <2>1. Ending /\ (UNCHANGED commands \/ commands' = <<>>)
    BY <1>3 DEF ExitMotorOff, Stop, Ending
  <2>2. Leaving /\ commands' = <<>> BY <2>1 DEF ShutdownLast
  <2> QED BY <1>1, <2>2 DEF ShutdownLast, Leaving
<1>4. CASE Worker /\ ~TakeCommand /\ ~ExitMotorOff /\ ~Stop
  <2>1. UNCHANGED commands /\ ~Ending'
    BY <1>4 DEF Worker, Wake, PerformNoClick, WritePosition, Burn, Invalidate, Report, TakeWishes,
                ApplyTarget, ApplyMotorSide, ApplyMotor, RefreshNotDue, Drained, RefreshQuery, RefreshClear,
                RefreshNotify, RefreshStore, CaptureSkip, CapturePosition, ReadOk, ReadFails,
                Withdraw, InsertCapture, Ending, GoTo, AfterMove
  <2> QED BY <1>1, <2>1 DEF ShutdownLast, Leaving
<1> QED BY <1>2, <1>3, <1>4

LEMMA LastStep ==
    TypeOK /\ Attended' /\ ShutdownLast /\ [Next]_vars => ShutdownLast'
<1>1. ASSUME ShutdownLast, Progress \/ ChangeDisk \/ UNCHANGED vars PROVE ShutdownLast'
  <2>1. UNCHANGED <<cpc, commands, wpc>>
    BY <1>1 DEF Progress, ChangeDisk, vars, clientSide, clientVars, workerVars
  <2> QED BY <1>1, <2>1 DEF ShutdownLast, Leaving, Ending
<1> QED BY <1>1, LastClient, LastWorker DEF Next, Finished, Attended

(* AllWritesAnsweredHolds: AllWritesAnswered, whatever else the client     *)
(* asks, for every capacity of the command queue and also when the handle  *)
(* is dropped over queued writes.  Its hypotheses are of the behaviour:    *)
(* the worker never gives the link up, and at each outcome it reports the  *)
(* event channel has room.                                                 *)
THEOREM AllWritesAnsweredHolds == Spec /\ []Attended => []AllWritesAnswered
<1> DEFINE Inv == TypeOK /\ ShutdownLast /\ Accounted
<1>1. Init => Inv
  BY TypeInit DEF Init, ShutdownLast, Accounted, Ending
<1>2. Inv /\ Attended /\ Attended' /\ [Next]_vars => Inv'
  BY TypeStep, LastStep, AccountStep
<1>3. Inv => AllWritesAnswered
  BY DEF ShutdownLast, Accounted, AllWritesAnswered, Ending, Queued, Performing
<1> QED BY <1>1, <1>2, <1>3, PTL DEF Spec
=============================================================================
