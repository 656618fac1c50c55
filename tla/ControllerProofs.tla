--------------------------- MODULE ControllerProofs ---------------------------
(***************************************************************************)
(* Theorems about the bridge controller, for every number of cylinders,    *)
(* every queue capacity and limit, every set of requests, disks and        *)
(* errors: types; how the worker is woken, how it fails and how it ends,   *)
(* with what the client may believe once it has given up; and the capture  *)
(* cache, under CacheInv of Controller.                                    *)
(***************************************************************************)
EXTENDS Controller, SequenceTheorems, FiniteSetTheorems, TLAPS

-----------------------------------------------------------------------------
(* Operators.                                                              *)

(* A clamped track is one of the mechanism's tracks (clamp_track).         *)
LEMMA ClampInTrack ==
    ASSUME NEW t \in [cyl : Nat, side : Sides]
    PROVE  ClampTrack(t) \in Track
BY ConstantsAssumption DEF ClampTrack, Track, LastCylinder

(* TrackAddress::default is one of the mechanism's tracks.                 *)
LEMMA DefaultInTrack == DefaultTrack \in Track
BY ConstantsAssumption DEF DefaultTrack, Track, LastCylinder, Sides

(* What Worker pushes to is a deque of captures again.                     *)
LEMMA PushType ==
    ASSUME NEW deque \in Seq(Capture), NEW c \in Capture
    PROVE  Push(deque, c) \in Seq(Capture)
BY ConstantsAssumption DEF Push

(* events.try_send keeps the event channel well typed.                     *)
LEMMA EventType ==
    ASSUME events \in Seq(Event), NEW e \in Event, TryEvent(e)
    PROVE  events' \in Seq(Event)
BY DEF TryEvent

(* note_error, whether it disconnects or not, keeps what it touches well   *)
(* typed.                                                                  *)
LEMMA NoteErrorType ==
    ASSUME StatusType, ChannelType, ErrorType, NEW k, NoteError(k)
    PROVE  StatusType' /\ events' \in Seq(Event) /\ failed' \in BOOLEAN /\ errors' \in Nat
<1>1. [kind |-> "disconnected"] \in Event BY DEF Event
<1>2. errors' \in Nat BY DEF NoteError, ErrorType
<1>3. CASE UNCHANGED <<failed, status, events>>
  BY <1>2, <1>3 DEF ErrorType, StatusType, ChannelType
<1>4. CASE ~ UNCHANGED <<failed, status, events>>
  <2>1. /\ failed' = TRUE /\ status' = [status EXCEPT !.working = FALSE]
        /\ TryEvent([kind |-> "disconnected"])
    BY <1>4 DEF NoteError
  <2>2. StatusType' BY <2>1 DEF StatusType, Status
  <2>3. events' \in Seq(Event) BY <2>1, <1>1, EventType DEF ChannelType
  <2> QED BY <1>2, <2>1, <2>2, <2>3
<1> QED BY <1>3, <1>4

(* A successful Worker::position leaves head and record on the track.      *)
LEMMA PositionOkType ==
    ASSUME PositionType, StatusType, NEW t \in Track, PositionOk(t)
    PROVE  PositionType' /\ StatusType'
<1>1. head' \in Track BY DEF PositionOk, PositionType, Track
<1>2. StatusType' BY DEF PositionOk, StatusType, Status
<1> QED BY <1>1, <1>2 DEF PositionOk, PositionType

(* A failed Worker::position leaves them on tracks of the mechanism.       *)
LEMMA PositionFailsType ==
    ASSUME PositionType, NEW t \in Track, PositionFails(t)
    PROVE  PositionType'
<1>1. t.cyl \in 0..LastCylinder /\ t.side \in Sides BY DEF Track
<1>2. \A h \in Track : /\ [h EXCEPT !.cyl = t.cyl] \in Track
                       /\ [h EXCEPT !.side = t.side] \in Track
  BY <1>1 DEF Track
<1>3. head' \in Track BY <1>2 DEF PositionFails, PositionType
<1>4. physical' \in Track BY <1>2 DEF PositionFails, PositionType
<1> QED BY <1>3, <1>4 DEF PositionFails, PositionType

(* A part of TypeOK lasts while its variables do.                          *)
LEMMA Frames ==
    ASSUME TypeOK
    PROVE  /\ UNCHANGED <<cpc, call, nextWrite>> => ClientType'
           /\ UNCHANGED <<desired, nudge>> => WishType'
           /\ UNCHANGED <<commands, events>> => ChannelType'
           /\ UNCHANGED <<status>> => StatusType'
           /\ UNCHANGED <<captures, keys, partial>> => CacheType'
           /\ UNCHANGED <<target, wanted, wpc>> => IntentType'
           /\ UNCHANGED <<head, physical, positioned>> => PositionType'
           /\ UNCHANGED <<failed, errors, generation>> => ErrorType'
           /\ UNCHANGED <<wpc, wish, command, snapshot, reading>> => CallType'
           /\ UNCHANGED <<spindle, motorRunning, disk, serial, platter>> => DriveType'
           /\ UNCHANGED <<seen, retired, motorWish, accepted, answered, polled>> => HistoryType'
<1>1. UNCHANGED <<cpc, call, nextWrite>> => ClientType' BY DEF TypeOK, ClientType
<1>2. UNCHANGED <<desired, nudge>> => WishType' BY DEF TypeOK, WishType
<1>3. UNCHANGED <<commands, events>> => ChannelType' BY DEF TypeOK, ChannelType
<1>4. UNCHANGED <<status>> => StatusType' BY DEF TypeOK, StatusType
<1>5. UNCHANGED <<captures, keys, partial>> => CacheType' BY DEF TypeOK, CacheType
<1>6. UNCHANGED <<target, wanted, wpc>> => IntentType' BY DEF TypeOK, IntentType
<1>7. UNCHANGED <<head, physical, positioned>> => PositionType' BY DEF TypeOK, PositionType
<1>8. UNCHANGED <<failed, errors, generation>> => ErrorType' BY DEF TypeOK, ErrorType
<1>9. UNCHANGED <<wpc, wish, command, snapshot, reading>> => CallType' BY DEF TypeOK, CallType
<1>10. UNCHANGED <<spindle, motorRunning, disk, serial, platter>> => DriveType' BY DEF TypeOK, DriveType
<1>11. UNCHANGED <<seen, retired, motorWish, accepted, answered, polled>> => HistoryType' BY DEF TypeOK, HistoryType
<1> QED BY <1>1, <1>2, <1>3, <1>4, <1>5, <1>6, <1>7, <1>8, <1>9, <1>10, <1>11

-----------------------------------------------------------------------------
(* Bridge::from_device and Worker::new start with values of their types.   *)
LEMMA TypeInit == Init => TypeOK
<1> SUFFICES ASSUME Init PROVE TypeOK
  OBVIOUS
<1> USE DEF Init
<1>1. ClientType BY DefaultInTrack, ConstantsAssumption DEF ClientType, ClientPc
<1>2. WishType BY DefaultInTrack, ConstantsAssumption DEF WishType, NoWish
<1>3. ChannelType BY DefaultInTrack, ConstantsAssumption DEF ChannelType
<1>4. StatusType BY DefaultInTrack, ConstantsAssumption DEF StatusType, Status, Disk
<1>5. CacheType BY DefaultInTrack, ConstantsAssumption DEF CacheType
<1>6. IntentType BY DefaultInTrack, ConstantsAssumption DEF IntentType
<1>7. PositionType BY DefaultInTrack, ConstantsAssumption DEF PositionType
<1>8. ErrorType BY DefaultInTrack, ConstantsAssumption DEF ErrorType
<1>9. CallType BY DefaultInTrack, ConstantsAssumption DEF CallType, WorkerPc
<1>10. DriveType BY DefaultInTrack, ConstantsAssumption DEF DriveType, Disk
<1>11. HistoryType BY DefaultInTrack, ConstantsAssumption DEF HistoryType
<1> QED BY <1>1, <1>2, <1>3, <1>4, <1>5, <1>6, <1>7, <1>8, <1>9, <1>10, <1>11 DEF TypeOK

(* So does every step of a Bridge method.                                  *)
LEMMA TypeClient ==
    ASSUME TypeOK, Client PROVE TypeOK'
<1> USE ConstantsAssumption DEF TypeOK, clientVars, wishVars, cacheVars, positionVars, errorVars, intentVars, callVars, driveVars,
       readHistory, writeHistory, historyVars, workerVars, sharedByWorker, clientSide
<1>1. ASSUME NEW m \in MotorWishes, SetMotor(m) PROVE TypeOK'
  <2>1. ClientType' BY <1>1 DEF SetMotor, ClientType, ClientPc
  <2>2. WishType' BY <1>1, ConstantsAssumption DEF SetMotor, WishType, Motor
  <2>3. HistoryType' BY <1>1, ConstantsAssumption DEF SetMotor, HistoryType
  <2>4. (ChannelType /\ StatusType /\ CacheType /\ IntentType /\ PositionType /\ ErrorType /\
       CallType /\ DriveType)' BY <1>1, Frames DEF SetMotor
  <2> QED BY <2>1, <2>2, <2>3, <2>4
<1>2. ASSUME NEW t \in ClientTracks, Seek(t) PROVE TypeOK'
  <2>1. ClientType' BY <1>2 DEF Seek, ClientType, ClientPc
  <2>2. WishType' BY <1>2, ClampInTrack DEF Seek, WishType
  <2>3. (ChannelType /\ StatusType /\ CacheType /\ IntentType /\ PositionType /\ ErrorType /\
       CallType /\ DriveType /\ HistoryType)' BY <1>2, Frames DEF Seek
  <2> QED BY <2>1, <2>2, <2>3
<1>3. ASSUME NEW t \in ClientTracks, ReadTrack(t) PROVE TypeOK'
  <2>1. ClientType' BY <1>3, ClampInTrack DEF ReadTrack, ClientType, ClientPc
  <2>2. WishType' BY <1>3, ClampInTrack DEF ReadTrack, WishType, Demand
  <2>3. (ChannelType /\ StatusType /\ CacheType /\ IntentType /\ PositionType /\ ErrorType /\
       CallType /\ DriveType /\ HistoryType)' BY <1>3, Frames DEF ReadTrack
  <2> QED BY <2>1, <2>2, <2>3
<1>4. ASSUME NEW t \in ClientTracks, Advance(t) PROVE TypeOK'
  <2>1. ClientType' BY <1>4, ClampInTrack DEF Advance, ClientType, ClientPc
  <2>2. CacheType' BY <1>4, ClampInTrack DEF Advance, CacheType
  <2>3. HistoryType' BY <1>4, ClampInTrack DEF Advance, HistoryType
  <2>4. (WishType /\ ChannelType /\ StatusType /\ IntentType /\ PositionType /\ ErrorType /\
       CallType /\ DriveType)' BY <1>4, Frames DEF Advance
  <2> QED BY <2>1, <2>2, <2>3, <2>4
<1>5. ASSUME NEW r \in WriteRequests, SubmitWrite(r) PROVE TypeOK'
  <2>1. ClientType' BY <1>5, ConstantsAssumption, ClampInTrack DEF SubmitWrite, ClientType,
       ClientPc, Request, PlacedRequest
  <2>2. (WishType /\ ChannelType /\ StatusType /\ CacheType /\ IntentType /\ PositionType /\
       ErrorType /\ CallType /\ DriveType /\ HistoryType)' BY <1>5, Frames DEF SubmitWrite
  <2> QED BY <2>1, <2>2
<1>6. ASSUME NEW side \in Sides, NoClickStep(side) PROVE TypeOK'
  <2>1. ChannelType' BY <1>6 DEF NoClickStep, ChannelType, TrySend, Command, NoClickCommand
  <2>2. (ClientType /\ WishType /\ StatusType /\ CacheType /\ IntentType /\ PositionType /\
       ErrorType /\ CallType /\ DriveType /\ HistoryType)' BY <1>6, Frames DEF NoClickStep
  <2> QED BY <2>1, <2>2
<1>7. ASSUME Nudge PROVE TypeOK'
  <2>1. ClientType' BY <1>7 DEF Nudge, ClientType, ClientPc
  <2>2. WishType' BY <1>7 DEF Nudge, WishType
  <2>3. (ChannelType /\ StatusType /\ CacheType /\ IntentType /\ PositionType /\ ErrorType /\
       CallType /\ DriveType /\ HistoryType)' BY <1>7, Frames DEF Nudge
  <2> QED BY <2>1, <2>2, <2>3
<1>8. ASSUME Lookup PROVE TypeOK'
  <2>1. ClientType' BY <1>8 DEF Lookup, ClientType, ClientPc
  <2>2. captures[call] # <<>> => captures[call][1].gen \in Nat
    <3>1. call \in Track BY <1>8 DEF Lookup, ClientType
    <3>2. captures[call] \in Seq(Capture) BY <3>1 DEF CacheType
    <3>3. captures[call] # <<>> => captures[call][1] \in Capture BY <3>2
    <3> QED BY <3>3 DEF Capture
  <2>4. HistoryType' BY <1>8, <2>2 DEF Lookup, HistoryType
  <2>3. (WishType /\ ChannelType /\ StatusType /\ CacheType /\ IntentType /\ PositionType /\
       ErrorType /\ CallType /\ DriveType)' BY <1>8, Frames DEF Lookup
  <2> QED BY <2>1, <2>3, <2>4
<1>9. ASSUME StallCheck PROVE TypeOK'
  <2>1. ClientType' BY <1>9 DEF StallCheck, ClientType, ClientPc
  <2>2. (WishType /\ ChannelType /\ StatusType /\ CacheType /\ IntentType /\ PositionType /\
       ErrorType /\ CallType /\ DriveType /\ HistoryType)' BY <1>9, Frames DEF StallCheck
  <2> QED BY <2>1, <2>2
<1>10. ASSUME StallTimeout PROVE TypeOK'
  <2>1. ClientType' BY <1>10 DEF StallTimeout, ClientType, ClientPc
  <2>2. (WishType /\ ChannelType /\ StatusType /\ CacheType /\ IntentType /\ PositionType /\
       ErrorType /\ CallType /\ DriveType /\ HistoryType)' BY <1>10, Frames DEF StallTimeout
  <2> QED BY <2>1, <2>2
<1>11. ASSUME AdvanceWish PROVE TypeOK'
  <2>1. ClientType' BY <1>11 DEF AdvanceWish, ClientType, ClientPc
  <2>2. WishType' BY <1>11 DEF AdvanceWish, WishType, Demand, ClientType
  <2>3. (ChannelType /\ StatusType /\ CacheType /\ IntentType /\ PositionType /\ ErrorType /\
       CallType /\ DriveType /\ HistoryType)' BY <1>11, Frames DEF AdvanceWish
  <2> QED BY <2>1, <2>2, <2>3
<1>12. ASSUME SubmitPlace PROVE TypeOK'
  <2>1. ClientType' BY <1>12 DEF SubmitPlace, ClientType, ClientPc
  <2>2. (WishType /\ ChannelType /\ StatusType /\ CacheType /\ IntentType /\ PositionType /\
       ErrorType /\ CallType /\ DriveType /\ HistoryType)' BY <1>12, Frames DEF SubmitPlace
  <2> QED BY <2>1, <2>2
<1>13. ASSUME SubmitEnqueue PROVE TypeOK'
  <2>1. ClientType' BY <1>13 DEF SubmitEnqueue, ClientType, ClientPc
  <2>2. ChannelType' BY <1>13 DEF SubmitEnqueue, ChannelType, TrySend, Command, WriteCommand,
       ClientType
  <2>3. HistoryType' BY <1>13 DEF SubmitEnqueue, HistoryType, ClientType
  <2>4. (WishType /\ StatusType /\ CacheType /\ IntentType /\ PositionType /\ ErrorType /\
       CallType /\ DriveType)' BY <1>13, Frames DEF SubmitEnqueue
  <2> QED BY <2>1, <2>2, <2>3, <2>4
<1>14. ASSUME PollEvent PROVE TypeOK'
  <2>1. ChannelType' BY <1>14 DEF PollEvent, ChannelType
  <2>2. Head(events).kind = "write" => Head(events).id \in Nat
    <3>1. Head(events) \in Event BY <1>14 DEF PollEvent, ChannelType
    <3> QED BY <3>1 DEF Event
  <2>4. HistoryType' BY <1>14, <2>2 DEF PollEvent, HistoryType
  <2>3. (ClientType /\ WishType /\ StatusType /\ CacheType /\ IntentType /\ PositionType /\
       ErrorType /\ CallType /\ DriveType)' BY <1>14, Frames DEF PollEvent
  <2> QED BY <2>1, <2>3, <2>4
<1>15. ASSUME Drop PROVE TypeOK'
  <2>1. ClientType' BY <1>15 DEF Drop, ClientType, ClientPc
  <2>2. (WishType /\ ChannelType /\ StatusType /\ CacheType /\ IntentType /\ PositionType /\
       ErrorType /\ CallType /\ DriveType /\ HistoryType)' BY <1>15, Frames DEF Drop
  <2> QED BY <2>1, <2>2
<1>16. ASSUME DropSend PROVE TypeOK'
  <2>1. ClientType' BY <1>16 DEF DropSend, ClientType, ClientPc
  <2>2. ChannelType' BY <1>16 DEF DropSend, ChannelType, TrySend, Command
  <2>3. (WishType /\ StatusType /\ CacheType /\ IntentType /\ PositionType /\ ErrorType /\
       CallType /\ DriveType /\ HistoryType)' BY <1>16, Frames DEF DropSend
  <2> QED BY <2>1, <2>2, <2>3
<1>17. ASSUME DropJoin PROVE TypeOK'
  <2>1. ClientType' BY <1>17 DEF DropJoin, ClientType, ClientPc
  <2>2. (WishType /\ ChannelType /\ StatusType /\ CacheType /\ IntentType /\ PositionType /\
       ErrorType /\ CallType /\ DriveType /\ HistoryType)' BY <1>17, Frames DEF DropJoin
  <2> QED BY <2>1, <2>2
<1> QED BY <1>1, <1>2, <1>3, <1>4, <1>5, <1>6, <1>7, <1>8, <1>9, <1>10, <1>11, <1>12, <1>13,
     <1>14, <1>15, <1>16, <1>17 DEF Client

(* So does every step of Worker::run, whatever the device answers.         *)
LEMMA TypeWorker ==
    ASSUME TypeOK, Worker \/ Progress PROVE TypeOK'
<1> USE ConstantsAssumption DEF TypeOK, clientVars, wishVars, cacheVars, positionVars, errorVars, intentVars, callVars, driveVars,
       readHistory, writeHistory, historyVars, workerVars, sharedByWorker, clientSide
<1>1. ASSUME TakeCommand PROVE TypeOK'
  <2>1. ChannelType' BY <1>1 DEF TakeCommand, ChannelType, NextCommand
  <2>2. IntentType' BY <1>1 DEF TakeCommand, IntentType, NextCommand, ChannelType, Command,
       WriteCommand, NoClickCommand
  <2>3. CallType' BY <1>1 DEF TakeCommand, CallType, NextCommand, ChannelType, Command,
       WriteCommand, NoClickCommand, WorkerPc
  <2>4. (ClientType /\ WishType /\ StatusType /\ CacheType /\ PositionType /\ ErrorType /\
       DriveType /\ HistoryType)' BY <1>1, Frames DEF TakeCommand
  <2> QED BY <2>1, <2>2, <2>3, <2>4
<1>2. ASSUME Wake PROVE TypeOK'
  <2>1. WishType' BY <1>2 DEF Wake, WishType
  <2>2. IntentType' BY <1>2 DEF Wake, IntentType
  <2>3. CallType' BY <1>2 DEF Wake, CallType, WorkerPc
  <2>4. (ClientType /\ ChannelType /\ StatusType /\ CacheType /\ PositionType /\ ErrorType /\
       DriveType /\ HistoryType)' BY <1>2, Frames DEF Wake
  <2> QED BY <2>1, <2>2, <2>3, <2>4
<1>3. ASSUME PerformNoClick PROVE TypeOK'
  <2>1. (ChannelType /\ StatusType /\ ErrorType)' BY <1>3, NoteErrorType DEF PerformNoClick,
       ChannelType, StatusType, ErrorType
  <2>2. IntentType' BY <1>3 DEF PerformNoClick, IntentType, GoTo
  <2>3. CallType' BY <1>3 DEF PerformNoClick, CallType, GoTo, WorkerPc
  <2>4. PositionType' BY <1>3 DEF PerformNoClick, PositionType, CallType, NoClickCommand, Track
  <2>5. (ClientType /\ WishType /\ CacheType /\ DriveType /\ HistoryType)' BY <1>3, Frames DEF
       PerformNoClick
  <2> QED BY <2>1, <2>2, <2>3, <2>4, <2>5
<1>4. ASSUME WritePosition PROVE TypeOK'
  <2>1. command.request.track \in Track BY <1>4 DEF WritePosition, CallType, WriteCommand, PlacedRequest
  <2>2. (PositionType /\ StatusType)' BY <1>4, PositionOkType, PositionFailsType, <2>1 DEF
       WritePosition, PositionType, StatusType
  <2>3. IntentType' BY <1>4 DEF WritePosition, IntentType
  <2>4. CallType' BY <1>4 DEF WritePosition, CallType, WorkerPc
  <2>5. (ClientType /\ WishType /\ ChannelType /\ CacheType /\ ErrorType /\ DriveType /\
       HistoryType)' BY <1>4, Frames DEF WritePosition
  <2> QED BY <2>2, <2>3, <2>4, <2>5
<1>5. ASSUME Burn PROVE TypeOK'
  <2>1. IntentType' BY <1>5 DEF Burn, IntentType
  <2>2. CallType' BY <1>5 DEF Burn, CallType, WorkerPc
  <2>3. DriveType' BY <1>5 DEF Burn, DriveType, CallType, WriteCommand, PositionType
  <2>4. (ClientType /\ WishType /\ ChannelType /\ StatusType /\ CacheType /\ PositionType /\
       ErrorType /\ HistoryType)' BY <1>5, Frames DEF Burn
  <2> QED BY <2>1, <2>2, <2>3, <2>4
<1>6. ASSUME Invalidate PROVE TypeOK'
  <2>1. CacheType' BY <1>6 DEF Invalidate, CacheType, CallType, WriteCommand, PlacedRequest
  <2>2. IntentType' BY <1>6 DEF Invalidate, IntentType
  <2>3. CallType' BY <1>6 DEF Invalidate, CallType, WorkerPc
  <2>4. (ClientType /\ WishType /\ ChannelType /\ StatusType /\ PositionType /\ ErrorType /\
       DriveType /\ HistoryType)' BY <1>6, Frames DEF Invalidate
  <2> QED BY <2>1, <2>2, <2>3, <2>4
<1>7. ASSUME Report PROVE TypeOK'
  <2>1. ChannelType' BY <1>7, EventType DEF Report, ChannelType, CallType, WriteCommand, Event
  <2>2. IntentType' BY <1>7 DEF Report, IntentType
  <2>3. CallType' BY <1>7 DEF Report, CallType, WorkerPc
  <2>4. HistoryType' BY <1>7 DEF Report, HistoryType, CallType, WriteCommand
  <2>5. (ClientType /\ WishType /\ StatusType /\ CacheType /\ PositionType /\ ErrorType /\
       DriveType)' BY <1>7, Frames DEF Report
  <2> QED BY <2>1, <2>2, <2>3, <2>4, <2>5
<1>8. ASSUME TakeWishes PROVE TypeOK'
  <2>1. WishType' BY <1>8 DEF TakeWishes, WishType, NoWish
  <2>2. IntentType' BY <1>8 DEF TakeWishes, IntentType, WishType
  <2>3. CallType' BY <1>8 DEF TakeWishes, CallType, WishType, WorkerPc
  <2>4. (ClientType /\ ChannelType /\ StatusType /\ CacheType /\ PositionType /\ ErrorType /\
       DriveType /\ HistoryType)' BY <1>8, Frames DEF TakeWishes
  <2> QED BY <2>1, <2>2, <2>3, <2>4
<1>9. ASSUME ApplyTarget PROVE TypeOK'
  <2>1. target \in Track BY <1>9 DEF ApplyTarget, IntentType
  <2>2. (PositionType /\ ChannelType /\ StatusType /\ ErrorType)' BY <1>9, PositionOkType,
       PositionFailsType, NoteErrorType, <2>1 DEF ApplyTarget, PositionType, ChannelType,
       StatusType, ErrorType
  <2>3. IntentType' BY <1>9 DEF ApplyTarget, IntentType, GoTo, AfterMove
  <2>4. CallType' BY <1>9 DEF ApplyTarget, CallType, GoTo, AfterMove, WorkerPc
  <2>5. (ClientType /\ WishType /\ CacheType /\ DriveType /\ HistoryType)' BY <1>9, Frames DEF
       ApplyTarget
  <2> QED BY <2>2, <2>3, <2>4, <2>5
<1>10. ASSUME ApplyMotorSide PROVE TypeOK'
  <2>1. MotorTrack \in Track BY <1>10 DEF ApplyMotorSide, IntentType, CallType, MotorTrack, Motor, Track
  <2>2. (PositionType /\ ChannelType /\ StatusType /\ ErrorType)' BY <1>10, PositionOkType,
       PositionFailsType, NoteErrorType, <2>1 DEF ApplyMotorSide, PositionType, ChannelType,
       StatusType, ErrorType
  <2>3. IntentType' BY <1>10 DEF ApplyMotorSide, IntentType, GoTo
  <2>4. CallType' BY <1>10 DEF ApplyMotorSide, CallType, GoTo, WorkerPc
  <2>5. (ClientType /\ WishType /\ CacheType /\ DriveType /\ HistoryType)' BY <1>10, Frames DEF
       ApplyMotorSide
  <2> QED BY <2>2, <2>3, <2>4, <2>5
<1>11. ASSUME ApplyMotor PROVE TypeOK'
  <2>1. (ChannelType /\ StatusType /\ ErrorType)'
    <3>1. commands' = commands /\ generation' = generation BY <1>11 DEF ApplyMotor
    <3>2. CASE UNCHANGED <<failed, events>>
               /\ status' = [status EXCEPT !.motor = wish.on] /\ errors' = 0
      <4>1. wish.on \in BOOLEAN BY <1>11 DEF ApplyMotor, CallType, Motor
      <4> QED BY <3>1, <3>2, <4>1 DEF ChannelType, StatusType, ErrorType, Status
    <3>3. ASSUME NEW k \in ErrorKinds, NoteError(k)
          PROVE  (ChannelType /\ StatusType /\ ErrorType)'
      BY <3>1, <3>3, NoteErrorType DEF ChannelType, ErrorType
    <3> QED BY <1>11, <3>2, <3>3 DEF ApplyMotor
  <2>2. IntentType' BY <1>11 DEF ApplyMotor, IntentType, GoTo
  <2>3. CallType' BY <1>11 DEF ApplyMotor, CallType, GoTo, WorkerPc
  <2>4. DriveType' BY <1>11 DEF ApplyMotor, DriveType, CallType, Motor
  <2>5. (ClientType /\ WishType /\ CacheType /\ PositionType /\ HistoryType)' BY <1>11, Frames
       DEF ApplyMotor
  <2> QED BY <2>1, <2>2, <2>3, <2>4, <2>5
<1>12. ASSUME RefreshNotDue PROVE TypeOK'
  <2>1. IntentType' BY <1>12 DEF RefreshNotDue, IntentType
  <2>2. CallType' BY <1>12 DEF RefreshNotDue, CallType, WorkerPc
  <2>3. (ClientType /\ WishType /\ ChannelType /\ StatusType /\ CacheType /\ PositionType /\
       ErrorType /\ DriveType /\ HistoryType)' BY <1>12, Frames DEF RefreshNotDue
  <2> QED BY <2>1, <2>2, <2>3
<1>13. ASSUME RefreshQuery PROVE TypeOK'
  <2>1. [working |-> TRUE, motor |-> motorRunning, present |-> disk.present,
             protected |-> disk.protected, at |-> physical] \in Status BY <1>13 DEF RefreshQuery, DriveType, PositionType, Status, Disk
  <2>2. (ChannelType /\ StatusType /\ ErrorType)' BY <1>13, NoteErrorType DEF RefreshQuery,
       ChannelType, StatusType, ErrorType
  <2>3. IntentType' BY <1>13 DEF RefreshQuery, IntentType, GoTo
  <2>4. CallType' BY <1>13, <2>1 DEF RefreshQuery, CallType, GoTo, WorkerPc
  <2>5. (ClientType /\ WishType /\ CacheType /\ PositionType /\ DriveType /\ HistoryType)' BY
       <1>13, Frames DEF RefreshQuery
  <2> QED BY <2>2, <2>3, <2>4, <2>5
<1>14. ASSUME RefreshClear PROVE TypeOK'
  <2>1. CacheType' BY <1>14 DEF RefreshClear, CacheType
  <2>2. IntentType' BY <1>14 DEF RefreshClear, IntentType
  <2>3. CallType' BY <1>14 DEF RefreshClear, CallType, WorkerPc
  <2>4. (ClientType /\ WishType /\ ChannelType /\ StatusType /\ PositionType /\ ErrorType /\
       DriveType /\ HistoryType)' BY <1>14, Frames DEF RefreshClear
  <2> QED BY <2>1, <2>2, <2>3, <2>4
<1>15. ASSUME RefreshNotify PROVE TypeOK'
  <2>1. ChannelType' BY <1>15, EventType DEF RefreshNotify, ChannelType, CallType, Status, Event
  <2>2. IntentType' BY <1>15 DEF RefreshNotify, IntentType
  <2>3. CallType' BY <1>15 DEF RefreshNotify, CallType, WorkerPc
  <2>4. (ClientType /\ WishType /\ StatusType /\ CacheType /\ PositionType /\ ErrorType /\
       DriveType /\ HistoryType)' BY <1>15, Frames DEF RefreshNotify
  <2> QED BY <2>1, <2>2, <2>3, <2>4
<1>16. ASSUME RefreshStore PROVE TypeOK'
  <2>1. StatusType' BY <1>16 DEF RefreshStore, StatusType, CallType
  <2>2. IntentType' BY <1>16 DEF RefreshStore, IntentType
  <2>3. CallType' BY <1>16 DEF RefreshStore, CallType, WorkerPc
  <2>4. ErrorType' BY <1>16 DEF RefreshStore, ErrorType
  <2>5. (ClientType /\ WishType /\ ChannelType /\ CacheType /\ PositionType /\ DriveType /\
       HistoryType)' BY <1>16, Frames DEF RefreshStore
  <2> QED BY <2>1, <2>2, <2>3, <2>4, <2>5
<1>17. ASSUME CaptureSkip PROVE TypeOK'
  <2>1. IntentType' BY <1>17 DEF CaptureSkip, IntentType
  <2>2. CallType' BY <1>17 DEF CaptureSkip, CallType, WorkerPc
  <2>3. (ClientType /\ WishType /\ ChannelType /\ StatusType /\ CacheType /\ PositionType /\
       ErrorType /\ DriveType /\ HistoryType)' BY <1>17, Frames DEF CaptureSkip
  <2> QED BY <2>1, <2>2, <2>3
<1>18. ASSUME CapturePosition PROVE TypeOK'
  <2>1. wanted \in Track BY <1>18 DEF CapturePosition, IntentType, CaptureNeeded
  <2>2. (PositionType /\ ChannelType /\ StatusType /\ ErrorType)' BY <1>18, PositionOkType,
       PositionFailsType, NoteErrorType, <2>1 DEF CapturePosition, PositionType, ChannelType,
       StatusType, ErrorType
  <2>3. IntentType' BY <1>18, <2>1 DEF CapturePosition, IntentType, GoTo
  <2>4. CallType' BY <1>18 DEF CapturePosition, CallType, GoTo, WorkerPc
  <2>5. (ClientType /\ WishType /\ CacheType /\ DriveType /\ HistoryType)' BY <1>18, Frames DEF
       CapturePosition
  <2> QED BY <2>2, <2>3, <2>4, <2>5
<1>19. ASSUME Progress PROVE TypeOK'
  <2>1. CacheType' BY <1>19, ConstantsAssumption DEF Progress, CacheType, IntentType
  <2>2. (ClientType /\ WishType /\ ChannelType /\ StatusType /\ IntentType /\ PositionType /\
       ErrorType /\ CallType /\ DriveType /\ HistoryType)' BY <1>19, Frames DEF Progress
  <2> QED BY <2>1, <2>2
<1>20. ASSUME ReadOk PROVE TypeOK'
  <2>1. (ChannelType /\ StatusType /\ ErrorType)' BY <1>20, NoteErrorType DEF ReadOk,
       ChannelType, StatusType, ErrorType
  <2>2. IntentType' BY <1>20 DEF ReadOk, IntentType, GoTo
  <2>3. CallType' BY <1>20, ConstantsAssumption DEF ReadOk, CallType, GoTo, WorkerPc, Reading,
       DriveType, PositionType
  <2>4. (ClientType /\ WishType /\ CacheType /\ PositionType /\ DriveType /\ HistoryType)' BY
       <1>20, Frames DEF ReadOk
  <2> QED BY <2>1, <2>2, <2>3, <2>4
<1>21. ASSUME ReadFails PROVE TypeOK'
  <2>1. (ChannelType /\ StatusType /\ ErrorType)' BY <1>21, NoteErrorType DEF ReadFails,
       ChannelType, StatusType, ErrorType
  <2>2. IntentType' BY <1>21 DEF ReadFails, IntentType, GoTo
  <2>3. CallType' BY <1>21 DEF ReadFails, CallType, GoTo, WorkerPc
  <2>4. (ClientType /\ WishType /\ CacheType /\ PositionType /\ DriveType /\ HistoryType)' BY
       <1>21, Frames DEF ReadFails
  <2> QED BY <2>1, <2>2, <2>3, <2>4
<1>22. ASSUME Withdraw PROVE TypeOK'
  <2>1. CacheType' BY <1>22 DEF Withdraw, CacheType
  <2>2. IntentType' BY <1>22 DEF Withdraw, IntentType
  <2>3. CallType' BY <1>22 DEF Withdraw, CallType, WorkerPc
  <2>4. ErrorType' BY <1>22 DEF Withdraw, ErrorType
  <2>5. (ClientType /\ WishType /\ ChannelType /\ StatusType /\ PositionType /\ DriveType /\
       HistoryType)' BY <1>22, Frames DEF Withdraw
  <2> QED BY <2>1, <2>2, <2>3, <2>4, <2>5
<1>23. ASSUME InsertCapture PROVE TypeOK'
  <2>1. CacheType'
    <3> DEFINE c == [gen |-> generation, quality |-> reading.quality, bits |-> reading.bits,
                     serial |-> reading.serial, write |-> reading.write]
    <3>1. c \in Capture
      BY <1>23 DEF InsertCapture, CallType, Reading, ErrorType, Capture
    <3>2. wanted \in Track BY <1>23 DEF InsertCapture, IntentType
    <3>3. Push(captures[wanted], c) \in Seq(Capture) BY <3>1, <3>2, PushType DEF CacheType
    <3>4. PICK evicted \in Victims :
            /\ keys' = (keys \ evicted) \cup {wanted}
            /\ captures' = [t \in Track |-> IF t \in evicted THEN <<>>
                                            ELSE IF t = wanted THEN Push(captures[t], c)
                                            ELSE captures[t]]
      BY <1>23 DEF InsertCapture
    <3>5. captures' \in [Track -> Seq(Capture)] BY <3>3, <3>4 DEF CacheType
    <3>6. keys' \subseteq Track BY <3>2, <3>4 DEF CacheType
    <3> QED BY <1>23, <3>5, <3>6 DEF InsertCapture, CacheType
  <2>2. IntentType' BY <1>23 DEF InsertCapture, IntentType
  <2>3. CallType' BY <1>23 DEF InsertCapture, CallType, WorkerPc
  <2>4. (ClientType /\ WishType /\ ChannelType /\ StatusType /\ PositionType /\ ErrorType /\
       DriveType /\ HistoryType)' BY <1>23, Frames DEF InsertCapture
  <2> QED BY <2>1, <2>2, <2>3, <2>4
<1>24. ASSUME ExitMotorOff PROVE TypeOK'
  <2>1. IntentType' BY <1>24 DEF ExitMotorOff, IntentType
  <2>2. CallType' BY <1>24 DEF ExitMotorOff, CallType, WorkerPc
  <2>3. DriveType' BY <1>24 DEF ExitMotorOff, DriveType
  <2>4. (ClientType /\ WishType /\ ChannelType /\ StatusType /\ CacheType /\ PositionType /\
       ErrorType /\ HistoryType)' BY <1>24, Frames DEF ExitMotorOff
  <2> QED BY <2>1, <2>2, <2>3, <2>4
<1>25. ASSUME Stop PROVE TypeOK'
  <2>1. ChannelType' BY <1>25 DEF Stop, ChannelType
  <2>2. StatusType' BY <1>25 DEF Stop, StatusType, Status
  <2>3. IntentType' BY <1>25 DEF Stop, IntentType
  <2>4. CallType' BY <1>25 DEF Stop, CallType, WorkerPc
  <2>5. (ClientType /\ WishType /\ CacheType /\ PositionType /\ ErrorType /\ DriveType /\
       HistoryType)' BY <1>25, Frames DEF Stop
  <2> QED BY <2>1, <2>2, <2>3, <2>4, <2>5
<1>26. ASSUME Drained PROVE TypeOK'
  <2>1. IntentType' BY <1>26 DEF Drained, IntentType
  <2>2. CallType' BY <1>26 DEF Drained, CallType, WorkerPc
  <2>3. (ClientType /\ WishType /\ ChannelType /\ StatusType /\ CacheType /\ PositionType /\
       ErrorType /\ DriveType /\ HistoryType)' BY <1>26, Frames DEF Drained
  <2> QED BY <2>1, <2>2, <2>3
<1> QED BY <1>1, <1>2, <1>3, <1>4, <1>5, <1>6, <1>7, <1>8, <1>9, <1>10, <1>11, <1>12, <1>13,
     <1>14, <1>15, <1>16, <1>17, <1>18, <1>19, <1>20, <1>21, <1>22, <1>23, <1>24, <1>25,
     <1>26 DEF Worker

(* Every step of the controller keeps the types.                           *)
LEMMA TypeStep == TypeOK /\ [Next]_vars => TypeOK'
<1> SUFFICES ASSUME TypeOK, [Next]_vars PROVE TypeOK'
  OBVIOUS
<1>1. ASSUME ChangeDisk PROVE TypeOK'
  <2> USE <1>1 DEF ChangeDisk, TypeOK, clientVars, wishVars, cacheVars, positionVars, errorVars, intentVars, callVars, driveVars,
       readHistory, writeHistory, historyVars, workerVars, sharedByWorker, clientSide
  <2>1. DriveType' BY ConstantsAssumption DEF DriveType
  <2>2. (ClientType /\ WishType /\ ChannelType /\ StatusType /\ CacheType /\ IntentType
           /\ PositionType /\ ErrorType /\ CallType /\ HistoryType)'
    BY Frames
  <2> QED BY <2>1, <2>2
<1>2. ASSUME UNCHANGED vars PROVE TypeOK'
  BY <1>2, Frames DEF TypeOK, vars, clientVars, wishVars, cacheVars, positionVars, errorVars, intentVars, callVars, driveVars,
       readHistory, writeHistory, historyVars, workerVars, sharedByWorker, clientSide
<1> QED BY <1>1, <1>2, TypeClient, TypeWorker DEF Next, Finished

(* TypeCorrect: the fields of Bridge, Worker and what they share keep      *)
(* their types whatever the client asks and the device answers.            *)
THEOREM TypeCorrect == Spec => []TypeOK
<1> QED BY TypeInit, TypeStep, PTL DEF Spec

-----------------------------------------------------------------------------
(* Failure.                                                                *)

(* While the worker is in its loop it has not given up.                    *)
LEMMA NotYetEnding ==
    ASSUME LifeInv, ~Ending
    PROVE  /\ ~failed /\ status.working
           /\ \A i \in 1..Len(events) : events[i].kind # "disconnected"
BY DEF LifeInv, FailureEnds

(* A device call or a phase reports an error, if any, with note_error, and *)
(* GoTo then leaves the loop if that was the last straw.  note_error puts  *)
(* Disconnected, if anything, at the back of the events, and clears        *)
(* `working` no sooner than it sets `failed`.                              *)
LEMMA NoteErrorEnds ==
    ASSUME ChannelType, LifeInv, ~Ending, NEW k, NoteError(k), NEW pc, GoTo(pc)
    PROVE  LifeInv'
<1>1. CASE UNCHANGED <<failed, status, events>>
  BY <1>1, NotYetEnding DEF LifeInv, FailureEnds, DisconnectIsLast
<1>2. CASE ~ UNCHANGED <<failed, status, events>>
  <2>1. /\ failed' = TRUE /\ TryEvent([kind |-> "disconnected"])
    BY <1>2 DEF NoteError
  <2>2. events \in Seq(Event) BY DEF ChannelType
  <2>3. \A i \in 1..Len(events') : events'[i].kind = "disconnected" => i = Len(events')
    BY <2>1, <2>2, NotYetEnding DEF TryEvent
  <2>4. Ending' BY <2>1 DEF GoTo, Ending
  <2> QED BY <2>1, <2>3, <2>4 DEF LifeInv, FailureEnds, DisconnectIsLast
<1> QED BY <1>1, <1>2

(* A step that leaves what the client may see of the end alone.            *)
LEMMA LifeFrame ==
    ASSUME LifeInv, UNCHANGED <<events, failed>>, status'.working = status.working, Ending => Ending'
    PROVE  LifeInv'
BY DEF LifeInv, FailureEnds, DisconnectIsLast

(* An event other than Disconnected is sent by a worker that goes on.      *)
LEMMA LifeEvent ==
    ASSUME ChannelType, LifeInv, ~Ending, UNCHANGED <<failed, status>>,
           NEW e \in Event, e.kind # "disconnected", TryEvent(e)
    PROVE  LifeInv'
<1>1. events \in Seq(Event) BY DEF ChannelType
<1>2. \A i \in 1..Len(events') : events'[i].kind # "disconnected"
  BY <1>1, NotYetEnding DEF TryEvent
<1> QED BY <1>2, NotYetEnding DEF LifeInv, FailureEnds, DisconnectIsLast

(* poll_event takes from the front, so what was last stays last.           *)
LEMMA LifePoll ==
    ASSUME ChannelType, LifeInv, PollEvent
    PROVE  LifeInv'
<1>1. events \in Seq(Event) /\ events # <<>> /\ events' = Tail(events)
  BY DEF ChannelType, PollEvent
<1>2. /\ Len(events') = Len(events) - 1 /\ Len(events) \in Nat
      /\ \A i \in 1..Len(events') : events'[i] = events[i + 1] /\ i + 1 \in 1..Len(events)
  BY <1>1, HeadTailProperties
<1>3. UNCHANGED <<status, failed, wpc>>
  BY DEF PollEvent, sharedByWorker, workerVars
<1> QED BY <1>2, <1>3 DEF LifeInv, FailureEnds, DisconnectIsLast, Ending

(* A successful Worker::position publishes a position and nothing else.    *)
LEMMA PositionOkWorking ==
    ASSUME StatusType, NEW t, PositionOk(t)
    PROVE  status'.working = status.working
BY DEF PositionOk, StatusType, Status

-----------------------------------------------------------------------------
LEMMA LifeInit == Init => LifeInv
  BY DEF Init, LifeInv, FailureEnds, DisconnectIsLast

LEMMA LifeClient == ASSUME TypeOK, LifeInv, Client PROVE LifeInv'
<1>1. CASE PollEvent BY <1>1, LifePoll DEF TypeOK
<1>2. CASE ~PollEvent
  <2>1. UNCHANGED <<events, failed, status, wpc>>
    BY <1>2
    DEF Client, SetMotor, Seek, ReadTrack, SubmitWrite, NoClickStep, Nudge, Lookup, StallCheck,
        Advance, StallTimeout, AdvanceWish, SubmitPlace, SubmitEnqueue, Drop, DropSend,
        DropJoin, sharedByWorker, workerVars
  <2> QED BY <2>1, LifeFrame DEF Ending
<1> QED BY <1>1, <1>2

LEMMA LifeWorker == ASSUME TypeOK, SampleWorks, LifeInv, Worker PROVE LifeInv'
<1> USE DEF TypeOK
<1>1. CASE TakeCommand \/ Wake \/ Burn \/ Invalidate \/ TakeWishes \/ RefreshNotDue \/ Drained
           \/ RefreshClear \/ CaptureSkip \/ InsertCapture
  <2>1. UNCHANGED <<events, failed, status>> /\ ~Ending
    BY <1>1 DEF TakeCommand, Wake, Burn, Invalidate, TakeWishes, RefreshNotDue, Drained, RefreshClear,
                CaptureSkip, InsertCapture, errorVars, Ending
  <2> QED BY <2>1, LifeFrame
<1>2. CASE PerformNoClick
  <2>1. ~Ending BY <1>2 DEF PerformNoClick, Ending
  <2>2. CASE UNCHANGED <<errorVars, status, events>>
    BY <2>1, <2>2, LifeFrame DEF errorVars
  <2>3. CASE \E k \in ErrorKinds : NoteError(k)
    BY <1>2, <2>1, <2>3, NoteErrorEnds DEF PerformNoClick
  <2> QED BY <1>2, <2>2, <2>3 DEF PerformNoClick
<1>3. CASE WritePosition
  <2>1. ~Ending /\ UNCHANGED <<events, failed>> BY <1>3 DEF WritePosition, Ending, errorVars
  <2>2. status'.working = status.working BY <1>3, PositionOkWorking DEF WritePosition
  <2> QED BY <2>1, <2>2, LifeFrame
<1>4. CASE Report
  <2>1. [kind |-> "write", id |-> command.id, ok |-> result = "completed"] \in Event
    BY <1>4 DEF Report, CallType, WriteCommand, Event
  <2>2. ~Ending /\ UNCHANGED <<failed, status>> BY <1>4 DEF Report, Ending, errorVars
  <2> QED BY <1>4, <2>1, <2>2, LifeEvent DEF Report
<1>5. CASE RefreshNotify
  <2>1. [kind |-> "disk", present |-> snapshot.present] \in Event
    BY <1>5 DEF RefreshNotify, CallType, Status, Event
  <2>2. ~Ending /\ UNCHANGED <<failed, status>> BY <1>5 DEF RefreshNotify, Ending, errorVars
  <2> QED BY <1>5, <2>1, <2>2, LifeEvent DEF RefreshNotify
<1>6. CASE ApplyTarget \/ ApplyMotorSide \/ CapturePosition
  <2>1. ~Ending BY <1>6 DEF ApplyTarget, ApplyMotorSide, CapturePosition, Ending
  <2>2. CASE \E k \in ErrorKinds, pc \in WorkerPc : NoteError(k) /\ GoTo(pc)
    BY <2>1, <2>2, NoteErrorEnds
  <2>3. CASE UNCHANGED <<events, failed>> /\ \E t : PositionOk(t)
    BY <2>1, <2>3, LifeFrame, PositionOkWorking
  <2> QED BY <1>6, <2>2, <2>3
          DEF ApplyTarget, ApplyMotorSide, CapturePosition, errorVars, WorkerPc
<1>7. CASE ApplyMotor
  <2>1. ~Ending BY <1>7 DEF ApplyMotor, Ending
  <2>2. CASE status' = [status EXCEPT !.motor = wish.on] /\ UNCHANGED <<failed, events>>
    BY <2>1, <2>2, LifeFrame DEF StatusType, Status
  <2>3. CASE \E k \in ErrorKinds : NoteError(k)
    BY <1>7, <2>1, <2>3, NoteErrorEnds DEF ApplyMotor
  <2> QED BY <1>7, <2>2, <2>3 DEF ApplyMotor
<1>8. CASE RefreshQuery
  <2>1. ~Ending BY <1>8 DEF RefreshQuery, Ending
  <2>2. CASE UNCHANGED <<errorVars, status, events>>
    BY <2>1, <2>2, LifeFrame DEF errorVars
  <2>3. CASE (\E k \in ErrorKinds : NoteError(k)) /\ GoTo("capture")
    BY <2>1, <2>3, NoteErrorEnds
  <2> QED BY <1>8, <2>2, <2>3 DEF RefreshQuery
<1>9. CASE RefreshStore
  <2>1. ~Ending /\ UNCHANGED <<events, failed>> /\ status'.working = status.working
    <3>1. ~Ending BY <1>9 DEF RefreshStore, Ending
    <3>2. status.working /\ snapshot.working
      BY <1>9, <3>1, NotYetEnding DEF RefreshStore, SampleWorks
    <3>3. status.working \in BOOLEAN /\ snapshot.working \in BOOLEAN
      BY <1>9 DEF RefreshStore, StatusType, CallType, Status
    <3> QED BY <1>9, <3>1, <3>2, <3>3 DEF RefreshStore
  <2> QED BY <2>1, LifeFrame
<1>10. CASE ReadOk
  <2>1. ~Ending BY <1>10 DEF ReadOk, Ending
  <2>2. CASE UNCHANGED <<errorVars, status, events>>
    BY <2>1, <2>2, LifeFrame DEF errorVars
  <2>3. CASE NoteError("Protocol") /\ GoTo("select")
    BY <2>1, <2>3, NoteErrorEnds
  <2> QED BY <1>10, <2>2, <2>3 DEF ReadOk
<1>11. CASE ReadFails
  <2>1. ~Ending BY <1>11 DEF ReadFails, Ending
  <2>2. CASE UNCHANGED <<errorVars, status, events>>
    BY <2>1, <2>2, LifeFrame DEF errorVars
  <2>3. CASE (\E k \in ErrorKinds : NoteError(k)) /\ GoTo("select")
    BY <2>1, <2>3, NoteErrorEnds
  <2> QED BY <1>11, <2>2, <2>3 DEF ReadFails
<1>12. CASE Withdraw
  <2>1. ~Ending /\ UNCHANGED <<events, failed, status>> BY <1>12 DEF Withdraw, Ending
  <2> QED BY <2>1, LifeFrame
<1>13. CASE ExitMotorOff \/ Stop
  <2>1. Ending' /\ UNCHANGED <<events, failed>>
    BY <1>13 DEF ExitMotorOff, Stop, Ending, errorVars
  <2> QED BY <2>1 DEF LifeInv, FailureEnds, DisconnectIsLast
<1> QED BY <1>1, <1>2, <1>3, <1>4, <1>5, <1>6, <1>7, <1>8, <1>9, <1>10, <1>11, <1>12, <1>13
        DEF Worker

(* The sample is taken by a worker that works (refresh_status_if_due), and *)
(* nothing alters it before it is published.                               *)
LEMMA SampleStep == TypeOK /\ SampleWorks /\ [Next]_vars => SampleWorks'
<1> SUFFICES ASSUME TypeOK, SampleWorks, [Next]_vars PROVE SampleWorks'
  OBVIOUS
<1>1. CASE Client
  <2>1. UNCHANGED <<wpc, snapshot>>
    BY <1>1
    DEF Client, SetMotor, Seek, ReadTrack, SubmitWrite, NoClickStep, Nudge, Lookup, StallCheck,
        Advance, StallTimeout, AdvanceWish, SubmitPlace, SubmitEnqueue, PollEvent, Drop, DropSend,
        DropJoin, sharedByWorker, workerVars
  <2> QED BY <2>1 DEF SampleWorks
<1>2. CASE TakeCommand
  <2>1. wpc' \in {"exit", "write", "noclick"}
    <3>1. NextCommand.taken \in Command
      BY <1>2 DEF TakeCommand, NextCommand, TypeOK, ChannelType
    <3> QED BY <1>2, <3>1 DEF TakeCommand, Command, WriteCommand, NoClickCommand
  <2> QED BY <2>1 DEF SampleWorks
<1>3. CASE RefreshQuery
  BY <1>3 DEF RefreshQuery, SampleWorks, GoTo
<1>4. CASE RefreshClear \/ RefreshNotify
  BY <1>4 DEF RefreshClear, RefreshNotify, SampleWorks, callVars
<1>5. CASE Worker /\ ~(TakeCommand \/ RefreshQuery \/ RefreshClear \/ RefreshNotify)
  <2>1. wpc' \notin {"clear", "notify", "store"}
    BY <1>5
    DEF Worker, Wake, PerformNoClick, WritePosition, Burn, Invalidate, Report, TakeWishes,
        ApplyTarget, ApplyMotorSide, ApplyMotor, RefreshNotDue, Drained, RefreshStore, CaptureSkip,
        CapturePosition, ReadOk, ReadFails, Withdraw, InsertCapture, ExitMotorOff, Stop,
        AfterMove, GoTo
  <2> QED BY <2>1 DEF SampleWorks
<1>6. CASE Progress \/ ChangeDisk \/ UNCHANGED vars
  <2>1. UNCHANGED <<wpc, snapshot>> BY <1>6 DEF Progress, ChangeDisk, vars, workerVars
  <2> QED BY <2>1 DEF SampleWorks
<1> QED BY <1>1, <1>2, <1>3, <1>4, <1>5, <1>6 DEF Next, Finished

LEMMA LifeStep == TypeOK /\ SampleWorks /\ LifeInv /\ [Next]_vars => LifeInv'
<1> SUFFICES ASSUME TypeOK, SampleWorks, LifeInv, [Next]_vars PROVE LifeInv'
  OBVIOUS
<1>1. CASE Progress \/ ChangeDisk \/ UNCHANGED vars
  <2>1. UNCHANGED <<wpc, events, failed, status>>
    BY <1>1 DEF Progress, ChangeDisk, vars, workerVars
  <2> QED BY <2>1, LifeFrame DEF Ending
<1> QED BY <1>1, LifeClient, LifeWorker DEF Next, Finished

LEMMA LifeCorrect == Spec => [](TypeOK /\ SampleWorks /\ LifeInv)
<1>1. Init => SampleWorks BY DEF Init, SampleWorks
<1> QED BY <1>1, TypeInit, TypeStep, LifeInit, SampleStep, LifeStep, PTL DEF Spec

(* DisconnectIsLastHolds: whatever the client polls and however full the   *)
(* event channel is, no event is queued behind Disconnected.               *)
THEOREM DisconnectIsLastHolds == Spec => []DisconnectIsLast
<1>1. LifeInv => DisconnectIsLast BY DEF LifeInv
<1> QED BY <1>1, LifeCorrect, PTL

(* Once the worker is on its way out it stays there, and the last thing it *)
(* does to the status is to clear `working`.                               *)
LEMMA NotWorkingStep ==
    ASSUME TypeOK, LifeInv, [Next]_vars, ~status.working
    PROVE  ~status'.working
<1>1. Ending BY DEF LifeInv, FailureEnds
<1>2. CASE Client \/ Progress \/ ChangeDisk \/ UNCHANGED vars
  <2>1. UNCHANGED status
    BY <1>2
    DEF Client, SetMotor, Seek, ReadTrack, SubmitWrite, NoClickStep, Nudge, Lookup, StallCheck,
        Advance, StallTimeout, AdvanceWish, SubmitPlace, SubmitEnqueue, PollEvent, Drop, DropSend,
        DropJoin, Progress, ChangeDisk, vars, sharedByWorker
  <2> QED BY <2>1
<1>3. CASE Worker
  <2>1. ExitMotorOff \/ Stop
    BY <1>1, <1>3
    DEF Ending, Worker, TakeCommand, Wake, PerformNoClick, WritePosition, Burn, Invalidate, Report,
        TakeWishes, ApplyTarget, ApplyMotorSide, ApplyMotor, RefreshNotDue, Drained, RefreshQuery,
        RefreshClear, RefreshNotify, RefreshStore, CaptureSkip, CapturePosition, ReadOk,
        ReadFails, Withdraw, InsertCapture
  <2> QED BY <2>1 DEF ExitMotorOff, Stop, TypeOK, StatusType, Status
<1> QED BY <1>2, <1>3 DEF Next, Finished

(* WorkingNeverReturnsHolds: a status sample that was under way when the   *)
(* worker gave up never makes it look alive again.                         *)
THEOREM WorkingNeverReturnsHolds == Spec => WorkingNeverReturns
<1>1. TypeOK /\ LifeInv /\ [Next]_vars => [~status.working => ~status'.working]_vars
  BY NotWorkingStep
<1> QED BY <1>1, LifeCorrect, PTL DEF WorkingNeverReturns, Spec
-----------------------------------------------------------------------------
(* Wishes.                                                                 *)

(* What a step of a Bridge method that is not about the motor does to the  *)
(* wishes: the motor wish stays, and no nudge is taken back or left owing. *)
LEMMA OtherClientWish ==
    ASSUME TypeOK, Client
    PROVE  \/ \E m \in MotorWishes : SetMotor(m)
           \/ /\ desired'.motor = desired.motor /\ (nudge => nudge')
              /\ (cpc = "nudge" => cpc' = "nudge" \/ nudge' \/ wpc = "done")
              /\ UNCHANGED <<motorWish, wpc, wish, spindle>>
<1> USE DEF TypeOK, WishType
<1>1. CASE \E t \in ClientTracks : Seek(t) \/ ReadTrack(t)
  BY <1>1 DEF Seek, ReadTrack, Demand, sharedByWorker, workerVars, driveVars, historyVars
<1>2. CASE AdvanceWish
  BY <1>2 DEF AdvanceWish, Demand, sharedByWorker, workerVars, driveVars, historyVars
<1>3. CASE Nudge
  BY <1>3 DEF Nudge, sharedByWorker, workerVars, driveVars, historyVars
<1>4. CASE Client /\ ~Nudge /\ ~AdvanceWish /\ ~(\E m \in MotorWishes : SetMotor(m))
           /\ ~(\E t \in ClientTracks : Seek(t) \/ ReadTrack(t))
  BY <1>4
  DEF Client, SubmitWrite, NoClickStep, Lookup, StallCheck, Advance, StallTimeout, SubmitPlace,
      SubmitEnqueue, PollEvent, Drop, DropSend, DropJoin, wishVars, clientVars, sharedByWorker,
      workerVars, driveVars, historyVars
<1> QED BY <1>1, <1>2, <1>3, <1>4

(* The wishes as the worker sees them: only apply_desired takes any, only  *)
(* select! takes a nudge.                                                  *)
LEMMA WorkerWish ==
    ASSUME TypeOK, Worker, ~TakeWishes
    PROVE  /\ UNCHANGED <<desired, cpc, motorWish>>
           /\ UNCHANGED nudge \/ wpc' = "drain"
           /\ Ending => Ending'
           /\ WishesAhead => WishesAhead' \/ Ending'
<1>1. commands # <<>> => NextCommand.taken.op \in {"write", "noclick", "shutdown"}
  BY HeadTailProperties
  DEF TypeOK, ChannelType, NextCommand, Command, WriteCommand, NoClickCommand
<1> QED
  BY <1>1
  DEF Worker, TakeCommand, Wake, PerformNoClick, WritePosition, Burn, Invalidate, Report,
      ApplyTarget, ApplyMotorSide, ApplyMotor, RefreshNotDue, Drained, RefreshQuery, RefreshClear,
      RefreshNotify, RefreshStore, CaptureSkip, CapturePosition, ReadOk, ReadFails, Withdraw,
      InsertCapture, ExitMotorOff, Stop, AfterMove, GoTo, wishVars, clientSide, clientVars,
      Ending, WishesAhead

LEMMA WakeupStep == TypeOK /\ WakeupKept /\ [Next]_vars => WakeupKept'
<1> SUFFICES ASSUME TypeOK, WakeupKept, [Next]_vars PROVE WakeupKept'
  OBVIOUS
<1> USE DEF WakeupKept
<1>1. CASE Client
  <2>1. CASE \E m \in MotorWishes : SetMotor(m) BY <2>1 DEF SetMotor
  <2>2. CASE ~ \E m \in MotorWishes : SetMotor(m)
    BY <1>1, <2>2, OtherClientWish DEF Ending, WishesAhead
  <2> QED BY <2>1, <2>2
<1>2. CASE TakeWishes BY <1>2 DEF TakeWishes, NoWish
<1>3. CASE Worker /\ ~TakeWishes BY <1>3, WorkerWish DEF WishesAhead
<1>4. CASE Progress \/ ChangeDisk \/ UNCHANGED vars
  <2>1. UNCHANGED <<desired, cpc, nudge, wpc>>
    BY <1>4 DEF Progress, ChangeDisk, vars, wishVars, clientSide, clientVars, workerVars
  <2> QED BY <2>1 DEF Ending, WishesAhead
<1> QED BY <1>1, <1>2, <1>3, <1>4 DEF Next, Finished

(* NoLostWakeupHolds: in whatever order the client records its wishes and  *)
(* nudges, and the worker drains, captures, fails and polls, the worker    *)
(* never goes to sleep over a motor wish it will not be woken for.         *)
THEOREM NoLostWakeupHolds == Spec => []NoLostWakeup
<1>1. Init => WakeupKept BY DEF Init, WakeupKept, NoWish
<1>2. WakeupKept => NoLostWakeup BY DEF WakeupKept, NoLostWakeup, Ending, WishesAhead
<1> QED BY <1>1, <1>2, TypeInit, TypeStep, WakeupStep, PTL DEF Spec

(* With a device that answers, only a capture of an impossible length is   *)
(* an error, and it touches neither wish nor spindle.                      *)
LEMMA MotorWorker ==
    ASSUME TypeOK, MotorInv, NoDeviceErrors, Worker
    PROVE  MotorInv'
<1> USE DEF MotorInv, Ending
<1>1. CASE TakeWishes
  <2>1. /\ wpc = "wishes" /\ wish' = desired.motor /\ desired'.motor = None
        /\ UNCHANGED <<motorWish, spindle>>
        /\ wish' # None => wpc' \in {"move", "turn"}
    BY <1>1 DEF TakeWishes, NoWish, clientSide, driveVars
  <2> QED BY <2>1
<1>2. CASE ApplyMotor
  <2>1. /\ wpc = "motor" /\ wish # None /\ wish' = None
        /\ spindle' = wish.on \/ \E k \in ErrorKinds : NoteError(k)
        /\ UNCHANGED <<motorWish, desired>>
    BY <1>2 DEF ApplyMotor, clientSide, wishVars, TypeOK, CallType
  <2> QED BY <2>1 DEF NoDeviceErrors
<1>3. CASE ApplyTarget \/ ApplyMotorSide
  <2>1. /\ UNCHANGED <<wish, motorWish, desired, spindle>>
        /\ wish # None => wpc' \in {"turn", "motor"}
        /\ ~Ending
    BY <1>3 DEF ApplyTarget, ApplyMotorSide, AfterMove, clientSide, wishVars, driveVars,
                NoDeviceErrors
  <2> QED BY <2>1
<1>4. CASE ExitMotorOff \/ Stop
  <2>1. Ending /\ Ending' /\ UNCHANGED <<wish, motorWish, desired>>
    BY <1>4 DEF ExitMotorOff, Stop, clientSide, wishVars, callVars
  <2> QED BY <2>1
<1>5. CASE Worker /\ ~(TakeWishes \/ ApplyMotor \/ ApplyTarget \/ ApplyMotorSide
                       \/ ExitMotorOff \/ Stop)
  <2>1. /\ UNCHANGED <<wish, motorWish, desired, spindle>>
        /\ ~Ending /\ wpc \notin {"move", "turn", "motor"}
    BY <1>5
    DEF Worker, TakeCommand, Wake, PerformNoClick, WritePosition, Burn, Invalidate, Report,
        RefreshNotDue, Drained, RefreshQuery, RefreshClear, RefreshNotify, RefreshStore, CaptureSkip,
        CapturePosition, ReadOk, ReadFails, Withdraw, InsertCapture, clientSide, wishVars,
        driveVars, callVars
  <2> QED BY <2>1
<1> QED BY <1>1, <1>2, <1>3, <1>4, <1>5

LEMMA MotorStep == NoDeviceErrors /\ TypeOK /\ MotorInv /\ [Next]_vars => MotorInv'
<1> SUFFICES ASSUME NoDeviceErrors, TypeOK, MotorInv, [Next]_vars PROVE MotorInv'
  OBVIOUS
<1>1. CASE Client
  <2>1. ASSUME NEW m \in MotorWishes, SetMotor(m) PROVE MotorInv'
    <3>1. m # None BY ConstantsAssumption, NoneAssumption
    <3>2. desired'.motor = m /\ motorWish' = m.on /\ UNCHANGED <<wish, wpc>>
      BY <2>1 DEF SetMotor, TypeOK, WishType, sharedByWorker, workerVars
    <3> QED BY <3>1, <3>2 DEF MotorInv
  <2>2. CASE ~ \E m \in MotorWishes : SetMotor(m)
    BY <1>1, <2>2, OtherClientWish DEF MotorInv, Ending
  <2> QED BY <2>1, <2>2
<1>2. CASE Progress \/ ChangeDisk \/ UNCHANGED vars
  <2>1. UNCHANGED <<desired, motorWish, wish, spindle, wpc>>
    BY <1>2 DEF Progress, ChangeDisk, vars, wishVars, clientSide, workerVars, driveVars, historyVars
  <2> QED BY <2>1 DEF MotorInv, Ending
<1> QED BY <1>1, <1>2, MotorWorker DEF Next, Finished

(* MotorWishHolds: if the device answers every call, then set_motor is     *)
(* never forgotten: when the worker waits with no motor wish before it,    *)
(* the spindle does what set_motor last asked for, whatever else was       *)
(* asked, drained, captured or written meanwhile.                          *)
THEOREM MotorWishHolds == NoDeviceErrors => (Spec => []MotorWishHeld)
<1>1. Init => MotorInv BY DEF Init, MotorInv, NoWish
<1>2. MotorInv => MotorWishHeld BY DEF MotorInv, MotorWishHeld, Ending
<1>3. CASE NoDeviceErrors
  BY <1>1, <1>2, <1>3, TypeInit, TypeStep, MotorStep, PTL DEF Spec
<1> QED BY <1>3

-----------------------------------------------------------------------------
(* The capture cache: how deep a deque gets, and in which order readings   *)
(* reach the client.                                                       *)
CacheVars == <<captures, seen, retired, generation>>

(* The depth wanted of a deque is between one and the hard ceiling.        *)
LEMMA WantedDepthRange ==
    ASSUME NEW deque
    PROVE  WantedDepth(deque) \in 1..CapturesPerTrack
BY ConstantsAssumption DEF WantedDepth

(* Popping the front shifts the rest, and keeps the newest unless nothing  *)
(* is left.                                                                *)
LEMMA TailFacts ==
    ASSUME NEW deque \in Seq(Capture), deque # <<>>
    PROVE  /\ Tail(deque) \in Seq(Capture)
           /\ Len(Tail(deque)) = Len(deque) - 1
           /\ \A i \in 1..Len(Tail(deque)) : Tail(deque)[i] = deque[i + 1]
BY HeadTailProperties

(* A deque that was short of what is wanted of it stays short when the     *)
(* client pops its front.                                                  *)
LEMMA TailStillShort ==
    ASSUME NEW deque \in Seq(Capture), deque # <<>>, Len(deque) < WantedDepth(deque)
    PROVE  Len(Tail(deque)) < WantedDepth(Tail(deque))
<1>1. CASE Tail(deque) = <<>>
  BY <1>1, WantedDepthRange
<1>2. CASE Tail(deque) # <<>>
  <2>1. Len(Tail(deque)) = Len(deque) - 1 /\ Len(deque) \in Nat BY TailFacts
  <2>2. Len(Tail(deque)) \in 1..Len(Tail(deque))
    BY <1>2, TailFacts
  <2>3. Tail(deque)[Len(Tail(deque))] = deque[Len(deque)]
    BY <2>1, <2>2, TailFacts
  <2>4. WantedDepth(Tail(deque)) = WantedDepth(deque)
    BY <1>2, <2>3 DEF WantedDepth
  <2> QED BY <2>1, <2>4, WantedDepthRange
<1> QED BY <1>1, <1>2

(* A deque short of what is wanted of it is pushed to without losing its   *)
(* front.                                                                  *)
LEMMA PushShort ==
    ASSUME NEW deque \in Seq(Capture), NEW c \in Capture, Len(deque) < WantedDepth(deque)
    PROVE  /\ Push(deque, c) = Append(deque, c)
           /\ Len(Push(deque, c)) = Len(deque) + 1
           /\ Len(Push(deque, c)) <= CapturesPerTrack
           /\ \A i \in 1..Len(deque) : Push(deque, c)[i] = deque[i]
           /\ Push(deque, c)[Len(deque) + 1] = c
           /\ deque # <<>> => ~Reusable(deque[Len(deque)].quality)
BY WantedDepthRange, ConstantsAssumption DEF Push, WantedDepth

-----------------------------------------------------------------------------
(* A cached reading carries a number.                                      *)
LEMMA GenIsNat ==
    ASSUME NEW deque \in Seq(Capture), NEW i \in 1..Len(deque)
    PROVE  deque[i] \in Capture /\ deque[i].gen \in Nat
<1>1. deque[i] \in Capture BY ElementOfSeq
<1> QED BY <1>1 DEF Capture

(* The cache starts empty (from_device).                                   *)
LEMMA CacheInit == Init => CacheInv
<1> SUFFICES ASSUME Init PROVE CacheInv
  OBVIOUS
<1>1. /\ wpc = "select" /\ generation = 0
      /\ \A t \in Track : /\ captures[t] = <<>> /\ Len(captures[t]) = 0
                          /\ seen[t] = 0 /\ retired[t] = 0
  BY EmptySeq DEF Init
<1>2. DepthOnDemand BY <1>1, ConstantsAssumption DEF DepthOnDemand
<1>3. FreshFlux BY <1>1 DEF FreshFlux
<1>4. RefillNeeded BY <1>1 DEF RefillNeeded
<1>5. GenerationsIssued BY <1>1 DEF GenerationsIssued, Issued
<1> QED BY <1>2, <1>3, <1>4, <1>5 DEF CacheInv

(* Steps that leave the cache, the generations and what the client has     *)
(* seen alone, and start no capture.                                       *)
LEMMA CacheFrame ==
    ASSUME CacheInv, UNCHANGED CacheVars,
           \/ UNCHANGED <<wpc, wanted>>
           \/ wpc # "insert" /\ wpc' \notin {"read", "withdraw", "insert"}
    PROVE  CacheInv'
<1> USE DEF CacheInv, CacheVars
<1>1. DepthOnDemand' BY DEF DepthOnDemand
<1>2. FreshFlux' BY DEF FreshFlux
<1>3. RefillNeeded' BY DEF RefillNeeded
<1>4. Issued' = Issued BY DEF Issued
<1>5. GenerationsIssued' BY <1>4 DEF GenerationsIssued
<1> QED BY <1>1, <1>2, <1>3, <1>5

(* read_track hands out the front of a deque, the oldest reading in it.    *)
LEMMA CacheLookup ==
    ASSUME TypeOK, CacheInv, Lookup PROVE CacheInv'
<1> USE DEF Lookup, CacheInv
<1>1. UNCHANGED <<captures, retired, generation, wpc, wanted>>
  BY DEF cacheVars, sharedByWorker, workerVars
<1>2. CASE captures[call] = <<>>
  <2>1. UNCHANGED CacheVars BY <1>1, <1>2 DEF CacheVars
  <2> QED BY <1>1, <2>1, CacheFrame
<1>3. CASE captures[call] # <<>>
  <2>1. call \in Track BY DEF TypeOK, ClientType
  <2>2. captures \in [Track -> Seq(Capture)] /\ seen \in [Track -> Nat]
    BY DEF TypeOK, CacheType, HistoryType
  <2>3. 1 \in 1..Len(captures[call])
    <3>1. captures[call] \in Seq(Capture) BY <2>1, <2>2
    <3>2. Len(captures[call]) \in Nat \ {0} BY <1>3, <3>1, EmptySeq
    <3> QED BY <3>2
  <2>4. captures[call][1].gen \in Nat
    <3>1. captures[call] \in Seq(Capture) BY <2>1, <2>2
    <3> QED BY <2>3, <3>1, GenIsNat
  <2>5. \A t \in Track : seen'[t] = IF t = call THEN captures[call][1].gen ELSE seen[t]
    BY <1>3, <2>1, <2>2
  <2>6. Issued' = Issued BY <1>1 DEF Issued
  <2>7. DepthOnDemand' /\ RefillNeeded' BY <1>1 DEF DepthOnDemand, RefillNeeded
  <2>8. FreshFlux'
    <3>1. \A i \in 1..Len(captures[call]) : captures[call][i].gen >= captures[call][1].gen
      <4> SUFFICES ASSUME NEW i \in 1..Len(captures[call])
                   PROVE  captures[call][i].gen >= captures[call][1].gen
        OBVIOUS
      <4>0. captures[call] \in Seq(Capture) BY <2>1, <2>2
      <4>1. captures[call][i].gen \in Nat BY <4>0, GenIsNat
      <4>2. i = 1 \/ 1 < i BY <4>0
      <4> QED BY <2>1, <2>3, <2>4, <4>1, <4>2 DEF FreshFlux
    <3> QED BY <1>1, <2>5, <3>1 DEF FreshFlux
  <2>9. GenerationsIssued'
    <3>1. retired[call] <= captures[call][1].gen
      <4>1. retired[call] \in Nat BY <2>1 DEF TypeOK, HistoryType
      <4> QED BY <2>1, <2>3, <2>4, <4>1 DEF FreshFlux
    <3> QED BY <1>1, <2>1, <2>3, <2>5, <2>6, <3>1 DEF GenerationsIssued
  <2> QED BY <2>7, <2>8, <2>9
<1> QED BY <1>2, <1>3

(* advance_revolution pops the front, so only newer readings are left.     *)
LEMMA CacheAdvance ==
    ASSUME TypeOK, CacheInv, NEW t0 \in ClientTracks, Advance(t0) PROVE CacheInv'
<1> DEFINE track == ClampTrack(t0)
           old == captures[track]
<1> USE DEF CacheInv
<1>1. track \in Track BY ClampInTrack, ConstantsAssumption
<1>2. captures \in [Track -> Seq(Capture)] /\ seen \in [Track -> Nat] /\ retired \in [Track -> Nat]
  BY DEF TypeOK, CacheType, HistoryType
<1>3. UNCHANGED <<seen, generation, wpc, wanted>>
  BY DEF Advance, sharedByWorker, workerVars
<1>4. captures' = [captures EXCEPT ![track] = IF @ = <<>> THEN @ ELSE Tail(@)]
  BY DEF Advance
<1>5. retired' = [retired EXCEPT ![track] = seen[track]]
  BY DEF Advance
<1>6. Issued' = Issued BY <1>3 DEF Issued
<1> HIDE DEF track
<1>7. \A t \in Track \ {track} : captures'[t] = captures[t] /\ retired'[t] = retired[t]
  BY <1>2, <1>4, <1>5
<1>8. retired'[track] = seen[track] BY <1>1, <1>2, <1>5
<1>9. CASE old = <<>>
  <2>1. captures'[track] = <<>> BY <1>1, <1>2, <1>4, <1>9
  <2>2. captures' = captures BY <1>1, <1>2, <1>4, <1>9
  <2>3. DepthOnDemand' /\ RefillNeeded' BY <1>3, <2>2 DEF DepthOnDemand, RefillNeeded
  <2>4. FreshFlux' BY <1>3, <1>7, <2>1, <2>2 DEF FreshFlux
  <2>5. GenerationsIssued' BY <1>1, <1>2, <1>3, <1>6, <1>7, <1>8, <2>2 DEF GenerationsIssued
  <2> QED BY <2>3, <2>4, <2>5
<1>10. CASE old # <<>>
  <2>1. captures'[track] = Tail(old) BY <1>1, <1>2, <1>4, <1>10
  <2>2. old \in Seq(Capture) BY <1>1, <1>2
  <2>3. /\ Len(Tail(old)) = Len(old) - 1 /\ Len(old) \in Nat
        /\ \A i \in 1..Len(Tail(old)) : Tail(old)[i] = old[i + 1]
    BY <1>10, <2>2, TailFacts
  <2>4. \A i \in 1..Len(Tail(old)) : i + 1 \in 1..Len(old) BY <2>3
  <2>5. DepthOnDemand'
    <3> SUFFICES ASSUME NEW t \in Track
                 PROVE  /\ Len(captures'[t]) <= CapturesPerTrack
                        /\ \A i \in 1..Len(captures'[t]) :
                             i < Len(captures'[t]) => ~Reusable(captures'[t][i].quality)
      BY DEF DepthOnDemand
    <3>1. CASE t # track BY <1>7, <3>1 DEF DepthOnDemand
    <3>2. CASE t = track
      <4>1. Len(old) <= CapturesPerTrack BY <1>1 DEF DepthOnDemand
      <4>2. Len(Tail(old)) <= CapturesPerTrack BY <2>3, <4>1, ConstantsAssumption
      <4>3. ASSUME NEW i \in 1..Len(Tail(old)), i < Len(Tail(old))
            PROVE  ~Reusable(Tail(old)[i].quality)
        <5>1. i + 1 \in 1..Len(old) /\ i + 1 < Len(old) BY <2>3, <2>4, <4>3
        <5>2. ~Reusable(old[i + 1].quality) BY <1>1, <5>1 DEF DepthOnDemand
        <5> QED BY <2>3, <5>2
      <4> QED BY <2>1, <3>2, <4>2, <4>3
    <3> QED BY <3>1, <3>2
  <2>6. RefillNeeded'
    <3> SUFFICES ASSUME wpc \in {"read", "withdraw", "insert"}
                 PROVE  Len(captures'[wanted]) < WantedDepth(captures'[wanted])
      BY <1>3 DEF RefillNeeded
    <3>1. wanted \in Track BY DEF TypeOK, IntentType
    <3>2. CASE wanted = track
      BY <1>10, <2>1, <2>2, <3>2, TailStillShort DEF RefillNeeded
    <3>3. CASE wanted # track
      BY <1>7, <3>1, <3>3 DEF RefillNeeded
    <3> QED BY <3>2, <3>3
  <2>7. \A i \in 1..Len(old) : old[i].gen \in Nat BY <2>2, GenIsNat
  <2>8. \A i \in 1..Len(Tail(old)) : old[i + 1].gen > seen[track]
    <3> SUFFICES ASSUME NEW i \in 1..Len(Tail(old)) PROVE old[i + 1].gen > seen[track]
      OBVIOUS
    <3>1. 1 \in 1..Len(old) /\ 1 < i + 1 BY <2>3
    <3>2. old[1].gen >= seen[track] /\ old[1].gen < old[i + 1].gen
      BY <1>1, <2>4, <3>1 DEF FreshFlux
    <3> QED BY <1>1, <1>2, <2>4, <2>7, <3>1, <3>2
  <2>9. FreshFlux'
    <3> SUFFICES ASSUME NEW t \in Track, NEW i \in 1..Len(captures'[t])
                 PROVE  /\ captures'[t][i].gen >= seen[t]
                        /\ captures'[t][i].gen > retired'[t]
                        /\ captures'[t][i].gen <= generation
                        /\ \A j \in 1..Len(captures'[t]) :
                             i < j => captures'[t][i].gen < captures'[t][j].gen
      BY <1>3 DEF FreshFlux
    <3>1. CASE t # track BY <1>7, <3>1 DEF FreshFlux
    <3>2. CASE t = track
      <4>1. i + 1 \in 1..Len(old) /\ captures'[t][i] = old[i + 1] BY <2>1, <2>3, <2>4, <3>2
      <4>2. old[i + 1].gen > seen[t] /\ old[i + 1].gen >= seen[t]
        BY <1>1, <2>1, <2>8, <3>2, <4>1 DEF FreshFlux
      <4>3. old[i + 1].gen <= generation BY <1>1, <4>1 DEF FreshFlux
      <4>4. ASSUME NEW j \in 1..Len(captures'[t]), i < j
            PROVE  captures'[t][i].gen < captures'[t][j].gen
        <5>1. j + 1 \in 1..Len(old) /\ captures'[t][j] = old[j + 1] /\ i + 1 < j + 1
          <6>1. j \in 1..Len(Tail(old)) /\ i \in 1..Len(Tail(old)) BY <2>1, <3>2, <4>4
          <6>2. i + 1 < j + 1 BY <4>4, <6>1
          <6> QED BY <2>1, <2>3, <2>4, <3>2, <6>1, <6>2
        <5> QED BY <1>1, <4>1, <5>1 DEF FreshFlux
      <4> QED BY <1>8, <3>2, <4>1, <4>2, <4>3, <4>4
    <3> QED BY <3>1, <3>2
  <2>10. GenerationsIssued'
    <3>1. \A i \in 1..Len(captures'[track]) : captures'[track][i].gen <= Issued
      BY <1>1, <2>1, <2>3, <2>4 DEF GenerationsIssued
    <3>2. retired'[track] <= seen[track] BY <1>1, <1>2, <1>8
    <3> QED BY <1>3, <1>6, <1>7, <3>1, <3>2 DEF GenerationsIssued
  <2> QED BY <2>5, <2>6, <2>9, <2>10
<1> QED BY <1>9, <1>10

(* perform_write and refresh_status_if_due only empty deques.              *)
LEMMA CacheForget ==
    ASSUME TypeOK, CacheInv, Invalidate \/ RefreshClear PROVE CacheInv'
<1> USE DEF CacheInv
<1>1. /\ UNCHANGED <<seen, retired, generation>>
      /\ wpc # "insert" /\ wpc' \notin {"read", "withdraw", "insert"}
  BY DEF Invalidate, RefreshClear, clientSide, readHistory
<1>2. \A t \in Track : captures'[t] = captures[t] \/ captures'[t] = <<>>
  BY DEF Invalidate, RefreshClear, TypeOK, CacheType
<1>3. Len(<<>>) = 0 /\ Issued' = Issued BY <1>1 DEF Issued
<1>4. DepthOnDemand' BY <1>2, <1>3, ConstantsAssumption DEF DepthOnDemand
<1>5. FreshFlux' BY <1>1, <1>2, <1>3 DEF FreshFlux
<1>6. RefillNeeded' BY <1>1 DEF RefillNeeded
<1>7. GenerationsIssued' BY <1>1, <1>2, <1>3 DEF GenerationsIssued
<1> QED BY <1>4, <1>5, <1>6, <1>7

(* A capture begins because its track is short of readings, and nothing    *)
(* but the client touches the deque until its reading is inserted.         *)
LEMMA CacheCapture ==
    ASSUME TypeOK, CacheInv, CapturePosition \/ ReadOk \/ ReadFails PROVE CacheInv'
<1> USE DEF CacheInv
<1>1. /\ UNCHANGED CacheVars /\ UNCHANGED wanted
      /\ wpc # "insert" /\ wpc' \in {"select", "exit", "read", "withdraw"}
  BY DEF CapturePosition, ReadOk, ReadFails, CacheVars, clientSide, readHistory, cacheVars,
         intentVars, GoTo
<1>2. Issued' = Issued BY <1>1 DEF Issued, CacheVars
<1>3. DepthOnDemand' BY <1>1 DEF DepthOnDemand, CacheVars
<1>4. FreshFlux' BY <1>1 DEF FreshFlux, CacheVars
<1>5. GenerationsIssued' BY <1>1, <1>2 DEF GenerationsIssued, CacheVars
<1>6. wpc' \in {"read", "withdraw"} => Len(captures[wanted]) < WantedDepth(captures[wanted])
  BY <1>1 DEF CapturePosition, ReadOk, ReadFails, GoTo, CaptureNeeded, RefillNeeded
<1>7. RefillNeeded' BY <1>1, <1>6 DEF RefillNeeded, CacheVars
<1> QED BY <1>3, <1>4, <1>5, <1>7

(* capture_if_needed gives the finished reading the next generation.       *)
LEMMA CacheWithdraw ==
    ASSUME TypeOK, CacheInv, Withdraw PROVE CacheInv'
<1> USE DEF CacheInv, Withdraw
<1>1. UNCHANGED <<captures, seen, retired, wanted>>
  BY DEF clientSide, readHistory, cacheVars, intentVars
<1>2. generation \in Nat /\ generation' = generation + 1 BY DEF TypeOK, ErrorType
<1>3. Issued' = Issued BY <1>2 DEF Issued
<1>4. DepthOnDemand' BY <1>1 DEF DepthOnDemand
<1>5. FreshFlux'
  <2>1. \A t \in Track : \A i \in 1..Len(captures[t]) : captures[t][i].gen \in Nat
    BY GenIsNat DEF TypeOK, CacheType
  <2> QED BY <1>1, <1>2, <2>1 DEF FreshFlux
<1>6. GenerationsIssued' BY <1>1, <1>3 DEF GenerationsIssued
<1>7. RefillNeeded' BY <1>1 DEF RefillNeeded
<1> QED BY <1>4, <1>5, <1>6, <1>7

(* What InsertCapture leaves in the deque of the wanted track and in the   *)
(* others.                                                                 *)
LEMMA InsertEffect ==
    ASSUME TypeOK, CacheInv, InsertCapture
    PROVE  \E c \in Capture :
              /\ c.gen = generation
              /\ captures'[wanted] = Push(captures[wanted], c)
              /\ \A t \in Track \ {wanted} :
                    captures'[t] = captures[t] \/ captures'[t] = <<>>
<1> DEFINE c == [gen |-> generation, quality |-> reading.quality, bits |-> reading.bits,
                 serial |-> reading.serial, write |-> reading.write]
<1>1. c \in Capture
  BY DEF InsertCapture, TypeOK, CallType, Reading, ErrorType, Capture
<1>2. wanted \in Track BY DEF InsertCapture, TypeOK, IntentType
<1>3. PICK evicted \in Victims :
        captures' = [t \in Track |-> IF t \in evicted THEN <<>>
                                     ELSE IF t = wanted THEN Push(captures[t], c)
                                     ELSE captures[t]]
  BY DEF InsertCapture
<1>4. wanted \notin evicted BY DEF Victims
<1>5. captures'[wanted] = Push(captures[wanted], c) BY <1>2, <1>3, <1>4
<1>6. \A t \in Track \ {wanted} : captures'[t] = captures[t] \/ captures'[t] = <<>>
  BY <1>3
<1>7. c.gen = generation OBVIOUS
<1> QED BY <1>1, <1>5, <1>6, <1>7

(* capture_if_needed adds the newest reading behind those it still wanted. *)
LEMMA CacheInsert ==
    ASSUME TypeOK, CacheInv, InsertCapture PROVE CacheInv'
<1> DEFINE old == captures[wanted]
<1>1. /\ UNCHANGED <<seen, retired, generation, wanted>>
      /\ wpc = "insert" /\ wpc' = "drain"
  BY DEF InsertCapture, clientSide, readHistory, intentVars
<1>2. PICK c \in Capture :
        /\ c.gen = generation
        /\ captures'[wanted] = Push(old, c)
        /\ \A t \in Track \ {wanted} : captures'[t] = captures[t] \/ captures'[t] = <<>>
  BY InsertEffect
<1>3. wanted \in Track /\ old \in Seq(Capture) /\ Len(old) \in Nat /\ generation \in Nat
  BY <1>1 DEF TypeOK, IntentType, CacheType, ErrorType
<1>4. Len(old) < WantedDepth(old) BY <1>1 DEF CacheInv, RefillNeeded
<1>5. /\ Len(captures'[wanted]) = Len(old) + 1
      /\ Len(captures'[wanted]) <= CapturesPerTrack
      /\ \A i \in 1..Len(old) : captures'[wanted][i] = old[i]
      /\ captures'[wanted][Len(old) + 1] = c
      /\ old # <<>> => ~Reusable(old[Len(old)].quality)
  BY <1>2, <1>3, <1>4, PushShort
<1>6. Issued = generation - 1 /\ Issued' = generation BY <1>1 DEF Issued
<1>7. \A i \in 1..Len(old) : old[i].gen \in Nat BY <1>3, GenIsNat
<1>8. Len(<<>>) = 0 OBVIOUS
<1> HIDE DEF old
<1>9. DepthOnDemand'
  <2> SUFFICES ASSUME NEW t \in Track
               PROVE  /\ Len(captures'[t]) <= CapturesPerTrack
                      /\ \A i \in 1..Len(captures'[t]) :
                           i < Len(captures'[t]) => ~Reusable(captures'[t][i].quality)
    BY DEF DepthOnDemand
  <2>1. CASE t # wanted
    BY <1>2, <1>8, <2>1, ConstantsAssumption DEF CacheInv, DepthOnDemand
  <2>2. CASE t = wanted
    <3>1. ASSUME NEW i \in 1..Len(captures'[t]), i < Len(captures'[t])
          PROVE  ~Reusable(captures'[t][i].quality)
      <4>1. i \in 1..Len(old) BY <1>3, <1>5, <2>2, <3>1
      <4>2. old # <<>> BY <1>8, <4>1
      <4>3. ~Reusable(old[i].quality)
        BY <1>3, <1>5, <4>1, <4>2 DEF CacheInv, DepthOnDemand, old
      <4> QED BY <1>5, <2>2, <4>1, <4>3
    <3> QED BY <1>5, <2>2, <3>1
  <2> QED BY <2>1, <2>2
<1>10. FreshFlux'
  <2> SUFFICES ASSUME NEW t \in Track, NEW i \in 1..Len(captures'[t])
               PROVE  /\ captures'[t][i].gen >= seen[t]
                      /\ captures'[t][i].gen > retired[t]
                      /\ captures'[t][i].gen <= generation
                      /\ \A j \in 1..Len(captures'[t]) :
                           i < j => captures'[t][i].gen < captures'[t][j].gen
    BY <1>1 DEF FreshFlux
  <2>1. CASE t # wanted
    BY <1>2, <1>8, <2>1 DEF CacheInv, FreshFlux
  <2>2. CASE t = wanted /\ i \in 1..Len(old)
    <3>1. captures'[t][i] = old[i] BY <1>5, <2>2
    <3>2. /\ old[i].gen >= seen[t] /\ old[i].gen > retired[t] /\ old[i].gen <= generation
          /\ \A j \in 1..Len(old) : i < j => old[i].gen < old[j].gen
      BY <1>3, <2>2 DEF CacheInv, FreshFlux, old
    <3>3. old[i].gen <= generation - 1
      BY <1>3, <1>6, <2>2 DEF CacheInv, GenerationsIssued, old
    <3>4. ASSUME NEW j \in 1..Len(captures'[t]), i < j
          PROVE  captures'[t][i].gen < captures'[t][j].gen
      <4>1. CASE j \in 1..Len(old) BY <1>5, <2>2, <3>1, <3>2, <3>4, <4>1
      <4>2. CASE j = Len(old) + 1
        BY <1>2, <1>3, <1>5, <1>7, <2>2, <3>1, <3>3, <4>2
      <4> QED BY <1>3, <1>5, <2>2, <4>1, <4>2
    <3> QED BY <3>1, <3>2, <3>4
  <2>3. CASE t = wanted /\ i = Len(old) + 1
    <3>1. captures'[t][i] = c BY <1>5, <2>3
    <3>2. seen[t] <= generation - 1 /\ retired[t] <= seen[t]
      BY <1>6 DEF CacheInv, GenerationsIssued
    <3>3. seen[t] \in Nat /\ retired[t] \in Nat BY DEF TypeOK, HistoryType
    <3>4. ~(\E j \in 1..Len(captures'[t]) : i < j) BY <1>3, <1>5, <2>3
    <3> QED BY <1>2, <1>3, <3>1, <3>2, <3>3, <3>4
  <2> QED BY <1>3, <1>5, <2>1, <2>2, <2>3
<1>11. RefillNeeded' BY <1>1 DEF RefillNeeded
<1>12. GenerationsIssued'
  <2> SUFFICES ASSUME NEW t \in Track
               PROVE  /\ retired[t] <= seen[t] /\ seen[t] <= generation
                      /\ \A i \in 1..Len(captures'[t]) : captures'[t][i].gen <= generation
    BY <1>1, <1>6 DEF GenerationsIssued
  <2>1. seen[t] \in Nat /\ retired[t] <= seen[t] /\ seen[t] <= generation - 1
    BY <1>6 DEF CacheInv, GenerationsIssued, TypeOK, HistoryType
  <2> QED BY <1>1, <1>3, <1>10, <2>1 DEF FreshFlux
<1> QED BY <1>9, <1>10, <1>11, <1>12 DEF CacheInv

-----------------------------------------------------------------------------
(* Every step of the controller keeps the cache in order.                  *)
LEMMA CacheStep == TypeOK /\ CacheInv /\ [Next]_vars => CacheInv'
<1> SUFFICES ASSUME TypeOK, CacheInv, [Next]_vars PROVE CacheInv'
  OBVIOUS
<1> USE DEF CacheVars
<1>1. CASE Client
  <2>1. CASE Lookup BY <2>1, CacheLookup
  <2>2. CASE \E t \in ClientTracks : Advance(t) BY <2>2, CacheAdvance
  <2>3. CASE ~Lookup /\ ~(\E t \in ClientTracks : Advance(t))
    <3>1. UNCHANGED <<CacheVars, wpc, wanted>>
      BY <1>1, <2>3
      DEF Client, SetMotor, Seek, ReadTrack, SubmitWrite, NoClickStep, Nudge, StallCheck,
          StallTimeout, AdvanceWish, SubmitPlace, SubmitEnqueue, PollEvent, Drop, DropSend,
          DropJoin, cacheVars, sharedByWorker, workerVars, readHistory, historyVars
    <3> QED BY <3>1, CacheFrame
  <2> QED BY <2>1, <2>2, <2>3
<1>2. CASE Worker
  <2>1. CASE Invalidate \/ RefreshClear BY <2>1, CacheForget
  <2>2. CASE CapturePosition \/ ReadOk \/ ReadFails BY <2>2, CacheCapture
  <2>3. CASE Withdraw BY <2>3, CacheWithdraw
  <2>4. CASE InsertCapture BY <2>4, CacheInsert
  <2>5. CASE TakeCommand \/ Wake \/ PerformNoClick \/ WritePosition \/ Burn \/ Report
             \/ TakeWishes \/ ApplyTarget \/ ApplyMotorSide \/ ApplyMotor
    <3>1. /\ UNCHANGED CacheVars
          /\ wpc # "insert" /\ wpc' \notin {"read", "withdraw", "insert"}
      <4>1. commands # <<>> /\ TypeOK => NextCommand.taken.op \in {"write", "noclick", "shutdown"}
        BY HeadTailProperties
        DEF TypeOK, ChannelType, NextCommand, Command, WriteCommand, NoClickCommand
      <4> QED BY <2>5, <4>1
      DEF TakeCommand, Wake, PerformNoClick, WritePosition, Burn, Report, TakeWishes, ApplyTarget,
          ApplyMotorSide, ApplyMotor, AfterMove, GoTo, clientSide, readHistory, cacheVars
    <3> QED BY <3>1, CacheFrame
  <2>6. CASE RefreshNotDue \/ Drained \/ RefreshQuery \/ RefreshNotify \/ RefreshStore \/ CaptureSkip
             \/ ExitMotorOff \/ Stop
    <3>1. /\ UNCHANGED CacheVars
          /\ wpc # "insert" /\ wpc' \notin {"read", "withdraw", "insert"}
      BY <2>6
      DEF RefreshNotDue, Drained, RefreshQuery, RefreshNotify, RefreshStore, CaptureSkip, ExitMotorOff,
          Stop, GoTo, clientSide, readHistory, cacheVars
    <3> QED BY <3>1, CacheFrame
  <2> QED BY <1>2, <2>1, <2>2, <2>3, <2>4, <2>5, <2>6 DEF Worker
<1>3. CASE Progress
  <2>1. UNCHANGED <<CacheVars, wpc, wanted>>
    BY <1>3 DEF Progress, clientSide, readHistory, cacheVars, workerVars
  <2> QED BY <2>1, CacheFrame
<1>4. CASE ChangeDisk \/ UNCHANGED vars
  <2>1. UNCHANGED <<CacheVars, wpc, wanted>>
    BY <1>4 DEF ChangeDisk, vars, cacheVars, workerVars, historyVars, readHistory
  <2> QED BY <2>1, CacheFrame
<1> QED BY <1>1, <1>2, <1>3, <1>4 DEF Next, Finished

(* CacheInv is invariant.                                                  *)
THEOREM CacheCorrect == Spec => [](TypeOK /\ CacheInv)
<1> QED BY TypeInit, TypeStep, CacheInit, CacheStep, PTL DEF Spec

(* DepthOnDemandHolds: only retries of readings that cannot be replayed    *)
(* are stocked, and never more than CAPTURES_PER_TRACK readings.           *)
THEOREM DepthOnDemandHolds == Spec => []DepthOnDemand
<1>1. CacheInv => DepthOnDemand BY DEF CacheInv
<1> QED BY <1>1, CacheCorrect, PTL

(* FreshFluxHolds: read_track never goes back behind a reading it has      *)
(* returned, nor, after advance_revolution, returns that reading again.    *)
THEOREM FreshFluxHolds == Spec => []FreshFlux
<1>1. CacheInv => FreshFlux BY DEF CacheInv
<1> QED BY <1>1, CacheCorrect, PTL

(* The worker changes a deque in three ways only: it forgets it, it evicts *)
(* it, or it adds to its back.                                             *)
LEMMA DisplacementStep ==
    ASSUME TypeOK, CacheInv, [Next]_vars, NEW t \in Track,
           wpc' # wpc, captures[t] # <<>>, captures'[t] # <<>>
    PROVE  captures'[t][1] = captures[t][1]
<1>1. CASE UNCHANGED captures BY <1>1
<1>2. CASE Invalidate \/ RefreshClear
  <2>1. captures'[t] = captures[t] \/ captures'[t] = <<>>
    BY <1>2 DEF Invalidate, RefreshClear, TypeOK, CacheType
  <2> QED BY <2>1
<1>3. CASE InsertCapture
  <2>1. PICK c \in Capture :
          /\ captures'[wanted] = Push(captures[wanted], c)
          /\ \A u \in Track \ {wanted} : captures'[u] = captures[u] \/ captures'[u] = <<>>
    BY <1>3, InsertEffect
  <2>2. CASE t # wanted BY <2>1, <2>2
  <2>3. CASE t = wanted
    <3>1. captures[t] \in Seq(Capture) /\ Len(captures[t]) \in Nat \ {0}
      BY EmptySeq DEF TypeOK, CacheType
    <3>2. Len(captures[t]) < WantedDepth(captures[t])
      BY <1>3, <2>3 DEF InsertCapture, CacheInv, RefillNeeded
    <3> QED BY <2>1, <2>3, <3>1, <3>2, PushShort
  <2> QED BY <2>2, <2>3
<1>4. CASE Client
  <2>1. wpc' = wpc
    BY <1>4
    DEF Client, SetMotor, Seek, ReadTrack, SubmitWrite, NoClickStep, Nudge, Lookup, StallCheck,
        Advance, StallTimeout, AdvanceWish, SubmitPlace, SubmitEnqueue, PollEvent, Drop, DropSend,
        DropJoin, sharedByWorker, workerVars
  <2> QED BY <2>1
<1>5. CASE Worker /\ ~(Invalidate \/ RefreshClear \/ InsertCapture)
  <2>1. UNCHANGED captures
    BY <1>5
    DEF Worker, TakeCommand, Wake, PerformNoClick, WritePosition, Burn, Report, TakeWishes,
        ApplyTarget, ApplyMotorSide, ApplyMotor, RefreshNotDue, Drained, RefreshQuery, RefreshNotify,
        RefreshStore, CaptureSkip, CapturePosition, ReadOk, ReadFails, Withdraw, ExitMotorOff,
        Stop, cacheVars
  <2> QED BY <2>1
<1>6. CASE Progress \/ ChangeDisk \/ UNCHANGED vars
  <2>1. UNCHANGED captures BY <1>6 DEF Progress, ChangeDisk, vars, cacheVars
  <2> QED BY <2>1
<1> QED BY <1>2, <1>3, <1>4, <1>5, <1>6 DEF Next, Finished

(* NoDisplacementHolds: a reading the client has not advanced past is      *)
(* never pushed out of its deque by a newer one.                           *)
THEOREM NoDisplacementHolds == Spec => NoDisplacement
<1>1. TypeOK /\ CacheInv /\ [Next]_vars =>
        [\A t \in Track :
           wpc' # wpc /\ captures[t] # <<>> /\ captures'[t] # <<>>
             => captures'[t][1] = captures[t][1]]_vars
  BY DisplacementStep
<1> QED BY <1>1, CacheCorrect, PTL DEF NoDisplacement, Spec
-----------------------------------------------------------------------------
(* How many tracks the cache has entries for.                              *)

(* Only capture_if_needed adds an entry; perform_write and a change of     *)
(* disk remove entries together with their deques.                         *)
LEMMA KeysForget ==
    ASSUME TypeOK, KeysFinite, Invalidate \/ RefreshClear PROVE KeysFinite'
<1>1. /\ keys' \subseteq keys
      /\ \A t \in Track \ keys' : (captures'[t] = captures[t] /\ t \notin keys) \/ captures'[t] = <<>>
  BY DEF Invalidate, RefreshClear, TypeOK, CacheType
<1>2. IsFiniteSet(keys') /\ Cardinality(keys') <= Cardinality(keys)
  BY <1>1, FS_Subset DEF KeysFinite
<1>3. Cardinality(keys) \in Nat /\ Cardinality(keys') \in Nat
  BY <1>2, FS_CardinalityType DEF KeysFinite
<1> QED BY <1>1, <1>2, <1>3, ConstantsAssumption DEF KeysFinite, CacheBounded

(* A full cache gives up one entry before another track gets its own.      *)
LEMMA KeysInsert ==
    ASSUME TypeOK, KeysFinite, InsertCapture PROVE KeysFinite'
<1>1. wanted \in Track /\ keys \subseteq Track BY DEF InsertCapture, TypeOK, IntentType, CacheType
<1>2. PICK evicted \in Victims :
        /\ keys' = (keys \ evicted) \cup {wanted}
        /\ \A t \in Track : /\ t \in evicted => captures'[t] = <<>>
                            /\ t \notin evicted /\ t # wanted => captures'[t] = captures[t]
  BY DEF InsertCapture
<1>3. \A t \in Track \ keys' : captures'[t] = <<>>
  BY <1>2 DEF KeysFinite, CacheBounded
<1>4. IsFiniteSet(keys) /\ Cardinality(keys) \in Nat /\ Cardinality(keys) <= MaxCachedTracks
  BY FS_CardinalityType DEF KeysFinite, CacheBounded
<1>5. CASE Cardinality(keys) >= MaxCachedTracks /\ wanted \notin keys
  <2>1. PICK k \in keys : evicted = {k} BY <1>2, <1>5 DEF Victims
  <2>2. IsFiniteSet(keys \ {k}) /\ Cardinality(keys \ {k}) = Cardinality(keys) - 1
    BY <1>4, <2>1, FS_RemoveElement
  <2>3. IsFiniteSet(keys') /\ Cardinality(keys') = Cardinality(keys \ {k}) + 1
    BY <1>2, <1>5, <2>1, <2>2, FS_AddElement
  <2> QED BY <1>3, <1>4, <2>2, <2>3 DEF KeysFinite, CacheBounded
<1>6. CASE ~(Cardinality(keys) >= MaxCachedTracks /\ wanted \notin keys)
  <2>1. keys' = keys \cup {wanted} BY <1>2, <1>6 DEF Victims
  <2>2. CASE wanted \in keys
    <3>1. keys' = keys BY <2>1, <2>2
    <3> QED BY <1>3, <1>4, <3>1 DEF KeysFinite, CacheBounded
  <2>3. CASE wanted \notin keys
    <3>1. IsFiniteSet(keys') /\ Cardinality(keys') = Cardinality(keys) + 1
      BY <1>4, <2>1, <2>3, FS_AddElement
    <3>2. Cardinality(keys) < MaxCachedTracks BY <1>4, <1>6, <2>3, ConstantsAssumption
    <3>3. Cardinality(keys') <= MaxCachedTracks BY <1>4, <3>1, <3>2, ConstantsAssumption
    <3> QED BY <1>3, <3>1, <3>3 DEF KeysFinite, CacheBounded
  <2> QED BY <2>2, <2>3
<1> QED BY <1>5, <1>6

(* advance_revolution may leave an empty entry behind, never a deque       *)
(* without an entry.                                                       *)
LEMMA KeysAdvance ==
    ASSUME TypeOK, KeysFinite, NEW t0 \in ClientTracks, Advance(t0) PROVE KeysFinite'
<1>1. keys' = keys BY DEF Advance
<1>2. \A t \in Track : captures[t] = <<>> => captures'[t] = <<>>
  BY DEF Advance, TypeOK, CacheType
<1> QED BY <1>1, <1>2 DEF KeysFinite, CacheBounded

LEMMA KeysStep == TypeOK /\ KeysFinite /\ [Next]_vars => KeysFinite'
<1> SUFFICES ASSUME TypeOK, KeysFinite, [Next]_vars PROVE KeysFinite'
  OBVIOUS
<1>1. CASE UNCHANGED cacheVars
  BY <1>1 DEF KeysFinite, CacheBounded, cacheVars
<1>2. CASE ~ UNCHANGED cacheVars
  <2>1. \/ \E t \in ClientTracks : Advance(t)
        \/ Invalidate \/ RefreshClear \/ InsertCapture
    BY <1>2
    DEF Next, Finished, Client, SetMotor, Seek, ReadTrack, SubmitWrite, NoClickStep, Nudge, Lookup,
        StallCheck, StallTimeout, AdvanceWish, SubmitPlace, SubmitEnqueue, PollEvent, Drop,
        DropSend, DropJoin, Worker, TakeCommand, Wake, PerformNoClick, WritePosition, Burn, Report,
        TakeWishes, ApplyTarget, ApplyMotorSide, ApplyMotor, RefreshNotDue, Drained, RefreshQuery,
        RefreshNotify, RefreshStore, CaptureSkip, CapturePosition, ReadOk, ReadFails, Withdraw,
        ExitMotorOff, Stop, Progress, ChangeDisk, vars
  <2> QED BY <2>1, KeysAdvance, KeysForget, KeysInsert
<1> QED BY <1>1, <1>2

(* CacheBoundedHolds: in any order of captures, writes, advances and       *)
(* changes of disk, MAX_CACHED_TRACKS bounds the entries of the cache, and *)
(* no reading is held outside them.                                        *)
THEOREM CacheBoundedHolds == Spec => []CacheBounded
<1>1. Init => KeysFinite
  BY FS_EmptySet, ConstantsAssumption DEF Init, KeysFinite, CacheBounded
<1>2. KeysFinite => CacheBounded BY DEF KeysFinite
<1> QED BY <1>1, <1>2, TypeInit, TypeStep, KeysStep, PTL DEF Spec

-----------------------------------------------------------------------------
(* The cache and the disk.                                                 *)

(* note_error and position publish something, but never a disk.            *)
LEMMA PresenceKept ==
    ASSUME StatusType,
           \/ \E t : PositionOk(t)
           \/ \E k : NoteError(k)
           \/ UNCHANGED status
           \/ \E b : status' = [status EXCEPT !.motor = b]
           \/ status' = [status EXCEPT !.working = FALSE]
    PROVE  status'.present = status.present
BY DEF PositionOk, NoteError, StatusType, Status

LEMMA DiskStep == TypeOK /\ DiskInv /\ [Next]_vars => DiskInv'
<1> SUFFICES ASSUME TypeOK, DiskInv, [Next]_vars PROVE DiskInv'
  OBVIOUS
<1> USE DEF TypeOK, DiskInv, NoReadingWithoutDisk
<1>1. CASE Client \/ Progress \/ ChangeDisk \/ UNCHANGED vars
  <2>1. UNCHANGED <<wpc, status, keys, snapshot>>
    BY <1>1
    DEF Client, SetMotor, Seek, ReadTrack, SubmitWrite, NoClickStep, Nudge, Lookup, StallCheck,
        Advance, StallTimeout, AdvanceWish, SubmitPlace, SubmitEnqueue, PollEvent, Drop, DropSend,
        DropJoin, Progress, ChangeDisk, vars, sharedByWorker, workerVars, cacheVars
  <2> QED BY <2>1
<1>2. CASE TakeCommand
  <2>1. NextCommand.taken \in Command
    BY <1>2 DEF TakeCommand, NextCommand, ChannelType
  <2>2. wpc' \in {"exit", "write", "noclick"} /\ UNCHANGED <<status, keys>>
    BY <1>2, <2>1 DEF TakeCommand, Command, WriteCommand, NoClickCommand, cacheVars
  <2> QED BY <2>2
<1>3. CASE Wake \/ PerformNoClick \/ WritePosition \/ Burn \/ Report \/ TakeWishes
           \/ ApplyTarget \/ ApplyMotorSide \/ ApplyMotor \/ RefreshNotDue \/ Drained \/ CaptureSkip
           \/ ExitMotorOff \/ Stop \/ ReadFails
  <2>1. /\ wpc' \notin {"clear", "notify", "store", "read", "withdraw", "insert"}
        /\ keys' = keys
    BY <1>3 DEF Wake, PerformNoClick, WritePosition, Burn, Report, TakeWishes, ApplyTarget,
                ApplyMotorSide, ApplyMotor, RefreshNotDue, Drained, CaptureSkip, ExitMotorOff, Stop,
                ReadFails, AfterMove, GoTo, cacheVars
  <2>2. status'.present = status.present
    BY <1>3, PresenceKept
       DEF Wake, PerformNoClick, WritePosition, Burn, Report, TakeWishes, ApplyTarget,
           ApplyMotorSide, ApplyMotor, RefreshNotDue, Drained, CaptureSkip, ExitMotorOff, Stop, ReadFails
  <2> QED BY <2>1, <2>2
<1>4. CASE Invalidate \/ RefreshClear
  <2>1. /\ keys' \subseteq keys /\ status' = status
        /\ wpc' \in {"report", "notify"} /\ (wpc' = "notify" => keys' = {})
    BY <1>4 DEF Invalidate, RefreshClear
  <2> QED BY <2>1
<1>5. CASE RefreshQuery
  <2>1. CASE wpc' \in {"clear", "store"} /\ UNCHANGED status /\ UNCHANGED keys
             /\ (wpc' = "store" => snapshot'.present = status.present)
    BY <2>1
  <2>2. CASE (\E k \in ErrorKinds : NoteError(k)) /\ GoTo("capture")
    <3>1. status'.present = status.present /\ keys' = keys
      BY <1>5, <2>2, PresenceKept DEF RefreshQuery, cacheVars
    <3> QED BY <2>2, <3>1 DEF GoTo
  <2> QED BY <1>5, <2>1, <2>2 DEF RefreshQuery, PresenceChanged, cacheVars
<1>6. CASE RefreshNotify \/ RefreshStore
  BY <1>6 DEF RefreshNotify, RefreshStore, cacheVars, callVars
<1>7. CASE CapturePosition
  <2>1. status'.present = status.present /\ keys' = keys /\ status.present
    BY <1>7, PresenceKept DEF CapturePosition, CaptureNeeded, cacheVars
  <2> QED BY <1>7, <2>1 DEF CapturePosition, GoTo
<1>8. CASE ReadOk
  <2>1. status'.present = status.present /\ keys' = keys /\ wpc = "read"
    BY <1>8, PresenceKept DEF ReadOk, cacheVars
  <2> QED BY <1>8, <2>1 DEF ReadOk, GoTo
<1>9. CASE Withdraw \/ InsertCapture
  BY <1>9 DEF Withdraw, InsertCapture, cacheVars
<1> QED BY <1>1, <1>2, <1>3, <1>4, <1>5, <1>6, <1>7, <1>8, <1>9 DEF Next, Finished, Worker

(* NoReadingWithoutDiskHolds: between the sample that shows the disk gone  *)
(* and its publication no reading slips back into the cache, for any       *)
(* disks, errors and steps of the client.                                  *)
THEOREM NoReadingWithoutDiskHolds == Spec => []NoReadingWithoutDisk
<1>1. Init => DiskInv BY DEF Init, DiskInv, NoReadingWithoutDisk
<1>2. DiskInv => NoReadingWithoutDisk BY DEF DiskInv
<1> QED BY <1>1, <1>2, TypeInit, TypeStep, DiskStep, PTL DEF Spec
=============================================================================
