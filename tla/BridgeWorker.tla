---------------------------- MODULE BridgeWorker ----------------------------
(***************************************************************************)
(* The `Worker` thread of src/src/controller.rs, and the device it calls.  *)
(* `wpc` names the phase of `run` and the point in it.  A lock region, a   *)
(* channel operation or a device call that the client can tell apart is a  *)
(* step of its own; what touches only the worker's own fields is merged with *)
(* the step it belongs to.  A device call answers, refuses with one of     *)
(* ErrorKinds or, with LostAcks, acts although its answer is lost.         *)
(***************************************************************************)
EXTENDS BridgeState

(* Worker: errors and events.                                              *)
clientSide == <<clientVars, readHistory, motorWish, accepted, polled>>

RoomForEvent == Len(events) < EventCapacity
(* events.try_send, its result ignored: a full channel drops the event.    *)
TryEvent(e) == events' = IF RoomForEvent THEN Append(events, e) ELSE events

Fatal(k) == k \in {"Disconnected", "WorkerStopped"}

(* note_error and disconnect.                                              *)
NoteError(k) ==
    /\ errors' = errors + 1
    /\ IF Fatal(k) \/ errors' >= MaxConsecutiveErrors
         THEN /\ failed' = TRUE
              /\ status' = [status EXCEPT !.working = FALSE]
              /\ TryEvent([kind |-> "disconnected"])
         ELSE UNCHANGED <<failed, status, events>>

GoToRegardless(pc) == wpc' = pc   \* mutant: a failed phase does not end the loop
(* The loop leaves for its last act as soon as a phase has failed.         *)
GoTo(pc) == wpc' = IF failed' THEN "exit" ELSE pc

-----------------------------------------------------------------------------
(* Worker::position.  The device moves only what the recorded physical     *)
(* position says has to move.                                              *)
NeedSeek(t) == ~positioned \/ physical.cyl # t.cyl
NeedSideKnown(t) ==   \* mutant: the side is taken to be known from the start
    positioned /\ physical.side # t.side
NeedSide(t) == ~positioned \/ physical.side # t.side

PositionOk(t) ==
    /\ head' = [cyl |-> IF NeedSeek(t) THEN t.cyl ELSE head.cyl,
                side |-> IF NeedSide(t) THEN t.side ELSE head.side]
    /\ physical' = t
    /\ positioned' = TRUE
    /\ status' = [status EXCEPT !.at = t]

(* device.seek or device.select_side returns an error: `?` leaves with     *)
(* what is confirmed so far.  With LostAcks the head may have moved.       *)
PositionFails(t) ==
    /\ \/ /\ NeedSeek(t)
          /\ head' \in {head} \cup (IF LostAcks THEN {[head EXCEPT !.cyl = t.cyl]} ELSE {})
          /\ UNCHANGED physical
       \/ /\ NeedSide(t)
          /\ LET sought == IF NeedSeek(t) THEN [head EXCEPT !.cyl = t.cyl] ELSE head IN
               head' \in {sought} \cup (IF LostAcks THEN {[sought EXCEPT !.side = t.side]} ELSE {})
          /\ physical' = [physical EXCEPT !.cyl = t.cyl]
    /\ UNCHANGED positioned

-----------------------------------------------------------------------------
(* Worker::run: waiting for, and draining, commands.                       *)

NewestCommand ==   \* mutant: the newest command is served first
    [taken |-> commands[Len(commands)], left |-> SubSeq(commands, 1, Len(commands) - 1)]
NextCommand == [taken |-> Head(commands), left |-> Tail(commands)]
(* recv from the command channel, in select! or by try_recv: the beginning *)
(* of process.                                                             *)
TakeCommand ==
    /\ wpc \in {"select", "drain"}
    /\ commands # <<>>
    /\ commands' = NextCommand.left
    /\ LET c == NextCommand.taken IN
         /\ command' = IF c.op = "shutdown" THEN None ELSE c
         /\ wpc' = IF c.op = "shutdown" THEN "exit" ELSE c.op
    /\ UNCHANGED <<clientSide, wishVars, events, status, cacheVars, partial, intentVars,
                   positionVars, errorVars, generation, wish, result, snapshot, reading,
                   driveVars, answered>>

(* select! on the nudge channel, or its 5 ms default if nothing is ready.  *)
Wake ==
    /\ wpc = "select"
    /\ nudge \/ commands = <<>>
    /\ nudge' = FALSE
    /\ wpc' = "drain"
    /\ UNCHANGED <<clientSide, desired, commands, events, status, cacheVars, partial,
                   intentVars, positionVars, errorVars, generation, callVars, driveVars, answered>>

(* process(NoClick): select_side, then no_click_step; neither touches the  *)
(* recorded physical position.                                             *)
PerformNoClick ==
    /\ wpc = "noclick"
    /\ LET turned == [head EXCEPT !.side = command.side] IN
         \/ /\ head' = turned
            /\ UNCHANGED <<errorVars, status, events>>
         \/ \E k \in ErrorKinds :
              /\ head' \in {head, turned}
              /\ NoteError(k)
    /\ command' = None
    /\ GoTo("drain")
    /\ UNCHANGED <<clientSide, wishVars, commands, cacheVars, partial, intentVars, physical,
                   positioned, generation, wish, result, snapshot, reading, driveVars, answered>>

(* perform_write: restore both coordinates.                                *)
WritePosition ==
    /\ wpc = "write"
    /\ \/ /\ PositionOk(command.request.track)
          /\ wpc' = "burn"
          /\ UNCHANGED result
       \/ /\ ErrorKinds # {}
          /\ PositionFails(command.request.track)
          /\ wpc' = "forget" /\ result' = "failed"
          /\ UNCHANGED status
    /\ UNCHANGED <<clientSide, wishVars, commands, events, cacheVars, partial, intentVars,
                   errorVars, generation, wish, command, snapshot, reading, driveVars, answered>>

(* perform_write: the placement check, then device.write_track, which      *)
(* lands under the real head.  A failed write may have altered the track.  *)
Burn ==
    /\ wpc = "burn"
    /\ LET r == command.request
           deque == captures[r.track]
           trackBits == IF deque = <<>> THEN r.bits ELSE deque[1].bits
       IN IF ~Placeable(r.start, r.bits, trackBits)
            THEN result' = "failed" /\ UNCHANGED platter
            ELSE \/ /\ ~disk.protected
                    /\ result' = "completed"
                    /\ platter' = [platter EXCEPT ![head] = command.id]
                 \/ /\ disk.protected \/ ErrorKinds # {}
                    /\ result' = "failed"
                    /\ \/ UNCHANGED platter
                       \/ ~disk.protected /\ platter' = [platter EXCEPT ![head] = command.id]
    /\ wpc' = "forget"
    /\ UNCHANGED <<clientSide, wishVars, commands, events, status, cacheVars, partial, intentVars,
                   positionVars, errorVars, generation, wish, command, snapshot, reading,
                   spindle, motorRunning, disk, serial, answered>>

InvalidateCompleted ==   \* mutant: only a completed write forgets the readings
    /\ wpc = "forget"
    /\ IF result = "completed"
         THEN /\ captures' = [captures EXCEPT ![command.request.track] = <<>>]
              /\ keys' = keys \ {command.request.track}
         ELSE UNCHANGED cacheVars
    /\ wpc' = "report"
    /\ UNCHANGED <<clientSide, wishVars, commands, events, status, partial, intentVars,
                   positionVars, errorVars, generation, callVars, driveVars, answered>>
(* perform_write: whatever the result, the track's readings are forgotten. *)
Invalidate ==
    /\ wpc = "forget"
    /\ captures' = [captures EXCEPT ![command.request.track] = <<>>]
    /\ keys' = keys \ {command.request.track}
    /\ wpc' = "report"
    /\ UNCHANGED <<clientSide, wishVars, commands, events, status, partial, intentVars,
                   positionVars, errorVars, generation, callVars, driveVars, answered>>

(* perform_write: WriteCompleted or WriteFailed.                           *)
Report ==
    /\ wpc = "report"
    /\ TryEvent([kind |-> "write", id |-> command.id, ok |-> result = "completed"])
    /\ answered' = IF RoomForEvent THEN answered \cup {command.id} ELSE answered
    /\ command' = None /\ result' = None
    /\ wpc' = "drain"
    /\ UNCHANGED <<clientSide, wishVars, commands, status, cacheVars, partial, intentVars,
                   positionVars, errorVars, generation, wish, snapshot, reading, driveVars>>

-----------------------------------------------------------------------------
(* Worker::apply_desired.                                                  *)

(* try_recv finds no command left.                                         *)
Drained ==
    /\ wpc = "drain" /\ commands = <<>>
    /\ wpc' = "wishes"
    /\ UNCHANGED <<clientSide, wishVars, commands, events, status, cacheVars, partial, intentVars,
                   positionVars, errorVars, generation, callVars, driveVars, answered>>

(* take() all three wishes under one lock.                                 *)
TakeWishes ==
    /\ wpc = "wishes"
    /\ desired' = NoWish
    /\ wanted' = IF desired.wanted = None THEN wanted ELSE desired.wanted
    /\ target' = IF desired.target = None THEN target ELSE desired.target
    /\ wish' = desired.motor
    /\ wpc' = CASE desired.target # None -> "move"
                [] desired.target = None /\ desired.motor # None -> "turn"
                [] OTHER -> "refresh"
    /\ UNCHANGED <<clientSide, nudge, commands, events, status, cacheVars, partial, positionVars,
                   errorVars, generation, command, result, snapshot, reading, driveVars, answered>>

AfterMoveDone == "refresh"   \* mutant: a head wish hides the motor wish
AfterMove == IF wish # None THEN "turn" ELSE "refresh"
(* The head wish.  An error returns from apply_desired at once.            *)
ApplyTarget ==
    /\ wpc = "move"
    /\ \/ /\ PositionOk(target)
          /\ errors' = 0
          /\ wpc' = AfterMove
          /\ UNCHANGED <<failed, events, wish>>
       \/ /\ PositionFails(target)
          /\ \E k \in ErrorKinds : NoteError(k)
          /\ wish' = None
          /\ GoTo("refresh")
    /\ UNCHANGED <<clientSide, wishVars, commands, cacheVars, partial, intentVars, generation,
                   command, result, snapshot, reading, driveVars, answered>>

(* The motor wish: the drive is addressed on the side it names.            *)
MotorTrack == [cyl |-> target.cyl, side |-> wish.side]
ApplyMotorSide ==
    /\ wpc = "turn"
    /\ \/ /\ PositionOk(MotorTrack)
          /\ wpc' = "motor"
          /\ UNCHANGED <<errorVars, events, wish>>
       \/ /\ PositionFails(MotorTrack)
          /\ \E k \in ErrorKinds : NoteError(k)
          /\ wish' = None
          /\ GoTo("refresh")
    /\ UNCHANGED <<clientSide, wishVars, commands, cacheVars, partial, intentVars, generation,
                   command, result, snapshot, reading, driveVars, answered>>

(* device.set_motor may fail before the spindle obeys, or after it: with   *)
(* the answer lost, or recorded and the selection that follows refused.    *)
ApplyMotor ==
    /\ wpc = "motor"
    /\ \/ /\ spindle' = wish.on /\ motorRunning' = wish.on
          /\ status' = [status EXCEPT !.motor = wish.on]
          /\ errors' = 0
          /\ UNCHANGED <<failed, events>>
       \/ /\ \/ UNCHANGED <<spindle, motorRunning>>
             \/ LostAcks /\ spindle' = wish.on /\ UNCHANGED motorRunning
             \/ spindle' = wish.on /\ motorRunning' = wish.on
          /\ \E k \in ErrorKinds : NoteError(k)
    /\ wish' = None
    /\ GoTo("refresh")
    /\ UNCHANGED <<clientSide, wishVars, commands, cacheVars, partial, intentVars, positionVars,
                   generation, command, result, snapshot, reading, disk, serial, platter, answered>>

-----------------------------------------------------------------------------
(* Worker::refresh_status_if_due.                                          *)

(* The 250 ms have not passed.                                             *)
RefreshNotDue ==
    /\ wpc = "refresh"
    /\ wpc' = "capture"
    /\ UNCHANGED <<clientSide, wishVars, commands, events, status, cacheVars, partial, intentVars,
                   positionVars, errorVars, generation, callVars, driveVars, answered>>

DiskInserted == disk.present /\ ~status.present   \* mutant: a removal goes unnoticed
PresenceChanged == disk.present # status.present
(* device.status(): a fresh sample of the disk, with the motor as the      *)
(* device has it on record and the recorded position; or an error.         *)
RefreshQuery ==
    /\ wpc = "refresh"
    /\ \/ /\ snapshot' = [working |-> TRUE, motor |-> motorRunning, present |-> disk.present,
                          protected |-> disk.protected, at |-> physical]
          /\ wpc' = IF PresenceChanged THEN "clear" ELSE "store"
          /\ UNCHANGED <<errorVars, status, events>>
       \/ /\ \E k \in ErrorKinds : NoteError(k)
          /\ GoTo("capture")
          /\ UNCHANGED snapshot
    /\ UNCHANGED <<clientSide, wishVars, commands, cacheVars, partial, intentVars, positionVars,
                   generation, wish, command, result, reading, driveVars, answered>>

(* A disk came or went: every reading is of another disk.                  *)
RefreshClear ==
    /\ wpc = "clear"
    /\ captures' = [t \in Track |-> <<>>] /\ keys' = {}
    /\ wpc' = "notify"
    /\ UNCHANGED <<clientSide, wishVars, commands, events, status, partial, intentVars,
                   positionVars, errorVars, generation, callVars, driveVars, answered>>

RefreshNotify ==
    /\ wpc = "notify"
    /\ TryEvent([kind |-> "disk", present |-> snapshot.present])
    /\ wpc' = "store"
    /\ UNCHANGED <<clientSide, wishVars, commands, status, cacheVars, partial, intentVars,
                   positionVars, errorVars, generation, callVars, driveVars, answered>>

RefreshStore ==
    /\ wpc = "store"
    /\ status' = snapshot
    /\ snapshot' = None
    /\ errors' = 0
    /\ wpc' = "capture"
    /\ UNCHANGED <<clientSide, wishVars, commands, events, cacheVars, partial, intentVars,
                   positionVars, failed, generation, wish, command, result, reading, driveVars,
                   answered>>

-----------------------------------------------------------------------------
(* Worker::capture_if_needed.                                              *)

(* The early returns, negated: the drive can read, the demanded track is   *)
(* where the head belongs, and its deque is short of what is wanted.       *)
CaptureNeeded ==
    /\ status.working /\ status.motor /\ status.present
    /\ wanted # None /\ wanted = target
    /\ Len(captures[wanted]) < WantedDepth(captures[wanted])

CaptureSkip ==
    /\ wpc = "capture" /\ ~CaptureNeeded
    /\ wpc' = "select"
    /\ UNCHANGED <<clientSide, wishVars, commands, events, status, cacheVars, partial, intentVars,
                   positionVars, errorVars, generation, callVars, driveVars, answered>>

CapturePosition ==
    /\ wpc = "capture" /\ CaptureNeeded
    /\ \/ /\ PositionOk(wanted)
          /\ wpc' = "read"
          /\ UNCHANGED <<errorVars, events>>
       \/ /\ PositionFails(wanted)
          /\ \E k \in ErrorKinds : NoteError(k)
          /\ GoTo("select")
    /\ UNCHANGED <<clientSide, wishVars, commands, cacheVars, partial, intentVars, generation,
                   callVars, driveVars, answered>>

(* The progress callback the device is handed: whatever it has decoded.    *)
Progress ==
    /\ wpc = "read"
    /\ \E len \in 0..MaxProgress : partial' = [track |-> wanted, len |-> len]
    /\ UNCHANGED <<clientSide, wishVars, commands, events, status, cacheVars, workerVars,
                   head, driveVars, answered>>

(* device.read_track returns a revolution of whatever is under the head.   *)
(* device::validate_capture: a length no track can have is a device error. *)
ValidateCapture(bits) == bits >= 64 /\ bits <= MaxTrackBits
ReadOk ==
    /\ wpc = "read" /\ generation < MaxGenerations
    /\ \E bits \in CaptureLengths, q \in Qualities :
         IF ValidateCapture(bits)
           THEN /\ reading' = [quality |-> q, bits |-> bits,
                               serial |-> serial, write |-> platter[head]]
                /\ wpc' = "withdraw"
                /\ UNCHANGED <<errorVars, status, events>>
           ELSE /\ NoteError("Protocol")
                /\ GoTo("select")
                /\ UNCHANGED reading
    /\ UNCHANGED <<clientSide, wishVars, commands, cacheVars, partial, intentVars, positionVars,
                   generation, wish, command, result, snapshot, driveVars, answered>>

(* No index came round (a Timeout, not counted), or a device error.        *)
ReadFails ==
    /\ wpc = "read"
    /\ \/ UNCHANGED <<errorVars, status, events>>
       \/ \E k \in ErrorKinds \ {"Timeout"} : NoteError(k)
    /\ GoTo("select")
    /\ UNCHANGED <<clientSide, wishVars, commands, cacheVars, partial, intentVars, positionVars,
                   generation, callVars, driveVars, answered>>

(* The finished revolution withdraws the partial it grew from.             *)
Withdraw ==
    /\ wpc = "withdraw"
    /\ partial' = None
    /\ errors' = 0
    /\ generation' = generation + 1
    /\ wpc' = "insert"
    /\ UNCHANGED <<clientSide, wishVars, commands, events, status, cacheVars, intentVars,
                   positionVars, failed, callVars, driveVars, answered>>

(* The entries capture_if_needed may evict, any one of them: HashMap order.*)
VictimsPastLimit ==   \* mutant: the limit off by one
    IF Cardinality(keys) > MaxCachedTracks /\ wanted \notin keys THEN {{k} : k \in keys} ELSE {{}}
Victims ==
    IF Cardinality(keys) >= MaxCachedTracks /\ wanted \notin keys THEN {{k} : k \in keys} ELSE {{}}

PushFront(deque, c) ==   \* mutant: the new reading is served first
    <<c>> \o (IF Len(deque) >= CapturesPerTrack THEN Tail(deque) ELSE deque)
Push(deque, c) ==
    Append(IF Len(deque) >= CapturesPerTrack THEN Tail(deque) ELSE deque, c)

(* The cache lock: evict another track if the cache is full of others,     *)
(* bound the deque, push the reading; then straight round the loop.        *)
InsertCapture ==
    /\ wpc = "insert"
    /\ LET c == [gen |-> generation, quality |-> reading.quality, bits |-> reading.bits,
                 serial |-> reading.serial, write |-> reading.write]
       IN \E evicted \in Victims :
            /\ keys' = (keys \ evicted) \cup {wanted}
            /\ captures' = [t \in Track |-> IF t \in evicted THEN <<>>
                                            ELSE IF t = wanted THEN Push(captures[t], c)
                                            ELSE captures[t]]
    /\ reading' = None
    /\ wpc' = "drain"
    /\ UNCHANGED <<clientSide, wishVars, commands, events, status, partial, intentVars,
                   positionVars, errorVars, generation, wish, command, result, snapshot,
                   driveVars, answered>>

-----------------------------------------------------------------------------
(* The end of run: set_motor(false), its result ignored; then the shared   *)
(* status, and the worker's ends of the channels are dropped.              *)
ExitMotorOff ==
    /\ wpc = "exit"
    /\ \/ spindle' = FALSE /\ motorRunning' = FALSE
       \/ ErrorKinds # {} /\ UNCHANGED <<spindle, motorRunning>>
    /\ wpc' = "stop"
    /\ UNCHANGED <<clientSide, wishVars, commands, events, status, cacheVars, partial, intentVars,
                   positionVars, errorVars, generation, callVars, disk, serial, platter, answered>>

Stop ==
    /\ wpc = "stop"
    /\ status' = [status EXCEPT !.working = FALSE]
    /\ commands' = <<>>
    /\ wpc' = "done"
    /\ UNCHANGED <<clientSide, wishVars, events, cacheVars, partial, intentVars, positionVars,
                   errorVars, generation, callVars, driveVars, answered>>

Worker ==
    \/ TakeCommand \/ Wake \/ PerformNoClick
    \/ WritePosition \/ Burn \/ Invalidate \/ Report
    \/ Drained \/ TakeWishes \/ ApplyTarget \/ ApplyMotorSide \/ ApplyMotor
    \/ RefreshNotDue \/ RefreshQuery \/ RefreshClear \/ RefreshNotify \/ RefreshStore
    \/ CaptureSkip \/ CapturePosition \/ ReadOk \/ ReadFails
    \/ Withdraw \/ InsertCapture
    \/ ExitMotorOff \/ Stop
=============================================================================
