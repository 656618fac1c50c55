---------------------------- MODULE BridgeState -----------------------------
(***************************************************************************)
(* The state the bridge controller works on (src/src/controller.rs): the   *)
(* fields of the client's `Bridge` handle and of the `Worker` thread that  *)
(* owns the drive, what the two share under locks and over channels, and   *)
(* the drive itself.  BridgeClient and BridgeWorker act on it; Controller  *)
(* composes them.                                                          *)
(***************************************************************************)
EXTENDS Integers, Sequences, FiniteSets

CONSTANTS
    None,                 \* Option::None
    MaxCylinders,         \* DriveStatus::max_cylinders, read once at open
    CommandCapacity,      \* COMMAND_CAPACITY
    EventCapacity,        \* EVENT_CAPACITY
    CapturesPerTrack,     \* CAPTURES_PER_TRACK
    MaxCachedTracks,      \* MAX_CACHED_TRACKS
    MaxConsecutiveErrors, \* MAX_CONSECUTIVE_ERRORS
    MaxTrackBits,         \* flux::MAX_TRACK_BITS
    Stalling,             \* config.mode = ReadMode::Stalling
    \* what the client and the drive do in an instance
    ClientOps,            \* the Bridge methods the client calls
    ClientTracks,         \* the tracks it names, before clamping
    MotorWishes,          \* the set_motor arguments it passes
    WriteRequests,        \* the requests it submits
    CaptureLengths,       \* the bit lengths a revolution may have
    Qualities,            \* the CaptureQuality values readings get
    ErrorKinds,           \* the Error variants device calls may return
    LostAcks,             \* may a command act although its answer is lost?
    Media,                \* the disks that may be in the drive
    \* bounds of an instance
    MaxGenerations, MaxWrites, MaxMediaChanges, MaxProgress

-----------------------------------------------------------------------------
Sides == {"Lower", "Upper"}

(* clamp_track: min(cylinder, max_cylinders.saturating_sub(1)).            *)
LastCylinder == IF MaxCylinders = 0 THEN 0 ELSE MaxCylinders - 1
Track == [cyl : 0..LastCylinder, side : Sides]
ClampOffByOne(t) ==   \* mutant: the cylinder count taken for the last cylinder
    [t EXCEPT !.cyl = IF t.cyl < MaxCylinders THEN t.cyl ELSE MaxCylinders]
ClampTrack(t) ==
    [t EXCEPT !.cyl = IF t.cyl < LastCylinder THEN t.cyl ELSE LastCylinder]
DefaultTrack == [cyl |-> 0, side |-> "Lower"]

AllOps == {"motor", "seek", "read", "advance", "write", "noclick", "poll", "drop"}
AllQualities == {"IndexAligned", "VerifiedAmigaDos", "Unverified"}
AllErrors == {"Protocol", "Timeout", "Disconnected"}   \* "Protocol": all that just count
Request == [track : [cyl : Nat, side : Sides], words : Nat, bits : Nat, start : Nat]

(* A disk: what the drive's sensors tell about it.                         *)
Disk == [present : BOOLEAN, protected : BOOLEAN]

ASSUME ConstantsAssumption ==
    /\ MaxCylinders \in Nat
    /\ CommandCapacity \in Nat \ {0}
    /\ EventCapacity \in Nat \ {0}
    /\ CapturesPerTrack \in Nat \ {0}
    /\ MaxCachedTracks \in Nat \ {0}
    /\ MaxConsecutiveErrors \in Nat \ {0}
    /\ MaxTrackBits \in Nat
    /\ Stalling \in BOOLEAN
    /\ ClientOps \subseteq AllOps
    /\ ClientTracks \subseteq [cyl : Nat, side : Sides]
    /\ MotorWishes \subseteq [side : Sides, on : BOOLEAN]
    /\ WriteRequests \subseteq Request
    /\ CaptureLengths \subseteq Nat \ {0}
    /\ Qualities \subseteq AllQualities
    /\ ErrorKinds \subseteq AllErrors
    /\ LostAcks \in BOOLEAN
    /\ Media \subseteq Disk
    /\ {MaxGenerations, MaxWrites, MaxMediaChanges, MaxProgress} \subseteq Nat

ASSUME NoneAssumption ==
    /\ None \notin Track
    /\ None \notin [side : Sides, on : BOOLEAN]
    /\ None \notin [id : Nat, track : Track]
    /\ None \notin {"completed", "failed"}

(* A completed reading.  `serial` and `write` say which disk and which     *)
(* write of the track the flux came from: the words, as far as the         *)
(* properties can tell them apart.                                         *)
Capture == [gen : Nat, quality : AllQualities, bits : Nat, serial : Nat, write : Nat]

(* CaptureQuality::reusable *)
Reusable(q) == q # "Unverified"

(* wanted_depth, given the deque whose back is the newest reading.         *)
WantedDepthForAll(deque) == CapturesPerTrack           \* mutant: stocks retries of everything
WantedDepthPastLimit(deque) == CapturesPerTrack + 1    \* mutant: wants more than is kept
WantedDepth(deque) ==
    IF deque # <<>> /\ ~Reusable(deque[Len(deque)].quality)
      THEN CapturesPerTrack
      ELSE 1

IndexWriteSlackBits == 30
(* The placement rule shared by submit_write and perform_write.            *)
FromIndex(start, trackBits) ==
    start <= IndexWriteSlackBits \/ start + IndexWriteSlackBits >= trackBits
WholeRevolution(bits, trackBits) == bits + 16 >= trackBits
Placeable(start, bits, trackBits) ==
    FromIndex(start, trackBits) \/ WholeRevolution(bits, trackBits)

-----------------------------------------------------------------------------
VARIABLES
    \* the client thread and the fields of Bridge
    cpc, call, nextWrite,
    \* shared state and channels
    desired, nudge, commands, events, status, captures, keys, partial,
    \* the fields and the local variables of Worker
    wpc, target, wanted, physical, positioned, failed, errors, generation,
    wish, command, result, snapshot, reading,
    \* the drive: where its head really is, its spindle, its disk; and what
    \* the device's status().motor_running says of the spindle
    head, spindle, motorRunning, disk, serial, platter,
    \* history: what the client knows
    seen, retired, motorWish, accepted, answered, polled

clientVars == <<cpc, call, nextWrite>>
wishVars == <<desired, nudge>>
cacheVars == <<captures, keys>>
positionVars == <<head, physical, positioned>>
errorVars == <<failed, errors>>
intentVars == <<target, wanted>>
callVars == <<wish, command, result, snapshot, reading>>
driveVars == <<spindle, motorRunning, disk, serial, platter>>
readHistory == <<seen, retired>>
writeHistory == <<accepted, answered, polled>>
historyVars == <<readHistory, motorWish, writeHistory>>
workerVars == <<wpc, target, wanted, physical, positioned, failed, errors,
                generation, wish, command, result, snapshot, reading>>
vars == <<clientVars, wishVars, commands, events, status, cacheVars, partial,
          workerVars, head, driveVars, historyVars>>

(* Option<Desired>: three independent Option fields.                       *)
NoWish == [motor |-> None, target |-> None, wanted |-> None]

-----------------------------------------------------------------------------
(* Types.                                                                  *)
ClientPc == {"idle", "nudge", "missed", "lookup", "stall", "check", "advanced",
             "place", "enqueue", "drop", "join", "gone"}
WorkerPc == {"select", "drain", "noclick", "write", "burn", "forget", "report", "wishes", "move",
             "turn", "motor", "refresh", "clear", "notify", "store", "capture", "read", "withdraw",
             "insert", "exit", "stop", "done"}
Motor == [side : Sides, on : BOOLEAN]
Status == [working : BOOLEAN, motor : BOOLEAN, present : BOOLEAN, protected : BOOLEAN, at : Track]
PlacedRequest == [track : Track, words : Nat, bits : Nat, start : Nat]
WriteCommand == [op : {"write"}, id : Nat, request : PlacedRequest]
NoClickCommand == [op : {"noclick"}, side : Sides]
Command == WriteCommand \cup NoClickCommand \cup [op : {"shutdown"}]
Event == [kind : {"write"}, id : Nat, ok : BOOLEAN] \cup [kind : {"disk"}, present : BOOLEAN]
           \cup [kind : {"disconnected"}]
Reading == [quality : AllQualities, bits : Nat, serial : Nat, write : Nat]

(* The parts of TypeOK, by the variables they are about.                   *)
ClientType ==
    /\ cpc \in ClientPc /\ nextWrite \in Nat
    /\ cpc \in {"lookup", "missed", "stall", "check", "advanced"} => call \in Track
    /\ cpc \in {"place", "enqueue"} => call \in PlacedRequest
WishType ==
    /\ desired \in [motor : Motor \cup {None}, target : Track \cup {None},
                    wanted : Track \cup {None}]
    /\ nudge \in BOOLEAN
ChannelType == commands \in Seq(Command) /\ events \in Seq(Event)
StatusType == status \in Status
CacheType ==
    /\ captures \in [Track -> Seq(Capture)] /\ keys \subseteq Track
    /\ partial \in {None} \cup [track : Track, len : Nat]
IntentType ==
    /\ target \in Track /\ wanted \in Track \cup {None}
    /\ wpc \in {"read", "withdraw", "insert"} => wanted \in Track
PositionType == head \in Track /\ physical \in Track /\ positioned \in BOOLEAN
ErrorType == failed \in BOOLEAN /\ errors \in Nat /\ generation \in Nat
CallType ==
    /\ wpc \in WorkerPc
    /\ wish \in Motor \cup {None} /\ (wpc \in {"turn", "motor"} => wish # None)
    /\ wpc \in {"write", "burn", "forget", "report"} => command \in WriteCommand
    /\ wpc = "noclick" => command \in NoClickCommand
    /\ wpc \in {"clear", "notify", "store"} => snapshot \in Status
    /\ wpc \in {"withdraw", "insert"} => reading \in Reading
DriveType ==
    /\ spindle \in BOOLEAN /\ motorRunning \in BOOLEAN /\ disk \in Disk /\ serial \in Nat
    /\ platter \in [Track -> Nat]
HistoryType ==
    /\ seen \in [Track -> Nat] /\ retired \in [Track -> Nat]
    /\ motorWish \in BOOLEAN \cup {None}
    /\ accepted \subseteq Nat /\ answered \subseteq Nat /\ polled \in Nat

(* TypeOK: every field of Bridge, Worker and the state they share holds a  *)
(* value of its type, and a control point has the local it works on.       *)
TypeOK ==
    /\ ClientType /\ WishType /\ ChannelType /\ StatusType /\ CacheType /\ IntentType
    /\ PositionType /\ ErrorType /\ CallType /\ DriveType /\ HistoryType
=============================================================================
