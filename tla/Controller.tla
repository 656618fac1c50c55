----------------------------- MODULE Controller -----------------------------
(***************************************************************************)
(* The bridge controller: client, worker and drive together, and what the  *)
(* three promise.                                                          *)
(***************************************************************************)
EXTENDS BridgeClient, BridgeWorker

Init ==
    /\ cpc = "idle" /\ call = None /\ nextWrite = 1
    /\ desired = NoWish /\ nudge = FALSE
    /\ commands = <<>> /\ events = <<>>
    /\ disk \in Media /\ serial = 0
    /\ head \in Track /\ spindle = FALSE /\ motorRunning = FALSE
    /\ platter = [t \in Track |-> 0]
    /\ status = [working |-> TRUE, motor |-> FALSE, present |-> disk.present,
                 protected |-> disk.protected, at |-> DefaultTrack]
    /\ captures = [t \in Track |-> <<>>] /\ keys = {}
    /\ partial = None
    /\ wpc = "select"
    /\ target = DefaultTrack /\ wanted = None
    /\ physical = DefaultTrack /\ positioned = FALSE
    /\ failed = FALSE /\ errors = 0 /\ generation = 0
    /\ wish = None /\ command = None /\ result = None
    /\ snapshot = None /\ reading = None
    /\ seen = [t \in Track |-> 0] /\ retired = [t \in Track |-> 0]
    /\ motorWish = None /\ accepted = {} /\ answered = {} /\ polled = 0

(* Somebody changes the disk; readings taken of it are of other flux.      *)
ChangeDisk ==
    /\ serial < MaxMediaChanges
    /\ disk' \in Media \ {disk}
    /\ serial' = serial + 1
    /\ platter' = [t \in Track |-> 0]
    /\ UNCHANGED <<clientVars, wishVars, commands, events, status, cacheVars, partial,
                   workerVars, head, spindle, motorRunning, historyVars>>

(* The handle is gone and so is the worker.                                *)
Finished == cpc = "gone" /\ UNCHANGED vars

Next == Client \/ Worker \/ Progress \/ ChangeDisk \/ Finished

Spec == Init /\ [][Next]_vars

-----------------------------------------------------------------------------
(* The capture cache.                                                      *)

(* CacheBounded: MAX_CACHED_TRACKS bounds the tracks the cache has entries *)
(* for, although advance_revolution leaves empty entries behind and the    *)
(* eviction in capture_if_needed removes at most one.                      *)
CacheBounded ==
    /\ Cardinality(keys) <= MaxCachedTracks
    /\ \A t \in Track \ keys : captures[t] = <<>>

(* DepthOnDemand: a second reading of a track is stocked only behind one   *)
(* that cannot be replayed (wanted_depth), never past CAPTURES_PER_TRACK.  *)
DepthOnDemand ==
    \A t \in Track :
       /\ Len(captures[t]) <= CapturesPerTrack
       /\ \A i \in 1..Len(captures[t]) :
            i < Len(captures[t]) => ~Reusable(captures[t][i].quality)

(* NoDisplacement: the worker never pushes a reading out from under the    *)
(* client.  A track's front reading stays in front until the client        *)
(* advances past it or the whole track is forgotten; the pop_front that    *)
(* capture_if_needed does at CAPTURES_PER_TRACK never fires.               *)
NoDisplacement ==
    [][\A t \in Track :
         wpc' # wpc /\ captures[t] # <<>> /\ captures'[t] # <<>>
           => captures'[t][1] = captures[t][1]]_vars

(* FreshFlux: what read_track would return next for a track is no older    *)
(* than anything it returned before, strictly newer than the reading the   *)
(* client had seen when it last advanced, and older than its successors:   *)
(* across writes, disk changes, evictions and refills in any order.        *)
FreshFlux ==
    \A t \in Track : \A i \in 1..Len(captures[t]) :
       /\ captures[t][i].gen >= seen[t]
       /\ captures[t][i].gen > retired[t]
       /\ captures[t][i].gen <= generation
       /\ \A j \in 1..Len(captures[t]) :
            i < j => captures[t][i].gen < captures[t][j].gen

(* CacheCoherent: no reading of a track survives a write of it.  Whatever  *)
(* the cache holds for a track, taken from the disk in the drive, was read *)
(* after the last write that landed there, failed writes included; only    *)
(* between device.write_track and captures.remove is that not so.          *)
CacheCoherent ==
    \A t \in Track : \A i \in 1..Len(captures[t]) :
       captures[t][i].serial = serial =>
          \/ captures[t][i].write = platter[t]
          \/ wpc = "forget" /\ command.request.track = t

(* NoReadingWithoutDisk: while the published status says that there is no  *)
(* disk, the cache is empty: refresh_status_if_due clears it before it     *)
(* stores the new presence, and nothing refills it.                        *)
NoReadingWithoutDisk == ~status.present => keys = {}

(* What makes the cache invariants inductive.  RefillNeeded: the deque a   *)
(* capture is under way for is still short when the capture arrives, since *)
(* meanwhile the client can only shorten it.  GenerationsIssued: nothing   *)
(* in the cache or in the client's hands carries a generation that is yet  *)
(* to be given out (the one a pending InsertCapture carries included).     *)
RefillNeeded ==
    wpc \in {"read", "withdraw", "insert"} =>
       Len(captures[wanted]) < WantedDepth(captures[wanted])
Issued == IF wpc = "insert" THEN generation - 1 ELSE generation
GenerationsIssued ==
    \A t \in Track :
       /\ retired[t] <= seen[t] /\ seen[t] <= Issued
       /\ \A i \in 1..Len(captures[t]) : captures[t][i].gen <= Issued
CacheInv == DepthOnDemand /\ FreshFlux /\ RefillNeeded /\ GenerationsIssued

(* And what makes CacheBounded and NoReadingWithoutDisk inductive: a       *)
(* capture is only under way while the status shows a disk, and a status   *)
(* that shows none is only published over an empty cache.                  *)
KeysFinite == IsFiniteSet(keys) /\ CacheBounded
DiskInv ==
    /\ NoReadingWithoutDisk
    /\ wpc \in {"read", "withdraw", "insert"} => status.present
    /\ wpc = "notify" => keys = {}
    /\ wpc = "store" => keys = {} \/ snapshot.present = status.present

(* And what makes CacheCoherent and WritesLandWhereAsked inductive where   *)
(* HeadKnown can be had: with a drive that never acts on a command whose   *)
(* answer it loses, and a client that never asks for a no-click step.      *)
FaithfulDrive == ~LostAcks /\ "noclick" \notin ClientOps
HeadKnown ==
    /\ wpc # "noclick"
    /\ \A i \in 1..Len(commands) : commands[i].op # "noclick"
    /\ positioned => head = physical
    /\ wpc = "burn" => head = command.request.track
    /\ wpc \in {"read", "withdraw", "insert"} => head = wanted
ReadingCoherent ==
    /\ \A t \in Track : \A i \in 1..Len(captures[t]) : captures[t][i].serial <= serial
    /\ wpc \in {"withdraw", "insert"} =>
          /\ reading.serial <= serial
          /\ reading.serial = serial => reading.write = platter[wanted]
WriteInv == HeadKnown /\ ReadingCoherent /\ CacheCoherent

-----------------------------------------------------------------------------
(* Writes.                                                                 *)

(* WritesLandWhereAsked: flux changes only on the track the write in hand  *)
(* names, whatever captures, wishes and failures moved the head before     *)
(* (perform_write restores both coordinates).                              *)
WritesLandWhereAsked ==
    [][\A t \in Track :
         platter'[t] # platter[t] => serial' # serial \/ t = command.request.track]_vars

(* What is on its way: the requests queued and in hand, their outcomes.    *)
Accepted(c) == [id |-> c.id, track |-> c.request.track]
Queued == {i \in DOMAIN commands : commands[i].op = "write"}
Performing == wpc \in {"write", "burn", "forget", "report"}
Reports == {i \in DOMAIN events : events[i].kind = "write"}

(* WriteEventsInOrder: completions come in submission order and at most    *)
(* once each: identifiers only grow from the event polled last over the    *)
(* events queued and the write in hand to the queued commands, and none of *)
(* them is yet to be given out.                                            *)
WriteEventsInOrder ==
    /\ polled < nextWrite
    /\ \A i \in Reports :
         /\ polled < events[i].id /\ events[i].id < nextWrite
         /\ Performing => events[i].id < command.id
         /\ \A j \in Reports : i < j => events[i].id < events[j].id
         /\ \A j \in Queued : events[i].id < commands[j].id
    /\ Performing => polled < command.id /\ command.id < nextWrite
    /\ \A i \in Queued :
         /\ polled < commands[i].id /\ commands[i].id < nextWrite
         /\ Performing => command.id < commands[i].id
         /\ \A j \in Queued : i < j => commands[i].id < commands[j].id

(* WritesServed: the bridge is the write service of WriteService, as long  *)
(* as the drive and the client are as FaithfulDrive wants them.            *)
PendingWrites == {Accepted(commands[i]) : i \in Queued}
CurrentWrite == IF Performing THEN Accepted(command) ELSE None
Outcomes == {[id |-> events[i].id, ok |-> events[i].ok] : i \in Reports}
Service ==
    INSTANCE WriteService WITH
        next <- nextWrite, pending <- PendingWrites, current <- CurrentWrite, outcome <- result,
        flux <- platter, outcomes <- Outcomes, open <- wpc # "done"
WritesServed == Service!Spec

(* AllWritesAnswered: once the worker has stopped, every write that        *)
(* submit_write accepted has its WriteCompleted or WriteFailed event.      *)
AllWritesAnswered == wpc = "done" => accepted \subseteq answered

-----------------------------------------------------------------------------
(* Wishes.                                                                 *)

(* MotorWishHeld: whenever the worker waits for work and no motor wish is  *)
(* pending, the spindle is in the state set_motor last asked for.          *)
MotorWishHeld ==
    wpc = "select" /\ desired.motor = None /\ motorWish # None => spindle = motorWish

(* NoLostWakeup: the worker never settles down to wait over an unapplied   *)
(* motor wish: its nudge is still in the slot, unless set_motor has yet to *)
(* send it.                                                                *)
NoLostWakeup == wpc = "select" /\ desired.motor # None /\ cpc # "nudge" => nudge

-----------------------------------------------------------------------------
(* Failure and the end.                                                    *)

(* WorkingNeverReturns: once the status says the worker is not working, no *)
(* later status refresh says otherwise.                                    *)
WorkingNeverReturns == [][~status.working => ~status'.working]_vars

(* DisconnectIsLast: nothing is reported after Disconnected.               *)
DisconnectIsLast ==
    \A i \in 1..Len(events) : events[i].kind = "disconnected" => i = Len(events)

(* What makes these inductive.  FailureEnds: a worker that has given up,   *)
(* and only such a one, has said so: from then on it is on its way out.    *)
(* SampleWorks: the sample it is about to publish says that it works.      *)
(* WakeupKept: an unapplied motor wish has its nudge in the slot or a      *)
(* worker that will drain the commands and come to take it, if it has not  *)
(* left the loop.                                                          *)
Ending == wpc \in {"exit", "stop", "done"}
FailureEnds ==
    /\ failed \/ ~status.working => Ending
    /\ \A i \in 1..Len(events) : events[i].kind = "disconnected" => failed
SampleWorks == wpc \in {"clear", "notify", "store"} => snapshot.working
LifeInv == FailureEnds /\ DisconnectIsLast
WishesAhead == wpc \in {"drain", "wishes", "noclick", "write", "burn", "forget", "report"}
WakeupKept ==
    desired.motor # None /\ cpc # "nudge" => nudge \/ WishesAhead \/ Ending

(* And MotorWishHeld, with a device that answers every call: the wish last *)
(* made is in `desired`, in the worker's hands or done.                    *)
NoDeviceErrors == ErrorKinds = {}
MotorInv ==
    /\ desired.motor # None => desired.motor.on = motorWish
    /\ wish # None => wpc \in {"move", "turn", "motor"}
    /\ ~Ending /\ desired.motor = None /\ motorWish # None =>
          IF wish # None THEN wish.on = motorWish ELSE spindle = motorWish

(* The worker runs as long as it can take a step: every device call        *)
(* returns (each has a deadline), so progress callbacks do not go on for   *)
(* ever; and a client inside a Bridge method runs on to its return.        *)
ClientReturns ==
    \/ Nudge \/ Lookup \/ StallCheck \/ StallTimeout \/ AdvanceWish
    \/ SubmitPlace \/ SubmitEnqueue \/ DropSend \/ DropJoin
FairSpec == Spec /\ WF_vars(Worker) /\ WF_vars(ClientReturns)

(* DropTerminates: dropping the handle ends: the blocking send of Shutdown *)
(* finds room or no worker, and the worker joins, however full the queues  *)
(* and whatever the device answers, a worker that gave up before included. *)
DropTerminates == cpc = "drop" ~> cpc = "gone"

(* MotorConverges: if a client that keeps its handle settles on a motor    *)
(* state, so does the spindle.                                             *)
MotorConverges == \A b \in BOOLEAN : <>[](motorWish = b /\ cpc # "gone") => <>[](spindle = b)

(* A drive that does not time out for ever.                                *)
ReaderSpec == FairSpec /\ SF_vars(ReadOk)

(* ReaderServed: a client that leaves the motor on and keeps asking for    *)
(* one track is served a reading of it.                                    *)
ReaderServed ==
    <>[](motorWish = TRUE) /\ []<>(cpc = "lookup") => <>(\E t \in Track : seen[t] > 0)
=============================================================================
