---------------------------- MODULE BridgeClient ----------------------------
(***************************************************************************)
(* The public methods of `Bridge` (src/src/controller.rs), called by the one *)
(* thread that owns the handle.  `cpc` says where in a method the client is: *)
(* every lock region and every channel operation is a step of its own.     *)
(* Methods that only look (status, partial_track, selected_port) are no    *)
(* actions.                                                                *)
(***************************************************************************)
EXTENDS BridgeState

(* Sender::try_send on the command channel.  A receiver is gone once the   *)
(* worker has returned from run.                                           *)
CanSend == wpc # "done" /\ Len(commands) < CommandCapacity
TrySend(c) == commands' = IF CanSend THEN Append(commands, c) ELSE commands

sharedByWorker == <<status, partial, workerVars, head, driveVars>>

SetMotorSilent(m) ==   \* mutant: no nudge
    /\ cpc = "idle" /\ "motor" \in ClientOps
    /\ desired' = [desired EXCEPT !.motor = m]
    /\ motorWish' = m.on
    /\ UNCHANGED <<cpc, call, nextWrite, nudge, commands, events, cacheVars,
                   sharedByWorker, readHistory, writeHistory>>
(* set_motor, up to its nudge.                                             *)
SetMotor(m) ==
    /\ cpc = "idle" /\ "motor" \in ClientOps
    /\ desired' = [desired EXCEPT !.motor = m]
    /\ motorWish' = m.on
    /\ cpc' = "nudge"
    /\ UNCHANGED <<call, nextWrite, nudge, commands, events, cacheVars,
                   sharedByWorker, readHistory, writeHistory>>

(* seek, up to its nudge.                                                  *)
Seek(t) ==
    /\ cpc = "idle" /\ "seek" \in ClientOps
    /\ desired' = [desired EXCEPT !.target = ClampTrack(t)]
    /\ cpc' = "nudge"
    /\ UNCHANGED <<call, nextWrite, nudge, commands, events, cacheVars,
                   sharedByWorker, historyVars>>

(* Bridge::nudge: try_send on a channel of one slot, the last act of every *)
(* wish; a read that missed goes on to stall if the mode asks for it.      *)
Nudge ==
    /\ cpc \in {"nudge", "missed"}
    /\ nudge' = (nudge \/ wpc # "done")
    /\ cpc' = IF cpc = "missed" /\ Stalling THEN "stall" ELSE "idle"
    /\ call' = IF cpc' = "stall" THEN call ELSE None
    /\ UNCHANGED <<nextWrite, desired, commands, events, cacheVars,
                   sharedByWorker, historyVars>>

DemandTargetOnly(t) == [desired EXCEPT !.target = t]   \* mutant: the head moves, nothing is read
Demand(t) == [desired EXCEPT !.target = t, !.wanted = t]
(* read_track: the two wishes are recorded under one lock.                 *)
ReadTrack(t) ==
    /\ cpc = "idle" /\ "read" \in ClientOps
    /\ desired' = Demand(ClampTrack(t))
    /\ call' = ClampTrack(t)
    /\ cpc' = "lookup"
    /\ UNCHANGED <<nextWrite, nudge, commands, events, cacheVars,
                   sharedByWorker, historyVars>>

(* The capture closure of read_track: the front of the track's deque.      *)
Lookup ==
    /\ cpc \in {"lookup", "stall"}
    /\ IF captures[call] # <<>>
         THEN /\ seen' = [seen EXCEPT ![call] = captures[call][1].gen]
              /\ cpc' = "idle" /\ call' = None
         ELSE /\ cpc' = IF cpc = "lookup" THEN "missed" ELSE "check"
              /\ UNCHANGED <<seen, call>>
    /\ UNCHANGED <<nextWrite, wishVars, commands, events, cacheVars,
                   sharedByWorker, retired, motorWish, writeHistory>>

(* The rest of a stalling poll: a stopped worker ends the wait with        *)
(* WorkerStopped, a live one costs another sleep.                          *)
StallCheck ==
    /\ cpc = "check"
    /\ cpc' = IF status.working THEN "stall" ELSE "idle"
    /\ call' = IF status.working THEN call ELSE None
    /\ UNCHANGED <<nextWrite, wishVars, commands, events, cacheVars,
                   sharedByWorker, historyVars>>

(* The stall deadline passes: Ok(None).                                    *)
StallTimeout ==
    /\ cpc = "stall"
    /\ cpc' = "idle" /\ call' = None
    /\ UNCHANGED <<nextWrite, wishVars, commands, events, cacheVars,
                   sharedByWorker, historyVars>>

(* advance_revolution: pop_front under the cache lock, then the wishes.    *)
Advance(t) ==
    /\ cpc = "idle" /\ "advance" \in ClientOps
    /\ LET track == ClampTrack(t) IN
         /\ captures' = [captures EXCEPT ![track] = IF @ = <<>> THEN @ ELSE Tail(@)]
         /\ retired' = [retired EXCEPT ![track] = seen[track]]
         /\ call' = track
    /\ cpc' = "advanced"
    /\ UNCHANGED <<nextWrite, wishVars, commands, events, keys, sharedByWorker,
                   seen, motorWish, writeHistory>>

AdvanceWish ==
    /\ cpc = "advanced"
    /\ desired' = Demand(call)
    /\ cpc' = "nudge"
    /\ UNCHANGED <<call, nextWrite, nudge, commands, events, cacheVars,
                   sharedByWorker, historyVars>>

(* The checks of submit_write that look at the request alone.              *)
WellFormed(r) ==
    /\ r.words > 0
    /\ r.bits > 0 /\ r.bits <= 16 * r.words
    /\ r.bits <= MaxTrackBits

(* submit_write up to the write-protection check.                          *)
SubmitWrite(r) ==
    /\ cpc = "idle" /\ "write" \in ClientOps
    /\ nextWrite <= MaxWrites
    /\ IF WellFormed(r) /\ ~status.protected
         THEN cpc' = "place" /\ call' = [r EXCEPT !.track = ClampTrack(@)]
         ELSE UNCHANGED <<cpc, call>>
    /\ UNCHANGED <<nextWrite, wishVars, commands, events, cacheVars,
                   sharedByWorker, historyVars>>

(* submit_write: the placement check against the cached revolution, if any.*)
SubmitPlace ==
    /\ cpc = "place"
    /\ LET deque == captures[call.track] IN
         IF deque # <<>> /\ ~Placeable(call.start, call.bits, deque[1].bits)
           THEN cpc' = "idle" /\ call' = None
           ELSE cpc' = "enqueue" /\ UNCHANGED call
    /\ UNCHANGED <<nextWrite, wishVars, commands, events, cacheVars,
                   sharedByWorker, historyVars>>

(* submit_write: the identifier is used up even when the queue refuses.    *)
SubmitEnqueue ==
    /\ cpc = "enqueue"
    /\ TrySend([op |-> "write", id |-> nextWrite, request |-> call])
    /\ accepted' = IF CanSend THEN accepted \cup {nextWrite} ELSE accepted
    /\ nextWrite' = nextWrite + 1
    /\ cpc' = "idle" /\ call' = None
    /\ UNCHANGED <<wishVars, events, cacheVars, sharedByWorker, readHistory,
                   motorWish, answered, polled>>

(* no_click_step: enqueue, Full and Disconnected are returned.             *)
NoClickStep(side) ==
    /\ cpc = "idle" /\ "noclick" \in ClientOps
    /\ TrySend([op |-> "noclick", side |-> side])
    /\ UNCHANGED <<clientVars, wishVars, events, cacheVars, sharedByWorker, historyVars>>

(* poll_event: try_recv; queued events outlive the worker.                 *)
PollEvent ==
    /\ cpc = "idle" /\ "poll" \in ClientOps
    /\ events # <<>>
    /\ polled' = IF Head(events).kind = "write" THEN Head(events).id ELSE polled
    /\ events' = Tail(events)
    /\ UNCHANGED <<clientVars, wishVars, commands, cacheVars, sharedByWorker,
                   readHistory, motorWish, accepted, answered>>

(* Drop: a blocking send of Shutdown, which fails at once if the worker is *)
(* gone, then join.                                                        *)
Drop ==
    /\ cpc = "idle" /\ "drop" \in ClientOps
    /\ cpc' = "drop"
    /\ UNCHANGED <<call, nextWrite, wishVars, commands, events, cacheVars,
                   sharedByWorker, historyVars>>

DropSendNonblocking ==   \* mutant: try_send, a full queue loses the Shutdown
    /\ cpc = "drop"
    /\ TrySend([op |-> "shutdown"])
    /\ cpc' = "join"
    /\ UNCHANGED <<call, nextWrite, wishVars, events, cacheVars, sharedByWorker, historyVars>>
DropSend ==
    /\ cpc = "drop"
    /\ CanSend \/ wpc = "done"
    /\ TrySend([op |-> "shutdown"])
    /\ cpc' = "join"
    /\ UNCHANGED <<call, nextWrite, wishVars, events, cacheVars, sharedByWorker, historyVars>>

DropJoin ==
    /\ cpc = "join" /\ wpc = "done"
    /\ cpc' = "gone"
    /\ UNCHANGED <<call, nextWrite, wishVars, commands, events, cacheVars,
                   sharedByWorker, historyVars>>

Client ==
    \/ \E m \in MotorWishes : SetMotor(m)
    \/ \E t \in ClientTracks : Seek(t) \/ ReadTrack(t) \/ Advance(t)
    \/ \E r \in WriteRequests : SubmitWrite(r)
    \/ \E side \in Sides : NoClickStep(side)
    \/ Nudge \/ Lookup \/ StallCheck \/ StallTimeout \/ AdvanceWish
    \/ SubmitPlace \/ SubmitEnqueue \/ PollEvent
    \/ Drop \/ DropSend \/ DropJoin
=============================================================================
