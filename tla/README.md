# FluxBridge in TLA+

A model of FluxBridge, the Rust library that drives a real floppy drive for an
emulator, checked with TLC and, where marked, proved with TLAPS. Paths such as
`src/src/controller.rs:472` are relative to the directory that holds the
repository as `src/`.

## 1. The system

An emulator owns a `Bridge`. The bridge records the emulator's *wishes* (motor,
head, track to read) under a lock, queues the two things that must not be
merged (writes and no-click steps) on a bounded channel, and reads completed
revolutions from a shared cache. One worker thread owns the device: it drains
the commands, takes the wishes, refreshes the status every 250 ms, and captures
the wanted track whenever the cache is short of it. The device is one of three
USB interfaces, each a request and answer protocol over a serial link.

    emulator ──methods──> Bridge ──desired (lock), nudge (1 slot)──> Worker ──calls──> Device ──packets──> firmware
                            ^ ^──────commands (bounded channel)───────>│
                            │<──events (bounded channel), status, captures, partial (locks)──┘

| component | state | operations | what makes it hard | what makes it correct |
|---|---|---|---|---|
| Bridge handle (`controller.rs`) | `commands`, `nudge`, `events` ends, `next_write_id`, the shared locks | `set_motor`, `seek`, `read_track`, `advance_revolution`, `submit_write`, `no_click_step`, `poll_event`, `drop`; `status`, `partial_track` only look | every method is several lock regions; the worker runs between them; full queues | never served older flux again; wishes not lost; drop ends |
| Worker (`controller.rs`) | `desired` taken, `target`, `wanted`, `physical`, `positioned`, errors, `generation` | `run`, `process`, `apply_desired`, `position`, `perform_write`, `refresh_status_if_due`, `capture_if_needed`, `note_error` | state remembered across device calls that may fail half way; the cache used without its lock during a capture | writes land where asked; no reading outlives a write or a disk; failure is final and reported last |
| Greaseweazle backend (`device/greaseweazle.rs`) | `selected`, `status`, `delays`, the transport's deadline | `open`, the `Device` methods, `drop` | answers are matched by command code only; any command may be refused or late; retries purge | in step with the firmware after every call; its records true; the firmware never left waiting for flux |
| Greaseweazle flux encoding (same file) | bytes so far | `encode_ticks`, `decode_stream`, `drain_fast_stream` | three forms of an interval, decoding from chunks cut anywhere | round trip; zero ends the stream and nothing else does; what is published is true |
| Transport (`transport/mod.rs`) | port, timeout | `read_exact_until`, `read_terminated_until`, `write_all_until`, `purge` | partial reads and writes against a deadline | a deadline ends every wait |
| Device interface (`device/mod.rs`) | none | `open`, `candidates`, `port_score`, `validate_capture`, `clamp_track` | a chain of candidate ports with the first and the last error | picks a working port, reports the best error |
| Revolution joining (`flux/rotation.rs`) | cells so far, indices seen | `flux_to_revolution`, `flux_to_unaligned_revolution`, `bits_to_unaligned_revolution`, `mfm_to_flux`, `rotate_revolution` | what comes before the index; where to cut a stream that has none; weak patches | the revolution is the track, and nothing but one turn of it |
| AmigaDOS scan (`flux/scan.rs`) | none | `scan_revolution` | sync words, headers and data that lie across the ends | the verdict does not depend on where the revolution was cut |
| PLL (`flux/pll.rs`) | clock, time left over | `submit` | truncated integer division; early and late transitions add up | it stays locked to any drive in tolerance |
| DrawBridge (`device/drawbridge.rs`) | cylinder, side, motor, density, firmware features | `open`, the `Device` methods, `drop` | answers are one byte that names nothing; a firmware left streaming or waiting for data | in step after every call; opening recovers the firmware from anything |
| SuperCard Pro (`device/supercard_pro.rs`) | `selected`, `motor`, cylinder, side | `open`, the `Device` methods, `drop` | selections cached and dropped with the motor at rest; a stream stopped half way | in step; no command but `open`'s first seek reaches an unselected drive |
| Types, errors, crate root | none | validation, `Error::kind` | - | range checks |

`PROJECT.json` lists every component with its status, and under `hazards` what
in this code is hard to reach with a test, each at its line and with the
properties that watch it.

## 2. Modules

    BridgeState ─┬─ BridgeClient ─┐
                 └─ BridgeWorker ─┴─ Controller ─┬─ MCController     (runs)
                       WriteService ─(INSTANCE)──┤
                                                 └─ ControllerProofs (types, wishes, failure, the cache)
                                                      └─ WriteProofs (writes, order of events, refinement)
    Greaseweazle ─┬─ MCGreaseweazle
                  └─ GreaseweazleProofs (the link)
    DrawBridge ─┬─ MCDrawBridge
                └─ DrawBridgeProofs (the link)
    SuperCardPro ─┬─ MCSuperCardPro
                  └─ SuperCardProProofs (the link)
    SequenceLemmas (for the proofs about links)
    FluxCodec ── FluxCodecProofs
    Pll ──┐
    Join ─┼─ Revolution ─┬─ MCRevolution
    Scan ─┘              └─ RevolutionProofs

**BridgeState** declares the fields of `Bridge`, of `Worker` and of what they
share, under the source's names, and the helpers both sides use. A revolution is
a record `Capture`: its generation, quality and length, and, in place of its
words, the disk (`serial`) and the write (`write`) the flux came from, which is
all that the properties tell apart. The drive is modelled by where its head
really is, its spindle, its disk, and `platter`, the last write of each track.
History variables (`seen`, `retired`, `motorWish`, `accepted`, `answered`,
`polled`) hold what the client knows; no action reads them.

**BridgeClient** has one action per lock region or channel operation of each
method; `cpc` says where in a method the one client thread is. **BridgeWorker**
does the same for the worker, `wpc` being the phase of `run` and the point in it:

| code | actions |
|---|---|
| `run`: `select!`, `try_recv`, end | `TakeCommand`, `Wake`, `Drained`, `ExitMotorOff`, `Stop` |
| `process(NoClick)` | `PerformNoClick` |
| `perform_write` | `WritePosition`, `Burn`, `Invalidate`, `Report` |
| `apply_desired` | `TakeWishes`, `ApplyTarget`, `ApplyMotorSide`, `ApplyMotor` |
| `refresh_status_if_due` | `RefreshNotDue`, `RefreshQuery`, `RefreshClear`, `RefreshNotify`, `RefreshStore` |
| `capture_if_needed` | `CaptureSkip`, `CapturePosition`, `Progress`, `ReadOk`, `ReadFails`, `Withdraw`, `InsertCapture` |
| `position`, `note_error`, `wanted_depth` | `PositionOk`, `PositionFails`, `NoteError`, `WantedDepth`, used in the above |

Steps that touch only the worker's own fields are merged with the step they
belong to; everything the client could observe in between is a step of its own.
A device call answers, fails with one of `ErrorKinds`, or, with `LostAcks`, acts
although its answer is lost. `"Protocol"` stands for every error that only
counts, `"Timeout"` is not counted by a read, `"Disconnected"` ends the worker.
**Controller** composes the two with the person who changes disks.

**WriteService** is what a client may count on when it writes, with no queue,
head, cache or lock in it: requests are performed whole, one at a time, in the
order of their acceptance, each on the track it names and on no other; the
outcome of each may be polled once, in that order, or is lost. `Controller`
implements it through the mapping `Service`: the pending requests are those in
the command channel, the current one is what the worker carries from
`TakeCommand` to `Report`, the outcomes are the write events not yet polled,
and the flux of a track is `platter`, a request's identifier as
`submit_write` gives it out. The service is open until the worker is done.

**Greaseweazle** writes a `Device` method as a script of steps (`SeekScript` is
range check, select, seek, deselect unless the motor runs). A step that needs
the firmware is a packet sent (`Send`), an acknowledgement of two bytes matched
by command code (`Acknowledge`) and a payload or stream (`TakePayload`,
`TakeStream`, `TakeSync`), each against a deadline (`Deadline`). `select`, the
deselection after a call and the delays are skipped when the driver's cached
fields say they are done already, as in the code. The firmware, which is not in
the repository, does what the driver counts on: it answers packets in order,
may refuse any of them (`Heeds`), and takes whatever follows `WriteFlux` for flux until
a zero byte (`TakesFlux`: a packet has one, or is swallowed whole). An opening
finds it as an earlier session left it (`FoundFirmware`): in a write perhaps, the
motor running, the head anywhere. `fw.placed` says which of cylinder and side
the driver has set since.

**DrawBridge** is built the same way around a link whose answers are one byte
that does not say what it answers. It has the choice of density with its two
test captures, the exchanges that depend on the firmware's version and flags,
the stop byte of a stream with the search for the signature that ends it, the
wait for an index before a write, and the recovery on opening: `xR?`, then a
pulse of the modem lines (`Resync`). Its `errors` and `Counted` repeat the
worker's `note_error`, because a call may follow a failed one only while the
worker still makes calls. **SuperCardPro** has packets answered by command and
response, the cached selection, streams and `StopStream`, the drives A and B,
and opening, which turns both motors off. It opens over what `FoundFirmware` allows: a
stream still running, a head anywhere (`Heads`).

**FluxCodec** has the three forms of an interval exactly (numbers, not
symbols), index marks, the unused opcode, chunks cut anywhere, and the decoder
item by item.

**Pll** is `PllDecoder::submit` on integers, nanosecond for nanosecond.
**Join** is the search of `bits_to_unaligned_revolution`: scores of every
candidate at every anchor, the peak of each anchor, the majority. **Scan** is
`scan_revolution`. **Revolution** composes the three with the platter: a track
is written by `mfm_to_flux`, the platter turns under the head at a speed of its
own, a read begins anywhere in it (`start.cut` nanoseconds into a delay), each
delay passes through the separator (`Pass`), possibly displaced
(`Displacements`) or with transitions missing (`Miss`); the read ends at the
second index, with the stream, or with its window, and the result is what
`flux_to_revolution` or `flux_to_unaligned_revolution` returns.

## 3. What is checked

| run | shows |
|---|---|
| `cache` | the cache never exceeds its tracks and depths, eviction included; a client that reads and advances never goes back to flux it has seen (`FreshFlux`); the worker never pushes the front reading out from under the client (`NoDisplacement`) |
| `writes` | `WritesServed`: captures, wishes, failed seeks and failed writes in between, queues that fill up and drop, and yet handle and worker together are the service; `CacheCoherent`: nothing cached survives a write, failed writes included; `WriteEventsInOrder`: events in order and at most once |
| `failure` | a disk comes or goes, every call may fail or lose its answer in every phase, and the handle is dropped at any moment: no reading while the status says there is no disk, no wish without its nudge, `Disconnected` is the last event, a failed worker never looks healthy again, and the drop ends whether the worker captures, fails, has failed or is gone (`DropTerminates`) |
| `live` | the handle is dropped at any moment over queued writes, and every accepted write has been answered when it returns (`AllWritesAnswered`); whatever is toggled in between, the spindle ends as last wished (`MotorConverges`, and `MotorWishHeld` for every moment the worker waits); who keeps asking gets a reading (`ReaderServed`) |
| `gw_link` | after every call, failed ones too, and after opening over leftovers and an unfinished write: nothing is left on the link and the firmware is not waiting for flux (`InStep`), the driver's view is the firmware's, that of the head from the first Seek and Head on (`RecordsTrue`), the pins reported are of a disk that was there during the call (`PinsFresh`), and a drive let go of stands still (`LeftQuiet`) |
| `gw_returns` | every call ends, with overflows, disk changes and a late answer, on the other bus |
| `db_link` | the same for the DrawBridge, and `OpenRecovers`: a session that ended in a stream, before write data or amid them does not keep the next from opening |
| `scp_link` | the same for the SuperCard Pro, and `Addressed`: whatever failed before, no command reaches a drive that is not selected but the SeekZero of `open`, which always comes with both deselected; the "step out" of the no-click step finds a head that has been placed at cylinder zero. `LeftQuiet` covers an opening over a running stream: the drive's own motor is off or told to stop. `Returns`: every call ends, with streams that have no end and streams of an earlier session |
| `codec` | intervals on each side of the boundaries 250, 255 and 1525, index marks, any chunking: what is published is a beginning of the track, and a whole stream decodes to all of it |
| `revolution_read` | `RevolutionTrue`, `RingReturned`: what is read is what was written, cell for cell, from index to index or cut anywhere, but for the first cells (`Doubtful`) of an immediate read that began late in a delay; `JoinHeld`: the join is where most anchors agree; `VerdictTrue`: a track is judged alike wherever it was cut, also inside a sync word, and one that was clean does not pass for clean with other sectors after a missed transition; `StaysLocked`: the separator never slips |
| `noclick_side`, `lost_motor` | violations, section 5 |

Every property of a passing run has a mutant in `PROJECT.json`: a plausible bug
in one definition that makes TLC find it violated.

**Bounds, controller.** One cylinder of two sides (`cache`: two cylinders, one
of them reached by clamping), queues of one or two slots, a cache of one or two
tracks, two readings per track as in the code, two errors in a row instead of a
generous ceiling. `MaxGenerations` (readings), `MaxWrites`, `MaxMediaChanges`,
`MaxProgress` bound the counters. Two tracks and a cache of one force an
eviction at every move between them; three readings give a first, its retry and
a refill of an advanced deque; two writes against one event slot give a queued,
a current and a dropped event; one disk change in `failure` is a removal or an insertion;
two errors against a ceiling of two reach both the reset of the count and the
ceiling. One of the three requests of `writes` is a sector that only a cached
reading lets the code refuse, and the write-protect tab moves between the check
and the write. `MaxProgress` is 0 in all runs: a partial is part of no property
that is checked, only of the type invariant, and the theorems have no bound.

**Bounds, links.** `MaxLate` (answers later than their deadline), `MaxChanges`
(disks), `MaxQueued` (bytes left on the link when a call begins, or that a
stream may have under way), `StreamBytes`, `MaxStream`, `TargetBytes` (lengths
of a stream, and where the driver has enough of it), `MaxErrors`. A stream of one byte and
its terminator already has the two deliveries between which a deadline or a
disk change can fall; of three, the overrun of a stream and the search for its
end. A late answer occurs in `gw_returns` alone (`MaxLate = 1`): where
answers are matched by less than their call, a late one breaks what the other
runs check (section 5), and `Sound` in the invariants says so. The head that an
earlier session left is at cylinder 0 or 1 and side 0 or 1 in `gw_link`, at 1 and 1 in the
run of the SuperCard Pro (`Heads`; the theorems have any cylinder): away from the
position the driver starts with is the case that matters. `failure` has errors of both
classes, weather and fatal, and the full command queue that a drop finds there holds
no-click steps; `live`, whose queue holds writes, has no errors, since the spindle, the
readers and the writes of a drive that fails are promised nothing. The drive of `scp_link`
holds a writable disk or none, and then its sensor of the write protection finds no tab.

**Bounds, reading.** Delays and clocks are the code's, in nanoseconds; drives run
three per cent slow and fast, the tolerance of `RevolutionProofs!LockKept`. The search and the
scan are scaled: a track of about 210 cells for one of 100 000, three anchors as in
the code, 24 cells of warm-up, samples of 32 cells, and AmigaDOS tracks of
two sectors whose longs have eight cells, with the real sync word. Its tracks are
chosen so that a sample does not recur by chance, which on a real track its
length sees to, and immediate reads start within a sync word, so that the join lies
there, in a delay of which as much has gone by as leaves it decoded rightly (760 ns)
or nearly all of it (7241 ns, which leaves the slow drive less than makes a cell). Reads from the index start one, two or three delays before the pulse, or nearly a
turn; in a delay that is whole or nearly over (cut by 3121 ns, of which the
slow drive's shortest leaves 999 pending, the most there can be): with one delay fewer than
`Settled` asks for, `RevolutionTrue` fails. A read that begins right at the pulse, as the SuperCard Pro's
`START_STREAM` from the index does, is not settled there and nothing is claimed of its first cells. In them from the index up to two transitions (`MaxShifts`) come 150 ns early or late
and one may be missing; in immediate reads a patch of one or of six may be missing; a longer one can
spoil two of the three samples, which in the instance are only 16 cells apart. `MaxBits` and
`MinBits` are not reached.

**Fairness.** `FairSpec` of the controller: the worker runs, since every device
call has a deadline (`operation_deadline`) and hence returns, progress callbacks
included; and a client inside a method goes on to its return. Nothing obliges a
client to begin a call. `ReaderSpec` adds strong fairness of `ReadOk`: a drive
with a disk and a turning spindle does not time out for ever. `FairSpec` of the
drivers: the driver's thread runs and its deadlines pass, the firmware
answers, bytes arrive, and a disk that turns under a streaming firmware has
flux (`Turning /\ Stream`). Deadlock is checked in every run: the systems stop
only when the handle is gone or the read is over.

**What the firmware is taken to do.** None of the three is in the repository;
their actions (`Firmware`, `Stream`, marked external) do what the drivers count
on. Beyond that: the DrawBridge's `R` and its reset pulse stop the motor and
return it to its idle state; other bytes in a stream are ignored or end it, and
where data are awaited they are taken for data; the SuperCard Pro takes `LoadRamUsb` together with its data, or
refuses both, and answers SeekZero with OK though no drive is selected, as `open`
needs, without a head that moves (one that did would be at cylinder 0, where an earlier session
may have left it anyway). StepTo and Seek take the head to the cylinder they
name, wherever it was. A Greaseweazle in an unfinished write takes the packets it is sent for
flux, and is back at its commands after the zero byte of one of them.

## 4. What is proved

TLAPS checks, for every value of the constants that satisfies the modules'
named assumptions:

* `ControllerProofs!TypeCorrect` - `TypeOK` is invariant. It is inductive as it
  stands because it says of every control point which local has to be there.
* `ControllerProofs!CacheCorrect` - `CacheInv`, and from it `DepthOnDemandHolds`,
  `FreshFluxHolds`, `NoDisplacementHolds`. `FreshFlux` alone is not inductive:
  the worker decides to capture, then reads for a whole revolution without the
  cache lock while the client advances. `RefillNeeded` says that the deque a
  capture is under way for is still short when the reading arrives (the client
  only shortens it), and `GenerationsIssued` that no reading carries a
  generation yet to be given out. `CacheBoundedHolds` and
  `NoReadingWithoutDiskHolds` follow from two smaller invariants: the tracks held
  stay a finite set (`KeysFinite`), and a capture is only begun and delivered under
  a status that says there is a disk, while a changed sample is published only
  with the cache empty (`DiskInv`).
* `ControllerProofs` - `DisconnectIsLastHolds` and `WorkingNeverReturnsHolds`
  from `LifeInv` and `SampleWorks`: a worker that has given up, and only such a
  one, has said so in the channel and is past every point that reports anything
  else. `NoLostWakeupHolds` from `WakeupKept`: a wish not yet taken has its nudge
  in the slot, or a client about to send it, or a worker on its way to take it.
  `MotorWishHolds` from `MotorInv`, under `NoDeviceErrors` (no device call
  fails): with errors the code loses the wish, which is the run `lost_motor`.
* `WriteProofs!WriteCorrect` - `WriteInv` under `FaithfulDrive`, and from it
  `WritesLandHolds` and `CacheCoherentHolds`. The strengthening is `HeadKnown`:
  once `positioned`, the recorded position is the head's. `FaithfulDrive`
  excludes the two ways in which the code breaks that (section 5): a command
  that acts though its answer is lost, and no-click steps.
* `WriteProofs!InOrderHolds` - `WriteEventsInOrder`. The invariant orders the
  identifiers along their whole way: those polled, those in the event channel,
  the current one, those queued, the one to be given out next.
* `WriteProofs!ServiceImplemented` - `Spec => WritesServed` under
  `FaithfulDrive`: initial states map to initial states, and each action is
  mapped to an action of `WriteService` or to a stutter. The simulation needs
  the order (the head of the queue is the oldest request pending), `HeadKnown`
  (the request is performed on its own track), and an invariant that ties
  `result` to the point the worker has reached in `perform_write`.
* `WriteProofs!AllWritesAnsweredHolds` - `Spec /\ []Attended =>
  []AllWritesAnswered`. `Attended` is a condition on the behaviour, since the
  code does not promise it: the worker does not give the link up, and
  `events.try_send` finds room for each outcome it reports. `Accounted` says that an
  accepted write is answered, queued or in hand; `ShutdownLast` that nothing is queued
  behind the `Shutdown` of `drop`, so that a worker which leaves its loop leaves an
  empty queue. `live` is an instance in which `Attended` always holds.
* `GreaseweazleProofs` - `LinkTypes` without any condition; `LinkInStep`,
  `RecordsTrueHolds`, `LeftQuietHolds` and `PinsFreshHolds` under `PunctualAnswers` (`MaxLate = 0`: what
  the firmware owes arrives before the driver gives up; section 5 shows what a
  late answer does) and `HarmlessLeftovers` (no byte an earlier session left on
  the line reads as the echo of a Reset or a Motor command; the leftovers of an
  interrupted stream or exchange may be anything else). The invariant is
  `LinkInv`. It has two modes. `Synced` says, of each phase of the step under
  way, which bytes are on the line, in the driver's buffer and in the firmware:
  the packet, or its answer and nothing behind it, with the driver's view equal to
  the firmware's but for what that answer will make it record. `Foreign` holds
  while `open` works its way to its Reset, or fails before and lets go: the line may carry
  anything, but whatever on it can pass for an acknowledged Reset or Motor is
  one that has been done, which is all that the driver's view needs to become true. Of the head nothing is known
there, and afterwards what Seek and Head have set: `Agrees` asks for the cylinder and the
side only from then on.
  Accepting the Reset leads from `Foreign` to `Synced`. Besides, `ScriptOK`
  says what any remainder of a script looks like (a write is followed by its
  flux and its completion, a read by its stream, a seek has its range checked
  before it), and `LettingGo` that a drop with no Motor command ahead has a
  motor at rest. The pins need `PinInv` on top of it: a level on its way to
  the driver is that of a disk of this call (`LevelTold`), and in a call that
  asks for the pins each of them is either still ahead in the script or known,
  with no step left that presumes one (`Asking`).
* `SuperCardProProofs` - `CardInStep`, `CardRecordsTrue`, `CardAddressed`,
  `CardLeftQuiet`, from `CardTypes`: `LinkInv` is invariant. No hypothesis is
  added to the specification; where the properties say `Sound` (no answer came
  after its deadline, no stream was given up) the invariant does too, and the
  step that matters is that a deadline can pass without breaking `Sound` only
  where nothing is owed, which `Exchange` excludes (`DeadlineUnsound`).
  `Exchange` says which bytes are on the line at each phase of each kind of step:
  none, the packet, an answer with the response that belongs to it, a stream
  with flux behind flux, or what is left of a stream and its end. `View` says what the
  records are worth: in an open device they are the drive's (`Agrees`); while
  opening, whatever an earlier session left on is still to be turned off by the rest
  of the script (`Untouched`); while closing, a motor that turns has its command ahead
  (`Closes`). Between an accepted command and its acknowledgement `View` holds of
  the records as they are about to be (`Recorded`). `ScriptOK` says what any
  remainder of a script looks like, and that a command for the drive at its
  front finds the drive selected: this, with `Agrees`, is `Addressed`; that nothing but
  Opening's commands lies before SeekZero makes both drives deselected when it comes. The first
  half of `LeftQuiet` needs no `Sound`: `ClosingInv` says of a card being let go of that its MotorOff
  is the step in hand, or on the line with no MotorOn behind it, or done with none on the line
  (`StopsMotor`), whatever the answers are like.
* `DrawBridgeProofs` - `BridgeInStep`, `BridgeRecordsTrue`, `BridgeOpenRecovers`,
  `BridgeLeftQuiet`, from `BridgeLinkTypes`: `LinkInv` is invariant. Here too no
  hypothesis is added to the specification. `Exchange` has two parts. Until the
  firmware has been heard (`Foreign`) it may be doing anything, a stream or a
  write that an earlier session began included; all that is known is that no
  version is on the line before it answers a request for one, and that then it
  was idle and its motor off (`Heard`). Afterwards the line holds
  nothing or the packet (`Before`), a refusal (`Refused`) or an answer (`After`):
  `Apt` says what an answer to each step looks like, `Mode` what the firmware should be
  doing at that step, `View` what the records are worth, with `Doing` the records as
  the answer will leave them. `ScriptOK` says what any remainder of a script looks
  like: which steps follow which (`Coupled`), that a seek has its range checked
  (`Ranged`), that the pulse comes before the version is asked for (`Syncs`).
  `Recovers`, an opening that failed has its excuse, is the part that is kept
  without `Sound`. It rests on this: a deadline that passes in `Foreign` with nothing
  owed is the one after which `sync_version` pulses the reset line, and after the
  pulse the firmware is idle and answers, so a second one is a late answer
  (`DeadlineExchange`).
* `FluxCodecProofs!IntervalsSurvive` - the decoder's forms invert the encoder's
  for every interval of 1 to 2^28 + 248 ticks; `ZeroEndsHolds` - no encoded
  track contains a zero byte. `PublishedTrueHolds` and `DecodableHolds` carry
  this from one interval to streams of any length. What a decoder of a part of
  the stream has made of it depends on all the bytes before, and a recursive
  definition of that is nothing the prover can do inductions over; so `CodecInv`
  says instead that there *is* a way through the stream: a function `r` that
  gives each offset at which an item begins a mark (the ticks and the index
  pulse the decoder holds there, and how many intervals are complete), such
  that every item leads from its mark to the next one (`Laid`), and the decoder
  is at a marked offset and holds what the mark says (`Stands`). The firmware's
  steps extend `r`, the decoder's follow it, and a chunk that ends in the
  middle of an item leaves the decoder at the mark before it.
* `RevolutionProofs!LockKept` - the region `InLock` (how far the clock is from the
  drive's cell, together with the time left over from the last transition) is
  invariant under any delay of two to four cells displaced by up to 150 ns, at
  any speed within three per cent, and in it every such delay is counted right;
  `AlwaysLocked` carries it to the specification.
* `RevolutionProofs!RevolutionHolds` - `Spec => [](Regular => RevolutionTrue)`,
  `Regular` being that every delay of the track is of two to four cells; a
  track that ends in zeros may have a last one of a single cell, and is only
  model-checked. It needs what `LockKept` takes for granted, that the separator comes
  to be in lock. `FirstDelay` says what the rest of a delay, cut anywhere, makes of
  a new separator (`Cold`), `SecondDelay` that one written delay brings it from there
  into the first of the seven regions of `Bounds`, perhaps decoded wrongly,
  `OneNearer` that each further one is decoded rightly and leads to the next region, of
  which the last is `InLock`. That is why `Settled` asks for two delays before the
  index pulse, and for eight where transitions are displaced. From the pulse on
  `Followed` holds: the cells are those of the track up to the head, by `FluxOfTrack`,
  that the delays of `mfm_to_flux` have a transition at their ends and nowhere else.
* `RevolutionProofs!JoinFound` - if most anchors see the capture repeat after one
  length and after no other, that length is returned: two majorities of the anchors
  have one in common, so no other length can be believed. `AlwaysJoined` is the
  same of every immediate read, `JoinHeld`.
* `RevolutionProofs!RingHolds` - `RingReturned` of every capture in which no transition is
  missed or displaced, of a `Regular` track, that is `Telling`: long enough for a turn and the
  anchors, and with a first sample that does not come again, cell for cell, before a turn is
  over. The last is no more than the join needs: had it come again, the first leader, which takes
  the least of its best candidates, would have taken that. The invariant is `Circled`: the cells but for the
  `Doubtful` ones are those that lie before the head (`Follows`), however often it has
  come round, and the separator is new, `Cold`, or in one of the regions of `Bounds`
  (`Taking`). A read that began with at most 760 ns of its delay gone by counts that
  delay right (`FirstWhole`) and has no doubtful cells; otherwise the first two delays
  make eight cells at most (`FirstCells`, `SecondCells`), fewer than the warm-up, so no anchor
  sees one. Then every sample repeats whole after one turn (`RepeatsAll`), and the
  first leader's peak is the turn (`TurnJoined`).
* `RevolutionProofs!VerdictHolds` - `VerdictTrue` of such a capture without doubtful cells,
  from `RingIs` and the two that follow.
* `RevolutionProofs!VerdictTurned` - `ScanRevolution(Rotated(ring, r)) =
  ScanRevolution(ring)`: a cut is a bijection of the positions that carries
  sync words, sector starts and both checksums along, so the sets of
  sectors and the counts of headers agree (`SectorsTurned`: their data too).

Each invariance proof has one step per action and, under it, one per conjunct
the action can disturb; what an action leaves alone is a lemma about `UNCHANGED`.

Only model-checked: liveness (`DropTerminates`, `MotorConverges`,
`ReaderServed`, `Returns`), which the prover cannot do under fairness;
`RingReturned` and `VerdictTrue` of captures with missing transitions (a weak patch shorter
than `Recurs` allows is `AlwaysJoined`; that no checksum is met by accident is a matter of
the tracks), and the second part of `VerdictTrue` where cells are doubtful;
`RevolutionTrue` of tracks whose last delay is one cell.

## 5. Where the code and its documentation disagree

Two have a run that TLC finishes with a counterexample:

* `noclick_side` - `process(NoClick)` turns the head with `select_side` and does
  not record it, so the next write to the other side skips its own `select_side`
  and lands on the wrong surface.
* `lost_motor` - `apply_desired` takes all wishes at once and returns when the
  head wish fails; the motor wish is lost.

Met while modelling, each seen in a counterexample or read in the code, and not
kept as runs:

* `controller.rs:277` promises an event for every accepted write. A worker that fails
  leaves queued writes without one: `AllWritesAnswered` fails with `ErrorKinds = {"Disconnected"}`.
* `types.rs:453` and `455` call the status's cylinder and side the last
  *confirmed* ones. `open` of the Greaseweazle reports cylinder 0 and the lower side without
  a Seek or a Head, wherever the head is: `drv.cyl = fw.cyl` fails right after it. The
  SuperCard Pro and the DrawBridge send no side either.
* `greaseweazle.rs:659` - `set_motor` stores the new delay before the firmware
  has accepted it; after a refusal the next start skips the command and goes
  ahead with the old delay.
* `drawbridge.rs:204-209` and `218-226` leave a stream that timed out or overran
  without the `x` that ends it, against `docs/internals.md:76-78`: the next call
  reads flux for its answers (`InStep` without `Sound`). `supercard_pro.rs:230`
  does the same, and a card left streaming so is opened in vain: Info is answered by flux, `open` fails
  with only its own drive's MotorOff sent, and the other drive's motor stays on.
* `supercard_pro.rs:98-100` sends SeekZero right after deselecting both drives. Either the
  card steps a drive that is not selected, or the head is not at the cylinder 0 that `open`
  records; then `no_click_step`, which only asks whether the recorded cylinder is 0, moves it.
* `drawbridge.rs:67` and the status take `DensityMode::High` for what the firmware was told; it was not.
  `RecordsTrue` exempts the case.
* A flux write of the Greaseweazle that runs into its deadline (`greaseweazle.rs:598-612`) leaves the
  firmware waiting for the rest, and the next packet is written to the disk.
* `drawbridge.rs:301` finds that the data are too long only when the firmware is
  waiting for their length.
* `types.rs:372` calls a revolution index-aligned when both ends are index
  pulses; `flux_to_revolution` says so too of a stream that ended after one.
* A revolution of an immediate read contains the warm-up cells that
  `rotation.rs:104-112` calls the least trustworthy, and some of them are wrong: on a drive three
  per cent slow, a read that begins 7241 ns into a delay of four cells has a zero
  where its first transition is. Without its exemption of the first
  eight cells `RingReturned` fails; eight is the most there can be.
* A good sector numbered eleven or more stands in for a missing one of a
  double-density track, since `scan_revolution` only counts.
* A `seek` that moves the head although its answer is lost leaves the recorded
  position behind. With `LostAcks = TRUE` and one error, a write lands elsewhere:
  seek to the other track, lost, then a write to the first.
* An `Error::Io` of a kind that `Error::kind` calls `Disconnected` counts as
  weather in `note_error`, against `docs/internals.md:74`.
* A failed read leaves the partial that its progress callback published, and a
  write or another disk does not withdraw it either.
* `read_track` returns the front of the deque, the oldest reading held, where
  its comment says newest; `FreshFlux` is what holds instead.
* Without a cached reading every write counts as a whole revolution.
* In the Greaseweazle driver, one acknowledgement of `GetPin` that comes after
  its deadline is taken for the next `GetPin`'s, since only the code is
  compared: with `MaxLate = 1` and a motor that runs, `PinsFresh` fails.

## 6. What is left out, and why

* The controller's `quick` choice (an elapsed-time test): both values are in
  the Greaseweazle's `MotorScript`. The `Err(_)` branch of `select!`: it needs
  the handle's sender gone while the worker runs, and `drop` joins first.
  Identifiers and generations do not wrap (64 bits), nor does `start_bit + 30`
  in `submit_write`. `status`, `partial_track` and `selected_port` change
  nothing.
* In the drivers: I/O errors that close the port, partial writes to it,
  `MAX_STREAM_BYTES` of the Greaseweazle, densities but for the DrawBridge's,
  what a stream's bytes hold (the codec's only), packet checksums, and what
  happens in the mechanism when a drop interrupts it.
* In the codec: conversion of ticks to nanoseconds. In the separator:
  32-bit width, which delays of a capture do not reach.
* `device::open`, `candidates`, `port_score`: one loop over a sorted list with
  the first and the last error, which a table test covers better. Configuration
  and its validation, `Error::kind`, `pack_bits`: pure tables.
* The platform's serial ports, the direct FTDI code, the hardware tests.

## 7. Plan

1. *(done)* Controller: BridgeState, BridgeClient, BridgeWorker, Controller;
   type, cache and write theorems.
2. *(done)* Greaseweazle, and its flux encoding with the round-trip theorem.
3. *(done)* DrawBridge and SuperCardPro.
4. *(done)* Pll, Join, Scan, Revolution, with `LockKept`, `JoinFound`,
   `VerdictTurned`.
5. *(done)* WriteService, and the proof that the controller implements it.
6. *(done)* The cache's bounds, the worker's life, the wishes; the Greaseweazle's
   link and pins without late answers; the SuperCard Pro's and the DrawBridge's;
   `PublishedTrue` and `Decodable` from the way through the stream;
   `AllWritesAnswered` of an attended worker; how the separator comes to be in lock,
   and `RevolutionTrue` from it.
7. *(done)* `RingReturned` and `VerdictTrue` of captures without a missing transition.
8. `RevolutionTrue` also of tracks whose last delay is one cell; `RingReturned` also
   where transitions are displaced, with as many cells in doubt as it takes to be in lock.
