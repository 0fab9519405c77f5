# Verification of the flir / BCI firmware

TLA+ models of the core logic of this repository, TLC runs that check them on small
instances, and TLAPS proofs of the main safety properties for every value of the
constants. The repository is a small operating layer for microcontrollers and Linux
(`src/arm/bios`, `drv`, `arch`), the applications on it (`src/arm/app`: the battery
interface `bci`, a thermal camera `flir`, demonstrations), their libraries
(`src/arm/lib`), and a viewer for the camera (`src/linux`). Everything but interrupt
handlers runs in one main loop, event by event.

Contents: [inventory](#inventory), [modules](#modules), [runs](#runs),
[fairness](#fairness), [proofs](#proofs), [findings](#findings), [order and plan](#plan),
[what is not modelled](#what-is-not-modelled).

To check: `tlc -config event_queue.cfg MCEventQueue`, and so on, for each `.cfg` (its
module is in `PROJECT.json`); `tlapm EventQueueProofs.tla`, and so on, for each
`*Proofs.tla`.

## Inventory

Paths are below `src/arm/` unless they start with `src/`.

| Component | State | Operations | What is hard | What makes it correct |
|---|---|---|---|---|
| Event queue, `bios/evq.c` | ring of bytes, head, tail, counters | push (from interrupts, callbacks, handlers), pop, wait, register | interrupts between the look at the room and the write; wrap; a full ring | a bounded FIFO of whole events; nothing accepted is lost |
| Relay sequencer, `app/bci/device_state.c` | state, tick count, four relays | commands, 10 Hz tick | commands at any time, order of the writes, 16-bit arithmetic | precharge before the main relay, safe order of switching, rest |
| Battery scanner, `app/bci/can-scanner.c`, `sdo-client.c` | state, busy, item of each battery; scan range; back-off; pause | full scan, poll, answers, errors, time-outs | scan and poll share channels, callback and state; late answers | nobody stuck busy, scans end, AVAILABLE is earned |
| Configuration store, `lib/config.c`, `drv/eeprom/eeprom-at25.c` | the EEPROM | init, read, write, erase | power failure between pages; room at the end | what was written is read back; others untouched |
| NMEA 2000, `app/bci/modules/nmea2000` | claim state machine, flags, names, address in memory | 10 Hz poll, receive, (re)start | claims that cross; flags that survive; restarts | conflicts are noticed and end; owners yield to lower names only |
| CANopen port, `lib/canopen/hal-can.c` | receive queue, callbacks, bridge id | receive, read, write, bridge | queue full; bridge toggled in flight | FIFO; everything bridged but the way back |
| CANopen master, `app/bci/can-master.c`, `bci-api.c` | object dictionary | notifications that command scanner and sequencer | pause counter; partly filled lists | pauses are matched by resumes |
| Module manager, `app/bci/modules.c` | running modules, filters, timers | start, stop, tick, receive | handlers that start or stop modules | only running modules are called |
| Linux main loop, `arch/linux/mainloop.c` | lists of descriptors, signals, timers | add, delete, poll | handlers that change the list they run from; a descriptor closed and used again in one walk; a late loop; the clock set back | no timer lost, doubled or early; every client served |
| Console, `bios/cmd.c` | line buffer, history, cursor, escape state | a key | limits of the buffer; what is left behind the terminator | edits a line as one expects; words are found |
| Logging, `bios/logd.c`, `lib/log.c`; button, LED | levels; debounce counters | a record, a scan | bouncing | - |
| Camera firmware, `app/flir` | a buffer of encoded lines, the line to send, pending text | packets from the sensor, reports to the host | the USB interrupt beside the main loop; the end of the buffer | no torn lines; the decoder gives back what was encoded |
| Camera viewer, `src/linux/flir.c` | the frame, its count in the cycle, the stimulus | lines, frames, keys | starting or being reset anywhere in a frame | complete frames; the stimulus in phase |
| HTTP server, `lib/httpd` | connections | accept, receive, reply, close | closing within the walk of the main loop; partial data | every client is read |

They interact through the event queue (interrupts and callbacks push, handlers run in
the main loop), direct calls (the master calls `can_scanner_full_scan()` and
`device_state_cmd()`; scanner, modules and NMEA call `config_read()` and
`config_write()`), callbacks (the CANopen stack calls `appReadObjectResponseSDO()`,
which calls `on_batt_read()`), and the CAN bus.

`PROJECT.json` lists the hazards at their lines, with the properties that cover them.

## Modules

**EventQueue** is `evq.c`: `data`, `head`, `tail`, `xruns`, `usedMax` are the fields of
`struct evq`; a byte is a pair of an event and an offset in it, so that a payload byte taken
for a type can be seen. `evq_push()` is two steps, `PushBegin` (its look at the room) and
`PushCommit` (the part with interrupts off), because it reads the room before it disables
interrupts; `pend[l]` is what preemption level `l` holds in between, and `Preemptive`
chooses between the microcontroller and the Linux build. `IdleEnter`, `IdleReturn`, `EvqPop`
and `DispatchEnd` are the main loop in `evq_wait()`; the handlers of an event may push any
number of times before `DispatchEnd`. **EventFifo** is what the queue promises: append if it
fits, else count as lost; handle one at a time in order; `EventsOf` maps the ring to it,
walking along the bytes from the tail.

**DeviceState** is the sequencer: `SetState` is `set_state()`, and each relay write of
the entered state is a step `RelayWrite`, since the load sees every position between
two writes; no command or tick comes before the entry function has ended. `Tick` and
`DeviceCmd` are the `state_XXX_do()` functions. `charged` is a history variable.

**CanScanner** is the scanner with its SDO client. `FullScan`, `ScanAsk`,
`ScanAskFails`, `ScanEnd`, `BackoffTick` and the `Poll...` actions are the branches of
`on_ev_tick_100hz()`; `OnBattRead` is the callback, and `Answer` and `Timeout` are what
the CANopen stack (`lib/canopen/canopen.c`) does: one request per channel, ended once; a
frame goes to the first channel connected to its sender, also if that channel has asked for
something else since. `asked` holds the requests that a node may still answer, `hold`
stands for `t_next` lying ahead. `SdoReadFails` takes all failures to send together: no
channel, one that could not be connected, a frame that could not be written. `got` and
`alone` are history: the objects of which a battery has sent data since it became TESTING,
and whether the answer that made it so ended the only request to it. The values that are
read are left out.

**ConfigStore** is the store on its chip. `ConfigWrite` walks the chain and queues the page
programs of its three `eeprom_write()` calls; `ProgramPage` does one; `PowerFail` drops the
rest and runs `config_init()`. The header of a record is three cells, `id_len`, `data_len`
and `crc`: a page that ends between the two bytes of `data_len` is not in the model. id and
data are cells. What lies beyond the store reads as erased; the chip takes 16 bits of
address and starts again from 0 (`eeprom-at25.c:94-95`). The two differ only where a chain
leaves the store, which `ChainEndsInside` excludes unless a header was cut in two: what is
read after such a cut is not what the chip would give. `stored`, `tried` and `torn` are
history: what was written completely, what was cut short, and whether a header of a new
record was cut in two. **KeyStore** is what the store promises: a value for each key, one
writing or erasure at a time, during which its key holds nothing to count on and every other
key what it held; one cut short leaves a value that was written, or damage that is noticed.
`Contents` maps the chain to it: what reading each key returns.

**NmeaAddressClaim** is a network of claim state machines, one action per state of
`nsm_poll()`, `RecvClaim` and `RecvRequest` for `fn_recv()`, `ModuleRestart` for
`fn_init()` on the statics as they are, `Reboot` for a reset. A frame is broadcast in
one order and waits in each node's inbox until its main loop comes to it; a module that is
stopped misses the first of them, and a reboot drops all. `quiet` and `heard` are history.

**LineEditor** is `cmd.c`: two C strings in arrays, `memmove()` and the terminator that ends
every key, an action per key of `handle_char()` (the bytes of the keys are left out),
`Split` (from each position and part on) for `split()` and `HandleCmd` for `handle_cmd()`.
`outcome` is the command that the last line ran, with its arguments. **LineEdit** is what
one expects of it: a sequence of characters and a cursor. The refinement is `Text`, the
first `len` cells of the buffer.

**Mainloop** is `mainloop.c` with its users. `Select`, the walk over the descriptors (one
step for each entry), `StartTimers`, `Expire` and `EndPoll` are the parts of
`mainloop_poll()`; `Expire` contains the handler, `mainloop_timer_add()` and the removal of
the head. `ReadBus`, `ReadServer` and `ReadClient` are the handlers of `can-linux.c` and
`httpd.c`; the last two add and remove entries of the list that is being walked, and give
descriptors to the kernel and take them back. `arch.c` adds the timers. Times are relative:
when the clock goes on by one every time goes down by one, so that no clock has to be
bounded. `since` is history.

**Golomb** holds the operators of `golomb.c`, encoder and decoder bit by bit, with the end
of the buffer and what lies behind it, and the decoder's eight-bit count of the bits to
come. `Readable` is where `br_get()` ends: it compares its pointer with the end before every
bit and moves it on when it loads a byte, so that of the last byte only the first bit is
read. The viewer passes the size of its buffer, one byte more than a report brings
(`src/linux/flir.c:352`), and so reads every bit of the report and one behind it; passing
the length of the report would lose up to seven bits of pixels that were sent, which is the
variant `ReadableOfReport`. The camera's order of the code is `K`, the viewer's `ViewerK`:
the viewer's is 2 (`src/linux/flir.c:361`), the camera's starts as 2 and can be set on its
console (`lepton.c:25`, `163-166`), where the viewer is not told. **Camera** is the
firmware's main loop (`ReadPacket`, `CopyFirst`, `CopySecond`: half a buffer stands for as
far as `memcpy()` has got), the USB interrupt `GetInReport`, and the viewer. A report
carries which halves of its line are written; the pixels it decodes to are computed where
they are needed. `fresh` is history.

Each model module holds a few operators marked as faulty variants: a dropped guard, a
missing reset, a swapped order. They are not part of the model; each is the slip that one
of the properties is there to notice, listed under `mutants` in `PROJECT.json`.

## Runs

| Run | Instance | States | Shows |
|---|---|---|---|
| event_queue | ring of 7 bytes, events of 1, 1, 2, 3 bytes, two interrupt levels, no preemption | 114 088 | type, assertion of `ev_size()`, framing, no overwriting, refinement of EventFifo, every accepted event dispatched |
| event_queue_preempt | ring of 6 bytes, preemption | violation | finding 1 |
| device_state | the real tick counts (30, 10), samples around every edge of the 16-bit arithmetic | 21 429 | order of switching, precharge, rest |
| can_scanner | 3 nodes, 2 channels, 2 objects, back-off 1, one late answer | 394 857 | no stuck battery, scans end, life cycle |
| can_scanner_crossing | 3 nodes, 3 channels, 2 objects, one range, two late answers | 3 346 283 | AVAILABLE is earned |
| config_store | 19 cells, pages of 4, two keys, two values | 25 340 | read back, what was cut short is rejected, chain inside, refinement of KeyStore |
| nmea | 2 nodes, addresses 0 and 1, inboxes of 2 | 384 288 | conflicts noticed and ended, claims unchallenged, owners yield to lower names |
| nmea_verdict | 3 nodes, one address wanted by all | violation | finding 2 |
| line_editor | buffer of 4 cells, 3 characters, two words, four commands | 33 600 | bounds, strings, words, refinement of LineEdit |
| mainloop | timers of 1 and 2 units, two clients, two descriptors, up to 2 units late | 207 568 | open connections registered, timers kept and spaced, clients served |
| mainloop_clock | same, and the clock may be set back | violation | finding 3 |
| camera | 3 lines of 5 pixels in 10 bytes, cycles of 3 and 4 frames, two reports under way | 122 696 | lines whole and decoded, frames fresh, stimulus in phase |

Why the bounds are enough to meet the interesting cases:

- A ring of 7 bytes has 6 to use: it fills, refuses a 3-byte event while a 1-byte event
  still fits, and wraps inside an event at every offset. `xruns` saturates at 1; nothing
  reads it.
- Two channels can both be held by one battery or run out; one of the two scan ranges
  leaves a battery out, so that its poll answers cross the scan. Two objects make a poll
  round with a first and a last item. One request may stay unanswered while it is asked
  again: it is answered late, on another channel. Longer back-off or more pauses add
  states in which nothing is decided. A battery with requests of a scan and of a poll
  open at once, and another one beside it, need three channels and two late answers:
  `can_scanner_crossing` has them, without back-off and pauses.
- 19 cells hold two records and one erased cell behind them, and the third record ends
  exactly at the end; pages of four cells cut a header and the data. The checksum of the
  instance tells the values and what a cut leaves of them apart (`CrcTellsApart`, assumed
  in MCConfigStore); a 16-bit CRC that collides is not considered.
- Two nodes and two addresses let a node win, lose, move on and run out of addresses; the
  proof is for any number. A claim heard that another one overwrites before the next poll
  needs a third node: `nmea_verdict` has it, and `nmea_three.cfg`, below. `InboxMax` delays
  senders instead of dropping frames.
- A line of 3 characters has a beginning, a middle and an end to insert and rub out at,
  fills, and holds two words with blanks before, between and behind them. A command is
  named by its whole name, by a prefix of one, and by a prefix of two.
- Two timers with different intervals overtake each other when they are added again; two
  units are as late as the slower one's interval. Two descriptors for two clients are
  enough for one to be closed and given to the other client in the same walk, and for
  `accept()` to find none left.
- The instance's picture has differences in both directions, the largest there are, one that
  cancels, a line whose code ends in the last bits of a report, one that has a code ending
  on the one bit more that the viewer reads, and codes that are longer. An odd and an even
  cycle show `n_cycle / 2`. Two reports under way can be text and a line, in either order.

Deadlock is checked in every run: none of these programs may stop.

Six more configurations are not among the runs of `PROJECT.json`. Five show a disagreement
each, as TLC finds the property violated; see the end of [findings](#findings):
`device_state_supply.cfg`, `can_scanner_saved.cfg`, `can_scanner_read.cfg`,
`can_scanner_verdict.cfg` and `config_store_room.cfg`. The sixth, `nmea_three.cfg`, passes
(252 391 states): three nodes that want one of two addresses, without restarts, whose
claims overwrite each other before they are looked at; `ConflictIsNoticed` and
`ConflictsEnd` hold of it as of two.

## Fairness

- EventQueue: weak fairness of every step of the main loop and of a push that has begun;
  strong fairness of `DispatchEnd`, for the handlers of an event return, however often they
  push, and of `IdleReturn`, for `arch_idle()` returns (the 1 Hz to 100 Hz ticks
  wake the processor, and `mainloop_poll()` makes one pass) however many callbacks come.
- DeviceState: weak fairness of `RelayWrite` (a handler runs to its end) and `Tick`.
- CanScanner: weak fairness of `Timeout` (the stack ends each request in
  `CO_SDO_TIMEOUT`) and `BackoffTick`; strong fairness of `ScanAsk` and `ScanEnd`, as a
  tick may find the scanner paused, or no channel, any number of times but not for ever.
  `ScanEnds` assumes that the scanner is not paused for ever. No fairness is assumed of
  nodes: they may never answer.
- Mainloop: weak fairness of a step of the loop (`mainloop_poll()` is called again and
  again, and no handler blocks) and of the clock. Nothing is assumed of the other ends of
  the sockets. `SetClockSpec`, for finding 3, needs none: the property is an invariant.
- LineEditor and Camera: none; nothing is claimed that must happen. A camera that prints
  all the time sends no line.
- NmeaAddressClaim: weak fairness of each node's 10 Hz poll and receive event.
  `ConflictsEnd` assumes that restarts stop.

## Proofs

All for arbitrary constants under the named assumptions of each module; what a theorem
assumes beyond these is in its `ASSUME`.

- **EventQueueProofs**, for builds without preemption (assumed: `~Preemptive`; with
  preemption the properties fail, finding 1): `TypeCorrect`, `QueueFramed`,
  `NoAssertionFailure`, `NoOverwrite`, and `QueueImplementsFifo`, that the ring implements
  EventFifo. The invariant is framing together with the room seen by the one push that may
  be under way, which is still there when it writes. The proofs rest on arithmetic of
  distances on the ring (`Adv`, `Dist`), stated as lemmas. For the refinement, the walk
  along the ring is shown to come to the same events before and after each step but for
  the one pushed at its end (`PushAppends`) or popped at its front (`PopTakesFirst`).
- **DeviceStateProofs**: `TypeCorrect`, `HighOnlyWithLow`, `HighOnlyPrecharged`,
  `PrechargeReleased`. The invariant says, for each state and each number of writes done,
  which positions the relays can have, and that `charged` is at least `ticks` in ON1.
  `RetryOnlyWhenLow` is the other side of `device_state_supply.cfg`: up to 32752 mV the
  reading is exact, and ON1 begins again only if the supply is too low. `RestComesNearer`
  counts the relay writes and ticks left: at most `OnTicks + HoldTicks + 12`, one less with
  each, none at rest. With the fairness of `FairSpec` this is `ComesToRest`.
- **CanScannerProofs**: `TypeCorrect`, `BusyHasCallback`, `ScanNeverStuck`,
  `AvailableAfterRound`, `LifecycleFollowed`. The invariant ties `busy`, the item of the
  next poll, the outstanding requests and the position of the scan together; the life cycle
  needs of it that only a battery that was found is polled. For `AvailableAfterRound` it
  says of a battery under test that was alone when it was found: every object before the
  item of the next poll has been answered, but for the one whose request is outstanding
  while the battery is busy, and no other request to it is. Without `alone` this fails
  (`can_scanner_read.cfg`). `ScanProceeds` is the core of `ScanEnds`: a scan under way has a
  request to send, its end to take, or a callback to come that gives a node its verdict or
  frees a channel; no node of it becomes SCANNING again, and none is asked twice. That the
  first ready channel exists is proved from well-foundedness of the naturals.
- **ConfigStoreProofs**: `TypeCorrect` as it stands; `WrittenIsReadBack`,
  `MixturesAreRejected`, `ChainEnds`, `OthersUntouched` and `StoreImplementsKeyStore` for
  power failures at any page but those of an erase (assumed: `~FailInErase`; an erase
  writes the first header first, so that the old records lie behind a valid one until it
  has ended: nothing is promised in between). At rest the invariant says that the memory
  keeps what was written: the chain of headers is sound, it leads to a valid record of
  every key ever written completely, and reading such a key gives its data unless a write
  of it was cut short; a key never tried has no record. While a call is under way the
  memory is a mixture of one that kept all that and of the first cells of the new record,
  which lies behind all others or over one of the same key and length, and the pages still
  queued write the cells that are missing. The walk along the chain is followed through the
  set of places it visits. `MixturesAreRejected` adds that every cell of a record's data is
  erased or comes from a value written to its key, the last complete one or one cut short
  since. What passes the checksum is then one of these values under `CrcTellsApart`: the
  checksum of a value is that of no other such mixture. TLC confirms it for the checksum of
  the instance; the 16 bits of the program cannot give it for all data, so that there a
  mixture slips through by chance only. The refinement follows from these: each call begins
  and ends as one step of KeyStore, its pages in between stutter, since they leave every
  other key as it was (`OthersKept`), and what a key holds depends on what reading it with
  every length returns (`ContentKept`).
- **NmeaAddressClaimProofs**: `TypeCorrect`, `NoSilentConflict`, `OwnerYields`,
  `TakenUnchallenged`, for any number of nodes. `ConflictIsNoticed` is not inductive: a
  node becomes an owner without a frame. The invariant therefore asks for the alarm
  between any two nodes that have announced the same address (states 3, 5, 9); it also
  says that the delay left and the ticks of silence make up the whole delay, and that an
  owner has no lost verdict pending and heard names for its own address only.
- **LineEditorProofs**: `EditorTypeOK`, `EditorStrings`, `EditorImplements`,
  `EditorSplits`, for any characters, buffer size, number of parts and commands. The
  invariant is that the line is a string of exactly `len` characters with the cursor
  inside; under it each key maps to one action of LineEdit, or to none, and the lemmas say
  what moving the tail, cutting the line and `strcpy()` do to the text. `EditorSplits`
  follows `split()` from blank to blank: before its part `k` it has passed the starts of
  `k - 1` words, and where it stops no start is left.
- **MainloopProofs**: `TypeCorrect`; `ConnectionsAreRegistered`; and `TimersAreKept`,
  `TicksAreSpaced`, for any timers with different intervals, and a clock that does not go
  back (with one that does, finding 3). For the timers the invariant is that the list is
  sorted, that each timer is in it once and unmarked, that nothing is marked between two
  steps, and that an entry's time and `since` add up to at least the interval; what sorted
  insertion does to a list, and that the expired head stays in front of what is inserted,
  are lemmas. For the descriptors it is that the live entries are those of the bus, the
  server and the open connections, one each, however entries are marked, added and
  removed during the walk.
- **CameraProofs**: `CameraTypeOK`, `StimulusInPhase`, `FramesAreFresh`, `LinesUntorn`,
  `LinesAreWhole`, and of the code `SignedComesBack` and `UnsignedApart`. `FramesAreFresh`
  rests on an invariant of the whole pipe: the reports under way are consecutive lines that
  end before the one the camera sends next, and what the viewer has decoded is every line
  from the first to the one before the head. `LinesAreWhole` takes from `LinesUntorn` that
  reports carry both halves of a line or none, which depends on interrupts, and from
  `UntornShows` that the decoder gives back the line: the bits of a number make the number
  again (`BitsMakeNumber`), a code is decoded where it is found whole (`CodeDecodes`), one
  that goes on behind the bit that the viewer reads beyond the report brings 0 (`CodeCut`),
  and so, pixel by pixel, a line comes out as it was as far as it was sent, and repeats its
  last pixel where codes are cut (`LineDecodes`). The pixel whose code ends on that one bit
  more is decoded from whatever lies there: nothing is claimed of its value. The theorem
  assumes `K = ViewerK`: that the order set on the camera's console is the viewer's; with
  another nothing sensible is shown. A line never written must come out black:
  `EmptyLineAssumption`, a relation between the size of a line and an eight-bit counter,
  holds for 64 bytes.

Recursive definitions are reasoned about without induction theorems that take an operator:
`LeastExists` (from well-foundedness of the naturals) and `NaturalInduction` speak of
sets, and that a recursive function exists is proved where it is used, from the functions
that are right up to each number.

Model-checked only: every liveness property (`EventuallyDispatched`, `ComesToRest`,
`ScanEnds`, `ConflictsEnd`, `ClientsServed`), which is out of reach of the proof system;
`RestComesNearer` and `ScanProceeds` prove what two of them rest on. Every safety
property of a passing run is the statement of a theorem.

## Findings

1. `evq_push()` looks at the room before it disables interrupts: a preempted push
   overfills the ring and the assertion of `ev_size()` fails (`bios/evq.c:117`).
2. `ILOSE` outlives the address it was set for: a node gives up an address that it has
   won (`app/bci/modules/nmea2000/nmea2000.c:183`).
3. The main loop frees the head of the timer list after a handler. When the clock was set
   back meanwhile, the timer that was just added again is at the head: the periodic timer
   is gone, and with it every event it pushes (`arch/linux/mainloop.c:435`).

Seen as well, each with a configuration that shows it but no entry among the runs:

- Supply readings above 32767 mV are negative in `state_ON1_do()`: ON1 is retried, and the
  reason logged, "(voltage_CAN - voltage_source) > 1000mV", is wrong
  (`app/bci/device_state.c:138`, `149`; `device_state_supply.cfg`).
- A scan counts the batteries it found, which are TESTING, logs "scan completed, %d batteries
  found", and saves the AVAILABLE ones: those just found are not on the list that a restart
  knows (`app/bci/can-scanner.c:431`, `437`; `can_scanner_saved.cfg`).
- The callback of any request of a battery clears its busy mark, also when that request is no
  poll. A poll of a battery is outstanding when a scan begins; the scan asks for the device
  type on another channel; the answer to the poll is taken for that of the scan, and the
  battery is TESTING; its first object is asked for; then the device type arrives and clears
  the mark, the last object is asked for, and the battery is AVAILABLE with its first object
  not read, though the drawing says "poll ok" (`app/bci/can-scanner.c:343`, `20-21`;
  `can_scanner_read.cfg`). What holds is `AvailableIsEarned`, for a battery whose first
  answer left no other request to it open.
- The time-out or abort of a poll from before a scan is taken for the verdict of the scan,
  where the diagram at the top of the file says "not found in scan"
  (`app/bci/can-scanner.c:347`; `can_scanner_verdict.cfg`).
- A header cut in two by a power failure leads `config_find()` out of the store; no new
  key can be written from then on, although "config_find() will set addr to the first
  available block" (`lib/config.c:168`, `252`; `config_store_room.cfg`).

Two comments of `src/linux/flir.c` (183 and 188) have on and off the wrong way round: half
a cycle switches the stimulus off, its end switches it on.

## Plan

Done, in this order: EventQueue and EventFifo, DeviceState, CanScanner, KeyStore and
ConfigStore, NmeaAddressClaim; then LineEdit and LineEditor, Mainloop, Golomb and Camera;
each with its proofs as far as the prover reaches.

Worth doing next, the most valuable first:

1. ConfigStore: failures during an erase, once it is settled what is promised of a store
   half erased.
2. NmeaAddressClaim on a bus that loses frames, with a claim repeated, if the code ever
   repeats one.
3. The master: notifications that pause and resume the scanner and switch the bridge,
   composed with CanScanner, once the sources of the stack that calls them can be modelled
   rather than assumed.
4. EventQueue composed with Mainloop: `arch_idle()` as one pass of it.

## What is not modelled

The models cover the logic of the program's own. Most of the source lines of the repository
are not that: CMSIS headers and HALs of the chip makers, the CANopen stack (Kvaser), fatfs,
uip, data tables of batteries, register-level drivers. They are vendored or generated, or
write one register each, and are left out but for the EEPROM driver and the Linux CAN driver.

Left out on purpose:

- `lib/canopen/hal-can.c`: the handler that queues a frame has the stack take it out before
  it returns, so the queue never holds two; the bridge rewrites identifiers and the stack
  behind it is not the program's own. `app/bci/can-master.c` and `bci-api.c` call one
  function of the scanner or the sequencer for each write; those functions are actions.
- `app/bci/modules.c`, `bios/dev.c`, `bios/led.c`, `bios/button.c` and the other dispatchers:
  loops over a table, or a counter. The hazards list what is odd in them.
- Of `lib/httpd/httpd.c`: parsing, documents, handlers, what is sent. Of `mainloop.c`:
  signals, which nothing registers, and Windows' handles.
- Of the camera: a `golomb_k` that changes while lines are under way; the commands to the
  sensor, the LEDs, the arithmetic and drawing of the pictures; a cycle below 2, which the
  option `-n` takes unchecked (`src/linux/flir.c:420`) and with which the stimulus has no
  phase (`Cycle >= 2` is assumed). The picture of the model stands still, so that a line is
  compared with what the sensor saw; that a frame may mix lines of two pictures is so in the
  code as well. Reports dropped by the host are left out: the queue holds the camera back.
- Formatting and console output; the values read from batteries and sent to displays;
  `evq_register()` and the load counters of the queue; the console commands that set relays
  behind the sequencer's back; SPI errors of the EEPROM driver, which returns none; CAN
  frames lost on the bus in NmeaAddressClaim, and power failures during an erase in
  ConfigStore (a constant of the model, off in the runs). `ChainEndsInside` says nothing of a
  store in which a power failure has cut a header in two (`torn`): see `config_store_room.cfg`.
