# libaoahid: TLA+ models, model checking and proofs

libaoahid is a C++20 library with a C ABI. It drives an Android phone or tablet
as a set of HID devices over Android Open Accessory 2.0: requests 54 and 56
register a HID device, request 57 sends a report, request 55 unregisters it, all
as USB control transfers through libusb. Its own logic is about 10 000 lines
under `src/src`; the C header, the tests and `src/docs` are read with it.

This directory holds TLA+ modules written from that source, the TLC
configurations that check them on small instances, and TLAPS proofs of what
holds for every instance. Paths below are relative to the repository.

## 1. Inventory

### How the program runs

- All calls of an application on one Context are serialized by the caller: there
  is one **application thread** per Context.
- In internal-thread mode the Context has one **event thread** that runs libusb's
  event loop and so every transfer callback. In caller-poll mode the callbacks
  run inside the application's poll; these behaviours are the ones of
  internal-thread mode in which the application waits for the event thread.
- A Channel (bulk pipe) may be read by one thread and written by another.
- Whatever is shared between threads is either an atomic or is changed under
  `StateGuard` (transport), `active_state_mutex` (Context) or the Node's
  `completion_mutex`.
- Nothing is persisted: a crash of the program leaves no state to recover.

### Components

| Component | State | Operations | Interacts through | Hard behaviour | Correct when |
|---|---|---|---|---|---|
| **Transfer pool** `transport/transport.cpp` (class `Device`) | slots, LIFO free stack, reservations and two running totals, `outstanding`, `callbacks_active`, error latch, `present`, `closing` | `set_reservation`, `clear_reservation`, `acquire`, `submit`, `abandon`, `transfer_finished`, `cancel_all`, `latched_error`, `drained`, destructor | called by the Nodes; calls the Node's completion with its lock released; libusb owns submitted buffers | both threads finish slots; completions run after unlocking; cancellation cancels outside the lock | no slot lost or freed twice; totals exact; each accepted report answered once; no buffer touched while libusb has it; reservations honoured; the latch tells the truth |
| **Report Node** `api/c_api.cpp` (`node_*`), `profiles/state.cpp` (`transfer_complete`) | pending profile state, edge flags, `dirty`, `emitted_non_neutral`, `submitted_non_neutral`, `transfer_inflight`, `completion_result` | profile setters, `submit`, `submit_blocking`, `close`, `transfer_complete` | acquires and submits through the pool; its callback runs in the event thread and publishes to the application thread | an outcome may leave the delivery unknown; a waiting call interleaves with callbacks; a failed close may be repeated | no key stays down on the target after a close; no edge is lost; no report is sent twice by the library; each outcome is returned once; a Node is not freed under its callback |
| **Device close, graveyard, reaper** `api/c_api.cpp` | `closing`, `close_error`, `graveyard`, `hid_id_domains` | `device_open`, `device_close_impl`, `destroy_drained_device`, `reap_graveyard`, `context_destroy*` | closes each Node, cancels the pool, hands an undrained Device to the event thread | ownership passes between threads; several steps may fail | every Device is freed once, after its last callback; the first error is reported; neutral before request 55 |
| **Context** `api/c_api.cpp`, `api/error_detail.cpp` | event thread, deferred error, event-thread error | `context_create`, `context_poll`, `context_destroy*` | owns Runtime, Devices and graveyard | event thread may fail and exit; destruction joins it | a fatal error is sticky; destruction ends and frees nothing in use |
| **Profile states, Raw Nodes** `profiles/state.cpp` | mouse accumulators and fragments, touch contacts and packet cursor, pen desired and emitted state, toggle, gamepad, battery | one setter per profile, `serialize_node` | called between reports; advanced by `transfer_complete` | movement and frames split over several reports; uncertain outcomes in the middle | the fragments add up; a frame is complete; a pen leaves range between tools |
| **Channel** `transport/channel.cpp` | two index rings, two waiters, `in_flight`, `lost`, `write_error`, reader's and writer's slots | `open`, `read`, `write`, `lose`, destructor | shares the Device's USB handle; its callbacks push to the rings | lock-free rings, wake-ups, loss racing a submit | each transfer is with libusb, in a ring or with its owner; no lost wake-up; loss cancels everything |
| **Port registry and discovery** `transport/port.cpp`, `transport/discovery.cpp` | reference counts, weak list of Ports, interface claims | `acquire_port`, `retain_port`, `release`, `claim_interface`, `discover` | Devices and Channels share a Port; discovery borrows one | a Port found while its last owner releases it | no handle used after close; claims balanced |
| **Registration and HID IDs** `transport/transport.cpp`, `api/c_api.cpp` | the target's registrations, `next_hid_id` per domain | requests 54, 55, 56; `allocate_hid_id` | the phone's accessory gadget | failure in the middle, unknown outcomes | no half-registered ID stays; no ID used twice |
| **HID descriptors** `hid/*.cpp`, `profiles/spec.cpp` | the builder while it runs, the parser of a raw descriptor, the layout of a finished Spec | item writer, descriptor builder, validator, `spec_create_*`, `store_bits` | builds the Spec of a Node | widths, signs, bit offsets, item-stack limits | encodings are exact; the validator accepts what the builder writes |
| **C ABI, bindings, examples, tools, tests** | none of their own | | | | not modelled |

The hazards this code is exposed to, each at its line and with the property
that would catch it, are listed in `PROJECT.json` under "hazards".

## 2. Modules

| Module | What it is |
|---|---|
| `TransferPool` | the pool of one Device: two threads, libusb as an external owner of transfers |
| `TransferPoolProofs`, `PortRegistryProofs`, `RegistrationProofs`, `ChannelProofs` | inductive invariants and theorems of the modules they are named for |
| `ReportNodeProofs` | the same of `ReportNode` and `DeviceClose` |
| `ProfileNodeProofs` | the same of the four profile modules, as `MCProfileNodes` instantiates them |
| `RuntimeProofs` | the same of the ring and of `ContextLife`, and the theorems of the other parts carried to `MCRuntime` |
| `DescriptorProofs` | the same of `SpecFactory`: the parser followed along the items of every factory |
| `ReportNode` | the Nodes of one Device from key change to close; the target as an external party |
| `DeviceClose` | extends `ReportNode` by the close and the destruction of the Device |
| `BlockingWait` | the wake-ups of a blocking submission, one action per atomic and mutex step |
| `ReportFlight` | what the Nodes of all profiles share: one report in flight and its outcome |
| `MouseNode`, `PenNode`, `TouchNode`, `ControlNode` | extend it by the state of a profile; `ControlNode` is Toggle, Gamepad, Battery and Raw |
| `ContextLife` | Devices in a Context: graveyard, reaper, event thread, errors kept for later, destruction |
| `PortRegistry` | Ports of one physical device: references, weak registry, claims, discovery |
| `Registration` | opening and closing Nodes: HID IDs and the requests 54, 55, 56 |
| `SpscQueue` | what a Channel expects of an index ring: a queue with atomic operations |
| `IndexRing` | the ring itself, one action per access to shared memory; implements `SpscQueue` |
| `Channel` | one bulk Channel: reader, writer, event thread, closer |
| `ShortItem` | HID short items, written and read back |
| `RawParser`, `RawDescriptor` | the parser of raw descriptors, and an application that hands one over |
| `ReportBits` | fields in the bytes of a report |
| `DescriptorBuilder` | items, layout and requirements, built together |
| `ProfileSpecs` | what each profile's factory accepts and the builder calls it makes |
| `SpecFactory` | a Spec from options to a serialized report, and a host that reads the items |

The MC modules give them sizes. `MCTransferPool`, `MCReportNode`,
`MCDeviceClose` and `MCChannel` add a symmetry set. `MCProfileNodes`,
`MCDescriptors` and `MCRuntime` instantiate several components: a variable that
never changes (`profile`, `way`, `part`) says which of them a behaviour is about;
the variables of the others keep their initial values. No interaction is claimed
by this; where components interact, one module holds both, as described next.

### How the modules meet

`TransferPool` has the Node's flag as its variable `inflight` and shows that each
accepted report is answered exactly once; `ReportNode` relies on that and keeps
of the pool only its answers: a slot, a refusal, a result. `DeviceClose`
composes the Node's close steps, the pool's cancellation and the destruction of
the graph. `ContextLife` takes the close of a Device as steps that may fail and
leave callbacks, and adds everything above: two Devices, both threads reaping,
the errors. `BlockingWait` refines the waiting that `ReportNode` treats as a
condition. `ReportFlight` is the Node of `ReportNode` without threads: one
report, refused or completed, and the steps of a close; the profile modules put
their state on top. `Channel` uses queues, which `IndexRing` implements.
`SpecFactory` runs the calls of `ProfileSpecs` on `DescriptorBuilder`, validates
and serializes, and `RawParser` reads what it built.

### TransferPool

Each variable is a field of `Device::Impl` or of a slot, under its own name;
`inflight` is the Node's flag, `wire` is libusb. A region run under `StateGuard`
is one action; `deliver_terminal`, which runs with the lock released, is two
more: `Deliver` (the Node's completion) and `CallbackReturns` (the lock is taken
again and `callbacks_active` decremented). A thread between them carries a
`notice`. `cancel_all` is `CancelAll`, one `CancelVisit` per slot and one
`CancelTransfer` for each `libusb_cancel_transfer`, which the code calls
unlocked; the callback may run in between. The requests 54, 55 and 56 appear as
`ControlRequestLosesDevice`, what `observe_control_result` does to the pool.

Abstracted: a slot's buffer and length, the error texts, the timing. A slot that
is held by a Node carries that Node in place of the pair of user pointer and
reservation token.

### ReportNode

One keyboard Node, the profile whose state is a plain set of keys; `pressed` is
the bitmap, modifiers being eight more keys of the same rule. `Kbd` is
`aoahid_kbd` with a changed value. `aoahid_node_submit` is three actions, one
per way out: `ConsumeCompletion` (the outcome of the last report is returned
and nothing is sent), `SubmitAccepted`, `SubmitRefused`. A call that waits
(`aoahid_node_submit_blocking`, the two waits of `aoahid_node_close`) keeps its
place in `call`, and the same three actions, `LoopDone` and `LoopGivesUp` are
its loop, `poll_until_idle`. `transfer_complete` is three actions of the event
thread: everything up to the store of `completion_result`, the store of
`transfer_inflight` under the completion mutex, and the release of that mutex;
`release_node_storage` waits for the last (`CallbackGone`).

External: the target applies a report at some moment while libusb has it
(`TargetApplies`), and libusb reports the end of the transfer (`Reported`): OK
only if it was applied, STALL only if it was not, any other result in either
case. Every result that leaves the delivery unknown is one value, IO; NO_DEVICE
is kept apart because it also clears `present`.

`knowledge` is a history variable: whether the target is known to hold the
pending state. No guard reads it.

### DeviceClose

`device_close_impl` sets `closing` (no other call reaches the Device), closes
the Nodes one after the other with the steps of `ReportNode`, leaves that loop
at the first failure (`NodeLoopEnds`), cancels, and destroys the Device once
`graph_drained` holds, at once or later from `reap_graveyard`; which of the two
makes no difference to these variables. `destroy_drained_device` unregisters
each remaining Node without closing it (`DestroyNode`).

### BlockingWait

`poll_until_idle` on one side, `transfer_complete` on the other. Reading
`slot_generation`, the failed acquire, `slot_waiters`, the predicate under
`slot_mutex`, the sleep that gives the mutex up, the release of a slot, the bump
of the generation, the look at the waiters and the notification under the mutex
are separate actions, and the same for `completion_mutex`. The event thread
bumps `slot_generation` outside the mutex under which it is checked; that this
loses no wake-up is the point of the module. The 10 ms quantum of the waits is
`TimedOut`, to which no fairness is given, so that nothing rests on it.

### ReportFlight and the profiles

`Marks` is the end of every state call, `Submits` and `Completes` are
`aoahid_node_submit` and what `transfer_complete` does for every profile,
`Neutralizes` and `Unregisters` the two halves of a close. A refusal at
submission leaves a Node as it was and is no step.

- **Mouse**: `pending` are the four totals, `submitted` the fragment in flight.
  `Accepted` is `add_checked` on every axis before one changes. `owed` and
  `certain`, which says that the last report that may have arrived did, are history
  variables.
- **Pen**: `desired`, `emitted` and `tool_switch_departure`; the edge guards of
  the four flags are the set `lifecycle`. The serialized report says 0 for every
  flag out of range.
- **Touch**: the slots with their phases, the cursor between the reports of a
  frame, the scan time. External: the target joins the reports of a frame by the
  contact count of the first and keeps a contact down until it sees Tip = 0.
  `Active`, the contacts in the order of their slots, is defined by the rank of
  a slot among the used ones.
- **Control**: `kind` tells Toggle, the two Gamepads, Battery and Raw apart. The
  conversion of the D-pad to a hat value or to bits and the choice of the null
  value are modelled by what they compute; external: the target decodes a report
  by the logical ranges of the descriptor. A Raw Node keeps only the mark that
  its last report was not delivered (`src/docs/API.md:343-345`).

### ContextLife

`where` says which list or thread owns a Device. `device_close_impl` is five
steps: it takes the Device out of the Context's list, runs the steps that may
fail, waits, and destroys or parks. `reap_graveyard` picks a Device under
`active_state_mutex` (`Pick`), destroys it without the mutex and latches the
error. The event thread polls, reaps, and after an exception stores the terminal
error, then the flag, and then exits (`EventTerminal`, `EventFails`,
`EventExits`): in between the destroying application may find it failed and not
yet gone, and waits for it (`BlockingJoins`). `context_destroy_impl`
closes the live Devices, keeps the first error, reaps, and either says
`CLOSE_PENDING` or joins the thread and frees; `destroy_blocking` retries it,
and after a dead event thread polls and reaps in its place (`TakesOver`); the
plain `aoahid_context_destroy` does not, and stays `CLOSE_PENDING` then. An
error is named by where it came from, since `deferred_error` keeps one: `owed`
is the set of errors nobody has been told. `closeError` is the `close_error` of
each Device, which may be an error the Device did not make: the wait for a report
(`poll_until_idle`: `WaitBegins` to `WaitReturns`) looks at the Context first,
after every sleep and in every submission, takes a pending error and returns it
as its own result. In a call the application is told that; in the Node loop of a
Device's close the Device remembers it (`CloseSteps`). Two codes mean something
else to the caller of the wait: a TIMEOUT while the report is in flight is taken
for a drain budget that ran out (`CloseSteps`, `NodeCloseTakesTimeout`), a BUSY
of the submission for a full pool (`WaitTakesBusy`). The error itself is then
gone; `swallowed` records it. `TimeoutErrors` and `BusyErrors` say which errors
have these codes.

### PortRegistry

`references`, `ports` and `claims` are the fields of `Port` and `Runtime`;
`kernel` and `handles` are libusb's side. `Port::release` is three steps, the
count reaching zero, the removal from the registry and the closing of the
handle, between which the other thread may look the Port up. Discovery borrows a
Port (`Borrow`) or opens the device itself (`OpenForProbe`).

### Registration

`aoahid_node_open` from the allocation of a HID ID to the publication or the
undoing, one action per request; `call` is the place in it. External: a request
is answered, refused, or lost with or without effect (`Answer`); the target
takes the fragments of a descriptor in order, forgets everything when it is
plugged in again (`Replug`), and a connection that died reaches nothing. All
Devices are on one physical port, hence in one domain of IDs; a Device that was
closed is destroyed Node by Node while the application may open the next.

### IndexRing and SpscQueue

`IndexRing` has one action for each shared access of `push` and `pop`: the check
that there is room, the store of the slot, the store of `tail_`; the look at
`tail_`, the read of the slot, the store of `head_`. A thread reads its own
counter relaxed and the other's with acquire against a release (or stronger)
store, so interleaving describes it. `push` is told what its callers ensure, that
the slot is not in the ring already; `OneOwner` of `Channel` is that fact.
`ImplementsQueue` maps the ring to `SpscQueue` by the slots between the two
counters: a push happens at the store of `tail_`, a pop at the store of `head_`.

### Channel

The four threads have a label each (`thread[t].pc`); every load or store of an
atomic, every push, pop or libusb call is one action. A thread that must still
notify waiters carries them in `notify`, and the transfers `lose` has still to
cancel in `sweep`; `At` lets it go on only when both are done. The rings are
sequences, as `IndexRing` justifies. The waiter's steps are the `fetch_add`
(`WaitRegisters`), the predicate under the mutex (`WaitChecks`), the sleep that
gives the mutex up (`WaitSleeps`), and the notifier's are the look at `waiters_`
(`NotifyLooks`) and the wake-up under the mutex (`NotifyWakes`). The predicate's
two loads are one action: what changes between them is notified to a thread that
is registered already. The orders on `waiters_`, `tail_` and `lost` are seq_cst,
as the comment in `Waiter::notify` requires.

A submission is the look at `lost` with the increment of `in_flight`, libusb's
answer, and the second look at `lost`; a slot in between is in the thread's
`slot`. Reads return a part or all of what `current` holds; a write sends one or
more transfers. libusb may end any transfer with any status at any time, also a
cancelled one with data. Opening is the initial state: it chooses the mode
(`requestReads`) and the transfers of both pools among those there are, and in
stream mode has submitted every IN transfer. Closing never overlaps a read or
write, which the header forbids.

### Descriptors and reports

An item is a record of tag, width and data; four data bytes are kept as the
int32 with the same bits, since TLC has no larger numbers, and comparisons of
unsigned values are written for that. `DescriptorBuilder` is a record that each
call maps to the next, and `SpecFactory` makes one call per step, in the order
`EmitCalls` takes from the factories; the counting and the emitting pass make the
same calls and are one. The library's own checks are definitions too:
`AcceptsOptions` (the validation of the options), `Finish` with
`validate_generated`, `ReportIsValid` (`validate_serialized_report`), `Accepts`
of `RawParser` (`validate_raw`). Against them stand reference definitions that
share none of that code: `HostReads` (a host that reads the items one by one and
knows neither options nor layout) and, in `RawDescriptor`, the report table
derived from the descriptor as a whole.

## 3. Runs

| Run | Bounds | Shows |
|---|---|---|
| `TransferPool` | 2 slots, 3 Nodes, 4 statuses | accounting, ownership and liveness of the pool |
| `ReportNode` | 1 Node, 2 keys, every outcome | held state, edges, resend, blocking calls return |
| `DeviceClose` | 2 Nodes, 1 key, OK and IO | Nodes are freed when quiet; a close that started ends |
| `Channel` | both modes, at most 2 IN and 2 OUT, 3 transfers together | ownership, wake-ups, loss, free |
| `ChannelLive` | both modes, 1 IN and 1 OUT | calls end at a loss; a close frees the Channel |
| `ProfileNodes` | one Node of each profile: 3 axes with fields of one unit; 2 places, 1 barrel button; 3 identifiers, 3 slots, 2 contacts per report; 2 usages, 1 button, 2 axis values, 3 strengths, 2 raw reports | what the target shows is what was asked for |
| `Descriptors` | several hundred option records over every profile; raw descriptors of up to 15 items from 11 blocks | descriptor, layout, validator and reports agree |
| `Runtime` | ring: 3 slots, counters modulo 8; wait: 3 transfers, 2 resends; Context: 2 Devices, 2 failed polls, one error that is a TIMEOUT and one a BUSY; ports: 2 Devices, 3 handles, 2 interfaces; HIDs: 3 Nodes, 2 Devices, 2 fragments, 2 IDs | the parts threads share |
| `DeviceCloseNeutral` | 2 Nodes, 1 key, no deadline passes | a documented claim that the code breaks (section 6) |
| `ChannelAfterFailure` | both modes, at most 2 IN and 1 OUT | another |
| `DescriptorWidths` | the options of `Descriptors` | another |
| `RuntimeProbe` | the ports of `Runtime` | another |

Why these bounds are enough to be interesting:

- A Node holds at most one slot, so it takes more Nodes than slots for the last
  free slot to be refused to one Node and kept for another: with as many Nodes
  as slots a slip in that test would stay invisible, and a Node could not be
  starved. Two threads are all there are. The statuses kept are one per path of
  `completion_result` and `latch_locked`: success, an error, a lost device, a
  cancellation. The proofs remove these bounds from the safety properties.
- Two keys let one be released while the other stays down and put both edges of
  two keys in one report. Nodes share nothing in `ReportNode` but the thread and
  `present`, so one is enough there; `DeviceClose` needs a second for the loop
  over Nodes, and takes one key.
- Two IN transfers let one be ahead of the other in the ring; with one OUT
  transfer the pool is empty after one submission, so that the writer waits;
  with two, one can be `spare` while the other is out.
- Mouse fields of one unit cut every larger movement, and totals up to 3 reach
  the overflow that refuses a movement. Three contacts at two per report make
  frames of one and of two reports, with a lift in either. The battery's range
  1..3 in two bits leaves exactly one null value, below the range; the hat's
  range leaves its null values above.
- The options vary widths that are no whole bytes, 32 bits, signs, physical
  extents and counts, and include what each profile must refuse. Fifteen raw
  items hold the opening, two levels of collection, both ends of Push and two
  reports, with fields that cross byte borders.
- Three slots in a ring of four leave a place unused and make the counters wrap
  at any position; counters modulo 8 wrap after eight pushes as a `size_t` does
  after 2^64, both being multiples of the ring's size.
- Three transfers and a Node that is dirty again twice make the submission wait
  at both conditions, more than once at each. Two failed polls and two Devices
  let an error of each origin meet a latch that is taken already. The errors of
  one Device are TIMEOUTs, those of the other have no special code, and a failed
  poll is BUSY, so that each of the three fates of an error a wait takes occurs. Three handles are one for a Device, one for a discovery that finds none and one for the next
  Device. Three Nodes and two IDs exhaust the domain.
- Counts, sizes and usage ranges of raw items stay below 2^31. From there on
  TLC's integers are negative where the code compares unsigned ones, and no run
  goes that far; the proofs are about generated descriptors, whose values are
  checked to be small.
- The bounds that stand for something larger are named: `TotalMax` (int64),
  `MaxDelta`, `MaxId` (65535), `Fragments`, `Ports`, `MaxPollFailures`,
  `Resends`, `ScanTimes`, `MaxSlots`, `Word` (2^64), `MaxItems`, `WireMaximum`.
  No state constraint is used.
- Deadlock is not checked: a freed Device, Channel or Context stops, and so does
  a Spec that has been returned.

### Fairness

- Every control transfer is submitted with a timeout, so libusb reports it and
  the event thread keeps handling events: strong fairness of
  `TransferFinished` and `TransferComplete` per slot or Node, strong because
  the one event thread serves all of them.
- A thread inside a callback, `deliver_terminal` or `cancel_all` goes on: weak
  fairness.
- The application thread goes on inside a call. `aoahid_node_submit` submits or
  abandons the slot it prepared before it returns (`SubmitAccepted`,
  `SubmitRejected` or `Abandon`; strong fairness, as the two threads alternate).
- The deadline of `poll_until_idle` is not assumed to pass: `LoopGivesUp` is in
  no fairness condition, so that the liveness results do not rest on it.
- The transfers of a Channel have no timeout, so only cancelled ones are assumed
  to end, and a callback that began; the reader, the writer and a closer that
  waits go on, but the deadline of a wait need not pass (`WaitExpires`).
- `BlockingWait`: the submitting thread goes on (weak), transfers end and the
  event thread obtains a mutex that is released again and again (strong). The
  10 ms quantum has no fairness.
- `ContextLife`: the event thread and a call that has begun go on (weak); the
  Node loop of a closing Device and its wait for the callbacks share a deadline,
  so they end (weak, `CloseSteps` and `DrainEnds`); of the
  polls that are made again and again some run the outstanding callbacks
  (strong, `Delivers`), because cancelled and timed transfers end. The deadline
  of the blocking destruction is in no condition.
- The application itself owes nothing: no fairness for `Kbd`, `SubmitBlocking`,
  `NodeClose`, `Acquire`, `CancelAll`, `ContextDestroy`.

### Properties

| Where | Properties |
|---|---|
| Pool | `PoolAccounting`, `ReservationLedger`, `OneCompletionOwed`, `BufferOwnership`, `ReservationStaysFunded`, `EveryReportCompletes`, `ReservationEventuallyFunded` |
| Node | `HeldStateIsRemembered`, `NeutralBeforeUnregister`, `EdgeReachesTarget`, `NoBlindResend`, `CallsReturn` |
| Device | `FreedNodeIsQuiet`, `DeviceCloseEnds`, and the claim `NeutralizedBeforeUnregister` |
| Profiles | `MovementConserved`, `RestIsSent` (mouse), `KnownToolLeavesRange`, `ClosedPenIsAway` (pen), `FrameIsOfOneState`, `HeldContactHasSlot` (touch), `TargetShowsState` (the others) |
| Channel | `OneOwner`, `NoLostWakeup`, `LossReachesEveryTransfer`, `FreedChannelUntouched`, `RequestPendingIsAccurate`, `LossEndsCalls`, `ClosedChannelIsFreed`, and the claim `NoDataAfterFailure` |
| Ring | `ImplementsQueue` |
| Waiting | `BlockedSubmissionEnds` |
| Context | `TeardownIsExclusive`, `NoErrorIsLost`, `DestroyIsPossible` |
| Ports | `PortOutlivesItsUsers`, and the claim `ProbesAlone` |
| HIDs | `IdIsFresh`, `OpenIsAllOrNothing` |
| Descriptors | `HostReadsLayout`, `GeneratedIsRawValid`, `ReportsReadBack`, `AcceptedIsTrue`, and the claim `EveryWidthCombinationFits` |

Each is stated in words where it is defined, and each property of a run that
passes has a mutant in `PROJECT.json`, a change to one definition that a
plausible slip in the code would make, under which TLC finds it violated.

## 4. Proofs

`TransferPoolProofs` proves, for any finite set of slots and Nodes and any set of
statuses (`PoolAssumption`), the four safety invariants and the action property
`ReservationStaysFunded` of the run `TransferPool`, and besides them type
correctness, `LatchMatchesPresence`, `TeardownNotLatched`,
`FundedReservationIsHonoured` and `LatchPriority`, which no run repeats.

The invariants are not inductive by themselves. That `outstanding` counts the
busy slots is kept by a completion only if the slot it finishes was busy, hence
only if libusb reports transfers of submitted slots alone; that `unfilled_total`
counts the unfilled reservations is kept only if a slot that is released and
counted belongs to a reserving Node whose `in_use` is one. `IInv` adds what ties
the parts together:

- `HolderInv`: a slot is free exactly when nobody holds it, no Node holds two,
  `in_use` says whether a Node holds one, and a held slot is counted exactly
  when its Node reserves;
- `TotalsInv`: the two totals are the cardinalities they summarize;
- `OwedInv`: a Node's flag is set exactly when a slot or one thread owes it a
  completion, never two of them;
- `CallbackInv`: `callbacks_active` counts the threads that carry a notice;
- `WireInv`: libusb has exactly the submitted slots, and only a closing Device
  has cancelled ones;
- `LatchInv`, `FreedInv`.

`NextIInv` has one lemma per action. `FinishStep` is shared by the three actions
that end a transfer (completion, refusal, cancellation of a prepared slot), and
`PushFreePool`, `AcquirePool` and `ReleaseSlot` carry the counting arguments on
the stack and on the totals. The theorems then read off each property; the two
action properties use `IInv` for the state before the step.

`RegistrationProofs` proves `IdIsFresh` and `OpenIsAllOrNothing` for any Nodes,
Devices and fragments (`RegistrationAssumption`). The invariant has one part per
question: `IdInv`, that the counter of the domain is above every ID given out
and no two Nodes share one; `CallInv`, that before request 54 and after a clean
end the ID has no entry and in between the entry counts the fragments sent, as
long as the connection lives; `TargetInv`, that every entry belongs to a Node
that is open, being opened or left behind; `HeldInv`, for the reservations and
the Spec's references. An ID is fresh because every entry belongs to a Node and
every Node's ID is below the counter. `AnswerEnter` and `AnswerForget` say what
a request can do to the target; `Ends` is shared by the two ways a Node ends.

`ReportNodeProofs` proves the safety properties of `ReportNode` and `DeviceClose`
for any finite sets of Nodes and keys and any set of outcomes (`NodeAssumption`).
`HeldStateIsRemembered` by itself does not say what the report in flight will
make of the target, nor what is remembered of the state before it. `CoreInv` adds:

- `FlightInv`: a report with libusb says what is pressed and whether that is
  neutral, and once the target has applied it the target shows it;
- `RememberInv`: what the target held before a report it has not applied is what
  `emitted_non_neutral` remembers, so that a failed neutral report does not clear
  the memory of a key that is still down;
- `EdgeInv`, `UnknownInv`: after a known answer the target differs only in keys
  with a pending edge, after an unknown one only a new edge makes a Node dirty;
- `CountInv` and `OwnerInv`: the bitmap's count, and that calls and callbacks are
  about Nodes that exist.

`NeutralInv` says what each stage of `aoahid_node_close` has established; it holds
of `Spec` only, since a Device close unregisters Nodes it has not closed (section
6). `CoreInv` holds of `DeviceSpec` too, with `DeviceInv`, which says that no
call is left once draining begins and no report once destruction does.

`ProfileNodeProofs` proves the seven properties of the run `ProfileNodes` for all
constants (`ProfileAssumptions`: any axes, field ranges, places, numbers of
contacts and of contacts per report, strengths with a null encoding, axis
values). Each invariant ties the report in flight to the state it was cut from,
which must not change meanwhile:

- **Mouse**: conservation survives a completion only if the fragment it subtracts
  is the one that was cut (`FragmentInv`); `ClampFits` says that it fits the
  field and that what it leaves is a total again. A Node may rest after a close
  that sent nothing because a button the target holds is remembered
  (`MouseRestInv`).
- **Pen**: a target in range is known to be non-neutral (`PenCloseInv`), and
  unless a departure is due `desired` has the tool that is in range
  (`PenToolInv`).
- **Control**: the report in flight decodes to what was asked for. The lemmas
  `HatInjective`, `BitsRead` and `NullIsOutside` say that the encodings can be
  read back: eight hat values for the eight directions, four bits for any set
  of them, a null value outside every range.
- **Touch**: the records the target has joined are the first of `Active`, which
  a frame in progress keeps fixed (`TouchFrameInv`); a contact that is down has a
  slot, and not one whose lift was joined (`TouchDownInv`). `RankIsOnto` counts
  the used slots by rank, from which `Active` is a sequence that names each once;
  it is defined by ranks because the provers have no definition of `SortSeq`.

`RuntimeProofs` proves `TeardownIsExclusive` and `NoErrorIsLost` of `ContextLife`
for any finite set of Devices, any choice of the errors whose codes are TIMEOUT
and BUSY, and any number of failing polls. `ContextInv` has
one part per question. A Device in no list is held by one thread that is at a
step for it (`HolderInv`); callbacks come only for Devices nobody destroys, and
only a Device that exists keeps an error (`BusyInv`); what the destruction of the
Context found empty stays empty (`DestroyInv`); a thread that met an exception
says so before it is gone, and nobody polls in its place before that
(`ThreadInv`). `PathInv` says that an error being passed on is
where the next step looks for it and nobody's place is taken, so that no step
overwrites one; a wait is the exception, and every error it may drop is in
`swallowed`, where `NoErrorIsLost` admits only the two codes.

`PortRegistryProofs` proves `PortOutlivesItsUsers` for any finite sets of Devices,
Ports and interfaces. `CountInv` and `ClaimInv` say that a count is the
cardinality of what it counts; they are kept because every user is counted above
zero (`UsersCounted`), a Port with references is open and registered, and the one
being taken down has none (`HandleInv`). `ThreadInv` keeps two threads from
destroying one Device or taking down one Port.

`ChannelProofs` proves the five invariants of the run `Channel` for any finite
pools and both modes (`ChannelAssumption`). `PlaceInv` names the places of a
transfer (libusb, either ring, `current`, `spare`, each thread) and says that it
is in one of them, and once; `OneOwner`, which counts, follows by
`InvOneOwner`. `CountInv` says what `in_flight` counts: the transfers with
libusb, the submission and the callback under way; with `CloserInv` a zero means
that nobody is inside. `SweepInv` covers the time `lose` takes: a transfer not
yet cancelled is still in its sweep or its submitter will look again. `RequestInv`
follows the request transfer through the labels of the reader.

That a behaviour of the composition is one of each part's specification, which
`RuntimeProofs` shows first, makes the theorems about Contexts, Ports and HIDs
hold of what the run `Runtime` checks.
`ImplementsQueue` is proved as a refinement, step by step: the counters wrap, so
`RingInv` speaks of the distance between them, and `PlacesDiffer` says that
counters less than `Size` apart have different places in the array, also across
the wrap. So push and pop are those of a sequence for any number of slots and
any word that is larger than the ring and a multiple of its size.
`RoomForEverySlot` is what lets the callers ignore the result of `push`: as long
as a client owns a slot the ring is not full.

`DescriptorProofs` proves `HostReadsLayout` and `GeneratedIsRawValid` for every
set of option records of the types of `aoahid.h` (`OptionsAssumption`,
`OptionTypes`; members of 32 bits may be any integer there) and every
`WireMaximum`: which options are legal is left to the factories' own checks. Both
properties read a whole item sequence from its start, so neither says what one
more call of the builder does to it. The argument has four parts.

- *Induction.* The library states induction with an operator parameter. `Least`
  and `SetInduction` state it for a set of numbers instead, by the
  well-foundedness of finite subsets; the folds the model is made of (`Write` in
  the builder, `Reading` in the host) unfold by it one item at a time
  (`ReadOne`, `Written`).
- *Items.* `UnsignedItem`, `SignedItem` and `MaximumItem` cut a value to its bytes
  and the parser puts it together again; the lemmas `UnsignedReadBack` to
  `ExponentReadBack` say that what is read is what was meant, for every value of
  one, two or four bytes.
- *The parser along a call.* `At` describes the whole state of the parser after a
  prefix: its global and local values, its counts, the fields the host has found.
  Each builder call has a lemma that takes `At` over the items it writes
  (`BeginRead`, and so on), down to the reset of the physical extents that keeps
  them from the next field.
- *The invariant.* `DescriptorInv` says of a builder that has not failed that it
  `Grows`: its counters are in their ranges and, if it is `Checked`, its items can
  be followed by a parser that agrees with it (`Tracked`). `Checked` is what
  `validate_generated` establishes of a finished descriptor, that fields fit
  their bytes and Main items are in collections; it is a hypothesis inside the
  invariant since the builder itself writes a field that does not fit, and only
  the validation at the end refuses it (the run `DescriptorWidths` shows one). It
  passes from longer item sequences to
  shorter ones, which is why the step may use it. The requirements are claimed
  only while there is no Feature item, the one thing a raw descriptor may not
  have. `FieldsDue` says that a field is there or still to come, which
  `validate_raw` asks for; it rests on the calls of each factory
  (`KeyboardMade` to `BatteryMade`, `OptionsMade`), the part that follows the
  seven factories through their options.

The assumptions on constants: `PoolAssumption`, `NodeAssumption`,
`ChannelAssumption`, `ProfileAssumptions`, `OptionsAssumption` and
`RuntimeAssumptions` are ASSUMEs of the modules, which TLC evaluates on every run.
Those of `ContextLife`, `PortRegistry` and `Registration` are hypotheses of what
is proved of them, which `RuntimeAssumptions` discharges. `SizeAssumption` states
what the provers cannot compute, that the least power of two that holds the slots is a number that holds
them.

Only model-checked:

- all liveness (`EveryReportCompletes`, `ReservationEventuallyFunded`,
  `CallsReturn`, `DeviceCloseEnds`, `LossEndsCalls`, `ClosedChannelIsFreed`,
  `BlockedSubmissionEnds`, `DestroyIsPossible`): fairness and ENABLED are beyond
  the prover;
- `ReportsReadBack`: the bits of a value are cut into bytes by shifts and put
  together again, and a field of any width and offset read back means an
  arithmetic of powers of two that neither prover has;
- `AcceptedIsTrue`: it compares the parser with a second definition of the report
  table over arbitrary raw items, Push and Pop included, so its invariant would
  be the parser once more; it is no part of a generated descriptor;
- the claims of section 6, which are false.

## 5. Not modelled

The C ABI declarations, the language bindings, the examples, the tools, the
tests and the build files: they hold no logic of the library. Inside the
modelled parts:

- argument checks that only return an error, error texts and logs, allocation
  failures;
- pool: the allocation of the transfers of an opened Device;
- profiles: the value of a scan time, of which only zero, elapsed and equal are
  told apart;
- Context: the log sink; the creation of the Runtime;
- Channel: the search for its interface, the roll-back of a failed open, the
  caller-poll mode, in which a wait is a poll, and the bytes of a transfer;
- ports: the list discovery returns and the strings of the accessory start;
- descriptors: evidence strings, reserved members, which of the error codes a
  refused option gives.

## 6. What the models found

`DeviceCloseNeutral` refutes `NeutralizedBeforeUnregister`. `src/README.md:156`
says "Close nodes/channels/device so neutral state is completed before request
55", and `src/docs/PROTOCOL.md:113` says of `aoahid_device_close` "Neutral
reports as needed, then 55". `device_close_impl` leaves its Node loop at the
first Node whose close fails (`src/src/api/c_api.cpp:1928`), and
`destroy_drained_device` sends request 55 for the rest as they are. In the trace
TLC prints, a key of one Node is delivered and held, the close of the other Node
fails, and the first is unregistered with its key down: no deadline passed and
the device is present.

`ChannelAfterFailure` refutes `NoDataAfterFailure`. `src/docs/API.md:304` says "A
failed IN transfer or a disconnect loses the Channel: reads and writes then
return `AOAHID_ERR_NO_DEVICE`". `Channel::read` pops the ring
(`src/src/transport/channel.cpp:505`) before it looks at `lost` (line 530). In the
trace one IN transfer fails and another completes with data before the read that
returns the failure; the next read returns that data, past the gap the failed
transfer left in the stream.

`DescriptorWidths` refutes `EveryWidthCombinationFits`. `src/docs/PROFILES.md:60`
says "The generator inserts Constant padding to a byte boundary between
caller-sized fields so this holds for every width combination". The mouse factory
pads after X and Y together (`src/src/profiles/spec.cpp:655`), so a 12-bit X and
a 32-bit Y put a 32-bit field at bit 12 of its bytes; `validate_generated`
(`src/src/hid/validator.cpp:389`) refuses it and the factory fails.

`RuntimeProbe` refutes `ProbesAlone`. `src/src/transport/discovery.cpp:225` says
an open Device's handle is borrowed "so the process never holds two handles to
one device (WinUSB rejects a second open of a composite device)".
`Port::release` (`src/src/transport/port.cpp:253`) takes the count to zero,
unregisters the Port and then closes its handle; when the event thread does so
for a parked Device, a discovery of the application in between finds no Port to
borrow and opens a second handle.

Three observations of the same kind have no run of their own. `src/docs/API.md:464`
says "Completion errors are stored on the Node, Device, or Context and published
on the next application call that touches them", and line 467 of a failed poll
that its "error is returned by the next call". A TIMEOUT that a reaped Device left
in `deferred_error` is lost when the next call is an `aoahid_node_close`, or the
close of another Device, with a report in flight: the wait takes it, and
`src/src/api/c_api.cpp:1826`, 1846 and 1918 read it as the wait's own deadline. A
BUSY is lost when a submission inside a wait takes it (line 623). `NoErrorIsLost`
says that these are the only errors lost; without `swallowed` in it TLC finds
either loss.

After a pen report with an unknown outcome the library keeps the old `emitted` sample
(`src/src/profiles/state.cpp:1171`), so a change of tool after it may reach a
target that is in range, where `src/docs/PROFILES.md:361` promises an out-of-range
report in between; `KnownToolLeavesRange` therefore speaks of known outcomes. And
the identifier of a touch contact whose lift report ended with an unknown outcome
stays in its slot until another frame has been sent
(`src/src/profiles/state.cpp:616`, against `src/docs/PROFILES.md:287`).

## 7. Plan

Done: the components of section 1 but the last, each with its runs, and the
theorems of section 4, which state every safety invariant and action property of
the runs but `ReportsReadBack` and `AcceptedIsTrue`. Open:

1. `ReportsReadBack` for fields of whole bytes, where no power of two has to be
   split; and a stack of Globals in `At`, for `AcceptedIsTrue`.
2. `ReportNode` keeps of the pool only its answers; stated as a refinement, every
   step of `TransferPool` would be one of an abstract pool that answers each
   accepted report once.
3. Of the model: the caller-poll mode of a Channel, and the close of a Device that
   has Channels.
