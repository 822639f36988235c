# Verification of byond-extools

extools is a DLL that a BYOND game server loads. It hooks functions of the
BYOND virtual machine and gives DM code things BYOND lacks: a debugger,
calls into foreign libraries on threads of their own, TCP sockets, a native
atmospherics simulation, profilers, a reference tracker, Lua. This directory
models the parts whose control is hard to get right and hard to test, checks
them with TLC on small instances, and proves the most important results with
TLAPS for every value of the constants.

All paths below are under `src/byond-extools/src/`.

## 1. Inventory

| component | state it keeps | operations | hard behaviour |
|---|---|---|---|
| **Debug server** (`debug_server/`) | breakpoint map, patched bytecode, `breakpoint_to_restore`, `next_action`, `step_mode`, two sequence numbers | set and unset a breakpoint, step into, over, out, resume, pause, toggle runtimes; hits, restores, stops | two threads share everything and lock only `next_action`; code is patched while it runs |
| **Threaded FFI** (`tffi/`, `dm/_extools_api.dm`) | `suspended_procs`, the fields of promises | `call_async`, `call_cb`, `call_wait`, resolve, a thread per call | a worker may finish before, while or after the proc goes to sleep; datum ids are reused |
| **Datum sockets** (`datum_socket/`, `dm/socket.dm`) | buffers, accept queues, awaiters, `open`, `mode` | register, connect, listen, receive, accept, send, close, deregister | a thread per socket resumes procs; the check for data and the suspension are two calls |
| **Hooks, opcodes, life cycle** (`core/`) | table of hooks, handlers of custom opcodes, list of procs, initialised flags | install, register, initialise, cleanup | hooks of hooks; flags and opcodes that survive a cleanup |
| **Topic flood filter** (`core/flood_topic_filter.cpp`) | last topic per address, black- and whitelist, ban callback | install, decide on a topic | a window over time; none of it is reset by cleanup |
| **Message framing** (`core/socket/`) | receive buffer | send, receive, parse, close | messages arrive in pieces; two threads send; one text does not parse |
| **Excited groups** (`monstermos/`) | tile -> group pointers, group -> tile lists, cooldowns, a list of weak pointers | process_cell, merge, break down, dismantle, collect, refresh | two redundant structures kept in step by hand; a run resumed over several calls |
| **Zone equalization** (`monstermos/turf_grid.cpp`) | per-tile cycle marks, planned transfers | flood fill, givers and takers, planets, finalize, depressurization | the fill is cut off at a limit; plans passed back along the queue; firelocks close half way |
| **Gas mixtures and registry** (`monstermos/GasMixture.cpp`, `monstermos.cpp`) | shared pointers hidden in a datum's variable, moles, immutability | register, unregister, free on deletion, merge, remove, share, scrub | who frees a mixture, and when; who may change it |
| **Reference tracking** (`reftracking/`) | two maps of references | seven hooks, an export | maps that mirror the VM's variables and lists; ids used again |
| **Extended profiling** (`extended_profiling/`) | requested procs, running and sleeping profiles | enable, disable; hooks on start, suspension and end | procs that nest, sleep, resume and die |
| **Memory profiling** (`extended_profiling/`) | counters per type, table and total | one walk, one report | unsigned counters that wrap |
| **Disassembler** (`dmdism/`) | buffer, offset, instructions | read an instruction, find the next | operands decide how many operands follow; the buffer ends |
| **Lua bridge** (`luajit/`) | table of functions, replaced procs, a jump buffer | assign, call, call back, panic | one jump buffer for nested calls |
| Optimizer, maptick, crash guard, logger, signatures, third-party code | | | see section 5 |

How they interact. Everything meets BYOND through the core: the debugger is
entered from the single-step hook and from a custom opcode (`on_singlestep`,
`on_breakpoint`), TFFI and the sockets suspend a running proc
(`Core::SuspendCurrentProc`) and have another thread resume it
(`ResumableProc::resume`, which sets a timer so that the main thread picks the
proc up), the other modules hook functions or replace procs. All DM code runs on
one main thread and procs give it up only where they sleep. The debugger's
client talks through the message framing of `core/socket`. The topic filter is
a pointer the core's hook asks. The atmospherics run on the main thread alone:
hooks of `/turf/open`, of `/datum/gas_mixture` and of the air subsystem;
equalization and groups share the tiles and their mixtures.

What makes each correct:

* Debug server: patching never loses an instruction nor leaves an opcode
  nobody handles; a breakpoint stays armed; steps stop where they were asked
  to; neither thread waits for the other for ever.
* TFFI: every resolve returns its own call's result, once the call has returned.
* Sockets: DM code gets the bytes of the peer in order and once, and is woken
  when, and only when, there is something to get.
* Core: what the table of hooks says is what the code does; an opcode runs its
  owner's handler; cleanup gives BYOND its functions back.
* Topic filter: accepted topics of an address are a window apart; bans last.
* Framing: the messages sent are the messages received.
* Groups: tiles and groups agree, every group is ticked and dismantled.
* Equalization: gas is moved, not made, and the zone ends even, or empty if breached.
* Mixtures: one lives as long as its datum, and an immutable one never changes.
* References: what is reported exists, or ended where no hook sees it. Profiles: every
  run asked for and not stopped is written.
  Memory: the report adds up. Disassembly: the instructions are those compiled.
  Lua: a proc runs the function it was given.

## 2. Modules

| module | what it is |
|---|---|
| `DebugServer` | the debug server and as much of the VM as it depends on |
| `BreakHandshake` | abstract: what the stop and the commands promise each other |
| `Tffi`, `DatumSocket`, `ExcitedGroups` | threaded FFI; datum sockets; excited groups |
| `CoreHooks` | table of hooks, opcodes, procs, life cycle of the core |
| `TopicFilter` | extends `CoreHooks` by the flood filter |
| `JsonStream`, `MessageChannel` | message framing, and the abstract channel it implements |
| `Disassembly` | the disassembler |
| `Equalize`, `AirSharing`, `GasMixtures` | zones; how much air neighbours share; mixtures and their registry |
| `MemoryUsage`, `ExtendedProfiling`, `RefTracking`, `LuaBridge` | the services |
| `*Proofs` | theorems about `DebugServer`, `Tffi`, `DatumSocket`, `ExcitedGroups`; `TopicFilter`, `JsonStream` and `Disassembly` (`CoreProofs`); `GasMixtures`, `AirSharing` and `Equalize` (`AtmosphereProofs`); `LuaBridge`, `RefTracking`, `ExtendedProfiling` and `MemoryUsage` (`ServicesProofs`) |
| `FoldLemmas` | what folds and sums over finite sets are, for the proofs |
| `MCDebugServer`, `MCTffi`, `MCDatumSocket`, `MCExcitedGroups`, `MCCore`, `MCAtmosphere`, `MCServices` | the instances TLC checks |

`MCCore`, `MCAtmosphere` and `MCServices` hold several components that share no
state: the initial state chooses one, and a behaviour is a behaviour of that
one. Its properties are those of the components, each stated beside its model.
Where components do interact (core and filter, stream and channel, debugger
and handshake) the modules are composed.

Names follow the source: a variable carries the name of the field it models, an
action the name of the function, in capitals where TLA+ needs an operator.
`PROJECT.json` ("map") names the lines each definition stands for. Definitions
whose comment begins with **Mutant** are not part of a model: each is a slip a
programmer could make, and replacing the definition it belongs to by it must
break the property `PROJECT.json` ("mutants") names.

### DebugServer

A step is a statement, or a run of statements no other thread can tell apart.
`main` is the program counter of the BYOND main thread: the hook before each
instruction (`on_singlestep`: restore, then the step mode), the fetch, a
breakpoint (`on_breakpoint`: look up, swap, keep, wait), `wait_for_action`, the
switch of `on_break`, and back. `net` is the message handler's. The call stack,
sleeping stacks and the instructions are the VM as the hooks rely on it: an
instruction moves on, calls, returns, sleeps, jumps or fails. Writing
`next_action` and `notify_all` under the lock are one step; testing the
predicate and going to sleep are one; a spurious wakeup is a step of its own.
`unordered_map` accesses are taken to be atomic: a torn access is undefined
behaviour about which nothing can be said. A hit whose map entry is
missing dereferences an empty optional, which is the absorbing place "undefined".

`Patient` restricts the client to editing breakpoints while it has the program
stopped. What holds for a patient client is stated for a patient client;
`OwnInstructions` and the handshake hold for any.

### Tffi

`where` is a proc's place, `worker` that of the thread of a call. A promise has
two names: the datum id, which BYOND reuses, and `__id`, which only grows; the
result of a call is represented by its `__id`. `rewritten` chooses the platform at
the start: `__internal_resolve` suspends, or its DM code polls. `discards` chooses a
program: may it drop a promise whose worker still runs, or not. Both are
chosen once, by `Init`, so one run covers the four kinds of system.

### DatumSocket

`thread` is the place of the detached thread of `recv_loop` or `accept_loop`, `at` that of a
proc in recv or accept. Bytes are numbered by their place in the stream, so an
order, a loss and a repetition can be seen. `has_data` and the suspension are two
steps of the proc, and the main thread does nothing else in between; append,
test of the awaiter, `resume` and `reset` are four steps of the socket's thread.
`resume` nulls the pointer (`Spent`). Accepting from an empty queue is undefined.
An `accept` that fails ends the loop and leaves the listener open (`AcceptInvalid`).
`Deregister` is short of the code: there the detached thread goes on, on a freed object;
the model has it vanish, so nothing is said of a slot whose old thread still runs.

### CoreHooks, TopicFilter

`code[f]` is whose handler the first bytes of BYOND's function `f` enter,
`hooks[f]` the entry of the table: its handler and the bytes it saved. A module
is initialised any number of times; only the debugger remembers that it was,
and nothing resets that. A hook over a hook is `Hooked`: the new one saves what
it finds and writes its jump; storing it destroys the old entry, whose
destructor writes its own saved bytes back. `bytecode` is what a module wrote into procs
and who owns it: `destroy_proc_list` frees what was compiled, and leaves the
breakpoints the debugger patched into BYOND's own words. `Reboot` is the environment: a
world ends after cleanup and another starts in the process. The filter extends
this with time as ages since the last accepted topic, counted up to the window.

### JsonStream

A byte is its message and its place in it. A send is cut into as many writes
as the stack takes, and takes no lock: two threads may write by turns, and one that
writes into a message of which a part was taken has `torn` it, which is one of
the faults after which the channel promises order and no longer completeness.
`recv_message` is one step per round of its loop. A reset loses what was not
received; recv's -1 is used as a length, which is the place "undefined"; a text that
is no JSON throws before it is erased. `MessageChannel` is the queue it implements.

### Disassembly

The bytecode is a sequence of words, numbered as the tables number them. An
instruction's operands are read by one operator per callback of `opcodes.cpp`;
which opcodes share a callback is `opcodes_table.inl`. `CodeInit` compiles
sequences of instructions and may cut the last one short. What the code does in a
loop is a function on readers (`Follow`, `Case`, `PickCase`) that `Repeat` applies as
often as the loop goes round; a round that changes nothing stands for one not made.
`failed` is a disassembly that ended without a result: `get_proc` throws at an id that
is no proc's, and at an id that is no string's a null pointer is read. What the program
says of itself is kept in three fields of a compiled instruction: its `jumps`, those of
them no callback reads (`unseen`), and whether its names are `known`.
The bisection of `next_from_offset` is such a loop too (`Halved`).

### ExcitedGroups, AirSharing

One call changes pointers, lists and cooldowns one after the other, so the
operators take all of them as one record `now`, and `Become` makes the result the next
state: a group without a tile that points to it is destroyed there, and leaves
`excited_groups`. `process_cell` is one step per neighbour, with nothing else
in between. Whether two airs differ and how much they share is a choice.
`process_excited_groups` is one step per group; a call may stop after any (its
time limit) and the next may resume the run or start anew. A cooldown at its
limit stays there, since only `>=` is asked of it. `AirSharing` is the other
half of `process_cell`: the moles, archived and current, that are shared.

### Equalize

`pc` is the loop the call is in. The flood fill is one step per tile, the fast
pass, the givers and takers (whichever are fewer) with their queues, the planets and
`finalize_eq` one step per iteration of their outer loop; within a step the
operators change `info`, the record of a tile's `MonstermosInfo`. `finalize_eq`
calls itself for neighbours: a recursive function of how deep calls may still nest, which is
once per tile, since a tile that is called has no plan from then on. The two
queue cycles are sets of the tiles that carry the current number. A tile open
to space turns the fill into a breach: the rush marks the tiles, asks DM code
to close firelocks (a choice), then drains along the way to space. Moles
are integers of one gas at one temperature; what a division leaves stays where it is.
Whether there is anything to do is asked of total moles (`Differ`), who wakes of
`GasMixture::compare`, which wants a part of the neighbour's moles too (`Compare`).

### GasMixtures

A mixture is named by the pointer it was made with; `pointer` is the variable of
the datum, `allocated` what is on the heap. `long` are datums with ten variables
or more, whose pointer `hDelDatum` does not look for. Tiles share mixtures
(`update_air_ref`). Each hook looks the pointer up and changes one mixture or two,
which may be the same.

### MemoryUsage, ExtendedProfiling, RefTracking, LuaBridge

`MemoryUsage` measures slot by slot with counters modulo `2^Width`.
`ExtendedProfiling` keeps the contexts that run and sleep and the id that
`hCallGlobalProc` remembers, by which a resumption is told from a call; a sub-call of
a profiled proc dereferences a pointer just moved from (`lost`). `wanted` is a run
that was asked for when it was called and has not been stopped since. `RefTracking`
keeps what variables and lists hold beside the two maps; lists nobody holds and
datums, held or not, are destroyed and their numbers used again. BYOND nulls what
referred to a deleted datum, and cuts and overwrites lists by functions that have no
hook (whether an index write comes by `SetAssocElement1` the code does not tell: it is
taken not to). The history `unseen` has the tracked references that ended so, until a
hook erases them; what is tracked is told from what is held by it alone. `LuaBridge` keeps the stack of
entries into Lua, which of them the jump buffer belongs to, and the table of functions.

## 3. Runs

| run | bounds | question |
|---|---|---|
| `DebugServerPatient` | 2 procs of 4 instructions, 3 sites, stacks of 2 frames | set, unset, hit, restore, step into, sleep, jump, fail, in any order: is the bytecode always what the map says? |
| `DebugServerStepping` | 2 procs of 3 instructions, 2 sites, 2 frames, any client | where do steps over and out stop, does a pause stop, do the threads implement `BreakHandshake`? |
| `TffiPromises` | 2 procs, 2 datums, 2 calls | both platforms, both kinds of program: is no worker or proc left behind, and does each get its own result? |
| `DatumSocketStreams` | 2 procs, 2 sockets, 2 items at a time, 1 per retrieve | clients and listeners shared by procs, accepted, closed, deregistered and reused |
| `ExcitedGroupsCorridor` | 3 turfs in a row, 1 planetary, 2 groups, breakdown at 1, dismantle at 2 | grouping, merging, breakdown, dismantling, collecting, refreshing |
| `Core` | debugger and TFFI, 2 worlds, 4 opcodes, 2 addresses, window of 2 ticks; 2 senders, 3 messages of 1 or 2 bytes, one of them no JSON, pieces of 2, written by turns; programs of 3 of 18 instructions | hooks, opcodes and filter through any history; `JsonStream` implements `MessageChannel`; instructions are read as written |
| `Atmosphere` | 7 tiles, 11 layouts, limit of 6 turfs, 2 firelocks, 2 cycles; 6 turfs around one with four ways, two dead ends and a corner, 2 fires; 2 datums, 2 pointers, 1 datum with ten variables, 1 gas of -1 to 2 moles | zones end even or empty, plans add up; sharing overdraws nobody, until a turf has its turn after a neighbour with less than half as many ways; the registry is sound and immutable air is kept |
| `Services` | tables of 2 slots, counters of 4 bits; 2 procs, 3 contexts, 2 profiles; 2 datums, 1 list of 2; 3 entries into Lua, 4 functions | the report adds up, runs are recorded unless stopped, references are real or ended behind the hooks, procs run their functions, errors jump home |
| `DebugServerUnsetOther` | as Patient | violated: `StaysArmed` |
| `CoreRuntimes` | as Core, 1 world | violated: `DebuggerSeesRuntimes` |
| `DatumSocketLostWakeup` | 1 proc, 1 socket, 1 byte | violated: `RecvReturns` |
| `ExcitedGroupsMerge` | as Corridor | violated: `DismantleRemovesTurfs` |

Why the bounds are enough. The debugger has one `breakpoint_to_restore`, one
`next_action` and compares offsets, so two procs with sites at equal and at
different offsets meet every case; two frames are a caller and a callee, which
is all that a step over or out can tell apart (own frame, parent, other). A
promise lost to another needs two calls and one reused datum; a missed or
doubled resume two procs. A socket's hazards need one byte in the buffer and one
on its way, and two procs on one awaiter. A group that meets a smaller one
needs three turfs; with two group objects every turf always finds its group,
or the run would stop in a deadlock, which is checked there.

A hook over a hook needs two modules on one function, which core and debugger
are; an opcode of an earlier world needs two worlds, and TFFI and the debugger
are the two kinds of owner. The filter compares an age with the window once: two ticks are
within, on and beyond it. Framing has one boundary, the zero; pieces of two bytes cut
messages of two and three bytes before, at and after it. Every callback of the
disassembler is used by at least one of the instructions, some of whose operands look
like opcodes. Seven tiles are one more than the limit, so that the cut-off
happens; the layouts have rings, dead ends, a wall, two planets, space next to
and away from the start. Four bits make every sum of the memory report wrap.
Two datums are the receiver and the argument of any call on mixtures, two
contexts of a proc and a third are a sleeping, a resumed and a nested run.

Deadlock is not checked where the system may really stop: after the client has
gone nothing releases a stopped game; nothing follows an undefined state; the
calls, bytes, connections, cycles and messages of a run are bounded; a
disassembly and a report end.

### Fairness

Threads are OS threads: a handler that has begun, a hook and a wakeup are
executed (`WF` of `Handler`, `Hook`, `Break`, `Execute`; of `Thread` and the steps of a proc that is
awake). Foreign functions are assumed to return, as the documentation of `resolve` does.
The reader of a stream keeps reading (`WF` of `Reader`), as the loops of the
debugger's thread do. Nothing obliges a client to send, a peer to send or to close, BYOND to start a
proc, a condition variable to wake spuriously. For excited groups the air
controller keeps ticking, as "FULL air controller ticks" supposes, and a
`process_cell` that began ends. The other components are checked for safety alone.

### What the violations show

* `StaysArmed`: `remove_breakpoint` resets `breakpoint_to_restore` whichever
  breakpoint it holds (`debug_server.cpp:366`). Unsetting B while stopped at A disarms A.
* `DebuggerSeesRuntimes`: the core hooks `Runtime`, then the debugger does; the
  table of hooks has one entry per function, and storing the second
  destroys the first, which writes BYOND's code over the debugger's jump
  (`hooking.cpp:130`). Neither handler is entered any more.
* `RecvReturns`: bytes that arrive between `__check_has_data` and
  `__wait_for_data` wake nobody.
* `DismantleRemovesTurfs`: `merge_groups` receives, by reference, the very pointer
  that its loop overwrites (`turf_grid.cpp:104` and `783`). When the larger group
  takes over the smaller one it clears its own list; its turfs then belong to a
  group that lists nothing, and no breakdown or dismantling reaches them.

### Seen while modelling

These are behaviours of the code that the models contain and the properties
above are stated around:

* debugger: a set between the two halves of a restore saves the breakpoint opcode as the
  replaced instruction (`debug_server.cpp:330`); a pending restore is skipped and then
  overwritten when another proc is hit at the same offset (`625`);
  `restore_breakpoint` may find nothing because of an unset on the other thread
  (`371-375`); the reset of a step over at the RET of a bottom frame is
  unreachable behind an early return (`649-666`); a pause is reported with a
  reason `protocol.ts:45` does not list;
* TFFI: a promise can be resolved once, a second proc sleeps for ever (`tffi.cpp:25`);
  a worker writes to a datum id without holding the datum (`tffi.cpp:51`);
* sockets: the wake-up for bytes already retrieved hits the next recv, which returns
  nothing (`datum_socket.cpp:144`); the end of a stream clears bytes DM code has not
  retrieved (`119`); the length given to recv is ignored (`175`);
* core: after a cleanup the debugger believes it is initialised and its opcodes
  have no handler; `ban_callback` keeps pointing into the freed list of procs until the filter
  is installed again;
* framing: an error of recv is used as a length (`socket.cpp:258`); an unreadable
  text stays in the buffer (`248`);
* framing: two threads' partial writes tear both messages (`socket.cpp:226-240`), and
  whatever the reader parses of them throws;
* disassembly: the jump of a switch's string case is not recorded
  (`instr_control_flow.cpp:73-90`), nor are the words of a case in the instruction's bytes;
  a plain variable has no `acc_base`, although "If this instruction accesses variables,
  this will contain the necessary information" (`instruction.h:41`): `InstructionsAsWritten`
  asks for the base of chains and the jumps that are seen; an unknown proc ends the whole
  disassembly with an exception (`disassembler.cpp:194`, `proc_management.cpp:141-144`), an
  unknown string with a null pointer (`disassembler.cpp:110`, `core.cpp:144-147`);
* equalization: tiles beyond the limit are renewed, unmarked and never get this cycle's
  `last_cycle`, so they may be equalized again in the same cycle (`turf_grid.cpp:364-370`);
* sharing: a turf of four ways whose neighbour at a dead end had its turn first gives
  more than it has: half of its air, then three fifths by its stale archive
  (`turf_grid.cpp:79`), three steps into the run. `strained` records that a turf has its
  turn after a neighbour with less than half as many ways, and `NoOverdraft`
  speaks of the time before; no comment or test of the code says that
  airs stay above zero, so there is nothing for a violation to refute;
* mixtures: registering twice, or ten variables, loses a pointer for good; a removal
  into an immutable mixture loses gas; merging a mixture with itself doubles it;
* profiler: a sub-call of a profiled proc dereferences a null pointer
  (`extended_profiling.cpp:195`); a run that ends asks for the proc's profiling
  again, also when it was disabled meanwhile (`238`): `stop_profiling` promises that "any
  currently running profiles will stop when the proc finishes executing or enters a sleep"
  (`dm/_extools_api.dm:132`), but a stopped profile goes on through sleeps (`135-157`) and
  later runs are profiled anew. Sleeping "will generate multiple files, one between each
  sleep" (`120`), but the resumed profile keeps its id (`150`), which is the file's name, and
  the parts are appended to one file. `RunsRecorded` speaks of runs that are not stopped
  and of what is written, not of how many files there are;
* reference tracker: `del` of a datum that is held erases what it holds and not its own
  `back_references` (`reftracking.cpp:170-179`): the next datum with its number is
  reported to be held by who held the old one, until that variable is set or that holder
  destroyed; what is cut from a list or overwritten is reported as long as the list lives
  or until it is removed by a hooked call; a variable set to a datum of a number it held
  before has two entries;
* disassembler: the string cases of a switch record no jump; the words of a
  switch's cases are not among its bytes;
* Lua: the jump buffer of an entry is lost once it has called back into DM (`luajit.cpp:110`).

## 4. Proofs

Proved by TLAPS, for every value of the constants:

* `DebugServerProofs`. `TypeCorrect`, and `InstructionsStayHome` (`[]OwnInstructions`)
  for any client, from `TypeInv`: besides the types it says that the
  handler's and the main thread's *local copies* hold an instruction of their own
  site (the property speaks of shared state, but it is a copy that is written back),
  and that a frame runs wherever the main thread reads one.
  `OriginalsAreKept`, `NoStrayOpcodeEver` and `EveryHitIsKnown` for a patient client
  (assumption `Patient = TRUE`): the invariant ties each place of the handler to
  what the main thread may do meanwhile. While the handler edits, the main
  thread is stopped, and a patched site is in the map, about to enter it, or is the one to restore.
  `NoLostWakeup` (`[]BlockedMeansNoAction`).
  `ImplementsHandshake`: every step is a step of `BreakHandshake` or a stutter.
  `OverRunsSomething`: a step over or out never stops before an instruction has
  run, because the mode is armed only as a hook has passed (`ArmedHasRun`).
  `StepsLandWhereAsked`: the numbers a step remembers are compared for
  equality only, so the invariant (`LandingInv`) says what makes that enough: the frames of
  all stacks, running and asleep, have different numbers, a number is never given again,
  and the frame a step aims at is below the one it was given in, on whatever stack
  that has got to.
* `TffiProofs`. `TypeCorrect`, `OnlySleepersAreResumed`, `NoThreadMissesItsProc`, from
  types alone plus the pairing of map keys and sleeping procs. `ResultsAreOwn`
  (`[]KeptReturnsOwnResult`): for programs that keep their promises, since ids only
  grow, each datum in use belongs to exactly one call, whose worker is the only
  one to write it, and a proc is resumed only after the result was written.
  The invariant `KeptInv` names these facts one by one.
* `DatumSocketProofs`. `TypeCorrect`, `OnlySleepersAwait` (`[]AwaitersSleep`), from one
  invariant over procs, awaiters and queues. `StreamIsKept` (`[]StreamKept`): what
  was taken and what waits are numbered on from each other (`InOrder`), and while a
  thread loops their lengths add up to what it received (`NoneMissing`). Only a
  client has bytes and only a server connections (`ModesKept`), which is what keeps one
  stream from continuing another when a slot is used again.
* `ExcitedGroupsProofs`. `TilesListedOnce` and `ListsAndPointersAgree`. A call hands a
  record of pointers, lists and cooldowns from operator to operator: one lemma for
  each operator says that it keeps a record good (lists have no repetition and
  no tile in common) and, until a merge assigns to the pointer it reads from
  (`aliased`), that lists and pointers agree in it; `BecomeGood` makes the record the next state.
* `CoreProofs`, about the core with its filter. `TypeCorrect`; `TableStaysTrue`,
  by an invariant (`Truthful`) about the table and the code together, needed because initialising
  a module installs the core's hooks and its own in one step; `OpcodesStayOwned`, because every
  opcode a module holds is below the counter, its handler is that module's or none, and only
  cleanup takes a handler away, with the bytecode that needs it;
  `TopicsAreApart` and `BannedStayBanned`, by relating `last_packets` to the
  history `quiet` and the blacklist to `banned`.
  Of the framing, `StreamIsAChannel`: `JsonStream` starts as `MessageChannel` does and
  every step of it is a step of the channel or a stutter: a write that ends a message sends, a
  parse receives, a reset, an unreadable text or the sending of one is a fault.
  It rests on `FramesAreMessages`: what is in the reader's buffer, on the wire
  and still to be written is, byte for byte, the messages sent and not received,
  each ended by its zero, and then at most the beginning of the one being
  written (`Framing`), until two threads have written into one another's (`torn`).
  So the first zero ends the oldest message, and the text before it is that message and no
  other. The places where messages end are a function (`Cuts`), and the lemmas say how
  frames grow when a piece is added, lose their first when one is parsed, and keep those
  that a reset has left whole.
  `AnyCodeIsSafe` (`[]ShortCodeIsSafe`) is about any bytecode at all, not only what the
  programs of the run compile to, of up to 65536 words, as many as the 16 bits of
  `next_from_offset` tell apart; a word that is no proc and a name that is no string end
  the disassembly (`Fails`), and what was read until then is what it speaks of. That a reader goes on from where it was and stays in
  the bytecode (`Onward`) is kept by a word eaten, so by any number of rounds
  (`RepeatGoes`), so by every opcode; and a round of `disassemble` eats one word at
  least. So offsets ascend (`InOrder`), and a bisection over them never loses the
  instruction it looks for (`Around`), while what is left shrinks until it is nothing.
* `AtmosphereProofs`. `RegistryStaysSound`: the registry's part of the state is
  inductive by itself once the set of allocated pointers is known to be finite.
  `ImmutableAirIsKept` (`ImmutablesKeep`): one lemma for each function of a mixture
  says that what it makes of an immutable one has the same gases and is
  immutable (`Succeeds`); a call on two mixtures, which may be the same, is two of them in a row.
  `MovedGasIsKept` (`MovesKeepGas`): what a removal into an empty mixture, a share and a
  scrubbing add to one of two different mixtures, gas by gas, they take from the other, so
  the sum over all mixtures and gases changes at two places by opposite amounts. Neither may
  be immutable, the receiver no vacuum, and no gas of the giver a debt. A merge is not
  among them: it adds the giver's gas to the receiver and leaves it in the giver, which DM
  code then throws away.
  `NobodyOverdraws` (`[]NoOverdraft`, any map): until it is `strained`, no air,
  current or archived, is negative, and a turf that a neighbour archived in this fire,
  and that has not had its own turn, has lost at most that neighbour's part of the archive, and
  the neighbour's turn is over (`RestIsLeft`). The first is not inductive without the second: the
  archive such a turf shares out in its own turn is a stale one. In that turn it gives each
  of its k neighbours, but for the one whose turn is over, at most its archive by k + 1
  (`DuringTurn`); with k <= 2n + 1, n the ways of that one, the k - 1 portions are no more
  than what its part has left (`EnoughIsLeft`).
  `PlansAddUp` (`[]PlanAddsUp`, any map, limits and firelocks). What a tile is `Due`, its
  delta and what its plan says flows out, is to be its moles less the average. The
  planning passes move it from one to another and keep each tile's: the fast pass at once
  (`ShareOut`), the planet's as it goes from the end of its queue (`Flow`). The slow
  pass does not: while it visits, the tiles it has
  asked have changed their deltas and planned nothing yet. So the invariant
  (`PlanInv`) has two parts for it. `QueueOf`: each tile in the queue points to one
  before it, the first to none, and no tile is in it twice. `SettlesAs`:
  a tile in the queue lacks just what it passes on, and the first all that the others pass
  on. Carrying back from the end, every tile has passed on what it had before the one it
  points to is looked at, so what is left at the end is at the first tile, which is even.
  `Explored` says why the plans are blank and the deltas are the moles when the zone is
  divided, and that a zone has a tile that is no planet, by whose number it divides.
  For it `EqualizeAssumption` says that ways lead to other tiles and back.
  `BreachesEmpty` (`BreachEmpties`, on any map with no more tiles than the hard limit, past which
  the code stops spreading on purpose). The action property speaks of `Zone`, what can
  be reached in any number of steps over the ways that are open when the drain ends; the invariant
  (`BreachInv`) of the turfs that were found. Each but the first was reached from one before it
  that is no space (`Spreads`), over a way that is still open: firelocks are asked only about ways
  to turfs not yet found (`WaysStay`). Each that was explored has all it opens to
  among them (`Explores`). So the zone and the turfs are the same (`ZoneIs`). Ways are
  open at both ends or neither (`Standing`), so if there is space, the search that starts
  there comes back to the first turf and from it to all (`AllFindSpace`), and
  each turf that is found so has a direction to blow to.
* `FoldLemmas` has no theorem of the system in it: what `FoldLeft`, `FoldRight` and sums over
  finite sets are. The library defines them by CHOOSE over recursive functions and proves
  nothing of them; the lemmas here prove that those functions exist and are
  unique, by the smallest counterexample (a nonempty set of numbers has a least one, `LeastIn`), which
  takes no operator as parameter. From them: how a sum changes with one of its
  terms (`SumChange`), sums of sums (`SumPlus`), counting as a sum (`CountIsSum`), and sums
  modulo a number (`SameSums`).
* `ServicesProofs`, about four modules. `ProcsRunTheirFunctions`, because the table only
  grows and ids are its length; `JumpsStayHome`. `TrackingIsTrue` (`[]TrackedIsReal`): the
  two maps mirror each other, every reference counted is there or ended behind the hooks
  (`Real`), a holder that does not exist holds nothing and has no entries
  (`DeadHoldNothing`), and a variable once written is counted with what it holds now, which is
  what the next write erases. `EveryRunIsRecorded` and `RequestsAreKept`:
  a profile has a context of its proc, a context that is alone is the only one of its proc,
  and one that was asked for has a profile; the rest says what `new_call` means at the start of a context.
  `ReportsAddUp` (`[]ReportAddsUp`): slot by slot, each counter differs from the whole number it
  stands for by turns of an unsigned int (`Alike`), both as a sum over the slots measured
  and as a sum over the types (`Counts`); a sum of remainders is the
  remainder of the sum, so the report adds up however often its counters wrapped.

The assumptions on the constants are those the modules declare, and TLC evaluates each of them
in the runs: null, no proc and no frame are not values of what they stand for, opcodes of
breakpoints are not the code's own, texts are not empty and hold no zero, turfs are mutually
adjacent and never to themselves, a tile's ways lead to different tiles (each is a direction of
the lists DM code makes), space has no air, airs begin without debts, pointers and gases are finitely many.
That `2 ^ Width` is a positive number is among them, as the provers know no arithmetic of powers.

Only model-checked:

* liveness, which needs fairness and ENABLED: `PauseStops`, `FirstResolveReturns`,
  `ThreadsEnd`, `EndIsNoticed`, `QuietGroupsEnd`, and of `ChannelSpec` that messages arrive;
* `ZoneEndsEven` of `Equalize`: that gas is there when the recursion of `finalize_eq` comes to
  move it is a fact about the order in which the calls nest, for which no inductive
  invariant has been found; the runs show it on their maps, and nothing here says it of every map;
* `InstructionsAsWritten` of `Disassembly`, which holds of the programs the run compiles and
  not of whatever `Compiled` might be.

## 5. Not modelled, and why

Messages of the debugger that only read the game's state; `send` of a socket,
which changes none of its state; `clean_sockets`. Temperatures, heat and
pressure, and what depends on them alone (real arithmetic; the gradient and
`temperature_share` among them); `update_planet_atmos`; `atmos_cooldown` and
the high-pressure effects, which only decide what DM code is called with; turfs that
lose their air while grouped. `get_forward_references` and `normal_profiling`. The
lists in the memory report: they are measured and never reported. Comments and
mnemonics of the disassembly, and the assembler. The conversion of values between DM
and Lua, and the byond and console libraries. Data races on
containers are taken as interleavings of whole accesses. DM code outside the
repository (the caller of accept, the air subsystem) is unconstrained.

The optimizer is never called (`core_exports.cpp:22`); maptick is one hook that
measures a time; crash guard and logger are output; signatures are byte patterns
of particular builds; third-party code is vendored, and what a subhook does to code
is part of `CoreHooks`.

## 6. Plan

Done: the models, runs and proofs above. What could be added, by what it would show:

1. Proofs of `StaysArmed` for a client that unsets only where it has stopped; that
   `finalize_eq` changes a tile's moles only by what its plan says.
2. The composition of `ExcitedGroups` and `Equalize` over one grid: equalization
   wakes turfs that groups then list.
3. The debugger over the life cycle of `CoreHooks`: breakpoints kept across a
   cleanup, and runtimes that reach no handler.
4. Cleanup in `ExtendedProfiling` and `DatumSocket` (`procs_to_profile`, `clean_sockets`).
