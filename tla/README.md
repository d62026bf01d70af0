# A TLA+ verification of wormvars

wormvars keeps named variables in the FLASH sectors of a small microcontroller.
Every write of a variable goes to a fresh 32-byte cell and invalidates the cell
that held the former value; a background protothread moves the live cells out of
a full sector and erases it. The repository also holds the mock of the FLASH that
its tests run on, and the protothread library with its examples. This directory
models these programs, checks them with TLC on small instances and proves what they rest on with
TLAPS for all instances.

## 1. Inventory

| part (source) | state | operations | interacts through |
|---|---|---|---|
| boot: `fs_init`, `initFileDescriptors` (wormvars/wormvars.c:199-294, 460-493) | builds `Fs.fd`, `Fs.curr` from FLASH | scan of every sector; index, skip or invalidate a block; choice of the active sector | `flash_read`, `flash_write` |
| `fs_write`, `updateSector` (314-431) | `Fs.fd`, `Fs.curr` | refuse, change sector, flag current, program, invalidate, settle | `flash_write`; calls `fs_thread(1)` |
| `fs_read` (434-457) | none | search of the index, read | `flash_read` |
| `fs_thread`, `findRelocSector` (496-632) | `Fs.pt`, `Fs.reloc`, `Fs.timer` | wait, select a victim, copy its blocks one by one, erase it | `flash_read`, `flash_erase`; calls `fs_write` |
| block layout, `checkBlock`, `updateBlockHash` (53-66, 153-195, 297-311; wvars_structs.h) | none | compose and classify a block | bytes in FLASH |
| FLASH (include/flash.h; ll_mock/FlashMock.*, flash.cc) | a vector of chunks per sector | read, write (AND), erase, ready | called by all the above |
| CRC32, timer (ll_mock/crc32.c, timer.c) | timer | stubs | |
| protothreads (pt-1.4/pt.h, lc*.h) | `pt.lc`, the local `PT_YIELD_FLAG` | begin, wait, yield, spawn, wait for a thread, restart, exit, end | macros used by `fs_thread` and the examples |
| semaphores and bounded buffer (pt-1.4/pt-sem.h, example-buffer.c) | two counts, the places, one place pointer | wait, signal, produce, consume; a driver thread that calls both | shared variables, return values |
| code lock (example-codelock.c) | key and its flag, two timers, count of right keys | press, read, time out, open | shared variables, time |
| small example (example-small.c) | two flags | wait, reset, set | shared variables |
| tests (test/*.cc), debug.h, build files, documentation of pt | - | - | - |

There is one stack and no preemption. What makes the program hard:

* **power failures** between any two FLASH accesses of `fs_write`, of `fs_init`
  itself and of a relocation, and in the middle of one;
* **interleaving at yields**: between two turns of `fs_thread` the application may
  write any variable, change the active sector and fill it;
* **mutual recursion**: `fs_write` calls `fs_thread` from `updateSector`, and
  `fs_thread` calls `fs_write`, both on the state of the one protothread;
* **limits**: an index with no entry left, no sector left, addresses at the end of
  a sector;
* **device rules**: a cell can be programmed only from 1 to 0, so that a wrong
  address silently garbles a block;
* **functions instead of threads**: a protothread loses its stack at every wait, and
  goes on by a jump; its local variables, its yield flag and the order in which it is called all matter;
* **time**: in the code lock a key, the end of a timer and a slow main loop meet in any order.

What must be true of each part:

* boot recovers exactly the last value of every variable, and is itself safe to
  interrupt; it can always tell which of two blocks is newer;
* `fs_write` is atomic with respect to power failures and never programs a used cell;
* `fs_read` returns what a reboot would recover;
* `fs_thread` never brings old data back, never erases a live block, always finds a
  victim; the nesting of calls is bounded; polled often enough, it keeps the reserve of
  blank sectors up;
* every boot, every call and every relocation ends;
* the mock holds what a NOR FLASH would hold;
* protothreads behave as threads that block, and fairly; producer and consumer as a
  queue; the lock opens on its code and on nothing else.

`PROJECT.json` lists every hazard at its line, with the property that covers it
or the reason why none does yet.

## 2. Modules

| module | what it is |
|---|---|
| `NorFlash` | a cell: fields of a block, AND-programming, torn writes, `checkBlock`. No state. |
| `Wormvars` | the program: the state of `Fs` and FLASH, one action per step |
| `WormvarsProps` | its properties, and the instance of `VarStore` it implements |
| `VarStore` | the promise: an atomic store of variables that survives power failures |
| `RelocSector` | `findRelocSector` as the code computes it, three loops over its locals |
| `WormvarsPolled` | `Wormvars` in the main loop of an application that polls; fairness and liveness |
| `WormvarsPace` | at which pace a relocation keeps up with the writes, and the invariant that shows it |
| `WormvarsFaults` | `Wormvars` with erases that power failures interrupt |
| `MCWormvars`, `MCWormvarsShort`, `MCWormvarsFilled` | symmetry, view and bounds for TLC |
| `WormvarsInv` | the inductive invariant of wormvars, `IInv`, in parts |
| `WormvarsProofs` | proofs: types, the nesting of calls; cells and identifiers, the index while `fs_init` runs |
| `WormvarsInvProofs` | proofs: every action keeps `IInv` |
| `WormvarsSafetyProofs` | proofs: the safety properties, from `IInv`; refinement of `VarStore` |
| `WormvarsPolledProofs` | proofs: the loops of `findRelocSector`; a relocation that keeps up finds room |
| `ProtothreadProofs` | proofs about `PtMachine` and the threads of `example-small.c` |
| `CodeLockProofs`, `BoundedBufferProofs`, `FlashMockProofs` | proofs about the modules they are named after |
| `FlashMock`, `NorMemory` | the mock's vectors of chunks; the bytes of a NOR FLASH that they implement |
| `Protothreads` | the values that a protothread returns, and `PT_SCHEDULE` |
| `PtMachine`, `BlockingThreads` | every macro of pt.h, for any program; the threads that block which it implements |
| `MCProtothreads` | the program of `example-small.c`, beside a parent with two children |
| `BoundedBuffer`, `BoundedQueue` | `example-buffer.c` with the semaphores of `pt-sem.h`; the queue it implements |
| `CodeLock` | `example-codelock.c` |

`Wormvars` takes the cells of `NorFlash`, which is what a device does to the blocks that
wormvars writes; `FlashMock` stands below it, on bytes. `RelocSector`, `WormvarsPolled` and `WormvarsFaults`
extend `WormvarsProps`. `Wormvars` has its protothread built in (`lc`, and an action from yield to
yield); that this is what the macros do is the business of `PtMachine`.

### How the state corresponds to the code

`flash` maps an address `<<sector, cell>>` to a `Cell`. A cell has the header
fields `size`, `newer`, `id` (the pair name, ext) and the field `data`; its hash
byte is the Boolean "the stored hash matches the contents". Fields whose bits are
all ones are `Erased`, fields in which different writes have been mixed are
`Garbled`; so the model assumes that the hash tells a garbled block from a good
one (with the stub of `ll_mock/crc32.c`, which returns 0 for every block, it
would not, as that file warns). `<<FS_NUM_SECTORS, 0>>` is the cell after the last sector:
programming past the end of a sector is possible in the model, and goes where it
would go in the code.

`fd`, `fd_index`, `currSector`, `reloc` are the fields of `Fs`; `currAddress[s]` is
`Fs.curr.address[s]` as a cell number. `lc` is the continuation of the
protothread:

| `lc` | line of wormvars.c |
|---|---|
| `begin` | 555 `PT_WAIT_UNTIL` |
| `select` | 556 `PT_YIELD` |
| `await_read` | 576 `PT_WAIT_WHILE` |
| `copied` | 596 `PT_YIELD` |
| `retry` | 610 `PT_YIELD` |
| `next` | 617 `PT_YIELD` |
| `await_erase` | 622 `PT_WAIT_WHILE` |

`calls` is the stack of activations of `fs_write`; `at` says where each stands:
`updateSector` (350), `fs_thread` (inside the call at 324), `mark` (361-375),
`program` (385), `invalidate` (394-399), `settle` (408-430). `mode` and `scan` are
the control and the locals of `fs_init`. `ret` is what the application's last
`fs_write` returned.

An action runs from one FLASH access to the next (in `fs_write`), over one cell
(in `fs_init`), or from yield to yield (in `fs_thread`). The accesses of `fs_thread` are one read
or one erase per turn, so power failures before and after a turn are all that can be
told apart. `PowerLoss` may happen in every state and clears RAM; `PowerLossInProgram`
interrupts the 32-byte write of a block. `flash_ready()` in `fs_thread` is a nondeterministic choice
(as the README of the program says it may be a busy flag); in `fs_write` and `fs_init` it
is a loop that ends.  The timer is a nondeterministic choice too: a poll that finds it
running changes nothing and is a stuttering step.

Abstractions to keep in mind:

* writes of a header change one bit of FLASH, so they are atomic; erases are atomic;
* of the outcomes of an interrupted block write (`Tears`), the runs use `blank` (no
  bit programmed) and `errored` (the block is recognised as bad). `illegal` is passed over in
  the same way. `dirty` (data bits programmed, but no bit of the header) is left out
  of the runs: it is a hazard of its own;
* the fields of `reloc` that are not read before they are assigned are cleared by `Erase`,
  to keep the number of states down;
* a write that is refused for its size (344-348) changes only what is returned; `WormvarsPolled` leaves it out;
* `DEBUG_*` variants are not modelled.

**Main loop** (`WormvarsPolled`). The library promises its reserve of blank sectors to an application that polls `fs_thread` "from your
code main loop" (README.md:55). How often it writes between two polls the repository does not say, and the loop that README.md points to, `MassiveWriteAndRead`
(test/WormvarsTest.cc:141-153), writes 128 blocks for each poll, a "naive initial guess" (107) that goes well with its few variables but keeps no application's reserve up
(finding 2). The main loop modelled here is therefore an assumption about the application, and marked
external in `map`: it is no translation of the test. `polls` counts the turns of `fs_thread` since the application's last write, those in which the timer
has expired and FLASH is ready. A turn in which the timer runs does nothing, is a stuttering step and does not count; neither
does one that finds FLASH busy (`PollBusy`).

* As long as a blank sector is left (`SpareSector`) the application may write whenever it likes, also many times while `fs_thread` waits for its
  timer, as it does after each relocation (`EarlyWrite`).
* With the last blank sector in use it leaves `fs_thread` `PollsPerWrite` turns that count between two writes (`PacedWrite`). wormvars tells the
  application neither how many sectors are blank nor whether a turn counted: one that paces all its writes, and waits for as long as the timer may run, keeps to this.

`PolledNext` and the proofs have both. The liveness properties are about an application that always keeps the pace (`SteadyNext`): one that writes
early for ever, whenever a relocation has just given it a sector, may never have both of its blank sectors back, but relocation still has room.

**`findRelocSector`** (`RelocSector`). `Locals` are the variables of the function and `reloc_map`; each loop is a function of the number
of its turns (`Looked`, `Counted`, `Chosen`) with the body as operator (`LookAt`, `Histogram`, `Winner`). `Wormvars` uses a definition of
the result instead (`Candidates`, `findRelocSector`), and `FindsVictim` says that they agree.

**Mock** (`FlashMock`). `flash[s]` is the vector of chunks of sector `s`, a chunk is its address and its bytes.
Addresses are integers modulo `Word`, bytes are sets of bits. `BytesAt` is what `read` returns.
Clients use the addresses of block starts, as wormvars does; an erase takes any address.

**Protothreads** (`PtMachine`). `Body[t]` is the function of thread `t`, a sequence of statements. `stack`
holds the functions being executed, `at` and `label` where the innermost is and whether
it got there by the jump in `LC_RESUME`, `lc` the local continuations. `PT_YIELD_FLAG` is the local
variable of each activation. A macro that is left by a return goes through `Return`. `PT_SPAWN` and `PT_WAIT_THREAD`
call the child inside their condition: that is `PT_SPAWN`, then the steps of the child, then `WaitThread`.

**Bounded buffer** (`BoundedBuffer`). `running` and `at` say which function is executing and where; `lc` holds the
two continuations. `first` is the operand of `producer & consumer` that is evaluated first: C
leaves it open, so `Init` chooses. `taken` and `received` are history variables.

**Code lock** (`CodeLock`). Time is counted in units of 100 ms, of which every interval of the program is a
multiple, and passes between two iterations of the main loop, at most `MaxDelay` at once. A timer is the time it still has to run.
`lc` is the wait in which the lock is blocked (lines 163, 180, 228), `script` the wait of
`input_thread`. `user` says whether `input_thread` or a person who presses anything at any time is at the keyboard.
`matched`, `before` and `quiet` are history: how much of the code was pressed in a row, and when.

Definitions whose name begins with `Bug` are seeded faults: no action uses them.
Each is a plausible slip in the code, and each property below is violated when the
definition that follows such a fault is replaced by it.

## 3. Properties and runs

| run | instance | properties |
|---|---|---|
| `core` | 3 sectors of 2 cells, 1 blank in reserve, 2 entries, 2 variables, 2 contents, power failures | `TypeOK`; `IndexAgreesWithFlash`: with the application in control, `fs_read` returns what a reboot would recover; `CopiesAreRanked`: the "unexpected" branch of `fs_init` (253) is unreachable; `OnlyActiveIsPartial`; `AddressesAgreeWithFlash`; `RelocationIsFresh`: what `fs_thread` writes is the current value, however stale its read; `VictimExists`: `findRelocSector` never falls back on its default 0; `IInv`: the inductive invariant that the proofs use (`WormvarsInv`); `ImplementsStore`: refinement of `VarStore` (below) |
| `exhausted` | 3 variables, 2 entries, at most 4 cells used | `BootIndexIsSound`: while `fs_init` runs, the entries are valid blocks of distinct variables |
| `polled` | 4 sectors of 2 cells, 2 blank in reserve (the code's value), 2 entries, 2 variables, 3 polls between writes; fairness | `NestingInv`: one `fs_write` inside another, and no more; `WritesLandOnBlank`: each block goes to a blank cell of the active sector; `ReserveSuffices`: no write of a relocation is ever refused; `FindsVictim`; `ControlReturns`, `ReserveReturns`, `RelocationEnds` (liveness) |
| `paced` | 3 sectors of 6 cells, 1 blank in reserve, 4 entries, 4 variables; 9 polls between writes when no blank sector is left, none before; one torn copy; two sectors full from the start, each with 2 blocks in use | `PaceInv`: the inductive invariant of the proofs about pace (section 5); `WritesFindRoom`: no `fs_write`, of the application or of a relocation, is refused because all sectors are full; `EraseLosesNothing`: no step blanks a sector that is active or holds a valid block |
| `mock` | 2 sectors of 2 blocks of 2 bytes, bytes of one bit, writes of 1 to 3 bytes, addresses modulo 16 from 5 on | `TypeOK`; `ChunksAreUnique`; `NothingIsDropped`; `ImplementsMemory`: refinement of `NorMemory` |
| `threads` | the two threads of `example-small.c`, a parent and two children, an input that changes at any time | `TypeOK`; `FlagsAlternate`; `ImplementsThreads`: refinement of `BlockingThreads`; `RunsFairly`: and of its fairness; `YieldsGiveWay`; `BothKeepRunning` |
| `buffer` | the sizes of the example: 32 items, 8 places; both orders of evaluation | `TypeOK`; `InOrder`; `AllDelivered`; `Ends`; `ImplementsQueue`: refinement of `BoundedQueue` |
| `codelock` | iterations of up to 200 ms; the scripted user and any user | `TypeOK`; `OpensAtLast`; `NoKeyIsLost`; `OpensAfterCode`; `Opens` |
| `unindexed` | as `exhausted` | violates `IndexedIsKept` (finding 1) |
| `starved` | as `polled`, without any poll between writes | violates `ReserveSuffices` (finding 2) |
| `torn` | 3 sectors of 2 cells, 2 variables; writes may leave a dirty cell, erases may be interrupted | violates `IndexedIsKept` (finding 3) |
| `latekey` | iterations of up to 100 ms | violates `OpensOnCode` (finding 4) |

Refinement of the store. `core` maps FLASH to the value each variable would have if power failed
now (`Recovered`: the valid block, the newer one if there are two). The write of the application
takes effect at the one instruction that programs its block (385);
everything else - flags, invalidations, the whole of `fs_init`, every relocation and
every erase - must leave the store alone. A power failure may drop a write in progress or keep it
whole. A write that returns 0 has taken effect, one that returns an error has not.

Refinement of the threads. A protothread that is not executing stands at its last `LC_SET`; to the
specification it has been there all the time. Returns, calls and jumps are stuttering steps. `RunsFairly` is the other half: the
one fairness assumption, that the main loop goes on, implies weak fairness of each
thread and child, with `ENABLED` written out as `Ready`, since TLC cannot
evaluate `ENABLED` under the mapping.

Refinement of the memory. A byte is found through the chunk at the start of its block. That only
works because blocks are always accessed at their start (`Starts`), and because header writes, flag
writes and block writes, of different sizes, meet in one chunk.

### Bounds

Two cells per sector make full, partial and blank sectors all occur, and are the least that the nested `fs_write` needs (a sector just
opened must take its block and the block of the caller). It also needs a second sector in reserve: with one only, there is no sector
to open while a relocation is under way. So `core` has no `fs_write` inside another; `polled`, with the two
sectors of the code, has it, inside an `fs_write` of the application and inside one of `fs_thread`, and checks there what is said of
the nesting and that no block misses its cell (`WritesLandOnBlank`; in `core` it follows from `IInv`). That index, store and relocated data are right after a nested
call is proved for any reserve (section 5). `FD_MAX` in `core` is at the limit that the `#error` of line
102 admits: all sectors but the active one and the reserve could be full of live blocks.
Two variables let a relocation race a write of the same and of the other variable; two contents tell old
from new. Nothing bounds the number of writes, relocations or power failures in `core` and
`polled`: the state space is finite and explored completely. `exhausted` and `unindexed` bound the
number of used cells (`MaxUsedCells`) because blocks written over each other would
otherwise fill every sector in too many ways.

In `core` and `polled` the sector that `findRelocSector` chooses never has more than one block in use, because the
one with fewest entries is taken. For the loop over the index to find a second entry it takes larger sectors and four
variables, which is too much to explore from a blank FLASH. `paced` therefore starts `fs_init` on FLASH as it is after twelve
writes (`InitFilled`) and is followed until two sectors have been erased (`SecondRound`), with any number of
writes and power failures in between. The first erase is of one of the two sectors; the second falls due when the last blank sector has been taken into
use, which is what `PaceInv` is about. Its constants satisfy `KeepsUp` with equality, the writes of the application meet the
relocation in all its stages, and any block may be torn (`MaxTorn` in the next section). `PacedView` is coarser than the view of `core`: torn cells to which nothing points are
like invalidated ones, which `fs_init` passes over as well, and what `Fs.reloc` held before a relocation begins is set anew.

In `mock` a chunk can be written again longer, shorter and equally long; a write of 3 bytes is over
the limit of the buffer; sectors reach the limit of chunks; addresses lie below, in and above the range. One bit shows the AND.
In `buffer` items are numbered modulo 64, far more than are ever under way; called consumer first, the program
produces without end and the numbers start over.
In `codelock` the iterations may take longer than the shortest wait of the script, and `Late`
is the time from which on a key no longer continues the one before.

The view `DeadCellsAlike` identifies states that differ only in what an
invalidated block holds when neither the index nor the relocation points to it. Its contents are never read
again (`checkBlock` looks at the size first) and no write can revive it, so the
states behave alike and the properties cannot tell them apart. `IInv` says of such cells that a hash that matches is that of
a block of a known variable (`CellsAreKnown`): of these TLC sees one for each class, the theorem speaks of all. Variables and
contents are symmetric. The runs with liveness use neither view nor symmetry.

Deadlock is checked in `threads`, whose main loop never ends. Elsewhere it is not: the buffer and the lock end,
and in `Wormvars` and `FlashMock` power failures or writes are possible in every state.

### Fairness

* `WormvarsPolled`: weak fairness of the steps of the program itself - `fs_init`, a call of `fs_write` in progress, a turn of
  `fs_thread` that does not find FLASH busy. It stands for: the processor runs, the main loop goes on polling, the
  timer expires (`timer_expired` of ll_mock/timer.c), and FLASH gets ready. Writes are not fair: the application
  need not write. Power failures are not either, and the liveness properties assume that they end at some time (`PowerIsStable`):
  a device that is switched off during every boot gets nowhere.
* `PtMachine`, `BoundedBuffer`, `CodeLock`: weak fairness of the main loop, which calls its threads unconditionally.
* `CodeLock` also: time passes, in iterations that take at least one unit again and again (strong fairness, since
  iterations that take less come between them).

## 4. Findings

1. *A refused write destroys a later one* (`unindexed`). With every entry of the index in use, `fs_write` of a new
   variable programs its block and only then notices; it returns -1 with `curr.address` still on that block. The
   next `fs_write` programs over it, gets a block with a wrong hash, invalidates the good block of its variable and
   returns 0. `fs_read` then returns the mixture, and the next reboot finds nothing.
2. *The reserve can be used up* (`starved`). If the application writes enough between two polls, `fs_thread` is still
   in the middle of a relocation when the last cell is used; its `fs_write` fails and is retried for ever, across
   reboots too if every full sector has a live block. With three turns of `fs_thread` that count between writes (`polled`) it
   cannot happen in sectors of two cells.
3. *A torn write may look blank* (`torn`). `checkBlock` looks at the four header bytes. An interrupted write that has cleared
   data bits but no header bit leaves a cell that the next write garbles, having
   invalidated the former block. The same run with `Tears = {"blank"}` finds the counterpart for erases: a
   power failure in the middle of one leaves a sector with blank cells before used
   ones; `fs_init` stops at the first blank cell and later writes come upon the used ones.
4. *A key in the final half second may be ignored* (`latekey`). The final wait of the code lock (228) ends with a key or with the timer, and line 234
   looks only at the timer. A key that comes in the half second, but after which the timer expires before the lock is called again, is read
   and ignored, and the lock opens: lines 42 to 44 and 222 to 225 say that it must not. `OpensAfterCode` is what the code does guarantee:
   such a key is one of the last iteration.

Three more observations are not findings, because no comment or test is clear enough about them:

* called consumer first, the driver of `example-buffer.c` never ends: `producer & consumer` is 0 unless both have ended
  in the same evaluation, and each starts over when it is called again. `Ends` is stated for the other order;
* `fs_init` does not clear `Fs.curr.fd_index`. Called again without a reset of RAM, as the tests do to reboot, it takes each block for a
  duplicate of itself and invalidates it as "unexpected" (254-259); the next real reset finds none. On a device RAM is cleared before `fs_init`;
* `FLASHMOCK_CHUNK_MAX` is compared with `>` (line 91), so that a sector takes one chunk more than the limit; this is why
  a block at the limit can still be invalidated.

## 5. What is proved

The theorems hold for every value of the constants that satisfies the named assumptions of the modules. Some have a
hypothesis of their own, a definition named in their `ASSUME`; each is discussed here.

### wormvars

| theorem | property | hypotheses |
|---|---|---|
| `TypeCorrect`, `NestingBounded`, `NestingHolds` | `TypeOK`, `NestingIsBounded`, `NestingInv` | none |
| `BootIndexSound` | `BootIndexIsSound` | none |
| `InvariantHolds` | `IInv` | `EnoughEntries`, `TearsShow` |
| `IndexAgrees`, `IndexedKept`, `CopiesRanked` | `IndexAgreesWithFlash`, `IndexedIsKept`, `CopiesAreRanked` | the same |
| `BlocksLandOnBlank`, `AddressesAgree`, `OneSectorIsPartial` | `WritesLandOnBlank`, `AddressesAgreeWithFlash`, `OnlyActiveIsPartial` | the same |
| `VictimAlwaysExists`, `RelocationFresh` | `VictimExists`, `RelocationIsFresh` | the same |
| `ErasingLosesNothing` | `EraseLosesNothing` | the same |
| `StoreImplemented` | `ImplementsStore` | the same |
| `LoopsFindVictim` | `FindsVictim` | none |
| `PaceKept`, `ReserveHolds`, `WritesAlwaysFindRoom` | `PaceInv`, `ReserveSuffices`, `WritesFindRoom`, under `PacedSpec` | `EnoughEntries`, `TearsShow`, `KeepsUp` |

*Hypotheses.* `EnoughEntries`: the application has no more variables than the index has entries. Without it run `unindexed`
violates `IndexedIsKept` (finding 1); the code does not check it before it programs a block. `TearsShow`: an
interrupted block write leaves its mark on the header (`"dirty" \notin Tears`). Without it run `torn` does
(finding 3). `core` checks the properties under both, and the theorems say that they are all that is needed: any number of sectors,
cells, variables, contents and resets. The types, the nesting and the soundness of the index that `fs_init` builds
need neither.

*Nesting.* Why at most one `fs_write` is inside another needs a stronger invariant: that the stack
is short follows only from *where* it grows. `fs_thread` can be entered from `updateSector` only after a sector with room has
become the active one; hence the `fs_write` that `fs_thread` may call stays in that sector and does not call
`fs_thread` again. `NestingInv` says so (at depth two the outer call waits inside `fs_thread`, the inner one comes
from it, and the active sector has room), and that once past `updateSector` an `fs_write` has its
address at most one past the last cell - which is why `CellAt` needs to know only about the first cell
of the next sector. The types are needed to know that `calls` is a sequence and addresses are numbers, so the two are proved together
(`TypesAndNesting`): one lemma per action.

*The inductive invariant* (`WormvarsInv`). The properties speak of the moments when the application has control; to be inductive they
have to say what is true in the middle of `fs_write`, of a relocation and of `fs_init`. The parts:

* `KnownInv`: identifiers in FLASH and in RAM are those of variables (so that an entry can always be found for them, by
  `EnoughEntries`), entries have distinct identifiers, and `fs_thread` stands still while the `fs_write` it has called changes sector;
* `FlashInv`, what `fs_init` relies on at every power failure: sectors are filled from their first cell on, at
  most one is partly filled, and two valid blocks of a variable differ in rank. It is a fact about FLASH alone, and follows from
  the next two whenever power fails while the program runs;
* `EntriesAreScanned`, `ScanInv`: while `fs_init` runs, the sectors behind the scan have their addresses and their valid blocks
  are in the index;
* `AddressInv`, `EntriesInv`: afterwards a cell is blank just when it lies at or after the address of its sector, and the index has each
  valid block. Between the programming of a block and the end of its `fs_write` there are two exceptions, named `Written` (the cell at the address
  is used, its block not indexed) and `Retired` (the entry points to the block that was just invalidated);
* `CallsInv`: an `fs_write` past `updateSector` has a cell to write to, also when `fs_thread` has run in between; a call
  that waits in `fs_thread` has a whole blank sector left, which is where the block that is relocated meanwhile and its own go;
* `RelocInv`, `RewriteInv`: the sector in relocation is full and not active; the entry in hand `Stays` where it was or has `Moved` to
  the active sector; what was read is what the variable holds as long as it is going to be written. This is what makes a read before
  a yield and a write after it safe, whatever the application writes in between.

`IInv` is proved from `Init` and for each action in `WormvarsInvProofs`, with lemmas on what a single programmed cell does to
the other ones (`Program`, `checkBlock`).

*A victim exists* by counting (`VictimFound`). When relocation is due, fewer than `FS_MIN_BLANKSECTORS` of the other sectors are blank, and since only the active
one is partly filled, at least `FS_NUM_SECTORS - FS_MIN_BLANKSECTORS` of them are full. If each held `FDS_PER_SECTOR` entries, there would be more entries than
`FD_MAX` admits (`ReserveKept`, the `#error` of line 102). So one has fewer, which is what the initial value of `fd_min` asks for.

*The store.* `WormvarsSafetyProofs` also shows that `Recovered` - what `fs_init` would find - changes in one step of `fs_write` only, and there for one
variable. `WhatIsRecovered` says which block it is: the valid one of a variable, and the newer if there are two;
`RecoveredInv` says what a write of the application has done to it, by where it stands. Boot, relocation and erases map to stuttering steps.

*The loops of `findRelocSector`* (`LoopsFindVictim`). A loop is a recursive function of the number of its turns. That it has a value
after each turn (`Recursion`), and that what every turn keeps holds after the last one (`Induction`), comes from `Least`: a set of
numbers has a least one, which is `NatLessThanWellFounded` of the library. The three invariants are `LookInv` (blank sectors are
counted until there are enough; the full ones are marked), `CountInv` (a marked sector has as many as entries met in it) and `ChooseInv`
(the sector held beats every candidate met, or none was met and it is still 0). The third loop starts behind the active
sector's number and wraps around; `Distances` says that it meets each sector once, at its distance from the active one, which is how a tie is decided. Types are
all that is needed of FLASH and the index.

*Room for relocation* (`WormvarsPace`). The comment at line 101 says that blank sectors are reserved "to avoid relocation problems".
Whether they do depends on how many turns `fs_thread` gets between two writes (`PollsPerWrite`): finding 2 is a loop that gives
it none. `KeepsUp` is a condition under which they do, for every geometry: a sector has room for the entries of the sector that is relocated
(`MostLive`), for what is written while its entries are moved, two turns each, for two blocks more, and for `MaxTorn` torn copies (below). With the sizes that the code compiles
by default (8 sectors of 128 cells, 2 in reserve, 300 entries) `MostLive` is 50, and four turns per write do, with up to 24 torn copies: 50 + (100 + 4)/2 + 2 + 24 = 128. At the limit of the
index (640 entries) `MostLive` is 106; thirteen turns do if no copy is torn, fourteen with two. The condition is sufficient, not necessary: in the instance of run `paced`
it asks for 9 turns, and TLC finds `ReserveSuffices` violated with 1 and 2 turns and true with 4, 5 and 6. It is asked for only when no blank sector is
left: before that the application may write without a poll.

The argument counts the cells of the active sector from the moment the last blank one has been taken into use.

* *The victim has few entries* (`SomeFullHasFew`). At that time at least `FS_NUM_SECTORS - FS_MIN_BLANKSECTORS` sectors are full and share at most
  `FD_MAX` entries, so one has at most `MostLive`; and `findRelocSector` takes the one with fewest.
* *A potential.* `Need(v)` is what may still be used before the victim `v` is erased: its entries, the writes that fit in the turns that these take (two each, and those that
  the current one is `Behind`), a write in progress, and one cell more. `PaceInv` says that `Need(v) <= Room`. A turn of `fs_thread` brings it nearer to the
  erase or is one of the polls before the next write; a write of the application takes a cell, and the turns since the last one pay for it (`WritePace`); a copy
  takes a cell and an entry of the victim away (`SettleThread`). If the application rewrites a variable of the victim, it does that copy's work.
* *Power failures* make `fs_thread` start over, so the counters of RAM are lost, and what remains must be said of FLASH alone: `RoomToBoot` counts the variables
  that live in a full sector (`Live`). The failure costs nothing (`LossRoom`): two turns of every `PollsPerWrite` are reserved for it in `WritesIn`, and the
  one cell more for a write torn between. `fs_init` keeps the room (`BootRoom`), since it invalidates only blocks that do not count, and hands it
  to `fs_thread` (`WakesWithRoomHolds`).
* *What no pace makes up for* is a power failure that tears a block which `fs_thread` writes: the cell is used and the entry is where it was, and
  that can happen after every reset until the sector is full. `WormvarsPace` counts such failures (`TornCopy`) from the last time that a sector was blank, and assumes that
  there are no more than `MaxTorn`; `Need` keeps a cell for each that may still come (`Allowed`). The assumption is on the device and not on the
  program: at the default sizes it takes 25 power failures in the middle of a 32-byte write, all in the relocation of one sector. It is needed: with nine turns
  TLC finds `ReserveSuffices` true for two torn copies in the instance of `paced`, and violated for four. Blocks of the application may be torn at any time.

### Protothreads

`TypeOK`, `YieldsGiveWay` and the refinement of `BlockingThreads` for every program, that is every `Body`, with threads that call
threads to any depth. Two assumptions name what pt.h asks of its user and does not check:

* `StatementsAreComplete`: statements are those of pt.h, and a jump, a flag or a child that one names exists;
* `OneCaller`: a thread is called by the main loop or by one other thread. There is one local continuation to a
  `struct pt`; a second caller would resume where the first is waiting.

`PtInv` has a part for each way in which a function that returns can lose its place. `Linked`: the functions being executed are a chain of
callers and children, each caller at the statement that calls. `Resumed`: a function that has jumped, or has got the result of
a call, is at the statement that its continuation names. `NestedInv` adds that a child has a continuation only while its caller waits for it: this is why
`PT_INIT` in `PT_SPAWN` never finds a child under way, and why the child of a thread that exits or restarts is not left over.
Under the mapping a step of the macros is a step of a blocking thread or stutters; `HasReturned` is what a caller may conclude from the
value returned.

`FlagsAlternate` (`FlagsNeverBoth`) is proved of every program that contains the two threads of `example-small.c` (`ExampleSmall`:
nothing else calls them or sets their flags). The proof is about the blocking threads, which protothreads implement: there the two threads are at one
of four stages (`TakeTurns`), and in none are both flags set.

### Code lock

For every `MaxDelay`: `TypeOK`, `NoKeyIsLost`, `OpensAfterCode`. The invariant `LockInv` relates the count of keys to the wait the lock is in (`Counted`), says
who has the keyboard (`Turns`), and ties the lock's view to the history: the keys counted are those pressed in a row, and the
timer and the time since the last key add up to the timeout (`UpToDate`); a key that has been pressed and not
been read fits in that picture (`Pending`). `OpensAtLast` stays with TLC: it is about one script with its concrete
times, and true only because iterations are short (up to `MaxDelay` = 2; a slower loop misses the third attempt too).

### Bounded buffer

`TypeOK`, `InOrder`, `AllDelivered` and the refinement of `BoundedQueue`, for every `NUM_ITEMS` and `BUFSIZE` with `FullBatches`: the
number of items is a multiple of the number of places. This is not a convenience: producer and consumer share one pointer, which
works only because each of them runs until it has filled or emptied the buffer. `BufferInv` says so: semaphores
balance (`Balance`), the pointer is where the running thread needs it (`Pointer`), and the items between it and the
other end follow each other (`Contents`); the producer is ahead by just these (`Ahead`). A last
batch that is not full would leave the pointer in the middle for the consumer. The code has 32 items and 8 places.
`NoOverflow` (more than one batch; the items fit in an `int`) is for `AllDelivered`: with one batch only, and the consumer called first, the
driver stops with the items in the buffer. `WholeBatches` says that numbers of items, which wrap around, do so at a multiple of the buffer;
2^32 and 8 satisfy it, and so does run `buffer`.

### Mock

`TypeOK`, `ChunksAreUnique`, `NothingIsDropped` and the refinement of `NorMemory`, for every geometry whose blocks fill the sectors. The assumption
`WritesStayInBlocks` is what wormvars does: it writes 32 bytes, 4 bytes or fewer at the start of a block, so that a chunk never
reaches into the next one. The proofs turn on two facts: the sector test in unsigned arithmetic, which lets an address below the
first sector wrap around, is the test for the range of the device (`SectorTest`); and a byte is found through the chunk at the start of its
block, of which there is at most one (`ChunksAreUnique` is part of the invariant, and
`WriteKeeps` its step). `NoWriteIsDropped` has the hypothesis `EnoughChunks`, a chunk for each block of a sector (256 and 16 in
the tests), and is a pigeonhole argument: the chunks of a sector have distinct blocks.

### Only model-checked

* Liveness (`ControlReturns`, `ReserveReturns`, `RelocationEnds`, `BothKeepRunning`, `Ends`, `Opens`) and `RunsFairly`: the
  prover does neither fairness nor `ENABLED`.
* `OpensAtLast`, as said above.

## 6. Not modelled

* Debug output, generated documentation, build files; the tests, other than as a source of main loops and of intent.
* The stubs of CRC32 and of the timer, beyond what is said above; the 32 bytes of a block are fields, and its hash a Boolean.
* The counters and the output of the mock; the time that FLASH takes. `fs_init` reads without waiting for
  FLASH (209), which a slow device might not like: a hazard without a property.
* Extensions above 7, which the README of the program rules out (440): name and extension are one identifier.
* The loops that wait for `flash_ready()` in `fs_write` and `fs_init`: they end if FLASH gets ready.

## 7. Plan for the proofs

Every invariant and action property that a run checks is a theorem, except `OpensAtLast`, and so is every refinement. What remains:

1. A weaker `KeepsUp`: the bound counts the entries of the victim in full although the application, by rewriting them, does part of the work;
   in the instance of `paced` half as many turns do.
2. The steps of `ReserveReturns` that need no fairness: a relocation in progress gets nearer to its end with every turn
   that finds FLASH ready. `Left` and `Stage` of `WormvarsPace` are the measure.
