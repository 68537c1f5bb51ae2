# Antagonist, verified: TLA+ models of the kernel, the workstation and the engine

Antagonist is a small 32-bit x86 system: a kernel (`kernel/`) with a heap, a page
allocator, a cooperative scheduler, interrupt handlers, system calls, a console shell and
an ATA driver; a workstation (`src/main.cpp` and what it calls) that draws a RAM disk on
the text screen; and an engine (the rest of `src/`) of a voxel sandbox, particles and a
token context, with threads of its own. This directory holds the models of its parts, the
TLC runs that check them on small instances, and machine-checked proofs. Paths such as
`kernel/heap.cpp` are relative to the repository's root.

## 1. Inventory

| part | state it keeps | operations | module |
|---|---|---|---|
| kernel heap, `kernel/heap.cpp` | a linked list of chunk headers in one arena | `init_heap`, `kmalloc`, `kfree` | `Heap` |
| scheduler, `kernel/task.cpp`, `context_switch` of `kernel/boot.s` | a ring of control blocks, `running_task`, a stack per thread | `init_multitasking`, `create_thread`, `switch_task`, `get_thread_count` | `Scheduler` |
| interrupts, `kernel/timer.cpp`, `kernel/idt.cpp`, stubs of `kernel/boot.s` | `timer_ticks`, the gates; in hardware the request and service registers | `timer_handler`, the stubs, acknowledgements | `Interrupts` |
| console shell, `kernel/keyboard.cpp` | `cmd_buffer`, `cmd_index`, `cursor_position`, the screen, `keyboard_matrix` | `keyboard_handler` | `Shell`, `Interrupts` |
| system calls and ring 3, `kernel/kernel.cpp`, `kernel/boot.s`, `kernel/vmm.cpp` | the register frame on the stack, two page directories, CR3 | gate 0x80, `sys_handler_stub`, `syscall_dispatcher`, `jump_to_ring3`, `init_vmm` | `Syscall` |
| page allocator, `kernel/pmm.cpp` | a bitmap | `init_pmm`, `pmm_alloc_page`, `pmm_free_page`, `pmm_get_used_pages` | `Pmm` |
| RAM disk, `src/vfat.cpp` | eight file entries and their number | `init_vfat_disk`, `create_virtual_file`, three queries | `Vfat` |
| workstation, `src/main.cpp`; loader, `src/loader.cpp` | the active folder, `last_scancode`, the last run, the screen | the loop of `antagonist_main` | `Workstation` |
| disk driver, `kernel/ata.cpp`; persistence, `src/persistence.cpp` | `ata_io_buffer`, the drive's ports; `world_map` | `ata_read_sector`, `ata_write_sector`, `dump_sandbox_to_disk`, `load_sandbox_from_disk`, `disktest` | `Ata` |
| voxel sandbox, `src/raycast.cpp`, `src/collision.cpp`, `src/selection.cpp`, `src/modification.cpp`, `src/spatial.cpp` | `world_map`, the position of a camera | `apply_aabb_clipping`, `trace_selection_ray`, `execute_voxel_mutation`, `calculate_cell_index`, `render_voxel_world` | `Sandbox` |
| cognition, `src/vocab.cpp`, `src/tokenizer.cpp`, `src/tensor.cpp` | `vocab_table`, the context of 32 tokens, `output_layer` | `add_vocab_mapping`, `tokenize_string_slice`, `push_token_to_context`, `evaluate_tensor_forward` | `Cognition` |
| particles, `src/particle.cpp` | a ring of particles and its next slot | `spawn_particle`, `update_and_render_particles` | `Particles` |
| distribution threads, `src/threads.cpp` | a table of threads and the index of the running one | `create_isolated_thread`, `switch_task`, the two thread loops | `Distribution` |

How they interact. `kernel_main` initialises the parts with interrupts masked, creates
two threads and enters `antagonist_main`, which never returns, never yields and never
enables interrupts. So the shipped system runs one thread that *polls* the keyboard
through system call 2; the clock, the shell and the threads only come to life in a
configuration whose boot thread calls `switch_task`, because the `sti` at the end of a
switch and in `thread_bootstrap` are the only ones. The models cover both: the
workstation with interrupts masked, and the kernel parts with interrupts that land
wherever IF is set. The interrupt handlers are the second actor of the kernel: `meminfo`
reads the ring of threads and the page bitmap, and `disktest` enters the disk driver,
from the keyboard interrupt, whatever was interrupted. The engine is linked in and not
called by the shipped boot path, apart from what the disk driver's callers save: its
modules take any order of calls. Its two thread loops call the particles and the
cognition, and end each turn with a `switch_task` of their own.

What is hard: interrupts inside a context switch, a page search, a thread creation or a
disk write; early and repeated acknowledgements; a stack that three pieces of code push
to and pop from; a drive that is late, absent or loses its cache with the power; polling
a keyboard that repeats, queues and loses bytes; casts and margins where a position meets
a grid line; rings and windows that wrap; long sequences of calls on the heap, the shell
line and the RAM disk. The hazards, each at its line and with the properties that cover
it, are listed in `PROJECT.json`.

## 2. Modules

| module | models | composed with |
|---|---|---|
| `BlockAllocator` | what an allocator promises: disjoint blocks inside an arena | implemented by `Heap` |
| `Heap` | the chunk list, both loops one iteration per step | |
| `Scheduler` | one CPU (`eip`, `esp`, registers, IF), stacks as words, the ring | |
| `Interrupts` | interrupt controller, gates, handlers and their acknowledgements, the queue of the keyboard | |
| `Syscall` | the stack of a system call and of `jump_to_ring3`, the loaded page directory | |
| `Shell` | the line editor and the text screen | |
| `Pmm` | the page bitmap | |
| `Catalog` | what the RAM disk promises: a bounded list that only grows | implemented by `Vfat` |
| `Vfat` | the table of file entries and its queries | |
| `Workstation` | the loop of `antagonist_main`, the loader, a polled keyboard | extends `Vfat` |
| `Ata` | the driver, its callers, a drive with a cache, power failures | |
| `Sandbox` | map, camera, selection, mutation and the march of the renderer | |
| `Window` | what the token context promises: the latest tokens, oldest first | implemented by `Cognition` |
| `Trail` | what the particle ring promises: the latest particles and the frames they have left | implemented by `Particles` |
| `Cognition`, `Particles` | vocabulary, context and forward pass; the particle ring | |
| `Distribution` | the thread table and the two loops | extends `Cognition` and `Particles` |
| `MemoryProofs`, `SchedulerProofs`, `InterruptsProofs`, `ShellProofs`, `WorkstationProofs`, `SandboxProofs`, `DistributionProofs` | theorems (section 6) | each extends the modules it is about and TLAPS |
| `IntervalInduction` | lemmas: induction and recursion along an interval of numbers | extended by modules of proofs |
| `MCScheduler`, `MCDistribution`, `MCInterrupts`, `MCSyscall`, `MCShell`, `MCAta`, `MCSandbox` | constants of the runs | |
| `MCMemory`, `MCThreads`, `MCEntry` | runs of components that share no variable: the behaviours of one while the others stay at boot | extend the modules above |
| `MCWorkstation` | constants of the run of the loop, and the RAM disk under any sequence of calls | extends `Workstation` |

Names follow the source; of two variables that the source calls the same and that a module
of proofs sees together, one is renamed (`world_buffer` in `Ata`, `eflags_IF` in `Syscall`).
A definition with a suffix (`Fits_Strict`) is a variant with a
plausible bug; it is used by nothing and exists to show that a property can fail: with
it in the place of the definition that follows it, TLC finds the property violated.

### Heap
`chunk` maps the address of a header to the header. `Kmalloc` and `Kfree` are the entries
of the functions; `ScanNext`, `ScanTake`, `ScanFail` are the iterations and exits of the
loop of `kmalloc`, `MergeAbsorb`, `MergeNext`, `MergeDone` those of `kfree`. `owned` is a
ghost: what callers hold. Callers free what they were given, once. The heap needs no lock
because no interrupt handler calls it and threads switch only in `switch_task`.

### Scheduler
A stack is an array of words. `Push`, `Pusha` and `Popa` are the instructions; the frame
that `create_thread` writes at the top of a new stack is `Fabricate`. `switch_task` and
`context_switch` are cut where an interrupt or another thread could tell: guard, `cli`,
move of `running_task` and call, `pusha` and store, load and `popa`, `ret`, `sti`. An
interrupt is one step (`Interrupts` shows that handlers do not nest) that leaves garbage
below the stack pointer; what `get_thread_count` would return to it is the operator
`ThreadCount`, which `RingComplete` looks at in every state. `saved` and `waited` are
ghosts. `BootYields` tells the shipped boot thread, with which the created threads never
run (section 3), from one that yields, with which they do: the other properties are about
what a switch does when there is one. `StackHasRoom` includes the type invariant: a CPU
that jumps to a word that is no code address is a stack gone wrong. `ContextIntact` says
what a thread wakes up with, and that what it has parked stays as it is until then; an
interrupt lands on the stack of the thread that runs, never on a parked one.
`kmalloc` is taken to succeed (section 5 says what happens when it does not).

### Interrupts
The controller latches one request per line, delivers the most urgent line when nothing as
urgent is in service, and an end-of-interrupt ends the most urgent line in service.
Handlers are sequences of steps: read or count, acknowledge, act, acknowledge in the stub,
`iret`. The keyboard and its controller hold `FifoSize` bytes of key strokes and lose what
comes when they are full, as they may while `disktest` runs in the handler; `missed` are
the keys whose last byte was lost, of which `keyboard_matrix` says nothing true until
their next one. Keys are those that send a single byte. A line without a gate (the
drive's) resets the machine.

### Syscall
The stack is a sequence of words. `Int80`, `Pusha`, `PushEsp`, `Dispatch`, `AddEsp`,
`Popa`, `SysIret` are the gate and the instructions of the stub; the dispatcher reads and
writes the frame by slot number, as the code does, and leaves anything in the registers
that a compiled function need not preserve. What a call does besides (printing, the drive)
is left out; which registers it takes its arguments from, `request`, is not. `CallJump`
and `jump_to_ring3` build the frame of the privilege change, `Fetch` is the first
instruction at the other end: all pages of the directory in CR3, the only one that is ever
loaded, belong to the supervisor, so that it faults, no gate takes the fault, and the
machine boots again. `caller` is a ghost.

### Shell
A key is one step of `keyboard_handler`. A reply is as many characters as the code prints;
what they say is left out. A write beyond the last cell sets `overrun`. The shell's
`disktest` prints what the sector holds up to a zero byte: `DiskLengths`.

### Pmm
A byte of the bitmap is the set of its bits. `AllocCall`, `SearchNext`, `SearchTake`,
`SearchFail` are `pmm_alloc_page`; `Meminfo` is the keyboard interrupt, between any two
of them. `held` is a ghost: the pages that callers hold.

### Vfat and Workstation
A string is a text and a length; `safe_string_copy` shortens it. `Workstation` seeds the
disk with calls of `create_virtual_file` and then alternates `Poll*` (the start of an
iteration up to the end of the key's effects) and `Draw` (the rest of it). The keyboard
strikes, releases and repeats keys at any time; its controller queues `FifoSize` bytes,
loses more, and answers with the last byte again when it is empty. A key is a code and
whether it is extended: an extended key sends the byte E0 (`Prefix`) before each of its
codes, repeats included, which looks to the loop like the release of another key. Some
extended keys share their code with another key, as the Enter of the keypad does. Rows 15
to 17 of the screen are modelled cell by cell, the other rows by the fields that change.
The delay at the end of an iteration, the banner and the fixed labels are left out.

### Ata
A call of the driver is a record with its own program point; the list of calls has two
elements when the keyboard interrupt enters the driver inside a thread's call
(`Preempts`). Every wait ends when the drive is ready (`WaitEnds`) or gives up
(`WaitTimesOut`), and the code goes on in the same way. The drive executes commands one
at a time, ignores what it does not expect, caches writes and may write them to the
medium at any time; `PowerFails` at any moment, also inside a call, and loses the cache
and the memory. `saved` is a ghost: what a write that returned in time promised.

### Sandbox
Lengths are whole numbers of 1/80 of a tile, so that the radius of the camera (0.2), the
margin of a face (0.05) and the steps of a ray (0.05 times the code's own polynomial
cosine and sine of whole radians) are exact. The positions that TLC takes are odd and its
rays move by even amounts: no sample falls on a grid line, where the rounding of a float
would decide, and the model says nothing about those. `Quotient` is the cast to `int`,
which drops the fraction towards zero. `Move` is `apply_aabb_clipping` with one movement
per axis, `Destroy` and `Place` are `execute_voxel_mutation` after the ray, `March` is the
loop of `render_voxel_world` for a column, from `Outset` by a `Jump` per iteration until it
is `Over`; times to grid lines are compared by cross multiplication. Heights and pixels of
a column are left out.

### Cognition, Particles, Distribution
All occurrences of a token add the same weight to its output, so that an output is counted
in occurrences. A word is itself and what 15 characters keep of it (`Kept`). What a
particle looks like and where it flies is left out. The note that `switch_task` of
`src/threads.cpp` takes of the next thread moves no stack pointer: `loop`, the loop that
was entered, goes on for ever, whatever the index says (section 3). `Window` and `Trail`
are stated without slots: the context refines a sequence of at most 32 tokens to which one
is appended, the ring a sequence of particles from the oldest to the newest.

## 3. Runs

Six runs pass. `Memory`, `Threads` and `KernelEntry` explore components that share no
variable: a behaviour is one of one component while the others stay at boot. `Workstation`
does the same with its RAM disk, which is called by the loop or, the loop at rest, by
anyone.

| run | question | bounds, and why they are enough | states |
|---|---|---|---|
| `Memory` | the heap: list, merging, what nullptr means, termination, refinement of `BlockAllocator`. The pages: bitmap against holders, nullptr, meminfo | a few headers' worth of arena, sizes around the split boundary: splits, exact fits, both kinds of merge and exhaustion happen; pages in two bytes with the boundary inside, and all of them get taken | 34k |
| `Threads` | the kernel's: contexts, ring, masking, rotation. The distribution's: refinement of `Window` and `Trail`, purity of a pass | two created threads and a boot thread that yields, two registers, stacks with not one word to spare, creation and switching interleaved; two entries of the vocabulary, a context of three, a ring of two, lives of one and two ticks, a token that is no entry, a word that is cut: all rings wrap with particles alive in them | 233k |
| `KernelEntry` | interrupts: nesting, acknowledgement, order, lines without gates. System calls: are they transparent. The shell: buffer, cursor and echo | two keys, three bytes, room for two, three pulses, a disk command: every pair of lines overlaps, the keyboard's queue fills and overflows behind a handler; two contents tell any two registers apart, every call number, any number of calls and jumps in any order; a screen of a few columns and rows: the line fills up, the screen scrolls with every command | 100k |
| `Workstation` | debouncing and the catalogue; the RAM disk: queries, stability, refinement of `Catalog` | four iterations, four bytes, a queue of two, six keys of which one is extended and two share a code: presses, repeats, releases, lost bytes, every command, power-down; four entries, two folders, strings shorter than, as long as and longer than their array | 106k |
| `Ata` | durability, loading back, returning | two worlds, two sectors, no bound on calls, timeouts and power failures | 549k |
| `Sandbox` | can the camera leave the map or enter a block, is a placement undone by the next destruction, do columns show the nearest block | 3 by 3 tiles, half a tile per movement, five angles, four columns: every set of blocks that digging and placing can make, every side and corner, diagonal movements, the strip outside the map, a camera less than a step of the ray from the next tile; the ray reaches across the map | 21k |

Deadlock is checked in all of them except `Workstation`, where the machine really stops
(`cli; hlt`). Its runs end after `Lifetime` iterations as the code does after 5000.

Six runs must find a violation: each states what a comment or a document of the
repository says, and shows what the code does instead. They are explained, with the lines,
under "findings" in `PROJECT.json`.

* `AtaPreempted`: `src/persistence.cpp:13-14` says that a save flushes the whole world to
  its sector (`SaveIsComplete`); `disktest`, typed in the middle of one, uses the same
  buffer, ports and drive and spoils it. No thread that saves is shipped yet.
* `SchedulerShipped`: `docs/ARCHITECTURE.md:100` and the screen
  (`kernel/kernel.cpp:144-145`) say that the created threads run concurrently
  (`EveryThreadRuns`). The boot thread as it is shipped (`kernel/kernel.cpp:184`) never
  yields, and they never run; one that yields, as in `Threads`, lets them run.
* `WorkstationExtended`: the debouncer is there "to eliminate scancode repeat bouncing"
  (`README.md:77`, `docs/ARCHITECTURE.md:88-90`), so that the press of a held key acts
  once (`HeldKeyActsOnce`). It compares with the last byte only (`src/main.cpp:131`): an
  extended key repeats two bytes in turn, and its press acts at each repeat.
* `DistributionFocus`: `switch_task` of `src/threads.cpp` is said to cycle execution
  between two loops (`:108`, `FocusAlternates`); it changes an index that nothing reads
  (`:121`), and the loop that was entered runs for ever.
* `SyscallArguments`: the slots that the dispatcher calls EBX and ECX
  (`kernel/kernel.cpp:203-205`, `docs/ARCHITECTURE.md:71-73`) are those of ECX and EDX in
  the frame of `pusha` (`ArgumentsAreDocumented`).
* `Ring3Entry`: `jump_to_ring3` is said to go to the address "passed from C++"
  (`kernel/boot.s:138`, `JumpReachesEntry`); it reads the word above its argument
  (`:139`).

## 4. Fairness

Weak fairness of the steps of a loop or of the CPU: the processor keeps executing. In
`Scheduler` it covers the steps of the CPU but not `Compute`, since what the threads do
between two yields is a bounded loop; `EveryThreadRuns` fails nevertheless, because the
boot thread never gets to a switch. In `Distribution` it is the two endless loops of
`src/threads.cpp`, of which one is entered; nothing is assumed of their callers. In
`Interrupts` the delivery of a line is strongly fair: `switch_task` may mask interrupts
again and again, but the processor takes a pending interrupt at the first instruction
boundary with IF set; that IF is set now and then (`Sti`) is what a configuration that
switches threads gives, and the shipped boot thread does not. Nothing is assumed of the
clock, the keyboard, the drive or the power: they may act at any time or never. Where a
run explores components side by side, the fairness of each holds while it is explored.

## 5. Differences met while modelling that no run checks

These follow from one or two lines of the code; the models above take the side of the
code, or one that does not need to decide (memory suffices, sectors are short).

Kernel:

* `create_thread` checks neither `kmalloc` (`kernel/task.cpp:54`, `:61`). When the heap
  is exhausted two threads share the memory at address 0, against the "isolated 4KB
  private stack buffer" of the comment (`:57`).
* Clock pulses that come while one is pending merge in the controller, so that
  `timer_ticks` (`kernel/timer.cpp:61`) counts interrupts, not pulses.
* The shell's `disktest` prints what the sector holds up to a zero byte
  (`kernel/keyboard.cpp:258`) before anything looks at the end of the screen
  (`:74-76`): a sector without an early zero is written past the screen.
* A backspace on an empty line is an ordinary character to the last branch of the
  handler (`kernel/keyboard.cpp:275`, `:282`). `Shell` models this: the line then holds it,
  and its echo.
* `command_ready_flag` is only ever set to 0
  (`kernel/keyboard.cpp:68`), so that `get_shell_command` always returns nullptr, against
  `include/kernel/keyboard.h:11`.
* `init_pmm` reserves the first 2 MB (`kernel/pmm.cpp:53-58`), and the heap begins at
  3 MB (`kernel/kernel.cpp:116`): its pages are free for `pmm_alloc_page`.
* A jump to ring 3 would not get to run anything even with the right address, against
  `README.md:80` and `:94`: CR3 holds the directory whose pages belong to the supervisor
  (`kernel/vmm.cpp:78`), and nothing ever loads the user's directory. The stack that the
  TSS names is never used.

Workstation and RAM disk:

* For the reason given with `WorkstationExtended`, a held key of a single byte acts again
  when another one is pressed or released meanwhile. `PressActsOnce` is stated for what the
  code does guarantee: one key at a time, of a single byte.
* Two keys of one code, such as the two Enters, that are down at once look like one key
  that repeats: the second press may be swallowed. `PressActs` excludes them.
* The message of the space key (`src/main.cpp:164`) is wiped later in the same iteration
  (`:208`).
* `sys_init.sys` has `MAX_FILENAME_LEN` characters and loses the last one to the zero
  (`src/vfat.cpp:15`, `src/main.cpp:96`); a content of 64 characters or more is stored as 63
  and recorded as 64 (`src/vfat.cpp:62` against `:55`). `Vfat` models both.
* Row 15 is blanked up to column 71 (`src/main.cpp:208`), but contents run further, and
  into the next row: tails of another folder's files stay. `ShowsActiveFolder` is stated
  for the blanked columns.
* The monitor shows the status as of the start of the iteration (`src/main.cpp:116`) next
  to the log as of its end (`:229`).

Engine:

* A cast drops the fraction towards zero (`src/collision.cpp:12`), so that less than a tile
  outside the left or upper edge counts as the map: the camera can leave it there, by
  less than a tile, although "out-of-bounds space" is to be a wall (`:17`).
  `CameraStaysNear` gives the exact bounds.
* Only the edge that leads is checked, at the height of the centre
  (`src/collision.cpp`): a corner of the box around the camera may overlap a block, its
  centre never does by moving. A movement longer than a tile less the radius could jump
  over a block; callers are taken to move less (`SandboxAssumption`).
* A block can be placed on the tile the camera stands in (`src/modification.cpp:39`).
  From the last 0.05 of that tile before the block that the ray strikes, the next ray
  starts behind the new block and does not find it: destroying then takes the old one.
  `StraightPlaceUndone` excludes this case, and TLC's camera gets into it.
* The struck face is guessed from how near the point is to a grid line
  (`src/selection.cpp:44-58`), not from the line that was crossed, as `README.md:37` has
  it; for oblique rays a placed block need not touch the face. `StraightPlaceUndone` is
  stated for rays straight ahead.
* Where the line of sight of a column meets a corner of the grid, the march goes around it
  by the line of y (`src/raycast.cpp:90`), and may show a block that the line only touches.
  `ColumnsShowNearest` is stated for lines of sight with no corner ahead; the columns
  and positions of TLC have none, so the run checks all of its columns.
* A column that hits nothing before the edge of the map is drawn as a wall there; the
  material chosen in the hotbar is not what is placed.
* Token 255 is both the mark of an unknown word and a valid entry; a word of 16
  characters or more is stored cut and never found again; slots that have not been
  filled count as token 0 in a pass. `Cognition` models all three.
* `switch_task` of `src/threads.cpp` shares its name with the scheduler's in
  `kernel/task.cpp`; it moves the index on only when the next thread is active.

## 6. What is proved

All theorems hold for every value of the constants that the named assumption of the
module admits. None of the invariants below is inductive alone; each module of proofs
has one that is, a lemma per action that it is preserved, and the theorems follow.

A module of proofs may be about two components and extends both. Of such a pair one has
names of its own for its initial states, next-state relation and specification (`PmmSpec`,
`SyscallSpec`, `VfatSpec`, `AtaSpec`), and so has one that a run explores next to others
(`ShellSpec`, `DistributionSpec`). The theorems about a component cite the assumption of
that component only. `Workstation` extends `Vfat` because the loop is a client of that very
disk: its steps are the disk's, or leave the disk alone (`LoopUsesDisk`).

**`IntervalInduction`** carries the inductions of the other modules. The library's
principles take an operator, which the provers cannot instantiate; `UpTo` takes the *set*
of the numbers that have a property, and `RecursionExists` a *function*, the steps of a
recursion, and gives the function that performs them, so that a recursive function of a
model, which is a choice of a function that satisfies its equation, satisfies it. Both
follow from the fact that a set of natural numbers has a smallest element (`Smallest`),
which the library's theorem on finite subsets gives.

**`MemoryProofs`: the heap**, for every arena, header size, spare size and set of request
sizes (`HeapAssumption`: the arena holds a header, its address is not null). `TypeCorrect`,
`ArenaIsTiled`, `BlocksAreBacked`, `NeighboursMerged`, `NullIsHonest`, `NoLeak`, and
`ImplementsAllocator`, the refinement of `BlockAllocator`. `IInv` joins the types, the
tiling (without which the address of a split or of an absorbed chunk could hit another
one), the ownership, the merged neighbours up to the loop's position, and the fact that a
scan has passed no chunk that fits. In the lemmas of `ScanTake` and `MergeAbsorb` the new
list is described pointwise and the tiling is shown for a chunk before, at and after the
change. `NoLeak` follows because a heap in which nothing is owned has only free chunks,
and two of them would be neighbours somewhere.

**`MemoryProofs`: the pages**, for every bitmap, memory size and reserved area
(`PmmAssumption`: the bitmap has a bit for every page, page 0 is reserved).
`PagesTypeCorrect`, `BitmapIsTrue`, `NoPageMeansFull`, `ReportIsTrue`: all its properties.
`SetOneBit` and `ClearOneBit` say that packing eight pages into a byte keeps them apart.
`BitmapAgrees` is inductive with the types; that nullptr means full needs
`PassedAreTaken`, what a search has passed stays taken, because nobody frees a page inside
a search.

**`SchedulerProofs`**, for every number of threads, of registers, of words that an
interrupt pushes, and every stack that holds one frame and one interrupt
(`SchedulerAssumption`). `StacksHaveRoom`, `ThreadsKeepContext`, `WaitingIsBounded`,
`RingStaysComplete` and `TypeCorrect`: all its safety properties, with a boot thread that
yields and with one that does not. The argument for
the stacks: every control block that does not own the CPU is `Parked`, that is, its stack
holds a whole frame at the top, either left by a switch (`Slept`) or fabricated
(`Fresh`), with the registers its thread had; `Depth` gives the stack pointer as a
function of the program point, so that a push or an interrupt is known to land on the
stack of the thread that runs, below what it needs; `Ring` keeps the thread that gives up
the CPU apart from the one that takes it, which the guard of `switch_task` and the
closedness of the ring give. While the CPU changes stacks (`Busy`) nobody runs and all are
parked. `ParkedFrame` says that `popa` and `ret` then give back exactly what was saved.
For the rotation a second invariant, `Orderly`, says how the ring is linked (each new
thread goes in after the head: from the head to the newest, and down from there) and that
what a thread has waited is at most the turns since its own. The walk of
`get_thread_count` then visits the threads in that order, by induction along the ring, and
is back after all of them.

**`InterruptsProofs`: the lines and the keyboard**, for every set of keys, every queue and
all bounds.
`HandlersDoNotNest`, `NoLineWithoutGate`, `MatrixShowsKeys`, `TypeCorrect`. Handlers do not
nest because the gate clears IF and only `iret` gives it back (`AtMostOne`), however early
they acknowledge; the drive is silent because nIEN is set before every command. That the
matrix is true once the queue is empty needs `KeysAreTold`: for every key, the last byte
that waits for it tells whether it is held, and when none waits the matrix does, unless
its last byte was lost.

**`InterruptsProofs`: system calls**, for every content of the registers and every byte of
the port. `CallsAreTransparent` and `ArgumentsAreEdxAndEcx`, which says what the comments
should. `CallInv` spells out the stack at
each program point, from the bottom: what the gate, the stub and the dispatcher have
pushed so far over the caller's registers. Each instruction takes one of these shapes to
the next, which is the whole proof; that the two words above eax are ecx and edx is in
the shape after `pusha`.

**`ShellProofs`**, for every screen, every buffer that is no longer than a row, all
letters, commands and lengths of replies (`ShellAssumption`). `CursorIsAfterLine`,
`EchoFollowsBuffer`, `TypeCorrect`, and `ShortRepliesStay`: if replies fit in a row,
nothing is written past the screen. `IInv` says that the cursor is in some row of the
shell, after the characters of the line, and that the echo is the buffer; printing,
scrolling and clearing are operators on the console, each with a lemma that says where it
leaves the cursor and which cells it blanks.

**`WorkstationProofs`: the RAM disk**, for every table and all folders, names and contents
(`VfatAssumption`: the arrays have room for a zero). `TableTypeCorrect`, `PrefixIsActive`,
`FilesStay` (`IndexesAreStable`), `QueriesAlwaysAgree` and `ImplementsCatalog`.
`TableInv` adds to the types that the active entries are a prefix, so that a call appends
or does nothing. A lookup then keeps its result because the entries before it do not
change, and because the later of two entries of a folder has more of them before it
(`FoundIsUnique`). That the count and the lookups agree is true of every table whatever:
by induction, the entries of a folder below a slot are numbered 0, 1, 2 ...

**`WorkstationProofs`: the loop**, for all files, screens, keys, queues and lifetimes.
`NoPressActsTwice` and `NoPressIsSwallowed` rest on `KeyInv`, about the bytes that wait in
the controller. The debouncer will pass those that differ from the byte before them
(`IsNew`). One that it will drop tells of a press that an earlier byte told of
(`DropsKnown`), so that nothing is swallowed as long as no byte was lost and no two keys of
one code were down at once; and while keys have been pressed one at a time, one that it
will pass tells of a later press than all bytes before it, or of the same press of an
extended key (`PassesInOrder`), also when bytes were lost. So presses act in their order,
and those of keys of a single byte once. `ScreenIsTrue` rests on
`ScreenInv`: the counts a frame draws from are those of the files, and no stored file
runs into the blanked columns of the row below its own. Drawing is taken apart cell by
cell: the cells of the name, the arrow and the content of each file, and the blanked ones
between them. Two assumptions say what the constants of `main.cpp` give
(`LayoutAssumption`: names and contents, as they are stored, end before the blanked
columns of the next row; the arrow is inside those of its own; `WorkstationAssumption`: the
files to create are files of `Vfat`). `LoopUsesDisk` says that the loop implements the
specification of its disk, so that what is proved of the disk holds inside the loop:
`LoopFilesStay`, a file that a frame looks up again is where it was, with the same content.

**`SandboxProofs`: the sandbox**, for every map and sector grid, all angles, and movements
up to a tile less the radius (`SandboxAssumption`). `CameraIsNear`, `MovingNeverBuries`,
`PlacingIsUndone`, `ColumnsAreNearest`, `TypeCorrect`. Tiles are in the order of
positions, and a position between two that are at most a tile apart is in the tile of one
of them (`BetweenTiles`): so the camera, which ends between where it was and the edge that
was checked, is in a tile that was free or its own. This is used per axis, the second time
from where the first has put the camera. A ray ahead that strikes has just crossed a line
(`StrikesNextTile`), the new block is in the tile of the sample before, and the next ray
stops at the first of the samples in that tile. Trying to prove it without its condition
showed the case of section 5, in which the ray starts in the block, and which the
positions of TLC had missed until then.

That columns show the nearest block, for every width of the screen, holds in any map. A
march keeps `Nearest`: the length to the next line of either axis is that at which the
line of sight leaves the tile (`Measured`), the line crosses the tile and came in by the
recorded side, and no block that it crosses is nearer. A jump keeps this, and goes one
tile further (`JumpIsNearest`), because of two tiles that a line crosses none is ahead
along one axis and behind along the other (`Chain`), so that they are passed in the order
in which they are away (`FurtherIsAhead`). The first jump starts in the tile of the
camera, where `Met` stands for crossing: the camera may be at the very line by which it
leaves. By induction along the march (`MarchEnds`), it is over after as many jumps as the
map is wide and high; and when it has left the map, no block was ahead. Comparing times
multiplies lengths by directions, which is not linear arithmetic: each such comparison is
a lemma of its own about four or six integers. The attempt to prove it showed that it
fails at corners (section 5).

**`SandboxProofs`: the disk driver**, for all contents of worlds and sectors.
`SavesAreDurable`, `LoadingRestores`, `EchoesAreGenuine`. Their hypothesis is `~Preempts`:
one call of the driver at a time, which is what the shipped system does, and without which
they are false (the run `AtaPreempted`). `DriveInv` says that what is saved is in the
medium *and* in the cache, and that no write that the drive still waits for, however old,
is to a sector that is saved (`SavedTwice`): otherwise a drive that was given up on could
take the data of the next command for it. As long as no wait has timed out, the drive does
what the program point of the call says (`InTime`).

**`DistributionProofs`**, for every vocabulary, context, ring and lifespan
(`CognitionAssumption`, `ParticlesAssumption`). `TypeCorrect`, `ImplementsWindow`,
`ImplementsTrail`, `PassesArePure`. `TypeCorrect` covers the vocabulary, the context, the
layer, the last word, the particles, the thread table and the loop that runs; that an
output stays a number needs what a pass adds up to. The refinement mappings read the
context up to `current_index` and the ring from its next slot, modulo its size;
`RingOrder` says that reading from the next slot shifts the ring by one and ends with the
slot that was filled last. A pass adds one for each slot of the context, so that by
induction along the slots it counts the occurrences of a token.

Only model-checked: liveness (`OperationReturns`, `KeysAreHandled`, `TimerKeepsTicking`,
`CallsReturn`), which the provers do not handle.

## 7. Not modelled, and the plan

Left out because a model would say nothing or could not say it: the contents of the
descriptor tables (`kernel/gdt.cpp`), graphics output, fonts and palette, the pixels of
the renderer, the noise function and the matrices, which nothing calls and which are
stateless arithmetic, hotbar and input matrix (single assignments that nothing reads),
the divide fault handler (it halts), the FPU set-up, the build. `src/weights.cpp` is a
loop of reads over the driver and is never called; on top of `Ata` it makes more than ten
million states. It reports success whatever the drive did (`src/weights.cpp:46`), as every
caller of the driver must, since the driver tells nobody of a timeout.

Run a model with `tlc -config Memory.cfg MCMemory.tla`, a proof with `tlapm
MemoryProofs.tla`.
