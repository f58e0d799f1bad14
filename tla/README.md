# YtrewqOS: TLA+ models, checks and proofs

YtrewqOS is a bare-metal kernel for the 64-bit Raspberry Pi 3: one core, no
interrupts taken, no processes. Part of what is hard about it is hardware that
acts between any two instructions of a driver that polls it: a free-running
timer, an SD host controller with a card that can be pulled out, a GPU that
answers messages. The other part is code that keeps data structures over long
sequences of calls: the allocator's chunks and bins, the directory and file
readers, the shell's one line buffer, and the many small functions of a libc
written from nothing.

Paths below are relative to the project's source tree (`src/` is the tree,
`src/src/...` and `src/include/...` are its own two directories); the tables
leave out `src/src/`.

Contents: 1 inventory, 2 modules, 3 runs, 4 proofs, 5 known behaviours without a
run, 6 what is not modelled, 7 plan.

## 1. Inventory

### Parts of the system

| part | code | state it keeps | operations |
|---|---|---|---|
| timer | `kernel/timer.c`, `timer.h` | a deadline and a wrap mark per wait; the 32-bit counter is hardware | `register_timer`, `compare_timer`, `usleep`, macro `TIMEOUT_WAIT` |
| SD host interface | `drivers/SD/emmc.c` 772-1314 | `last_cmd_success`, `last_error`, `card_removal`, `blocks_to_transfer`; registers STATUS and INTERRUPT | `sd_issue_command`, `sd_issue_command_int`, `sd_handle_interrupts` |
| SD card driver | `drivers/SD/emmc.c` 1316-2233 | `struct emmc_block_dev`: card address, kind, pointers `device_id` and `scr`; the bus width in CONTROL0 | `sd_card_init`, `sd_ensure_data_mode`, `sd_do_data_command`, `sd_read`, `sd_write`, `sd_card_cleanup` |
| SD clock divider | `drivers/SD/emmc.c` 555-664, 695-739 | CONTROL1's divider and enable bits | `sd_get_clock_divider`, `sd_switch_clock_rate` |
| property mailbox | `drivers/mbox.c` | none of its own; message buffers lent to the GPU, two hardware queues | `mbox_prop_call`, `mbox_call_raw`, `mbox_command_start`, `mbox_command_wait` |
| framebuffer | `kernel/framebuf.c` | address, size, `framebuf_enabled` | `fb_alloc`, `fb_release`, dimension, depth and pitch calls, all mailbox calls |
| console | `drivers/graphics/console.c`, `fb_pixels.c` | cursor, size in cells, two colours and the colours to return to | `console_init`, `console_putc`, colours, scrolling |
| exFAT | `fs/fat.c`, `fs/util.c` | the superblock; a stack of directories for `tree`; per open file: cluster, block and byte position | `exfat_read_boot_block`, the directory reader, `ls`, `tree`, `exfat_fopen`, `exfat_fread`, `exfat_fclose` |
| shell | `kernel/shell.c` | one line buffer, the words in it, the working directory | `shell_getline`, the splitting, ten commands |
| tests | `test/` | five counters and two cancel flags | `test_all`, `run_test_batch`, `run_test` |
| kernel main | `kernel/main.c` | `fs_root`, the shell's environment | sets up everything above in one order, runs the tests, then the shell |
| system calls | `calls/`, `kernel/sys.c` | `errno` | `syscall`, `sys_call_handler`, the table |
| allocator | `mm/malloc.c` (dlmalloc) | bins, tree bins, `dv`, `top`, one segment | `dlmalloc`, `dlfree`, `dlrealloc` |
| heap break | `mm/heap.c` | break, buffer pointer | `sbrk`, `alloc_buf` |
| libc | `libc/` | `strtok`'s position | string and memory functions |
| formatted output | `lib/io/printf.c`, `kernel/printf.c` | none | `generic_printf`, `printf` |
| UARTs, power, boot, fonts | the rest | an enabled flag | register writes |

### How they interact

* The file system calls `read` of a `struct block_device`, which is `sd_read`.
  It reaches the card through `sd_ensure_data_mode` and `sd_issue_command`.
* `sd_issue_command_int` and `sd_card_init` wait with `TIMEOUT_WAIT`, which
  polls the timer; every bound on waiting comes from there, except for the
  waits on the inhibit bits (`emmc.c:798`), which have none.
* Framebuffer, UART, SD clock and power go through the mailbox. The CPU and
  the GPU share the message buffers; ownership passes with the address.
* `printf` writes to the UARTs and, once a framebuffer exists, to the console.
  `fb_alloc` and `fb_release` switch that on and off.
* The tests run before the shell, initialise and clean up the SD card before
  the kernel does so for itself, and allocate from the heap the kernel uses.
* The shell splits the line where it lies: words, the working directory after
  an absolute `cd`, and the next line share one buffer. `ls`, `tree` and `cat`
  call the file system; `graphics` draws with `set_rectangle` until a key.
* `malloc` gets its memory from `sbrk`; everything else that lives long is
  allocated by it.

### What is hard, and what makes each part correct

* **Timer**: a counter that wraps every 71 minutes is read twice by code that
  must not mix up the two readings. Correct: never early, noticed by the next
  poll, and every wait ends.
* **SD host interface**: the controller raises bits between the driver's read
  of INTERRUPT and the write that clears them; a late completion looks like
  the next one; a removal arrives at any time. Correct: success means the
  command was executed and the data moved; failures are told apart; a removal
  stops everything.
* **SD card driver**: twenty commands in a row, each of which can fail, then
  retries, re-initialisation within a read, nested calls of `sd_card_init`,
  and memory whose owner depends on who called. Correct: data commands only to
  a card in the transfer state with the agreed bus width; a swap is reported
  before data is exchanged with the new card; an initialised device is
  complete; one who keeps asking is served again.
* **Mailbox**: a buffer, often a local variable, is in the GPU's hands while a
  call waits; a message of any channel can come first. Correct: the buffer is
  back when the call returns; a success is the answer to this request; every
  call returns.
* **Console**: two different limits for one cursor, overlapping copies, a
  console sized before the display is. Correct: it is a terminal showing the
  last lines; it stays inside its rows.
* **exFAT**: the readers carry block, cluster and entry positions across
  blocks, any of which may fail to be read, the boot block too, whose result
  nobody looks at; entries of one file span blocks; a walk keeps a stack.
  Correct: what is printed is the volume, whole when no read failed and a part
  of it in order otherwise; a path leads where it names;
  nothing is read from outside the directories; commands end; a read fills the
  caller's buffer and no more.
* **Allocator**: the chunk before a chunk, its size and its state are kept in
  three places; a chunk is in a bin by its size; a free merges three ways and
  may touch `dv` or `top`. Correct: what callers hold is theirs and keeps its
  data; tags, bins and chunks agree; free neighbours are merged; a request
  fails only if nothing fits.
* **libc, printf, divider, tree bins**: boundaries of small functions nobody
  wrote a test for. Correct: each does what it is for on every input its callers
  may give it.
* **Tests**: two flags cancel batches. Correct: the totals add up.
* **Shell**: a full line, a line that ends in a space, words and directory in
  the buffer that is read over. Correct: a command gets the words typed; the
  directory is the one asked for.
* **Graphics demonstration**: a moving box is cleared by a rectangle computed
  from its last place, while keys change its speed. Correct: no trail, and no
  pixel beyond the frame buffer.

`PROJECT.json` lists every hazard at its line, with the properties that would
catch it.

## 2. Modules

| module | models | lines of the code |
|---|---|---|
| `Timer` | the timer, the counter and a polled condition | `timer.c`, `timer.h` 34-53 |
| `SdCard` | the card, as far as `emmc.c` can tell (external) | commands from `emmc.c` 253-390 |
| `SdContract` | *abstract*: what `sd_issue_command` promises | - |
| `SdCommand` | `sd_issue_command` against the host controller | `emmc.c` 789-1314 |
| `EmmcDriver` | the SD card driver, one step per command | `emmc.c` 1316-2233 |
| `Terminal` | *abstract*: what a console is for | - |
| `Console` | the console in character cells | `console.c`, `fb_pixels.c`, `framebuf.c` 4-23 |
| `Mailbox` | the four mailbox calls against the firmware | `mbox.c`, callers in `framebuf.c`, `power.c`, `emmc.c`, `main.c` |
| `Volume` | an exFAT volume as the code reads it, and where its blocks are | `fat.c`, `exfat.h` |
| `Contents` | *reference*: what a volume holds by the format: directories by the table's chains, files, the tree below the root | - |
| `Directory` | the boot block, the directory reader, `ls`, `tree`, the look-up of `cat` | `fat.c`, `util.c`, `shell.c` |
| `FileStream` | `exfat_fopen`, `exfat_fread`, `exfat_fclose` | `fat.c` |
| `ExFat` | the file system's commands composed of the two | `shell.c`, `util.c` |
| `Chunks` | words, tags, bins and break, as a heap record and operators on it | `malloc.c`, `heap.c` |
| `Malloc` | `dlmalloc`, `dlfree`, `dlrealloc` over `Chunks` | `malloc.c` |
| `Blocks` | *abstract*: disjoint blocks of bytes | - |
| `TreeBin` | the tries of the tree bins | `malloc.c` |
| `CString`, `Printf`, `Clock` | libc, formatted output, the SD clock divider, as operators | `string.c`, `printf.c`, `emmc.c` |
| `Library` | those three and `TreeBin` against what they are for | - |
| `TestRunner` | the unit-test runner | `test/main.c` |
| `Shell` | line buffer, splitting, commands | `shell.c` |
| `Graphics` | the moving box and `set_rectangle` | `shell.c`, `fb_pixels.c` |
| `Kernel` | `kernel_main`: the boot with its tests and trial calls, then the shell | `main.c`, `calls.S`, `sys.c` |
| `MC...` | the instances that TLC checks | - |
| `...Proofs` | theorems | - |

`PROJECT.json` maps every definition to its lines.

**Composition.** `SdCommand` has one step per register access. `EmmcDriver`
needs some twenty commands for one initialisation, so it takes each command as
one step, and that is justified by a refinement: `SdContract` states what the
callers rely on (executed at most once; success means executed; success leaves
`last_error` alone; otherwise `last_error` tells an error from a driver
timeout; every call is answered), `SdCommand` is checked to implement it
(`ImplementsContract`; the safety part is also proved), and the outcomes
`Replies` of `EmmcDriver` are those the contract allows, plus those of
`card_removal` and of an oversized `blocks_to_transfer`, in which nothing is
sent. `EmmcDriver` EXTENDS `SdCard`. `Console` is shown to implement
`Terminal`, and `Malloc` to implement `Blocks`; both are also proved. `Kernel` composes `TestRunner`,
`Shell` and `Graphics`: each of its steps is a step of one of them or leaves
their state alone, and on that fact their theorems become the kernel's. `ExFat`
composes `Directory` and `FileStream`; what stands for the driver below it is a
block read that may fail at any time, as `sd_read` may.

**Timer.** One wait at a time (the kernel is single-threaded). `Register` is
the entry of `usleep` or `TIMEOUT_WAIT`: one read of the counter. A turn of the
macro's loop is two steps, `Test` of the condition and `Compare` of the time, and
a turn of `usleep` only the second. `Tick` and `RaiseCondition` are the hardware,
and may come between the two. `CompareTimer(w)` takes a value, as the C function
does: its assignment to `tw.rollover` has no effect and so does not appear.
`start`, `elapsed`, `usec` and `unpolled` are history that the properties need.

**SdCommand.** Driver steps are single accesses of INTERRUPT or STATUS:
`ReadInterrupts` / `HandleInterrupts`, `Issue`, then `Await...` (the read that
ends a `TIMEOUT_WAIT`) and the acknowledging write that follows it, for the
response, for each block and for the end of the transfer. The controller
(external) answers, rejects, offers buffers, completes or breaks off in between.
A wait times out when the controller has nothing more to say (`Quiet`), or
earlier while `MaxLate` allows it. `own` and `answered` are history.

**EmmcDriver.** `pc` names the command to be sent next. The fields of the
structure that control flow depends on are in `edev`; `dev` is the caller's
pointer. The heap is modelled by ownership: `leaked` collects blocks nothing
points to, and freeing what the caller holds makes `dev = "freed"`. `nested`
marks frames of `return sd_card_init(&ret)`, whose result the outer frame does
not pass on. After `UseBadPointer` (or a wild pointer handed to
`sd_card_init`) the behaviour is undefined and stops. The card may be pulled
out and put in between any two steps. Buffer sizes are classes: below one
block, one block, several, more than 0xffff, and sizes that are no multiple.
The SDMA and card-interrupt branches are compiled out in the code.

**Console.** A cell holds the colour of its ink or `"blank"`. Whether a glyph
has ink is an input, as a space has none. `Scrolled` is the loop of overlapping
`memcpy`s plus the erasing of the last row. The guards `length < Longest` and
`row < LastRow` bound the output. `temporary` marks the span between
`console_set_tmp_fg_color` and `console_reset_colors`: all callers in the code
pair them, which is the guard of the colour actions.

**Mailbox.** A call is one of three kinds: `prop` (`mbox_prop_call`), `raw`
(`mbox_call_raw`), `pair` (start and wait used directly, results ignored, as
`emmc.c:475-490` does). Filling the buffer takes two steps, the header and the
tag, because the firmware may still be reading the buffer in between once a
wait has given up. The firmware (external) takes, answers and posts; messages
of other channels arrive while the mailbox has room.

**Volume, Contents, Directory, FileStream, ExFat.** A directory is a sequence of entries
in clusters; an entry has the fields that control flow depends on. The reader
takes one step per block read: at each step it may get the block or an error.
`super` is the superblock on the command's stack, and all block numbers are
computed from it, not from the volume `vol` in the slot. When the boot block
cannot be read it becomes any of `Leftovers`: the superblock of any volume, as an
earlier command left it, or `Garbage`; the reads after that may succeed, and find
at that block what the volume in the slot holds there (`EntrySeen`). `Own` says
that the superblock is the one of the volume. `rd.part` is the union that an
entry is read into: an entry of another kind leaves the part of a name that was
in it, or bytes of its own (`Garbled`), and the code takes that for the next part.
`walk` is the C call stack of `tree` and the position within each directory.
Names are sequences of parts, each what one name entry carries. A read of a
file goes in the code's six parts, one step each; what it copies is `got`, a
set of pieces with their place in the caller's buffer and in the file, and after
a failed read what the block buffer held before (`OldContent`), as the `memcpy`
follows in any case. Sizes are unsigned, modulo `SizeMod`. `lost` marks where control does not come back
(`cat` with a slash in its argument loops, `cat` on an empty root uses a null
pointer). `blocks` and `failed` are history. `Contents` says what is on a volume
without any of the code's ways of reading: it follows the allocation table
where the code counts blocks, and it is what `ls` and `tree` are judged by. The
one thing it takes from the code is that a name is looked up by what the screen
shows of it (`ShownName`), which is what `ls` compares.

**Chunks, Malloc, Blocks.** The heap is measured in units of
`MALLOC_ALIGNMENT`. A unit has the two words of a chunk's start, and each
operator on the heap says which words it writes: this is what the run is about,
as a word written into a caller's block is lost data. Callers write all they
asked for, each block a word of its own (`Written`), which must stay (`Holds`).
Bins keep chunks by size in the order they will be taken; how the tree bins
find the right one is `TreeBin`'s. One action per entry point: `Malloc`,
`Free`, `Realloc`, with the operators `dlmalloc`, `dlfree` and `dlrealloc`
behind them, which keep the source's names and branches (`dv`, `top`, small and
large requests, consolidation, `sys_alloc`).

**TreeBin.** A trie is a function from paths, sequences of bits, to the chunks
chained there, the one in the tree first and the others in the order of their
`bk` links. `InsertLarge` and `UnlinkLarge` are `insert_large_chunk` and
`unlink_large_chunk` with the replacement of a node by the next of its chain or
by its rightmost leaf; `large_fit` and `small_fit` are the searches of
`tmalloc_large` and `tmalloc_small`. A way down a trie (`Downward`: always to
one side where there is a child) is a set of nodes, for the leftmost way of the
searches and the rightmost of the removal. `sized` and `before` are history: the
sizes of the binned chunks and which of two was binned first. `LargeAsked` and
`SmallAsked` are the sizes the searches are judged by. `TreeBinAssumption`:
binned chunks have 16 units at least, as smaller ones are in the small bins, and
belong to one of the first 31 bins: the last one begins at 12 MB, and the whole
heap ends at `MAX_BRK` (`heap.c:31`), below 2 MB.

**CString, Printf, Clock, Library.** Memory is a function from addresses to
bytes; a function that writes returns it changed. Formats are sequences of
characters; `Conversions` parses one into what it converts, with a recursive
function on the position, and `generic_printf` goes through these with the
arguments. `Library` looks at one case at a time: a memory, a text, a
number, a format, and states what each function must give there, in terms of its
own: areas moved, numbers read back from their digits, order of texts as numbers,
the rate the card is clocked at. Each part states the inputs it is for (areas
that do not overlap, a string with room for its end, a rate the divider reaches,
a known conversion without a star), which is where the kernel's calls lie; what
comments promise beyond that and the code does not keep is in section 5.

**TestRunner.** A test is the set of the results it may have. `i` counts within
a batch, `Left` is what is still to run.

**Shell.** Characters are numbers; the line buffer is memory of `Cap` bytes and
what lies behind it. `shell_getline` writes the buffer as the code does,
without a terminator when it is full, and keeps the rest of the line for its
next call; `Split` is the loop with `strtok_r`, one action per command follows.
The working directory is a pointer into memory of its own, or into the line
buffer after an absolute `cd`; `overwritten` tells when it has been read over.
`asked` is history: the directory by the names the commands gave.

**Graphics.** `lit` is the set of pixels in the colour of the box. The frame
loop takes a key, draws, moves the box and waits, one step each. `Shift` is one
with 24 bits a pixel, because `set_rectangle` advances its offset before it
writes.

**Kernel.** `phase` is the place in `kernel_main`; trials of system calls count
`nr` down by the step of the code. The calls of `malloc`, of the mailbox and of
the card driver within it are steps that those modules describe.

## 3. Runs

Each run's properties, its result, and what it rests on. All bounds are
CONSTANTs of the models.

| run | states | question | result |
|---|---|---|---|
| `timer` | 23 thousand | are waits never early, noticed in time, and do they end? | holds, but for trigger 0, the wrap, and a delay of zero |
| `command` | 286 thousand | does `sd_issue_command` keep its contract? | holds |
| `driver` | 6.4 million | transfer state, bus width, completeness, swaps | holds |
| `driver_recovery` | 186 thousand | does the driver recover? | holds |
| `driver_freed_device` | | is the caller's structure kept? | no: failed re-initialisation frees it |
| `console` | 25 thousand | is the console a terminal? | holds when lines fit |
| `mailbox` | 927 thousand | ownership of buffers, own answers, termination | holds |
| `exfat` | 23 thousand | is what is printed the volume? do commands end? | holds on contiguous directories, with the volume's superblock |
| `exfat_read` | | does a read stay in the caller's buffer? | no: it copies what is left of the block |
| `heap` | 29 thousand | is the heap a store of disjoint blocks, and does it use its space? | holds |
| `functions` | 14 thousand | does every function do what it is for? | holds for the inputs each part names |
| `kernel` | 190 thousand | tests, words, directory, box | holds for lines that fit |

**timer.** `TypeOK`, `NeverEarly`, `Prompt`, `PlainWaitEnds`. Twelve counter
values, from every start value, delays -1, 0, 1, 3 and 5, a poll at least every
two ticks. This has a deadline before, on and beyond the wrap, polls that skip
the deadline, delay errors, and registration at counter 0. The width does not
matter beyond that; the proofs of `NeverEarly` and `Prompt` are for every width.
`Prompt` says of a wait that is over and of one that is still going on that no
more time has passed than its delay and the time between two polls: a wait that
is not noticed breaks it as well as one that is noticed late. `Prompt` and
`PlainWaitEnds` are about the waits whose deadline lies before the wrap, with
room for one poll (`BeforeWrap`): a deadline in the last microseconds before the
wrap can be missed by every poll, and then the wait lasts another 71 minutes.
Both are about positive delays; of the others, a negative one ends at once, and
zero does when the counter reads 0 but hangs otherwise (`ZeroDelay`, section 5).

**command.** `TypeOK`, `AllBlocksMoved`, `ImplementsContract`,
`RemovalStopsCommands`. Every kind of command, alone or behind APP_CMD, 1 to 3
blocks with 2 as the most the register can hold, two faults anywhere, one
removal anywhere. Two faults reach an error raised while another is handled,
and an error left over for the next command. With `MaxLate = 0` the controller
ends what it began before the driver gives up: that is what the half-second
and one-second timeouts of the code are for; see section 5 for the other case.

**driver.** `TypeOK`, `TransferStateFirst`, `ReadyIsComplete`,
`WidthNegotiated`, `SwapNoticed`. All three kinds of card that the code tells
apart, five classes of buffer size, two faults, one swap and one busy answer
at any step, and a switch to 1.8V that works or not. Two faults suffice to
break the retry of a broken command; the swap can fall between any two
commands of an initialisation or a transfer. The proofs are for any number.

**driver_recovery.** `Recovers`, with a fault and a swap. Cards that ask for
1.8V are left out here, because the nesting of section 5 is for ever.

**driver_freed_device.** `DeviceKept`: the error paths of `sd_card_init` that
free `ret` (`emmc.c:1804` and after) run also when the structure is the
caller's. One lost response suffices, no swap.

**console.** `TypeOK`, `StaysInside`, `RowsBelow`, `ShowsLastLines` on a 4x4
display that the firmware had set up the same, narrower, or lower, so that
console and display differ in each direction; two colours; lines up to two
characters, so that no line fills a row of the narrowest; six rows of output,
so that every console scrolls and a scrolled line is scrolled again.

**mailbox.** `TypeOK`, `LentWhileWaiting`, `AnswerIsOwn`, `EveryCallReturns`.
Two aligned buffers (one can be left behind while the other is used), one
misaligned, mailboxes of two entries, one foreign message at a time but any
number of them over time. `CHECK_DEADLOCK FALSE`, because the system does jam
when both mailboxes are full; `EveryCallReturns` says so.

**exfat.** `TypeOK`, `TreeIsPart`, `TreeIsWhole`, `LsAnswers`,
`WalkStaysInDirectories`, `CommandsEnd`. Three volumes with four entries to a
block: a directory below a directory below the root, each of one cluster of two
blocks, with an empty directory; a root of three clusters with a deleted file
and a name of two parts; a root whose second cluster is elsewhere. Paths of
zero, one and two names, one to a file and one ending in a slash; reads of a
few bytes, of two blocks, and of blocks and a rest. A failed read can fall on
any block of any command. Failing to read the boot block leaves the superblock of
another of the three volumes or one of three overwritten ones: no blocks to a
cluster, a root inside the volume, and fields that lead before the clusters. The
volume in the slot is then read wherever these lead, well or not; `MaxLines`
(more than any of the volumes has) bounds the lines of a `tree` that finds a
directory in itself this way. `TreeIsPart`, `LsAnswers`,
`WalkStaysInDirectories` and `CommandsEnd` ask for `Own`, the volume's own
superblock, read or left from before; TLC finds each of them violated when that
condition is dropped (section 5). The properties of `tree` and `ls` are about
contiguous directories, because the reader goes to the next block and never
asks the table; the third volume is there for the rest (what is read then
depends on what lies behind the cluster). All but `CommandsEnd` are also proved
(section 4). `CHECK_DEADLOCK FALSE`: the system
stops where control is lost. `TreeIsPart` says what failed reads leave: some
directories are missing whole, nothing is out of order or doubled.

**exfat_read.** `WithinBuffer`: the first two parts of `exfat_fread` copy the
rest of the block and read the rest of the cluster whatever was asked for
(`fat.c:566`). `cat` reads 4 bytes into 4 bytes at a time.

**heap.** `TypeOK`, `OwnersData`, `MallocStateOK`, `Merged`,
`ServedIfPossible`, `IsBlockStore`. Three requests (the least chunk, a small
and a large one), up to five blocks at once, a heap of three pages of six units
and then no more, a request beyond every limit. Five blocks are enough for
every merge (free on either side, both, next to `dv`, next to `top`) with
blocks on both sides that must survive it; three pages for `top` to grow twice
and to run out. `MallocStateOK` is the check that dlmalloc has for debug
builds, which this kernel never compiles. The VIEW `WithoutStaleWords` drops
words that no chunk's head or foot accounts for; nothing reads them, so states
that differ there are one. A free of a pointer `malloc` did not return is not a
call the model makes. All six are also proved, for every size of heap, page and
request (section 4).

**functions.** `FunctionsRight`, `BestFitFound`. All memories of five bytes out
of three values, and of eight out of two (wide characters and their copies need
more room), with every start, target and length; texts of up to two letters in
both cases; numbers to 300 and at each limit of the tree index and the divider,
with five rates; thirteen pieces of formats, one for each conversion, in all
pairs, each with the text it is to print; four chunks of eight sizes for
the tries, in all orders of insertion and removal, which gives nodes with none,
one and two children, chains of up to four, and removal of a root with children
of children; the searches are asked for every size from 16 to 40, beyond the
largest, and two small ones. `BestFitFound` is also proved, for every set of
chunks and sizes of the heap (section 4).
What each function is judged by is said without reference to what the code does,
so that a right function passes as well: `memmove` by `Moved`, the divider by
the card's rate against the one asked for. Five mutants, one to each of memory,
wide characters, parsing, digits and divider, break it. SYMMETRY `AnyChunks`: chunks are model
values that nothing orders.

**kernel.** `TestsAddUp`, `WordsAreLine`, `DirectoryIsAsked`, `NoTrail`. Batches
as the code has them, but in an order of the run's own: the code begins with the
examples, whose fourth test fails for good, so that the two other batches run one
test each. Here they run before it too, with a batch that may fail in its second
test, and an empty one. Up to
three lines out of twenty-one: every command but `shutdown`, an unknown one, a
leading and a trailing space, one to three words, one longer than the buffer of
eight, absolute and relative paths, a trailing slash. Three lines are a `cd`,
one that reads over its directory, and one that uses it. The box is 2x1 on a
7x6 display with steps of two, so that it meets each edge both exactly and one
short. `DirectoryIsAsked` is about directories that no later line was read over
(section 5). The VIEW drops the counters of the tests after they were printed:
nothing reads them later, and `TestsAddUp` holds of them from then on as they
do not change. `CHECK_DEADLOCK FALSE`: after `exit`, `shutdown` or at the line
bound the system stops. The run states no liveness, as nothing makes a user
type.

Every property of a passing run has a mutant of the mapped code, next to the
definition it changes and marked "Mutant", under which TLC finds the property
violated.

### Fairness

* `Timer`: the counter never stops (weak fairness of `Tick`), and the CPU goes
  on polling (weak fairness of `Test \/ Compare`), as both are loops without other
  exits.
* `SdCommand`: the CPU runs on, and the controller ends what it has begun. The
  code relies on the second in its waits for the inhibit bits, which have no
  timeout.
* `EmmcDriver`: a call that was entered is carried on. For `Recovers` only: a
  caller asks for the device until there is one, and then again and again for
  blocks (strong fairness, as calls are enabled only between calls), and the
  card is put back. These are about callers and the user, not about the driver.
* `Mailbox`: the CPU runs on and the firmware answers what it is sent.
* `ExFat`: a command that was entered is carried on; a block read ends, well or
  not, which is what the timeouts of the driver give it.

## 4. Proofs

All theorems are about `Spec` (`BestFitIsFound` about `BinSpec`), for every value
of the constants that satisfies the named assumption of the module. Each is
proved from an inductive invariant: it holds initially, every action keeps it
(one step or lemma per action), and it implies the property.

| theorem | what it adds to TLC | strengthening |
|---|---|---|
| `TimerProofs!TypeCorrect` | every counter width | `TypeOK` is inductive, with facts about `Wrap` and `RegisterTimer` |
| `...NeverEarlyCorrect` | every width, delay and poll gap | `Clock`: until the counter has wrapped since registration, it is `elapsed` past the registration value; after that, more time has passed than was asked for |
| `...PromptCorrect` | same | `OnTime`: while a wait for a positive delay with room before the wrap goes on, the counter has not wrapped, the mark for the wrap is not set, and the wait is past its deadline by less than the time since the last poll |
| `SdCommandProofs!TypeCorrect`, `RemovalStopsCommandsCorrect` | any calls, blocks, faults, late answers and removals | `Place`: what must be so where the driver is (it has a command to send; in the loop blocks are left; a recorded removal keeps it before the sending); a block is offered only when some are left |
| `...AllBlocksMovedCorrect` (assumes `MaxLate = 0`) | any calls, blocks, faults and removals | `Punctual`: between commands the controller is at rest and INTERRUPT holds at most a removal when a command is sent (`Settles`, `Clears`); an error or the end of a transfer is the last of a command (`Ends`); what was read is still set, and what had not come by then will not (`Reads`); driver's and controller's counts add up (`Counted`) |
| `...ImplementsContractSafely` (assumes `MaxLate = 0`) | same | `Punctual`; each step of `SdCommand` is then a step of `SdContract` or none |
| `EmmcDriverProofs!TypeCorrect` | any number of faults, swaps, busy answers | `TypeOK` and `retry_count < 3` within a transfer |
| `...TransferStateFirstCorrect` | same | none but the types: what disturbs the card after its status was read is a removal, and that stays pending until a command has failed by it |
| `...WidthNegotiatedCorrect` | same | `WidthInv`: from the power cycle to ACMD6 the host drives one line; when it drives four, the card was told so or is one that was never initialised, and an idle card is in no transfer |
| `...ReadyIsCompleteCorrect` | same | `PartsInv`: which fields are filled in at each step of the initialisation; outside it the address vouches for the other two |
| `...SwapNoticedCorrect` | same | `SwapInv`: from the swap to the failed call a removal is pending or recorded, or the new card was never initialised; no initialisation comes in between, as only a failed call forgets the address |
| `ConsoleProofs!TypeCorrect`, `RowsBelowCorrect`, `StaysInsideCorrect` | every display and line length | `NeverWraps` (the column is the length of the line), the console has a size the firmware had set up, it was set up before the display was switched on, and the three properties together |
| `...ShowsLastLinesCorrect` (the whole of the refinement of `Terminal`) | same | those, and `Unwritten`: nothing is written before the screen is on; `EmptyBelow`: below the line being written the display is empty, so that a new line starts blank |
| `MailboxProofs!TypeCorrect` | every number of buffers, requests and entries | `TypeOK` |
| `...LentWhileWaitingCorrect`, `...AnswerIsOwnCorrect` | same | `Loan`: while a call waits its buffer is at exactly one of three places (sent, in work, sent back); otherwise nothing is lent. `Done`: an answered buffer holds the answer |
| `ExFatProofs!TypeCorrect` | every volume, foreign superblock, size of block and read, every outcome of reads and table | for the stream `StreamInv`: what is loose is less than a cluster before the whole blocks are read and less than a block after them, and the rest of a cluster starts behind its first block; for the walk `WalkInv` |
| `...WalkStaysCorrect` (assumes `SoundVolumes`) | same, any depth of directories | `WalkInv`: the reader stands at an entry of a directory, within a set at its file entry, and every directory on a list leads to one; from there `Advance` and `SetInside` |
| `...LsAnswersCorrect` (assumes `FormattedVolumes`) | every volume and path, with the volume's superblock (`Own`), failures at any read | `ReaderRight`: the reader's list is that of the directory's files up to where it stands, or a read has failed and it is empty; `LsRight`: the names followed so far lead to the directory being read; `CatInv` |
| `...TreeIsPartCorrect`, `...TreeIsWholeCorrect` (assume `TreeVolumes`) | same, any depth and number of directories | `ReaderRight` and `TreeRight`: the walk stands at a place in the tree, its stack and list are what is left of the directories above and of this one, and what it has printed are nodes it has passed, in order, and all of them unless a read has failed |
| `KernelProofs!TestsCorrect` | any batches of any tests | `Verdict`: a cancelled batch comes with a failure, and a failure with it; the loop is within a batch that exists |
| `KernelProofs!BoxClean` | every display and box the assumption allows, any keys for ever | `BoxOK`: the box keeps a column and a row off the far edges, which is what makes every rectangle fit; before it is drawn only its place may be lit |
| `...TestsAddUpCorrect`, `...NoTrailCorrect` | the same within the kernel, any lines typed | every step of the kernel is a step of the part or leaves its state alone |
| `...WordsAreLineCorrect`, `...DirectoryIsAskedCorrect` | a line buffer of any size, any sequence of lines of any characters | `ShellIInv`, see below |
| `MallocProofs!HeapAlways` | any page, memory and foot size, any requests, any number of blocks | the inductive invariant itself, see below |
| `...TypeCorrect`, `...OwnersDataSafe`, `...MallocStateCorrect`, `...MergedAlways`, `...ServedAlways` | same | `HeapInv` |
| `...BlockStore` (the whole of `IsBlockStore`) | same | `HeapInv`: blocks within their chunks and chunks that tile the segment are disjoint |
| `...BestFitIsFound` (of `BinSpec`, the tree bins by themselves) | any chunks, any sizes the heap can have, any size asked for | `BInv`: every size lies on the path of its bits, in its bin, and each path but the root's hangs on one that is there (`Trie`, `Closed`); a chain holds one size, the oldest first (`Chain`), and no two nodes of a trie are of one size |

**The heap's invariant.** None of the five properties is inductive: they look at
the heap by walking it, and a call that splits, merges or moves chunks changes
the walk. `HeapInv` says there is a set `K` of chunks such that (`Heap`) they
tile the segment from base to top, no two free ones side by side; every in-use
bit and every foot agrees with the chunk before (`Geometry`); those in use are
the callers' (`UsedIn`); and every other one but `dv` is in the bin of its size,
once, and nothing else is in a bin (`Indexed`); and that each block fits its
chunk and holds what its owner wrote (`Stored`). Before the first call there is
no segment, which `HeapOK` has as its other case. The argument is in layers, each a
few lemmas of `MallocProofs`:

1. *Words*: what each macro on heads and feet changes, field by field, and what
   stays of a block that is not touched (`Kept`).
2. *Chunks*: replacing one chunk by two, or two by one, keeps a tiling
   (`Reshape`), whatever the macros in use; inserting into and unlinking from a
   bin adds and removes exactly one.
3. *Calls*: each way through `dlmalloc`, `dispose_chunk` and
   `try_realloc_chunk` leads from a `Heap` to a `Heap` with one block more,
   less, or resized, and keeps the rest. These are statements about the
   operators, for any heap, and not about the state machine, so that
   `dlrealloc`, which calls the other two, uses them as they are
   (`MallocAnswered`, `DisposeFreed`, `ReallocOK`).
4. *Properties*: the walk from the base visits exactly the set `K`. `Walk` is
   a recursive function; that there is one with that recursion, and that it
   collects the chunks, is shown by the least place where it would not
   (a least counterexample, since the library's induction theorems cannot be
   used here).

The proof found one assumption that was missing: a request has to be below
`MAX_REQUEST`, or `ServedIfPossible` fails for it (`MallocAssumption` now says
so, as `Huge` stands for all the others).

**The walk's invariant.** The reader counts entries from the first cluster of a
directory and turns the count into a block. `Inside(v, s, i)` says that entry
`i` counted from cluster `s` is in some cluster of a directory; `EntryPlace` and
`EntryShift` work out the division of `exfat_read_directory_entry` and show
that it finds the entry that lies there. `Advance`: an entry that is not the end
is followed by one that is inside, in the same cluster or at the start of the
next, because the last cluster of a directory is not full. `SetInside`: so are
all entries of a file set and the one behind it. With the reader at an entry
that is inside (`PlaceOK`) each step reads a block of a directory, whatever
reads failed before, and a directory that is listed can be started at: the lists,
`it` and `chain` hold nothing else, which is what `tree`'s stack needs.

**What ls and tree show.** Three things have to meet: what is on the volume
(`Contents`, by the table), what a reader returns, and what the commands do with
it. First, up to a directory's end the clusters of its chain follow each other
(`ChainInLine`: the last one is not full, so whoever is at its end has met the
end marker), hence entry `i` by the table is entry `i` by counting blocks
(`EntryFound`), and there is a first end marker (`EndExists`). Second, the list:
`ListRight` relates the reader at each of its phases to `FilesBefore`, the files
whose sets begin before where it stands, name parts included (`PartsNext`); on a
formatted volume only a failed read makes it give up (`StopFailed`). Third, `ls`:
`Reached` says that a sequence of directories, each led to from the one before
by a name of the path, ends at the one being read; there is only one such
sequence (`OneWay`), so that an error means there is none. Fourth, `tree`: a
place is a path `p` from the root and a number `q` of files passed in the
directory it leads to. `Past(n, p, q)` says a node is on the path, before it, or
below something before it. Printing a file or entering a directory adds exactly
that node to what is passed and it comes after all of it (`PastBefore`,
`IntoPast`, `OverPast`); leaving directories of which nothing is left adds none
(`PastUp`, `DownPast`: `Resume` may leave several at once); at the root's end
every node is passed. That a path is no longer than there are directories
(`PathShort`) is where the tree has to be one: with the heights of `IsTree`.

**The tries.** `BestFitFound` compares what the searches find with what is
binned, whatever nodes earlier removals have moved. First the numbers:
`compute_tree_index`, branch free, finds the highest bit of a size
(`ByHighestBit`: by cases on the three shifts), so that a bin is a range of
sizes, larger bins hold larger sizes, and sizes of one bin differ only in the
bits of their paths (`SameBits`, `LessByBit`). Second, `BInv`: an insertion
extends a trie at the first free place of the path; a removal closes a chain, or
takes the rightmost leaf, which leaves nothing hanging, and whose sizes lie on
the path of the node whose place it takes, as they lay below it: so every size
stays on its path (`InsertTrie`, `UnlinkTrie`). The order of sizes within a trie is not an
invariant, and is not needed. Third, the searches: the leftmost way down from a
node passes the least size below it, since where it turns right nothing is on
the left; and what fits and is not on the walk along the bits of the request is
to the right of it, the least of it below the right child passed by last. In the
next bin everything fits. Steps of `Library` are steps of `BinSpec` or leave the
bins alone, so the theorem holds of the run's specification too.

**The shell's invariant.** `BufferOK`: the byte behind what may follow the line
buffer is a NUL, so that `strlen` ends for every address in it, words are such
addresses and cutting at a delimiter keeps this. `LineOK`: from the reading of a
line that fits to its splitting, the buffer holds just the line and a NUL. The
splitting is followed step by step (`Splitting`): what lies before the next
word's start is the line with its spaces cut and holds the starts of the words,
each behind a space; after `Cap` steps no space is left, as each one found took
a cell (`TokensSplit`). The words and spaces are then slices of the line that
follow each other (`WordIs`, `FlattenSlices`). `WdirOK` and `AskedOK`: the
directory is a text of its own, or begins with a slash in the buffer, and is
lost when a line is typed. Names are counted by where they start:
`NamesGlue` (the names of a path that ends in a slash and of what follows it are
those of the two) and `NamesSlash`, `NamesFront` (a slash at the end adds none)
are what `cd` needs for all ways to write slashes (`RelativeNames`).

Assumptions: `TimerAssumption` (delays are shorter than one turn of the
counter: at most 2^31 of 2^32), `CommandAssumption`, `DriverAssumption`,
`MailboxAssumption` and `BatchesAssumption` (constants are of their types),
`ChunksAssumption` (the heap starts below its limit and not at address 0; page,
top's foot and the least large chunk have a size, and a chunk of the least size
is small), `TreeBinAssumption` (section 2), `MallocAssumption` (requests are below `MAX_REQUEST`, and `Huge` is
what is not),
`VolumeAssumption`, `GarbageAssumption` (the fields of an overwritten superblock
are numbers, any), `FileAssumption`, `ExFatAssumption` (a block holds whole
entries; a block and a cluster, 32 MB at most, are less than `size_t` counts),
`VolumesAssumption` (the fields of a volume are numbers, a file entry announces
at least one more),
`ConsoleAssumption` (the console is not larger than the display it is used on
and keeps at least one row), `GraphicsAssumption` (the box fits the display with
room for two steps), `ShellAssumption` (the buffer has a cell; lines and what is
behind the buffer hold no NUL, which ends them), `KernelAssumption`; TLC evaluates them in the runs. The console's theorems also
assume `LinesFit`, the condition without which the rows below are not kept free
(section 5). `SoundVolumes` is the hypothesis of `WalkStaysCorrect`, and TLC's
volumes satisfy it (`VolumesSound`): on a volume whose directories are contiguous, a file set is
not cut off by the end of its directory, and the set of a directory, a deleted
one too, leads to one; the code checks neither, and takes what it finds. The
volume whose directories are scattered is one the theorem says nothing of, as
the property does not. `FormattedVolumes` is the hypothesis of
`LsAnswersCorrect`, and `TreeVolumes` of the two about `tree`, and TLC's volumes
satisfy them too: a volume with contiguous directories also fits on the card,
its entries are of known types and a set is a file, a stream and names; and for
`tree`, no directory is below itself. A volume that breaks one of them makes the
reader give up without a failed read, or `tree` run for ever; the code checks for
the first and not for the second. `VolumeOK` says a volume has finitely many
directories, `ExFatAssumption` that the paths typed are sequences. The two theorems with `MaxLate = 0` are about a controller that
ends what it began before the driver's timeout.

Model-checked only: everything temporal beyond safety (`PlainWaitEnds`,
`Recovers`, `EveryCallReturns`, `CommandsEnd`, the liveness part of
`ImplementsContract`), because liveness under fairness is out of the prover's
reach; and `FunctionsRight`, which is about recursive functions on every input
of a bounded set.

## 5. Known behaviours without a run

Seen while modelling, and left in the models as they are:

**Timer, SD, mailbox, console**

* `usleep(0)` hangs: `register_timer` compares `trig > cur_timer`
  (`timer.c:42`), which is false for a delay of zero, and marks the wait as one
  across the wrap; it never ends, unless the counter reads 0 at that moment.
  `ZeroDelay` names it. No caller asks for it.
* A wait across the counter's wrap never ends by itself: `compare_timer`
  (`timer.c:59`) clears `rollover` in its own copy, so `usleep` across the wrap
  does not return and a `TIMEOUT_WAIT` ends only by its condition.
  `PlainWaitEnds` leaves these waits out.
* A transfer is reported successful although the controller has broken it off,
  if that was before the driver looked at the data line: with a free line all
  errors are cleared together with "transfer complete" (`emmc.c:986`).
* `sd_card_init` nests for ever for a card that accepts 1.8V and never completes
  the switch: `failed_voltage_switch` is cleared by the `memset` of the nested
  call (`emmc.c:1697`, 1516).
* A line that fills its row wraps into the rows to be kept free:
  `console_next_pos` scrolls only past the last row of all (`console.c:196`,
  `config.def.h:14`).
* The last word of a mailbox value is never prepared: `buf_max` (`mbox.c:85`)
  is the index of the last word, and the loops stop before it. Setting a depth
  or blanking the screen sends what was in the buffer before, which explains
  `main.c:104-105`.
* `register_timer` returns trigger 0 for a counter that reads 0 and for a
  deadline exactly on the wrap (`timer.c:38`): the wait is over at once.
  `Degenerate` names these waits.
* `TIMEOUT_WAIT` "checks the stop_if_true condition every usec micros until it is
  true" (`timer.h:44`); it checks in every turn, for `usec` at most, gives no
  result, and the condition may come true between its last test and the end. Its
  callers look again: `SdCommand` has those looks as steps of their own.
* A completion that arrives after the driver gave up is taken for the next
  command's (`emmc.c:872`): nothing clears INTERRUPT before a command is sent
  but `sd_handle_interrupts`, before the application command prefix. With
  `MaxLate = 1` TLC finds `ImplementsContract` violated.
* Re-initialising a structure wipes its pointers `device_id` and `scr`
  (`emmc.c:1516`); both blocks are lost, and since a multiple-block write
  leaves the card receiving, the call after each such write does so.
* A nested `sd_card_init` that succeeds returns 0 while the caller's pointer
  stays null (`emmc.c:1699`); `UseBadPointer` is what callers do next.
* `kernel_main` passes an uninitialised pointer to `sd_card_init`, which
  writes through it unless it is null; `Init` has both.
* The console is sized by the display that the firmware had set up, and the
  display is made 640x480 afterwards (`main.c:93`, 186-206). A larger firmware
  display leaves the console larger than the screen; `ConsoleAssumption`
  excludes it.
* A second temporary colour before the first is reset replaces the colour to
  return to (`console.c:79`); no caller does it.
* `set_rectangle` advances its offset before it writes, so a rectangle lies
  one pixel to the right; erasing the last row of a full-width console writes
  one pixel behind the buffer (`fb_pixels.c:70`). The model is in cells and
  does not see it, and so `StaysInside` does not speak of pixels.
* After a wait ended on a foreign message (`gaveUp`), the firmware still has
  the buffer. Its answer ends the next wait on that buffer early, and if the
  buffer is refilled meanwhile even `mbox_call_raw` can report a success with
  a value that is not the answer. Answers nobody takes fill both mailboxes in
  the end, and then CPU and firmware wait for each other. TLC reaches both
  when the conditions are dropped from the properties.
* `mbox_call_raw` returns true, false, or an error code for misalignment that
  is not 0 and passes for true where callers test `if (!mbox_call_raw(...))`.
  The model keeps the three apart. `power_off` uses a buffer that nothing
  aligns.
* The response bit of a tag is never looked at: an unknown tag succeeds with
  its value unchanged. `AnswerIsOwn` therefore speaks of known tags.

**File system**

* A fragmented directory is not followed, deleted files are listed, and names
  of more than 15 characters are cut unless the low byte of their first cluster
  is 0. One failed read turns a whole list into none.
* Nobody looks at what `exfat_read_boot_block` returns (`util.c:15-19`, 65,
  `shell.c:276`), although `ls` means to "scan from the root of the
  filesystem" (`util.c:12`). After a swap of cards the driver fails exactly the
  next read, which is the boot block's, and the reads after it work, with the
  superblock of another volume or an overwritten one: `ls` may list another
  directory or file data, and `tree` may find a directory in itself and never
  end. A block of file data is read as entries of unknown type here,
  which ends the list, whatever the bytes would give.
* A set without a name, or with entries of other kinds for its names, shows what
  the union it is read into happens to hold (`fat.c:374-389`).
* A failed read of a file copies what the block buffer held before
  (`fat.c:567`, 628).
* A file that ends within a cluster makes the size left wrap below zero, and
  `cat` then goes over all clusters of the address space; `SizeMod` makes that a
  few rounds in the run.
* `cat` with a slash in its argument loops for ever; on an empty root it uses a
  null pointer.
* `exfat_fread` reads each later block of a cluster from the first one again;
  its last piece is copied a block further than it belongs; a size above what is
  left wraps. The look-up in the table mixes bytes and words.
  `exfat_read_cluster_to_buf` always returns EINVAL.
* `exfat_fopen` copies only `struct block_device` out of the driver's larger
  structure and reads through the copy; `exfat_fclose` loses `super` and `bd`.

**libc, printf, clock**

The models say what these do, and `FunctionsRight` is about other inputs:

* `memmove` ("Copy memory area", `string.c:87`) overwrites an overlapping source
  that its target lies behind, which its first case takes for "no problem"
  (`string.c:92`), and for a target that ends before the source its second loop
  runs away. Nothing calls it.
* `memcmp` ("Compare memory areas", `string.c:62`) leaves its loop at the first
  difference and is 0 for all areas; it is not modelled. `strnlen` counts one more than the size it
  is given when that ends its loop.
* The SD clock is faster than its target ("set the clock dividers to generate a
  target value", `emmc.c:625`) when base/target is not exact and its whole part,
  or that less one, is a power of two above 1: the quotient is made one less
  before it is rounded up.
* `str_from_wchar` counts one too many when stopped by `n`, as `strnlen` does.
  `strcpy` and `strncpy` copy no terminator. `strcasecmp` is 0 when its
  first string is a beginning of the second.
  `strtok_r` needs a delimiter after the token and skips none before it.
* `printf`: `*` takes no argument; an unknown specifier prints like `%d` and is
  not consumed; `%f` prints an integer; `hh` and `h` mask without extending the
  sign; `%c` and `%lc` have their masks the wrong way round (`printf.c:472`);
  `%#x` of 0 is `0x0`; width, precision and justification are parsed and not
  used; a null string counts for -1.
* For a target between half the base clock and the base the divider gives its
  largest divisor.

**Heap**

* `alloc_buf` starts beyond its own limit and always returns 0; nothing calls
  it. `sbrk` has no lower bound for a decrement. 

**Tests, shell, kernel**

* The comments on the cancel flags in `test.h` contradict the code:
  `cancel_batch` is never consulted, and `cancel_now` is never reset, so that
  after a fatal failure each later batch runs one test and skips the rest. The
  batch of `malloc` runs three of its six functions.
* A line that fills the buffer has no terminator; the error is ignored, the
  rest is executed as the next line, and the words end where memory happens to
  hold a zero. The copy that is made of the line (`shell.c:59-61`) is then
  written past its heap block, which has the size of the buffer; `Split` leaves
  the copy out, as nothing but its release follows. A trailing space depends on
  the byte behind it.
* The directory after an absolute `cd` is a piece of the line buffer, and the
  next line is read over it. `args_argv` and the old directory are never freed.
  `cat`'s copy of its path has no terminator, and `ls` joins directory and path
  without a separator.
* `graphics` ignores the result of `fb_dims`, never clears column 0, and its
  frame hangs when the deadline lies across the timer's wrap. `graphics` leaves
  the loop only by a key.
* `calls.S` lets the number `__NR_syscalls` itself through, one past the table;
  `kernel_main` never uses it.

## 6. What is not modelled, and why

* Boot: one straight sequence before any C code runs. Exception vectors: the
  saving of registers, without state of its own worth a machine.
* UARTs, MMIO: single register accesses. Fonts: data.
* A change of cards while a file system command runs: `vol` stays until the
  command ends; what a swap does to the reads is a failed one at any point.
  Between commands, another card is what `Leftovers` brings in.
* Of the allocator: `mmap`, locks, mspaces, segments that are not contiguous
  (compiled out or never reached here), the return of memory to the system (it
  needs 2 MB in `top`, and `MAX_BRK` leaves less than 1.5 MB in all),
  statistics, `calloc`, `memalign` and the bulk calls (no caller). `alloc_buf`
  (no caller). An allocation that fails in the middle of another component is
  not modelled; callers of `malloc` in the drivers appear with blocks by who
  points to them.
* Of libc: `memcmp` (section 5), `memccpy`, the table of `strerror`, and the functions that only
  return NULL or 0.
* Of the power-off: the register writes after its mailbox calls, which never
  return.
* Within modelled parts: clock rates and voltages (only success and failure),
  contents of blocks (only that each was moved), the background colour (set
  once before the screen is on), null pointers to mailbox calls (no caller
  passes them), time stamps and attributes of files, the wording of messages,
  the rectangles' colours and the digits of `clock`, the two SDMA and
  card-interrupt branches of `emmc.c` that are compiled out.

## 7. Plan

Done, in this order: `Timer`, `SdCard` with `EmmcDriver`, `SdContract` with
`SdCommand`, `Terminal` with `Console`, `Mailbox`; then `Volume` to `ExFat`,
`Chunks` and `Malloc` with `Blocks`, `TreeBin` and the functions in `Library`,
`TestRunner`, `Shell`, `Graphics` and `Kernel`; the proofs of section 4, those of
the heap last.

Left:

1. The tries of `TreeBin` shown to implement the ordered bins of `Chunks`, which
   `BestFitIsFound` is the main lemma of: both take the oldest of the smallest.
2. `FileStream` on top of `EmmcDriver`'s outcomes: which reads of a stream see
   data of a card that was swapped.
