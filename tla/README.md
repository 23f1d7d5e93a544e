# Formal models of TUI-OS

TUI-OS (`os-tui/`) is a small operating system for x86 PCs written in Rust: a
kernel that runs one program at a time in text mode, with a file system of its
own (MFS), an ATA driver, a network stack on top of smoltcp, and a desktop and a
terminal that run in the kernel. This directory holds TLA+ models of its parts,
the TLC configurations that check them on small instances, and theorems about
them that TLAPS checks for every value of the constants.

Paths below are relative to `os-tui/src/`. Arithmetic is that of a release
build (the one the Makefile makes): unsigned integers wrap and
`debug_assert` is not there.

## The system

| Part | State it keeps | Operations | Interacts with |
|---|---|---|---|
| Block device, `sys/fs/block_device.rs` | `BLOCK_DEVICE`: none, a vector in memory, or an ATA drive and a direct-mapped cache | read, write, mount, format, dismount | called by `Block`; calls the ATA driver |
| Blocks, `sys/fs/block.rs` | a copy of one block | read, write, alloc; for linked blocks next, alloc_next | files, directories and bitmap are made of them |
| Allocator, `bitmap_block.rs`, `super_block.rs` | bitmap blocks, `alloc_count` in the superblock | next_free_addr, alloc, free, inc and dec_alloc_count, data_area | `Block::alloc`, `File::write`, `Dir::delete_entry` |
| Files, `file.rs` | a handle: copies of first block and size, cursor, resume point | open, create, seek, read, write, close, delete | allocator, the entry in the parent directory |
| Directories, `dir.rs`, `read_dir.rs`, `dir_entry.rs` | packed entries in a chain of blocks | create_entry, find, delete_entry, update_entry, update_size | allocator, parent directory |
| Mount and seed, `fs/mod.rs` | the mounted device, the first files | init, seed_root, open, delete, info | boot |
| Devices and pipes, `fs/device.rs`, `fs/pipe.rs` | a kind of device, a byte queue | read, write, poll | drivers |
| ATA, `sys/ata.rs` | `BUSES`, the drive last selected | read, write, identify, the raw drive device | two I/O ports; the block device |
| Memory, `sys/mem/` | frame bitmap and hint, page tables, heap | allocate_frame, deallocate_frame, alloc_pages, free_pages | page faults, `spawn` |
| Processes, `sys/process/` | table of 32, current process, handles | spawn, exec, exit, handles | system calls, memory |
| System calls, `sys/syscall/` | none | dispatch and the services | processes, files |
| Interrupts, `idt.rs`, `pic.rs` | handler table, masks | set_irq_handler, dispatch, masks | clock, keyboard, cards |
| Keyboard and console, `keyboard.rs`, `console.rs` | three key queues, modifiers, the input ring, echo and raw flags | interrupt handler, read_char, read_line, poll | interrupts, processes |
| Clock, `sys/clk/` | tick counters, CMOS registers | rtc, update_rtc, epoch_time, sleep, timer and RTC interrupts | interrupts |
| Network, `sys/net/` | rings of three cards, sockets of smoltcp | transmit, receive, connect, read, write, close | memory, interrupts |
| Display, `sys/vga/` | cursor, colours, escape parser | write, scroll, palette, font | console, desktop |
| Sound, `sys/snd/` | what the header announced, the driver's queue and blocks | write, stop, the cards' interrupts | files write to it |
| Desktop, `usr/` | open application, dock, the terminal's line, log and history | keys, commands, drawing | keyboard, files, display |
| Library, `api/` | a prompt's line and history; a regular expression | line editing, completion, find | console, display |

PCI, ACPI, the log, random numbers and the speaker are sequences of register
accesses or small sequential pieces.

What is hard in it:

- *Failure.* The drive may fail at any access, and `Block::read` answers a block
  of zeros then; a write that failed may have reached the medium. Nothing is
  journaled: the machine may stop between any two writes of blocks, and
  Ctrl+Alt+Del resets it from the keyboard interrupt, in the middle of any of
  them.
- *Copies.* The cache copies blocks, each handle copies size and place of its
  file, a resume point remembers where in the chain the cursor was.
- *Limits.* Full disk in the middle of a write, entries that end exactly at the
  end of a block, the bitmap at the sizes where it needs one block more, rings
  and tables at capacity.
- *Interrupts.* The only concurrency: interrupt handlers against the code they
  interrupt, on the CMOS ports, the key queues and the locks.

What makes each part correct:

- block device: a read returns what the last good write put there;
- allocator: no block is in two chains or handed out while in one, the count is
  the bitmap's, no block past the end is used, "full" means full;
- geometry: the answer fits, and there is one;
- files: a file is a sequence of bytes whatever the handle remembers, and a
  failed write loses and shares no block;
- directories: a set of files with different names, whatever was created and
  deleted around them;
- start of the file system: wherever it was cut short, the next start finds or
  makes a drive that can be written to;
- ATA driver: a command that succeeds moved the blocks it was called for, however
  late the drive answered the one before; a call ends;
- memory: a frame is handed out only while nobody has it, every whole frame of
  usable memory can be, and the search misses none;
- processes: what a process took goes back when it ends or fails to start, an
  exit comes back to the process that spawned it, with all that it had, and a
  pipe loses no byte to a handle that is closed;
- interrupts: none is lost or left in service, before the drivers are up or after;
- keyboard and console: what is typed is read and shown, a line that ends wakes
  its reader, no modifier sticks;
- clock: a time that is read was one, a sleep ends, dates count days;
- cards and sockets: packets pass once and in order, a call's answer is so;
- sound: bytes are heard in order, and the sound ends;
- display, prompt, desktop: the screen is the window on the text, shows the line
  that Enter would return, and what the keys did before the processor halts;
- commands: cp, mv and rm leave the files alone that they are not about.

## The modules

`BlockStore` is what MFS is promised of its device: a map from addresses to
blocks. A write that answered `Err`, or that went to the raw drive, is in
`limbo`: it may come to light with any later access.

`BlockCache` is `AtaBlockDevice`: `disk` the medium, `cache` its slots. A call is
one step because `BLOCK_DEVICE` is behind one mutex and nothing preempts its
holder. `ReadHit`, `ReadMiss` and `ReadFails` are the outcomes of `read`, `Write`
and `WriteFails` those of `write`, `RawWrite` is the drive written through its
device, `Mount` is `mount_ata`. `suspect` is a history variable: the addresses
written without the cache's knowing. The module implements `BlockStore` under
the mapping `store[a]` = what a read of `a` returns now, `limbo[a]` = what the
medium has where that differs.

`BlockAlloc` is the allocator with the callers' order of writes. Each write of a
block is a step (`Alloc` sets the bit, `IncAllocCount` writes the superblock,
`Zeroed` the block, `Link` the block that points to it), so that `Crash`, which
drops the operation under way, can come between any two. `Cut` to `WriteLast` is
a truncating `File::write`, which frees the tail before the block before it stops
pointing there; `Delete` to `Deleted` is `delete_entry`, which takes the entry
out first. `held[f]` is the set of blocks reachable along a chain of the medium.
The chains are sets here; their order is in `MfsFile`. The history variables
count what stops and double frees did, so that the invariants say what holds
after them, and not only of machines that never stop. The bits are those of the
blocks the bitmap has (`Bitmap`). The scan may go on past them, over the root
directory and the blocks after it; when it finds and sets a bit there
(`AllocPastBitmap`) what the disk says afterwards depends on its data, and the
model ends (`astray`).

`SuperBlock` is the loop of `data_area`, one turn a step, over u32.

`FileStore` is what `File` promises: sequences of bytes and positions; a write
ends the file where it stops. `MfsFile` is `File` over chains of blocks: `disk`,
the `entry` of each name, and `handle`, the struct itself with `resume_index` and
`resume_addr`. A call is one step. `Write`, `WriteDiskFull` and `WriteNothing`
are the outcomes of `File::write`; `WriteStart` is its jump to the last block,
`Written` its loop. A name open in one handle is not opened or deleted by another.
`Ordinary` leaves out the last two; `RoomSpec`, `FullSpec` and `Spec` are the
behaviours without them, with the full disk, and with both.

`DirStore` is what `Dir` promises: a set of files with different names, and the
sum of their entries' lengths. `MfsDir` is one directory: a chain of blocks with
packed entries, of which `ReadDir::next` does not see one that ends with the
block (`Seen`), and with what is left of an entry that a shorter one was written
over (`junk`). `Create` and `CreateFails` are `create_entry`, `Delete` is
`delete_entry` with its `last_block_addr`, `Update` is `update_entry`. Bytes are
abstracted to lengths; a file is its first block.

`FramePool` is what a frame allocator promises: the lowest free frame, or none if
there is none. `Frames` is the part of `BitmapFrameAllocator` that runs all the
time, `bitmap` and `next_free_index` over indices; `FrameMap` is the part that
runs once, `init`, with the numbering of frames (`index_to_frame`,
`frame_to_index`) that every call goes through. A turn of the loop of `init` is a
step. Sizes and addresses are small numbers in units of the configuration's own
page and byte sizes.

`Process` extends `Frames`: the process table, the process that runs (`id`), and
in `op` the `spawn` or page fault under way. `Spawn` is `create` up to `load`,
`TakeFrame` to `MapFails` are `alloc_pages` with the `map_to` of the x86_64 crate
below it (external: `TablesOf` are the page tables of a page's path), `Loaded` and
`Mapped` go on through `exec` and `copy_args`, `SpawnFails` and `Exit` call
`free_process`. Everything from `create` to `iretq` runs without another process
in between; the steps are split where `allocate_frame` may say no, because each
place has its own way out. `free_process` unmaps the region of the process and
has the crate free the page tables that leaves empty, which is all of them:
nothing else is mapped there. Process 0 is the kernel itself; it takes no frames
after boot and never exits in this fork. `leaked` is a history variable.

`Handles` is what a process has beside memory: `table` is `PROCESS_TABLE` with
handles, directory and saved registers, `pipes` the bytes of each pipe. `Open`,
`Read`, `Write`, `Seek`, `Close`, `Dup`, `Spawn` and `Exit` are the services of
`sys/syscall/service.rs` with the handle functions of `process/table.rs`;
`BackedUp` and `Restored` are what the handler of the system call does with the
registers. `put` and `spawned` are history variables.

`FsBoot` is `init`, `format_ata` and `seed_root`: a drive is its signature, its
names and what is marked. `Stop` may come at any write; `misread` and `halfway`
are history variables, of the drives of which a superblock could not be read and
those whose format was cut short. A name takes a block; `SeedFails` is a
`create_dir` or `write_file` that finds none, which is logged and passed over, and
`SeedThere` one whose name is there from an earlier start. Between two starts the
user fills the disk, creates files, and deletes those and `bienvenida.txt`, after
which the next start seeds again. `Ata` is the bus: `unit` is the drives' side of
the registers (external), `dev` and `last_selected` the two places that say which
drive is selected, `call` and `buf` the command under way. The steps are the
accesses at which a drive may be in another state: each poll, the selection, the
command, a sector. A poll may be given up at any time.

`Interrupts` is `pic.rs` and `idt.rs` with the order of `lib.rs`: `Boot` goes
through it, `Raise` is a device that asks, `Acknowledge` and `Spurious` are the
controllers and the processor, `irq_handler` the handlers of the 16 lines, with
`eoi`. The masks, the requests, what is in service and the offset of the vectors
are the controllers' registers.

`Console` is `console.rs`: `stdin`, the flags and the reader's place in
`read_line` or `read_char`, where every flag and every `hlt` is a step. `Keyboard`
extends it with the driver: `obf` is the controller's buffer, `Scan` a turn of
the handler's loop, `SendKey` a key it sends on; `held` are the keys the user has
down, `down` those the decoder thinks are. `Clock` is the CMOS with its two ports
(`selected`), `Rtc` and `Reading` the calls of `cmos.rs`, the timer and RTC
handlers, and `Sleep` and `Look`, which are `sync::sleep`. `Calendar` has the
arithmetic of `epoch.rs` and `rtc.rs` with the conversions to BCD and back, and
walks the days.

`Nic` is the three drivers behind `EthernetDevice`: `tx` and `dsc` are the rings
with what each side knows of them; `Fill` and `Transmit` send, `receive_packet`
hands up, the cards' steps are external. `Sockets` is a TCP or UDP socket with
one call at a time; smoltcp is `Polled`, external: what a poll may make of the
socket. `SoundCard` is the sound device with both drivers: `StopAndPlay` and
`Play` are what a write does, `PlayBlock` the card (external).

`Writer` is the text screen as operators on a record, `write_str` and
`csi_dispatch` at their top; `Screen` puts any sequence of symbols on it, `Prompt`
a line editor. `Prompt` keeps all of the struct (`p`: line, offset, completions,
history, cursor) over a `Writer`. `Regex` is `find` and `rfind` with the
recursive `match_here` and `match_char` below them, and beside them what the
expressions mean (`Beginnings`, `MeantEnd`). `Desktop` is the loop of `Desktop::run` with the
queue that `push_decoded_key` fills in the interrupt, `handle_key`, the dock and
the terminal's line. `Shell` extends `MfsFile` with the commands of the
terminal, a piece of a copy at a time.

Operators with the comment *Mutant* before a definition are variants of it with
a bug; no specification uses them. They show that the property they are paired
with in `PROJECT.json` notices such a bug.

## The runs

A run whose name is not that of one module has several parts side by side, which
share no state: its `part` says which one walks while the others rest, so that
the run explores the sum and not the product of their states.

| Run | Instance | What it shows |
|---|---|---|
| `block_alloc` | 3 data blocks in a bitmap block of 4 bits, a scan of 8, 3 chains, 2 stops | `Consistent` (the count is the bitmap's but for the stops, no block in two chains, none past the end in use), `FullIsFull`, `NeverHandedOutTwice`. There is a bit past the device, and a bitmap block too many in the scan, as on the Makefile's disk. One stop reaches every cut point; after two the count may be two short, so that the scan comes to the end of the bitmap and goes on. |
| `mfs_file` | 2 names, blocks of 2 bytes, files of 4, 2 bytes | `ImplementsFileStore`, `ResumeIsThere`. Chains of two files interleave on the disk and reuse each other's blocks; writes end inside, at the end of, and past a block. |
| `mfs_file_full` | 2 names, 1 handle, 3 blocks, files of 5 | `ChainsHold` with writes that get all, some or none of their blocks, and with empty ones. |
| `mfs_file_append` | 2 names, 2 handles, files of 6 | *violated*: `AppendsAtEnd`. |
| `mfs_dir` | 4 names of 2 lengths, blocks of 5 bytes, 6 blocks | `ImplementsDirStore` and `NoBlockShared` where no entries sum up to a block. Three directory blocks, and the disk full at both of `create_entry`'s allocations. |
| `mfs_dir_found` | same, lengths that sum up to a block | *violated*: `CreatedIsFound`. |
| `process` | 3 children, 13 frames, 3 pages, 3 page tables, 4 kinds of binary | `FramesOwned`, `Nested`, `AllGivenBack`, `SpawnRestores`. Two nested processes fit with all their pages, the third runs out of frames at each of the places that ask for one. The machine stops for good when it panics or hangs, so deadlock is not checked. |
| `machine` | input of 2, a controller that holds 2, 5 keys, of which two modifiers; 2 ticks, time registers of 2 values; 4 blocks, 3 slots, window of 2, 2 contents | `InputHolds`, `NoStuckModifier` and `InputServed` for the keyboard, `RtcReadsATime` and `SleepEnds` for the clock, `Coherent` (no stale slot at an address whose last write was good) and `ImplementsBlockStore` for the cache. The input is full with and without a line in it; a key comes between any two steps of either reader. Addresses share slots, read-ahead evicts and is cut short at the end; addresses past the end are read and written. The ticks and the keys come to their bound, so deadlock is not checked. |
| `machine_rtc` | same | *violated*: `RtcReturnsATime`. |
| `devices` | 2 drives of 2 blocks, reads of 2 sectors; 3 processes with 2 handles and a pipe; 2 drives, 4 seeds; blocks of 2 bytes in a ring of 3, sounds of 5 | `MovesTheBlock`, `CallEnds`; `ResumedAsLeft`, `PipeKeeps`; `ComesUpWhole`; `SoundServed`. Addresses wrap at 4; a second handle of a pipe is in another process; a sound goes round the ring and ends within a block. |
| `boot_and_net` | 6 frames; 3 regions between 8 addresses, pages of 2 bytes, 2 frames to a byte; 4 bits to a bitmap block, disks of 0 to 63 blocks; a century of days; lines 0, 1 and 8; rings of 3 buffers, of 5 and 2 words, 5 packets; 2 addresses, buffers of 2 pieces | `ImplementsFramePool`; `MapIsRight` (`OnlyUsable`, `NoneLost`, `BitmapHolds`, `NumberingInverts`); `Covers`, `StopsWhenStable`; `DateCounts`; `InterruptsServed`; `Delivered`; `CallsAnswered`. Every bitmap with every hint it can come with; regions within a page, ending inside one, consumed by the bitmap, too small for it; days in all months of leap years and others. |
| `screen` | 4 columns and a row over 2 rows of text for the prompt, 3 by 2 over 4 for 6 symbols; expressions of 2 atoms and globs of 3 parts on texts of 3 characters out of `a`, `1` and `.`, or 2 out of these and `/`; a queue of 2 keys, a line of 2 characters; 2 paths in the root and one in the first | `ScreenShowsLine`; `ScreenIsWindow`, `ScrolledOffStays`; `FoundAsMeant`; `DockFollows`, `SeenWhenHalted`; `CommandsKeep`. The line is as long as the row, the buffer of rows is full and moves, the queue drops keys, the disk fills up in a copy. `FoundAsMeant` has the beginnings for all expressions, and the ends, greedy and lazy, and the last hit where the last atom alone is repeated. Parts end (a number of lines or keys, the machine switched off), so deadlock is not checked. |

Symmetry is used for names and handles, which are only compared for equality,
and only with safety properties.

### Fairness

Each module that has a liveness property states what it assumes:

- `DataAreaTurn` in `SuperBlock`: sequential kernel code that nothing else has to
  enable.
- `Driver` in `Ata`: the driver takes its next step. The drives owe nothing; a
  poll ends with them or with its second.
- `Keyboard`: the handler goes on, as it runs with interrupts off; `mem::init`
  ends; the timer ticks; and the reader gets its turn, strongly fair, as it is
  stopped again and again but interrupts are slower than it. Nobody has to press
  a key.
- `Clock`: timer and RTC go on, their handlers run, the caller of `rtc` and of
  `sleep` goes on.
- `Interrupts`: the processor goes on. A device asks a second time only when the
  controllers are at rest (`AtRest`): devices are slower than handlers.
- `Nic`: the stack polls, the card sends what it owns. No packet has to arrive.
- `Sockets`: the call's turn comes, or its time is over; the other end owes
  nothing.
- `SoundCard`: the card plays its block and its interrupt is taken; the SB16,
  which plays one block again and again, is taken to wait for its interrupt.

### What the code does otherwise than it says

Shown by the runs marked *violated*, and listed as findings in `PROJECT.json`:

1. After a `File::write` that ran out of space, the chain is longer than the
   size, and an append goes to the last block of the chain instead of the block
   the file ends in. So does one after an empty write that shrank the file.
2. An entry that fills its directory block exactly is not seen, and is written
   over by the next one. It may be seen again when an entry before it is deleted.
3. `rtc()` reads the time twice and register B, which says how its hours count,
   once (`cmos.rs:43`). If an update ends between the select of B and the read,
   its interrupt handler has selected register C by then, whose bits there are 0,
   and the time is returned half a day off. The update must have begun in the
   same call, and takes about two milliseconds: only a call that is held up in
   these few instructions, by other handlers or by the host of a virtual
   machine, meets it. `RtcReadsATime` says what holds nevertheless.

And what the properties that hold are stated around, or what the models have as
the code has it:

- Allocator. `next_free_addr` (`bitmap_block.rs:50`) rounds down the number of
  bitmap blocks it scans: on a device whose size is not a multiple of 4096 blocks
  it may never look at the last one, and answers that the disk is full. The disk
  of the Makefile (32 MiB) is a multiple. `FullWhenFull` has it as its assumption.
  There the scan is longer than the bitmap: it takes 16 blocks from 8194 on, and
  the bitmap has 14; 8208 is the root directory and 8209 the block after it. The
  scan comes to them only when every bit of the 14 is set and the count says
  that there is room, which takes seventeen increments lost to stops or frees of
  blocks that were free (`InRange`). Then it reads directory entries as bits,
  sets one of them, and hands out an address past the end of the device.
- Geometry. `data_area` never returns for a device of `n` blocks when
  `n - a = (k-1)s + k` (`a` the blocks before the bitmap, `s` = 4096): two counts
  alternate. The second half of `StopsWhenStable` says so.
- Memory. When `map_to` fails, `alloc_pages` returns without giving back the frame
  it had taken for the page. A binary two of whose segments share a page costs a
  frame each time it is run. Those are the frames of `leaked`, which
  `SpawnRestores` and `AllGivenBack` let pass; `test_load`
  (`sys/process/spawn.rs:300`) expects none.
- Directories. `last_block_addr` in `delete_entry` skips blocks without entries,
  so an empty block may stay in the chain in spite of the comment at `dir.rs:215`.
- Start. A superblock that cannot be read at boot makes a format of a drive with
  files; `format_ata` does not clear the root directory's block; a stop between
  the superblock and the mark of the root's block (`block_device.rs:200`) leaves
  it free; a stop after `bienvenida.txt` leaves the later seeds out for good, and
  so does a disk that is full then: what cannot be created is logged and left.
- Files through the terminal. `OpenFlag::Truncate` is looked at by nobody
  (`fs/mod.rs:78-106`, against the comment at `terminal.rs:267`): `cp` of an empty
  file leaves its destination as it was. `mv f f` deletes the file, `cp f f` cuts
  it off after the first pieces, a copy that fails leaves its destination partly
  written. `CopyKeeps` lets these pass.
- Handles. A number of 64 or above panics (`table.rs:90`); duplicates do not share
  a cursor; each handle keeps its own size of the file (`file.rs:258`).
- ATA. A drive whose command was given up while it still asks for data takes no
  further command.
- Interrupts. The keyboard's handler is installed before `mem::init` masks its
  line (`lib.rs:44`, `mem/mod.rs:36`): a key in between runs the handler without a
  heap. Requests made before `remap` are dropped.
- Clock. `epoch.rs:65` subtracts the time of the last update, read after the
  ticks, and may go below zero; the 12-hour mode is read wrong (`cmos.rs:57`).
- Cards. A transmit buffer is taken without looking at its owner (`pcnet.rs:325`,
  `e1000.rs:434`); the RTL8139's driver gives a packet's room back before it has
  copied it (`rtl8139.rs:302`) and waits for ever for an aborted transmission.
- Sockets. `connect` after one that timed out may succeed to the old address
  (`tcp.rs:83`); `write` answers the length it was given though less may be queued
  (`tcp.rs:203`); without a card `connect` answers that it succeeded; a second UDP
  `connect` always waits its five seconds and fails (`udp.rs:74`); closed sockets
  stay in the set.
- Sound. The AC97 clears nothing when it stops and nothing plays, so that a short
  sound that was never played comes before the next (`ac97.rs:170`); a tail
  shorter than a block may not be played; an odd byte is dropped; bytes behind
  the announced end, written later, stop the sound and are played raw.
- Display and prompt. Erasing in a line while scrolled back erases in the history
  (`Erases` in `ScrolledOffStays`). `^C` after an arrow keeps the place in the
  history (`prompt.rs:40`); a line that reaches the width wraps.
- Regular expressions. `end` keeps what a branch that failed has set
  (`regex.rs:280`), and with `^` counts from 1: `^a` on `a` answers (0, 2), and
  `replace` with it goes past the end of the text. So only the beginning of what
  `find` answers is specified for all expressions, and the end where the last
  atom alone is repeated and nothing is anchored to the beginning (`Simple`).
  `rfind` goes on from the end of each hit, and answers the last place in no text
  found from before it (`StandsAlone`), not the last place where one begins. The
  `*` and `?` of a glob take any character, also `/`, against the comments at
  `regex.rs:73-74`; the meaning in `Regex` follows the code, and the run has texts with `/`.
  `replace_all` does not come to an end with an expression that matches nothing
  (`regex.rs:117`).

## The proofs

`BlockCacheProofs` proves, for any number of blocks, any cache and any window not
longer than the cache (`SizeAssumption`, which the constants of the code meet):

- `TypeCorrect`;
- `CoherentAlways`: by induction from `TypeOK`. What makes a read-ahead harmless
  is the lemma that each slot of the window takes one block only, which is where
  the assumption on the window is needed, and that it takes the block the medium
  has;
- `Implementation`: `Init` implies the abstract `Init`, and each action is one of
  `BlockStore`. A miss that evicts settles the address whose slot it takes; no
  invariant but `TypeOK` is needed.

`BlockAllocProofs` proves, for any geometry with at least one bitmap block to
scan, any set of chains and any number of stops, up to the first time that the scan
takes a data block for the bitmap, where the model ends:

- `TypeCorrect`;
- `NoCrossLinkAlways` and `HandedOutOnce`, from the inductive invariant `OwnInv`.
  `NoCrossLink` alone is not inductive: a new block must be known to be in no
  chain until it is linked (`NewIsOwn`), a block being freed must be in no chain
  but the one it is cut from (`FreedIsOwn`), and blocks in chains must be marked,
  for else the allocator might find them (`HeldMarked`), each but for `torn`;
- `AccountedAlways`, over the cardinality of the set of marked blocks;
- `InRangeAlways`: with the count exact and below the size of the device, fewer
  blocks are marked than there are, so the lowest clear bit is one of them
  (`BitmapCovers`: each block of the device has a bit), and the scan neither hands out
  an address past the end nor goes on into data. So the model never ends on a machine
  that no stop and no second free has set the count back on. `CountBounded` is what it
  needs beyond `Accounted`;
- `ConsistentAlways`: all of these together;
- `FullWhenFull`, under the assumption `Data \subseteq Scan`: the last block of
  the device has a bit that is scanned. The count says full exactly when all data
  blocks are marked (`CountSaysFull`), and a set of addresses has a lowest.

`ProcessProofs` proves, for any number of frames:

- `Invariance`: the hint is low, no frame below it is free;
- `Implements`: the allocator is the pool. That is where `HintLow` is needed:
  with it the search, which goes round from the hint, comes to the lowest free
  frame before it goes round (`FoundIsLowest`), and to all of them
  (`NoneMeansFull`);

and, for any number of processes, frames, pages and page tables and any binaries:

- `Chain`: `ProcessTypeOK`, `HintLow` and `Nested`, from `ChainInv`, which adds
  whose memory the call under way maps and when it has a frame in hand (`OpOK`).
  The least frame a process gives back, to which the hint is lowered, exists by
  the well-foundedness of the naturals (`LeastOf`);
- `Owners`: `FramesOwned`, that is `OneOwner` and `Accounted`. Neither is
  inductive without the other: a frame that is free has no owner only because
  owners' frames are in use. `PutKeepsOwners` is the step that maps a frame,
  `TableStays` the one that moves it in and out of the call's hands,
  `FreeProcessKeepsOwners` the one that gives back what belongs to one process;
- `GivenBack`: `AllGivenBack`. `Nested` by itself would allow a ring of
  processes beside the chain of the running one, which nothing would ever end.
  `Deep` says there is none: each spawned process has a depth, one more than its
  parent's, no two have the same, and the running one is the deepest;
- `Restores`: `SpawnRestores`. The invariant says what the call under way has taken
  since it began (`LoadTakes`), which is what a failure has to give back;
- `AlwaysRight`: `MapIsRight`, for pages of any size and any memory map whose usable
  regions are in order and apart (`MapsAssumption`; those that are not usable may be
  anywhere). `MapInv` says in pages what the loop has made so far: the ranges of the
  usable regions looked at, each once and in order (`AllMade`, `Apart`), the bitmap at
  the start of one of them that is long enough (`BitmapPlaced`), and no more frames than
  the bound counts for these regions (`CountBelow`). Placing the bitmap late changes
  nothing of what was made before it (`BeforeUnmoved`). The sums are recursive:
  `SumsExist` and `SumsOnly` give them a function to reason about, and `NumberIsIn` finds
  the region of a number as the first whose sum is above it.

The module also has the proofs about what is under the processes, each for what its
run checks besides liveness:

- `NeverHangs`: `NoneHangs` and `OpenIsHandled`, for any devices. What is in service
  while the processor is at a vector is just what one end of interrupt takes away
  (`InService`, `AllEnds`): the line and the one it came through, or after a spurious
  request of the slave the master's alone. That a line is open only with a handler
  needs the keyboard among the devices (`InterruptsAssumption`): `mem::init` opens its
  line whatever was found (`mem/mod.rs:113`), and only `keyboard::init`, which has no
  way to fail, makes that right;
- `AnswersAlwaysTrue`: `AnswersTrue`, for buffers and requests of any size and any
  addresses. A call that goes through several turns is true at the end because of what
  its flag says in between (`FlagHolds`): a `connect` whose request is out has it out
  to the address of this call, a `write` that goes on has something queued. It needs
  that a request is never of nothing, and that no address is the one of nowhere
  (`SocketsAssumption`). `SocketsSafely` is what the run checks, without its fairness;
- `NicInOrder`: `SentInOrder` and `HandedUpInOrder`, for each of the three cards and
  rings and packets of any size (`NicAssumption`). The numbers of packets given and
  sent, arrived and handed up say where both sides are in a ring of buffers, and who
  has which buffer (`PcnetSends`, `E1000Sends`, `PcnetReceives`, `E1000Receives`); two
  turns closer than the length of the ring are at different places (`PlacesApart`).
  The RTL8139's ring has no buffers: `Laid` says there is a list of packets, faulty
  ones among them, that are laid out one after the other from the place the driver
  reads to the place the card writes. What the card writes is in no word of those
  (`NoWordShared`), though a packet may go past the end of the ring, and the place
  the driver sets, less its 16 bytes and wrapped at 2^16, is the one it finds again
  (`PlaceFound`). `NicSafely` is what the run checks, without its fairness.

`HandlesProofs` proves, for any numbers of processes, handles, directories and
pipes:

- `AsTheyWereLeft`: `ResumedAsLeft`. It is a fact about two states that may be far
  apart, so the invariant (`ChainInv`) carries it along: the history of spawns is
  the chain of the live ancestors of the running process (`Kin`), each one's entry
  of the table is still the one it had, and its saved registers are its own.
  `OwnKeeps` is why a call cannot disturb it: the running process is none of those
  that wait;
- `PipesKeep`: `PipeKeeps`, with the fact that a handle leads to a pipe there is;

and, for blocks, rings, headers and writes of any size:

- `SoundIsInOrder`: `HeardInOrder`, `GoesOn` and `LengthCounts`. The bytes on their
  way, the card's block first and then the buffer, rise and lie between what was heard
  and what was given (`OnTheWay`), and when the AC97 plays or waits its block is the
  last valid one (`InStep`), for else it would play one that is left from an earlier
  round. The sequences are cut and joined by lemmas of their own (`JoinRises`,
  `JoinBelow`).

`MachineProofs` proves about what interrupts and callers share, the calendar, the desktop
and the text screen:

- `NoneSticks`, for any keys and modifiers and any number of keys to a flag.
  `NoStuckModifier` is not inductive, as a press that is still in the controller
  will set a flag later: `PressesHeld` says that such a key is held, or that its
  release waits behind it;
- `InputAlwaysHolds`, for any number of readers and any bound of the input;
- `ReadsATime`: the counters that `rtc()` reads are of one time the clock showed, which
  is what it returns unless it took register C for B, in a call that met an update;
  then it is half a day off (the finding above). At most one update
  of the registers comes in a call (`OneUpdate`), so that two readings that agree
  are not both torn: the first is of one time, or the second has no update in its
  way (`RtcInv`);
- `DockAlwaysFollows` and `AlwaysSeen`, for any keys, any length of the queue and
  any commands, from an invariant that counts keys (pressed are handled, dropped or
  waiting) and says what is on the screen when nothing is to be drawn again;
- `AlwaysCounts`: `DateCounts`, for any century from 1970 on and every day of it.
  `days_before_year` counts leap years, so the step from one year to the next is about
  the cardinality of a set that has one more (`YearAfter`); a month begins where the one
  before ends (`MonthAfter`), and `RegisterKeeps` is what a BCD register does to a number
  below 100;
- `AlwaysWindow` and `TextStays`: `ScreenIsWindow` and `ScrolledOffStays`, for any sizes
  of the screen and of the buffer that holds it (`ScreenConstants`) and any symbols. `Sound`
  is what every operation of the writer needs: its place and its cursor, which are set
  apart from each other, are both on the screen, and the window is in the text. `OneRow` is
  the lemma for what is written twice, cell by cell or as a row; a new line at the last
  row has three lemmas (`NextRow`, `WindowDown`, `BufferUp`), since the two copies move in
  different ways; where the window moves down the buffer, only the row cleared at the end
  makes them agree (`LastIsCleared`). That a character is written at the end of the text
  (`ComesBack`) is why it touches no row that has left the screen.

`DriveProofs` proves about the disk under the file system:

- `Moves`: `MovesTheBlock`, for any drives, blocks and sectors to a call. What the
  selected drive does is the command of the call, as far as the buffer is filled
  (`Answering`); no command is sent to a drive that has not
  done with the one before (`Selected`), and one that comes late leaves on the
  medium what some call wrote there (`Late`);
- `ComesUp`: `ComesUpWhole`, from `BootInv`: a drive without a signature has no
  files, so that no bitmap is cleared that had some (`FormatKeeps`), and the
  directories are seeded before the file of welcome (`SeedsBefore`, `SeedsInOrder`):
  a seed that found no block free leaves none to those after it, as only a deletion,
  after the seeding, makes room;
- `AlwaysCovers` and `NoneWhenUnstable`: for a device of any size, any sizes of
  blocks and areas for which `SizesAssumption` holds, as it does for those of the
  code. A round of `data_area` brings its guess nearer to a number that answers
  itself, and at the unstable sizes there is none.

`MfsDirProofs` proves, for any names, any numbers of blocks and any lengths:

- `NoneIsShared`: `NoBlockShared`, from `DirInv`: the directory is a sequence of blocks that is
  not empty, all of it and of its files is marked, and no block is there twice;
- `Implements`: as long as no block of a directory has been filled exactly
  (`[]NoneFull`), each step is one of `DirStore`. The hypothesis is the one the
  finding above makes necessary: behind a block that is exactly full an entry is
  written where nobody reads. `AlwaysImplements` discharges it for names so long that
  none of their sums is the capacity of a block (`NeverFull`).

`MfsFileProofs` proves, for any names, bytes and numbers of blocks, any capacity,
any modes and any number of handles:

- `AlwaysChains`: `ChainsHold`. The links on the disk are data, so the invariant
  `FileInv` names the sequences they make: there is for each file a sequence of
  distinct blocks, no block is in two of them, each block's link leads to the next of
  its sequence, and every one is marked. A handle, which holds an address and an
  offset, is at a place of its file's sequence, from which what it has still to reach
  is not farther than its size says. `CreateKeeps`, `WriteKeeps`, `WriteDiskFullKeeps`
  and the lemmas after them are the steps: a write resumes in the chain, links new
  blocks behind it and gives up what a shorter file leaves;
- `ResumesWhereItSays`: `ResumeIsThere` and `ChainFitsSize`, on a disk with room
  (`RoomSpec`), where the invariant is exact: a chain is as long as its file's size
  needs, and the place of a handle is that of its cursor.

  The recursive function `ChainFrom`, by which the properties read the disk, is
  shown to follow these sequences (`ChainsAre`, `ChainIs`); it is well-defined by
  the number of blocks still to be followed, which is the only induction needed.
- `StoresBytes`: `ImplementsFileStore`, on a disk with room. Each call of `MfsFile` is
  the call of `FileStore` of that name, and nothing else is. `Reads` says what the bytes
  of a file are, by the sequence of its blocks (`Cell`: the i-th byte is in the block
  `(i - 1) \div Capacity + 1` of it). A write changes the blocks of one file only
  (`ContentsChange`), and `ByteWritten` says what is at each place afterwards: the byte
  of the buffer if the write came there, else what was there, for the blocks before the
  one it resumed from and for the part of that block before the cursor. `AnswerIs` is the same
  for a read that starts from a block in the middle: its offset there and the offset
  in the file are in the same block (`DividesLess`), because the index of a handle is
  that of its place, which is why this needs the exact invariant. `SizesFit` is added to
  it only because the store's positions end at `MaxSize`;
- `TypeCorrect`: the types, on any disk. What there is to show is that a read stays in
  the blocks of the chain, though the index it goes by may be wrong (`AnswerTyped`);
- `TreeStays`: `TreeHolds`, half of `CommandsKeep`, for whatever the terminal runs
  (`ShellSpec`). What it needs beside itself is `AboutFiles`: a command that is running
  is about files, so that the deletion at the end of `mv` takes no directory;
- `CopiesKeep`: `CommandsKeep`, on any disk, full or not. `KeepInv` puts the running
  command beside the chains of `FileInv`: no file but the destination differs from
  what it was when the command began; the handle that is read is exactly where its
  cursor says and the one that is written truly so; and as far as the second has
  come, the destination is the first part of the source, with the piece that was
  read and not yet written behind it (`Copied`). It rests on what a read, a write and
  a write that finds the disk full do to the bytes of the file and to the handle
  (`PieceIs`, `WriteShows` and `WriteDiskFullLeaves`). A copy is whole when the source's handle
  is at its end, and only then is the stage `copied`, from which alone `mv` goes on.

  It is proved of `TwoFilesSpec`, which copies no file onto itself. The code lets the
  user do that: the handle that reads may then be left in a block which the handle
  that writes, with another size in mind, has freed, and which block it reads next is
  for the disk to say. The small instance of the run has such copies.

Only model-checked: liveness (`StopsWhenStable`, `CallEnds`, `InputServed`,
`SleepEnds`, and in `Delivered`, `CallsAnswered`, `InterruptsServed` and
`SoundServed` what is beside the parts proved above), which the prover has no rules
for; what is said about recursive operators or folds over sequences (`FoundAsMeant`,
`ScreenShowsLine`); and `CommandsKeep` when a file is copied onto itself.

## Not modelled

Devices that fail under files and directories at once; handles that share a file;
paths, the environment and users of processes; times of entries; the allocation
of heap memory, which is a library's, and with it which locks an interrupt may
find taken; the frame-buffer modes, fonts and palettes; the file browser's list
and the pages of text; the formats in which boot loaders pass the memory map; the
set-up of the network cards and their devices for addresses; the 12-hour mode of
the RTC and the calibrated wait; and the parts listed as `not_modelled` in
`PROJECT.json`, which are access to registers and scripts. Names of files are
model values with lengths, bytes are model values, and the text of messages is
left out everywhere.

## What could come next

In this order: handles that share a file, with `MfsFile`'s refinement for what
still holds of them; failing reads under `MfsDir` (a block of zeros is an empty
directory); the locks of the kernel against the
handlers that take them.
