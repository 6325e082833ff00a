# TLA+ models of the nanvix kernel

This directory holds TLA+ models of parts of nanvix (sources under `src/`), the
TLC configurations that check them, and `PROJECT.json`, which lists the
components, the runs, the mutants, the source lines each definition models, the
findings and the hazards.

## The system and its parts

nanvix is a small Unix-like kernel for i386 with a minix file system and a libc.
The kernel runs on one processor and is not preemptive. A process in the
kernel runs until it calls `yield()` itself, for example in `sleep()`, `stop()`
or `die()`. The clock interrupt preempts only a process in user mode. This is
what makes it possible to model a kernel path as one atomic step, split only
where the code calls `yield()`.

| Part | Source | Module | Status |
|---|---|---|---|
| Scheduler: `sched`, `stop`, `resume`, `yield` | `src/src/kernel/pm/sched.c` | `Sched`, `PM` | modelled |
| Signals: `sig_default`, `sndsig`, `issig` | `src/src/kernel/pm/signal.c` | `Signal`, `PM` | modelled |
| `sys_nanosleep` | `src/src/kernel/sys/nanosleep.c` | `PM` | modelled |
| `sys_rmdir` | `src/src/kernel/sys/rmdir.c` | `MinixDir` | modelled |
| Directories: `dirent_search`, `dir_add`, `dir_remove` | `src/src/kernel/fs/minix/file.c` | `MinixDir` | modelled |
| File I/O: `file_read`, `dir_read`, `file_write`, `inode_truncate` | `file.c`, `inode.c` | `MinixFile` | modelled |
| Inodes, superblock lock, mkfs's inode map | `src/src/kernel/fs/minix/inode.c` | `MinixInode`, `InodeMap` | partly |
| Console: `ansi_parse` and its handlers, `console_put`, `console_clear`, `console_set_color` | `src/src/kernel/dev/tty/console.c` | `Console` | modelled |
| Keyboard driver: `do_keyboard_hit`, `parse_key_hit`, `get_ascii` | `src/src/kernel/dev/tty/keyboard.c` | `Keyboard` | modelled |
| libc `nanosleep`, `usleep`, `sleep` (`alarm` as its system call only) | `src/src/lib/libc/` | `PM` | partly |
| libc stdio input: `ungetc`, `__submore`, `getdelim`, `getline` | `src/src/lib/libc/stdio/` | `Stdio`, `StdioStream` | partly (wide-character routines not yet) |
| CPU/FPU setup, `kmemcpy`, `kmemset`, tools | various | none | I/O or trivial |

Some functions these files call are not in `src/`: `sleep()`, `wakeup()`,
`die()`, `bury()`, the signal dispatcher, `sys_kill`, `sys_signal`,
`sys_alarm`, `sys_pause`, the clock handler, `block_map()`, `link()`, `superblock_lock()`,
`bread()`, `bitmap_first_free()`, the inode cache (`inode_get`, `inode_put`) and `tty_int()`. They are modelled
from the spec and marked `spec_modelled` in the map.

## Modules

### Sched (`sched.c`)
A kernel state is a record `[proc, chain, curr]`. `proc` is the process table.
`chain` maps each sleeping chain to its list of processes, head first. `curr`
is `curr_proc`. Each kernel function is an operator from one such record to the
next, so a handler that calls several functions is their composition:
- `Sched` and `Resume` are `sched()` and `resume()`.
- `Priority` and `HigherPriority` are the two macros.
- `PickStep`, `PickLoop` and `PickNext` are the selection loop of `yield()`,
  aging included.
- `SwitchTo` is the switch to the process it picks.

### Signal (`signal.c`)
- `SigDefault` is the table `sig_default[]`, and `Ignoring` is the macro
  `IGNORING`.
- `SndSig` follows `sndsig()` branch by branch, and `Unlink` is its removal of
  a waiting receiver from its chain.
- `IsSigFrom` is the loop of `issig()`, with the `SIGCHLD` burial in
  `BuryZombies`.

### PM (the composition)
The variables are `proc`, `chain`, `curr` and `ticks`. Each process has a `pc`
that says where it resumes when picked:
- `user`: in user mode;
- `sig`: on the way back to user mode, where `issig()` is checked;
- `ns`: in `sys_nanosleep()` just after its `sleep()`.

A second field, `lpc`, says where a process is in the libc `sleep()`:
`none` outside it, then `alarm`, `pause` and `check`, the next call it makes.

The actions are:
- `Preempt`: the clock or a voluntary yield.
- `CheckSignals`: `issig()` followed by the dispatch of the signal it found.
- `Nanosleep` and `NanosleepReturn`: the two halves of `sys_nanosleep()`.
- `Usleep`: libc `usleep()`, which calls `nanosleep()` with the microseconds
  split into a `timespec`.
- `SleepOn` and `WakeupRes`: a wait on a resource and its release.
- `Kill`, `SetAlarm`, `SetHandler` and `Exit`: system calls.
- `SleepSignal`, `SleepAlarm`, `Pause` and `SleepReturn`: libc `sleep()`
  (`sleep.c:44-65`), one action per call it makes. Between them the caller is
  in user mode, so it may be preempted and its pending signals are
  dispatched. `Pause` is `pause()`: a kernel sleep on the process's own
  `PauseChan`, which no `wakeup()` names, so only a signal ends it.
  `signal_recv` is left out: it starts as `SIGALRM`, and `sig_handler()` is
  installed for `SIGALRM` only, so `sleep()` always returns 0. The other
  system calls require `lpc = none`.
- `Tick` and `NsTimeout`: the clock.

`Yield` is all of `yield()`: the reschedule of `curr`, the alarm loop
(`AlarmLoop`), the selection and the switch.

`LibcNanosleep(r)` is the libc `nanosleep()` wrapper applied to the kernel's
result `r`. It gives the caller's result, `errno` and `*rmtp`. It runs in user
mode on the caller's own data, so it is a function of `nsRet` and not a step.

### MinixDir (`file.c`)
A directory is an array of slots `[ino, name]` over its blocks:
- `size[d]` counts slots.
- `mapped[d][b]` says whether block `b` is allocated.
- `nlinks` is the link count of each inode.

`SearchFrom` and `DirentSearch` are `dirent_search_minix()`: the search loop,
the skip of unmapped blocks, the remembered free entry and the growth. `Link`
is `dir_add_minix()` plus the new link. `DirRemove` is `dir_remove_minix()`,
with the result of `inode_get()` and `IS_SUPERUSER` as inputs. `SysRmdir` is
`sys_rmdir()`. It fails with `ENOENT` when the parent is not found, with
`EPERM` when the parent is not writable, and otherwise calls `DirRemove`.

### MinixFile (`file.c`, `inode.c`)
One inode has `isize`, `mapped` zones and the bytes `data` of its blocks.
`nfree` counts the free blocks of the file system. `contents` is the abstract
file, a sequence of bytes.
- `ReadLoop` and `WriteLoop` are the do-while loops of `file_read_minix()` and
  `file_write_minix()`, with `size_t` arithmetic taken modulo
  `2^SIZE_T_BITS`.
- `Truncate` is `inode_truncate_minix()`.
- Reads change no state. They are checked in every state, for every offset and
  count.

### MinixInode (`inode.c`) and InodeMap
Two processes share one superblock. The variables are:
- `imap`: the set bits of the inode map. Bit `b` is inode `b + 1`.
- `isearch` and `locked`: the superblock's fields.
- `disk`: the link count of each disk inode.
- `core`: the in-core inode each process holds, `[num, nlinks, dirty]`.
- `pc` and `arg`: where each process is in a call, and the inode a read is
  for.
- `halted`: a fault stopped the kernel.

A call runs atomically up to the point where it sleeps in `bread()`, which it
does with the superblock locked:
- `AllocBody` and `FreeBody` are all of `inode_alloc_minix()` and
  `inode_free_minix()`.
- `WriteBody`/`WriteDone` and `ReadBody`/`ReadDone` are `inode_write_minix()`
  and `inode_read_minix()` before and after `bread()`.
- `TruncBody`/`TruncDone` are `inode_truncate_minix()` before and after its
  `block_free()` loop.

When `bread()` returns NULL, the access through the NULL buffer is a
nondeterministic fault or a stray write. `Call`, `Unlink` and `Put` are the
callers in the VFS (not in `src/`).

`Init` is the file system as `minix_mkfs()` leaves it:
- `MkfsImap` is `create_inode_map()`. It copies one uninitialised `uint32_t`
  per map block, so the first `WORDBITS` bits are any value.
- The root is allocated from that map and written with three links.

`HostImap` is a correctly made image. `InodeMap` is the allocator the spec
describes: lowest free number on allocation, exactly the freed number on free.
`MinixInode` is shown to implement it through the mapping of `imap` to its
inode numbers and of `core` to the number each process holds (`AllocRefines`).

### Keyboard (`keyboard.c`)
Every byte from the keyboard controller is one call of `do_keyboard_hit()`:
- `parse_key_hit()` sets or clears a flag of `mode`: `SHIFT`, `CTRL`, or
  `ANY` for every other key. A byte with bit 7 set is a release.
- `get_ascii()` translates the scancode through `ascii_shift[]` or
  `ascii_non_shift[]` when `ANY` is set, and applies Ctrl.
- The result goes to `tty_int()` unless it is 0 or Ins, Del, Home or End.

The variables are:
- `mode`: the flags.
- `held`: the keys physically down, which is the environment's state.
- `typed`: what `tty_int()` received in the step.
- `event`: the last key event.

`Press` and `Release` feed all the bytes of one key event, the 0xE0 prefix of
an extended key included. The kernel is not preemptive and only this handler
touches `mode`, so the bytes of an event are handled in one step. The key maps
are kept whole. A scancode past their 89 entries reads a nondeterministic
byte (`OOBBytes`).

The model also shows bugs that no run checks; they are listed as hazards:
- With Ctrl or Shift pressed or released while a key is down, `get_ascii()`
  translates the modifier's own scancode and sends a stray code.
- Releasing one of two Shift keys clears `SHIFT`.

### Console (`console.c`)
`console_write()` hands each character to `ansi_parse()`, a four-state machine:
`NONE`, `ESCAPE`, `CSI` and `CSI_DEC`. In `CSI` a digit is added to the current
parameter, `;` moves to the next one, and a letter runs a handler
(`ansi_cuu` ... `ansi_sgr`). Every handler ends by going back to `NONE` with an
empty buffer. The variables are the fields of `cstate`, `ansi_buff` and
`cursor`, plus `shown` (the hardware cursor is enabled) and `outside` (the
last step wrote a cell outside the video buffer). Every handler is an operator
on a record `K` of these fields. `Write(ch, stray)` is one call of
`ansi_parse(ch)`, with every handler and `console_put()` call it makes in that
call, so each step is one character.

What is abstracted:
- The contents of a cell. Only whether a write leaves the buffer is kept.
- `cursor_move()` and the serial copy, which only write device registers.

What is kept:
- The exact bounds of every write, the off-by-one overrun of `console_clear()`
  included.
- The `uint16_t` colour arithmetic, with the masks of `console_set_color()`.

`console_clear()` with a mode outside 0..3 reads uninitialised pointers. It is
modelled as a nondeterministic stray write or no write (`stray`).

### Stdio (`ungetc.c`, `getdelim.c`, `getline.c`) and StdioStream
The `FILE` is a record `fp` with the fields the code touches:
- `flags`;
- the read buffer `bf`;
- the ungetc buffer `ub` (`[base, size]`), the reserve `_ubuf` (`ubuf`) and
  the `malloc()`ed block (`heap`);
- `p` and `r`, the saved `up` and `ur`;
- `file`, the unread bytes of the file.

A pointer is `[buf, i]`: a buffer name and an offset. The variables are:
- `n`: the caller's `*n`;
- `line`: the bytes of `*bufptr`;
- `ret` and `op`: the result and name of the last call.

The code:
- `UngetcR` is `_ungetc_r()` branch by branch. It uses `Submore` (`__submore()`,
  with `DoubleUb` its `realloc()` branch), `BackUp` and `UnsignedChar`.
- `Fill` is the inner `while (--numbytes > 0)` loop of `getdelim()`, and `Loop`
  is its outer loop, which doubles the buffer.
- `Getdelim` is the whole call, with the first `realloc()` to
  `DEFAULT_LINE_SIZE`, and `Getline` is `getline()`.
- Any allocation named in `FailingAllocs` may return NULL.

`getc()`, `__srget_r()` and `__srefill_r()` are newlib's and are not in this
repository. They are the environment (`GetcR`, `Refill`, `FreeUb`), written
from newlib's definitions:
- `SEOF` is sticky.
- A refill first frees the ungetc buffer and goes back to `_up`/`_ur` when
  `_ur` is not 0.
- A `read()` returns up to `ReadSize` bytes.
They are left out of the map. The stream lock and `ORIENT()` do nothing on one
byte-oriented stream.

`StdioStream` is what a reader is promised: the stream is a sequence of bytes.
`getc()` takes its head. `ungetc()` puts a byte in front of it or fails.
`getdelim()` moves the bytes up to the first delimiter into the line and
returns their number, or returns -1 and changes nothing. `Stdio` implements it
through `Content(fp)`, which is:
1. the bytes at `p`;
2. then, while an ungetc buffer is in use, the bytes saved at `up`;
3. then the unread file.

## Runs

| Run | Expect | What it shows |
|---|---|---|
| `pm_sched` | pass | With 3 processes that sleep, signal, exit and are preempted, and user handlers for `SIGABRT`/`SIGCHLD`: exactly one process runs, every waiting process is on exactly its chain, each child count matches its live children, and a caught signal always wakes a sleeper (`SignalWakesSleeper`). |
| `pm_live` | pass | With `SIGSTOP`/`SIGCONT`, alarms delivered from `yield()` and a resource chain, one process runs, the chains stay consistent and a caught signal wakes a sleeper. `StarvationFree`: under the fairness below, every ready process is eventually picked, in spite of different nice values. |
| `pm_sleep` | pass | One process calls `sleep(1)` under `SleepSpec`. A process waiting in `pause()` with its alarm still set is woken by the `SIGALRM` of the alarm scan in `yield()` and returns from `sleep()` (`AlarmEndsPause`). |
| `pm_nsret` | violation | `NanosleepRemaining`: the libc comment says an interrupted `nanosleep()` returns -1 with `EINTR`, and that `*rmtp` completes the pause; a call whose whole interval has passed may return 0. The property is about the return step alone. A sleeper woken at its deadline that runs only a tick later, with a caught signal pending, gets a negative count from `sys_nanosleep()`, and the wrapper returns -1 with that count as `errno`. |
| `dir_dirs` | pass | Names stay unique per directory, link counts equal the entries naming each inode, and a directory grows only when it has no free slot. |
| `file_io` | pass | Every read at or before the end of file returns the bytes last written there. Blocks are conserved over writes and truncation. |
| `file_bounded` | violation | `ReadBounded`: a read past the end of file inside a mapped block wraps `chunk` and returns more than it was asked. |
| `inode_ops` | pass | Checks two processes that allocate, read, unlink, write back, truncate and free inodes (`AllocRefines`, `DiskCurrent`, `OpsComplete`):<br>• The inode map implements the lowest-free allocator.<br>• A clean in-core inode equals its disk inode.<br>• Every call returns. |
| `console_ops` | pass | Text, line feeds, tabs, backspaces and every escape sequence except cursor down and forward, in any order. The cursor stays on the screen (`CursorOnScreen`), and no parameter of one sequence survives into the next (`ParamsClearOutsideSequence`). |
| `keyboard_keys` | pass | Presses, typematic repeats and releases of a letter, a digit, Home, Up, both Shift keys and both Ctrl keys (the right one extended), in any order and from any keys held at boot. No modifier flag stays set without a key of its kind down (`FlagsNotStale`). A key pressed with no modifier down sends its `ascii_non_shift[]` code (`PlainKeyTypesItsCharacter`). |
| `stdio_ops` | pass | Reads, pushbacks and `getdelim()`/`getline()` calls, with failing allocations, on files of 0 to 3 bytes. The line and its nul fit in `*n` (`LineFits`). `ungetc()` never writes the read buffer (`UngetcKeepsReadBuffer`). The `FILE` implements `StdioStream` (`StreamRefined`) through both moves of the ungetc buffer by `__submore()`. |
| `inode_range` | violation | `AllocatedInTable`: on an image made by `minix_mkfs()`, `inode_alloc_minix()` hands out an inode number past the inode table. |

Eight configurations are kept beside the runs. Each checks one property that
TLC finds violated. They are not in the list of runs, whose number is limited;
the inode-map finding, the console, the keyboard, stdio and `sleep()` took
their places:
- `PM_sleep_lost.cfg` (`SleepReturns`): `sleep(1)` never returns. The caller
  is preempted between `alarm()` and `pause()` until the alarm expires. The
  alarm scan sends `SIGALRM`, `sig_handler()` runs on the way back to user
  mode, and `pause()` then waits for a signal that has already come.
  `sleep.c:47-53` leaves this window open. The trace has 13 states.
- `Console_down.cfg` (`CursorOnScreen`): `ESC [ B` on the bottom row moves
  the cursor below the screen, because `ansi_cud()` tests its bound the
  wrong way round (`ansi_cuf()` too). The next character is written outside
  video memory. `console_ops` leaves these two sequences out for this reason.
- `MinixDir_firstfreereused.cfg` (`FirstFreeReused`):
  `dirent_search_minix()` reuses the last free slot, not the first.
- `MinixDir_emptydirremovable.cfg` (`EmptyDirRemovable`): a directory emptied
  after holding a third entry stays `EBUSY`. `dir_remove_minix()` judges
  emptiness by a size that never shrinks.
- `PM_chld.cfg` (`IgnoredChildReaped`): a parent ignoring `SIGCHLD` never
  buries its zombies, against the spec.
- `PM_alarm.cfg` (`AlarmOnTime`): `SIGALRM` comes one tick later than the spec
  says.
- `PM_rmtp.cfg` (`NanosleepRemaining`): a 20 ms `nanosleep()` is interrupted
  before its deadline, with `CLOCK_FREQ = 100`. The call returns 2 ticks, but
  the wrapper writes `tv_nsec = 20`, because it computes milliseconds
  (`nanosleep.c:81`). A `nanosleep()` of `*rmtp` then sleeps for one tick.
- `Stdio_grow.cfg` (`StreamRefined`): the trace is two `ungetc('a')`, then
  `getline()` with `*n = 4`, which reads 3 bytes, and then a `realloc()` that
  returns NULL. `getdelim()` then returns `ptr - NULL`, an address, as a
  count (`getdelim.c:110-132`). The bytes it read are gone from the stream.

The hazards also list an outcome that TLC finds for `MinixInode` outside the
runs. With `BreadResults = {"ok", "fail"}`, `inode_write_minix()`'s NULL path
marks an inode clean that was never written back, and `DiskCurrent` fails.

Each property of a passing run has a mutant in `PROJECT.json`: a plausible bug
in the modelled code under which TLC finds that property violated.

## Bounds

- **PM:** process 0 is `IDLE` and processes 1 and 2 are users (`NPROC = 2`).
  Process 1 is the parent of 2. Their nice values differ, so that priority and
  aging both matter. There is one resource chain and a clock of at most 1 or
  2 ticks.
  - `pm_sched` uses signals `SIGABRT` and `SIGCHLD`, with all three
    dispositions.
    It also calls `usleep(1)`, which the wrapper turns into a one-tick
    `nanosleep()`.
  - `pm_live` uses `SIGSTOP` and `SIGCONT`, with alarms of delay 1 and no
    user handlers. With these it checks starvation freedom within the time of
    one run.
  - `pm_sleep` has one user process (`NPROC = 1`) calling `sleep(1)`. The
    clock runs past `MaxTicks = 1` while a process in `sleep()` has an alarm
    still to expire, so that every alarm `sleep()` sets does expire; a new
    `sleep()` starts only below `MaxTicks`. With two processes the run takes
    longer than the time of one run.

  With three processes every case of `sndsig()`'s chain removal happens: the
  receiver at the head of its chain, or behind another sleeper.
- **MinixDir:** 2 entries per block, 3 zones, 1 free block, the root and one
  subdirectory, one file and two names. With these, a directory fills its first
  block, grows into a second, and runs out of space.
- **MinixFile:** 4-byte blocks, 2 zones and 1 free block. Offsets are 0, 1, 3,
  4 and 6; counts are 0, 1, 2 and 5. These cover a write across a block
  boundary, a write past the end, a write that runs out of blocks, and a read
  past the end inside and outside a block.
- **MinixInode:** 2 processes, 2 inodes and a 3-bit map.
  - The image of `inode_ops` has inode 1 (the root) and the bit past the
    table set. So the first allocation takes the last free inode, and the
    second fails on a full map.
  - `inode_range` uses a 2-bit garbage word over a 3-bit map, so bit 2 is
    clear.
  - Two processes are enough for one to sleep in `bread()` holding the lock
    while the other's call waits.

- **Console:** a 5 x 3 screen. The characters are text, `NL`, `CR`, `TAB`,
  `BS`, `ESC`, `[`, `?`, `;`, the digits 0, 1, 2, 4 and 5, the command letters
  and one unknown letter. The parameter values are 0, 1, 2, 4, 25 and 41, with
  their prefixes. Digits go to the first two parameters, but `;` still fills
  the buffer, so the "no room" reset happens.

  These inputs reach:
  - a tab, a wrap and a scroll on the last row;
  - a backspace at the start of a row;
  - `CUP` clamped by the screen;
  - every erase mode, 3 and a mode above 3 included;
  - cursor hide and show;
  - bold, reset and a background colour.

  The digit 7 is left out (reverse video, 37 and 47). With it, the parameter
  buffer and the colour state multiply the space past a run's time.

- **Stdio:** `BUFSIZ = 4`, reads of 2 bytes, and files `""`, `"a\n"` and
  `"\naa"`. The stream holds at most 5 bytes (`MaxStream`).
  - Pushing back `'a'` five times first fills the 3-byte `_ubuf`, then moves
    it to a `BUFSIZ` block, then doubles that block. This reaches both
    branches of `__submore()`.
  - `ungetc()` gets `EOF`, `'a'` and 353 (`'a' + 256`), which checks the
    `unsigned char` conversion.
  - The caller's `*n` is 0 or 4. With 4, a 3-byte line fills it and `getdelim()`
    doubles it.
  - The initial flags are read, write, read-write, and read-write while
    writing, so every branch of `_ungetc_r()`'s flag test is taken.

- **Keyboard:** eight keys, with any subset of them held at boot (256 initial
  states). Both keys of each modifier pair are included, so one is released
  while the other is down. The right Ctrl key is included, so its 0xE0 byte
  clears `ANY` between the other events.

## Fairness

`pm_live` assumes:
- **Strong fairness of `Preempt`.** The clock interrupt fires forever, and it
  preempts a process found in user mode whose quantum is spent.
- **Weak fairness of the two kernel continuations (`sig`, `ns`).** A kernel path
  that has the processor runs to its end.

They are written with cheap state predicates, as the comment in `PM.tla`
explains. `Preempt` is enabled as a step that changes the state exactly when
`PreemptMoves` holds: `IDLE` running alone, with no alarm to deliver, yields
to itself.

`pm_sleep` uses `SleepSpec`, which adds `SleepFairness`:
- **Strong fairness of the calls of `sleep()`.** A process in `sleep()` that
  is in user mode executes its next call unless it is preempted first.
- **Weak fairness of `Tick`.** The clock is a hardware interrupt.

`inode_ops` assumes:
- **Strong fairness of taking the superblock lock** (the `...Body` actions).
  A sleeper is woken at every unlock and is eventually scheduled, which is
  `StarvationFree`.
- **Weak fairness of the step after a disk wait.** The disk request completes.

## Not modelled, and the plan

The next modules are:
1. **The rest of `inode.c`:** the zone map of `create_block_map()` and
   `block_alloc`/`block_free` shared with `MinixFile`.
2. **`minix_mkfs()`'s sizing and zone map** (`dimensions`, `init_super`,
   `create_block_map`). The zone map is copied from an uninitialised array,
   as the inode map is. The zero fill stops `size` bytes in, short of the end
   of the device.
3. **The value `sleep()` returns.** `signal_recv` is never anything but
   `SIGALRM`, so a `sleep()` cut short by another caught signal returns 0.
   Showing it needs the seconds left in the model and a violation run, and
   the budget of 12 runs is full.
4. **The wide-character algorithms** (`wcsstr`, `mbstowcs`), as operators
   checked against reference definitions, when a run is free for them.
   `mbsrtowcs()` only calls newlib's `_mbsnrtowcs_r()`, which is not in the
   repository.

Hardware setup, formatting wrappers and the host tools are out of scope.
