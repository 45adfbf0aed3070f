# A verification of the lexyOS kernel in TLA+

lexyOS is a small x86_64 kernel in C: it boots from a multiboot2 image, sets up
interrupts, physical and virtual memory and a heap, unpacks a tar archive as its
root file system, and then runs one loop that reads the keyboard, feeds a shell
or a game on one of six text terminals, and draws them. This directory holds
TLA+ modules that model it, TLC configurations that check them on small
instances, and proofs that TLAPS checks for every value of the constants.

Run, in this directory, `tlc -config Heap.cfg MCHeap` (and so on, see *Runs*)
and `tlapm` on `HeapProofs.tla`, `InputLoopProofs.tla`, `VmmProofs.tla`,
`VfsProofs.tla`, `TtysProofs.tla`, `ShellProofs.tla`, `SnakeProofs.tla` and
`TetrisProofs.tla`.

## 1. The system

The kernel has **one thread**, `kernel_main`'s loop, and **two interrupt
handlers** that preempt it: the timer's and the keyboard's. No handler calls the
heap, the memory managers, the TTYs or the shell; the only memory shared between
a handler and the loop is the keyboard's ring (and the tick counter). So
interleaving matters in the input path alone. Everywhere else the hard behaviour
is long sequences of legal calls over a hand-made data structure, operations that
fail half-way, and two pieces of state that must keep agreeing.

| component | source | state it keeps | operations | used by | model |
|---|---|---|---|---|---|
| heap | `mm/heap.c` | `free_list` of block headers in the arena, `used_size` | `kmalloc`, `kmalloc_aligned`, `kcalloc`, `krealloc`, `kfree` | VFS, tarfs, the mains | `Heap` |
| physical memory | `mm/pmm.c` | `memory_bitmap`, `used_blocks` | allocate and free a page or a run | `vmm.c` | `Pmm` |
| virtual memory | `mm/vmm.c` | page tables in allocated pages, `kernel_pml4` | init, map, unmap, translate | `kernel_main` | `Vmm` |
| keyboard | `drivers/input/keyboard.c` | ring of events, modifier flags, `extended_key` | interrupt handler (producer), `keyboard_poll_event` (consumer) | TTY layer | `Keyboard` |
| interrupts, main loop | `arch/x86_64/idt.c`, `isr.asm`, `kernel/kernel.c` | IDT, PIC | `irq_handler`, `kernel_main` | - | `InputLoop` |
| TTY layer | `ui/tty/tty.c` | `ttys[]`: mode, command buffer, screen, backup of all of it; `current_tty` | register, switch, poll input, change mode, back to the shell | main loop, shell | `Ttys`; dispatch in `InputLoop` |
| shell line editor, history | `ui/shell/shell.c`, `shell_history.c` | buffer, cursor, history, completion | one handler per key | TTY layer | `ShellLine`; with its drawing `ShellScreen` |
| shell commands | `ui/shell/shell_commands.c` | `cwd`, mode of the TTY | text output, `cd`, `snake`, `tetris` | shell | `ls`, `cat`, `cd` in `Vfs`; games in `Ttys` |
| VFS, tarfs | `fs/vfs.c`, `fs/tarfs.c` | descriptor table, mount, `cwd`; table of nodes over the archive | open, close, read, write, seek, path walk; init, readdir | shell commands | `Tarfs`, `Vfs` |
| snake | `ui/terminal_games/game_snake/` | globals: snake, food, direction, score, flags | init, update, draw, input | TTY layer | `Snake`; its flags in `Ttys` |
| tetris | `ui/terminal_games/game_tetris/` | globals: board, piece, score, flags | init, update, draw, input | TTY layer | `Tetris`; its flags in `Ttys` |
| framebuffer console | `ui/fb_console.c` over `drivers/video/framebuffer.c` | cursor cell, its underscore, colours, pixels | put, write, scroll, clear, move, erase | shell, games | `Console` |
| timer, PIC, exceptions, boot, serial, VGA text, fonts, strings | `arch/`, `drivers/`, `lib/` | - | - | - | not modelled |

How they interact: the keyboard's interrupt handler decodes scancodes into the
ring; the main loop takes events from it with interrupts off, and hands each to
the TTY in front, whose mode selects the shell or a game; the shell edits a line,
and on Enter runs a command, which may change the mode of its TTY (a game) or
call the VFS, which calls tarfs through a table of function pointers; both use
the heap for nodes. `vmm.c` takes its tables' pages from `pmm.c`.

What is hard, and what makes each component correct (`PROJECT.json` lists every
hazard at its line):

* **heap** - any sequence of calls keeps the block list a tiling of the arena
  (no gap, no overlap), two clients never share a byte, merging leaves no pair of
  free neighbours, so `kmalloc` fails for want of room only.
* **keyboard and loop** - producer in an interrupt, consumer split around
  `cli`/`sti`: no event is lost unless the ring is full, none comes twice or out
  of order; a key goes to the TTY in front *at its place in the typing*; nothing
  waits for ever when a key arrives between the empty poll and `hlt`; a prefix
  byte counts for its own key only; a modifier's flag neither sticks nor is missed.
* **memory managers** - a page has one use; no page table is reachable on two
  ways, though a walk may fail with some tables made; mapping a page changes its
  translation and no other.
* **TTYs, games** - ESC in a game comes back to a shell, and the line it brings
  back is the one on the screen; games keep global state though each TTY may run
  one; a snake is an unbroken path and its food lies beside it; full lines go and
  leave the others in order, and a piece is never in the stack.
* **shell line** - the line is an editor's after every key; the history restores
  the line that was being typed; the 0 that every string function needs is there;
  the row that each key redraws in its own way shows that line, with the cursor on
  the character the next key changes.
* **console** - the underscore that stands for the cursor is drawn and erased by
  every function by hand: there is one, where the cursor is.
* **VFS, tarfs** - descriptors and positions stay valid; a table that is filled
  half-way is not read beyond what was filled; `cat` puts a text on the screen in
  pieces of its buffer, and no byte is lost or comes twice where two pieces meet.

## 2. Modules

### Heap (`Heap`, abstract specification `Allocator`, instance `MCHeap`)

`block` is the list: a function from the address of a header to its fields; an
address is an offset from `heap_start`. Each call is one action
(`kmalloc`, `kmalloc_aligned`, `kcalloc`, `kfree`, `kreallocInPlace`,
`kreallocMove`), with the split in `Allocated`. `merge_free_blocks`, a loop that
changes the list it walks, takes one step per iteration with its cursor in `cur`;
no other call starts while it runs. Rounding is done modulo 2^w as in the code,
and `used_size` wraps likewise. `held` is what the clients know: the pointers
they own and the sizes they asked for. Calls that fail change nothing.

`Allocator` says what a heap promises in terms of `held` alone: a new region is
in the arena and clear of the others; a region stays where it is; `krealloc` may
move it to a place clear of the old one as well, so that it can be copied.

### Input (`Keyboard`, `InputLoop`, abstract specification `EventQueue`, instance `MCInputLoop`)

`Keyboard` has the driver's variables under the code's names and its handler,
`keyboard_handler(byte)`: the prefix, the modifiers, Alt+Fn, the extended keys,
the plain keys, and what each drops or enqueues. `focus` is an auxiliary: the TTY
that would be in front if all that was typed so far had been handled; an event
carries it in `for`. Nothing in a guard or another variable depends on it.

`InputLoop` adds the two threads of control. The user presses and releases keys,
which send bytes; the timer ticks; an interrupt is taken when `IF_flag` is set and
the PIC waits for no end of interrupt; `irq_handler` runs in one step because it
is entered through an interrupt gate. The main loop is split at every point where
an interrupt can come between: `poll_cli`, the test of the ring (`poll_empty`,
`poll_copy`), `poll_advance`, `tty_poll_input`'s dispatch, `update_and_draw`,
`hlt`. An interrupt taken in `hlt` continues at the loop's top.

`EventQueue` is a bounded FIFO. Under the refinement an event leaves the queue at
`poll_copy`, not when the tail advances: the slot is read there, and the handler
cannot run in between (`Control` in the proof says why).

### Memory (`Pmm`, `Vmm`, `KernelMemory`, abstract specification `AddressMap`, instances `MCVmm`, `MCKernelMemory`)

`Pmm` keeps `memory_bitmap` as the set of pages whose bit is set; `Searched` is
the whole words of it that the searches look at, `Available` the part `pmm_init`
clears. `Vmm` keeps the contents of every page a table can be in, a page nobody
cleared holding junk that looks like entries. `vmm_map_page` takes one step per
level (`GetTable`, `CreateTable`, `NoTable`) and one to store the entry;
`vmm_init` allocates the top table and maps the kernel's pages one by one.
`AddressMap` is a function from pages to entries where each operation changes one
page. `KernelMemory` adds where the linker puts the heap's array.

### Files (`Tarfs`, `Vfs`, instance `MCVfs`)

`Tarfs` has the archive, `tarfs_init`'s two passes over it with an allocation per
file that may fail, `finddir`, `readdir` and the reads. The heap is what `Heap`
promises: a request fails when less is left than it needs, and a larger one that
follows fails too (`StaysExhausted`). `Vfs` has the descriptor table, the walk of a
path from the root or the working directory, and the commands that use them: `cat`
and `ls` take one step per call of the VFS, so that opens, seeks and closes of
other users of the table come in between. A file is a UTF-8 text, of which a header
keeps, for each byte, the number of the character it belongs to (0 for a NUL).
`fb_console_write` says what the console makes of a piece of it that `cat` read: it
stops at a NUL, and shows the bytes of whole characters; what it shows in the place of
a character of which the piece has only a part - `decode_utf8` takes the 0 behind the
piece for the rest, and the loop goes on behind that - is `Wrong`, however long it is.
`printed` holds the places of the bytes shown.

### Terminals (`Ttys`, instance `MCTtys`)

`ttys`, `tty_backup`, `current_tty` and the flags of each game; `screen` is what
is on it, a shell's line or a game's picture, and whether the cursor shows.
`tty_change_mode`, `tty_restore_to_shell` and `tty_switch` are operators of the
actions that call them: the command that starts a game, ESC, Alt+Fn. A frame of the
main loop updates the program of every TTY and draws the one in front; a game moves
with every `Interval`-th update, counted over all TTYs that play it.

### The shell's line (`ShellLine`, abstract specification `LineEditor`, instance `MCShellLine`; on the screen: `Console`, `ShellScreen`, instance `MCShellScreen`)

One terminal's `command_buffer` with all its bytes, also those behind the end,
`buffer_index`, `cursor_position`, the history with its index and the draft in
`temp_buffer`. One action per key; a loop that shifts characters is one function
update. `LineEditor` is a text with a cursor and a list of past lines; it says
what every key does to the text. Two things it has to say for the code's sake: the
backup of a game is taken before Enter empties the line (`tty.c:140` before
`shell.c:198`), so ESC brings the executed line back, with the 0 of the parse in it
if it had an argument; and what lies behind that 0 is kept neither as a draft nor in
the history.

`Console` has the functions of `fb_console.c` as operators on a record: the cells,
the cursor's cell, whether it is visible, and the cells with an underscore at their
foot. Erasing and drawing the underscore are explicit, in the code's order.
`ShellScreen` joins each key of `ShellLine` with what its handler draws, loops
included (Home is as many steps left as the cursor is from the start), and adds
what only draws: Tab's lists and the way back from another terminal. Two auxiliary
variables no guard reads: `anchor`, where the last prompt ended, and `parted`, which
becomes true when a key draws something else than the line: Ctrl+K with characters
behind the cursor and Ctrl+U with any (they write spaces and stay behind them), the
history or a completion with the cursor inside the line (they step back from the
cursor as often as the line is long, into the prompt), a line redrawn after a game
with the cursor or a 0 inside it, a prompt over cells that are not blank, and a line
that does not fit its row. The next prompt on a clean row ends it. The height may
be any; a screen of one row is its last row, where every new line scrolls.

### Snake (`Snake`, instance `MCSnake`)

The game's globals and its functions, which the loop, the keys of any TTY in game
mode and the shells' `snake` commands call in any order. The random generator is
the set of cells it can draw: seed, multiplier and increment make its numbers odd
and even by turns and the sides are even, so an even tick count gives cells in even
columns and odd rows only, an odd one the others' mirror. When all of them are
under the snake the loop of `spawn_food` does not end and `searching` becomes true:
no step follows.

### Tetris (`Tetris`, instance `MCTetris`)

The game's globals. In this code a piece is one cell that falls from the middle of
the top row; no rotation, no shapes. `check_lines` is the code's loop with `y++` as
a recursive function, a turn of it being `CheckRow`; `Land` is lock, check, spawn and the bonus of a
hard drop. As with the snake, calls of several terminals come in any order, and keys
move the piece of a game that another terminal has ended. The score is modulo 2^32.

## 3. Runs

| run | config | shows |
|---|---|---|
| `heap` | `Heap.cfg` | `Tiling`, `HeldBacked`, `Coalesced`, `NoFalseExhaustion`, the refinement of `Allocator`, and that every merge ends |
| `input_order` | `InputOrder.cfg` | the ring refines `EventQueue`; keys reach the TTY in front at their place in the typing (`DispatchInFront`); a press is lost only on a full ring |
| `input_progress` | `InputProgress.cfg` | every queued event is handled and every byte read (`EventsHandled`, `BytesRead`); once every byte is read, a modifier's flag is clear while none of its keys is held and set while all are (`ModifiersFollow`); a prefix counts for its own key alone (`PrefixForOneKey`) |
| `address_space` | `Vmm.cfg` | `PagesAccounted`, `NoSharedTable`, `IdentityMapped`, the refinement of `AddressMap` |
| `kernel_memory` | `KernelMemory.cfg` | *finding*: the end of the heap's array is handed out as free pages |
| `file_system` | `Vfs.cfg` | no half-filled table is ever mounted (`MountedComplete`); every descriptor belongs to one user (`DescriptorsAccounted`); `ls` lists every file, and `cat` shows every byte of a text, once and in order but for characters its buffer cuts (`OutputComplete`); both end (`CommandEnds`); `CwdIsDirectory` |
| `terminals` | `Ttys.cfg` | modes, functions and backups agree (`ModesAgree`); the line on the screen is the one Enter runs, and the cursor shows (`LineOnScreen`); no game runs that nobody plays (`RunningIsPlayed`); a running game in front gets shown (`GameIsShown`) |
| `shell_line` | `ShellScreen.cfg` | the buffer implements `LineEditor`; it is `Terminated`; the row shows the line and the cursor, and one underscore is on the screen (`RowShowsLine`) |
| `shell_completion` | `ShellCompletion.cfg` | *finding*: Tab replaces the command when a space is before it |
| `snake` | `Snake.cfg` | `SnakeIsPath`, `FoodFree`, `PictureIsDrawn`, and how long a snake must be before the search for food may never end (`SearchEnds`) |
| `snake_reverse` | `SnakeReverse.cfg` | *finding*: two keys between two moves reverse the snake |
| `tetris` | `Tetris.cfg` | `check_lines` takes the full rows out of every board and leaves the others in order (`LinesCleared`); the piece is free until the game is over (`PieceFree`); no keys keep it in the air (`PieceLands`) |

**Bounds.**

* *Heap*: an arena of 21 units with a header of 3 and blocks in steps of 2, the
  proportions of the code (24 and 16 bytes in 8-byte words). Four smallest blocks
  fit, so there are blocks with free neighbours on both sides and chains of three
  to merge; requests of 1 and 4, their rounding to 4 and doubles give exact fits,
  splits, and remainders too small to split off. `SizeMod` 32 makes the statistic
  wrap.
* *Input*: three slots in `input_order`, so two events fill the ring and head and tail wrap with
  every third key; at most one key's bytes on the line (`MaxBytes` 1, an extended
  key still sends two); two TTYs. Keys are the ones that take different paths:
  `input_order` has Alt, F1 and F2 for the switch; `input_progress` has an arrow and
  a letter for the prefix and both shifts, a code each and one flag, over a ring of
  two, which one event fills.
* *Memory*: four entries to a table, four pages to a word. As in the code, one
  word is enough for the tables of the identity map. Three machines: 6 pages (none
  beyond the kernel's in a whole word), 10 (tables exhaust it half-way through a
  walk, and the last word is not whole), 17 (more than the bitmap covers). The
  virtual pages are neighbours in the kernel's own page table and one that shares
  no table but the top.

* *Files*: five archives (an empty one, files, files whose characters the reads cut
  and do not cut or with NULs among them, a directory, a header that is not one of
  tar), memory for some of the nodes, two descriptors, reads of two bytes of files of
  up to seven: they end at, before and beyond a multiple of the buffer, with characters
  of one, two and three bytes on either side.
* *Terminals*: two TTYs, one game that both may play, lines of two words, a move
  with every second update.
* *Shell line*: three characters and the 0; a letter and the space, so that shifted
  characters differ, and command, argument, leading and inner spaces fit. History of
  two, so the third line pushes one out. A line may be empty, have an argument, or a
  space before it; one command starts a game. The screen is one row of five cells, a
  prompt of one: the longest line reaches the last column, which the code treats
  apart. `shell_completion` has four characters and the 0, and the slash that
  completion adds.
* *Snake*: 4 by 4 cells inside the walls, 8 of which can have food, 4 from one tick
  count; the snake grows until it covers them all or the field. Every call moves
  the snake (`SNAKE_UPDATE_INTERVAL` 1): any number of keys may come between two
  moves anyway.
* *Tetris*: 4 by 3 cells, an update moves with every second call. A locked piece fills
  one row at most, so play never clears two at once; `LinesCleared` therefore
  compares `check_lines` with its definition over all 4096 boards, before the first
  game. The score only has to wrap (`ScoreMod` 3): nothing reads it but the picture.

`Vmm.cfg` turns deadlock checking off: with no page for the top table `vmm_init`
returns, nothing can be mapped or allocated, and the model rightly stops. So does `Vfs.cfg`,
where nothing can happen when no file system was mounted, and `Snake.cfg`, where a
search that does not end stops everything.

**Fairness.** `Heap` has weak fairness of `merge_free_blocks`: nothing preempts
the kernel's thread for good. `InputLoop` assumes the timer ticks for ever and a
handler once entered returns (weak), and that pending interrupts are taken and
the main loop gets steps although timer interrupts keep coming (strong): a
handler takes far less than the millisecond between ticks. `Vfs` has weak fairness
of the boot and of the command that runs, `Ttys` of the main loop's frame: the
timer ends every `hlt`. `Tetris` has weak fairness of `tetris_update`: the loop
updates the program of every terminal in each turn, whoever is in front. The memory
runs, the shell line and the snake are safety only.

## 4. Proofs

`HeapProofs` proves, for every arena, header size, alignment and set of requests
that meet `ConstantsAssumption` and `RequestsAssumption` (sizes small enough that
rounding does not wrap, which every caller in the kernel meets):
`Spec => []TypeOK`, `[]Tiling`, `[]HeldBacked`, `[]Coalesced`,
`[]NoFalseExhaustion`, `StaysExhausted`, and that `Heap` implements `Allocator`. The inductive
invariant is the conjunction of the first four. None is inductive alone: that a
split stays in its block needs the types and the tiling, that a freed pointer's
header is on the list needs `HeldBacked`, that a merge adds adjacent blocks needs
`Tiling`. `NoFalseExhaustion` follows from them: an untouched stretch lies in
free blocks, which are one block when neighbours are merged. `StaysExhausted`, that
a request that was refused is refused until something is freed, is what `Tarfs`
relies on.

`InputLoopProofs` proves, for every ring size, set of keys and set of TTYs that
meet `RingAssumption`, `CodesAssumption`, `TTYAssumption` and `KeysAssumption`:
`Spec => []TypeOK`, `[]DispatchInFront`, `LostOnlyWhenFull`, the refinement of
`EventQueue`, `[]ModifiersFollow`, and `[]PrefixForOneKey` under a hypothesis. The invariant adds to the types `Control` (inside the poll the
interrupt flag is clear and no handler runs, so the ring cannot change between
copy and advance) and `Typed` (the queue is a chain: each event is `for` the TTY
that the event before it leaves in front, starting from `current_tty` and ending
at `focus`). Most of the work is modular arithmetic: that filling the head
appends to `Queue` and advancing the tail removes its first element.

`FlagsFollowKeys` proves `[]ModifiersFollow` for any number of keys to a modifier, with
the same code or different ones, with a prefix or without. Its invariant `Tracked` says
of every modifier: take the last byte of its keys still on its way, or the flag if none
is; if it says pressed, one of the keys is held, and if all of them are held, it says
pressed. With one key to a modifier both together say that the flag is whether the key is
held; with one of two shifts held nothing is true, as the release of the other clears the
flag (see *Findings*).

`PrefixCountsOnce` proves `[]PrefixForOneKey` under `PrefixTells`, which is about the
keyboard and stated in the theorem, not assumed of the module: a plain key whose code an
extended one has is a modifier. The keypad's plain keys have the arrows' codes, and an
event of theirs could not be told from an arrow's that lost its prefix. The
invariant `Wire` says that each byte on its way, and the flag `extended_key` for the
first, has the prefix before it exactly if its key sends one, and that no prefix is last.
`CodesAssumption` leaves code 0x60 out: its release would be the prefix byte, and no
key of a PC has it.

`VmmProofs` proves `Spec => []PagesAccounted`, `[]NoSharedTable`, `[]IdentityMapped`
and that `Vmm` implements `AddressMap`, for every size of a table, of the bitmap, of
its words and of memory that the assumptions of `Pmm` and `Vmm` admit. The heart is
`IsTree`, a predicate of a memory and a top table: every present entry of the upper
three levels points to a page that can be a table, none to the top table, and no two to
the same one. It is kept when a new table is hung under a slot that was not present
(`Grown`) and when an entry of a page table is stored, whatever it points to
(`Stored`). `Safe` adds the accounts of `PagesAccounted` and where a
`vmm_map_page` under way stands: its table is the one the walk for its page reaches.
A walk to another page passes through other entries, so its translation stays
(`AddressMap`). The four indices tell two pages apart only below 2^36
(`AddressAssumption`: 48 bits of address). `IdentityMapped` needs more, as `vmm_init`
does not look at what `vmm_map_page` returns: `Mapped` says that until the kernel's
pages are mapped all used pages of the first word beyond the kernel's are tables of one
PML4, PDPT and PD and of page tables counted by the pages mapped so far, so that the
word has a page left whenever one is asked for (`BootAssumption`: 4096 kernel pages fill
words of 32 bits, one PD of 512 reaches them, and 3 + 8 tables are at most 32).

`VfsProofs` proves `Spec => []MountedComplete`, `[]DescriptorsAccounted`,
`[]OutputComplete` and `[]CwdIsDirectory` for any archives, heap, sizes and commands.
The table is complete because a refusal is remembered: while it is filled, either
it has the files seen so far in order, or a request of a node's size was refused, and
then the one for the root is refused as well (`Tables`; that the heap behaves so is
`StaysExhausted`). `ls` and `cat` carry what they have put out so far (`Running`):
a read of `cat` begins at a multiple of its buffer or at the file's end (`AtPiece`), so
what the console shows of the piece goes on where the text before it ended (`Shown`), and
a byte is `Wrong` only if its character lies across one of the multiples (`Torn`,
`CutsTear`). The walk of a path is a
function over its parts; that it exists, and ends at a node or at none, is shown by the
least part at which it would not, and that a directory comes out of `cd` follows
from its own test.

`SnakeProofs` proves `Spec => []FoodFree`, `[]SnakeIsPath`, `[]SearchEnds` and
`PictureIsDrawn` for every field that meets `GridAssumption`. The invariant of the first adds to `FoodFree` that a game that
moves has a snake, a sequence of cells; the lemma that carries it says which cells a
snake that has moved can lie on. `Spec => []SnakeIsPath` has an invariant of its own:
beside the path it needs only that the heading is one of the four directions once there
is a snake. A move from a path gives one without a doubled end (`MovedPath`), because
the end is what a move leaves behind, and growth doubles the end of one (`GrownPath`).
`SearchEnds` follows from the path: a search does not end when the snake covers the cells
of one tick count, of which there are (w/2)(h/2) in a field of w by h (`FoodCount`) and
no two of which are neighbours (`FoodApart`), so that a path over all of them has a
cell between each two: at least twice as many less one (`PathCovers`).

`TtysProofs` proves `Spec => []ModesAgree`, `[]LineOnScreen` and `[]RunningIsPlayed`
for any finite set of terminals, any games and any words. The three are one
inductive invariant with the shapes of the records: that a return shows the line it
brings back needs that the backup is a shell's (`ModesAgree`), and that ESC may stop
the game it stops needs that this terminal plays it. A line that comes back with the
NUL of its parse is on the screen up to that, and words typed behind it are on the screen
but not behind the NUL's place in it: there the invariant is that both begin with the
same word, the command. Lines are sequences with a NUL
somewhere; two lemmas say that a line without one is written whole and that the
parse makes a line of a line.

`ShellProofs` proves `Spec => []Terminated` of `ShellLine` for every size of buffer
and history that meets `SizesAssumption` and `StringsAssumption`, that `ShellScreen`
implements `ShellLine`, and so `ScreenSpec => []Terminated`. `Terminated` is
inductive as it stands: besides the 0 it holds the types, the lengths of history and
draft, and the same of a game's backup. The lemmas it rests on are about C's strings:
a string cut at its first NUL has none and is shorter than the place of any
(`CStringOf`, from the least element of a set of numbers), and the places of the next
space and word lie in the string or just behind it (`PlacesInString`).
It also proves that both implement `LineEditor` (`RefinesLineEditor`), one lemma per
key: the loops that shift characters are what putting one in or taking one out does
to a sequence (`PutIn`, `TookOut`), what is remembered of the text is the string in
the buffer (`StrIsKept`), and a line added to a full history pushes the oldest out
(`AddedRefines`). The invariant is `Terminated`: without the 0, draft and history would
be longer than the text.
Last, `ScreenSpec => []RowShowsLine` for every size of the screen, prompt, line and
history that meets `ScreenAssumption`: the prompt is shorter than the screen is wide,
a new line is neither typed nor in the prompt, every command that prints ends with one
(read off `shell_commands.c`), and commands and files are finite sets, so
that the list Tab prints ends. The invariant is `Terminated` with `Shown`: unless a key
has parted the two, the cursor's row is the prompt, the text and blanks, the line
begins behind the prompt, and the cells marked are the cursor's own while it is
visible, else none. Each loop of the console has a lemma of what it leaves, by
induction over its turns (`LoopExists`: the recursive function is there; `Induction`: what
each turn keeps holds after the last); `RowBecomes` says what writing a string into a row
makes of the line, and every key's redraw is a case of it.

`TetrisProofs` proves `Spec => []PieceFree` for every board that meets
`BoardAssumption`: the invariant adds only that a game that runs has a piece. It
needs nothing of `check_lines`, because the spawn looks at whatever board it leaves.
`[]LinesCleared` is about `check_lines` alone. Its invariant over the turns of the loop
(`Looking`) says that the board down to row y is the old one moved down by the full rows
found so far, that these are the full rows below row y - lines of the old board, and
that every other row from there on is at its place; after 2 * BOARD_HEIGHT turns y is
-1, as each turn goes up a row or finds one of at most BOARD_HEIGHT full ones. The
recursive function is proved to exist, and the invariant to hold at each turn, by the
least turn at which it would not.

Only model-checked: liveness (`MergeEnds`, `EventsHandled`, `BytesRead`, `CommandEnds`,
`GameIsShown`, `PieceLands`), which rests on fairness and `ENABLED`, out of the prover's
reach. Every invariant, action property and refinement of the passing runs is proved.

## 5. Findings

Each is a run that TLC ends with a counterexample:

1. `pmm.c:94` keeps the first 16 MiB back, but the 16 MiB heap array starts above
   the load address of 1 MiB (`kernel_memory`).
2. `shell_history.c:177` takes a space before the command for its end: completing
   the argument replaces the command (`shell_completion`).
3. `game_snake.c:252` compares a key with the last key, not with the last move: two
   keys turn the snake into its neck (`snake_reverse`).

Seen on the way, without a run: `heap.c:195` credits the block's size, `heap.c:121`
charges the request's, so `used_size` drifts; `shell_history.c:83` "Clear current
line" takes as many characters back from the cursor as the line is long, which
with the cursor inside the line erases the prompt instead; Ctrl+K and Ctrl+U leave
the console's cursor behind the spaces they write while `cursor_position` stays; a
line longer than its row, and the last column, are not redrawn where they are; after
ESC or Alt+Fn the console's cursor is at the line's end though `cursor_position` may
be inside it (the model's `parted` marks all of these); the first digit of a score from
100000 on is no digit (`game_tetris.c:101`); `pmm.c:102` counts blocks of 32 pages where
`pmm.c:129` and `156` count pages; `keyboard.c:80` clears `shift_pressed` when either
shift comes up, also while the other is held (`ModifiersFollow` says what holds all the
same); `shell_commands.c:433` writes a full buffer to the console though its last
character may go on in the file: `fb_console.c:265` and `268` take the 0 for the rest of
it, and the next piece begins with bytes that are no characters (`OutputComplete` allows
`Wrong` for such a character, and only for it); the search for food can stop the kernel when the snake covers half the field, 341 of
684 cells (`SearchEnds` says not earlier); a game that is ended on one TTY stands
still on another that had it too, and after a switch away and back that one is blank, as
`snake_update` and `tetris_update` return before they ask for a draw (`GameIsShown` is
therefore about games that run); the name of a directory whose entry in the archive
ends in a slash can be reached by no path, as the walk takes slashes away.

## 6. Not modelled, and why

Contents of heap blocks and characters of events (functions of fields that are kept);
the boot code and its order (one path, no choice: interrupts are on while it runs, but
nobody reads the ring, which `keyboard_init` empties; a modifier held across it counts
as released until it repeats, and a prefix can be cut from its key there); exceptions
(they print, and those up to number 14 halt); `irq.c`'s handler table (never read);
`vmm_switch_page_directory` (never called); serial, VGA text and fonts (output and
data, mostly unused); strings (pure functions). Sizes near 2^64 in `kcalloc` and
`kmalloc` are assumed away: no caller in the kernel passes one. Of the file system:
the values of a file's bytes (which character each belongs to is kept), files that
are not UTF-8, paths longer than its buffers. Of the keyboard: the extra shift codes some
keyboards put around the arrows' (E0 2A and E0 AA). Of the
shell's line: a completion longer than the buffer (`shell_history.c:195` does not test
for it; the model leaves such a step out). Of the console: colours, the bytes of a
character, box and braille glyphs, a change of the font's scale with text on the
screen, `fb_console_insert_char_at_cursor` (never called), and the foot of a glyph
under the underscore. Of the games: the pictures, which one step draws. What commands
print is any of a few texts.

## 7. Plan

In this order; each with its MC module, a run, and one mutant per property.

1. `Ttys` with `ShellLine` as its line instead of words, so that several terminals
   edit lines on one console, and `TtysProofs` over it.
2. The console's remaining functions, with a change of the scale.
