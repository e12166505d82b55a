# Models and proofs of funbox

funbox is a program of several emulators (PlayStation, PlayStation 2, Switch, Java ME,
DOS, Game Boy Advance and beginnings of others) on a common core: an allocator, a few
containers, a user-space file system, files, logging and a dynamic recompiler. This
directory holds TLA+ modules that model parts of it, the TLC configurations that check
them, and proofs, which TLAPS checks, about the allocator, the hash table, the Robin Hood
map, the vector, the list, the recompiler's cores and blocks, the logger, the file system in
user space, the encrypted files and the sessions of the Switch's system, the PlayStation's
processor, and the PlayStation 2's schedule and its EE.

Paths below are relative to the repository; sources are under `src/`.

    tlc -config AllocatorMC.cfg AllocatorMC      model-check one run
    tlapm StorageProofs.tla                      check the proofs of one module (and of
                                                 CoreProofs, ProcessorProofs,
                                                 StarSys2Proofs, ArchivesFacts,
                                                 SupernxProofs, LoadProofs and
                                                 NumberFacts)

`ArchivesFacts` and `SupernxProofs` take tlapm a quarter of an hour each, `CoreProofs` and
`LoadProofs` about ten minutes.

## 1. Inventory

| Component | State | Operations | Interacts with | What is hard |
|---|---|---|---|---|
| Allocator, `core/util.c` | `ht_mm`, the table of mapped blocks; `ht_mutex`; the heaps | `fb_malloc`, `fb_free` | everything; its own table allocates through it | the table is made and destroyed without the mutex; it grows, and frees what it outgrew, on whichever thread inserts; nested calls; two threads |
| userfs, `core/fs/userfs.c` | `userfs_points`, the tree, `next_inode`, the session | `userfs_create`, `userfs_mountfile`, `userfs_destroy`, six FUSE handlers | allocator, list, host files, kernel | a FUSE thread walks the tree without a lock while the main thread adds to it |
| Hash table, `core/algo/ht.c` | bucket, value blocks | insert, get, erase, grow | allocator, `keys_db.c`, `arm64_table.c` | growth within growth, pointers kept by callers |
| Robin Hood map, `core/algo/robin.c` | bucket, secret | emplace, get, grow | `arm/jit.c` | displacement and wrap-round, growth re-emplaces everything |
| List, `core/algo/list.c` | cells, `tail`, `head` | push, emplace, drop, get, locate, size | nearly everything | both ends after a drop; callers that drop while iterating |
| Vector, `core/algo/vector.c` | size, capacity, data | create, emplace, setsize, clone, get, size | containers, files, archives | sizes in bytes and in elements; capacity and block drift apart |
| Set, `core/algo/set.c` | a list of keys and values in turn | set, get | playme's manifest | - |
| Host files, `core/fs/file.c`, `dir.c` | handle, page list, cached files | open, read, write, flush, close | logger, archives, userfs | pages hold pointers; shared handles; closing a list while iterating |
| Logger, `core/logger.c` | buffer, count, file | write, flush, destroy | paged file | buffer reused while the file still points to it |
| Recompiler, `core/arm` | cores, blocks | enable, disable, run, destroy | list, Robin Hood map | lifetimes of cores and blocks |
| nextps | registers, delay slots, cache, bus | `cpu_run` | SDL loop | delay slots within delay slots, cache refills |
| starsys2 | EE, IOP, DMAC, cycle counts | `cycles_step_devs`, `ee_run`, bus | bridge | random scheduling, branch delay slots |
| supernx | archives, keys, tickets | open, read, close at each layer | hash table, list, files | ownership across layers, reads split into sectors and blocks |
| playme | constant pool, methods, frames | load class, run | list | indices counted from one |
| redos | 8086 registers, memory | load, run | files | code that copies itself; segment and offset are joined bit by bit |
| finesh, psever, smallgba, stubs | none worth the name | open and parse | files | - |

Two threads exist: the main one, and one per mounted userfs (`userfs.c:115`). Everything
else is sequential; what is hard there is protocol, order and stale pointers.

`PROJECT.json` lists every component with its status and every hazard at its line.

What makes each component correct:

* allocator: no call goes through a table that is not there; the table says exactly which
  blocks are mapped; what a caller holds stays backed; the mutex is released;
* userfs: a request sees what was there when it came, never stands on freed nodes, and is
  answered; shutdown ends; files are where they were mounted;
* containers: they implement a map, a multimap, a sequence and an array, also in the middle of a
  growth, and their loops end;
* nextps, redos: each step is a step of the processor emulated, however the program got
  where it runs (through the cache, in a delay slot, in a copy it made of itself);
* starsys2: the devices get the cycles the affinity promises them, a step of the schedule
  ends, and a branch keeps its delay slot across the end of a slice;
* logger over paged files: the buffer holds, no line is dropped, and what is written is
  written before the buffer is used again;
* supernx: reads of encrypted files return the plaintext of the bytes asked for, at every
  layer; no layer is used after the one below it was closed; a session that ends has closed
  everything, and complete packages load;
* recompiler: cores and blocks that are held can be reached, and are freed once.

## 2. Modules

| Module | Models | Used by |
|---|---|---|
| `Allocator` | `util.c`: `fb_malloc`, `fb_free` | `AllocatorMC`, `StorageProofs` |
| `Userfs` | `userfs.c` | `UserfsMC`, `CoreProofs` |
| `KeyedStore` | abstract: a map | `HashTable` |
| `HashTable` | `ht.c`, and how `util.c` and `keys_db.c` use it | `HashTableMC`, `StorageProofs` |
| `StorageProofs` | theorems about `HashTable` (it implements `KeyedStore`) and `Allocator`, in this order | |
| `RobinMap` | `robin.c` | `RobinMapMC`, `CoreProofs` |
| `ItemSequence` | abstract: a sequence | `List` |
| `List` | `list.c` | `ContainersMC`, `ProcessorProofs` |
| `ItemArray` | abstract: an array | `Vector` |
| `Vector` | `vector.c` | `ContainersMC`, `CoreProofs` |
| `Recompiler` | `arm/dynrec.c`, `jit.c`, `th_context.c` and the translator's loop | `ContainersMC`, `ProcessorProofs` |
| `Logger` | `logger.c` over the paged file of `fs/file.c` | `LoggerMC`, `CoreProofs` |
| `CoreProofs` | theorems about `Logger`, `Vector` (it implements `ItemArray`), `Userfs` and `RobinMap`, in this order | |
| `AesFile` | `aes_file.c`, reads of `offset_file.c`, the writes of `ncz_create` | `AesFileMC`, `SupernxProofs` |
| `Archives` | a session of supernx: who opens, owns and closes what, from `nx_sys.c` down to `fs/dir.c` and `zip_fs` | `ArchivesMC`, `ArchivesFacts` |
| `ArchivesFacts` | the inductive invariant of `Archives`, and lemmas about what keeps it | `SupernxProofs` |
| `SupernxProofs` | theorems about `AesFile` and `Archives`, in this order | `LoadProofs` |
| `LoadProofs` | theorems about `Archives`: complete packages load; the second close of a descriptor hits nothing | |
| `R3000` | abstract: a step of the PlayStation's processor | `NextPS` |
| `NextPS` | `nextps/cpu.c`, `cache.c`, `cop0.c`, `bus.c` | `ProcessorsMC`, `ProcessorProofs` |
| `ProcessorProofs` | theorems about `NextPS` (it implements `R3000`), `List` (it implements `ItemSequence`) and `Recompiler`, in this order | |
| `I8086` | abstract: a step of an 8086 | `Pc8086` |
| `Pc8086` | `redos/pc8086.c`, `dospc.c` | `ProcessorsMC` |
| `StarSys2` | `starsys2/cycles.c`, `ee/ee.c`, `ee/dmac.c`, `bridge.c`, `iop/mips.c`, `sony.c` | `StarSys2MC`, `StarSys2Proofs` |
| `StarSys2Proofs` | theorems about `StarSys2` | |
| `NumberFacts` | lemmas about quotients, remainders and least numbers, no code | all proofs |

The `...MC` modules supply constants. `ContainersMC` and `ProcessorsMC` hold several
independent subjects: the variable `subject` says, from the first state on, which of them a
behaviour is about, and the others' variables do not move. Properties of a subject that is
an instance are given their name there (`RunsAs8086`) and are stated in its module. Operators whose comment begins with
"Mutant" are deliberately wrong versions of the definition that follows; no specification
uses them. They show, for each property, a plausible bug it would catch (`PROJECT.json`,
`mutants`).

`Archives` composes what the code composes: host directories, mapped files, packages,
archives, zips, tickets and services are objects of one heap. Where one module rests on
another's result it abstracts it: `HashTable` takes a vector for a function on its
indices, `Recompiler` and `Archives` take a list for a sequence, which `ContainersMC`
checks, and `Archives` takes the reads of `AesFile` for granted.

### Allocator

One variable per global (`ht_mm`, the mutex as `owner` and `depth`), the memory as sets
of addresses (`mapped`, `heap`, with `origin` the thread a heap block belongs to), and per
thread a program counter and the locals that survive a step (`ptr`, `table`). Each read or
write of shared state is one action: `Test` (`util.c:45`), `Claim` (46), `TryLock` (47),
`Publish` (48), `Release` (49), `Map` (56-58), `Lookup` (90-99), `EmptyCheck` (101),
`ExchangeRead` and `ExchangeWrite` (67-70, called at 103), `Destroy`, `Relock`, `Leave`.
What happens under the mutex in one go and touches nothing that others read without it
is one action.

`ht_create`, `ht_grow` and `ht_destroy` call `fb_malloc` and `fb_free` themselves. For the
first and the last `nest` counts such waiting calls, and the inner call runs through the same
actions as an outer one. A table is two heap blocks: the `ht_t`, an address, with its vector
and item, and the bucket, of which `buckets` keeps whose heap it comes from. A call that would
dereference null, `(void*)1` or a table that was freed sets `fault`, as does an `fb_free` of a
block, table or bucket of another thread's heap (`assert(mi_check_owned(ptr))`, `util.c:97`).

An insertion (`Map`) finds its slot free or taken. If it is taken, `ht_grow` makes a larger
bucket and frees the old one: `GrowBucket` is the lock that the nested `fb_free` takes a second
time, `ShedBucket` its owner check, the free, the second unlock and the insertion. The thread
that inserts thus frees what another may have allocated. `Sized` is the first allocation of a
bucket's slots, by whoever looks into an empty table (`ht_find`, `ht.c:32`). The hash of an
address is not modelled, so any insertion into a table that is not empty may collide. Growths
that follow each other or nest within one insertion count as one, since from the second on the
thread frees what it has just made; and a bucket is taken to be smaller than
`malloc_threshold`, which holds up to 32,767 slots (of 40 bytes). Since every collision grows
the table, a process that holds some two hundred mapped blocks at once may get beyond that; its
bucket would then be a mapped and registered block itself, which is not modelled.

Threads come from `userfs.c`: `Spawn` needs a large block that becomes the buffer of
`userfs.c:97`, and `Join` gives it back. That buffer is what makes the code correct: while
a FUSE thread runs, the table holds at least one block, so nobody creates or destroys it,
and all the unlocked steps fall into times when one thread runs. The other half of the reason
is that a loop never inserts: it reads into that buffer (`userfs.c:421`), and all it allocates
are the paths of `walk` (line 229 frees them), far below the threshold. `CallMalloc` says so.
Were it otherwise, the first large block of a loop that collides would end the process in
`fb_free`'s assertion: that is the mutant `LoopMallocs`, for which TLC finds `NoFault` violated.

Two more assumptions about callers: what a caller frees it holds, and it frees a heap block on
the thread that allocated it. Both hold for the walk of `userfs.c` (paths) and for the
main thread. `mmap` and `malloc` are external and never fail in the model (the code does
not test `MAP_FAILED`, `util.c:57`).

### Userfs

The tree is a sequence of nodes in the order of inode numbers. `MountFile`, `MountDir` and
`MountAdd` are the main thread's steps, one node published per step; `Request`, `Descend`,
`VisitFile`, `Ascend` and `Reply` are the FUSE thread's, one visit per step, so mounts
happen between any two visits. `list_push` is taken to publish a finished node with the
write that links the cell: stores of one thread become visible in program order. That is
what x86 provides; the code has no barrier.

`Ascend` follows `walk` to the letter: on the way back from a match the callback of each
ancestor still runs and may replace it. `Matches` has the condition of `fillentry_cb` as
it is, with the `&&` of line 377, so a lookup by name may answer with another entry of
the same directory.

`Into` is the loop of `udir_mkdir` over the children of one directory, and `MkdirIn` its
recursion. `PathAssumption` leaves out a mount of a file at a path that another mount takes
for a directory: `userfs_mountfile` finds the file's node by its path and would use it as
one. Nothing in the repository mounts so, and nothing checks it.

Names that a module with several specifications would define twice carry the prefix
`Userfs` here and `Logger` in `Logger`.

Left out: a listing that does not fit into one reply (the offset arithmetic of
`fillfusedir`), more than one userfs at a time (the handlers always use the first), path
lengths, and the contents of files.

### HashTable and KeyedStore

`grows` is the recursion of `ht_grow` as a stack: an old bucket, the index the loop has
come to, and the item whose insertion caused the growth. One slot is moved per step. A
wide value has a block in `mem`; `reallocate = false` hands the block on.
`Contents` collects the entries wherever they are (bucket, unmoved part of old buckets,
waiting items) and is the refinement mapping to `KeyedStore`: all steps of a growth
stutter. An entry that collides while it is moved gets a new block and its old one leaks
(`ht.c:68`, where the comment at line 55 says that moving avoids both); nothing is read
through it afterwards, so no property speaks of it. `KeptPointerIsCurrent` is about the
one pointer that is kept, `keys_db`'s to the header key: it stays current while later lines of
the key file overwrite the value. It says nothing of growths, since none comes after:
`insert_prod256` inserts into `named_keys` only names it has (`keys_db.c:51`), and `Insert` has
that guard. `use` is chosen at the start and restricts the calls to those the code makes;
outside them the table is not a map (`ht_insert` does not overwrite narrow values, and
`ht_erase` does not compare keys).

### RobinMap

`probe` is the loop of `robin_map_emplace` with the entry it carries; `old`, `next` and
`want` are a growth. The hash of each key is chosen in `Init`, since the secret is random.
A key that is met again gets the carried key stored in its value field (line 185) and the
loop goes on, so the map is a multimap; `EntriesAreKept` counts entries per key.

### List and ItemSequence

Cells with `next`, the first in `tail` and the last in `head`, as the code names them.
`Contents`, read through `list_get` up to `list_size`, refines `ItemSequence`, which counts
pushes (the cells of the list), so that a push that gets lost is not taken for a stutter.
`list_drop` on an empty list dereferences null (line 72) when `head` is null as well; no
caller drops from an empty list, and the model does not either.

### Vector and ItemArray

The block is a function on its bytes and `alloc` its length, which the code does not keep;
`capacity` is what the vector believes. `Resized` is `vector_resize`: it moves the bytes to
a larger, zeroed block or only lowers `capacity`. `Emplace` passes twice the capacity in
bytes on as a number of elements, as line 80 does. `Count` and `Get` scan for the zeros
that end strings, and `IsAnArray` is about what they return. Left out: sums that exceed
`size_t`, a null pointer emplaced, a size set on a vector of strings; no caller does these.
`vector_isequal` changes nothing and compares capacities too; it is not modelled.

### AesFile

A byte is the place of its plaintext and the set of masks on it; applying a mask twice
takes it off. So decryption with a wrong counter or tweak leaves masks, and a byte from a
wrong place has a wrong first component. One recursion of `aes_file_read_ctr` and one turn
of the loop of `aes_file_read_xts` is one step. `EncryptSection` is the write of
`ncz_create`; the archive is opened when it is done. Requests come through an offset file,
as those of `pfs.c` and `romfs.c` do, and are inside it (others quit, `offset_file.c:8`).
The assumptions on the constants are what the code leaves to the archives it is given:
sections lie behind the header, made of whole blocks and apart from each other, and the file
systems read lie inside them. An archive that breaks them is not read correctly.

XTS reads are the ones `content_archive.c` makes: the header, two sectors long, and one
sector each for the file systems. For these the loop condition of line 63 is right; a
longer read would stop half way. The assertion of line 173, which sets the cipher's
counter, is taken as evaluated: a release build leaves it out and decrypts nothing.

### NextPS and R3000

Instructions are records, addresses count words. `Compute` stands for the instructions
that compute a register, in one representative; the other actions are one per opcode
handler. `R3000` is what a program may count on: the next address pair, loads that land
after the following instruction, words from memory. The refinement mapping takes `FetchPc`
(the delay slot if there is one) for the program counter and `Ready` (registers after a
due load) for the registers.

The code differs from an R3000 in some cases, which the model has as they are and the
property's premises name and exclude:

* a load of 0 never lands: `cpu.c:187` tests the value (`LoadLands`);
* of two loads in a row the first is lost (`cpu.c:142`; `LoadLands`);
* an instruction in the slot of a load that writes the same register loses its result: the load
  is written two executions later (`cpu.c:187-190`), over it, where an R3000 lets the later
  instruction stand (`R3000!Result`; `LoadLands`);
* the offset of a `bne`, shifted by two, is cast to 16 bits (`cpu.c:132`, `Cast`), so one of
  2^13 words (`Reach`) or more goes elsewhere (`WellPlaced`);
* a store with the cache isolated indexes the lines with the unmasked address
  (`cache.c:17-21`, `cpu.c:74`): from the end of the cache on it writes over the registers of
  cop0, which lie behind it, the status register among them. In the model it may then set or
  clear the isolation (`StoreWord`); what it writes further on, behind those registers' 13 lines
  (`Behind`), is not modelled (`WellPlaced`);
* after a line was entered in its middle, the words before that point are stale but valid
  (`cache.c:12`; `WellPlaced`);
* a `bne` in the slot of a taken branch counts from the first branch's target, where an
  R3000 leaves the result open (`WellPlaced`).

The address 0 marks "no delay slot", so a slot there would be lost; no code runs there, and
`WellPlaced` asks that what follows an instruction is not at 0.

### Pc8086 and I8086

A cell of memory is a byte: the first of an instruction is the instruction itself, a
record, and each of the others says of which it is an operand. So a copy of half an
instruction is not one, and a jump into the middle of one finds something unknown.
`Joined` is `m[cs << 4 | ip + k]` of `pc8086.c`, an or where a processor adds; `PlaceOf` has
the three ways in which the handlers find their operands. When what is found is not what
belongs to the instruction (it was overwritten in part) any instruction of the same opcode
may come out (`Forms`).

`I8086` adds segment and offset and moves words. The code differs from it in cases that the
premises of `RunsAs8086` name and exclude:

* segments that share a bit with an offset (`Apart`);
* the register order of `regs86` (ax, bx, cx, dx) is not that of the encoding, so only ax is
  called the same in both (`SameMeaning`);
* 0x89 between registers moves the wrong way round; to memory it stores a byte at the
  address its operands spell;
* `mov` to a segment from memory does not advance, so the program stays there; `xor` from
  memory quits;
* `rep` with anything but `movsw` only clears the count; `movsw` copies byte by byte, which
  differs from words when the destination is the byte after the source.

`cld` and `cli` or a zero into the flags; nothing but `rep` reads any and no instruction
could set them.

### StarSys2

Addresses count words, and `Span` of them stand for 4 MB, the size of the firmware and the
grain of all segments; `Modulus` of them are 4 GB, where the EE's addresses and registers wrap
round. `FirmwareAssumption` is what the fields of an instruction hold: the offset of a branch,
16 bits, is less than the 2^20 words of 4 MB. `Begin` is the head of `cycles_step_devs`, `Call` and the `...Returns`
actions are `cycles_step_device`, and `Draw` the three draws at the end; one action is one
turn of the loop of `ee_run`, so a slice may end between a branch, its slot and its target.
`fb_rand() % n` is any result there is: 0 if `n` is 1, as in the first step
(`cycles.c:114`).

`IopQuarter` is the comment of `cycles_get_affinity_desc`, made exact for an EE that stops with
cycles left. `BranchDelay` leaves out branches in slots, and `jr` and `jalr`, which this code
takes at once without executing the word behind them. Stores may hit the firmware, because
`bridge_write` does not refuse it; one byte of the value is stored, so a word becomes
another one.

Left out: the scratchpad, the upper halves of registers, affinities other than the default
one, which nobody asks for, and the DMAC beyond its control word: once it is on, `dmac_run`
quits.

### Logger

A byte is the line it belongs to and its place there. `Page` is a turn of the loop of
`logger_flush` with the `file_write` it makes, which keeps a pointer and a length, and `Flush`
is `file_flush` followed by clearing the buffer. The mutex is held from the one to the other
and only the main thread logs; so `Write` and `Destroy` wait for "ready".

The model shows what this code promises and what it does not. The buffer holds, because
`threshold` is what fits: `BufferHolds`. As many bytes reach the file as were logged:
`NoLineDropped`. But `logger_flush` passes `logger->logm` for each line instead of the
pointer it moves (`logger.c:49`), so all lines of a flush but the first come out as
beginnings of the buffer: `FirstLinesKept` states what is left. No comment or test promises
more, so this is listed as a hazard and not as a finding. The end of the buffer is looked for
as a '?'; no caller logs one.

Left out: the console that is used when there is no file, and the prefix of a line.

### Archives

One thread, many layers: the state is the heap of objects (what each lies over, which
directory it came from, which files it caches, whether it is live) and `todo`, the calls
still to be made. An action is the call at the head of `todo`; it changes the heap and puts
the calls it makes before the rest. `fault` collects every object that is used after it was
closed. `quit` is `ended`. `Chain` is what a read of an object goes through, and opening a
directory reads it.

A session is on disk before it starts (`Sessions`): games of either type and firmware.
The model follows `main`: keys, games, firmware and services for the first, icons, the end.
What it keeps of the code's peculiarities:

* `dir_open_file` hands out the handle of a path that is open, without counting
  (`HostFile`); `dir_close` and `romfs_destroy` go over a list that every close shortens, so
  every second file is skipped (`EverySecond`). `NothingLeftOpen` shows that no session
  runs into this: at most one file is left when they are called;
* `nsz_addfile` closes the file of a compressed archive and keeps that of another
  (`Keeps`), which the directory `nca_files` then closes;
* the file below a wrapper must be closed before the wrapper that names it (`CloseOrder`),
  and archives before the directory they come from (`DestroyOrder`);
* a ticket that is known already is not kept and never freed (`AddTicket`), the one leak
  that `NothingLeftOpen` excepts;
* the descriptor of `firmware.zip` is closed twice. `zip_fdopen` (`zip_dir.c:59`) reads through
  a copy of it and closes the original when it succeeds, and `dir_close_file` (`hos_ld.c:45`)
  closes the FILE, which still has the number. `ZipFdopen` puts the file into `stale` until
  then. Nothing in the repository states whose the descriptor is, so this is a hazard and not
  a finding. `fault` is about the program's objects, of which the FILE is one and open once;
  of the descriptor `SecondCloseHitsNothing` says that no file of the host is opened between
  the two closes, which could be given its number and be closed under its owner. A service
  that kept a file open would be (the mutant `ServiceDumps`).

libzip is external: that it copies and closes the descriptor is what its `zip_fdopen` is
documented to do. `ZipDir` has the host file below it as if it read through that, so the
model asks a little more than the copy needs: the FILE must be open while the zip is.

Left out: all parsing (files are what their names say), entries of zips that are compressed,
and reads at 0 of an entry that was read, which libzip does not rewind: archives in a
firmware zip that are encrypted quit.

### Recompiler

Cores enabled, the list of them, the blocks of a run and which of them are held. The
instruction table is `known`: whether a word of memory is in it. A first word that is not
reads a slot nobody wrote (`arm64_generate_irs`) and is taken to crash; others repeat the
one before.

`dynrec_destroy` with cores enabled disables the first one, drops the one that is then first
(`dynrec.c:59`) and goes on behind the next: of two or three cores it disables the first, of
four the first and the last, in general every third (`Taken`), and forgets the others; with
one it dereferences null. `HeldIsReachable` therefore says of the time before that all that is
held can be reached, and of the destruction only that it frees nothing twice. Not modelled are the high bytes
that `jit_read16` loses (`jit.c:14`), which words that are in the table or not stand for,
and the inverted check of `dynrec.c:47`: reading a register of a live core gives 0.

## 3. Runs

| Run | Instance | States | Shows |
|---|---|---|---|
| `allocator` | main and one FUSE thread; 3 mapped addresses, 2 heap blocks, 2 tables | 292,263 | no wild table, nothing of another thread's freed, exact registry, no lost table or block; the mutex is released |
| `userfs` | 3 mounts: two files in nested directories and one in the root | 64,366 | requests against mounts and shutdown |
| `userfs_prefix` | 2 mounts, one directory name a prefix of the other's | violation | finding 1 |
| `hashtable` | 5 keys, buckets of 0 to 7 slots, 5 insertions, 2 values | 22,337 | a map; growths nest and end; the kept pointer |
| `robin` | 3 keys with any of 4 hashes, 5 emplacements | 182,372 | distances, order, entries |
| `robin_get` | the same with two values, 3 emplacements | violation | finding 2 |
| `processors` | nextps: all six-word programs over 4 to 6 instructions a word; 2 lines of 2 words and one behind them. redos: boot sectors that copy themselves and jump to the copy | 228,165 | every step the premises allow is an R3000 step, or an 8086 step |
| `containers` | vectors of 1 and 2 bytes and of three strings, 4 emplacements, 8 bytes, counts to 3; lists of 5 cells over 2 items; 4 processors, 5 cores, 4 blocks | 24,394 | an array, every access inside the block; a sequence; cores and blocks held are reachable |
| `aes_file` | blocks of 4, sectors of 8, a parent of 48 bytes; 3 placements, 3 views | 11,654 | plaintext of exactly the bytes asked for |
| `archives` | up to two packages of either type and none or two firmwares | 78,843 | nothing is used after it is closed, the second close of a descriptor hits nothing, all is closed at the end, complete packages load |
| `logger` | lines of 1 to 4 bytes, a buffer of 14, 7 lines | 100,899 | the buffer holds, no line is dropped, the first of each flush is as logged |
| `starsys2` | all five-word firmwares over 4 or 5 instructions a word; slices of 4 cycles, 3 steps | 159,674 | the IOP's quarter, delay slots, each step of the schedule ends |

Why the bounds are enough to be interesting:

* allocator: two tables allow a table to be used after another replaced it; three large
  blocks are the loop's buffer and two more, so that an insertion meets a table that stays and
  one that is about to go; two heap blocks are one per thread. `Room` stops calls when addresses run out and is the only bound.
* userfs: three mounts put directories into directories during a walk; `MaxMounts` is the
  bound. The run uses names none of which begins another.
* hashtable: the hashes 0, 21, 7, 42 and 1 collide modulo 1, 3 and 7 in different ways, so
  that moving into 7 slots starts a growth to 15; `MaxPuts` is the bound, and the reason
  why the system may stop there.
* robin: the hashes 0, 2, 6, 9 collide in 3 slots and not in 7 and wrap round; buckets
  grow twice; `MaxPuts` is the bound.
* processors: nextps has three lines of code, of which two share a line of the cache, and
  branches forwards and backwards into both words of a line, one of them further than `Reach`,
  and a store to a line that is there and one to the line behind the last; programs run to `halt` or to
  the address `End`. redos has a paragraph of 4 bytes and registers of 6 bits, so that
  segments can share bits with offsets; sectors copy 0, 7 or 18 words to a place before,
  inside or after themselves and go on there.
* containers: with five cells the first, a middle and the last can be dropped and pushed
  behind. A vector grows from nothing, again when it is full, and after it was cut; strings
  include the empty one; `MaxPushes` and `MaxSize` are the bounds. With four processors a
  destruction meets every number of cores to four, which it treats differently, and all can be
  in use while a fifth core is asked for; `MaxCores` is the bound; four blocks are one
  and the three nested in it.
* aes_file: reads start at every place of a block and span up to four blocks; both sections
  are met; offset files start at a block and inside one. `Length` is the bound.
* archives: two packages of either type are enough for shared tickets, for a key that comes
  too late or in the other package, and for a first game that is not the last; packages
  mix archives that are and are not encrypted, compressed or of another package's key.
* logger: `threshold` is 3, so seven lines make two flushes in the middle and one at the
  end, of as few as one line; `MaxLines` is the bound.
* starsys2: five words are a branch, its slot and more than a slice; programs reach the
  firmware at each of its three places. `Steps` is the bound (101 in the code); the second
  step is the first with draws, the third begins with what they left.

Fairness. Weak fairness only of a thread inside a call (`Step`, `Grow`, `LoopStep`, the
turns of a mount, a read of an encrypted file, a step of the PlayStation 2's schedule): a call that has begun goes on as its thread is scheduled. Nothing makes
a thread start a call, a caller free, or the kernel send a request. For the mutex, weak
fairness is enough: `MutexReleased` says of the holder that it lets go, not of a waiter
that it gets it. `ExitDuringRequestEnds` is about a loop that is in a request; one that
waits in `read` is not woken by `fuse_session_exit`, and the model says so: nothing makes
the next request come.

### Findings

1. `userfs.c:276`: `strncmp` over the length of an existing directory's path takes it for
   an ancestor of any path it is a string prefix of. After `DIR/binary/...`, mounting
   `DIR/binary1/...` (as in the commented-out lines of `unit_test/userfs_test.c:13`)
   creates `binary1` inside `binary`.
2. `robin.c:86`: `robin_map_get` returns what is in the home slot whatever its key is, so
   a displaced key is answered with another one's value; `unit_test/robin_test.c:14`
   expects the value stored.

## 4. Proofs

`StorageProofs` has two parts. The allocator: it proves, for any set of FUSE threads and any
addresses, under `AddressAssumption` (the kinds of addresses are disjoint, the main thread is
not a loop):

* `AllocatorInvariant`: `AllocatorSpec => []AllocatorInv`;
* from it `TypeCorrect`, `AllocatorNeverFaults`, `RegistryIsExact`, `HeldBlocksAreBacked`,
  `TablesAreNotLost`, and for every step `TableStays`.

`NoFault` is not inductive: whether `Map` finds a usable table depends on why `ht_mm` was
not null at `Test`, on who else could have destroyed it since, and on the mutex. `AllocatorInv`
adds what the argument needs:

* `LockInv`: the mutex is held exactly at the steps between lock and unlock, twice while an
  outgrown bucket is freed and once otherwise;
* `CalmInv`: while a loop runs, `ht_mm` is a table, no thread is at a step that makes or
  destroys one, and no call is nested;
* `RegistryInv`: the published table lists the mapped blocks, at every step but between a
  block's mapping and its insertion when it collided;
* `PhaseInv`: what `ht_mm` and the locals are at each step of each thread;
* `HolderInv`: a block has one holder: a caller, a call in progress or a userfs. This
  gives the crucial fact that the loop's buffer is in the table and no `fb_free` under way
  is about to take it out, hence the table is not empty at `EmptyCheck`;
* `OriginInv` and `TableInv`: whose heap blocks come from, tables and their buckets from the
  main thread's, since a loop asks for small blocks only; and where tables are.

The proof has one lemma per action that does more than move a program counter, and the
actions of a single thread (creation and destruction) are reduced to the case that no
loop runs. `AllocatorInv` was checked with TLC as an invariant before it was proved.

The hash table: `TableIsWellFormed`, `KeptPointersStayCurrent` and `TableIsAStore` for any keys, hashes, numbers of slots and insertions and each way the callers use a table.
`WellFormed` is not inductive: whether a growth keeps it depends on what the growth, and those
it interrupted, still have in hand. `Sound` says of bucket and growths together that an entry
of the bucket is in the slot its hash names (`GoodBucket`), that no key is in two places among
the bucket, the unmoved part of each old bucket and each waiting item (`Apart`), and that no
two keys share a block (`OwnBlocks`). `KeptInv` says that a pointer a caller keeps is to the
block of an entry in the bucket, and that nothing is inserted any more; `CreateInv` that the
names `ht_create` inserts have no values yet. Every action that places an item does one of
three things, put it in a free slot, update the entry that is there, or begin a growth with it
(`Adds`), and one lemma says what each does to the entries and so to the contents. For
`IsAStore` that is the refinement: a growth's steps change no key's value, and a call's first
or last step changes the value of the key called with.

`CoreProofs` has four parts. The vector: for any element sizes, byte values, strings and
counts, under the assumptions on the constants that `Vector` states, `TypeCorrect`,
`AccessesFit` (`FitsBlock` at every step), `ContentStays` (`BytesStay`, which is proved and not
model-checked, since `IsAnArray` says as much of what is read) and `VectorIsAnArray`. Type correctness and `FitsBlock`
together are inductive. The crux is that a number of elements never exceeds the bytes
`vector_resize` makes room for (`WantedIsEnough`), so that doubling bytes as if they were
elements errs on the safe side (`RoomIsEnough`), and that a block is never replaced by a
shorter one (`ResizedIsABlock`). `VectorIsAnArray` is the refinement of `ItemArray`: what
`vector_size` and `vector_get` make of the bytes is the array of what was emplaced. `ArrayInv`
adds to `VectorInv` that there are marks, where the elements end: at the zeros for strings, at
the multiples of the size for elements, and the last at the end of the bytes in use (`Marks`).
The i-th string is found by counting zeros, so it must be shown that the count tells the
marks apart (`IncreasingCount`, `StringStart`); the readers then see the slices between the
marks (`ReadersSeeElements`), and one lemma per operation says what becomes of them
(`EmplaceReads`, `SetSizeReads`, `CloneReads`).

The logger: `BufferNeverOverrun`, `NothingIsDropped` and `FirstLinesAreKept` for every buffer,
length of line and number of lines that satisfy `SizeAssumption`: at least one line fits, and
what is left over has room for the mark and the zero. None of the three is inductive: a buffer
within its bounds may be one that the next line overruns, and a file as long as `filepos`
says may hold anything. `LoggerInv`, which `LoggerInvariantHolds` proves, says where every
line is. `Counting`: a line is filed, on
a page, or only in the buffer, and which of them follows from `count`, `pages` and the lines
logged. `Placing`: the text in the buffer is the lines not yet filed, each where the totals of
the lengths say (`Laid`); a page points to the start of the buffer with the length of its line
(`Paging`); the file is as long as the lines filed (`Total`) and holds the first line of every
flush (`Kept`). `Room`: what is to come fits. The recursive sums and concatenations of the
model are shown to be the ones wanted by induction over their length (`TotalGrows`,
`GatheredText`); the arithmetic of products is in `SpaceGrows` and `ThresholdFits`.

The file system: for any paths under `PathAssumption`, any requests and any number of mounts,
`WalkIsOnLiveTree` (`WalkOnLiveTree`) and `NothingGoesMissing` (`NothingIsMissed`), and, if no
name begins another one, `FilesAreWhereMounted` (`FilesWhereMounted`): with such names the run
`userfs_prefix` refutes it, so the hypothesis is finding 1. `UserfsInv` (`UserfsInvHolds`) has
three parts.

* `TreeInv`: the nodes are a tree in which a child was made after its parent and is listed
  once (`Tree`), and the call in progress has a directory for its target (`Mounting`).
* `WalkInv`: each frame of a walk stands at the child the frame below has come to (`Frames`),
  and there is a set of nodes the walk is done with (`Scan`): of each directory on the stack
  the children before the next one, and with a node all that was below it when the request
  came. None of them is what the request is for, and those a listing should have it has
  (`Passed`). A node added meanwhile is never in the set, wherever it is put (`ScanStays`); a
  child joins it when its visit ends (`MovedScan`); when the stack is empty the set is all
  that was there (`EndScan`, from the least node that would be missing).
* `Complete`: the last answer is what `NothingIsMissed` says.

`PathInv` says for the third theorem that paths are unique, that a node's path without its
last name is its parent's, and that the directories a call has been through exist. Then
`udir_mkdir` descends as far as there are directories and no further (`MkdirInPath`). That its
recursion ends is `DescentExists`, since children are newer than parents.

The Robin Hood map: `MapIsWellFormed` and `NothingIsLost`
for any keys, hashes and values and any number of emplacements, under the assumptions `RobinMap` states. That psl
values are distances and the order between neighbours are not inductive without what is
being carried: `RobinInv` says that the bucket is in order (`Good`), and that the carried entry
is as far from home as it says and would follow its predecessor in order if it settled
where it is (`Carries`). Then settling keeps the order because the slot was free, and
robbing because the one that is taken out was better off. `Growing` says that the
old bucket was full, so that all of it must be moved, and `SingleIsFree` takes care of
a bucket of one slot, whose only slot is its own predecessor. `NothingIsLost` counts
(`Accounted`): a turn of the loop changes one slot and what is carried, so the number of
entries of a key changes as `OneSlotChanged` says, and a growth that takes an entry leaves
one less (`OneTaken`). That emplacing ends, because a free slot is found, is model-checked.

`ProcessorProofs` has three parts. The PlayStation's processor: `CacheHoldsMemory`
(`LineHoldsMemory` at every step) and
`ImplementsR3000` (`RunsAsR3000`), for every set of programs over `Instructions`, with any
offsets and targets, every size of the cache and of the registers, under `SizeAssumption`
and `ProgramAssumption`. `LineHoldsMemory` needs the types of the cache's lines and of the
load slot, which `IInv` adds (`TypeInv`), and is then inductive. The crux is that an address
is put together again from its tag, its line and its word, and in one way only
(`AddressSplits`, from `Division` and `QuotientIsUnique`): so a refill changes no other
line, and a hit reads the word it is looked up for. `FetchedFromMemory` then says that what
is executed is what memory holds; `AddressesMove` that the pair of addresses moves as that
of an R3000; `PendingLands` and `RegistersMove` that the load slot, its timer and the write
back of the following cycle come to a load delayed by one instruction; and
`StepIsR3000Step` puts them together, one case per instruction. The premises `WellPlaced`
and `LoadLands` are those of the property.

The list: `ListIsSequence`, that it implements `ItemSequence` for any items and any number of
cells, if the null pointer is no item (`NoItemAssumption`). `ListInv` says that the cells from `tail` to `head` are a chain in which
each was made after the one before (`Chain`): hence following `next` ends, an index meets each
cell of the chain once (`AtIs`), and the chain is no longer than the cells are many
(`ChainFits`), which is how far the readers look. `ReadersSee` says of every state with a chain
what `list_get`, `list_size` and `list_locate` return; `PushKeeps` and `DropKeeps` give the
chain after a step and the items on it, with the cases of the first cell, the last, the only
one, and an index past the end.

The recompiler: `HeldCanBeReached` (`HeldIsReachable` of the run), for any numbers of
processors, of words in a block and of instructions in a run. `CoresInv` says that the list
has each core once and only those held, so that disabling takes out one and leaves the others
(`TakenOut`); `BlocksInv` that all blocks after the first are nested in it, in the order they
were compiled, until the run ends, so that the cleanup frees each block once and leaves none
(`CleanupKept`). Of a destruction it is proved that it frees only cores that are held; that it
loses some is described above.

`StarSys2Proofs` proves `IopTakesAQuarter` (`IopQuarter`) and `BranchesAreDelayed`
(`BranchDelay`) for every firmware, slice and number of steps. That the IOP has taken a
quarter is not inductive: in the middle of a step it has been given cycles it has not taken.
`IInv` adds those to the balance (`Balance`) and says that an IOP with cycles is running or
among the calls still to come (`IopPending`); of the EE it needs only that it does not touch
the IOP's cycles (`TurnsOnlySpend`). That the quarter is exact while the EE runs needs more,
since an EE that stops keeps the cycles of its slice: `EeInv` (`EeInvariantHolds`) says that an EE that runs spends
each slice (`Exact`), and that one that stops is not at the boot address (`NotAtBoot`), where
`ee_run` would start it again with the cycles it has left. The latter rests on where a branch
can lead: offsets are too short to reach the boot address from where the EE can be
(`BootIsFarOff`), and only the word before it leads there. The same invariant says that
`next_pc` is 0, which the code takes for "not set", only where the next word is at 0 as well,
and so gives `BranchDelay`: no target is lost.

`SupernxProofs` has two parts. The encrypted files: `ReadsGivePlaintext` and `AccessesStayInside` for any sizes of blocks,
sectors and words, any sections and offset files, under the three assumptions of `AesFile`.
`ParentInv` says which mask is on each byte of the parent, given the sections encrypted so
far: that they are disjoint is what keeps a second mask off. `CallInv` says of each kind of
read what it has put out and what is left. The crux in CTR is that a block read from its
start has the counter its bytes were encrypted with, also where a read begins within it
(`CtrGivesPlain`, `MultipleAdded`), and that the last block is inside the file because the
file is made of whole blocks (`NextMultiple`). In XTS it is that the loop, whose condition
compares what is left with what is done, ends in time for reads of one and two sectors
(`XtsEndsInTime`), the ones there are. That reads return is model-checked.

The sessions: `NothingUsedAfterClose` (`NoUseAfterClose`), `DirectoriesStayReadable`
(`DirectoriesReadable`) and `EverythingIsClosed` (`NothingLeftOpen`), for any number of games
of either type with any files in them and any firmware, under `SessionsAssumption`: packages
and archives are sequences, no two archives of a package have one name, there is at most one
firmware file, sections are in directories of the two kinds, an archive that is not encrypted
has no encrypted section, and the archive of the service has a romfs. None of the three is inductive. That what an action uses is live depends on all the calls made
before and on those still to be made, and the heap is as deep as the packages nest.
`SessionInv` (`SessionInvariant`) is about the calls to be made as a whole; it has four
parts, and that what was enabled is going to be disabled (`Enabled`).

* `HeapOk`: what an object of each kind lies over, and that nothing is owned twice, if an
  archive owns its wrapper, its file and its sections, and a loader its directories and
  archives (`OwnedOnce`). What the archives of a loader lie over outside themselves is
  in its package (`IsGrounded`).
* `ListsOk`: the lists of games, tickets and services have each thing once.
* `CallsOk`: the calls have the arguments they need (`IsCall`), what they need to be open is
  closed by a later call (`IsPlaced`), what they rely on to be missing or made is (`IsReady`),
  and they come in an order in which they may be nested (`InOrder`), so that, for instance,
  there is one package being opened and its game is the last on the list (`Opening`).
* `TrustOk`: `Trust` says of a call which objects it, or the calls it will put before the
  rest, will close: a call that destroys an archive has all of it, and `nx_sys_destroy` all on
  the lists. Each live object is in the trust of exactly one call, but for the tickets that
  were dropped; what is in a trust is live; and what an object lies over is in the trust of
  the same call or a later one.

The first three of `TrustOk` give `NothingLeftOpen`, since with no calls left there is no
trust, and `NoUseAfterClose`, since what a call closes is in its own trust. The last gives
`DirectoriesReadable`. An action hands its trust on: `Passed` says what must be true of the
calls it puts before the rest, of what it closes and of what it makes, for `TrustOk` to hold
again, and each action has a lemma that says what it hands to whom. Three things are
delicate. A file is closed before the wrapper over it, so the wrapper lies over nothing open
for one call, which is why `Whole` leaves out `free` of wrappers and archives. A file in `nca_files` has
no call of its own between being opened and being found again by its name. And `dir_close` and
`romfs_destroy` skip every second file, which is no leak because, as `IsPlaced` and `TrustOk`
have it, the files of a directory are in the trust of other calls, made before it.

`CallsOk`, `HeapOk`, `ListsOk` and `TrustOk` were checked with TLC on the sessions of the run
before they were proved. The sequence of calls is counted from its end (`At`), so that
the calls that stay keep their numbers when others are put before them.

`LoadProofs` adds `CompleteSessionsLoad` (`CompleteLoads`), under the same assumptions: a
session whose packages are complete (`Complete`: an archive with an encrypted section has its
ticket in the package or in one before it, in an nsz in front of it, or needs none; every
package has an icon; no archive of the firmware is encrypted) is never quit. The assumption on archives that are not encrypted is used here:
`open_encrypted_file` takes the archive's file for an `aes_file_t`, which it is only then.
`LoadsInv` is inductive beside `SessionInv`; in a session that is complete

* every ticket a call needs (`Needs`) is known, or a call that is made sooner brings it
  (`TicketsMet`, `Brings`);
* every package has an archive with an icon, or a call still to be made gives it one
  (`LogosMet`, `Shows`), and when the icons are asked for nothing else is (`LogosLast`);
* the arguments of each call suit it (`Suits`): a package is opened as the type it has, an
  icon is looked for in a romfs.

The games of a session need all the tickets before them only when they are opened, which is
why `Needs` is about calls and not about the session. One lemma, `LoadsStep`, says that a call
keeps all this if what it needed or would bring and show is handed on to the calls it puts
before the rest or is now there (`Meets`, `ShowsOn`); each action that loads something has a
lemma that says so, and of the others it is enough that they make only calls that need and
show nothing (`PlainStep`) and that the heap loses no icon (`Rising`). `LoadsInv` was
checked with TLC on the sessions of the run before it was proved.

It also has `SecondCloseIsHarmless` (`SecondCloseHitsNothing`), from `DescriptorInv`: a file
whose descriptor libzip has closed is the last file of the host that was opened, and the call
that closes it comes after calls of the loading only (`ClosedNext`, `FirmwareOps`). Of each of
these it is shown that it puts calls of the loading before the rest and opens no file of the
host (`LoadingStep`); what opens files is called when no descriptor is stale (`NoneStale`).

`NumberFacts` has what these need of division by a parameter: quotient and remainder are
unique, and multiples of the divisor add up. It also has induction in a form that the provers
can use, since the library's induction theorems take an operator as a parameter, which none of
them can instantiate: `LeastNatural` (a nonempty set of naturals has a least element),
`AllNaturals` (a set of naturals with 0 and the successors of its elements has all) and
`Recursion` (a function defined step by step exists), from the well-foundedness of the
naturals.

Only model-checked:

* liveness under fairness, which is beyond the prover: `RequestAnswered`,
  `ExitDuringRequestEnds`, `MutexReleased` and the other properties that something ends;
* `RunsAs8086`: `Pc8086` joins addresses bit by bit with `Bitwise`, which no module with a
  theorem can use.

## 5. Not modelled, and plan

Not modelled: stateless conversions, hashes and SIMD; SDL; the contents of zips and plists,
which are read by libraries; the parsing of headers and tables in supernx; playme, whose
interpreter executes nothing yet; `set.c`, with one user; the stubs of emulators; the rest
as listed in `PROJECT.json`.

Planned, in this order:

1. The tables of `romfs.c` and `pfs.c` as trees: a walk visits each entry once.
2. The registers of `bus_write` in nextps and the DMAC's channels.
3. `set.c` and playme's constant pool.
