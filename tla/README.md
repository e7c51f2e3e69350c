# A TLA+ model of famfs

famfs is a file system over memory that several hosts share (CXL or other dax
memory), without hardware coherency between the hosts' caches. One host, the
*master*, creates files and directories and appends each of them to a metadata
log in the shared memory; the other hosts, the *clients*, play that log into
their own name spaces. Nothing is ever deleted. This directory holds TLA+
modules for the parts of famfs where the order of steps matters, TLC
configurations that check them on small instances, and TLAPS proofs.

## The system and its parts

| part | source | model |
|---|---|---|
| cache flush and invalidate (libfcc) | `fcc-x86_64.c` | `Fcc` |
| log append under the lock | `famfs_lib.c` `famfs_append_log`, `famfs_init_locked_log` | `MetaLog` |
| log replay | `famfs_lib.c` `famfs_logplay`, `__famfs_logplay`, `famfs_validate_log_entry` | `MetaLog` (mmap path) |
| space allocation | `famfs_alloc.c` | `Alloc` |
| mkfile, cp, mkdir on the master | `famfs_lib.c` `__famfs_mkfile`, `__famfs_cp`, `__famfs_mkdir` | `Master` |
| fsck's double-allocation count | `famfs_build_bitmap` | `Alloc`, `FsckClean` |
| producer/consumer queue | `pcq_lib.c`, `pcq.c` | `Pcq` |
| FUSE daemon: inode cache, handlers, flock | `famfs_fused_icache.c`, `famfs_fused.c` | `Icache`, `Fused` |
| shadow files and their yaml | `famfs_yaml.c`, `famfs_shadow_file_create` | `Yaml`, `Fused` |
| file map messages | `famfs_fmap.c` | `Fmap`, `Fused` |
| superblock, role | `famfs_lib.c` `famfs_check_super`, `famfs_get_role` | `Super` |
| mkfs and kill, on a raw device or a dummy mount | `famfs_lib.c` `__famfs_mkfs`, `famfs_mkfs` | `Mkfs` |
| mount, dummy mount, unmount | `famfs_mount.c`, `famfs_cli.c` | `Mount`, `Mkfs` |
| copy thread pool | `famfs_lib.c` `famfs_copy_file_data` | not modelled, see the end |
| dax modes, REST diagnostics, command line, logging | `famfs_dax.c`, `famfs_fused_rest.c`, `famfs_cli.c`, `famfs_log.c`, `famfs_debug.c` | not modelled, see the end |

How they interact: every operation on the master takes the lock on the log file
(`famfs_init_locked_log`), allocates from a bitmap it builds from the log,
creates the file or directory locally, appends the log entry, and releases the
lock. Clients take no lock. Applications then use the files; pcq is one that
passes messages through two of them.

With FUSE, a logplay does not create files but *shadow files*, small yaml files
in a tree of their own. A daemon answers the kernel's lookups from that tree and
hands it the map of each file. A mount starts the daemon, writes the shadow files
of superblock and log, waits for them to show through the mount, and plays the
log; mkfs, fsck and logplay of a device make such a mount for themselves.

## Modules

**Fcc.** Memory is a function from cache lines to contents; each host has a
cache (a line or `Miss`) and a set of dirty lines. `Flush` and `Invalidate` are
the library's two calls. `Refetch` (a clean line is evicted and read again) and
`WriteBack` are what a processor may do at any time; a line that was evicted and
not read again is seen as memory has it, like one that is read at once. A flush
walks its range line by line; every intermediate state is one that `WriteBack` and
`Refetch` steps also reach, so the call is one step at its closing fence.

**MetaLog** (uses Fcc). `pc`, `entry` and `todo` are the process on the master
inside `famfs_append_log`; each store of that function is an action
(`append_memcpy` once per cache line, `append_next_seqnum`,
`append_next_index`, `append_flush`). `play[c]` is the logplay on client `c`:
`famfs_logplay` invalidates the log, `logplay_loop` reads `next_index` again
before each entry, `logplay_copy` copies the entry line by line,
`logplay_invalid` and `logplay_apply` follow from `famfs_validate_log_entry`.
A line of an entry is abstracted to the sequence number and item of the append
that wrote it, and the checksum to "all lines come from one append". The retry
inside `famfs_validate_log_entry` re-reads the copy on the caller's stack and
cannot change the outcome, so it is not a step. `fs[c]` holds what the client
has instantiated, `stubs[c]` files left without a map, which the code does not
count as errors. `ProcessCrash` and `HostCrash` are in `CrashSpec` only.

**SharedLog** is what MetaLog promises: an append-only sequence and clients that
instantiate entries of it. The mapping takes the log as the master's view of
the entries below `next_index`.

**Alloc** has the allocator as operators on sets of bits: `famfs_build_bitmap`,
`bitmap_alloc_contiguous` with its unsigned remainder (`U64` stands for 2^64),
contiguous and interleaved allocation, and the error path of the latter. That
path gives back as many entries of the array `ie_strips` as there are buckets. With
more buckets than entries (64 are allowed, the array has 16) it reads what lies
beyond the array: any extent of `Stray`, chosen anew each time, so an allocation has
a set of outcomes. An assertion that fails ends the process (`Aborted`; the build
leaves assertions in). Its loops are recursive functions over the turns of the loop.

**Master** (uses Alloc) has `log`, the master's name space `local`, the session
`lp` (`struct famfs_locked_log`) and the operation `op` in progress. Creation is
three steps, as a process may die between them: `mkfile_alloc`,
`mkfile_create`, `log_creation` (`mkdir_create` and `log_creation` for a
directory). The failures of each step have the effects they have in the code; for
example a file whose map cannot be set is logged all the same. `Remount` plays
the log into an empty name space. `overrun` records that an error path has read
past `ie_strips` and the process went on. The append is one step here; MetaLog takes
it apart. That sessions exclude each other rests on the flock, see `fused_flock`.

**Pcq** (uses Fcc). `p` and `c` are the threads in `pcq_producer_put` and
`pcq_consumer_get`; `chost` says whether they share a host. A line of a bucket
is abstracted to the sequence number of its put. `StopNow` is the end of the main
thread's sleep, `Drain` is `pcq --drain`. **BoundedFifo** is what it promises.

**Yaml** is the emitter and the parser of a shadow file. A file is the sequence
of its libyaml events; the parser is an automaton that takes one event at a
time, its limits and its errors included. **Fmap** is the reply to GET_FMAP as
the kernel reads it: for an interleaved file the code writes the strips through a
struct whose device index is 16 bits wide and the kernel reads 32, so an index
other than 0 (none is in use) would arrive multiplied by 2^16.

**Icache** has the calls of the inode cache as operators on a function from
nodes to inodes; each is a critical section of `icache->mutex`. The recursion of
`famfs_inode_putref_locked` is there in closed form: the inodes it frees
(`FreedBy`), and what it takes from the others.

**Fused** (uses Icache, Fmap) is the daemon with several workers, the
kernel that sends it requests, and a logplay into the shadow tree. `req[w]` is
the request worker `w` serves and the step it is at; a handler is cut where it
takes or leaves `icache->mutex` or reads something another worker writes.
`nlookup`, `handle` and `kmap` are what the kernel knows: its lookup counts, open
files and file maps; it sends what a kernel may send for them. `shadow` and
`play` are the tree and the player: a shadow file exists empty before it is
written, and `CrashPlayer` may leave it so. What the yaml parser makes of the
two is a parameter (`ParsedFull`, `ParsedEmpty`), which MCFused computes with
Yaml. `leak`, `changed` and `push_failed` record history for the properties. The
flock is two pieces of state, the mutex of the cache and `flock_held` of the inode,
which handlers read and write without a lock: taking and releasing it are two steps
each.

**Super** has the superblock as two cache lines and the log as one, over Fcc:
checksum, version, role, and which readers invalidate first (mkfs does; mount,
fsck and logplay do not).

**Mount** (uses Super) has `mnt[p]`, the mount that process `p` makes, with its
daemon: starting, mounted, serving, dead, or mounted with nobody to serve it
(zombie). `famfs_mount_fuse` is one action per wait and per meta file; the waits may
end by a timeout at any time. `famfs_logplay` opens the meta files, then invalidates
the log over the length that the cached header gives, then plays it; the daemon may
die in between. A child whose execv fails returns into `famfs_mount_fuse` and goes
on there as a second process; what it adds to the model is the superblock's shadow
file.

**Mkfs** (uses Mount) has the commands. `load` says which run, on which hosts, in
sequence or at once; `pc[p]` and `rc[p]` are the step and the result of each.
mkfs is one action per store and per flush. `KillProcess`, `DaemonDies` and
`HostCrash` are the faults; the last one loses the host's cache. `fs`, `torn`,
`looked` and `raced` are history: the last mkfs that succeeded, whether one was begun
since, who looked at the log since, and whether a mkfs began while another was at
work or while another host had stores of one to write back.

**MCMetaLog**, **MCMaster**, **MCFused** and **MCMkfs** give instances for TLC.
**MetaLogDurability** (with crashes), **MetaLogProofs** (without them, with the
refinement of SharedLog), **PcqProofs**, **AllocProofs**, **MasterProofs**,
**MkfsProofs** and **MkfsDurability** hold the proofs. **MetaLogInv** and
**MkfsInv** define the invariants that theirs rest on. Definitions marked *Mutant*
are faulty variants of the definition after them; each breaks the property it is
listed with in `PROJECT.json`, which shows that the property depends on that code.

## Runs

| run | checks | result |
|---|---|---|
| `metalog` | `AppliedIsLogged`, `NamespaceIsPrefix`, `SuccessIsComplete`, `ImplementsSharedLog`, `EventuallyPlayed` | hold; 331,766 states |
| `metalog_crash` | `TypeOK`, `SuccessIsComplete`, `AckedIsDurable` with two crashes | hold; 157,503 states |
| `metalog_stale` | `AppliedIsLogged` with one crash | violated |
| `metalog_wedged` | `RetrySucceeds` with one crash | violated |
| `pcq` | `TypeOK`, `UnconsumedIntact`, `RetryRepairsCrc`, `DrainEmpties`, `CoherentNeverFatal`, `ImplementsFifo`, `AllDelivered` | hold; 445,966 states |
| `pcq_stale` | `NoSeqMismatch` | violated |
| `master` | `TypeOK`, `FsckClean`, `BitmapCoversLog`, `ParentLoggedFirst`, `LogAgreesWithLocal`, `FailedAllocRestores` | hold; 436,833 states |
| `master_past_end` | `WithinDevice` | violated |
| `master_restart` | `CopiedIsLogged` | violated |
| `fused` | `TypeOK`, `RefcountExact`, `SetattrSticks`, `MapIsLogged`, `DaxdevBeforeMap`, `FlockNotOrphaned` | hold; 227,457 states |
| `fused_flock` | `FlockExclusive` | violated |
| `mkfs` | `TypeOK`, `NothingLeftBehind`, `SuccessIsMounted`, `MkfsIsDurable`, `MkfsSpares`, `PlayedIsCurrent` | hold; 610,791 states |

What the violated runs show:

- `metalog_stale`: a process dies after copying entry A into the log and before
  moving `next_index`. The next append reuses A's slot and sequence number. If
  the header becomes visible before its entry, a client finds A, whose checksum
  is good, and instantiates something that was never logged. The comment in
  `famfs_append_log` relies on the checksum here.
- `metalog_wedged`: the header reached memory and the host died before the entry
  did (or the process died between the two increments of the header). Every
  later logplay fails at that entry; the same comment says it can be retried.
- `pcq_stale`: the consumer's cache still holds a whole message of the previous
  lap. Its crc is good, so nothing is invalidated, and its sequence number is
  wrong, which is fatal. The guide names only multiple consumers and corruption
  as causes.
- `master_past_end`: without a range limit, the remainder in
  `bitmap_alloc_contiguous` is too large by the position the search starts at,
  so a session's second allocation may end past the device.
- `master_restart`: a file created and not logged (crash, or log full) satisfies
  a restarted cp, which succeeds without logging it.
- `fused_flock`: several processes have one file open, as all of them have
  `.meta/.log`. `famfs_release` and LOCK_UN act on `flock_held` of the inode,
  whoever has the lock, so a process that only read the file releases the lock of
  another when it closes it, and a third then gets it too. The repository's README
  says that "allocation and log append are serialized via a flock() call on the
  metadata log file". The other two answers of the daemon make this likelier: a
  second LOCK_EX on the inode gets EINVAL instead of waiting, and the process that
  got it closes the file; a non-blocking request is answered with success without a
  lock.

`FsckClean`, `BitmapCoversLog` and `FailedAllocRestores` are claimed until `overrun`:
until the error path of an interleaved allocation with more buckets than `ie_strips`
has entries reads past the array and the process survives. After that a unit in use
may be free in the bitmap; without the condition TLC finds `FsckClean` and
`FailedAllocRestores` violated.

`ParentLoggedFirst` and `LogAgreesWithLocal` are claimed for behaviours without
crashes and failed creations only: the code does not keep them otherwise. A
directory that exists on the master and was not logged (process death, failed
chown) lets files in it be logged without a directory.

What the `fused` run shows, and does not:

- `RefcountExact` accounts for every reference, so no handler uses an inode that
  was freed. The account includes references that the code never puts: one for
  each open that was closed (`famfs_open` gets two, `famfs_release` puts one of
  them besides its own) and one for each flock.
- `FlockNotOrphaned` is what is left of the flock: nobody waits for a lock that no
  open file can release. It holds also where LOCK_UN, a close and a new LOCK_EX
  interleave step by step, which may leave `flock_held` set with the mutex free.
- `SetattrSticks` leaves the root out, whose attributes are read from the shadow
  tree at every getattr.
- `MapIsLogged` holds because an empty or half-read shadow file gives no map. A
  shadow file left empty by a crash is never repaired: later logplays skip it.

What the `mkfs` run shows, and does not:

- `NothingLeftBehind` excepts result 99, with which `famfs_mount_fuse` reports
  that it could not unmount (a daemon that has not mounted yet cannot be
  unmounted, and mounts afterwards), killed processes, and the standalone mount,
  which stays mounted when its logplay fails.
- `MkfsIsDurable` and `PlayedIsCurrent` say nothing while a mkfs is between its
  first store and its return, or was cut short there: the cache may write the
  new superblock back before the new log.
- `MkfsIsDurable`, `MkfsSpares` and `PlayedIsCurrent` also end where `raced` begins,
  and TLC finds each violated without that: two mkfs at once may both find the
  device blank, and a host may write back what a killed mkfs stored over what a
  later one on another host made. Nothing in the code prevents either.
- `SuccessIsMounted` says what a mount that returns 0 has done: its mount was made
  and it played a log with a valid header, through it. It does not say that
  the daemon is alive: one that dies once the meta files are open goes unnoticed, and
  the mount is reported all the same.
- Two mounts of one device on a host can both succeed, as nothing locks the
  device between the test and the mount. A mount whose daemon died does not
  count as one.
- A host with a stale superblock in its cache uses it: a device that was killed
  can still be mounted there, a new one may be refused. The log is invalidated
  before it is played, so what is played is current all the same.

### Bounds

- MetaLog: one client (clients share no state with each other, only with the
  master), two slots so that an append meets a committed entry, two items, two
  lines per entry so that it can be torn, and `MaxErrors` 1. The crash run has one
  slot, so that the log can be over-filled, and two crashes. `metalog` has a liveness
  property and therefore no symmetry; the items of the crash run are interchangeable
  (`SYMMETRY`). `metalog_wedged` has one line per entry.
- Pcq: three buckets, so that the queue holds two messages and can be full, and four
  messages, so that a bucket is reused. `timed` is chosen in the initial state;
  `NMessages` also bounds the timed mode.
- Master: 12 units, 2 of them metadata; sizes 3 and 6; contiguous sessions and
  sessions with 2 strips from 2 or from 3 buckets, which reach the
  fallback, the rollback, the strip that leaves its bucket, and the assertion, and
  one with a chunk size that is refused. `ie_strips` has 2 entries, so that 3
  buckets are one more than it holds; what lies beyond is zero, an extent in use, or
  one outside the device (`MCStray`). Two log entries, so that the log fills; one
  crash, one failed creation.
- Fused: a directory, a file in it with as many extents as a map holds, and an
  interleaved file in the root; two workers and two open files. A load names the
  requests the kernel may send; seven loads cover all of them, since requests of
  unrelated kinds meet only in the references they hold. `MaxLookup` is 1 lookup
  count per node, `ops` bounds the opens, flocks and attribute changes of a load,
  `MaxCrash` is 1. Workers and open files are interchangeable (`SYMMETRY`). A
  worker that waits in `famfs_icache_flock` serves nothing else, so a load never
  lets all workers wait (`WorkerToSpare`); libfuse starts more threads up to a
  limit.
- Mkfs: a master and a client, eleven loads of two or three commands: blank
  devices, formatted ones and ones of another version; mkfs, kill, mount, fsck,
  logplay; FUSE and standalone; two mkfs at once, and one on another host after one
  was killed; one crash of a kind each load names. Only hosts with commands have
  cache steps. Mount points differ. Every mkfs makes a log of the same length, so a
  cached header is either zero or gives the right length to invalidate.

Deadlock is checked for MetaLog. A pcq program ends, the commands of Mkfs do,
and a bounded Master or Fused behaviour may; those runs say
`CHECK_DEADLOCK FALSE`.

### Fairness

MetaLog: an append or a logplay that has begun goes on (a running process is
scheduled), a client plays the log again (the retry the comment speaks of), and
a dirty line is written back some day. Nothing makes the master begin an append.
Pcq: both threads keep running; they yield while they wait. No fairness is
assumed of read-ahead or eviction in pcq. Fused and Mkfs have safety properties
only: their graphs are too large for a temporal check with all their faults.

## Proofs

All for any constants satisfying the modules' named assumptions.

### MetaLog

From `BoundsAssumption`, `NamesAssumption` and `MissAssumption`. For `Spec`, that
is, without crashes:

- `TypeCorrect`: `Spec => []TypeOK`.
- `AppliedOnlyLogged`: `Spec => []AppliedIsLogged`.
- `Invariant`: `Spec => []Inv`, which the others rest on.
- `LogImplementsSharedLog`: `Spec => ImplementsSharedLog`.
- `ClientHasPrefix`: `Spec => []NamespaceIsPrefix`, from `PrefixInvariant`.

`AppliedIsLogged` is not inductive: it says nothing of what caches may hold. The
argument is that there is one writer, so the master's view changes only by its
own stores (`OneWriter`); that view has whole entries below `next_index`, the
entry in progress at it and zeroes above (`LogShape`, `Appending`); and every
other copy of a line, in memory, in a client's cache or on its stack, is either
zero or equal to the master's view (`Lagging`, `Copied`). An entry that
validates has no zero line, so it is the master's entry. The lemmas
`MasterStore`, `MasterFlush`, `ClientLoad` and `ClientRefresh` state what cache
operations do to the view once; there is then one lemma per action.
A crash breaks `LogShape` (an abandoned entry lies beyond `next_index`), which
is the counterexample of `metalog_stale`.

The refinement needs the same invariant: only `append_next_index` changes the
mapped log, by one whole entry, and only `logplay_apply` the name spaces.

That a name space is a prefix of the log needs two facts more (`PrefixInv`): no
item is logged twice, and the loop of a logplay is never past the end of the
prefix that its client has.

For `CrashSpec`, with any number of crashes of processes and of the master's host:

- `AckedStaysDurable`: `CrashSpec => []AckedIsDurable`.
- `SuccessComplete`: `CrashSpec => []SuccessIsComplete`.
- `CrashTypeCorrect`: `CrashSpec => []TypeOK`.
- `CrashInvariant`: `CrashSpec => []CrashInv`, which these rest on.

After a crash the log may end in a torn or abandoned entry, so `Inv` is gone.
What is left concerns the slots below the `next_index` *in memory*: the master
stores to none of them again. An append that has returned is below it, and memory
and the master agree on its lines (`AckedInMemory`). A logplay begins with an
invalidate, so whatever its host caches afterwards covers the items that had been
appended by then; `InSlot` follows one such item from memory through the cache and
the copy on the stack into the name space.

### Pcq

From `PcqAssumption`, for any number of buckets, lines per bucket, messages and
hosts, with producer and consumer on one host or on two:

- `MessagesStayIntact`: `Spec => []UnconsumedIntact`.
- `CrcIsRepaired`: `Spec => []RetryRepairsCrc`.
- `DrainLeavesNothing`: `Spec => []DrainEmpties`.
- `CoherentIsSafe`: `Spec => []CoherentNeverFatal`.
- `QueueIsFifo`: `Spec => ImplementsFifo`.
- `PcqTypeCorrect` and `PcqInvariant`: `TypeOK` and `PcqInv`.

Each line of the queue is written by one of the two hosts (`Owner`), and what that
host sees of its own lines is the truth about the queue (`own`, `Owned`). Those
values follow the counts of puts and gets (`Producing`, `Consuming`). Memory and the
caches of the other side lag behind, in the safe direction: the `producer_index` in
memory covers what the consumer has taken (`Published`), and the `consumer_index`
that the producer has cached, which it may have read long ago, still leaves room for
the put it has begun (`Room`). So no bucket is overwritten before it is consumed
(`Intact`), and a bucket that was invalidated is read right (`Fresh`), which is why
one retry repairs a bad crc. The ring needs that numbers less than `NBuckets` apart
have different slots: `ModNext`, `ModWrap` and `ModInjective` are this arithmetic of
`%` for a divisor that is a parameter. TLC checked `PcqInv` with one, two and three
buckets (384, 281,224 and 5,793,832 states).

### Alloc and Master

From `DeviceAssumption` and `MasterAssumption`, for any device, paths, sizes,
interleave parameters with no more strips than `ie_strips` has entries (the number
of buckets is free), and any number of crashes and failures. The first, second
and fifth speak of what happens before `overrun`:

- `NoUnitTwice`: `Spec => []FsckClean`.
- `BitmapCovers`: `Spec => []BitmapCoversLog`.
- `DirectoryFirst`: `Spec => []ParentLoggedFirst`.
- `LogAgrees`: `Spec => []LogAgreesWithLocal`.
- `FailureRestores`: `Spec => FailedAllocRestores`.
- `MasterTypeCorrect` and `MasterInvariant`: `TypeOK` and `MasterInv`.

`AllocProofs` has what the allocator promises: `FileAlloc` says that an allocation
takes units that were free, each once, or leaves the bitmap as it was or ends the
process or has run past `ie_strips`, and
`BuildBitmap` that the bitmap of a log is the set of its units and that fsck
counts no error if no unit is used twice. Both are about loops. Induction over
data cannot be had from the library's theorems here, so the loops are recursive
functions on `0 .. n`, whose existence and invariants follow from `LoopExists`
and `LoopStays`, which rest on a first-order form of induction
(`NatInd`). The 64-bit remainder that wraps takes no part in the argument: the
search takes only bits that are clear, also where it runs past the device into the
spare byte of the bitmap (`SpareByteAssumption`, which the model needs and the
proofs do not, says that it goes no further). So `FsckClean` holds although
`WithinDevice` does not.

`MasterInv` carries the promise through a session: what is logged shares no unit
(`LogApart`), unless there was an overrun; the session's bitmap covers the log and
the file about to be logged, which shares nothing with it (`Covered`), and without
crashes and failures the log and the name space differ only in what is being created
or in what a full log refused (`InStep`). TLC checked `MasterInv` on the instance of
the `master` run.

### Mkfs

For `Spec` with all its crashes and any loads, so for any number of commands and
hosts, several mkfs at once included:

- `Inductive`: `Spec => []IInv`.
- `LeavesNothing`: `Spec => []NothingLeftBehind`.
- `ReportsItsMount`: `Spec => []SuccessIsMounted`.
- `MkfsEndures`: `Spec => []MkfsIsDurable`.
- `MkfsWithoutForce`: `Spec => MkfsSpares`.
- `PlaysTheLastMkfs`: `Spec => PlayedIsCurrent`.
- `MkfsTypeCorrect`: `Spec => []TypeOK`, with `TypesInvariant`.
- `DeviceInvariant`: `Spec => []MkfsInvariant`.

`NothingLeftBehind` and `SuccessIsMounted` speak of commands that are done; what
makes them true is decided earlier. `IInv` adds, for every step of a command, what
having reached it says of the mount and the result (`Phase`): a command on the raw
device has no mount, one in its error path has a result that is not 0, only a mount
plays the log. It is local to a process (`Local`): a step of one command leaves the
steps, results and mounts of the others alone. Only a loss of power touches several,
and it takes their mounts away. There is one lemma per action; those of a command
that has its device or dummy mount share the ways it can go on or end (`GoesOn`,
`Returns`, `Unmounts`). Nothing of the caches is needed: whatever a command reads,
it comes to a result that agrees with its mount. `MkfsAssumption` is not used.

The other properties are about memory, need `MkfsAssumption`, and say something
only until `raced`. So does their invariant: `MkfsInvariant` is the little that
holds in any case (`Basic`), and `DeviceInv` until `raced`. `DeviceInv` says which
hosts may have lines to write back: only that of a mkfs between its first store and
its last flush, or of one that was killed (`Sole`). A mkfs that begins without
`raced` finds no other at work and no other host with such lines (`Turns`), so nobody
else writes while it works, and what it has stored is what its host sees and what
memory will hold, whatever is written back or dropped (`Held`, `Stored`). When it
returns everything is in memory and no host has a dirty line, which is what keeps it
there (`Durable`); for a kill it is enough that the line of the magic number is
clean. A mount that looked at the log after that has the current one before it
(`Current`). Most steps only move lines about, and all of them are `Tame`: one lemma
for each cache operation, one for what a tame step preserves (`TameStep`), and for
the commands that only look, two about where they go and what they touch (`Moves`,
`Looks`). TLC checked `IInv`, `Types` and `MkfsInvariant` on the instance of the
`mkfs` run.

### Only model-checked

- Liveness (`EventuallyPlayed`, `AllDelivered`): TLAPS does not reason about fairness.
- Everything about Fused.
- What the yaml parser computes (`YamlAssumption`, with Yaml's RECURSIVE parser)
  and that `FreedBy` is what the recursion frees (`PutrefAssumption`): TLC
  evaluates both on the instance of the `fused` run. The provers take no RECURSIVE
  operator.

## Not modelled

Whole parts:

- The copy thread pool (`famfs_copy_file_data`). What can go wrong there is data
  missing from a file whose name and map are right, and every module abstracts the
  data of files away. Its hazards are listed in `PROJECT.json`.
- dax modes (writes to sysfs), REST diagnostics (read-only), the command line
  (option parsing), logging.

Left out of the parts above:

- Alloc: interleave parameters with more strips than `ie_strips` has entries. The
  command line refuses them; the alloc configuration file is not checked for it.
- Log and master: the posix-read path of logplay (no invalidate; mmap is the
  default), dry runs and test modes, `mkdir -p`, recursive and multi-file copies,
  which repeat the steps of Master.
- Pcq: creation of a queue, crashes of its processes, the info command, the
  status thread.
- Daemon: `famfs_icache_destroy` (the session is over), get_daxdev and getxattr
  (they report constants), create (fails), readdir (readdirplus without the
  lookups), overflow of the reply buffer, files on more than one device.
- Yaml: `famfs_parse_alloc_yaml`, which reads the interleave defaults.
- Mount: the choice of a shadow directory (`shadow_path_in_use`,
  `shadow_path_valid`) and inquiries by path or xattr. The superblock's size
  limits and a host whose uuid cannot be read, except by mkfs.

Next would be proofs about Fused, of `RefcountExact` above all.
