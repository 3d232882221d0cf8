# Verification of the boot environment of bootloader-riscv

This directory is a TLA+ development of the program logic in
`sophgo/bootloader-riscv` that can be model-checked and proved: the Go code under
`u-root/`, which runs as the LinuxBoot environment of the boards.  TLC checks the
modules on small instances; TLAPS proves the main safety properties for every
value of the constants.  `PROJECT.json` lists components, runs, mutants, the map
from definitions to source lines, findings, hazards and theorems.

## 1. The system

The firmware starts a Linux kernel whose initramfs is u-root.  `init` mounts the
pseudo file systems and runs the boot commands one after the other.  `boot` mounts
every block device it finds, parses the boot configurations on them, lets the user
choose from a menu, loads the chosen kernel with kexec, unmounts everything and
jumps to it; `pxeboot` does the same from the network.  `watchdogd` feeds the
hardware watchdog meanwhile; kexec can be told to have it disarmed.  The processes
share the file system and the kernel and talk through a Unix socket (watchdogd),
lock files and signals.  The rest of the repository (buildroot, busybox, board
scripts, vendored Go code) is third-party code and configuration.

| Component | State | Operations | What is hard | What makes it correct |
|---|---|---|---|---|
| `pkg/lockfile` | symbolic link, pid files | TryLock, Lock, Unlock | system calls of several processes interleave, crash at any point, failing calls | mutual exclusion, stale locks are recovered, nobody else's file is touched |
| `pkg/watchdogd`, `pkg/watchdog` | handle, PettingOn, petting goroutines, device | arm, disarm, continue, stop over a socket | unsynchronised flag, timer racing a channel, two writers of one device | an armed device is fed, a disarmed one does not reboot, every request is answered |
| `pkg/mount` (Pool) | mount points, temporary directory | Mount, Add, UnmountAll | partial failure, retry | nothing mounted is forgotten, nil means clean |
| `cmds/boot/boot`, `pkg/boot/{localboot,menu,bootcmd}` | entries, command lines, loaded kernel | scan, sort, choose, edit, load, clean up, exec | retry after a failed load, input racing a deadline, any subset of steps failing | the right kernel with the right command line; it never hangs |
| `pkg/boot` (LinuxImage, CatInitrds) | kernel, initrd, device tree | Load, Edit | Load modifies the image it loads | initrd parts aligned, one device tree |
| `pkg/boot/kexec` and the loaders over it | memory map, segments | allocate, place, align, merge, load | arithmetic at boundaries, pages shared by segments | space found is free RAM, segments disjoint, every byte arrives |
| `pkg/dhclient`, `pkg/boot/netboot`, `cmds/boot/pxeboot` | goroutines, result channel, wait group; addresses, route, resolv.conf | SendRequests, Configure, BootImages, search for a configuration | goroutines that outlive their receiver, deadline, leases that overwrite each other | no send on a closed channel, "nothing bootable" is true, a lease is used with its own network |
| `pkg/boot/syslinux` | entries, order, scope | one operation per directive, end of file | included files and errors in the middle of a label | the entries say what the text says, in the intended order |
| `cmds/core/dd`, `pkg/progress` | buffers, channels, counters | read, send, receive, write, give back, quit | buffers that are reused, three goroutines, errors on both sides | the output is a prefix of the input, nil means copied, it ends |
| `cmds/core/init`, `pkg/libinit` | name space, children | mount, run commands, reap | children and orphans exit in any order | the next command starts when the last one has gone |
| `pkg/fdsrv` | shared descriptor | serve, share once | nonce, time-out | descriptor closed exactly once |

The other parts (GRUB and BLS parsers, image formats, utilities, hardware access, build system)
are in `PROJECT.json` with the reason why they are left out.

## 2. Modules and plan

| Module | Contents | Status |
|---|---|---|
| `Lockfile`, `LockfileProofs`, `MCLockfile` | the lock protocol | done, proved |
| `Watchdogd`, `WatchdogdProofs`, `MCWatchdogd` | the daemon, its goroutines, the kernel's device | done, proved |
| `MountPool`, `MountPoolProofs`, `MCMountPool` | the pool of mounts | done, proved |
| `Boot`, `BootProofs`, `MCBoot` | the boot command; extends `MountPool`, whose actions are conjuncts of its own | done, proved |
| `AbstractLock` | what the lock promises to its clients; `Lockfile` implements it | done, refinement proved |
| `MemRange` | words, ranges and memory maps as operators | done |
| `Kexec`, `KexecProofs`, `MCKexec` | kexec.Memory, AlignAndMerge and the loaders; extends `MemRange` | done, proved |
| `Netboot`, `NetbootProofs`, `MCNetboot` | SendRequests, the leases, NetbootImages | done, proved |
| `Syslinux`, `SyslinuxProofs`, `MCSyslinux` | the syslinux parser; `Netboot` sees its result as the status of a file | done, proved |
| `Dd`, `DdProofs`, `MCDd` | the parallel copy and the progress goroutine | done, proved |

Every invariant and every action property of the passing runs is stated by a theorem.

## 3. Lockfile

`pkg/lockfile/lockfile.go`.  The lock is a symbolic link at a fixed path to a pid
file.  Every system call is one action; the Go code up to the next system call
belongs to it, so processes interleave exactly at the system calls.  `CallLock` is
`pidfile()` (CreateTemp and WriteString), `Symlink` the `os.Symlink` of `lockWith`,
`ReadLockfile` and `Probe` the two calls of `checkLockfile` (ReadFile through the
link, signal 0), `Readlink`, `RemoveTarget`, `RemoveLink` and `Nuke` the clean-up in
`lockWith` and `Unlock`, `Cleanup` the removal of the pid file after an error, whose
failure is a `log.Fatalf`.  `CheckReturns` and `LockWithReturns` are the switches on
the results.  A pid file is a pair of process and name; a name is used again only
when nothing refers to it.  `Crash` kills a process at one of `CrashPoints`.
What is at the path may also be no link (`Regular`): a file with the pid of a process,
which `checkLockfile` reads like a pid file, so that the process takes it for its own
lock, or anything else (`Foreign`), unreadable as a pid.  Such a file is there from the
start or not at all: that nobody else creates one later is an assumption.

Runs:

* `lock_safety` (two processes, two pid files each, every system call may fail, one
  crash anywhere, any file at the path at the start; 2.0 million states): `MutexUntilCrash`, `RogueMeansNotHeld` (no
  false ErrRogueDeletion while all live), `PidfileStaysUntilLinked` (the Fatalf of
  the clean-up does not fire because of other processes), and the refinement
  `ImplementsLock`.
* `lock_stale` (one crash, not between the two removals): the survivor recovers the
  lock and returns, and is alone: `MutualExclusion`, `CallsReturn`.
* `lock_double_steal` (violation): a killed holder, two survivors.  Both find the
  owner dead, one cleans up and takes the lock, the other removes *that* link.

A process killed between the removal of the pid file and that of the link leaves a
dangling link, on which `lockWith` spins for ever: `CallsReturn` fails as soon as
`CrashPoints` has this point, which is why `lock_stale` leaves it out.

`AbstractLock` has an owner and a phase for each client, and two regimes.  While every
process lives, a client enters only if the lock is free or its own already (a second
TryLock of the same process), and only the owner frees it.  After a death the others
may recover: then a step moves no other client, gives the lock to nobody but itself
and leaves a foreign file alone.  A file with the pid of a process counts as its lock:
so does the code.  The refinement mapping takes the owner from what is at the path
(`LockOwner`) and the phase from the program point (`Phase`): the symbolic link is the
moment at which the lock is taken, and the removal of the link the one at which it is
free.

Fairness: weak fairness of every process's steps (the kernel runs processes that
are not killed); nothing is assumed of clients.  `CallsReturn` leaves out the case
that other clients take and release the lock for ever.

Proofs (`LockfileProofs`): the invariant
`IInv == TypeOK /\ PidfileInv /\ PathInv /\ (AllAlive => LiveInv)`.  Mutual exclusion
is not inductive: one needs that a holder's own pid file is linked (`HolderInv`), that
a process which read its own pid still has the link (`ProbeInv`), that while all live
nobody gets to the clean-up of a stale lock (`StealInv`), and that `Unlock` works on
the caller's own link all the way (`UnlockInv`).  These hold only until a crash; the
pid files (`PidfileInv`) and the control points (`PathInv`) hold always.
`ForeignFileIsSafe` (`ForeignLeftAlone`) is about what is no link: `lockWith` leaves it
alone, as its comment says, but `Unlock` does not look, and removes it ("The symlink is
somehow screwed up. Just nuke it.") if it holds the pid of the caller.  The theorem says
that this is the only case.  It has an invariant of its own (`ForeignInv`: who has probed
such a file has read its pid, and only the owner of that pid is past the probe in
`Unlock`) and is only proved.  There is one lemma per action.
`FileLockRefinesAbstractLock` uses the same invariant: each action is shown to be one
named step of `AbstractLock`, or a stutter, with `Recover` for all steps after a crash.

After a crash two theorems remain, and together they bound what `lock_double_steal` shows.
`TwoProcessesExclude`: two processes always exclude each other, since the survivor of a
crash has nobody to share the lock with.  `SerializedCleanersExclude`: any number of
processes may disappear, at any points, and the lock still has one holder at a time (and
`Unlock` still gives ErrRogueDeletion to no holder), provided that the clean-ups of
`lockWith` are serialized: one process cleans up at a time (`SoleCleaner`), and when it
starts to, the link still is a dead process's (`StaleAtProbe`).  `RecoveryInv` is `LiveInv`
with, in place of `StealInv`, the fact that the link stays a dead process's until the
cleaner removes it (`CleanerInv`); nobody else can remove it meanwhile, since `Unlock`
works on the caller's own link, and nobody can lock while there is a link.  Neither
condition can be left out: TLC finds two holders among three processes with either one
alone.  `SoleCleaner` excludes `lock_double_steal`; `StaleAtProbe` excludes that a process
reads the pid of a holder that gives the lock back and exits before it is probed, by which
time the link may be another, live holder's.  A change of `lockWith` that establishes the
two (a rename of the link before it is probed, say) would be enough.

## 4. Watchdogd

`pkg/watchdogd/watchdogd.go` over `pkg/watchdog/watchdog.go`.  `pc["main"]` is `Run`,
`pc["srv"]` is `StartServing`, `petter[g]` the goroutines that `StartPetting` leaves
behind, `orphans` the `erredOut` goroutines that outlive their `StopPetting`.
`d.PettingOn` and `d.CurrentWd` are shared without a lock, and every access that
another goroutine can see is a step.  The kernel's device (external) can be open
once, starts with `Open`, and stops at `Close` only if the last write was `V`.
`ArmSet` keeps the code's error path, which closes `d.CurrentWd` instead of the new
handle: a nil dereference, or a descriptor left to the garbage collector.
`DisarmWatchdog` and `DisarmClose` are the two system calls of `MagicClose`: when the
write of `V` fails (it may have reached the driver all the same) the descriptor is closed
without it (`closeonly`), a close that fails frees the descriptor too, and in both cases
the client gets an error; so it does when the descriptor was closed before.

Runs (three petting goroutines):

* `watchdogd` (five requests; opening the device, ioctls, the write of `V` and the close may fail;
  96 000 states): the flag has a
  petter (`PettingOnHasPetter`), a disarm disarms (`DisarmedUnlessPetted`), every
  request is answered (`RequestsAnswered`), and an armed device is fed
  (`KeepsMachineAlive`).  Monitors do not object in this run, because a daemon that is
  told not to feed the device does not; the proofs include them.

Behaviours of the model that contradict a comment, though no run is about them: two
continues before the new goroutine has set the flag start two petters, and a stop ends
only one of them ("stopPetting stops an ongoing petting process if there is"); a
keepalive between the `V` and the `Close` of `MagicClose` leaves the device counting
("MagicClose disarms the watchdog").  The two properties are stated around them.

Deadlock is not checked: a daemon whose clients are done, or that has given up, stops.
Fairness: goroutines that can run are run, timers fire; clients and the garbage
collector owe nothing.  Reception of OpStop is strongly fair, because a blocked
sender is queued on the channel and `select` chooses at random among ready cases.

Proofs (`WatchdogdProofs`): `IInv` adds to the two properties `HandlerInv` (which
request the server is working on) and `DeviceInv` (who has the descriptor, and that a
device between `V` and `Close` may stop unless somebody pets it), for any set of
goroutines, any number of requests and all failures.

## 5. MountPool

`Pool` of `pkg/mount/mount_linux.go`.  A mount point is a device in the n-th
temporary directory of the pool, or in a directory of its own (n = 0) when it came in
through `Add`.  `MountKnown`, `MountNew` and `MountFails` are the ways `Mount` can go;
`UnmountAll(refused, kept)` unmounts what the kernel does not refuse, removes the
directories that it does not refuse to remove, without a word about those that stay
(line 214), and, if everything could be unmounted, the temporary one.  That removal may
fail, too: then there is an error, and line 225 forgets the directory all the same.
What may be refused are the devices in `Stubborn`, and for those also the removal of the
directory after a failed `Mount` (line 182).

* `mount_pool` (two devices, both stubborn, two temporary directories over time, any
  failures; 138 000 states): `NothingForgotten`; `LeaksAreReported` (a temporary
  directory that is still there is given up only with an error, and with nothing mounted
  in it); `NilMeansClean` (what is still mounted is named in the error; nil means that
  everything is unmounted and the temporary directory gone with all that was in it, since
  a directory that could not be removed keeps its parent from going.  The directories of
  mount points that came in through `Add` may stay, even with nil).

After a partial failure the list still holds what was unmounted, so that every later
`UnmountAll` fails, although its comment says "it can be re-tried"; and a temporary
directory that could not be removed is out of reach of the next call, which may return
nil.

Proofs (`MountPoolProofs`): `PoolCleansUp`, `PoolReportsLeaks` and `NilIsClean`, one for
each property, from `PoolInv`: everything mounted is on the list, and in the present
temporary directory or in one that came in through `Add` (`MountedInTmpDir`).

## 6. Boot

From `main` of `cmds/boot/boot/boot.go` to `Exec`.  The contents of the disks are
constants, so one instance fixes the disks and leaves failures and input open:

* search: `GetBlockDevices`, `ScanUnmounted` (ESXi partitions and installer disks,
  `esxi.LoadDisk`, `LoadCDROM`, handed to the pool with `Add`), `ScanMounted`,
  `ScanFails`, `GrubSearch` (a GRUB `search` mounts another device).  `GiveUp` is part of
  every scan: what `LoadDisk` and `LoadCDROM` mounted without finding an image is
  unmounted without a look at the errors, and `LoadDisk` leaves the directories of
  partitions with an unbootable boot.cfg (`leftDirs`, `leftMounts`);
* `ShowImages`: `sort.Sort(byRank)`, `updateBootCmdline`, `-no-load`.  `sort.Sort`
  (external) keeps the order of equal images only while it is a plain insertion sort,
  up to 6 or 12 elements depending on the Go version (`InsertionLimit`);
* menu: one action per line of input in `Choose`, with the deadline as `Expire` and
  `ReadFails`; an expired deadline makes every later read fail until the next
  `Choose` sets a new one;
* `LoadChosen`, `LoadDefault`: a load fails before it changes the image, fails after
  it has appended the device tree, or succeeds.  It needs the image's device mounted;
* `CleanUp` (`UnmountAll(MNT_DETACH)`, whose error is logged and ignored), `Exec`.

Command lines are sequences of texts marked with the menu entry they were typed for;
initrds are sequences of parts with offsets, so that `CatInitrds` pads for real.

* `boot` (five devices of which the command looks at any two, two ESXi and two Linux
  images, a partition with an unbootable boot.cfg, two partitions that the kernel may
  refuse to unmount, four lines of input, which is what a complete edit takes; 490 000
  states): `BootsWhatWasChosen`, `EditsReachTheirKernel`, `DefaultIsBest`,
  `NothingLeftMounted` (what is still mounted was refused, and is in the logged error if
  it is the pool's; without an error the pool has left nothing), `PartsAligned`,
  `EsxiOrderKept`, and `BootEnds` under weak fairness of the program's steps: the
  runtime keeps deadlines and a configuration file has an end.

A load that fails late and is repeated appends the device tree twice; `PartsAligned`
holds of the result all the same.

Proofs (`BootProofs`): all invariants of the run, for any disks, failures and input.

* `BootCleansUp`: `BootInv` adds to `PoolInv` that before the clean-up (`PoolBefore`) every
  mount point on the list is mounted, for `UnmountAll` fails for one that is not, and that
  there is one temporary directory at most, in which all other directories lie; and
  `LeftInv` about what LoadDisk and LoadCDROM left.  The lemmas about the pool are reused.
* `BootsTheChoice`, `EditsReach`, `DefaultsToTheBest`: `MenuInv` follows a choice from the
  prompt to the kernel in memory.  `ChoiceInv` says that the images which failed are
  exactly those before the default at hand, `OrderInv` that the list is sorted from the
  moment it is shown, `EditInv` that a typed text is in the command line of the entry with
  its number.  None of the three properties is inductive without the other two parts.
* `LoadsAlignedParts`: `InitrdInv`, with lemmas on what `CatInitrds` does to the offsets of
  a blob that is a concatenation already, for every `Sector` and every length.
* `KeepsEsxiOrder`: under the hypothesis `EsxiDistinct` (a partition belongs to one disk,
  and no boot.cfg gives an image that another partition, disc or configuration gives:
  otherwise one name stands for two entries).  `EsxiInv` says that the images of a disk
  that is still to be searched are not on the list, so that those of one disk are put
  there by one step.

Seen while modelling and not runs of their own: `StartShell.Exec` returns nil after a
clean exit, against the comment of `menu.Entry`; with `-no-load` the mounts stay;
without
`/dev/tty` nothing is booted although there are defaults; `Lock` returns ErrBusy to
its client after the second attempt; a client that arms before `Run` does makes `Run`
give up with the device armed; `SetTimeout` hands the kernel nanoseconds.

## 7. Kexec

`pkg/boot/kexec/memory_linux.go` and `kexec_load_linux.go`, with the loaders that use
them.  `MemRange` has the arithmetic: addresses and sizes are words of `Word` values
that wrap around, a list of ranges is a set (the code keeps the lists sorted but for one
case), `Minus` has its two halves `Below` and `Above`, and `FindSpaceIn` has what the ranges
with room offer.  `FindSpace` takes the lowest of it; only the map of a device tree that
reserves nothing is in the order of the tree's nodes, so that on a map of nothing but RAM
(`Sorted`) it may be any.
In `Kexec` a loader is the sequence of the calls it makes on `kexec.Memory` (`Arm64`,
`Amd64`, `Multiboot`, `EsxBootInfo`, `Uefi`, with the sizes of its inputs), and there is
an action for each call; the loops over segments (`SubtractSegment`, `MergeNext`) take a
step per round.  A byte of a buffer is known by its segment and place, so that what
AlignAndMerge copies, pads and truncates can be followed.  A loader may fail at any
call.  `NewSegment` panics over a buffer that is empty and not nil.  Only an initramfs can have
one, that of an empty file (`AddFile`, `EmptyBuffer`); the other buffers are made with at least
one byte, or are nil if there is nothing in them.  `ParseMemoryMap` takes one of the maps in `Firmware`.

* `kexec` (32 addresses, pages of two, 1 MiB at 8; every loader with inputs of up to
  four bytes, up to three program headers with less, as much and more data than memory,
  two memory maps with RAM that ends and begins within pages and at the very end;
  383 000 states): `FoundIsFree`, `PlacedApart`, `KernelAccepts` (the preconditions of
  rawLoad), `BytesArrive`, `ReservedIsTold`.

Proofs (`KexecProofs`): all properties of the run.  `FoundSpaceIsFree`, for every word and page size, loader and
number of segments, on machines as `Machine(top)` describes them: every RAM range of a
firmware map ends at or below `top` (or with the last address: then the code takes it
for empty), `top` lies more than a page below the word size,
and the calls are proper: a segment at a fixed address and the limit of a reservation do
not wrap around, and `top` plus the offset that an `add` call asks for is still a word.
The invariant `KInv` says that what is left of RAM lies within RAM of the map and has no
point in common with the segments that were subtracted already (`RamInv`), that RAM stays
below `top` (`PhysInv`) and segments do not wrap (`SegInv`), which is why no sum does.

`ReservationsAreTold` and `PlacedSegmentsApart` ask besides that a loader makes its calls in
order (`InOrder`): fixed addresses first, an offset only for the very first segment, and no
change to the memory map once it is written for the next system.  `LoadersInOrder` proves
this of all five loaders, for all inputs.  It is needed: the offset of
`AddKexecSegmentExplicit` moves a segment past the space that was found, which is harmless
only while there is no other.  The invariant `ClearInv` orders the segments by age: one that
was placed is clear of all older ones, and nothing is inserted after it.

`KernelAcceptsSegments` and `BytesAreLoaded` ask for a `PagedMachine(top)`: M1, the limits and
the alignments are multiples of a page, no segment reaches into the last page of the address
space, and no program header is empty.  `PageInv` says that what is placed comes in whole
pages, and that only an empty segment that was placed may have no bytes.  `MergeInv` follows
the loop of `AlignAndMerge`: the pages of every finished segment come before those of the
last one and of every segment to come, and the last one ends where one of the loader's
segments ends.  The hard case is an empty segment (arm64 without initramfs) that begins
where another begins: the loop then pushes a segment before one that might still join it.
`EmptyStart` shows that the segments at that address were both placed, so that no later one
begins within their pages.  `HoldsInv` is about the bytes: each segment that the loop has
come to lies in one that it has made, at its own address; the lemmas `AlignFacts`,
`MergeFacts` and `AlignSizeFacts` say what padding, truncating and aligning do to buffers.
The invariants were checked with pages of two and of four bytes before they were proved.

The limit that the amd64 loader computes for the boot parameters wraps around: it begins at
the page for them (`SetupAddr`) and its end is below its start.  `SetupSpace` shows what
`FindSpaceIn` makes of it: a range of RAM that goes on past that page serves, and the space
begins at the page.  For that no RAM may begin or end within the page.  `Machine(top)` asks it of
the firmware's maps, of fixed segments and of reserved regions (`SetupPage`, `Spared`, only if
a loader does compute such a limit), and `SetupInv` keeps it through `AvailableRAM` and
`ReservePhys`: what is placed begins at a page, at or above M1, or at a limit.

`KernelsAreLoaded` puts all of it together in terms of what the loaders are given instead of
the calls they make: `Platform(top)` is about the machine, `PagedLoader(top, p)` about the
files, one case for each of the five loaders, and the lemmas `Arm64Paged` to `UefiPaged` show that the
calls of each are those of a `PagedMachine(top)`.  It is not about every map and every file.
On a real machine (pages of 4 KiB, boot parameters of one page at 0x90000, M1 at 1 MiB,
alignments of whole pages) it asks for these:

| Hypothesis | Why it is asked |
|---|---|
| amd64 only: no RAM ends within the page of the boot parameters (`SetupPage`), no program header or reserved region begins there (`Spared`) | the limit that wraps lets the code find space that is not RAM: `FoundIsFree` is false |
| RAM ends more than a page below the last address, or exactly there (`Platform`) | rounding up wraps around |
| no program header and no payload is empty (`PagedElf`) | an empty one that begins with another segment hides from `AlignAndMerge` that the next one shares its last page: `KernelAccepts` is false |
| no fixed segment, file or kernel offset reaches into the last pages; a UEFI base is not below `uefiPayloadConfigSize` | sums and differences wrap around |
| the purgatory is linked to a page boundary | its segment would begin within a page, which the argument about pages does not cover |

For arm64, multiboot, esxBootInfo and UEFI nothing is asked about where low RAM ends.

Seen while modelling: the amd64 loader gives the length of the boot parameters as the
*end* of the interval for them, so that the limit wraps and, on a machine whose low RAM
ends within the page at 0x90000, the space found is not RAM (outside `SetupPage`, and
not on the maps of the run); `AddKexecSegmentExplicit` moves the start without shrinking
the size; an empty segment between two others hides that these overlap; a program
header with memory, without data and not at a page boundary makes `AlignPhysStart`
panic, and an initramfs file without a byte makes `NewSegment` panic; RAM up to 2^64 has
the end 0 and is never used.

## 8. Netboot

`SendRequests` of `pkg/dhclient`, `NetbootImages` of `cmds/boot/pxeboot` and
`pkg/boot/netboot`.  Each interface has a goroutine that brings the link up (`IfUp`,
`Spawn`) and one for each protocol (`Dad`, `Lease`, `Send`, `Done`); `Close` is the
goroutine that waits for all of them.  `NetbootImages` is a select over the deadline and
the results (`TimedOut`, `AllDone`, `Receive`), `Configure` of a lease in three steps,
each of which may fail half way, and the search on the server of the lease (`BootImages`,
`getBootImages`, `ProbeNext`, `ParseConfig`), where any fetch may fail.  The exchange of
DHCP messages (vendored) yields one of `Offers` or fails; an offer comes with what its
server has.

* `netboot` (one interface with both protocols, two interfaces with one, none; leases
  without a boot file, with a path, with a URL, without routes, with a router, with
  classless routes that have a default route or none; 328 000 states): `SendsSafely`,
  `NothingMeansNothing`, `FetchesWithItsLease`, `MostSpecificConfig`, `AllEnds`.

`FetchesWithItsLease` is about leases for which `Configure` has returned nil
(`configured`): `NetbootImages` goes on with the others too.  The address and the name
servers are then those of the lease (IPv6 addresses that cannot be set are ignored, and
`resolv.conf` is left alone if an IPv6 lease names no server).  The default route is that of the lease if it gives one
(`GivesDefault`); classless routes without a default make the code ignore the router, and
the default route of an earlier lease stays.

Two interfaces with both protocols at once are too many states, and show no more: what
goroutines share is the wait group and the channel, whose limit is a multiple of the
interfaces.  `IPLen` is 2, so that the search has more than one name per address.
Fairness: goroutines run, `IfUp` and the DHCP clients end by their own time-outs, and the
deadline passes.  Nothing is assumed of the servers (`Remote`): the deadline is that of the
requests, images are fetched with `context.Background()`, and `http.DefaultClient` has no
time-out, so that a server which accepts and never answers keeps `NetbootImages` waiting
for ever.  `AllEnds` says that the channel is closed in any case, and that `NetbootImages`
returns unless it waits in this way.

Proofs (`NetbootProofs`): the four invariants of the run, for any interfaces, offers,
command lines and length of addresses, from `NetInv == GoInv /\ BootInv /\ ProbeInv`.
`GoInv` is about the goroutines: the wait group counts those that live, the channel is
closed after the last of them, and a result is in the channel at most once, so that the
results sent are never more than the workers and the channel has room for each
(`SendsAreSafe`).  `BootInv` is about `NetbootImages`: a lease with a URL is still to be
sent, in the channel or at hand (`NothingIsNothing`), and the network is configured for the
lease at hand by the steps taken so far (`ConfiguresItsLease`).  `ProbeInv` says that the
names probed so far are a prefix of the list and were missing or could not be fetched.  `UsesMostSpecific` has the
hypothesis that no configuration refers to a URL of an unknown scheme; without it the
property is false, as the next paragraph says.

Seen while modelling: a configuration with a URL of an unknown scheme is taken for one
that is not there ("We didn't find the file"), and a less specific one is used; so is any
failure to fetch one, a passing one too, as every error of a fetch is an error about a URL
(`lost`); the
first lease with a URL ends the search even if there is nothing at the URL.

## 9. Syslinux

`ParseConfigFile` of `pkg/boot/syslinux`.  Each line of a configuration is one action;
which one comes next is open, so that all configurations of `MaxLines` lines are parsed.
`Include` goes one file deeper, `EndOfFile` is the loop that follows the last line of
*each* file, `FileFails` an error of `getFile`, `IncludeFails`
one of `appendFile` that is not taken for a missing file.  `text` records the lines, and the
properties compare the entries with what the text says by itself (`Section`,
`Effective`, `Wish`).  After the parser, `RankLabel` is one turn of the loop over
p.labelOrder (`Order`, with the default entries before it); that `dedupStrings` drops a
label is that the turn finds it among the earlier ones (`Seen`), so that its loop and the
one that appends the images, which follow each other in one goroutine, are one.

* `syslinux` (five lines, two labels, files included to depth two, odd arguments;
  4.3 million states with symmetry of the labels): `CmdlineIsLastAppend`,
  `InitrdFollowsCmdline`, `Ranked`.
* `syslinux_initrd` (violation): a label, an included file with `append initrd=i1`, then
  `append initrd=i2`.  The end of the included file fixes the initrd to i1.

`Empty` names the empty string of the code: no entry, no argument, no command line.  At the
end of a file every entry whose command line has an initrd and that has none yet (`Asking`)
gets it; a URL of an unknown scheme ends the parsing, and a bare `initrd` panics.

Five lines are a label with its own lines, a second one, and a default, with an included
file in between.  There is no fairness: that the parser ends is false for files that
include each other (`MaxDepth`).

Proofs (`SyslinuxProofs`): `CmdlinesAreLast`, `InitrdsFollow` and `LabelsAreRanked`, for configurations of any
length and depth and any labels.  The properties speak of the text (`Section`, the lines
between a label and the next one), the parser has a scope and a current entry.  `CurInv`
connects them: the current entry is the label of the last LABEL line.  `GlobalInv` and
`OwnInv` say what the global and the own APPEND lines so far have left in the state, and
`InitrdInv` that before the end of the only file nothing but INITRD has set an initrd.  The
lemmas show what one further line changes in a section.

`LabelsAreRanked` says of the list that ParseConfigFile returns all that its comment
"Intended order" does: no image twice, none missing, the default that the text asks for
last in front (NERFDEFAULT before DEFAULT, and MENU DEFAULT for the label that it is in),
and the other labels as they came.  `RankInv` has an invariant for each step of the way:
`LabelInv` that labelOrder keeps the order in which the text names the labels first,
`WishInv` that the two default entries are those that the last such lines ask for, and
`ImagesInv` that after r turns the list is what it has to be for the first r labels
(`RankedUpTo`).  The loop is the induction: `SeenLabel` and `NewLabel` are its two cases,
for any list of labels.

## 10. Dd

`cmds/core/dd/dd.go` and `pkg/progress`.  The reading goroutine (`Select` to
`CloseReady`), the main goroutine (`Receive`, `WriteBlock`, `Put`, `CloseQuit`,
`Return`, `End`) and the goroutine that prints (`Tick`, `Show`, `Quit`) share channels of
depth `Depth`, which is 2, 1 and 0 in the run.  Buffers have an identity, bytes are
known by their place in the input.  Reads of a stream may be short, reads of a file may
return data together with an error or the end of file; skipping in a stream reads it, and
may fail even if nothing is to be copied (count 0).  `inFile` and the section readers are
there with the overflow of their sum.  That of the products is not: what a negative offset
or length does is up to `io.NewSectionReader`, and differs between releases of Go.

* `dd` (inputs of up to five bytes, block sizes 0 to 5, skip, count, failures of both
  sides, progress; 380 000 states): `BuffersHaveOneOwner`, `OutputIsPrefix`,
  `NilMeansCopied`, `FinalValueIsAccurate`, and `CopyEnds`: dd ends unless a write fails.
* `dd_blocks` (violation): a write fails while the reader waits for room in `readyBufs`;
  it does not look at `quit` there, and `wg.Wait` waits for ever.

Fairness: goroutines that can run are run.  `Quit` is strongly fair: the select of the
printing goroutine chooses at random if a tick and quit are both ready.

Proofs (`DdProofs`): all invariants of the run, for every `Depth`, input, block size and
failure.  `OwnInv` says that a buffer is in one place of the two channels and the two hands
(`OneOwner`).  `FlowInv` says that the bytes in flight are consecutive: what is written,
then the buffer of the writer, the queue in its order, and the buffer of the reader, which
ends where the section reader has got to.  `EndInv` gives the order in which the goroutines
end, and why the channel is empty when the writer leaves its loop without an error.
`WritesAPrefix` and `NilIsCopied` assume `ProductsFit`: `inFile` multiplies skip and count by
the block size without a check, and a product that wraps asks for another part of the input.
`ShowInv` shows that the printing goroutine is gone when the total is printed
(`ShowsTheTotal`).

## 11. What is proved, what is only checked, what is missing

Every theorem assumes the named assumptions of its module's constants
(`LockfileAssumption`, `WatchdogdAssumption`, `MountPoolAssumption`, `BootAssumption`,
`WordAssumption`, `KexecAssumption`, and those of `Netboot`, `Dd` and `Syslinux`), which TLC
evaluates in the runs.  Hypotheses beyond these are part of the theorems, and the instances
of the runs satisfy them (`Machine`, `PagedMachine` and `PagedLoader` with `top = 28`, without the UEFI
programs whose base is below `ConfigSize`, so that the address of the configuration wraps around):

| Theorem | Hypothesis | Without it |
|---|---|---|
| `FoundSpaceIsFree` | `Machine(top)` | sums of addresses wrap around; RAM ends within the page of the boot parameters |
| `PlacedSegmentsApart` | `Machine(top)`, `InOrder` | an offset moves a segment onto another |
| `KernelAcceptsSegments`, `BytesAreLoaded` | `PagedMachine(top)`, `InOrder` | rounding up wraps around; empty program headers hide overlaps |
| `KernelsAreLoaded` | `Platform(top)`, `PagedLoader(top, p)` (the table in section 7) | any of the three before |
| `ReservationsAreTold` | `InOrder` | the map is written before the reservation |
| `SerializedCleanersExclude` | `StaleAtProbe`, `SoleCleaner` | two survivors of a crash share the lock |
| `TwoProcessesExclude` | two processes | the same, with three |
| `UsesMostSpecific` | no URL of an unknown scheme | such a file is taken for a missing one |
| `WritesAPrefix`, `NilIsCopied` | `ProductsFit` | another part of the input is copied |
| `KeepsEsxiOrder` | `EsxiDistinct` | one name stands for two entries |

Only model-checked:

* all liveness (`CallsReturn`, `RequestsAnswered`, `KeepsMachineAlive`, `BootEnds`,
  `CopyEnds`, `AllEnds`), which is out of the prover's reach;
* `FoundIsFree`, `PlacedApart`, `KernelAccepts` and `BytesArrive` for UEFI payloads whose base is
  below `ConfigSize`.

Every property of a passing run has
a mutant of the code that breaks it (operators named `X_Something` before `X`).

Bounds, all named: `Slots`, `MaxCrashes`, `Petters`, `MaxOps`, `MaxTmp`, `MaxDevs`, `MaxLines`,
`MaxDepth`, `Word`, `Page`, `IPLen`, `MaxInt`, `GiB`.  `MaxCrashes = 1` is enough because
two crashes act on the lock like one that leaves the same files; three petters allow two
sessions and one on its way out.

Not modelled: recycled pids, processes of other users, weak memory effects beyond the
interleaving of accesses, reads of a watchdogd client that never writes, the bytes of
configurations and images (and so the addresses that the amd64 and multiboot loaders cut to
32 bits), `dd obs=0`, which writes empty blocks for ever, timing other than "in time or not".  `init`, the descriptor
server, the system booter and the retry loop of `pkg/curl` are sequential code around
one system call or one command after the other; their outcomes are inputs of the modules
above.  The greater part of the repository by lines is tables (PCI identifiers, SMBIOS
types, flash chips, machine code of purgatories, system call names), decoders of binary
formats, and about two hundred independent commands, which have no state that steps of
several actors could disturb.
