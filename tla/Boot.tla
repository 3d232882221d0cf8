-------------------------------- MODULE Boot --------------------------------
(***************************************************************************)
(* The boot command of u-root, from the block devices to kexec:            *)
(* cmds/boot/boot looks for kernels (pkg/boot/localboot), lets the user    *)
(* choose one or takes the first that loads (pkg/boot/menu), unmounts      *)
(* everything (pkg/boot/bootcmd, mount.Pool of module MountPool) and       *)
(* executes it (pkg/boot).                                                 *)
(*                                                                         *)
(* What the disks hold is given by constants.  A command line is the       *)
(* sequence of the texts it consists of; a text that the user types is     *)
(* known by the number of the menu entry it is meant for.                  *)
(***************************************************************************)
EXTENDS MountPool, Sequences

CONSTANTS
    Images,          \* the OS images that the configurations describe
    NoImage,         \* no image
    Parts,           \* Parts[d][5] and Parts[d][6]: those partitions of d, if they exist
    Readable,        \* partitions with a boot.cfg of ESXi that can be parsed
    BootCfg,         \* BootCfg[p]: the bootable ESXi image of partition p
    Updated,         \* Updated[i]: "updated" in the boot.cfg of i
    Cdrom,           \* Cdrom[d]: the ESXi image of installer disk d
    Config,          \* Config[d]: the images of the BLS, GRUB, syslinux configs on d
    Kernel,          \* Kernel[i]: the device with the files of i
    Rank,            \* Rank[i]: i.Rank()
    Linux,           \* the images that are LinuxImages
    Dtb,             \* those with a device tree
    InitrdLen,       \* InitrdLen[i]: size of the initrd of i, 0 if there is none
    DtbLen,          \* size of a device tree
    Sector,          \* the alignment of initrds (512)
    InsertionLimit,  \* up to this length sort.Sort is a plain insertion sort (6 or 12)
    MaxDevs,         \* bound: block devices that the boot command looks at
    MaxLines         \* bound: lines typed by the user

ASSUME BootAssumption ==
    /\ NoImage \notin Images
    /\ Parts \in [Devs -> UNION {[N -> Devs] : N \in SUBSET {5, 6}}] /\ Readable \subseteq Devs
    /\ BootCfg \in [Devs -> Images \cup {NoImage}]
    /\ Cdrom \in [Devs -> Images \cup {NoImage}]
    /\ \A d \in Devs : BootCfg[d] # NoImage => d \in Readable
    /\ \A i \in Images : (\E d \in Devs : i \in {BootCfg[d], Cdrom[d]}) => Rank[i] = 0 /\ i \notin Linux
    /\ Config \in [Devs -> Seq(Images)] /\ Kernel \in [Images -> Devs]
    /\ Updated \in [Images -> Int] /\ Rank \in [Images -> Int]
    /\ Dtb \subseteq Linux /\ Linux \subseteq Images
    /\ InitrdLen \in [Images -> Nat] /\ DtbLen \in Nat /\ Sector \in Nat \ {0}
    /\ InsertionLimit \in Nat /\ MaxDevs \in Nat /\ MaxLines \in Nat

VARIABLES
    pc,       \* where the command is
    flags,    \* -no-load and -no-exec
    devices,  \* blockDevs
    todo,     \* devices that Localboot has still to look at
    images,   \* the images found, later in menu order
    cmd,      \* cmd[i]: i.Cmdline
    initrd,   \* initrd[i]: i.Initrd
    sel,      \* the entry whose command line is being edited
    want,     \* the entry that the user has chosen, 0 if none
    tried,    \* the default entry to be tried, 0 before that
    failed,   \* images that failed to load as default
    entry,    \* loadedEntry, 0 if nil
    staged,   \* kernel: what kexec_file_load has put into memory
    leftDirs,   \* file system: the devices with a mount point that LoadDisk or LoadCDROM left
    leftMounts, \* kernel: those of them that are still mounted there
    lines,    \* lines typed so far
    expired   \* whether the deadline of the terminal has passed

menuVars == <<cmd, sel, want, lines, expired>>
loadVars == <<initrd, tried, failed, entry, staged>>
leftVars == <<leftDirs, leftMounts>>
vars == <<pc, flags, devices, todo, images, menuVars, loadVars, leftVars, poolVars>>

Prompts == {"main", "num", "op", "append", "overwrite"}
Ends == {"fatal", "listed", "nothing", "chosen", "kexec", "rebooted", "failed", "returned"}

NoBlob == [parts |-> <<>>, len |-> 0]
Part(what, len) == [parts |-> <<[what |-> what, off |-> 0]>>, len |-> len]

BootInit ==
    /\ PoolInit
    /\ pc = "start"
    /\ flags \in [noLoad : BOOLEAN, noExec : BOOLEAN]
    /\ devices = {} /\ todo = {} /\ images = <<>>
    /\ cmd = [i \in Images |-> <<[by |-> "config", num |-> 0]>>]
    /\ initrd = [i \in Images |-> IF InitrdLen[i] = 0 THEN NoBlob ELSE Part("initrd", InitrdLen[i])]
    /\ sel = 0 /\ want = 0 /\ tried = 0 /\ entry = 0 /\ failed = {}
    /\ staged = [img |-> NoImage, cmd |-> <<>>, initrd |-> NoBlob]
    /\ leftDirs = {} /\ leftMounts = {}
    /\ lines = 0 /\ expired = FALSE

Elems(s) == {s[k] : k \in DOMAIN s}

-----------------------------------------------------------------------------
(***************************************************************************)
(* Localboot: the search for images.                                       *)
(***************************************************************************)

\* main: the block devices, without the empty and the blocked ones.
GetBlockDevices ==
    /\ pc = "start"
    /\ \/ pc' = "fatal" /\ UNCHANGED <<devices, todo>>
       \/ \E S \in SUBSET Devs : Cardinality(S) <= MaxDevs /\ devices' = S /\ todo' = S /\ pc' = "scan"
    /\ UNCHANGED <<flags, images, menuVars, loadVars, leftVars, poolVars>>

\* getBootImage of partition n of d, if it is there and its boot.cfg is good.
bootImage(d, n) == IF n \in DOMAIN Parts[d] THEN BootCfg[Parts[d][n]] ELSE NoImage

\* Mutant: partition 5 always comes first.
getImages_DiskOrder(d) ==
    SelectSeq(<<bootImage(d, 5), bootImage(d, 6)>>, LAMBDA i : i # NoImage)

\* esxi.getImages: the partition that was updated last comes first.
getImages(d) ==
    LET img5 == bootImage(d, 5)
        img6 == bootImage(d, 6)
    IN  CASE img5 = NoImage /\ img6 = NoImage -> <<>>
          [] img5 # NoImage /\ img6 = NoImage -> <<img5>>
          [] img5 = NoImage /\ img6 # NoImage -> <<img6>>
          [] OTHER -> IF Updated[img6] > Updated[img5] THEN <<img6, img5>> ELSE <<img5, img6>>

\* parseUnmounted: LoadDisk and LoadCDROM, and the file systems they mounted.
esxiImages(d) == getImages(d) \o (IF Cdrom[d] = NoImage THEN <<>> ELSE <<Cdrom[d]>>)
esxiMounts(d) ==
    (IF getImages(d) = <<>> THEN {} ELSE Elems(Parts[d]) \cap Readable)
        \cup (IF Cdrom[d] = NoImage THEN {} ELSE {d})

\* What they mounted and gave up again, and the directories that LoadDisk leaves: those
\* of the partitions that it could read, if it finds no image on them.
givenUp(d) == (Elems(Parts[d]) \cup {d}) \ esxiMounts(d)
abandoned(d) == IF getImages(d) = <<>> THEN Elems(Parts[d]) \cap Readable ELSE {}

\* They unmount what they give up and remove its directory, which the kernel may
\* refuse.  The errors are ignored.
GiveUp(d) ==
    \E kept \in SUBSET (givenUp(d) \cap Stubborn) : \E refused \in SUBSET kept :
        /\ leftDirs' = leftDirs \cup kept \cup abandoned(d)
        /\ leftMounts' = leftMounts \cup refused

\* One round of the loop of Localboot: an ESXi disk ...
ScanUnmounted(d) ==
    /\ pc = "scan" /\ d \in todo
    /\ todo' = todo \ {d}
    /\ GiveUp(d)
    /\ esxiImages(d) # <<>>
    /\ Add(esxiMounts(d))
    /\ images' = images \o esxiImages(d)
    /\ UNCHANGED <<pc, flags, devices, menuVars, loadVars>>

\* ... or a file system, which parse searches for configurations ...
ScanMounted(d) ==
    /\ pc = "scan" /\ d \in todo
    /\ todo' = todo \ {d}
    /\ GiveUp(d)
    /\ esxiImages(d) = <<>>
    /\ MountKnown(d) \/ MountNew(d)
    /\ images' = images \o Config[d]
    /\ pc' = "parse"
    /\ UNCHANGED <<flags, devices, menuVars, loadVars>>

\* ... or a device that cannot be mounted.
ScanFails(d) ==
    /\ pc = "scan" /\ d \in todo
    /\ todo' = todo \ {d}
    /\ GiveUp(d)
    /\ esxiImages(d) = <<>>
    /\ MountFails(d)
    /\ UNCHANGED <<pc, flags, devices, images, menuVars, loadVars>>

\* A "search" of a GRUB configuration mounts another device.
GrubSearch(d) ==
    /\ pc = "parse" /\ d \in devices
    /\ MountKnown(d) \/ MountNew(d) \/ MountFails(d)
    /\ UNCHANGED <<pc, flags, devices, todo, images, menuVars, loadVars, leftVars>>

ParseDone ==
    /\ pc = "parse" /\ pc' = "scan"
    /\ UNCHANGED <<flags, devices, todo, images, menuVars, loadVars, leftVars, poolVars>>

Permuted(s) == {p \in [DOMAIN s -> DOMAIN s] : \A j, k \in DOMAIN s : p[j] = p[k] => j = k}

\* Mutant: ascending order.
Less_Ascending(s, j, k) == Rank[s[j]] < Rank[s[k]]

\* byRank.Less of the images at j and k of s.
Less(s, j, k) == Rank[s[j]] > Rank[s[k]]

\* sort.Sort(byRank(s)), as permutations of the positions of s.  It keeps the
\* order of equal elements only while it is an insertion sort.
SortByRank(s) ==
    {p \in Permuted(s) :
        \A j, k \in DOMAIN s : j < k =>
            /\ ~Less(s, p[k], p[j])
            /\ Len(s) <= InsertionLimit /\ ~Less(s, p[j], p[k]) => p[j] < p[k]}

\* updateBootCmdline
Filtered(i) == IF i \in Linux THEN <<[by |-> "filter", num |-> 0]>> ELSE cmd[i]

\* The end of Localboot, the new command lines, and -no-load.
ShowImages ==
    /\ pc = "scan" /\ todo = {}
    /\ \E p \in SortByRank(images) : images' = [k \in DOMAIN images |-> images[p[k]]]
    /\ cmd' = [i \in Images |-> IF i \in Elems(images) THEN Filtered(i) ELSE cmd[i]]
    /\ pc' = IF flags.noLoad THEN "listed" ELSE "tty"
    /\ UNCHANGED <<flags, devices, todo, sel, want, lines, expired, loadVars, leftVars, poolVars>>

-----------------------------------------------------------------------------
(***************************************************************************)
(* The menu: the images, then Reboot, then StartShell.                     *)
(***************************************************************************)

Entries == 1..Len(images) + 2
IsImage(n) == n \in DOMAIN images
IsShell(n) == n = Len(images) + 2

\* ShowMenuAndLoad: without /dev/tty nothing is loaded.  Choose sets the deadline.
OpenTty ==
    /\ pc = "tty"
    /\ pc' \in {"main", "clean"}
    /\ expired' = FALSE
    /\ UNCHANGED <<flags, devices, todo, images, cmd, sel, want, lines, loadVars, leftVars, poolVars>>

\* The user types a line at prompt p: the key strokes move the deadline.
Types(p) ==
    /\ pc = p /\ ~expired
    /\ lines < MaxLines /\ lines' = lines + 1
    /\ UNCHANGED <<flags, devices, todo, images, expired, leftVars, poolVars>>

\* Choose: the number of an entry.
ChooseEntry(n) ==
    /\ Types("main")
    /\ want' = n /\ pc' = "load"
    /\ UNCHANGED <<cmd, sel, loadVars>>

\* Choose: an empty line.
TakeDefault ==
    /\ Types("main")
    /\ pc' = "default" /\ tried' = 1
    /\ UNCHANGED <<cmd, sel, want, initrd, failed, entry, staged>>

\* A line that is no number or no option, or the option "r".
BadLine(p) ==
    /\ Types(p)
    /\ pc' = "main"
    /\ UNCHANGED <<cmd, sel, want, loadVars>>

\* "e", and the entry to edit; Edit of Reboot and StartShell does nothing.
StartEdit ==
    /\ Types("main")
    /\ pc' = "num"
    /\ UNCHANGED <<cmd, sel, want, loadVars>>

EditEntry(n) ==
    /\ Types("num")
    /\ IF IsImage(n) THEN sel' = n /\ pc' = "op" ELSE pc' = "main" /\ UNCHANGED sel
    /\ UNCHANGED <<cmd, want, loadVars>>

EditOption ==
    /\ Types("op")
    /\ pc' \in {"append", "overwrite"}
    /\ UNCHANGED <<cmd, sel, want, loadVars>>

\* Mutant: the entry number is used as an index.
EnterText_OffByOne(text) ==
    /\ Types(pc) /\ pc \in {"append", "overwrite"}
    /\ LET i == images[IF IsImage(sel + 1) THEN sel + 1 ELSE sel]
       IN  cmd' = [cmd EXCEPT ![i] = (IF pc = "append" THEN @ ELSE <<>>) \o text]
    /\ pc' = "main"
    /\ UNCHANGED <<sel, want, loadVars>>

\* The new text, possibly empty: appended, or in place of the command line.
EnterText(text) ==
    /\ Types(pc) /\ pc \in {"append", "overwrite"}
    /\ cmd' = [cmd EXCEPT ![images[sel]] = (IF pc = "append" THEN @ ELSE <<>>) \o text]
    /\ pc' = "main"
    /\ UNCHANGED <<sel, want, loadVars>>

\* The deadline passes; from now on every read fails.
Expire ==
    /\ pc \in Prompts /\ ~expired
    /\ expired' = TRUE
    /\ UNCHANGED <<pc, flags, devices, todo, images, cmd, sel, want, lines, loadVars, leftVars, poolVars>>

\* Mutant: after a failed read a dialogue asks again.
ReadFails_AsksAgain ==
    /\ pc \in Prompts
    /\ \/ expired /\ UNCHANGED <<flags, devices, todo, images, lines, expired, leftVars, poolVars>>
       \/ Types(pc)
    /\ IF pc = "main" THEN pc' = "default" /\ tried' = 1 ELSE UNCHANGED <<pc, tried>>
    /\ UNCHANGED <<cmd, sel, want, initrd, failed, entry, staged>>

\* ReadLine returns an error, because of the deadline or of an end of file: the
\* main prompt falls back to the default, the others to the main prompt.
ReadFails ==
    /\ pc \in Prompts
    /\ \/ expired /\ UNCHANGED <<flags, devices, todo, images, lines, expired, leftVars, poolVars>>
       \/ Types(pc)
    /\ IF pc = "main" THEN pc' = "default" /\ tried' = 1 ELSE pc' = "main" /\ UNCHANGED tried
    /\ UNCHANGED <<cmd, sel, want, initrd, failed, entry, staged>>

UserTypes ==
    \/ \E n \in Entries : ChooseEntry(n) \/ EditEntry(n)
    \/ \E p \in {"main", "num", "op"} : BadLine(p)
    \/ TakeDefault \/ StartEdit \/ EditOption
    \/ EnterText(<<>>) \/ EnterText(<<[by |-> "user", num |-> sel]>>)

-----------------------------------------------------------------------------
(***************************************************************************)
(* Loading and executing.                                                  *)
(***************************************************************************)

\* Mutant: the padding is what is left over instead of what is missing.
CatInitrds_WrongPadding(a, b) ==
    LET start == a.len + (a.len % Sector)
    IN  [parts |-> a.parts \o [k \in DOMAIN b.parts |-> [b.parts[k] EXCEPT !.off = @ + start]],
         len |-> start + b.len]

\* CatInitrds: b starts at the next multiple of a sector.
CatInitrds(a, b) ==
    LET start == a.len + (IF a.len % Sector = 0 THEN 0 ELSE Sector - (a.len % Sector))
    IN  [parts |-> a.parts \o [k \in DOMAIN b.parts |-> [b.parts[k] EXCEPT !.off = @ + start]],
         len |-> start + b.len]

\* The initrd of i once Load has appended the device tree.
WithDtb(i) ==
    CASE i \notin Dtb -> initrd[i]
      [] i \in Dtb /\ initrd[i] = NoBlob -> Part("dtb", DtbLen)
      [] OTHER -> CatInitrds(initrd[i], Part("dtb", DtbLen))

\* Load of i fails before it changes anything, fails later, or succeeds.
LoadFailsEarly(i) == UNCHANGED <<initrd, staged>>

LoadFailsLate(i) ==
    /\ \E m \in mounted : m.dev = Kernel[i]
    /\ initrd' = [initrd EXCEPT ![i] = WithDtb(i)]
    /\ UNCHANGED staged

LoadSucceeds(i) ==
    /\ \E m \in mounted : m.dev = Kernel[i]
    /\ initrd' = [initrd EXCEPT ![i] = WithDtb(i)]
    /\ staged' = [img |-> i, cmd |-> cmd[i], initrd |-> initrd'[i]]

Frame == UNCHANGED <<flags, devices, todo, images, cmd, sel, lines, leftVars, poolVars>>

\* Mutant: the error of Load is ignored.
LoadChosen_IgnoresError ==
    /\ pc = "load"
    /\ IF IsImage(want)
          THEN LoadFailsEarly(images[want]) \/ LoadFailsLate(images[want]) \/ LoadSucceeds(images[want])
          ELSE UNCHANGED <<initrd, staged>>
    /\ entry' = want /\ pc' = "clean"
    /\ UNCHANGED <<want, expired, tried, failed>> /\ Frame

\* The entry of the user: Load of Reboot and StartShell does nothing.  After a
\* failure the menu is shown again, with a new deadline.
LoadChosen ==
    /\ pc = "load"
    /\ \/ /\ IF IsImage(want) THEN LoadSucceeds(images[want]) ELSE UNCHANGED <<initrd, staged>>
          /\ entry' = want /\ pc' = "clean"
          /\ UNCHANGED <<want, expired>>
       \/ /\ IsImage(want)
          /\ LoadFailsEarly(images[want]) \/ LoadFailsLate(images[want])
          /\ want' = 0 /\ expired' = FALSE /\ pc' = "main"
          /\ UNCHANGED entry
    /\ UNCHANGED <<tried, failed>> /\ Frame

\* The default entries in menu order, until one can be loaded.  Only images are
\* default entries.
LoadDefault ==
    /\ pc = "default"
    /\ \/ /\ tried > Len(images)
          /\ entry' = 0 /\ pc' = "clean"
          /\ UNCHANGED <<initrd, staged, tried, failed>>
       \/ /\ tried <= Len(images)
          /\ LoadSucceeds(images[tried])
          /\ entry' = tried /\ pc' = "clean"
          /\ UNCHANGED <<tried, failed>>
       \/ /\ tried <= Len(images)
          /\ LoadFailsEarly(images[tried]) \/ LoadFailsLate(images[tried])
          /\ tried' = tried + 1 /\ failed' = failed \cup {images[tried]}
          /\ UNCHANGED <<pc, entry>>
    /\ UNCHANGED <<want, expired>> /\ Frame

\* Mutant: the check for a loaded entry comes before the clean-up.
CleanUp_NilFirst ==
    /\ pc = "clean"
    /\ IF entry = 0 THEN UNCHANGED poolVars ELSE SomeUnmountAll
    /\ pc' = IF entry = 0 THEN "nothing" ELSE IF flags.noExec THEN "chosen" ELSE "exec"
    /\ UNCHANGED <<flags, devices, todo, images, menuVars, loadVars, leftVars>>

\* ShowMenuAndBoot after the menu.  An error of UnmountAll is logged, no more.
CleanUp ==
    /\ pc = "clean"
    /\ SomeUnmountAll
    /\ pc' = IF entry = 0 THEN "nothing" ELSE IF flags.noExec THEN "chosen" ELSE "exec"
    /\ UNCHANGED <<flags, devices, todo, images, menuVars, loadVars, leftVars>>

\* Exec: kexec or reboot, which return only with an error, or a shell, whose exit
\* status is returned.
Exec ==
    /\ pc = "exec"
    /\ \/ pc' = "failed"
       \/ IsImage(entry) /\ pc' = "kexec"
       \/ ~IsImage(entry) /\ pc' = IF IsShell(entry) THEN "returned" ELSE "rebooted"
    /\ UNCHANGED <<flags, devices, todo, images, menuVars, loadVars, leftVars, poolVars>>

Stopped == pc \in Ends /\ UNCHANGED vars

Program ==
    \/ GetBlockDevices \/ ParseDone \/ ShowImages \/ OpenTty \/ Expire \/ ReadFails
    \/ \E d \in Devs : ScanUnmounted(d) \/ ScanMounted(d) \/ ScanFails(d)
    \/ LoadChosen \/ LoadDefault \/ CleanUp \/ Exec

BootNext == Program \/ UserTypes \/ (\E d \in Devs : GrubSearch(d)) \/ Stopped

BootSpec == BootInit /\ [][BootNext]_vars

\* The command runs on, the deadline of the terminal is kept by the runtime, and
\* a configuration file has an end.
FairBootSpec == BootSpec /\ WF_vars(Program)

-----------------------------------------------------------------------------
(***************************************************************************)
(* Properties.                                                             *)
(***************************************************************************)

\* What is about to be executed is the entry that the user chose, whatever was
\* edited or failed to load before, or an image if the user chose nothing, never
\* a shell or a reboot.  The kernel in memory is the one of that entry.
BootsWhatWasChosen ==
    pc = "exec" =>
        /\ entry = (IF want # 0 THEN want ELSE tried)
        /\ want = 0 => IsImage(entry)
        /\ IsImage(entry) => staged.img = images[entry]

\* The loaded kernel gets the command line that the menu showed last, with every
\* text that was typed for it and none that was typed for another entry; that of
\* a LinuxImage has gone through updateBootCmdline.
EditsReachTheirKernel ==
    staged.img # NoImage =>
        /\ staged.cmd = cmd[staged.img]
        /\ \A t \in Elems(staged.cmd) :
              /\ t.by = "user" => images[t.num] = staged.img
              /\ t.by = "config" => staged.img \notin Linux

\* Without a choice the image with the highest rank wins, among all that were
\* found and could be loaded; "Nothing to boot" means that every one was tried.
DefaultIsBest ==
    /\ pc = "exec" /\ want = 0 =>
          \A i \in Elems(images) : Rank[i] > Rank[staged.img] => i \in failed
    /\ pc = "nothing" /\ tried # 0 => Elems(images) = failed

\* Before the entry is executed, or the command gives up, the pool has been unmounted,
\* whichever way its mounts came into it: what is still mounted, there or where
\* LoadDisk and LoadCDROM looked for images, the kernel has refused to unmount, and
\* the error that ShowMenuAndBoot logs names what there is of the pool.  Without an
\* error the pool has nothing mounted and no directory of its own left.  LoadDisk
\* leaves no directories but those of boot.cfg files without an image.
NothingLeftMounted ==
    pc \in {"exec"} \cup (Ends \ {"fatal", "listed"}) =>
        /\ ret.op = "UnmountAll" /\ mounted \subseteq ret.named
        /\ {m.dev : m \in mounted \cup dirs} \cup leftMounts \subseteq Stubborn
        /\ ~ret.err => mounted = {} /\ tmps = {} /\ \A m \in dirs : m.dir = 0
        /\ leftDirs \subseteq Stubborn \cup {p \in Readable : BootCfg[p] = NoImage}

\* Every part of an initrd that is loaded starts at a sector, where the kernel
\* looks for it, however often Load has put it together.
PartsAligned ==
    \A k \in DOMAIN staged.initrd.parts : staged.initrd.parts[k].off % Sector = 0

\* The machine does not hang in the menu: whatever the user types and wherever
\* the typing stops, an entry is executed or the command ends.
BootEnds == <>(pc \in Ends)

\* "The kernels are returned in the priority order according to the bootstate and
\* updated values" (LoadDisk): the menu, and so the default, keeps that order, as
\* long as sort.Sort has no more than InsertionLimit images to sort.
EsxiOrderKept ==
    pc \in Prompts \cup {"default"} /\ Len(images) <= InsertionLimit =>
        \A d \in devices : \A p, q \in Elems(Parts[d]) : \A j, k \in DOMAIN images :
            /\ images[j] = BootCfg[p] /\ images[k] = BootCfg[q]
            /\ Updated[images[j]] > Updated[images[k]]
            => j < k

=============================================================================
