----------------------------- MODULE MountPool ------------------------------
(***************************************************************************)
(* mount.Pool of u-root (pkg/mount/mount_linux.go): the file systems that  *)
(* a boot command mounts while it looks for kernels, and their removal     *)
(* before the next kernel starts.                                          *)
(*                                                                         *)
(* A mount point is [dev |-> d, dir |-> n]: device d in the n-th temporary *)
(* directory of the pool, or in a directory of its own (n = 0) if somebody *)
(* else mounted it and handed it over with Add.  The pool's list holds no  *)
(* duplicates and its order does not matter here: it is a set.             *)
(*                                                                         *)
(* The kernel may refuse to unmount a file system or to remove a directory *)
(* (it is in use, or holds something).  The code ignores most of this.     *)
(***************************************************************************)
EXTENDS Integers, FiniteSets

CONSTANTS
    Devs,     \* the block devices
    Stubborn, \* those that the kernel may refuse to unmount, and their directories to remove
    MaxTmp    \* bound: temporary directories made by the pool

ASSUME MountPoolAssumption == MaxTmp \in Nat /\ Stubborn \subseteq Devs

VARIABLES
    MountPoints,  \* p.MountPoints
    tmpDir,       \* p.tmpDir, 0 if empty
    mounted,      \* kernel: the mount points that are mounted
    dirs,         \* file system: the directories of mount points
    tmps,         \* file system: the temporary directories
    made,         \* temporary directories made so far
    ret           \* what the last call returned, and the mount points that its error names

poolVars == <<MountPoints, tmpDir, mounted, dirs, tmps, made, ret>>

Points == [dev : Devs, dir : 0..MaxTmp]
NoCall == [op |-> "none", err |-> FALSE, named |-> {}]

PoolTypeOK ==
    /\ MountPoints \subseteq Points
    /\ tmpDir \in 0..MaxTmp /\ made \in 0..MaxTmp
    /\ mounted \subseteq Points /\ dirs \subseteq Points
    /\ tmps \subseteq 1..MaxTmp
    /\ ret \in [op : {"none", "Mount", "Add", "UnmountAll"}, err : BOOLEAN, named : SUBSET Points]

PoolInit ==
    /\ MountPoints = {} /\ mounted = {} /\ dirs = {}
    /\ tmpDir = 0 /\ tmps = {} /\ made = 0
    /\ ret = NoCall

-----------------------------------------------------------------------------

Known(d) == \E m \in MountPoints : m.dev = d

\* The directory that Mount works in: p.tmpDir, made now if there is none.
EnsureTmpDir(n) ==
    /\ \/ tmpDir # 0 /\ n = tmpDir /\ UNCHANGED made
       \/ tmpDir = 0 /\ made < MaxTmp /\ n = made + 1 /\ made' = n
    /\ tmpDir' = n
    /\ tmps' = tmps \cup {n}

Returned(op, err) == ret' = [op |-> op, err |-> err, named |-> {}]

\* Those of ms that the kernel may refuse.
Refusable(ms) == {m \in ms : m.dev \in Stubborn}

\* Mount: the device is in the list already.
MountKnown(d) ==
    /\ Known(d)
    /\ Returned("Mount", FALSE)
    /\ UNCHANGED <<MountPoints, tmpDir, mounted, dirs, tmps, made>>

\* Mount: the device is mounted and added to the list.
MountNew(d) ==
    /\ ~Known(d)
    /\ \E n \in 1..MaxTmp :
         /\ EnsureTmpDir(n)
         /\ LET m == [dev |-> d, dir |-> n]
            IN  /\ MountPoints' = MountPoints \cup {m}
                /\ mounted' = mounted \cup {m}
                /\ dirs' = dirs \cup {m}
    /\ Returned("Mount", FALSE)

\* Mount: the temporary directory cannot be made, or mounting fails.  Then the
\* directory of the mount point is removed again, which may fail, too.
MountFails(d) ==
    /\ ~Known(d)
    /\ \/ tmpDir = 0 /\ UNCHANGED <<tmpDir, tmps, made, dirs>>
       \/ \E n \in 1..MaxTmp :
            /\ EnsureTmpDir(n)
            /\ \/ dirs' = dirs \ {[dev |-> d, dir |-> n]}
               \/ d \in Stubborn /\ dirs' = dirs \cup {[dev |-> d, dir |-> n]}
    /\ Returned("Mount", TRUE)
    /\ UNCHANGED <<MountPoints, mounted>>

\* Add: mount points that somebody else made, one for each device of S.
Add(S) ==
    LET ms == [dev : S, dir : {0}]
    IN  /\ ms \cap MountPoints = {}
        /\ MountPoints' = MountPoints \cup ms
        /\ mounted' = mounted \cup ms
        /\ dirs' = dirs \cup ms
        /\ Returned("Add", FALSE)
        /\ UNCHANGED <<tmpDir, tmps, made>>

\* What UnmountAll cannot unmount: what the kernel refuses, and what is not mounted.
CannotUnmount(refused) == refused \cup (MountPoints \ mounted)

\* The directories of the mount points are removed, but for those in kept and those
\* with something mounted on them.  The error, if there is one, is ignored.
RemoveDirs(kept) == dirs' = dirs \ (MountPoints \ (mounted' \cup kept))

\* Mutant: the list is emptied although some mount points refused.
UnmountAll_Forgets(refused, kept) ==
    /\ mounted' = mounted \ (MountPoints \ CannotUnmount(refused))
    /\ RemoveDirs(kept)
    /\ MountPoints' = {}
    /\ ret' = [op |-> "UnmountAll", err |-> CannotUnmount(refused) # {}, named |-> CannotUnmount(refused)]
    /\ UNCHANGED <<tmps, tmpDir, made>>

\* Mutant: the temporary directory is forgotten after a failed unmount, too.
UnmountAll_DropsTmp(refused, kept) ==
    /\ mounted' = mounted \ (MountPoints \ CannotUnmount(refused))
    /\ RemoveDirs(kept)
    /\ tmps' = IF CannotUnmount(refused) = {} THEN tmps \ {tmpDir} ELSE tmps
    /\ tmpDir' = 0
    /\ ret' = [op |-> "UnmountAll", err |-> CannotUnmount(refused) # {}, named |-> CannotUnmount(refused)]
    /\ UNCHANGED <<MountPoints, made>>

\* Mutant: the error of removing the temporary directory is ignored as well.
UnmountAll_Silent(refused, kept) ==
    /\ mounted' = mounted \ (MountPoints \ CannotUnmount(refused))
    /\ RemoveDirs(kept)
    /\ IF CannotUnmount(refused) = {} THEN tmpDir' = 0 ELSE UNCHANGED tmpDir
    /\ ret' = [op |-> "UnmountAll", err |-> CannotUnmount(refused) # {}, named |-> CannotUnmount(refused)]
    /\ UNCHANGED <<MountPoints, tmps, made>>

\* UnmountAll, while the kernel refuses to unmount the points in refused and to
\* remove the directories in kept.  The list is kept.  If everything could be
\* unmounted, the temporary directory is removed, which fails if it is not empty
\* and may fail otherwise; p.tmpDir is emptied in any case.
UnmountAll(refused, kept) ==
    LET failed == CannotUnmount(refused)
        empty == \A m \in dirs' : m.dir # tmpDir
        Result(err) == ret' = [op |-> "UnmountAll", err |-> err, named |-> failed]
    IN  /\ mounted' = mounted \ (MountPoints \ failed)
        /\ RemoveDirs(kept)
        /\ \/ (failed # {} \/ tmpDir = 0) /\ UNCHANGED <<tmps, tmpDir>> /\ Result(failed # {})
           \/ failed = {} /\ tmpDir # 0 /\ empty
              /\ tmps' = tmps \ {tmpDir} /\ tmpDir' = 0 /\ Result(FALSE)
           \/ failed = {} /\ tmpDir # 0
              /\ UNCHANGED tmps /\ tmpDir' = 0 /\ Result(TRUE)
        /\ UNCHANGED <<MountPoints, made>>

\* With whatever the kernel refuses.
SomeUnmountAll ==
    \E refused \in SUBSET Refusable(MountPoints \cap mounted), kept \in SUBSET Refusable(MountPoints) :
        UnmountAll(refused, kept)

PoolNext ==
    \/ \E d \in Devs : MountKnown(d) \/ MountNew(d) \/ MountFails(d)
    \/ \E S \in SUBSET Devs : Add(S)
    \/ SomeUnmountAll

PoolSpec == PoolInit /\ [][PoolNext]_poolVars

-----------------------------------------------------------------------------
(***************************************************************************)
(* Properties.                                                             *)
(***************************************************************************)

\* Whatever is mounted is on the list, so that a later UnmountAll reaches it:
\* failed mounts, failed unmounts and mount points of others included.
NothingForgotten == mounted \subseteq MountPoints

\* A temporary directory loses its owner only once nothing is mounted in it any
\* more, and by an UnmountAll that returns an error: neither a failed Mount nor an
\* unmount that was refused makes the pool forget it (Mount, UnmountAll).
LeaksAreReported ==
    [][\A t \in (tmps' \ {tmpDir'}) \ (tmps \ {tmpDir}) :
          /\ ret'.op = "UnmountAll" /\ ret'.err
          /\ \A m \in mounted' : m.dir # t]_poolVars

\* What is still mounted after an UnmountAll is named in its error; one that returns
\* nil has unmounted everything, and removed the temporary directory that the pool
\* had with all directories in it.  (Those of mount points that were added may stay.)
NilMeansClean ==
    [][ret'.op = "UnmountAll" =>
          /\ mounted' \subseteq ret'.named
          /\ ~ret'.err => mounted' = {} /\ tmpDir \notin tmps' /\ \A m \in dirs' : m.dir = 0 \/ m.dir # tmpDir]_poolVars

=============================================================================
