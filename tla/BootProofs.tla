----------------------------- MODULE BootProofs -----------------------------
(***************************************************************************)
(* Proofs about Boot, whatever is on the disks, however many mounts fail   *)
(* and whatever the user types: the boot command leaves no file system     *)
(* mounted (BootInv), and it boots the entry that it should (MenuInv), with *)
(* the command line (EditInv) and the initrd (InitrdInv) it should have.   *)
(***************************************************************************)
EXTENDS Boot, MountPoolProofs, SequenceTheorems

\* Where the command is once it has called UnmountAll.
Cleaned == {"exec", "nothing", "chosen", "kexec", "rebooted", "failed", "returned"}

\* Until then every mount point of the pool is mounted: only so UnmountAll, which
\* fails for one that is not, gets as far as the temporary directory.  It is the only
\* one, and the directories of the pool that are not on its list are those that the
\* kernel refused to remove.
PoolBefore ==
    /\ mounted = MountPoints
    /\ tmps = {tmpDir} \ {0}
    /\ \A m \in dirs : (m \in MountPoints \/ m.dev \in Stubborn) /\ m.dir \in {0, tmpDir}

\* What UnmountAll leaves and returns then.
PoolAfter ==
    /\ ret.op = "UnmountAll" /\ mounted \subseteq ret.named
    /\ \A m \in mounted \cup dirs : m.dev \in Stubborn
    /\ ~ret.err => mounted = {} /\ tmps = {} /\ \A m \in dirs : m.dir = 0

\* What LoadDisk and LoadCDROM leave.
LeftInv ==
    /\ leftMounts \subseteq Stubborn
    /\ leftDirs \subseteq Stubborn \cup {p \in Readable : BootCfg[p] = NoImage}

BootInv ==
    /\ PoolInv /\ LeftInv
    /\ pc \notin Cleaned => PoolBefore
    /\ pc \in Cleaned => PoolAfter

\* A step that neither touches the pool nor passes the clean-up.
LEMMA QuietStep ==
    ASSUME BootInv, UNCHANGED <<leftVars, poolVars>>, pc' \in Cleaned <=> pc \in Cleaned
    PROVE  BootInv'
<1>1. UNCHANGED <<MountPoints, tmpDir, mounted, dirs, tmps, made, ret>>
  BY DEF poolVars
<1>2. PoolInv'
  BY <1>1 DEF BootInv, PoolInv, PoolTypeOK, NothingForgotten, MountedInTmpDir
<1>3. LeftInv'
  BY DEF BootInv, LeftInv, leftVars
<1>4. (PoolBefore => PoolBefore') /\ (PoolAfter => PoolAfter')
  BY <1>1 DEF PoolBefore, PoolAfter
<1> QED
  BY <1>2, <1>3, <1>4 DEF BootInv

\* The search for images mounts, and keeps the list of the pool exact.
LEMMA MountingStep ==
    ASSUME PoolInv, PoolBefore,
           \/ \E d \in Devs : MountKnown(d) \/ MountNew(d) \/ MountFails(d)
           \/ \E S \in SUBSET Devs : Add(S)
    PROVE  PoolInv' /\ PoolBefore'
<1>0. 0 \notin 1..MaxTmp
  BY MountPoolAssumption
<1>1. CASE \E d \in Devs : MountKnown(d) \/ MountNew(d) \/ MountFails(d)
  <2>1. PICK d \in Devs : MountKnown(d) \/ MountNew(d) \/ MountFails(d)
    BY <1>1
  <2>2. PoolInv'
    BY <2>1, MountStep
  <2>3. CASE MountKnown(d)
    BY <2>2, <2>3 DEF MountKnown, PoolBefore
  <2>4. ASSUME NEW n \in 1..MaxTmp, EnsureTmpDir(n),
               \/ MountPoints' = MountPoints \cup {[dev |-> d, dir |-> n]} /\ mounted' = mounted \cup {[dev |-> d, dir |-> n]}
                  /\ dirs' = dirs \cup {[dev |-> d, dir |-> n]}
               \/ UNCHANGED <<MountPoints, mounted>> /\ dirs' = dirs \ {[dev |-> d, dir |-> n]}
               \/ UNCHANGED <<MountPoints, mounted>> /\ d \in Stubborn /\ dirs' = dirs \cup {[dev |-> d, dir |-> n]}
        PROVE  PoolBefore'
    <3>1. tmpDir' = n /\ tmps' = tmps \cup {n} /\ (tmpDir # 0 => n = tmpDir) /\ n # 0
      BY <2>4, <1>0, EnsureTmpDirFacts
    <3>2. tmps' = {tmpDir'} \ {0}
      BY <3>1 DEF PoolBefore
    <3>3. mounted' = MountPoints'
      BY <2>4 DEF PoolBefore
    <3>4. ASSUME NEW m \in dirs' PROVE (m \in MountPoints' \/ m.dev \in Stubborn) /\ m.dir \in {0, tmpDir'}
      <4>1. CASE m \in dirs
        <5>1. (m \in MountPoints \/ m.dev \in Stubborn) /\ m.dir \in {0, tmpDir}
          BY <4>1 DEF PoolBefore
        <5>2. MountPoints \subseteq MountPoints'
          BY <2>4
        <5> QED
          BY <5>1, <5>2, <3>1
      <4>2. CASE m = [dev |-> d, dir |-> n]
        <5>1. m \in MountPoints' \/ d \in Stubborn
          BY <2>4, <3>4, <4>2
        <5> QED
          BY <4>2, <5>1, <3>1
      <4> QED
        BY <2>4, <3>4, <4>1, <4>2
    <3> QED
      BY <3>2, <3>3, <3>4 DEF PoolBefore
  <2>5. CASE MountNew(d)
    BY <2>2, <2>4, <2>5 DEF MountNew
  <2>6. CASE MountFails(d)
    <3>1. CASE UNCHANGED <<MountPoints, mounted, tmpDir, tmps, made, dirs>>
      BY <2>2, <3>1 DEF PoolBefore
    <3>2. CASE \E n \in 1..MaxTmp :
                 /\ EnsureTmpDir(n)
                 /\ \/ dirs' = dirs \ {[dev |-> d, dir |-> n]}
                    \/ d \in Stubborn /\ dirs' = dirs \cup {[dev |-> d, dir |-> n]}
      <4>1. UNCHANGED <<MountPoints, mounted>>
        BY <2>6 DEF MountFails
      <4>2. PICK n \in 1..MaxTmp :
              /\ EnsureTmpDir(n)
              /\ \/ dirs' = dirs \ {[dev |-> d, dir |-> n]}
                 \/ d \in Stubborn /\ dirs' = dirs \cup {[dev |-> d, dir |-> n]}
        BY <3>2
      <4> QED
        BY <2>2, <2>4, <4>1, <4>2
    <3> QED
      BY <2>2, <2>6, <3>1, <3>2 DEF MountFails
  <2> QED
    BY <2>1, <2>2, <2>3, <2>5, <2>6
<1>2. CASE \E S \in SUBSET Devs : Add(S)
  <2>1. PICK S \in SUBSET Devs : Add(S)
    BY <1>2
  <2>2. PoolInv'
    BY <2>1, AddStep
  <2> DEFINE ms == [dev : S, dir : {0}]
  <2>3. \A m \in ms : m.dir = 0
    OBVIOUS
  <2>4. /\ MountPoints' = MountPoints \cup ms /\ mounted' = mounted \cup ms /\ dirs' = dirs \cup ms
        /\ UNCHANGED <<tmpDir, tmps>>
    BY <2>1 DEF Add
  <2> HIDE DEF ms
  <2>5. PoolBefore'
    BY <2>3, <2>4 DEF PoolBefore
  <2> QED
    BY <2>2, <2>5
<1> QED
  BY <1>1, <1>2

\* What an ESXi disk has mounted are devices.
LEMMA EsxiMountsAreDevices == ASSUME NEW d \in Devs PROVE esxiMounts(d) \in SUBSET Devs
  BY BootAssumption DEF esxiMounts

\* What LoadDisk abandons, the readable partitions of a disk, has no image: getImages
\* returns those that there are.
LEMMA AbandonedWithoutImage ==
    ASSUME NEW d \in Devs
    PROVE  abandoned(d) \subseteq {p \in Readable : BootCfg[p] = NoImage}
<1> SUFFICES ASSUME NEW p \in abandoned(d) PROVE p \in Readable /\ BootCfg[p] = NoImage
  OBVIOUS
<1>1. getImages(d) = <<>> /\ p \in Elems(Parts[d]) /\ p \in Readable
  BY DEF abandoned
<1>2. PICK n \in DOMAIN Parts[d] : p = Parts[d][n]
  BY <1>1 DEF Elems
<1>3. n \in {5, 6}
  <2>1. Parts[d] \in UNION {[N -> Devs] : N \in SUBSET {5, 6}}
    BY BootAssumption
  <2>2. PICK N \in SUBSET {5, 6} : Parts[d] \in [N -> Devs]
    BY <2>1
  <2> QED
    BY <1>2, <2>2
<1>4. bootImage(d, n) = BootCfg[p]
  BY <1>2 DEF bootImage
<1>5. bootImage(d, 5) = NoImage /\ bootImage(d, 6) = NoImage
  BY <1>1 DEF getImages
<1> QED
  BY <1>1, <1>3, <1>4, <1>5

\* What is given up is unmounted, unless the kernel refuses.
LEMMA GiveUpStep == ASSUME LeftInv, NEW d \in Devs, GiveUp(d) PROVE LeftInv'
<1>1. PICK kept \in SUBSET (givenUp(d) \cap Stubborn) : \E refused \in SUBSET kept :
          leftDirs' = leftDirs \cup kept \cup abandoned(d) /\ leftMounts' = leftMounts \cup refused
  BY DEF GiveUp
<1>2. kept \subseteq Stubborn
  BY <1>1
<1> QED
  BY <1>1, <1>2, AbandonedWithoutImage DEF LeftInv

\* UnmountAll leaves what the kernel refuses, and no more.
LEMMA CleanUpStep == ASSUME BootInv, CleanUp PROVE BootInv'
<1>1. pc \notin Cleaned /\ pc' \in Cleaned /\ SomeUnmountAll /\ PoolInv /\ PoolBefore
  BY DEF CleanUp, Cleaned, BootInv
<1>2. PoolInv' /\ CleanIfNil /\ ret'.op = "UnmountAll"
  BY <1>1, UnmountAllStep
<1>3. LeftInv'
  BY DEF CleanUp, BootInv, LeftInv, leftVars
<1>4. PICK refused \in SUBSET Refusable(MountPoints \cap mounted), kept \in SUBSET Refusable(MountPoints) :
          UnmountAll(refused, kept)
  BY <1>1 DEF SomeUnmountAll
<1>5. /\ mounted' \subseteq refused /\ tmps' \subseteq tmps
      /\ dirs' = dirs \ (MountPoints \ (mounted' \cup kept))
  BY <1>1, <1>4 DEF UnmountAll, RemoveDirs, CannotUnmount, PoolBefore
<1>6. \A m \in refused \cup kept : m.dev \in Stubborn
  BY DEF Refusable
<1>7. \A m \in mounted' \cup dirs' : m.dev \in Stubborn
  BY <1>1, <1>5, <1>6 DEF PoolBefore
<1>8. mounted' \subseteq ret'.named
  BY <1>2 DEF CleanIfNil
<1>9. ASSUME ~ret'.err PROVE mounted' = {} /\ tmps' = {} /\ \A m \in dirs' : m.dir = 0
  <2>1. mounted' = {} /\ tmpDir \notin tmps' /\ \A m \in dirs' : m.dir = 0 \/ m.dir # tmpDir
    BY <1>2, <1>9 DEF CleanIfNil
  <2>2. tmps' = {}
    BY <1>1, <1>5, <2>1 DEF PoolBefore
  <2>3. \A m \in dirs' : m.dir \in {0, tmpDir}
    BY <1>1, <1>5 DEF PoolBefore
  <2> QED
    BY <2>1, <2>2, <2>3
<1>10. PoolAfter'
  BY <1>2, <1>7, <1>8, <1>9 DEF PoolAfter
<1> QED
  BY <1>1, <1>2, <1>3, <1>10 DEF BootInv

\* No line of the user reaches the pool.
LEMMA UserStep == ASSUME BootInv, UserTypes PROVE BootInv'
<1>1. UNCHANGED <<leftVars, poolVars>> /\ pc \notin Cleaned /\ pc' \notin Cleaned
  BY DEF UserTypes, ChooseEntry, EditEntry, BadLine, TakeDefault, StartEdit, EditOption,
     EnterText, Types, Cleaned
<1> QED
  BY <1>1, QuietStep

\* BootInv is an invariant of the boot command.
THEOREM BootInvariance == BootSpec => []BootInv
<1>1. BootInit => BootInv
  BY MountPoolAssumption DEF BootInit, BootInv, Cleaned, PoolInit, PoolInv, PoolTypeOK,
     NothingForgotten, MountedInTmpDir, NoCall, LeftInv, PoolBefore
<1>2. BootInv /\ [BootNext]_vars => BootInv'
  <2> SUFFICES ASSUME BootInv, [BootNext]_vars PROVE BootInv'
    OBVIOUS
  <2>1. CASE GetBlockDevices \/ ParseDone \/ ShowImages \/ OpenTty \/ Expire
    <3>1. UNCHANGED <<leftVars, poolVars>> /\ pc \notin Cleaned /\ pc' \notin Cleaned
      BY <2>1 DEF GetBlockDevices, ParseDone, ShowImages, OpenTty, Expire, Prompts, Cleaned
    <3> QED
      BY <3>1, QuietStep
  <2>2. CASE ReadFails
    <3>1. UNCHANGED <<leftVars, poolVars>> /\ pc \notin Cleaned /\ pc' \notin Cleaned
      BY <2>2 DEF ReadFails, Types, Prompts, Cleaned
    <3> QED
      BY <3>1, QuietStep
  <2>3. CASE \E d \in Devs : ScanUnmounted(d) \/ ScanMounted(d) \/ ScanFails(d)
    <3>1. pc \notin Cleaned /\ pc' \notin Cleaned
      BY <2>3 DEF ScanUnmounted, ScanMounted, ScanFails, Cleaned
    <3>2. \/ \E d \in Devs : MountKnown(d) \/ MountNew(d) \/ MountFails(d)
          \/ \E S \in SUBSET Devs : Add(S)
      BY <2>3, EsxiMountsAreDevices DEF ScanUnmounted, ScanMounted, ScanFails
    <3>3. \E d \in Devs : GiveUp(d)
      BY <2>3 DEF ScanUnmounted, ScanMounted, ScanFails
    <3> QED
      BY <3>1, <3>2, <3>3, MountingStep, GiveUpStep DEF BootInv
  <2>4. CASE \E d \in Devs : GrubSearch(d)
    <3>1. pc \notin Cleaned /\ pc' \notin Cleaned
      BY <2>4 DEF GrubSearch, Cleaned
    <3>2. \E d \in Devs : MountKnown(d) \/ MountNew(d) \/ MountFails(d)
      BY <2>4 DEF GrubSearch
    <3>3. LeftInv'
      BY <2>4 DEF GrubSearch, BootInv, LeftInv, leftVars
    <3> QED
      BY <3>1, <3>2, <3>3, MountingStep DEF BootInv
  <2>5. CASE LoadChosen \/ LoadDefault
    <3>1. UNCHANGED <<leftVars, poolVars>> /\ pc \notin Cleaned /\ pc' \notin Cleaned
      BY <2>5 DEF LoadChosen, LoadDefault, Frame, Cleaned
    <3> QED
      BY <3>1, QuietStep
  <2>6. CASE CleanUp
    BY <2>6, CleanUpStep
  <2>7. CASE Exec
    <3>1. UNCHANGED <<leftVars, poolVars>> /\ pc \in Cleaned /\ pc' \in Cleaned
      BY <2>7 DEF Exec, Cleaned
    <3> QED
      BY <3>1, QuietStep
  <2>8. CASE UserTypes
    BY <2>8, UserStep
  <2>9. CASE Stopped \/ UNCHANGED vars
    <3>1. UNCHANGED <<leftVars, poolVars>> /\ pc' = pc
      BY <2>9 DEF Stopped, vars
    <3> QED
      BY <3>1, QuietStep
  <2> QED
    BY <2>1, <2>2, <2>3, <2>4, <2>5, <2>6, <2>7, <2>8, <2>9 DEF BootNext, Program
<1> QED
  BY <1>1, <1>2, PTL DEF BootSpec

\* The machine is handed to the next kernel, to the shell or back to the caller with
\* no file system mounted but those that the kernel refused to unmount (ShowMenuAndBoot).
THEOREM BootCleansUp == BootSpec => []NothingLeftMounted
<1>1. BootInv => NothingLeftMounted
  <2>1. pc \in {"exec"} \cup (Ends \ {"fatal", "listed"}) => pc \in Cleaned
    BY DEF Cleaned, Ends
  <2>2. PoolAfter => {m.dev : m \in mounted \cup dirs} \subseteq Stubborn
    BY DEF PoolAfter
  <2> QED
    BY <2>1, <2>2 DEF BootInv, LeftInv, PoolAfter, NothingLeftMounted
<1> QED
  BY <1>1, BootInvariance, PTL

-----------------------------------------------------------------------------
(***************************************************************************)
(* The menu and what is loaded.                                            *)
(***************************************************************************)

Searching == {"start", "scan", "parse", "fatal"}
Asking == Searching \cup Prompts \cup {"tty", "listed"}
Done == Cleaned \cup {"clean"}

Texts == [by : {"config", "filter", "user"}, num : Nat]

MenuTypeOK ==
    /\ pc \in Asking \cup Done \cup {"load", "default"}
    /\ images \in Seq(Images)
    /\ cmd \in [Images -> Seq(Texts)]
    /\ sel \in Nat /\ want \in Nat /\ tried \in Nat /\ entry \in Nat

\* The default entries that were tried are those before the one to be tried.
ChoiceInv ==
    /\ pc \in Asking => want = 0 /\ tried = 0 /\ entry = 0
    /\ pc = "load" => want \in Entries /\ tried = 0 /\ entry = 0
    /\ pc = "default" => want = 0 /\ tried >= 1
    /\ pc \in Done /\ entry # 0 =>
         /\ entry = (IF want # 0 THEN want ELSE tried)
         /\ want = 0 => IsImage(entry)
         /\ IsImage(entry) => staged.img = images[entry]
    /\ pc \in Done /\ entry = 0 /\ tried # 0 => tried > Len(images)
    /\ pc = "exec" => entry # 0
    /\ pc = "nothing" => entry = 0
    /\ tried <= Len(images) + 1
    /\ failed = {images[k] : k \in 1..tried - 1}

\* The images are in menu order.
OrderInv ==
    pc \notin Searching => \A j, k \in 1..Len(images) : j < k => Rank[images[j]] >= Rank[images[k]]

\* A text of the user is in the command line of the entry it was typed for.
EditInv ==
    /\ \A i \in Images : \A k \in 1..Len(cmd[i]) :
          /\ cmd[i][k].by = "user" =>
                /\ pc \notin Searching /\ cmd[i][k].num \in 1..Len(images)
                /\ images[cmd[i][k].num] = i
          /\ pc \notin Searching /\ cmd[i][k].by = "config" /\ i \in Elems(images) => i \notin Linux
    /\ pc \in {"op", "append", "overwrite"} => sel \in 1..Len(images)
    /\ staged.img # NoImage =>
          /\ pc \in Done /\ staged.img \in Images /\ staged.img \in Elems(images)
          /\ staged.cmd = cmd[staged.img]

MenuInv == MenuTypeOK /\ ChoiceInv /\ OrderInv /\ EditInv

\* An initrd whose parts begin at sectors.
Blobs == [parts : Seq([what : {"initrd", "dtb"}, off : Nat]), len : Nat]
AlignedBlob(b) == b \in Blobs /\ \A k \in 1..Len(b.parts) : b.parts[k].off % Sector = 0

InitrdInv ==
    /\ initrd \in [Images -> Blobs] /\ \A i \in Images : AlignedBlob(initrd[i])
    /\ AlignedBlob(staged.initrd)

\* What is known of the states of the command line program.
LEMMA PcSets ==
    /\ Prompts \subseteq Asking /\ Searching \subseteq Asking /\ "tty" \in Asking /\ "listed" \in Asking
    /\ Prompts \cap Searching = {} /\ Asking \cap Done = {}
    /\ "load" \notin Asking \cup Done /\ "default" \notin Asking \cup Done
    /\ "clean" \in Done /\ Cleaned \subseteq Done
  BY DEF Prompts, Asking, Searching, Done, Cleaned

\* A step of the program that changes neither the menu nor what is loaded.
LEMMA PcStep ==
    ASSUME MenuInv, UNCHANGED <<images, cmd, sel, want, tried, failed, entry, staged>>,
           pc' \in Asking \cup Done, pc \in Searching <=> pc' \in Searching,
           pc' \in Asking => pc \in Asking, pc \in Done => pc' \in Done,
           pc' \in Done => pc \in Done \/ pc = "tty",
           pc' \in {"op", "append", "overwrite"} => pc \in {"op", "append", "overwrite"},
           pc' = "exec" => entry # 0, pc' = "nothing" => entry = 0
    PROVE  MenuInv'
<1>1. MenuTypeOK'
  BY DEF MenuInv, MenuTypeOK
<1>2. "load" \notin Asking \cup Done /\ "default" \notin Asking \cup Done /\ "tty" \in Asking
  BY PcSets
<1>3. ChoiceInv'
  <2>1. pc' \in Asking => want = 0 /\ tried = 0 /\ entry = 0
    BY DEF MenuInv, ChoiceInv
  <2>2. pc' # "load" /\ pc' # "default"
    BY <1>2
  <2>3. pc' \in Done /\ entry # 0 =>
         /\ entry = (IF want # 0 THEN want ELSE tried)
         /\ want = 0 => IsImage(entry)
         /\ IsImage(entry) => staged.img = images[entry]
    BY <1>2 DEF MenuInv, ChoiceInv
  <2>4. pc' \in Done /\ entry = 0 /\ tried # 0 => tried > Len(images)
    BY <1>2 DEF MenuInv, ChoiceInv
  <2>5. tried <= Len(images) + 1 /\ failed = {images[k] : k \in 1..tried - 1}
    BY DEF MenuInv, ChoiceInv
  <2> QED
    BY <2>1, <2>2, <2>3, <2>4, <2>5 DEF ChoiceInv, IsImage
<1>4. OrderInv'
  BY DEF MenuInv, OrderInv
<1>5. EditInv'
  <2>1. pc \in Done => pc' \in Done
    OBVIOUS
  <2> QED
    BY <2>1 DEF MenuInv, EditInv, Elems
<1> QED
  BY <1>1, <1>3, <1>4, <1>5 DEF MenuInv

\* getImages returns images.
LEMMA GetImagesAreImages == ASSUME NEW d \in Devs PROVE getImages(d) \in Seq(Images)
<1>1. \A n \in {5, 6} : bootImage(d, n) \in Images \cup {NoImage}
  <2>1. PICK N \in SUBSET {5, 6} : Parts[d] \in [N -> Devs]
    BY BootAssumption
  <2>2. DOMAIN Parts[d] = N /\ \A n \in N : Parts[d][n] \in Devs
    BY <2>1
  <2> QED
    BY <2>2, BootAssumption DEF bootImage
<1> DEFINE a == bootImage(d, 5)
           b == bootImage(d, 6)
<1>2. a \in Images \cup {NoImage} /\ b \in Images \cup {NoImage}
  BY <1>1
<1>3. \/ getImages(d) = <<>>
      \/ a # NoImage /\ getImages(d) = <<a>>
      \/ b # NoImage /\ getImages(d) = <<b>>
      \/ a # NoImage /\ b # NoImage /\ (getImages(d) = <<b, a>> \/ getImages(d) = <<a, b>>)
  BY DEF getImages
<1> HIDE DEF a, b
<1>4. getImages(d) = <<>> => getImages(d) \in Seq(Images)
  OBVIOUS
<1>5. a # NoImage => <<a>> \in Seq(Images)
  BY <1>2
<1>6. b # NoImage => <<b>> \in Seq(Images)
  BY <1>2
<1>7. a # NoImage /\ b # NoImage => <<a, b>> \in Seq(Images) /\ <<b, a>> \in Seq(Images)
  BY <1>2
<1> QED
  BY <1>3, <1>4, <1>5, <1>6, <1>7

\* The images of an ESXi disk are images.
LEMMA EsxiImagesAreImages == ASSUME NEW d \in Devs PROVE esxiImages(d) \in Seq(Images)
<1>2. getImages(d) \in Seq(Images)
  BY GetImagesAreImages
<1>3. Cdrom[d] # NoImage => <<Cdrom[d]>> \in Seq(Images)
  BY BootAssumption
<1>4. (IF Cdrom[d] = NoImage THEN <<>> ELSE <<Cdrom[d]>>) \in Seq(Images)
  BY <1>3
<1> QED
  BY <1>2, <1>4, ConcatProperties DEF esxiImages

\* The search adds images; nothing is chosen, typed or loaded meanwhile.
LEMMA SearchStep ==
    ASSUME MenuInv, pc \in Searching, pc' \in Searching, images' \in Seq(Images),
           UNCHANGED <<cmd, sel, want, tried, failed, entry, staged>>
    PROVE  MenuInv'
<1>1. pc \in Asking /\ pc' \in Asking /\ pc' \notin Done /\ pc \notin Done
      /\ pc' # "load" /\ pc' # "default" /\ pc' \notin {"op", "append", "overwrite"}
  BY DEF Asking, Searching, Done, Cleaned, Prompts
<1>2. MenuTypeOK'
  BY <1>1 DEF MenuInv, MenuTypeOK
<1>3. Len(images') \in Nat
  BY LenProperties
<1>4. want = 0 /\ tried = 0 /\ entry = 0 /\ failed = {}
  <2>1. want = 0 /\ tried = 0 /\ entry = 0 /\ failed = {images[k] : k \in 1..tried - 1}
    BY <1>1 DEF MenuInv, ChoiceInv
  <2> QED
    BY <2>1
<1>5. ChoiceInv'
  <2>1. failed' = {images'[k] : k \in 1..tried' - 1}
    BY <1>4
  <2>2. tried' <= Len(images') + 1
    BY <1>3, <1>4
  <2> QED
    BY <1>1, <1>4, <2>1, <2>2 DEF ChoiceInv, Done, Cleaned
<1>6. OrderInv'
  BY DEF OrderInv
<1>7. EditInv'
  <2>1. staged.img = NoImage
    BY <1>1 DEF MenuInv, EditInv
  <2>2. \A i \in Images : \A k \in 1..Len(cmd[i]) : cmd[i][k].by # "user"
    BY DEF MenuInv, EditInv
  <2> QED
    BY <1>1, <2>1, <2>2 DEF EditInv
<1> QED
  BY <1>2, <1>5, <1>6, <1>7 DEF MenuInv

\* sort.Sort(byRank) gives the images in menu order, each of them one that was found.
LEMMA SortFacts ==
    ASSUME images \in Seq(Images), NEW p \in SortByRank(images),
           images' = [k \in DOMAIN images |-> images[p[k]]]
    PROVE  /\ images' \in Seq(Images) /\ Len(images') = Len(images) /\ Len(images) \in Nat
           /\ \A k \in 1..Len(images) : p[k] \in 1..Len(images) /\ images'[k] = images[p[k]]
           /\ Elems(images') \subseteq Elems(images)
           /\ \A j, k \in 1..Len(images) : j < k => Rank[images'[j]] >= Rank[images'[k]]
<1>1. DOMAIN images = 1..Len(images) /\ Len(images) \in Nat /\ \A k \in 1..Len(images) : images[k] \in Images
  BY LenProperties
<1>2. p \in [DOMAIN images -> DOMAIN images]
  BY DEF SortByRank, Permuted
<1>3. \A k \in 1..Len(images) : p[k] \in 1..Len(images) /\ images'[k] = images[p[k]] /\ images[p[k]] \in Images
  BY <1>1, <1>2
<1>4. images' \in [1..Len(images) -> Images]
  BY <1>1, <1>3
<1>5. images' \in Seq(Images) /\ Len(images') = Len(images)
  BY <1>1, <1>4, SeqDef
<1>6. Elems(images') \subseteq Elems(images)
  BY <1>1, <1>3, <1>4 DEF Elems
<1>7. ASSUME NEW j \in 1..Len(images), NEW k \in 1..Len(images), j < k
      PROVE  Rank[images'[j]] >= Rank[images'[k]]
  <2>1. ~Less(images, p[k], p[j])
    BY <1>1, <1>7 DEF SortByRank
  <2>2. Rank[images[p[j]]] \in Int /\ Rank[images[p[k]]] \in Int
    BY <1>3, BootAssumption
  <2> QED
    BY <1>3, <2>1, <2>2 DEF Less
<1> QED
  BY <1>1, <1>3, <1>5, <1>6, <1>7

\* The end of Localboot: the menu order, and updateBootCmdline.
LEMMA ShowStep ==
    ASSUME MenuInv, ShowImages
    PROVE  MenuInv'
<1>1. /\ pc = "scan" /\ pc' \in {"listed", "tty"}
      /\ UNCHANGED <<sel, want, tried, failed, entry, staged>>
      /\ cmd' = [i \in Images |-> IF i \in Elems(images) THEN Filtered(i) ELSE cmd[i]]
  BY DEF ShowImages, loadVars
<1>2. images \in Seq(Images) /\ cmd \in [Images -> Seq(Texts)]
  BY DEF MenuInv, MenuTypeOK
<1>3. PICK p \in SortByRank(images) : images' = [k \in DOMAIN images |-> images[p[k]]]
  BY DEF ShowImages
<1>4. /\ images' \in Seq(Images) /\ Len(images') = Len(images) /\ Len(images) \in Nat
      /\ Elems(images') \subseteq Elems(images)
      /\ \A j, k \in 1..Len(images) : j < k => Rank[images'[j]] >= Rank[images'[k]]
  BY <1>2, <1>3, SortFacts
<1>5. pc \in Asking /\ pc' \in Asking /\ pc \notin Done /\ pc' \notin Done /\ pc \in Searching /\ pc' \notin Searching
  BY <1>1 DEF Asking, Done, Cleaned, Searching, Prompts
<1>6. \A i \in Images : cmd'[i] = cmd[i] \/ cmd'[i] = <<[by |-> "filter", num |-> 0]>>
  BY <1>1 DEF Filtered
<1>7. ASSUME NEW i \in Images, NEW k \in 1..Len(cmd'[i])
      PROVE  /\ cmd'[i][k].by # "user"
             /\ cmd'[i][k].by = "config" /\ i \in Elems(images') => i \notin Linux
  <2>1. CASE cmd'[i] = <<[by |-> "filter", num |-> 0]>>
    <3>1. k = 1
      BY <2>1
    <3> QED
      BY <2>1, <3>1
  <2>2. CASE cmd'[i] = cmd[i] /\ cmd'[i] # <<[by |-> "filter", num |-> 0]>>
    <3>1. cmd[i][k].by # "user"
      BY <1>5, <2>2 DEF MenuInv, EditInv
    <3>2. i \in Elems(images) => i \notin Linux
      BY <1>1, <2>2 DEF Filtered
    <3> QED
      BY <1>4, <2>2, <3>1, <3>2
  <2> QED
    BY <1>6, <2>1, <2>2
<1>8. cmd' \in [Images -> Seq(Texts)]
  <2>1. [by |-> "filter", num |-> 0] \in Texts
    BY DEF Texts
  <2>2. <<[by |-> "filter", num |-> 0]>> \in Seq(Texts)
    BY <2>1
  <2>3. \A i \in Images : cmd'[i] \in Seq(Texts)
    BY <1>2, <1>6, <2>2
  <2> QED
    BY <1>1, <2>3
<1>9. MenuTypeOK'
  BY <1>1, <1>4, <1>5, <1>8 DEF MenuInv, MenuTypeOK
<1>10. want = 0 /\ tried = 0 /\ entry = 0 /\ failed = {} /\ staged.img = NoImage
  <2>1. want = 0 /\ tried = 0 /\ entry = 0 /\ failed = {images[k] : k \in 1..tried - 1}
    BY <1>5 DEF MenuInv, ChoiceInv
  <2> QED
    BY <1>5, <2>1 DEF MenuInv, EditInv
<1>11. ChoiceInv'
  <2>1. failed' = {images'[k] : k \in 1..tried' - 1}
    BY <1>1, <1>10
  <2>2. tried' <= Len(images') + 1
    BY <1>1, <1>4, <1>10
  <2> QED
    BY <1>1, <1>5, <1>10, <2>1, <2>2 DEF ChoiceInv
<1>12. OrderInv'
  BY <1>4 DEF OrderInv
<1>13. EditInv'
  BY <1>1, <1>7, <1>10 DEF EditInv
<1> QED
  BY <1>9, <1>11, <1>12, <1>13 DEF MenuInv

\* What a command line holds after an edit.
LEMMA EditedLine ==
    ASSUME NEW old \in Seq(Texts), NEW t \in Texts, NEW text, text = <<>> \/ text = <<t>>
    PROVE  /\ old \o text \in Seq(Texts)
           /\ \A k \in 1..Len(old \o text) :
                 \/ k \in 1..Len(old) /\ (old \o text)[k] = old[k]
                 \/ text = <<t>> /\ (old \o text)[k] = t
<1>1. text \in Seq(Texts) /\ (Len(text) = 0 \/ (Len(text) = 1 /\ text = <<t>> /\ text[1] = t))
  <2>1. CASE text = <<>>
    BY <2>1, EmptySeq
  <2>2. CASE text = <<t>>
    BY <2>2
  <2> QED
    BY <2>1, <2>2
<1>2. /\ old \o text \in Seq(Texts) /\ Len(old \o text) = Len(old) + Len(text)
      /\ \A k \in 1..Len(old) + Len(text) : (old \o text)[k] = IF k <= Len(old) THEN old[k] ELSE text[k - Len(old)]
  BY <1>1, ConcatProperties
<1>3. Len(old) \in Nat
  BY LenProperties
<1>4. ASSUME NEW k \in 1..Len(old \o text)
      PROVE  \/ k \in 1..Len(old) /\ (old \o text)[k] = old[k]
             \/ text = <<t>> /\ (old \o text)[k] = t
  <2>1. CASE k <= Len(old)
    BY <1>1, <1>2, <1>3, <2>1
  <2>2. CASE ~(k <= Len(old))
    <3>1. k \in 1..Len(old) + Len(text)
      BY <1>2
    <3>2. Len(text) = 1 /\ k - Len(old) = 1
      <4>1. CASE Len(text) = 0
        BY <1>3, <2>2, <3>1, <4>1
      <4>2. CASE Len(text) = 1
        BY <1>3, <2>2, <3>1, <4>2
      <4> QED
        BY <1>1, <4>1, <4>2
    <3> QED
      BY <1>1, <1>2, <2>2, <3>1, <3>2
  <2> QED
    BY <2>1, <2>2
<1> QED
  BY <1>2, <1>4

\* EnterText: the line of the entry that was selected, and no other.
LEMMA TextStep ==
    ASSUME MenuInv, NEW text, EnterText(text), text = <<>> \/ text = <<[by |-> "user", num |-> sel]>>
    PROVE  MenuInv'
<1>1. /\ pc \in {"append", "overwrite"} /\ pc' = "main"
      /\ UNCHANGED <<images, sel, want, tried, failed, entry, staged>>
      /\ cmd' = [cmd EXCEPT ![images[sel]] = (IF pc = "append" THEN @ ELSE <<>>) \o text]
  BY DEF EnterText, Types, loadVars
<1>2. pc \in Asking /\ pc' \in Asking /\ pc \notin Done /\ pc' \notin Done /\ pc \notin Searching /\ pc' \notin Searching
  BY <1>1 DEF Asking, Done, Cleaned, Searching, Prompts
<1>3. images \in Seq(Images) /\ cmd \in [Images -> Seq(Texts)] /\ sel \in Nat /\ sel \in 1..Len(images)
  BY <1>1 DEF MenuInv, MenuTypeOK, EditInv
<1> DEFINE e == images[sel]
           t == [by |-> "user", num |-> sel]
           old == IF pc = "append" THEN cmd[e] ELSE <<>>
<1>4. e \in Images /\ DOMAIN images = 1..Len(images)
  BY <1>3, LenProperties
<1>5. t \in Texts /\ old \in Seq(Texts)
  BY <1>3, <1>4 DEF Texts
<1>6. cmd' = [cmd EXCEPT ![e] = old \o text]
  BY <1>1
<1> HIDE DEF old
<1>7. /\ old \o text \in Seq(Texts)
      /\ \A k \in 1..Len(old \o text) :
                 \/ k \in 1..Len(old) /\ (old \o text)[k] = old[k]
                 \/ text = <<t>> /\ (old \o text)[k] = t
  BY <1>5, EditedLine
<1>8. MenuTypeOK'
  <2>1. cmd' \in [Images -> Seq(Texts)]
    BY <1>3, <1>4, <1>6, <1>7
  <2> QED
    BY <1>1, <1>2, <2>1 DEF MenuInv, MenuTypeOK
<1>9. ChoiceInv'
  <2>1. pc' # "load" /\ pc' # "default" /\ pc' # "exec" /\ pc' # "nothing"
    BY <1>1
  <2> QED
    BY <1>1, <1>2, <2>1 DEF MenuInv, ChoiceInv
<1>10. OrderInv'
  BY <1>1, <1>2 DEF MenuInv, OrderInv
<1>11. ASSUME NEW i \in Images, NEW k \in 1..Len(cmd'[i])
       PROVE  /\ cmd'[i][k].by = "user" => cmd'[i][k].num \in 1..Len(images) /\ images[cmd'[i][k].num] = i
              /\ cmd'[i][k].by = "config" /\ i \in Elems(images) => i \notin Linux
  <2>1. ASSUME NEW j \in Images, NEW m \in 1..Len(cmd[j])
        PROVE  /\ cmd[j][m].by = "user" => cmd[j][m].num \in 1..Len(images) /\ images[cmd[j][m].num] = j
               /\ cmd[j][m].by = "config" /\ j \in Elems(images) => j \notin Linux
    BY <1>2 DEF MenuInv, EditInv
  <2>2. CASE i # e
    <3>1. cmd'[i] = cmd[i]
      BY <1>3, <1>6, <2>2
    <3> QED
      BY <2>1, <3>1
  <2>3. CASE i = e
    <3>1. cmd'[i] = old \o text
      BY <1>3, <1>4, <1>6, <2>3
    <3>2. CASE text = <<t>> /\ cmd'[i][k] = t
      <4>1. cmd'[i][k].by = "user" /\ cmd'[i][k].num = sel
        BY <3>2
      <4> QED
        BY <1>3, <2>3, <4>1
    <3>3. CASE k \in 1..Len(old) /\ cmd'[i][k] = old[k]
      <4>1. pc = "append" /\ old = cmd[e]
        BY <3>3 DEF old
      <4> QED
        BY <1>4, <2>1, <2>3, <3>3, <4>1
    <3> QED
      BY <1>7, <3>1, <3>2, <3>3
  <2> QED
    BY <2>2, <2>3
<1>12. EditInv'
  <2>1. staged.img = NoImage
    BY <1>2 DEF MenuInv, EditInv
  <2> QED
    BY <1>1, <1>2, <1>11, <2>1 DEF EditInv
<1> QED
  BY <1>8, <1>9, <1>10, <1>12 DEF MenuInv

\* The user chooses an entry.
LEMMA ChooseStep ==
    ASSUME MenuInv, NEW n \in Entries, ChooseEntry(n)
    PROVE  MenuInv'
<1>1. /\ pc = "main" /\ pc' = "load" /\ want' = n
      /\ UNCHANGED <<images, cmd, sel, tried, failed, entry, staged>>
  BY DEF ChooseEntry, Types, loadVars
<1>2. pc \in Asking /\ pc \notin Done /\ pc \notin Searching /\ pc' \notin Asking /\ pc' \notin Done /\ pc' \notin Searching
  BY <1>1 DEF Asking, Done, Cleaned, Searching, Prompts
<1>3. Len(images) \in Nat
  BY LenProperties DEF MenuInv, MenuTypeOK
<1>4. MenuTypeOK'
  BY <1>1, <1>3 DEF MenuInv, MenuTypeOK, Entries
<1>5. ChoiceInv'
  BY <1>1, <1>2 DEF MenuInv, ChoiceInv, Entries
<1>6. OrderInv'
  BY <1>1, <1>2 DEF MenuInv, OrderInv
<1>7. EditInv'
  BY <1>1, <1>2 DEF MenuInv, EditInv
<1> QED
  BY <1>4, <1>5, <1>6, <1>7 DEF MenuInv

\* The user selects an entry for an edit.
LEMMA SelectStep ==
    ASSUME MenuInv, pc = "num", NEW n \in 1..Len(images), sel' = n, pc' = "op",
           UNCHANGED <<images, cmd, want, tried, failed, entry, staged>>
    PROVE  MenuInv'
<1>1. pc \in Asking /\ pc \notin Done /\ pc \notin Searching /\ pc' \in Asking /\ pc' \notin Done /\ pc' \notin Searching
  BY DEF Asking, Done, Cleaned, Searching, Prompts
<1>2. Len(images) \in Nat
  BY LenProperties DEF MenuInv, MenuTypeOK
<1>3. MenuTypeOK'
  BY <1>1, <1>2 DEF MenuInv, MenuTypeOK
<1>4. ChoiceInv'
  BY <1>1 DEF MenuInv, ChoiceInv
<1>5. OrderInv'
  BY <1>1 DEF MenuInv, OrderInv
<1>6. EditInv'
  BY <1>1 DEF MenuInv, EditInv
<1> QED
  BY <1>3, <1>4, <1>5, <1>6 DEF MenuInv

\* The menu falls back to the default entries.
LEMMA FallBackStep ==
    ASSUME MenuInv, pc = "main", pc' = "default", tried' = 1,
           UNCHANGED <<images, cmd, sel, want, failed, entry, staged>>
    PROVE  MenuInv'
<1>1. pc \in Asking /\ pc \notin Done /\ pc \notin Searching /\ pc' \notin Asking /\ pc' \notin Done /\ pc' \notin Searching
  BY DEF Asking, Done, Cleaned, Searching, Prompts
<1>2. Len(images) \in Nat
  BY LenProperties DEF MenuInv, MenuTypeOK
<1>3. MenuTypeOK'
  BY DEF MenuInv, MenuTypeOK
<1>4. ChoiceInv'
  <2>1. want = 0 /\ tried = 0 /\ failed = {images[k] : k \in 1..tried - 1}
    BY <1>1 DEF MenuInv, ChoiceInv
  <2>2. failed' = {images'[k] : k \in 1..tried' - 1}
    BY <2>1
  <2>3. tried' <= Len(images') + 1
    BY <1>2
  <2> QED
    BY <1>1, <2>1, <2>2, <2>3 DEF ChoiceInv
<1>5. OrderInv'
  BY <1>1 DEF MenuInv, OrderInv
<1>6. EditInv'
  BY <1>1 DEF MenuInv, EditInv
<1> QED
  BY <1>3, <1>4, <1>5, <1>6 DEF MenuInv

\* A line typed by the user keeps MenuInv.
LEMMA MenuUser ==
    ASSUME MenuInv, UserTypes
    PROVE  MenuInv'
<1>1. ASSUME NEW n \in Entries, ChooseEntry(n) PROVE MenuInv'
  BY <1>1, ChooseStep
<1>2. ASSUME NEW n \in Entries, EditEntry(n) PROVE MenuInv'
  <2>1. pc = "num" /\ UNCHANGED <<images, cmd, want, tried, failed, entry, staged>>
    BY <1>2 DEF EditEntry, Types, loadVars
  <2>2. CASE IsImage(n)
    <3>1. sel' = n /\ pc' = "op"
      BY <1>2, <2>2 DEF EditEntry
    <3>2. n \in 1..Len(images)
      BY <2>2, LenProperties DEF IsImage, MenuInv, MenuTypeOK
    <3> QED
      BY <2>1, <3>1, <3>2, SelectStep
  <2>3. CASE ~IsImage(n)
    <3>1. sel' = sel /\ pc' = "main"
      BY <1>2, <2>3 DEF EditEntry
    <3>2. /\ pc' \in Asking /\ pc \in Asking /\ pc \notin Searching /\ pc' \notin Searching
          /\ pc \notin Done /\ pc' \notin Done
      BY <2>1, <3>1 DEF Asking, Searching, Prompts, Done, Cleaned
    <3> QED
      BY <2>1, <3>1, <3>2, PcStep
  <2> QED
    BY <2>2, <2>3
<1>3. CASE (\E p \in {"main", "num", "op"} : BadLine(p)) \/ StartEdit \/ EditOption
  <2>1. /\ UNCHANGED <<images, cmd, sel, want, tried, failed, entry, staged>>
        /\ pc \in {"main", "num", "op"} /\ pc' \in {"main", "num", "append", "overwrite"}
        /\ pc' \in {"append", "overwrite"} => pc = "op"
    BY <1>3 DEF BadLine, StartEdit, EditOption, Types, loadVars
  <2>2. /\ pc' \in Asking /\ pc \in Asking /\ pc \notin Searching /\ pc' \notin Searching
        /\ pc \notin Done /\ pc' \notin Done
    BY <2>1 DEF Asking, Searching, Prompts, Done, Cleaned
  <2> QED
    BY <2>1, <2>2, PcStep
<1>4. CASE TakeDefault
  BY <1>4, FallBackStep DEF TakeDefault, Types
<1>5. CASE EnterText(<<>>)
  BY <1>5, TextStep
<1>6. CASE EnterText(<<[by |-> "user", num |-> sel]>>)
  BY <1>6, TextStep
<1> QED
  BY <1>1, <1>2, <1>3, <1>4, <1>5, <1>6 DEF UserTypes

\* Load of an image: what is in memory afterwards, if it succeeds.
LEMMA MenuLoads ==
    ASSUME MenuInv, pc \in {"load", "default"}, pc' = "clean", NEW n \in 1..Len(images), entry' = n,
           pc = "load" => n = want, pc = "default" => n = tried,
           staged'.img = images[n], staged'.cmd = cmd[images[n]],
           UNCHANGED <<images, cmd, sel, want, tried, failed>>
    PROVE  MenuInv'
<1>1. pc \notin Asking /\ pc \notin Done /\ pc \notin Searching /\ pc' \notin Asking /\ pc' \in Done /\ pc' \notin Searching
  BY DEF Asking, Done, Cleaned, Searching, Prompts
<1>2. Len(images) \in Nat /\ images[n] \in Images /\ DOMAIN images = 1..Len(images)
  BY LenProperties DEF MenuInv, MenuTypeOK
<1>3. MenuTypeOK'
  BY <1>1, <1>2 DEF MenuInv, MenuTypeOK
<1>4. n # 0 /\ n \in Nat
  BY <1>2
<1>5. ChoiceInv'
  <2>1. entry' = IF want # 0 THEN want ELSE tried
    BY <1>2, <1>4 DEF MenuInv, ChoiceInv
  <2>2. tried <= Len(images) + 1 /\ failed = {images[k] : k \in 1..tried - 1}
    BY DEF MenuInv, ChoiceInv
  <2>3. IsImage(entry)'
    BY <1>2 DEF IsImage
  <2> QED
    BY <1>1, <1>4, <2>1, <2>2, <2>3 DEF ChoiceInv
<1>6. OrderInv'
  BY <1>1 DEF MenuInv, OrderInv
<1>7. EditInv'
  <2>1. images[n] \in Elems(images)
    BY <1>2 DEF Elems
  <2> QED
    BY <1>1, <1>2, <2>1 DEF MenuInv, EditInv
<1> QED
  BY <1>3, <1>5, <1>6, <1>7 DEF MenuInv

\* LoadChosen keeps MenuInv: after a failure the menu is as it was.
LEMMA MenuLoadChosen ==
    ASSUME MenuInv, LoadChosen
    PROVE  MenuInv'
<1>1. pc = "load" /\ UNCHANGED <<images, cmd, sel, tried, failed>>
  BY DEF LoadChosen, Frame
<1>2. want \in Entries /\ tried = 0 /\ entry = 0 /\ staged.img = NoImage
  BY <1>1, PcSets DEF MenuInv, ChoiceInv, EditInv
<1>3. Len(images) \in Nat /\ DOMAIN images = 1..Len(images)
  BY LenProperties DEF MenuInv, MenuTypeOK
<1>4. CASE IsImage(want) /\ LoadSucceeds(images[want]) /\ entry' = want /\ pc' = "clean" /\ UNCHANGED want
  <2>1. want \in 1..Len(images)
    BY <1>3, <1>4 DEF IsImage
  <2>2. staged'.img = images[want] /\ staged'.cmd = cmd[images[want]]
    BY <1>4 DEF LoadSucceeds
  <2> QED
    BY <1>1, <1>4, <2>1, <2>2, MenuLoads
<1>5. CASE ~IsImage(want) /\ UNCHANGED staged /\ entry' = want /\ pc' = "clean" /\ UNCHANGED want
  <2>1. pc \notin Asking /\ pc \notin Done /\ pc \notin Searching /\ pc' \notin Asking /\ pc' \in Done /\ pc' \notin Searching
    BY <1>1, <1>5 DEF Asking, Done, Cleaned, Searching, Prompts
  <2>2. want # 0 /\ want \in Nat
    BY <1>2, <1>3 DEF Entries
  <2>3. MenuTypeOK'
    BY <1>1, <1>5, <2>1, <2>2 DEF MenuInv, MenuTypeOK
  <2>4. ChoiceInv'
    BY <1>1, <1>2, <1>5, <2>1, <2>2 DEF MenuInv, ChoiceInv, IsImage
  <2>5. OrderInv'
    BY <1>1, <2>1 DEF MenuInv, OrderInv
  <2>6. EditInv'
    BY <1>1, <1>2, <1>5, <2>1 DEF MenuInv, EditInv
  <2> QED
    BY <2>3, <2>4, <2>5, <2>6 DEF MenuInv
<1>6. CASE UNCHANGED <<staged, entry>> /\ want' = 0 /\ pc' = "main"
  <2>1. pc \notin Asking /\ pc \notin Done /\ pc \notin Searching /\ pc' \in Asking /\ pc' \notin Done /\ pc' \notin Searching
    BY <1>1, <1>6 DEF Asking, Done, Cleaned, Searching, Prompts
  <2>2. MenuTypeOK'
    BY <1>1, <1>6, <2>1 DEF MenuInv, MenuTypeOK
  <2>3. ChoiceInv'
    BY <1>1, <1>2, <1>6, <2>1 DEF MenuInv, ChoiceInv
  <2>4. OrderInv'
    BY <1>1, <2>1 DEF MenuInv, OrderInv
  <2>5. EditInv'
    BY <1>1, <1>2, <1>6, <2>1 DEF MenuInv, EditInv
  <2> QED
    BY <2>2, <2>3, <2>4, <2>5 DEF MenuInv
<1> QED
  BY <1>4, <1>5, <1>6 DEF LoadChosen, LoadFailsEarly, LoadFailsLate

\* LoadDefault keeps MenuInv: each image that fails is remembered.
LEMMA MenuLoadDefault ==
    ASSUME MenuInv, LoadDefault
    PROVE  MenuInv'
<1>1. pc = "default" /\ UNCHANGED <<images, cmd, sel, want>>
  BY DEF LoadDefault, Frame
<1>2. want = 0 /\ tried >= 1 /\ staged.img = NoImage /\ tried \in Nat
  BY <1>1, PcSets DEF MenuInv, ChoiceInv, EditInv, MenuTypeOK
<1>3. Len(images) \in Nat /\ DOMAIN images = 1..Len(images)
  BY LenProperties DEF MenuInv, MenuTypeOK
<1>4. tried <= Len(images) + 1 /\ failed = {images[k] : k \in 1..tried - 1}
  BY DEF MenuInv, ChoiceInv
<1>5. CASE tried <= Len(images) /\ LoadSucceeds(images[tried]) /\ entry' = tried /\ pc' = "clean" /\ UNCHANGED <<tried, failed>>
  <2>1. tried \in 1..Len(images)
    BY <1>2, <1>3, <1>5
  <2>2. staged'.img = images[tried] /\ staged'.cmd = cmd[images[tried]]
    BY <1>5 DEF LoadSucceeds
  <2> QED
    BY <1>1, <1>5, <2>1, <2>2, MenuLoads
<1>6. CASE tried > Len(images) /\ entry' = 0 /\ pc' = "clean" /\ UNCHANGED <<staged, tried, failed>>
  <2>1. pc \notin Asking /\ pc \notin Done /\ pc \notin Searching /\ pc' \notin Asking /\ pc' \in Done /\ pc' \notin Searching
    BY <1>1, <1>6 DEF Asking, Done, Cleaned, Searching, Prompts
  <2>2. MenuTypeOK'
    BY <1>1, <1>6, <2>1 DEF MenuInv, MenuTypeOK
  <2>3. ChoiceInv'
    BY <1>1, <1>2, <1>4, <1>6, <2>1 DEF ChoiceInv
  <2>4. OrderInv'
    BY <1>1, <2>1 DEF MenuInv, OrderInv
  <2>5. EditInv'
    BY <1>1, <1>2, <1>6, <2>1 DEF MenuInv, EditInv
  <2> QED
    BY <2>2, <2>3, <2>4, <2>5 DEF MenuInv
<1>7. CASE tried <= Len(images) /\ UNCHANGED <<staged, pc, entry>> /\ tried' = tried + 1 /\ failed' = failed \cup {images[tried]}
  <2>1. pc \notin Asking /\ pc \notin Done /\ pc \notin Searching
    BY <1>1 DEF Asking, Done, Cleaned, Searching, Prompts
  <2>2. MenuTypeOK'
    BY <1>1, <1>2, <1>7 DEF MenuInv, MenuTypeOK
  <2>3. failed' = {images'[k] : k \in 1..tried' - 1}
    <3>1. \A k : k \in 1..tried' - 1 <=> k \in 1..tried - 1 \/ k = tried
      BY <1>2, <1>7
    <3> QED
      BY <1>1, <1>4, <1>7, <3>1
  <2>4. tried' >= 1 /\ tried' <= Len(images') + 1
    BY <1>1, <1>2, <1>3, <1>7
  <2>5. ChoiceInv'
    BY <1>1, <1>2, <1>7, <2>1, <2>3, <2>4 DEF ChoiceInv
  <2>6. OrderInv'
    BY <1>1, <1>7 DEF MenuInv, OrderInv
  <2>7. EditInv'
    BY <1>1, <1>2, <1>7, <2>1 DEF MenuInv, EditInv
  <2> QED
    BY <2>2, <2>5, <2>6, <2>7 DEF MenuInv
<1> QED
  BY <1>5, <1>6, <1>7 DEF LoadDefault, LoadFailsEarly, LoadFailsLate

\* MenuInv holds when the command starts.
LEMMA MenuInit == BootInit => MenuInv
<1> SUFFICES ASSUME BootInit PROVE MenuInv
  OBVIOUS
<1> DEFINE t == [by |-> "config", num |-> 0]
<1>1. /\ pc = "start" /\ images = <<>> /\ cmd = [i \in Images |-> <<t>>] /\ sel = 0 /\ want = 0 /\ tried = 0
      /\ entry = 0 /\ failed = {} /\ staged.img = NoImage
  BY DEF BootInit
<1>2. pc \in Asking /\ pc \notin Done /\ pc \in Searching /\ pc \notin {"load", "default", "op", "append", "overwrite"}
  BY <1>1 DEF Asking, Done, Cleaned, Searching, Prompts
<1>3. Len(images) = 0 /\ images \in Seq(Images)
  BY <1>1
<1>4. t \in Texts /\ t.by = "config"
  BY DEF Texts
<1> HIDE DEF t
<1>5. <<t>> \in Seq(Texts) /\ \A k \in 1..Len(<<t>>) : <<t>>[k] = t
  BY <1>4
<1>6. \A i \in Images : cmd[i] = <<t>>
  BY <1>1
<1>7. MenuTypeOK
  BY <1>1, <1>2, <1>3, <1>5 DEF MenuTypeOK
<1>8. ChoiceInv
  BY <1>1, <1>2, <1>3 DEF ChoiceInv, Done, Cleaned
<1>9. EditInv
  BY <1>1, <1>2, <1>4, <1>5, <1>6 DEF EditInv
<1> QED
  BY <1>2, <1>7, <1>8, <1>9 DEF MenuInv, OrderInv

\* What is chosen, edited, tried and loaded fits together in every state.
THEOREM MenuInvariance == BootSpec => []MenuInv
<1>1. MenuInv /\ [BootNext]_vars => MenuInv'
  <2> SUFFICES ASSUME MenuInv, [BootNext]_vars PROVE MenuInv'
    OBVIOUS
  <2>0. images \in Seq(Images)
    BY DEF MenuInv, MenuTypeOK
  <2>1. CASE GetBlockDevices \/ ParseDone \/ (\E d \in Devs : ScanFails(d) \/ GrubSearch(d))
    <3>1. /\ pc \in Searching /\ pc' \in Searching /\ images' \in Seq(Images)
          /\ UNCHANGED <<cmd, sel, want, tried, failed, entry, staged>>
      BY <2>0, <2>1 DEF GetBlockDevices, ParseDone, ScanFails, GrubSearch, Searching, menuVars, loadVars
    <3> QED
      BY <3>1, SearchStep
  <2>2. ASSUME NEW d \in Devs, ScanUnmounted(d) \/ ScanMounted(d) PROVE MenuInv'
    <3>1. esxiImages(d) \in Seq(Images) /\ Config[d] \in Seq(Images)
      BY EsxiImagesAreImages, BootAssumption
    <3>2. /\ pc \in Searching /\ pc' \in Searching
          /\ images' = images \o esxiImages(d) \/ images' = images \o Config[d]
          /\ UNCHANGED <<cmd, sel, want, tried, failed, entry, staged>>
      BY <2>2 DEF ScanUnmounted, ScanMounted, Searching, menuVars, loadVars
    <3>3. images' \in Seq(Images)
      BY <2>0, <3>1, <3>2, ConcatProperties
    <3> QED
      BY <3>2, <3>3, SearchStep
  <2>3. CASE ShowImages
    BY <2>3, ShowStep
  <2>4. CASE OpenTty \/ Expire
    <3>1. /\ UNCHANGED <<images, cmd, sel, want, tried, failed, entry, staged>>
          /\ (pc = "tty" /\ pc' = "main") \/ (pc = "tty" /\ pc' = "clean") \/ (pc \in Prompts /\ pc' = pc)
      BY <2>4 DEF OpenTty, Expire, loadVars
    <3>2. CASE pc = "tty" /\ pc' = "clean"
      <4>1. pc \in Asking /\ pc \notin Done /\ pc \notin Searching /\ pc' \notin Asking /\ pc' \in Done /\ pc' \notin Searching
        BY <3>2 DEF Asking, Done, Cleaned, Searching, Prompts
      <4> QED
        BY <3>1, <3>2, <4>1, PcStep
    <3>3. CASE pc' # "clean"
      <4>1. /\ pc \in Asking /\ pc \notin Done /\ pc \notin Searching /\ pc' \in Asking /\ pc' \notin Done
            /\ pc' \notin Searching /\ pc' # "exec" /\ pc' # "nothing"
        BY <3>1, <3>3 DEF Asking, Done, Cleaned, Searching, Prompts
      <4> QED
        BY <3>1, <3>3, <4>1, PcStep
    <3> QED
      BY <3>1, <3>2, <3>3 DEF Prompts
  <2>5. CASE ReadFails
    <3>1. pc \in Prompts /\ UNCHANGED <<images, cmd, sel, want, failed, entry, staged>>
      BY <2>5 DEF ReadFails, Types
    <3>2. CASE pc = "main"
      BY <2>5, <3>1, <3>2, FallBackStep DEF ReadFails
    <3>3. CASE pc # "main"
      <4>1. pc' = "main" /\ UNCHANGED tried
        BY <2>5, <3>3 DEF ReadFails
      <4>2. pc \in Asking /\ pc \notin Done /\ pc \notin Searching /\ pc' \in Asking /\ pc' \notin Done /\ pc' \notin Searching
        BY <3>1, <4>1 DEF Asking, Done, Cleaned, Searching, Prompts
      <4> QED
        BY <3>1, <4>1, <4>2, PcStep
    <3> QED
      BY <3>2, <3>3
  <2>6. CASE LoadChosen
    BY <2>6, MenuLoadChosen
  <2>7. CASE LoadDefault
    BY <2>7, MenuLoadDefault
  <2>8. CASE CleanUp \/ Exec
    <3>1. /\ UNCHANGED <<images, cmd, sel, want, tried, failed, entry, staged>> /\ pc \in {"clean", "exec"}
          /\ pc' \in {"nothing", "chosen", "exec", "failed", "kexec", "returned", "rebooted"}
          /\ (pc' = "nothing" => entry = 0) /\ (pc' = "exec" => entry # 0)
      BY <2>8 DEF CleanUp, Exec, menuVars, loadVars
    <3>2. pc \notin Asking /\ pc \in Done /\ pc \notin Searching /\ pc' \notin Asking /\ pc' \in Done /\ pc' \notin Searching
      BY <3>1 DEF Asking, Done, Cleaned, Searching, Prompts
    <3> QED
      BY <3>1, <3>2, PcStep
  <2>9. CASE UserTypes
    BY <2>9, MenuUser
  <2>10. CASE Stopped \/ UNCHANGED vars
    <3>1. UNCHANGED <<pc, images, cmd, sel, want, tried, failed, entry, staged>>
      BY <2>10 DEF Stopped, vars, menuVars, loadVars
    <3>2. MenuTypeOK' /\ OrderInv'
      BY <3>1 DEF MenuInv, MenuTypeOK, OrderInv
    <3>3. ChoiceInv'
      BY <3>1 DEF MenuInv, ChoiceInv, IsImage, Entries
    <3>4. EditInv'
      BY <3>1 DEF MenuInv, EditInv, Elems
    <3> QED
      BY <3>2, <3>3, <3>4 DEF MenuInv
  <2> QED
    BY <2>1, <2>2, <2>3, <2>4, <2>5, <2>6, <2>7, <2>8, <2>9, <2>10 DEF BootNext, Program
<1> QED
  BY <1>1, MenuInit, PTL DEF BootSpec

\* Whatever was edited and whatever failed to load before, what is executed is the
\* entry that the user chose, or an image; and the kernel in memory is that entry's.
THEOREM BootsTheChoice == BootSpec => []BootsWhatWasChosen
<1>1. MenuInv => BootsWhatWasChosen
  <2> SUFFICES ASSUME MenuInv, pc = "exec"
               PROVE  /\ entry = (IF want # 0 THEN want ELSE tried)
                      /\ want = 0 => IsImage(entry)
                      /\ IsImage(entry) => staged.img = images[entry]
    BY DEF BootsWhatWasChosen
  <2>1. pc \in Done
    BY DEF Done, Cleaned
  <2> QED
    BY <2>1 DEF MenuInv, ChoiceInv
<1> QED
  BY <1>1, MenuInvariance, PTL

\* The kernel that is loaded has the command line of its own menu entry: every text
\* that was typed for it and none that was typed for another one.
THEOREM EditsReach == BootSpec => []EditsReachTheirKernel
<1>1. MenuInv => EditsReachTheirKernel
  <2> SUFFICES ASSUME MenuInv, staged.img # NoImage
               PROVE  /\ staged.cmd = cmd[staged.img]
                      /\ \A t \in Elems(staged.cmd) :
                            /\ t.by = "user" => images[t.num] = staged.img
                            /\ t.by = "config" => staged.img \notin Linux
    BY DEF EditsReachTheirKernel
  <2>1. pc \in Done /\ staged.img \in Images /\ staged.img \in Elems(images) /\ staged.cmd = cmd[staged.img]
    BY DEF MenuInv, EditInv
  <2>2. pc \notin Searching
    BY <2>1 DEF Done, Cleaned, Searching
  <2>3. cmd[staged.img] \in Seq(Texts)
    BY <2>1 DEF MenuInv, MenuTypeOK
  <2>4. ASSUME NEW t \in Elems(staged.cmd)
        PROVE  /\ t.by = "user" => images[t.num] = staged.img
               /\ t.by = "config" => staged.img \notin Linux
    <3>1. PICK k \in 1..Len(cmd[staged.img]) : t = cmd[staged.img][k]
      BY <2>1, <2>3, LenProperties DEF Elems
    <3> QED
      BY <2>1, <2>2, <3>1 DEF MenuInv, EditInv
  <2> QED
    BY <2>1, <2>4
<1> QED
  BY <1>1, MenuInvariance, PTL

\* Without a choice the best image that can be loaded is booted, and "Nothing to boot"
\* is said only when every image was tried.
THEOREM DefaultsToTheBest == BootSpec => []DefaultIsBest
<1>1. MenuInv => DefaultIsBest
  <2> SUFFICES ASSUME MenuInv PROVE DefaultIsBest
    OBVIOUS
  <2>1. /\ images \in Seq(Images) /\ DOMAIN images = 1..Len(images) /\ Len(images) \in Nat /\ tried \in Nat
        /\ \A k \in 1..Len(images) : images[k] \in Images
    BY LenProperties DEF MenuInv, MenuTypeOK
  <2>2. failed = {images[k] : k \in 1..tried - 1} /\ tried <= Len(images) + 1
    BY DEF MenuInv, ChoiceInv
  <2>3. \A k \in 1..Len(images) : Rank[images[k]] \in Int
    BY <2>1, BootAssumption
  <2>4. ASSUME pc = "exec", want = 0, NEW i \in Elems(images), Rank[i] > Rank[staged.img]
        PROVE  i \in failed
    <3>1. pc \in Done /\ pc \notin Searching
      BY <2>4 DEF Done, Cleaned, Searching
    <3>2. entry # 0 /\ entry = tried /\ IsImage(tried) /\ staged.img = images[tried]
      BY <2>4, <3>1 DEF MenuInv, ChoiceInv
    <3>3. tried \in 1..Len(images)
      BY <2>1, <3>2 DEF IsImage
    <3>4. PICK k \in 1..Len(images) : i = images[k]
      BY <2>1 DEF Elems
    <3>5. ~(tried < k) /\ tried # k
      <4>1. tried < k => Rank[images[tried]] >= Rank[images[k]]
        BY <3>1, <3>3, <3>4 DEF MenuInv, OrderInv
      <4>2. Rank[images[k]] > Rank[images[tried]] /\ Rank[images[k]] \in Int /\ Rank[images[tried]] \in Int
        BY <2>3, <2>4, <3>2, <3>3, <3>4
      <4> QED
        BY <4>1, <4>2
    <3>6. k \in 1..tried - 1
      BY <2>1, <3>3, <3>5
    <3> QED
      BY <2>2, <3>4, <3>6
  <2>5. ASSUME pc = "nothing", tried # 0 PROVE Elems(images) = failed
    <3>1. pc \in Done
      BY <2>5 DEF Done, Cleaned
    <3>2. entry = 0 /\ tried > Len(images)
      BY <2>5, <3>1 DEF MenuInv, ChoiceInv
    <3>3. tried - 1 = Len(images)
      BY <2>1, <2>2, <3>2
    <3> QED
      BY <2>1, <2>2, <3>3 DEF Elems
  <2> QED
    BY <2>4, <2>5 DEF DefaultIsBest
<1> QED
  BY <1>1, MenuInvariance, PTL

-----------------------------------------------------------------------------
(***************************************************************************)
(* The initrds.                                                            *)
(***************************************************************************)

\* A multiple of a sector ends at a sector.
LEMMA Multiple ==
    ASSUME NEW s \in Nat \ {0}, NEW k \in Nat
    PROVE  (s * k) % s = 0
OBVIOUS

\* Division with a remainder.
LEMMA Division ==
    ASSUME NEW s \in Nat \ {0}, NEW n \in Nat
    PROVE  n = s * (n \div s) + (n % s) /\ n % s \in Nat /\ n % s < s /\ n \div s \in Nat
OBVIOUS

\* The padding of CatInitrds goes up to the next sector.
LEMMA Padding ==
    ASSUME NEW n \in Nat, NEW start, start = n + (IF n % Sector = 0 THEN 0 ELSE Sector - (n % Sector))
    PROVE  start \in Nat /\ start % Sector = 0 /\ start >= n
<1>0. Sector \in Nat \ {0}
  BY BootAssumption
<1>1. n = Sector * (n \div Sector) + (n % Sector) /\ n % Sector \in Nat /\ n % Sector < Sector /\ n \div Sector \in Nat
  BY <1>0, Division
<1>2. CASE n % Sector = 0
  BY <1>2
<1>3. CASE n % Sector # 0
  <2>1. start = n + (Sector - (n % Sector))
    BY <1>3
  <2>2. start = Sector * ((n \div Sector) + 1)
    BY <1>0, <1>1, <2>1
  <2>3. start % Sector = 0
    <3>1. (n \div Sector) + 1 \in Nat
      BY <1>1
    <3>2. (Sector * ((n \div Sector) + 1)) % Sector = 0
      BY <1>0, <3>1, Multiple
    <3> QED
      BY <2>2, <3>2
  <2>4. start \in Nat /\ start >= n
    BY <1>0, <1>1, <2>1
  <2> QED
    BY <2>3, <2>4
<1> QED
  BY <1>2, <1>3

\* A part on its own is aligned.
LEMMA PartIsAligned ==
    ASSUME NEW what \in {"initrd", "dtb"}, NEW n \in Nat
    PROVE  /\ AlignedBlob(Part(what, n)) /\ Len(Part(what, n).parts) = 1
           /\ Part(what, n).parts[1] = [what |-> what, off |-> 0] /\ Part(what, n).len = n
<1> DEFINE e == [what |-> what, off |-> 0]
<1>1. Part(what, n) = [parts |-> <<e>>, len |-> n]
  BY DEF Part
<1>2. e \in [what : {"initrd", "dtb"}, off : Nat] /\ e.off = 0
  OBVIOUS
<1> HIDE DEF e
<1>3. <<e>> \in Seq([what : {"initrd", "dtb"}, off : Nat]) /\ Len(<<e>>) = 1 /\ <<e>>[1] = e
  BY <1>2
<1>4. 0 % Sector = 0
  BY BootAssumption
<1>5. Part(what, n) \in Blobs /\ Part(what, n).parts = <<e>> /\ Part(what, n).len = n
  BY <1>1, <1>3 DEF Blobs
<1>6. \A k \in 1..Len(<<e>>) : <<e>>[k].off % Sector = 0
  BY <1>2, <1>3, <1>4
<1> QED
  BY <1>3, <1>5, <1>6 DEF AlignedBlob, e

\* CatInitrds: behind parts that begin at sectors it puts one more that does.
LEMMA CatAligned ==
    ASSUME NEW a, AlignedBlob(a), NEW what \in {"initrd", "dtb"}, NEW n \in Nat
    PROVE  AlignedBlob(CatInitrds(a, Part(what, n)))
<1> DEFINE b == Part(what, n)
           start == a.len + (IF a.len % Sector = 0 THEN 0 ELSE Sector - (a.len % Sector))
           more == [k \in DOMAIN b.parts |-> [b.parts[k] EXCEPT !.off = @ + start]]
           Pieces == [what : {"initrd", "dtb"}, off : Nat]
<1>1. a.len \in Nat /\ a.parts \in Seq(Pieces) /\ \A k \in 1..Len(a.parts) : a.parts[k].off % Sector = 0
  BY DEF AlignedBlob, Blobs
<1>2. start \in Nat /\ start % Sector = 0
  BY <1>1, Padding
<1>3. b.parts \in Seq(Pieces) /\ Len(b.parts) = 1 /\ b.parts[1] = [what |-> what, off |-> 0] /\ b.len = n
  BY PartIsAligned DEF AlignedBlob, Blobs
<1>4. CatInitrds(a, b) = [parts |-> a.parts \o more, len |-> start + b.len]
  BY DEF CatInitrds
<1> HIDE DEF start, b
<1>5. DOMAIN b.parts = 1..1
  BY <1>3, LenProperties
<1>6. more \in Seq(Pieces) /\ Len(more) = 1 /\ more[1].off = start
  <2>1. more[1] = [what |-> what, off |-> start]
    BY <1>2, <1>3, <1>5
  <2>2. more \in [1..1 -> Pieces]
    BY <1>2, <1>5, <2>1
  <2> HIDE DEF more, Pieces
  <2>3. more \in Seq(Pieces) /\ Len(more) = 1
    <3>1. PICK m \in Nat : m = 1
      OBVIOUS
    <3>2. more \in [1..m -> Pieces]
      BY <2>2, <3>1
    <3>3. more \in Seq(Pieces) /\ Len(more) = m
      BY <3>2, SeqDef
    <3> QED
      BY <3>1, <3>3
  <2> QED
    BY <2>1, <2>3
<1> HIDE DEF more, Pieces
<1>7. /\ a.parts \o more \in Seq(Pieces) /\ Len(a.parts \o more) = Len(a.parts) + Len(more)
      /\ \A k \in 1..Len(a.parts) + Len(more) :
            (a.parts \o more)[k] = IF k <= Len(a.parts) THEN a.parts[k] ELSE more[k - Len(a.parts)]
  BY <1>1, <1>6, ConcatProperties
<1>8. Len(a.parts) \in Nat
  BY <1>1, LenProperties
<1>9. ASSUME NEW k \in 1..Len(a.parts \o more) PROVE (a.parts \o more)[k].off % Sector = 0
  <2>1. k \in 1..Len(a.parts) + 1
    BY <1>6, <1>7
  <2>2. CASE k <= Len(a.parts)
    BY <1>1, <1>6, <1>7, <1>8, <2>1, <2>2
  <2>3. CASE ~(k <= Len(a.parts))
    <3>1. k - Len(a.parts) = 1
      BY <1>8, <2>1, <2>3
    <3> QED
      BY <1>2, <1>6, <1>7, <2>1, <2>3, <3>1
  <2> QED
    BY <2>2, <2>3
<1>10. start + b.len \in Nat
  BY <1>2, <1>3
<1>11. CatInitrds(a, b) \in Blobs /\ CatInitrds(a, b).parts = a.parts \o more
  BY <1>4, <1>7, <1>10 DEF Blobs, Pieces
<1> QED
  BY <1>9, <1>11 DEF AlignedBlob, b

\* Load leaves the initrd of the image aligned, however often it has run before.
LEMMA WithDtbAligned ==
    ASSUME InitrdInv, NEW i \in Images
    PROVE  AlignedBlob(WithDtb(i))
<1>1. AlignedBlob(initrd[i]) /\ DtbLen \in Nat
  BY BootAssumption DEF InitrdInv
<1>2. AlignedBlob(Part("dtb", DtbLen)) /\ AlignedBlob(CatInitrds(initrd[i], Part("dtb", DtbLen)))
  BY <1>1, PartIsAligned, CatAligned
<1> QED
  BY <1>1, <1>2 DEF WithDtb

\* InitrdInv is an invariant.
THEOREM InitrdInvariance == BootSpec => []InitrdInv
<1>1. BootInit => InitrdInv
  <2> SUFFICES ASSUME BootInit PROVE InitrdInv
    OBVIOUS
  <2>1. AlignedBlob(NoBlob)
    <3>1. NoBlob.parts = <<>> /\ NoBlob.len = 0 /\ NoBlob \in Blobs
      BY DEF NoBlob, Blobs
    <3>2. Len(NoBlob.parts) = 0
      BY <3>1
    <3> QED
      BY <3>1, <3>2 DEF AlignedBlob
  <2>2. \A i \in Images : AlignedBlob(Part("initrd", InitrdLen[i]))
    BY PartIsAligned, BootAssumption
  <2>3. /\ initrd = [i \in Images |-> IF InitrdLen[i] = 0 THEN NoBlob ELSE Part("initrd", InitrdLen[i])]
        /\ staged.initrd = NoBlob
    BY DEF BootInit
  <2>4. \A i \in Images : AlignedBlob(initrd[i]) /\ initrd[i] \in Blobs
    BY <2>1, <2>2, <2>3 DEF AlignedBlob
  <2> QED
    BY <2>1, <2>3, <2>4 DEF InitrdInv
<1>2. MenuInv /\ InitrdInv /\ [BootNext]_vars => InitrdInv'
  <2> SUFFICES ASSUME MenuInv, InitrdInv, [BootNext]_vars PROVE InitrdInv'
    OBVIOUS
  <2>1. CASE UNCHANGED <<initrd, staged>>
    BY <2>1 DEF InitrdInv, AlignedBlob, Blobs
  <2>2. ASSUME NEW i \in Images, LoadFailsEarly(i) \/ LoadFailsLate(i) \/ LoadSucceeds(i) PROVE InitrdInv'
    <3>1. AlignedBlob(WithDtb(i)) /\ WithDtb(i) \in Blobs
      BY WithDtbAligned DEF AlignedBlob
    <3>2. CASE initrd' = [initrd EXCEPT ![i] = WithDtb(i)] /\ (UNCHANGED staged \/ staged'.initrd = initrd'[i])
      <4>1. initrd' \in [Images -> Blobs] /\ \A j \in Images : AlignedBlob(initrd'[j])
        BY <3>1, <3>2 DEF InitrdInv
      <4>2. AlignedBlob(staged'.initrd)
        BY <3>2, <4>1 DEF InitrdInv
      <4> QED
        BY <4>1, <4>2 DEF InitrdInv, AlignedBlob, Blobs
    <3> QED
      BY <2>1, <2>2, <3>2 DEF LoadFailsEarly, LoadFailsLate, LoadSucceeds
  <2>3. \A n \in DOMAIN images : images[n] \in Images
    BY LenProperties DEF MenuInv, MenuTypeOK
  <2>4. CASE LoadChosen
    BY <2>1, <2>2, <2>3, <2>4 DEF LoadChosen, IsImage
  <2>5. CASE LoadDefault
    <3>1. pc = "default"
      BY <2>5 DEF LoadDefault
    <3>2. tried \in Nat /\ tried >= 1 /\ DOMAIN images = 1..Len(images) /\ Len(images) \in Nat
      BY <3>1, LenProperties DEF MenuInv, MenuTypeOK, ChoiceInv
    <3>3. tried <= Len(images) => images[tried] \in Images
      BY <2>3, <3>2
    <3> QED
      BY <2>1, <2>2, <2>5, <3>3 DEF LoadDefault
  <2>6. CASE GetBlockDevices \/ ParseDone \/ ShowImages \/ OpenTty \/ Expire \/ ReadFails \/ CleanUp \/ Exec
    BY <2>1, <2>6 DEF GetBlockDevices, ParseDone, ShowImages, OpenTty, Expire, ReadFails, CleanUp, Exec, loadVars
  <2>7. CASE \E d \in Devs : ScanUnmounted(d) \/ ScanMounted(d) \/ ScanFails(d) \/ GrubSearch(d)
    BY <2>1, <2>7 DEF ScanUnmounted, ScanMounted, ScanFails, GrubSearch, loadVars
  <2>8. CASE UserTypes
    BY <2>1, <2>8 DEF UserTypes, ChooseEntry, EditEntry, BadLine, TakeDefault, StartEdit, EditOption, EnterText, loadVars
  <2>9. CASE Stopped \/ UNCHANGED vars
    BY <2>1, <2>9 DEF Stopped, vars, loadVars
  <2> QED
    BY <2>4, <2>5, <2>6, <2>7, <2>8, <2>9 DEF BootNext, Program
<1> QED
  BY <1>1, <1>2, MenuInvariance, PTL DEF BootSpec

\* The kernel finds every part of the initrd at a sector, for any size of the parts and
\* also after a failed Load has already appended the device tree.
THEOREM LoadsAlignedParts == BootSpec => []PartsAligned
<1>1. InitrdInv => PartsAligned
  <2> SUFFICES ASSUME InitrdInv, NEW k \in DOMAIN staged.initrd.parts
               PROVE  staged.initrd.parts[k].off % Sector = 0
    BY DEF PartsAligned
  <2>1. staged.initrd.parts \in Seq([what : {"initrd", "dtb"}, off : Nat])
    BY DEF InitrdInv, AlignedBlob, Blobs
  <2>2. k \in 1..Len(staged.initrd.parts)
    BY <2>1, LenProperties
  <2> QED
    BY <2>2 DEF InitrdInv, AlignedBlob
<1> QED
  BY <1>1, InitrdInvariance, PTL

-----------------------------------------------------------------------------
(***************************************************************************)
(* The order of the ESXi images.                                           *)
(***************************************************************************)

\* A partition is a partition of one disk, and its boot.cfg gives an image of its own.
EsxiDistinct ==
    /\ \A p, q \in Devs : BootCfg[p] = BootCfg[q] /\ BootCfg[p] # NoImage => p = q
    /\ \A d, e \in Devs : \A p \in Elems(Parts[d]) : p \in Elems(Parts[e]) => d = e
    /\ \A p, d \in Devs : BootCfg[p] # NoImage =>
          Cdrom[d] # BootCfg[p] /\ \A k \in DOMAIN Config[d] : Config[d][k] # BootCfg[p]

\* Of two images of a disk the one that was updated last comes first.
NewestFirst ==
    \A d \in Devs : \A p, q \in Elems(Parts[d]) : \A j, k \in 1..Len(images) :
        images[j] = BootCfg[p] /\ images[k] = BootCfg[q] /\ Updated[images[j]] > Updated[images[k]] => j < k

\* The images of a disk are found together, when it is looked at.
EsxiInv ==
    /\ todo \subseteq devices /\ devices \subseteq Devs /\ (pc = "start" => Len(images) = 0)
    /\ pc \in Searching =>
          /\ NewestFirst
          /\ \A d \in todo : \A p \in Elems(Parts[d]) : \A j \in 1..Len(images) : images[j] # BootCfg[p]
    /\ pc \notin Searching /\ Len(images) <= InsertionLimit => NewestFirst

\* Partitions are devices.
LEMMA PartsAreDevices == \A d \in Devs : \A p \in Elems(Parts[d]) : p \in Devs
<1> SUFFICES ASSUME NEW d \in Devs, NEW p \in Elems(Parts[d]) PROVE p \in Devs
  OBVIOUS
<1>1. PICK N \in SUBSET {5, 6} : Parts[d] \in [N -> Devs]
  BY BootAssumption
<1> QED
  BY <1>1 DEF Elems

\* getImages: the images of the two partitions, the newest one first.
LEMMA GetImagesOrder ==
    ASSUME NEW d \in Devs
    PROVE  /\ getImages(d) \in Seq(Images)
           /\ \A a \in 1..Len(getImages(d)) : \E p \in Elems(Parts[d]) :
                 p \in Devs /\ getImages(d)[a] = BootCfg[p] /\ BootCfg[p] # NoImage
           /\ \A a, b \in 1..Len(getImages(d)) : Updated[getImages(d)[a]] > Updated[getImages(d)[b]] => a < b
<1> DEFINE x == bootImage(d, 5)
           y == bootImage(d, 6)
           Own(i) == \E p \in Elems(Parts[d]) : p \in Devs /\ i = BootCfg[p] /\ BootCfg[p] # NoImage
           g == getImages(d)
<1>1. (x = NoImage \/ (x \in Images /\ Own(x))) /\ (y = NoImage \/ (y \in Images /\ Own(y)))
  <2>1. PICK N \in SUBSET {5, 6} : Parts[d] \in [N -> Devs]
    BY BootAssumption
  <2>2. DOMAIN Parts[d] = N /\ \A n \in N : Parts[d][n] \in Devs /\ Parts[d][n] \in Elems(Parts[d])
    BY <2>1 DEF Elems
  <2> QED
    BY <2>2, BootAssumption DEF bootImage
<1>2. \/ g = <<>>
      \/ x # NoImage /\ g = <<x>>
      \/ y # NoImage /\ g = <<y>>
      \/ x # NoImage /\ y # NoImage /\ Updated[y] > Updated[x] /\ g = <<y, x>>
      \/ x # NoImage /\ y # NoImage /\ ~(Updated[y] > Updated[x]) /\ g = <<x, y>>
  BY DEF getImages
<1>3. \A i \in Images : Updated[i] \in Int
  BY BootAssumption
<1> HIDE DEF x, y, Own, g
<1>4. g \in Seq(Images)
  BY GetImagesAreImages DEF g
<1>5. ASSUME NEW a \in 1..Len(g) PROVE Own(g[a])
  <2>1. CASE g = <<>>
    BY <2>1
  <2>2. CASE x # NoImage /\ g = <<x>>
    BY <1>1, <2>2
  <2>3. CASE y # NoImage /\ g = <<y>>
    BY <1>1, <2>3
  <2>4. CASE x # NoImage /\ y # NoImage /\ (g = <<y, x>> \/ g = <<x, y>>)
    <3>1. a \in 1..2
      BY <2>4
    <3>2. a = 1 \/ a = 2
      BY <3>1
    <3> QED
      BY <1>1, <2>4, <3>2
  <2> QED
    BY <1>2, <2>1, <2>2, <2>3, <2>4
<1>6. ASSUME NEW a \in 1..Len(g), NEW b \in 1..Len(g), Updated[g[a]] > Updated[g[b]] PROVE a < b
  <2>0. Len(g) \in Nat /\ g[a] \in Images /\ g[b] \in Images
    BY <1>4, LenProperties
  <2>1. a # b
    BY <1>3, <1>6, <2>0
  <2>2. CASE g = <<>>
    BY <2>2
  <2>3. CASE g = <<x>> \/ g = <<y>>
    <3>1. Len(g) = 1
      BY <2>3
    <3> QED
      BY <2>1, <3>1
  <2>4. CASE Len(g) = 2 /\ x \in Images /\ y \in Images /\ Updated[y] > Updated[x] /\ g = <<y, x>>
    <3>1. g[1] = y /\ g[2] = x /\ Updated[x] \in Int /\ Updated[y] \in Int
      BY <1>3, <2>4
    <3>2. ~(a = 2 /\ b = 1)
      BY <1>6, <2>4, <3>1
    <3> QED
      BY <2>1, <2>4, <3>2
  <2>5. CASE Len(g) = 2 /\ ~(Updated[y] > Updated[x]) /\ g = <<x, y>>
    <3>1. g[1] = x /\ g[2] = y
      BY <2>5
    <3>2. ~(a = 2 /\ b = 1)
      BY <1>6, <2>5, <3>1
    <3> QED
      BY <2>1, <2>5, <3>2
  <2>6. \/ g = <<>> \/ g = <<x>> \/ g = <<y>>
        \/ x \in Images /\ y \in Images /\ Updated[y] > Updated[x] /\ g = <<y, x>>
        \/ ~(Updated[y] > Updated[x]) /\ g = <<x, y>>
    BY <1>1, <1>2
  <2>7. (g = <<y, x>> \/ g = <<x, y>>) => Len(g) = 2
    OBVIOUS
  <2> QED
    BY <2>2, <2>3, <2>4, <2>5, <2>6, <2>7
<1> QED
  BY <1>4, <1>5, <1>6 DEF g, Own

\* What is at a place of the list after images were added to it.
LEMMA Added ==
    ASSUME NEW T, NEW s \in Seq(T), NEW t \in Seq(T)
    PROVE  /\ Len(s) \in Nat /\ Len(t) \in Nat /\ Len(s \o t) = Len(s) + Len(t) /\ s \o t \in Seq(T)
           /\ \A k \in 1..Len(s \o t) :
                 \/ k \in 1..Len(s) /\ (s \o t)[k] = s[k]
                 \/ k - Len(s) \in 1..Len(t) /\ (s \o t)[k] = t[k - Len(s)]
<1>1. /\ s \o t \in Seq(T) /\ Len(s \o t) = Len(s) + Len(t)
      /\ \A k \in 1..Len(s) + Len(t) : (s \o t)[k] = IF k <= Len(s) THEN s[k] ELSE t[k - Len(s)]
  BY ConcatProperties
<1>2. Len(s) \in Nat /\ Len(t) \in Nat
  BY LenProperties
<1>3. ASSUME NEW k \in 1..Len(s \o t)
      PROVE  \/ k \in 1..Len(s) /\ (s \o t)[k] = s[k]
             \/ k - Len(s) \in 1..Len(t) /\ (s \o t)[k] = t[k - Len(s)]
  <2>1. k \in 1..Len(s) + Len(t)
    BY <1>1
  <2>2. CASE k <= Len(s)
    BY <1>1, <1>2, <2>1, <2>2
  <2>3. CASE ~(k <= Len(s))
    <3>1. k - Len(s) \in 1..Len(t)
      BY <1>2, <2>1, <2>3
    <3> QED
      BY <1>1, <2>1, <2>3, <3>1
  <2> QED
    BY <2>2, <2>3
<1> QED
  BY <1>1, <1>2, <1>3

\* Images that are of no ESXi partition do not disturb the order.
LEMMA OthersAdded ==
    ASSUME NEW s \in Seq(Images), NEW t \in Seq(Images),
           \A k \in 1..Len(t) : \A p \in Devs : BootCfg[p] # NoImage => t[k] # BootCfg[p]
    PROVE  \A k \in 1..Len(s \o t) : \A p \in Devs :
             (s \o t)[k] = BootCfg[p] => k \in 1..Len(s) /\ s[k] = BootCfg[p] /\ (s \o t)[k] = s[k]
<1> SUFFICES ASSUME NEW k \in 1..Len(s \o t), NEW p \in Devs, (s \o t)[k] = BootCfg[p]
             PROVE  k \in 1..Len(s) /\ s[k] = BootCfg[p] /\ (s \o t)[k] = s[k]
  OBVIOUS
<1>1. BootCfg[p] # NoImage
  <2>1. s \o t \in Seq(Images)
    BY ConcatProperties
  <2>2. (s \o t)[k] \in Images
    BY <2>1, LenProperties
  <2> QED
    BY <2>2, BootAssumption
<1>2. \/ k \in 1..Len(s) /\ (s \o t)[k] = s[k]
      \/ k - Len(s) \in 1..Len(t) /\ (s \o t)[k] = t[k - Len(s)]
  BY Added
<1> QED
  BY <1>1, <1>2

\* What a disk that is looked at adds keeps the order, and belongs to no other disk.
LEMMA DiskAdded ==
    ASSUME EsxiDistinct, images \in Seq(Images), NEW d \in Devs, NewestFirst,
           \A p \in Elems(Parts[d]) : \A j \in 1..Len(images) : images[j] # BootCfg[p],
           images' = images \o esxiImages(d)
    PROVE  /\ \A e \in Devs : \A p, q \in Elems(Parts[e]) : \A j, k \in 1..Len(images') :
                 images'[j] = BootCfg[p] /\ images'[k] = BootCfg[q] /\ Updated[images'[j]] > Updated[images'[k]] => j < k
           /\ \A e \in Devs : \A p \in Elems(Parts[e]) : \A j \in 1..Len(images') :
                 images'[j] = BootCfg[p] => e = d \/ (j \in 1..Len(images) /\ images[j] = BootCfg[p])
<1> DEFINE g == getImages(d)
           c == IF Cdrom[d] = NoImage THEN <<>> ELSE <<Cdrom[d]>>
           n == Len(images)
<1>1. esxiImages(d) = g \o c
  BY DEF esxiImages
<1>2. /\ g \in Seq(Images)
      /\ \A a \in 1..Len(g) : \E p \in Elems(Parts[d]) : p \in Devs /\ g[a] = BootCfg[p] /\ BootCfg[p] # NoImage
      /\ \A a, b \in 1..Len(g) : Updated[g[a]] > Updated[g[b]] => a < b
  BY GetImagesOrder
<1>3. c \in Seq(Images) /\ \A k \in 1..Len(c) : c[k] = Cdrom[d]
  <2>1. CASE Cdrom[d] = NoImage
    BY <2>1
  <2>2. CASE Cdrom[d] # NoImage
    <3>1. Cdrom[d] \in Images
      BY <2>2, BootAssumption
    <3> QED
      BY <2>2, <3>1
  <2> QED
    BY <2>1, <2>2
<1>4. \A e \in Devs : \A p \in Elems(Parts[e]) : p \in Devs
  BY PartsAreDevices
<1> HIDE DEF g, c
<1> DEFINE all == images \o g
<1>5. all \in Seq(Images) /\ Len(all) \in Nat /\ n \in Nat /\ images' = all \o c
  <2>1. images \o (g \o c) = (images \o g) \o c
    BY <1>2, <1>3, ConcatAssociative
  <2> QED
    BY <1>1, <1>2, <2>1, Added, LenProperties
\* An image of a partition is either old or one of the images of d.
<1>6. ASSUME NEW e \in Devs, NEW p \in Elems(Parts[e]), NEW j \in 1..Len(images'), images'[j] = BootCfg[p]
      PROVE  \/ j \in 1..n /\ images[j] = BootCfg[p] /\ images'[j] = images[j]
             \/ e = d /\ j - n \in 1..Len(g) /\ images'[j] = g[j - n]
  <2>1. p \in Devs
    BY <1>4
  <2>2. \A k \in 1..Len(c) : \A q \in Devs : BootCfg[q] # NoImage => c[k] # BootCfg[q]
    BY <1>3 DEF EsxiDistinct
  <2>3. j \in 1..Len(all) /\ all[j] = BootCfg[p]
    <3>1. j \in 1..Len(all \o c) /\ (all \o c)[j] = BootCfg[p]
      BY <1>5, <1>6
    <3> HIDE DEF all
    <3>2. \A k \in 1..Len(all \o c) : \A q \in Devs :
             (all \o c)[k] = BootCfg[q] => k \in 1..Len(all) /\ all[k] = BootCfg[q]
      BY <1>3, <1>5, <2>2, OthersAdded
    <3> QED
      BY <2>1, <3>1, <3>2
  <2>4. \/ j \in 1..n /\ all[j] = images[j]
        \/ j - n \in 1..Len(g) /\ all[j] = g[j - n]
    BY <1>2, <2>3, Added
  <2>5. CASE j - n \in 1..Len(g) /\ all[j] = g[j - n]
    <3>1. PICK q \in Elems(Parts[d]) : q \in Devs /\ g[j - n] = BootCfg[q] /\ BootCfg[q] # NoImage
      BY <1>2, <2>5
    <3>2. q = p
      BY <2>1, <2>3, <2>5, <3>1 DEF EsxiDistinct
    <3>3. e = d
      BY <3>1, <3>2 DEF EsxiDistinct
    <3> QED
      BY <1>6, <2>3, <2>5, <3>3
  <2> QED
    BY <1>6, <2>3, <2>4, <2>5
<1>7. ASSUME NEW e \in Devs, NEW p \in Elems(Parts[e]), NEW q \in Elems(Parts[e]),
             NEW j \in 1..Len(images'), NEW k \in 1..Len(images'),
             images'[j] = BootCfg[p], images'[k] = BootCfg[q], Updated[images'[j]] > Updated[images'[k]]
      PROVE  j < k
  <2>1. \/ j \in 1..n /\ images[j] = BootCfg[p] /\ images'[j] = images[j]
        \/ e = d /\ j - n \in 1..Len(g) /\ images'[j] = g[j - n]
    BY <1>6, <1>7
  <2>2. \/ k \in 1..n /\ images[k] = BootCfg[q] /\ images'[k] = images[k]
        \/ e = d /\ k - n \in 1..Len(g) /\ images'[k] = g[k - n]
    BY <1>6, <1>7
  <2>3. CASE e = d
    <3>1. j - n \in 1..Len(g) /\ images'[j] = g[j - n] /\ k - n \in 1..Len(g) /\ images'[k] = g[k - n]
      BY <2>1, <2>2, <2>3
    <3>2. j - n < k - n
      BY <1>2, <1>7, <3>1
    <3> QED
      BY <1>5, <3>2
  <2>4. CASE e # d
    BY <1>7, <2>1, <2>2, <2>4 DEF NewestFirst
  <2> QED
    BY <2>3, <2>4
<1> QED
  BY <1>6, <1>7

\* sort.Sort as an insertion sort leaves the images of a disk in their order: they all
\* have rank 0.
LEMMA SortKeepsOrder ==
    ASSUME images \in Seq(Images), NewestFirst, Len(images) <= InsertionLimit,
           NEW s \in SortByRank(images), Len(images') = Len(images),
           \A k \in 1..Len(images) : s[k] \in 1..Len(images) /\ images'[k] = images[s[k]]
    PROVE  NewestFirst'
<1>1. /\ Len(images) \in Nat /\ DOMAIN images = 1..Len(images)
      /\ \A k \in 1..Len(images) : images[k] \in Images
  BY LenProperties
<1>2. ASSUME NEW d \in Devs, NEW p \in Elems(Parts[d]), NEW q \in Elems(Parts[d]),
             NEW j \in 1..Len(images'), NEW k \in 1..Len(images'),
             images'[j] = BootCfg[p], images'[k] = BootCfg[q], Updated[images'[j]] > Updated[images'[k]]
      PROVE  j < k
  <2>1. /\ j \in 1..Len(images) /\ k \in 1..Len(images) /\ s[j] \in 1..Len(images) /\ s[k] \in 1..Len(images)
        /\ images[s[j]] = BootCfg[p] /\ images[s[k]] = BootCfg[q]
        /\ Updated[images[s[j]]] > Updated[images[s[k]]]
    BY <1>1, <1>2
  <2>2. s[j] < s[k]
    <3>1. PICK a \in 1..Len(images) : a = s[j]
      BY <2>1
    <3>2. PICK b \in 1..Len(images) : b = s[k]
      BY <2>1
    <3>3. images[a] = BootCfg[p] /\ images[b] = BootCfg[q] /\ Updated[images[a]] > Updated[images[b]]
      BY <2>1, <3>1, <3>2
    <3>4. a < b
      BY <3>3 DEF NewestFirst
    <3> QED
      BY <3>1, <3>2, <3>4
  <2>3. ~(k < j)
    <3>1. p \in Devs /\ q \in Devs
      BY PartsAreDevices
    <3>2. Rank[images[s[j]]] = 0 /\ Rank[images[s[k]]] = 0
      BY <1>1, <2>1, <3>1, BootAssumption
    <3>3. ~Less(images, s[k], s[j])
      BY <3>2 DEF Less
    <3>4. k < j => s[k] < s[j]
      BY <1>1, <2>1, <3>3 DEF SortByRank
    <3> QED
      BY <1>1, <2>1, <2>2, <3>4
  <2>4. j # k
    BY <1>1, <2>1, <2>2
  <2> QED
    BY <1>1, <2>1, <2>3, <2>4
<1>3. \A d \in Devs : \A p, q \in Elems(Parts[d]) : \A j, k \in 1..Len(images') :
        images'[j] = BootCfg[p] /\ images'[k] = BootCfg[q] /\ Updated[images'[j]] > Updated[images'[k]] => j < k
  BY <1>2
<1> QED
  BY <1>3 DEF NewestFirst

\* A step after which there are the same images.
LEMMA EsxiSame ==
    ASSUME EsxiInv, UNCHANGED <<images, devices>>, todo' \subseteq todo, pc \in Searching <=> pc' \in Searching,
           pc' # "start" \/ pc' = pc
    PROVE  EsxiInv'
<1>1. NewestFirst => NewestFirst'
  BY DEF NewestFirst
<1> QED
  BY <1>1 DEF EsxiInv

\* "The kernels are returned in the priority order": the menu has the ESXi images of a
\* disk in the order of getImages, for any number of disks and other images, as long as
\* sort.Sort is an insertion sort.
THEOREM KeepsEsxiOrder ==
    ASSUME EsxiDistinct
    PROVE  BootSpec => []EsxiOrderKept
<1>1. BootInit => EsxiInv
  <2> SUFFICES ASSUME BootInit PROVE EsxiInv
    OBVIOUS
  <2>1. images = <<>> /\ todo = {} /\ devices = {}
    BY DEF BootInit
  <2>2. Len(images) = 0
    BY <2>1
  <2> QED
    BY <2>1, <2>2 DEF EsxiInv, NewestFirst
<1>2. MenuInv /\ EsxiInv /\ [BootNext]_vars => EsxiInv'
  <2> SUFFICES ASSUME MenuInv, EsxiInv, [BootNext]_vars PROVE EsxiInv'
    OBVIOUS
  <2>0. images \in Seq(Images)
    BY DEF MenuInv, MenuTypeOK
  <2>1. CASE GetBlockDevices
    <3>1. pc = "start" /\ UNCHANGED images /\ pc' \in {"fatal", "scan"} /\ Len(images) = 0
      BY <2>1 DEF GetBlockDevices, EsxiInv
    <3>2. todo' \subseteq devices' /\ devices' \subseteq Devs
      BY <2>1 DEF GetBlockDevices, EsxiInv
    <3>3. pc' \in Searching
      BY <3>1 DEF Searching
    <3>4. NewestFirst'
      BY <3>1 DEF NewestFirst
    <3> QED
      BY <3>1, <3>2, <3>3, <3>4 DEF EsxiInv
  <2>2. CASE ParseDone \/ (\E d \in Devs : ScanFails(d) \/ GrubSearch(d))
    <3>1. /\ pc \in {"scan", "parse"} /\ pc' \in {"scan", "parse"} /\ UNCHANGED <<images, devices>> /\ todo' \subseteq todo
      BY <2>2 DEF ParseDone, ScanFails, GrubSearch
    <3>2. pc \in Searching /\ pc' \in Searching /\ pc' # "start"
      BY <3>1 DEF Searching
    <3> QED
      BY <3>1, <3>2, EsxiSame
  <2>3. ASSUME NEW d \in Devs, ScanUnmounted(d) PROVE EsxiInv'
    <3>1. /\ pc = "scan" /\ pc' = "scan" /\ UNCHANGED devices /\ d \in todo /\ todo' = todo \ {d}
          /\ images' = images \o esxiImages(d) /\ pc \in Searching
      BY <2>3 DEF ScanUnmounted, Searching
    <3>2. /\ NewestFirst
          /\ \A e \in todo : \A p \in Elems(Parts[e]) : \A j \in 1..Len(images) : images[j] # BootCfg[p]
          /\ todo \subseteq Devs
      BY <3>1 DEF EsxiInv
    <3>3. /\ \A e \in Devs : \A p, q \in Elems(Parts[e]) : \A j, k \in 1..Len(images') :
                 images'[j] = BootCfg[p] /\ images'[k] = BootCfg[q] /\ Updated[images'[j]] > Updated[images'[k]] => j < k
          /\ \A e \in Devs : \A p \in Elems(Parts[e]) : \A j \in 1..Len(images') :
                 images'[j] = BootCfg[p] => e = d \/ (j \in 1..Len(images) /\ images[j] = BootCfg[p])
      BY <2>0, <3>1, <3>2, DiskAdded
    <3>4. \A e \in todo' : \A p \in Elems(Parts[e]) : \A j \in 1..Len(images') : images'[j] # BootCfg[p]
      BY <3>1, <3>2, <3>3
    <3>5. NewestFirst'
      BY <3>3 DEF NewestFirst
    <3> QED
      BY <3>1, <3>2, <3>4, <3>5 DEF EsxiInv
  <2>4. ASSUME NEW d \in Devs, ScanMounted(d) PROVE EsxiInv'
    <3>1. /\ pc \in Searching /\ pc' \in Searching /\ pc' # "start" /\ UNCHANGED devices /\ todo' = todo \ {d}
          /\ images' = images \o Config[d]
      BY <2>4 DEF ScanMounted, Searching
    <3>2. Config[d] \in Seq(Images) /\ DOMAIN Config[d] = 1..Len(Config[d])
      BY BootAssumption, LenProperties
    <3>3. \A k \in 1..Len(images') : \A p \in Devs :
             images'[k] = BootCfg[p] => k \in 1..Len(images) /\ images[k] = BootCfg[p] /\ images'[k] = images[k]
      <4>1. \A k \in 1..Len(Config[d]) : \A p \in Devs : BootCfg[p] # NoImage => Config[d][k] # BootCfg[p]
        BY <3>2 DEF EsxiDistinct
      <4>2. \A k \in 1..Len(images \o Config[d]) : \A p \in Devs :
               (images \o Config[d])[k] = BootCfg[p] =>
                  k \in 1..Len(images) /\ images[k] = BootCfg[p] /\ (images \o Config[d])[k] = images[k]
        BY <2>0, <3>2, <4>1, OthersAdded
      <4> QED
        BY <3>1, <4>2
    <3>4. \A e \in Devs : \A p \in Elems(Parts[e]) : p \in Devs
      BY PartsAreDevices
    <3>5. NewestFirst /\ todo \subseteq Devs
      BY <3>1 DEF EsxiInv
    <3>6. ASSUME NEW e \in Devs, NEW p \in Elems(Parts[e]), NEW q \in Elems(Parts[e]),
                 NEW j \in 1..Len(images'), NEW k \in 1..Len(images'),
                 images'[j] = BootCfg[p], images'[k] = BootCfg[q], Updated[images'[j]] > Updated[images'[k]]
          PROVE  j < k
      <4>1. /\ j \in 1..Len(images) /\ images[j] = BootCfg[p] /\ images'[j] = images[j]
            /\ k \in 1..Len(images) /\ images[k] = BootCfg[q] /\ images'[k] = images[k]
        BY <3>3, <3>4, <3>6
      <4> QED
        BY <3>5, <3>6, <4>1 DEF NewestFirst
    <3>7. NewestFirst'
      BY <3>6 DEF NewestFirst
    <3>8. \A e \in todo' : \A p \in Elems(Parts[e]) : \A j \in 1..Len(images') : images'[j] # BootCfg[p]
      BY <3>1, <3>3, <3>4, <3>5 DEF EsxiInv
    <3> QED
      BY <3>1, <3>7, <3>8 DEF EsxiInv
  <2>5. CASE ShowImages
    <3>1. pc \in Searching /\ pc' \notin Searching /\ pc' # "start" /\ UNCHANGED <<devices, todo>>
      BY <2>5 DEF ShowImages, Searching
    <3>2. PICK s \in SortByRank(images) : images' = [k \in DOMAIN images |-> images[s[k]]]
      BY <2>5 DEF ShowImages
    <3>3. /\ Len(images') = Len(images)
          /\ \A k \in 1..Len(images) : s[k] \in 1..Len(images) /\ images'[k] = images[s[k]]
      BY <2>0, <3>2, SortFacts
    <3>4. Len(images') <= InsertionLimit => NewestFirst'
      <4>1. NewestFirst
        BY <3>1 DEF EsxiInv
      <4> QED
        BY <2>0, <3>3, <4>1, SortKeepsOrder
    <3> QED
      BY <3>1, <3>4 DEF EsxiInv
  <2>6. CASE OpenTty \/ Expire \/ ReadFails \/ LoadChosen \/ LoadDefault \/ CleanUp \/ Exec \/ UserTypes
    <3>1. UNCHANGED <<images, devices, todo>>
      <4>1. CASE OpenTty \/ Expire \/ CleanUp \/ Exec
        BY <4>1 DEF OpenTty, Expire, CleanUp, Exec
      <4>2. CASE ReadFails
        BY <4>2 DEF ReadFails, Types
      <4>3. CASE LoadChosen \/ LoadDefault
        BY <4>3 DEF LoadChosen, LoadDefault, Frame
      <4>4. CASE UserTypes
        BY <4>4 DEF UserTypes, ChooseEntry, EditEntry, BadLine, TakeDefault, StartEdit, EditOption, EnterText, Types
      <4> QED
        BY <2>6, <4>1, <4>2, <4>3, <4>4
    <3>2. pc \notin Searching /\ pc' \notin Searching
      <4>1. CASE OpenTty \/ Expire \/ CleanUp \/ Exec
        BY <4>1 DEF OpenTty, Expire, CleanUp, Exec, Searching, Prompts
      <4>2. CASE ReadFails
        BY <4>2 DEF ReadFails, Searching, Prompts
      <4>3. CASE LoadChosen \/ LoadDefault
        BY <4>3 DEF LoadChosen, LoadDefault, Searching
      <4>4. CASE UserTypes
        BY <4>4 DEF UserTypes, ChooseEntry, EditEntry, BadLine, TakeDefault, StartEdit, EditOption, EnterText, Types, Searching
      <4> QED
        BY <2>6, <4>1, <4>2, <4>3, <4>4
    <3>3. pc' # "start"
      BY <3>2 DEF Searching
    <3> QED
      BY <3>1, <3>2, <3>3, EsxiSame
  <2>7. CASE Stopped \/ UNCHANGED vars
    <3>1. UNCHANGED <<images, devices, todo, pc>>
      BY <2>7 DEF Stopped, vars
    <3> QED
      BY <3>1, EsxiSame
  <2> QED
    BY <2>1, <2>2, <2>3, <2>4, <2>5, <2>6, <2>7 DEF BootNext, Program
<1>3. MenuInv /\ EsxiInv => EsxiOrderKept
  <2> SUFFICES ASSUME MenuInv, EsxiInv, pc \in Prompts \cup {"default"}, Len(images) <= InsertionLimit,
                      NEW d \in devices, NEW p \in Elems(Parts[d]), NEW q \in Elems(Parts[d]),
                      NEW j \in DOMAIN images, NEW k \in DOMAIN images,
                      images[j] = BootCfg[p], images[k] = BootCfg[q], Updated[images[j]] > Updated[images[k]]
               PROVE  j < k
    BY DEF EsxiOrderKept
  <2>1. pc \notin Searching
    BY DEF Prompts, Searching
  <2>2. NewestFirst /\ d \in Devs
    BY <2>1 DEF EsxiInv
  <2>3. j \in 1..Len(images) /\ k \in 1..Len(images)
    BY LenProperties DEF MenuInv, MenuTypeOK
  <2> QED
    BY <2>2, <2>3 DEF NewestFirst
<1> QED
  BY <1>1, <1>2, <1>3, MenuInvariance, PTL DEF BootSpec

=============================================================================
