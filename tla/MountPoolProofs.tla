-------------------------- MODULE MountPoolProofs ---------------------------
(***************************************************************************)
(* The mount pool keeps track of everything, for any devices.              *)
(***************************************************************************)
EXTENDS MountPool, TLAPS

\* Where the pool mounts is its present temporary directory.
MountedInTmpDir == (tmpDir # 0 => tmpDir \in tmps) /\ \A m \in mounted : m.dir \in {0, tmpDir}

PoolInv == PoolTypeOK /\ NothingForgotten /\ MountedInTmpDir

\* The two properties of a step.
LeakReported ==
    \A t \in (tmps' \ {tmpDir'}) \ (tmps \ {tmpDir}) :
        /\ ret'.op = "UnmountAll" /\ ret'.err
        /\ \A m \in mounted' : m.dir # t
CleanIfNil ==
    ret'.op = "UnmountAll" =>
        /\ mounted' \subseteq ret'.named
        /\ ~ret'.err => mounted' = {} /\ tmpDir \notin tmps' /\ \A m \in dirs' : m.dir = 0 \/ m.dir # tmpDir

\* The directory that Mount works in.
LEMMA EnsureTmpDirFacts ==
    ASSUME PoolInv, NEW n \in 1..MaxTmp, EnsureTmpDir(n)
    PROVE  /\ tmpDir' = n /\ made' \in 0..MaxTmp /\ tmps' = tmps \cup {n} /\ tmps' \subseteq 1..MaxTmp
           /\ tmpDir # 0 => n = tmpDir
<1>1. tmpDir' = n /\ tmps' = tmps \cup {n} /\ tmps \subseteq 1..MaxTmp /\ made \in 0..MaxTmp
  BY DEF EnsureTmpDir, PoolInv, PoolTypeOK
<1>2. made' \in {made, n} /\ n \in 0..MaxTmp
  BY MountPoolAssumption DEF EnsureTmpDir
<1>3. tmpDir # 0 => n = tmpDir
  BY DEF EnsureTmpDir
<1> QED
  BY <1>1, <1>2, <1>3

\* Mount keeps the invariant and leaks nothing, whether it finds, makes or misses the
\* mount.  Only if there was no temporary directory can p.tmpDir become another one, and
\* then nothing of the pool is mounted.
LEMMA MountStep ==
    ASSUME PoolInv, NEW d \in Devs, MountKnown(d) \/ MountNew(d) \/ MountFails(d)
    PROVE  PoolInv' /\ LeakReported /\ CleanIfNil
<1>. PICK err \in BOOLEAN : ret' = [op |-> "Mount", err |-> err, named |-> {}]
  BY DEF MountKnown, MountNew, MountFails, Returned
<1>0. ret'.op = "Mount" /\ ret' \in [op : {"none", "Mount", "Add", "UnmountAll"}, err : BOOLEAN, named : SUBSET Points]
  OBVIOUS
<1>1. CASE MountKnown(d)
  BY <1>0, <1>1 DEF MountKnown, PoolInv, PoolTypeOK, NothingForgotten, MountedInTmpDir, LeakReported, CleanIfNil
<1>2. CASE MountNew(d)
  <2>1. PICK n \in 1..MaxTmp :
          /\ EnsureTmpDir(n)
          /\ MountPoints' = MountPoints \cup {[dev |-> d, dir |-> n]}
          /\ mounted' = mounted \cup {[dev |-> d, dir |-> n]}
          /\ dirs' = dirs \cup {[dev |-> d, dir |-> n]}
    BY <1>2 DEF MountNew
  <2>2. [dev |-> d, dir |-> n] \in Points
    BY MountPoolAssumption DEF Points
  <2>3. /\ tmpDir' = n /\ made' \in 0..MaxTmp /\ tmps' = tmps \cup {n} /\ tmps' \subseteq 1..MaxTmp
        /\ tmpDir # 0 => n = tmpDir
    BY <2>1, EnsureTmpDirFacts
  <2>4. PoolTypeOK'
    BY <1>0, <2>1, <2>2, <2>3, MountPoolAssumption DEF PoolInv, PoolTypeOK
  <2>5. NothingForgotten' /\ MountedInTmpDir'
    BY <2>1, <2>3 DEF PoolInv, NothingForgotten, MountedInTmpDir
  <2>6. LeakReported /\ CleanIfNil
    BY <1>0, <2>3 DEF LeakReported, CleanIfNil
  <2> QED
    BY <2>4, <2>5, <2>6 DEF PoolInv
<1>3. CASE MountFails(d)
  <2>1. UNCHANGED <<MountPoints, mounted>>
    BY <1>3 DEF MountFails
  <2>2. CASE UNCHANGED <<tmpDir, tmps, made, dirs>>
    BY <1>0, <2>1, <2>2 DEF PoolInv, PoolTypeOK, NothingForgotten, MountedInTmpDir, LeakReported, CleanIfNil
  <2>3. CASE \E n \in 1..MaxTmp :
               /\ EnsureTmpDir(n)
               /\ \/ dirs' = dirs \ {[dev |-> d, dir |-> n]}
                  \/ d \in Stubborn /\ dirs' = dirs \cup {[dev |-> d, dir |-> n]}
    <3>1. PICK n \in 1..MaxTmp :
            /\ EnsureTmpDir(n)
            /\ \/ dirs' = dirs \ {[dev |-> d, dir |-> n]}
               \/ d \in Stubborn /\ dirs' = dirs \cup {[dev |-> d, dir |-> n]}
      BY <2>3
    <3>2. [dev |-> d, dir |-> n] \in Points
      BY MountPoolAssumption DEF Points
    <3>3. /\ tmpDir' = n /\ made' \in 0..MaxTmp /\ tmps' = tmps \cup {n} /\ tmps' \subseteq 1..MaxTmp
          /\ tmpDir # 0 => n = tmpDir
      BY <3>1, EnsureTmpDirFacts
    <3>4. PoolTypeOK'
      BY <1>0, <2>1, <3>1, <3>2, <3>3, MountPoolAssumption DEF PoolInv, PoolTypeOK
    <3>5. NothingForgotten' /\ MountedInTmpDir'
      BY <2>1, <3>3 DEF PoolInv, NothingForgotten, MountedInTmpDir
    <3>6. LeakReported /\ CleanIfNil
      BY <1>0, <3>3 DEF LeakReported, CleanIfNil
    <3> QED
      BY <3>4, <3>5, <3>6 DEF PoolInv
  <2> QED
    BY <1>3, <2>2, <2>3 DEF MountFails
<1> QED
  BY <1>1, <1>2, <1>3

\* Add keeps it.
LEMMA AddStep == ASSUME PoolInv, NEW S \in SUBSET Devs, Add(S) PROVE PoolInv' /\ LeakReported /\ CleanIfNil
<1> DEFINE ms == [dev : S, dir : {0}]
<1>1. ms \subseteq Points /\ \A m \in ms : m.dir = 0
  BY MountPoolAssumption DEF Points
<1>2. /\ MountPoints' = MountPoints \cup ms /\ mounted' = mounted \cup ms /\ dirs' = dirs \cup ms
      /\ ret' = [op |-> "Add", err |-> FALSE, named |-> {}]
      /\ UNCHANGED <<tmpDir, tmps, made>>
  BY DEF Add, Returned
<1> HIDE DEF ms
<1> QED
  BY <1>1, <1>2 DEF PoolInv, PoolTypeOK, NothingForgotten, MountedInTmpDir, LeakReported, CleanIfNil

\* UnmountAll keeps it, whatever the kernel refuses: if nothing failed, everything on the
\* list was mounted, so that nothing is mounted when p.tmpDir is emptied.
LEMMA UnmountAllStep ==
    ASSUME PoolInv, SomeUnmountAll
    PROVE  PoolInv' /\ LeakReported /\ CleanIfNil /\ ret'.op = "UnmountAll"
<1>1. PICK refused \in SUBSET Refusable(MountPoints \cap mounted), kept \in SUBSET Refusable(MountPoints) :
          UnmountAll(refused, kept)
  BY DEF SomeUnmountAll
<1> DEFINE failed == CannotUnmount(refused)
           empty == \A m \in dirs' : m.dir # tmpDir
<1>2. /\ mounted' = mounted \ (MountPoints \ failed) /\ dirs' \subseteq dirs
      /\ UNCHANGED <<MountPoints, made>>
  BY <1>1 DEF UnmountAll, RemoveDirs
<1>3. failed \subseteq MountPoints /\ mounted' \subseteq failed /\ MountPoints \subseteq Points
  BY <1>2 DEF PoolInv, PoolTypeOK, NothingForgotten, CannotUnmount, Refusable
<1>4. \E err \in BOOLEAN : ret' = [op |-> "UnmountAll", err |-> err, named |-> failed]
  BY <1>1 DEF UnmountAll
<1>5. \/ UNCHANGED <<tmps, tmpDir>> /\ (failed # {} \/ tmpDir = 0) /\ ret'.err = (failed # {})
      \/ failed = {} /\ tmpDir # 0 /\ empty /\ tmps' = tmps \ {tmpDir} /\ tmpDir' = 0 /\ ret'.err = FALSE
      \/ failed = {} /\ tmpDir # 0 /\ UNCHANGED tmps /\ tmpDir' = 0 /\ ret'.err = TRUE
  BY <1>1 DEF UnmountAll
<1> HIDE DEF failed, empty
<1>6. PoolTypeOK'
  <2>1. tmps' \subseteq tmps /\ tmpDir' \in {tmpDir, 0}
    BY <1>5
  <2>2. tmps' \subseteq 1..MaxTmp /\ tmpDir' \in 0..MaxTmp
    BY <2>1, MountPoolAssumption DEF PoolInv, PoolTypeOK
  <2>3. made' \in 0..MaxTmp /\ mounted' \subseteq Points /\ dirs' \subseteq Points /\ MountPoints' \subseteq Points
    BY <1>2, <1>3 DEF PoolInv, PoolTypeOK
  <2>4. failed \in SUBSET Points
    BY <1>3
  <2>5. ret' \in [op : {"none", "Mount", "Add", "UnmountAll"}, err : BOOLEAN, named : SUBSET Points]
    BY <1>4, <2>4
  <2> QED
    BY <2>2, <2>3, <2>5 DEF PoolTypeOK
<1>7. NothingForgotten' /\ MountedInTmpDir'
  BY <1>2, <1>3, <1>5 DEF PoolInv, NothingForgotten, MountedInTmpDir
<1>8. LeakReported
  BY <1>3, <1>4, <1>5 DEF LeakReported
<1>9. CleanIfNil
  <2>1. 0 \notin tmps
    BY MountPoolAssumption DEF PoolInv, PoolTypeOK
  <2>2. mounted' \subseteq ret'.named
    BY <1>3, <1>4
  <2>3. ASSUME ~ret'.err
        PROVE  mounted' = {} /\ tmpDir \notin tmps' /\ \A m \in dirs' : m.dir = 0 \/ m.dir # tmpDir
    <3>1. CASE UNCHANGED <<tmps, tmpDir>> /\ (failed # {} \/ tmpDir = 0) /\ ret'.err = (failed # {})
      BY <1>3, <2>1, <2>3, <3>1
    <3>2. CASE failed = {} /\ tmpDir # 0 /\ empty /\ tmps' = tmps \ {tmpDir}
      BY <1>3, <3>2 DEF empty
    <3> QED
      BY <1>5, <2>3, <3>1, <3>2
  <2> QED
    BY <2>2, <2>3 DEF CleanIfNil
<1> QED
  BY <1>4, <1>6, <1>7, <1>8, <1>9 DEF PoolInv

\* Every step keeps the invariant and has both properties.
LEMMA PoolSteps ==
    /\ PoolInit => PoolInv
    /\ PoolInv /\ [PoolNext]_poolVars => PoolInv' /\ [LeakReported]_poolVars /\ [CleanIfNil]_poolVars
<1>1. PoolInit => PoolInv
  BY MountPoolAssumption DEF PoolInit, PoolInv, PoolTypeOK, NothingForgotten, MountedInTmpDir, NoCall
<1>2. ASSUME PoolInv, [PoolNext]_poolVars PROVE PoolInv' /\ [LeakReported]_poolVars /\ [CleanIfNil]_poolVars
  <2>1. CASE \E d \in Devs : MountKnown(d) \/ MountNew(d) \/ MountFails(d)
    BY <1>2, <2>1, MountStep
  <2>2. CASE \E S \in SUBSET Devs : Add(S)
    BY <1>2, <2>2, AddStep
  <2>3. CASE SomeUnmountAll
    BY <1>2, <2>3, UnmountAllStep
  <2>4. CASE UNCHANGED poolVars
    BY <1>2, <2>4 DEF poolVars, PoolInv, PoolTypeOK, NothingForgotten, MountedInTmpDir
  <2> QED
    BY <1>2, <2>1, <2>2, <2>3, <2>4 DEF PoolNext
<1> QED
  BY <1>1, <1>2

\* PoolInv is an invariant of the pool.
THEOREM PoolInvariance == PoolSpec => []PoolInv
  BY PoolSteps, PTL DEF PoolSpec

\* Every mount of the pool stays reachable for UnmountAll (Mount, Add, UnmountAll).
THEOREM PoolCleansUp == PoolSpec => []NothingForgotten
<1>1. PoolInv => NothingForgotten
  BY DEF PoolInv
<1> QED
  BY <1>1, PoolInvariance, PTL

\* The error of UnmountAll names what is still mounted, and nil means that all of it has
\* gone with the temporary directory, although the errors of the directories below
\* are ignored: what they leave behind keeps the temporary directory from going.
THEOREM NilIsClean == PoolSpec => NilMeansClean
<1>1. PoolSpec => [][CleanIfNil]_poolVars
  BY PoolSteps, PTL DEF PoolSpec
<1> QED
  BY <1>1 DEF NilMeansClean, CleanIfNil

\* p.tmpDir, which is emptied also when the directory could not be removed, is never
\* emptied without an error and never while something is mounted there.
THEOREM PoolReportsLeaks == PoolSpec => LeaksAreReported
<1>1. PoolSpec => [][LeakReported]_poolVars
  BY PoolSteps, PTL DEF PoolSpec
<1> QED
  BY <1>1 DEF LeaksAreReported, LeakReported

=============================================================================
