--------------------------- MODULE LockfileProofs ---------------------------
(***************************************************************************)
(* Safety of the file lock for every set of processes.                     *)
(***************************************************************************)
EXTENDS Lockfile, TLAPS

AllAlive == \A p \in Procs : Alive(p)

\* A process between pidfile() and the return of its TryLock or Lock.
InLock(p) == op[p] # "Unlock" /\ pc[p] \notin {"idle", "dead"}

\* The lock path leads to the pid of p: in a pid file, or in a file that is no link.
Linked(p) == link = p \/ (link \in files /\ Owner(link) = p)

\* The pid file of a call in progress is there, and nothing in the system
\* leads to it: it is not linked and nobody took its name from the link.
PidfileInv ==
    \A p \in Procs : InLock(p) =>
        /\ mine[p] \in files
        /\ Owner(mine[p]) = p
        /\ mine[p] # link
        /\ \A q \in Procs : mine[p] # target[q]

PathInv ==
    \A p \in Procs :
        /\ pc[p] \in {"symlink", "cleanup"} => op[p] # "Unlock"
        /\ pc[p] = "nuke" => op[p] = "Unlock"
        /\ op[p] = "Unlock" => ~holds[p]
        /\ pc[p] \in {"rmtarget", "rmlink"} => target[p] \in PidFiles

\* What each process may rely on while nobody has disappeared.
HolderInv(p) == holds[p] => Linked(p)

ProbeInv(p) == pc[p] = "probe" /\ seen[p] = p => Linked(p)

StealInv(p) ==
    op[p] # "Unlock" =>
        /\ pc[p] = "readlink" => link = Foreign
        /\ pc[p] \notin {"rmtarget", "rmlink"}

UnlockInv(p) ==
    op[p] = "Unlock" =>
        /\ pc[p] \in {"readlink", "nuke"} => Linked(p)
        /\ pc[p] = "rmtarget" => Linked(p) /\ target[p] = link
        /\ pc[p] = "rmlink" => link \in PidFiles /\ Owner(link) = p
        /\ held[p] /\ pc[p] = "check" => Linked(p)
        /\ held[p] /\ pc[p] = "probe" => seen[p] = p
        /\ held[p] /\ pc[p] = "idle" => res[p] # "rogue"

LiveInv == \A p \in Procs : HolderInv(p) /\ ProbeInv(p) /\ StealInv(p) /\ UnlockInv(p)

IInv == TypeOK /\ PidfileInv /\ PathInv /\ (AllAlive => LiveInv)

-----------------------------------------------------------------------------

\* What the control flow between two system calls of p can do, in general:
\* pc, again, res and holds change for p only, and within their types.
ControlStep(p) ==
    /\ pc' \in [Procs -> Points]
    /\ again' \in [Procs -> BOOLEAN]
    /\ res' \in [Procs -> Results]
    /\ holds' \in [Procs -> BOOLEAN]
    /\ \A q \in Procs \ {p} :
         pc'[q] = pc[q] /\ res'[q] = res[q] /\ holds'[q] = holds[q]

\* Goto, Return and Exit are control steps.
LEMMA BasicControl ==
    ASSUME TypeOK, NEW p \in Procs
    PROVE  /\ \A x \in Points : Goto(p, x) => ControlStep(p)
           /\ \A r \in Results : Return(p, r) => ControlStep(p)
           /\ Exit(p) => ControlStep(p)
<1> USE DEF TypeOK, ControlStep
<1>1. ASSUME NEW x \in Points, Goto(p, x) PROVE ControlStep(p)
  BY <1>1 DEF Goto
<1>2. ASSUME NEW r \in Results, Return(p, r) PROVE ControlStep(p)
  BY <1>2 DEF Return, Points
<1>3. ASSUME Exit(p) PROVE ControlStep(p)
  BY <1>3 DEF Exit, Points
<1> QED
  BY <1>1, <1>2, <1>3

\* What lockWith's result makes TryLock and Lock do.
LEMMA LockWithControl ==
    ASSUME TypeOK, NEW p \in Procs, NEW r \in Results, LockWithReturns(p, r)
    PROVE  /\ ControlStep(p)
           /\ pc'[p] \in {"idle", "symlink", "cleanup"}
           /\ r # "nil" => holds' = holds
           /\ r = "nil" => pc'[p] = "idle"
<1> USE DEF TypeOK
<1>1. CASE CallerNoCleanup(p, r) /\ Return(p, r)
  <2>1. ControlStep(p)
    BY <1>1, BasicControl
  <2>2. r # "nil" => holds' = holds
    BY <1>1 DEF Return
  <2> QED
    BY <1>1, <2>1, <2>2 DEF Return
<1>2. CASE /\ ~CallerNoCleanup(p, r) /\ op[p] = "Lock" /\ r = "busy"
           /\ pc' = [pc EXCEPT ![p] = "symlink"]
           /\ again' = [again EXCEPT ![p] = TRUE]
           /\ UNCHANGED <<res, holds>>
  BY <1>2 DEF ControlStep, Points
<1>3. CASE /\ ~CallerNoCleanup(p, r) /\ ~(op[p] = "Lock" /\ r = "busy")
           /\ pc' = [pc EXCEPT ![p] = "cleanup"]
           /\ res' = [res EXCEPT ![p] = r]
           /\ UNCHANGED <<again, holds>>
  BY <1>3 DEF ControlStep, Points, CallerNoCleanup
<1> QED
  BY <1>1, <1>2, <1>3 DEF LockWithReturns

\* What checkLockfile's result makes lockWith do.
LEMMA CheckControlLock ==
    ASSUME TypeOK, NEW p \in Procs, op[p] # "Unlock",
           NEW c \in {"nil", "unlocked", "invalid", "dead", "busy", "error"}, CheckReturns(p, c)
    PROVE  /\ ControlStep(p)
           /\ pc'[p] \in {"idle", "symlink", "cleanup", "readlink"}
           /\ c # "nil" => holds' = holds
           /\ pc'[p] = "readlink" => c \in {"invalid", "dead"}
<1> USE DEF TypeOK
<1>1. CASE c = "unlocked" /\ Goto(p, "symlink")
  BY <1>1, BasicControl DEF Goto, Points
<1>2. CASE c \in {"invalid", "dead"} /\ Goto(p, "readlink")
  BY <1>2, BasicControl DEF Goto, Points
<1>3. CASE c \in {"nil", "busy", "error"} /\ LockWithReturns(p, c)
  BY <1>3, LockWithControl DEF Results
<1> QED
  BY <1>1, <1>2, <1>3 DEF CheckReturns

\* What checkLockfile's result makes Unlock do.
LEMMA CheckControlUnlock ==
    ASSUME TypeOK, NEW p \in Procs, op[p] = "Unlock",
           NEW c \in {"nil", "unlocked", "invalid", "dead", "busy", "error"}, CheckReturns(p, c)
    PROVE  /\ ControlStep(p)
           /\ holds' = holds
           /\ c = "nil" => pc'[p] = "readlink"
           /\ c # "nil" => pc'[p] = "idle"
           /\ c = "error" => res'[p] = "error"
<1> USE DEF TypeOK
<1>1. CASE c = "nil" /\ Goto(p, "readlink")
  BY <1>1, BasicControl DEF Goto, Points
<1>2. CASE c \notin {"nil", "error"} /\ Return(p, "rogue")
  BY <1>2, BasicControl DEF Return, Results
<1>3. CASE c = "error" /\ Return(p, "error")
  BY <1>3, BasicControl DEF Return, Results
<1> QED
  BY <1>1, <1>2, <1>3 DEF CheckReturns

\* What a system call that fails for its own reasons leads to.
LEMMA FailsControl ==
    ASSUME TypeOK, NEW p \in Procs, Fails(p)
    PROVE  /\ ControlStep(p)
           /\ holds' = holds
           /\ op[p] = "Unlock" => pc'[p] = "idle" /\ res'[p] = "error"
           /\ op[p] # "Unlock" => pc'[p] \in {"idle", "symlink", "cleanup"}
<1> USE DEF TypeOK
<1>1. CASE op[p] = "Unlock"
  BY <1>1, BasicControl DEF Fails, Return, Results
<1>2. CASE op[p] # "Unlock"
  BY <1>2, LockWithControl DEF Fails, Results
<1> QED
  BY <1>1, <1>2

-----------------------------------------------------------------------------
(***************************************************************************)
(* The inductive invariant: one lemma per action.                          *)
(***************************************************************************)

\* checkLockfile probes the pid that it read.
LEMMA ProbeStep ==
    ASSUME IInv, NEW p \in Procs, Probe(p)
    PROVE  IInv'
<1> USE LockfileAssumption DEF IInv, TypeOK, Regular
<1>1. pc[p] = "probe" /\ UNCHANGED <<link, files, op, mine, target, seen, held>>
  BY DEF Probe
<1>2. /\ ControlStep(p)
      /\ op[p] # "Unlock" => pc'[p] \in {"idle", "symlink", "cleanup", "readlink"}
      /\ op[p] = "Unlock" => pc'[p] \in {"idle", "readlink"} /\ holds' = holds
  BY CheckControlLock, CheckControlUnlock DEF Probe
<1>3. AllAlive =>
         /\ seen[p] # p => holds' = holds
         /\ op[p] # "Unlock" => pc'[p] # "readlink"
         /\ op[p] = "Unlock" /\ seen[p] = p => pc'[p] = "readlink"
         /\ op[p] = "Unlock" /\ seen[p] # p => pc'[p] = "idle"
  BY CheckControlLock, CheckControlUnlock DEF Probe, AllAlive, Alive
<1>4. TypeOK'
  BY <1>1, <1>2, <1>3 DEF ControlStep
<1>5. PidfileInv'
  BY <1>1, <1>2, <1>3 DEF ControlStep, PidfileInv, InLock
<1>6. PathInv'
  BY <1>1, <1>2, <1>3 DEF ControlStep, PathInv
<1>7. ASSUME AllAlive' PROVE LiveInv'
  <2>1. AllAlive /\ LiveInv
    BY <1>1, <1>2, <1>3, <1>7 DEF AllAlive, Alive, ControlStep, Probe
  <2> QED
    BY <1>1, <1>2, <1>3, <2>1 DEF ControlStep, PathInv, LiveInv, HolderInv, ProbeInv, StealInv, UnlockInv, Linked
<1> QED
  BY <1>4, <1>5, <1>6, <1>7

\* A client calls TryLock or Lock.
LEMMA CallLockStep ==
    ASSUME IInv, NEW p \in Procs, NEW m \in {"TryLock", "Lock"}, CallLock(p, m)
    PROVE  IInv'
<1> USE LockfileAssumption DEF IInv, TypeOK, Regular
<1>1. PICK k \in Slots : /\ Fresh(<<p, k>>)
                        /\ files' = files \cup {<<p, k>>}
                        /\ mine' = [mine EXCEPT ![p] = <<p, k>>]
  BY DEF CallLock
<1>2. <<p, k>> \in PidFiles /\ Owner(<<p, k>>) = p
  BY DEF PidFiles, Owner
<1>3. /\ pc[p] = "idle" /\ pc' = [pc EXCEPT ![p] = "symlink"]
      /\ op' = [op EXCEPT ![p] = m] /\ again' = [again EXCEPT ![p] = FALSE]
      /\ target' = [target EXCEPT ![p] = NoFile] /\ held' = [held EXCEPT ![p] = holds[p]]
      /\ UNCHANGED <<link, seen, res, holds>>
  BY DEF CallLock
<1>4. TypeOK'
  BY <1>1, <1>2, <1>3 DEF Points
<1>5. PidfileInv'
  <2> SUFFICES ASSUME NEW q \in Procs, InLock(q)'
               PROVE  /\ mine'[q] \in files' /\ Owner(mine'[q]) = q /\ mine'[q] # link'
                      /\ \A o \in Procs : mine'[q] # target'[o]
    BY DEF PidfileInv, Owner
  <2>1. CASE q = p
    BY <1>1, <1>2, <1>3, <2>1 DEF Fresh
  <2>2. CASE q # p
    <3>1. InLock(q) /\ mine'[q] = mine[q]
      BY <1>1, <1>3, <2>2 DEF InLock
    <3>2. mine[q] \in PidFiles
      BY <3>1 DEF PidfileInv
    <3> QED
      BY <1>1, <1>3, <2>2, <3>1, <3>2 DEF PidfileInv
  <2> QED
    BY <2>1, <2>2
<1>6. PathInv'
  BY <1>1, <1>2, <1>3 DEF PathInv
<1>7. ASSUME AllAlive' PROVE LiveInv'
  <2>1. AllAlive /\ LiveInv
    BY <1>1, <1>2, <1>3, <1>7 DEF AllAlive, Alive, ControlStep
  <2> QED
    BY <1>1, <1>2, <1>3, <2>1 DEF PathInv, LiveInv, HolderInv, ProbeInv, StealInv, UnlockInv, Linked
<1> QED
  BY <1>4, <1>5, <1>6, <1>7


\* A client calls TryLock or Lock, and pidfile() fails.
LEMMA CallLockFailsStep ==
    ASSUME IInv, NEW p \in Procs, NEW m \in {"TryLock", "Lock"}, CallLockFails(p, m)
    PROVE  IInv'
<1> USE LockfileAssumption DEF IInv, TypeOK, Regular
<1>1. /\ pc[p] = "idle" /\ op' = [op EXCEPT ![p] = m] /\ held' = [held EXCEPT ![p] = holds[p]]
      /\ UNCHANGED <<link, files, mine, target, seen>>
  BY DEF CallLockFails
<1>2. ControlStep(p) /\ pc'[p] \in {"idle", "dead"} /\ (holds'[p] => holds[p])
  <2>1. CASE res' = [res EXCEPT ![p] = "error"] /\ UNCHANGED <<pc, again, holds>>
    BY <1>1, <2>1 DEF ControlStep, Results
  <2>2. CASE Exit(p)
    BY <1>1, <2>2, BasicControl DEF Exit
  <2> QED
    BY <2>1, <2>2 DEF CallLockFails
<1>3. TypeOK'
  BY <1>1, <1>2 DEF ControlStep
<1>4. PidfileInv'
  BY <1>1, <1>2 DEF ControlStep, PidfileInv, InLock, PathInv
<1>5. PathInv'
  BY <1>1, <1>2 DEF ControlStep, PathInv
<1>6. ASSUME AllAlive' PROVE LiveInv'
  <2>1. AllAlive /\ LiveInv
    BY <1>1, <1>2, <1>6 DEF AllAlive, Alive, ControlStep
  <2> QED
    BY <1>1, <1>2, <2>1 DEF ControlStep, PathInv, LiveInv, HolderInv, ProbeInv, StealInv, UnlockInv, Linked
<1> QED
  BY <1>3, <1>4, <1>5, <1>6

\* A client calls Unlock.
LEMMA CallUnlockStep ==
    ASSUME IInv, NEW p \in Procs, CallUnlock(p)
    PROVE  IInv'
<1> USE LockfileAssumption DEF IInv, TypeOK, Regular
<1>1. /\ pc[p] = "idle" /\ pc' = [pc EXCEPT ![p] = "check"]
      /\ op' = [op EXCEPT ![p] = "Unlock"] /\ holds' = [holds EXCEPT ![p] = FALSE]
      /\ held' = [held EXCEPT ![p] = holds[p]]
      /\ mine' = [mine EXCEPT ![p] = NoFile] /\ target' = [target EXCEPT ![p] = NoFile]
      /\ UNCHANGED <<link, files, again, seen, res>>
  BY DEF CallUnlock
<1>2. TypeOK'
  BY <1>1 DEF Points
<1>3. PidfileInv'
  BY <1>1 DEF PidfileInv, InLock, PathInv
<1>4. PathInv'
  BY <1>1 DEF PathInv
<1>5. ASSUME AllAlive' PROVE LiveInv'
  <2>1. AllAlive /\ LiveInv
    BY <1>1, <1>5 DEF AllAlive, Alive, ControlStep
  <2> QED
    BY <1>1, <2>1 DEF PathInv, LiveInv, HolderInv, ProbeInv, StealInv, UnlockInv, Linked
<1> QED
  BY <1>2, <1>3, <1>4, <1>5


\* lockWith creates the link, or finds that it exists.
LEMMA SymlinkStep ==
    ASSUME IInv, NEW p \in Procs, Symlink(p)
    PROVE  IInv'
<1> USE LockfileAssumption DEF IInv, TypeOK, Regular
<1>1. pc[p] = "symlink" /\ op[p] # "Unlock" /\ UNCHANGED <<files, op, mine, target, seen, held>>
  BY DEF Symlink, PathInv
<1>2. mine[p] \in files /\ Owner(mine[p]) = p
  BY <1>1 DEF PidfileInv, InLock
<1>3. /\ ControlStep(p)
      /\ pc'[p] \in {"idle", "symlink", "cleanup", "check"}
      /\ \/ link = NoLink /\ link' = mine[p] /\ pc'[p] = "idle"
         \/ link' = link /\ holds' = holds
  BY LockWithControl, BasicControl DEF Symlink, Goto, Points, Results
<1>4. TypeOK'
  BY <1>1, <1>2, <1>3 DEF ControlStep
<1>5. PidfileInv'
  BY <1>1, <1>2, <1>3 DEF ControlStep, PidfileInv, InLock, PathInv
<1>6. PathInv'
  BY <1>1, <1>2, <1>3 DEF ControlStep, PathInv
<1>7. ASSUME AllAlive' PROVE LiveInv'
  <2>1. AllAlive /\ LiveInv
    BY <1>1, <1>2, <1>3, <1>7 DEF AllAlive, Alive, ControlStep
  <2> QED
    BY <1>1, <1>2, <1>3, <2>1 DEF ControlStep, PathInv, LiveInv, HolderInv, ProbeInv, StealInv, UnlockInv, Linked
<1> QED
  BY <1>4, <1>5, <1>6, <1>7


\* checkLockfile reads the file at the lock path, or the one that the link leads to.
LEMMA ReadLockfileCases ==
    ASSUME IInv, NEW p \in Procs, ReadLockfile(p)
    PROVE  /\ pc[p] = "check" /\ UNCHANGED <<link, files, op, mine, target, held>>
           /\ ControlStep(p) /\ holds' = holds
           /\ \/ /\ link \in files \cup Procs /\ LockOwner \in Procs
                 /\ seen' = [seen EXCEPT ![p] = LockOwner] /\ Linked(LockOwner)
                 /\ pc'[p] = "probe"
              \/ /\ link \notin files \cup Procs /\ seen' = seen
                 /\ op[p] = "Unlock" => pc'[p] = "idle"
                 /\ op[p] # "Unlock" => /\ pc'[p] \in {"idle", "symlink", "cleanup", "readlink"}
                                        /\ pc'[p] = "readlink" => link = Foreign
              \/ /\ seen' = seen
                 /\ op[p] = "Unlock" => pc'[p] = "idle" /\ res'[p] = "error"
                 /\ op[p] # "Unlock" => pc'[p] \in {"idle", "symlink", "cleanup"}
<1> USE LockfileAssumption DEF IInv, TypeOK, Regular
<1>1. pc[p] = "check" /\ UNCHANGED <<link, files, op, mine, target, held>>
  BY DEF ReadLockfile
<1>2. ASSUME NEW c \in {"unlocked", "invalid", "error"}, CheckReturns(p, c)
      PROVE  ControlStep(p) /\ holds' = holds
  BY <1>2, CheckControlLock, CheckControlUnlock
<1>3. CASE link \in files \cup Procs /\ seen' = [seen EXCEPT ![p] = LockOwner] /\ Goto(p, "probe")
  <2>1. ControlStep(p) /\ holds' = holds /\ pc'[p] = "probe"
    BY <1>3, BasicControl DEF Goto, Points
  <2>2. LockOwner \in Procs /\ Linked(LockOwner)
    BY <1>3 DEF LockOwner, Linked, PidFiles, Owner
  <2> QED
    BY <1>1, <1>3, <2>1, <2>2
<1>4. CASE (link = NoLink \/ Dangling) /\ CheckReturns(p, "unlocked") /\ seen' = seen
  BY <1>1, <1>2, <1>4, CheckControlLock, CheckControlUnlock DEF Dangling
<1>5. CASE link = Foreign /\ CheckReturns(p, "invalid") /\ seen' = seen
  BY <1>1, <1>2, <1>5, CheckControlLock, CheckControlUnlock
<1>6. CASE CheckReturns(p, "error") /\ seen' = seen
  BY <1>1, <1>2, <1>6, CheckControlLock, CheckControlUnlock
<1> QED
  BY <1>3, <1>4, <1>5, <1>6 DEF ReadLockfile

\* It keeps the invariant.
LEMMA ReadLockfileStep ==
    ASSUME IInv, NEW p \in Procs, ReadLockfile(p)
    PROVE  IInv'
<1> USE LockfileAssumption DEF IInv, TypeOK, Regular
<1>1. pc[p] = "check" /\ UNCHANGED <<link, files, op, mine, target, held>>
  BY ReadLockfileCases
<1>2. /\ ControlStep(p) /\ holds' = holds /\ seen' \in [Procs -> Procs]
      /\ \A q \in Procs \ {p} : seen'[q] = seen[q]
  BY ReadLockfileCases
<1>3. \/ Linked(seen'[p]) /\ pc'[p] = "probe"
      \/ /\ link \notin files \cup Procs
         /\ op[p] = "Unlock" => pc'[p] = "idle"
         /\ op[p] # "Unlock" => /\ pc'[p] \in {"idle", "symlink", "cleanup", "readlink"}
                                /\ pc'[p] = "readlink" => link = Foreign
      \/ /\ op[p] = "Unlock" => pc'[p] = "idle" /\ res'[p] = "error"
         /\ op[p] # "Unlock" => pc'[p] \in {"idle", "symlink", "cleanup"}
  BY ReadLockfileCases
<1>4. TypeOK'
  BY <1>1, <1>2, <1>3 DEF ControlStep
<1>5. PidfileInv'
  BY <1>1, <1>2, <1>3 DEF ControlStep, PidfileInv, InLock, PathInv
<1>6. PathInv'
  BY <1>1, <1>2, <1>3 DEF ControlStep, PathInv
<1>7. ASSUME AllAlive' PROVE LiveInv'
  <2>1. AllAlive /\ LiveInv
    BY <1>1, <1>2, <1>3, <1>7 DEF AllAlive, Alive, ControlStep
  <2> QED
    BY <1>1, <1>2, <1>3, <2>1 DEF ControlStep, PathInv, LiveInv, HolderInv, ProbeInv, StealInv, UnlockInv, Linked
<1> QED
  BY <1>4, <1>5, <1>6, <1>7

\* os.Readlink, in lockWith and in Unlock.
LEMMA ReadlinkStep ==
    ASSUME IInv, NEW p \in Procs, Readlink(p)
    PROVE  IInv'
<1> USE LockfileAssumption DEF IInv, TypeOK, Regular
<1>1. pc[p] = "readlink" /\ UNCHANGED <<link, files, op, mine, seen, held>>
  BY DEF Readlink
<1>2. /\ ControlStep(p) /\ holds' = holds
      /\ pc'[p] \in {"idle", "symlink", "cleanup", "rmtarget", "nuke"}
      /\ pc'[p] \in {"symlink", "cleanup"} => op[p] # "Unlock"
      /\ pc'[p] = "nuke" => op[p] = "Unlock"
      /\ op[p] = "Unlock" => \/ link = NoLink
                             \/ pc'[p] \in {"rmtarget", "nuke"}
  <2>1. CASE op[p] = "Unlock" /\ link = NoLink /\ Return(p, "rogue")
    BY <2>1, BasicControl DEF Return, Results
  <2>2. CASE op[p] # "Unlock" /\ Goto(p, "symlink")
    BY <2>2, BasicControl DEF Goto, Points
  <2>3. CASE Goto(p, "rmtarget")
    BY <2>3, BasicControl DEF Goto, Points
  <2>4. CASE op[p] = "Unlock" /\ Goto(p, "nuke")
    BY <2>4, BasicControl DEF Goto, Points
  <2>5. CASE op[p] # "Unlock" /\ LockWithReturns(p, "error")
    BY <2>5, LockWithControl DEF Results
  <2> QED
    BY <2>1, <2>2, <2>3, <2>4, <2>5 DEF Readlink
<1>3. \/ target' = target /\ pc'[p] # "rmtarget"
      \/ link \in PidFiles /\ target' = [target EXCEPT ![p] = link] /\ pc'[p] = "rmtarget"
  BY <1>1, LockWithControl DEF Readlink, Goto, Return, Results
<1>4. TypeOK'
  BY <1>1, <1>2, <1>3 DEF ControlStep
<1>5. PidfileInv'
  BY <1>1, <1>2, <1>3 DEF ControlStep, PidfileInv, InLock, PathInv
<1>6. PathInv'
  BY <1>1, <1>2, <1>3 DEF ControlStep, PathInv
<1>7. ASSUME AllAlive' PROVE LiveInv'
  <2>1. AllAlive /\ LiveInv
    BY <1>1, <1>2, <1>3, <1>7 DEF AllAlive, Alive, ControlStep
  <2> QED
    BY <1>1, <1>2, <1>3, <2>1 DEF ControlStep, PathInv, LiveInv, HolderInv, ProbeInv, StealInv, UnlockInv, Linked
<1> QED
  BY <1>4, <1>5, <1>6, <1>7


\* Unlock removes what it could not read.
LEMMA NukeStep ==
    ASSUME IInv, NEW p \in Procs, Nuke(p)
    PROVE  IInv'
<1> USE LockfileAssumption DEF IInv, TypeOK, Regular
<1>1. pc[p] = "nuke" /\ op[p] = "Unlock" /\ UNCHANGED <<files, op, mine, target, seen, held>>
  BY DEF Nuke, PathInv
<1>2. /\ ControlStep(p) /\ holds'[p] = FALSE
      /\ \/ link' = NoLink /\ pc'[p] = "idle" /\ res'[p] = "error"
         \/ link' = link /\ pc'[p] = "dead"
  <2>1. CASE link' = NoLink /\ Return(p, "error")
    BY <1>1, <2>1, BasicControl DEF Return, Results, PathInv
  <2>2. CASE Exit(p) /\ UNCHANGED link
    BY <1>1, <2>2, BasicControl DEF Exit
  <2> QED
    BY <2>1, <2>2 DEF Nuke
<1>3. TypeOK'
  BY <1>1, <1>2 DEF ControlStep
<1>4. PidfileInv'
  BY <1>1, <1>2 DEF ControlStep, PidfileInv, InLock, PathInv
<1>5. PathInv'
  BY <1>1, <1>2 DEF ControlStep, PathInv
<1>6. ASSUME AllAlive' PROVE LiveInv'
  <2>1. AllAlive /\ LiveInv
    BY <1>1, <1>2, <1>6 DEF AllAlive, Alive, ControlStep
  <2> QED
    BY <1>1, <1>2, <2>1 DEF ControlStep, PathInv, LiveInv, HolderInv, ProbeInv, StealInv, UnlockInv, Linked
<1> QED
  BY <1>3, <1>4, <1>5, <1>6


\* os.Remove(absTarget), in lockWith and in Unlock.
LEMMA RemoveTargetStep ==
    ASSUME IInv, NEW p \in Procs, RemoveTarget(p)
    PROVE  IInv'
<1> USE LockfileAssumption DEF IInv, TypeOK, Regular
<1>1. pc[p] = "rmtarget" /\ UNCHANGED <<link, op, mine, target, seen, held>>
  BY DEF RemoveTarget
<1>2. /\ ControlStep(p) /\ holds' = holds
      /\ op[p] # "Unlock" => pc'[p] \in {"idle", "symlink", "cleanup", "rmlink"}
      /\ op[p] = "Unlock" => /\ pc'[p] \in {"idle", "rmlink"}
                             /\ pc'[p] = "idle" /\ target[p] \in files => res'[p] = "error"
  <2>1. CASE Goto(p, "rmlink")
    BY <2>1, BasicControl DEF Goto, Points
  <2>2. CASE target[p] \notin files /\ op[p] = "Unlock" /\ Return(p, "rogue")
    BY <2>2, BasicControl DEF Return, Results
  <2>3. CASE Fails(p)
    BY <2>3, FailsControl
  <2> QED
    BY <2>1, <2>2, <2>3 DEF RemoveTarget
<1>3. files' = files \/ (files' = files \ {target[p]} /\ pc'[p] = "rmlink")
  BY DEF RemoveTarget, Goto
<1>4. TypeOK'
  BY <1>1, <1>2, <1>3 DEF ControlStep
<1>5. PidfileInv'
  BY <1>1, <1>2, <1>3 DEF ControlStep, PidfileInv, InLock, PathInv
<1>6. PathInv'
  BY <1>1, <1>2, <1>3 DEF ControlStep, PathInv
<1>7. ASSUME AllAlive' PROVE LiveInv'
  <2>1. AllAlive /\ LiveInv
    BY <1>1, <1>2, <1>3, <1>7 DEF AllAlive, Alive, ControlStep
  <2> QED
    BY <1>1, <1>2, <1>3, <2>1 DEF ControlStep, PathInv, LiveInv, HolderInv, ProbeInv, StealInv, UnlockInv, Linked
<1> QED
  BY <1>4, <1>5, <1>6, <1>7


\* os.Remove(l.path), in lockWith and in Unlock.
LEMMA RemoveLinkStep ==
    ASSUME IInv, NEW p \in Procs, RemoveLink(p)
    PROVE  IInv'
<1> USE LockfileAssumption DEF IInv, TypeOK, Regular
<1>1. pc[p] = "rmlink" /\ UNCHANGED <<files, op, mine, target, seen, held>>
  BY DEF RemoveLink
<1>2. /\ ControlStep(p)
      /\ op[p] # "Unlock" => pc'[p] \in {"idle", "symlink", "cleanup"} /\ holds' = holds
      /\ op[p] = "Unlock" => /\ pc'[p] = "idle" /\ holds' = holds
                             /\ link # NoLink => res'[p] # "rogue"
  <2>1. CASE op[p] = "Unlock" /\ link # NoLink /\ Return(p, "nil")
    BY <2>1, BasicControl DEF Return, Results
  <2>2. CASE op[p] # "Unlock" /\ Goto(p, "symlink")
    BY <2>2, BasicControl DEF Goto, Points
  <2>3. CASE op[p] = "Unlock" /\ link = NoLink /\ Return(p, "rogue")
    BY <2>3, BasicControl DEF Return, Results
  <2>4. CASE Fails(p)
    BY <2>4, FailsControl
  <2> QED
    BY <2>1, <2>2, <2>3, <2>4 DEF RemoveLink
<1>3. link' = link \/ link' = NoLink
  BY DEF RemoveLink
<1>4. TypeOK'
  BY <1>1, <1>2, <1>3 DEF ControlStep
<1>5. PidfileInv'
  BY <1>1, <1>2, <1>3 DEF ControlStep, PidfileInv, InLock, PathInv
<1>6. PathInv'
  BY <1>1, <1>2, <1>3 DEF ControlStep, PathInv
<1>7. ASSUME AllAlive' PROVE LiveInv'
  <2>1. AllAlive /\ LiveInv
    BY <1>1, <1>2, <1>3, <1>7 DEF AllAlive, Alive, ControlStep
  <2> QED
    BY <1>1, <1>2, <1>3, <2>1 DEF ControlStep, PathInv, LiveInv, HolderInv, ProbeInv, StealInv, UnlockInv, Linked
<1> QED
  BY <1>4, <1>5, <1>6, <1>7


\* TryLock or Lock removes the pid file of a call that failed.
LEMMA CleanupStep ==
    ASSUME IInv, NEW p \in Procs, Cleanup(p)
    PROVE  IInv'
<1> USE LockfileAssumption DEF IInv, TypeOK, Regular
<1>1. pc[p] = "cleanup" /\ op[p] # "Unlock" /\ UNCHANGED <<link, op, mine, target, seen, held>>
  BY DEF Cleanup, PathInv
<1>2. /\ ControlStep(p) /\ pc'[p] \in {"idle", "dead"} /\ (holds'[p] => holds[p])
      /\ (files' = files \/ files' = files \ {mine[p]})
  BY <1>1, BasicControl DEF Cleanup, Goto, Exit, Points
<1>3. mine[p] # link /\ Owner(mine[p]) = p
  BY <1>1 DEF PidfileInv, InLock
<1>4. TypeOK'
  BY <1>1, <1>2, <1>3 DEF ControlStep
<1>5. PidfileInv'
  BY <1>1, <1>2, <1>3 DEF ControlStep, PidfileInv, InLock, PathInv
<1>6. PathInv'
  BY <1>1, <1>2, <1>3 DEF ControlStep, PathInv
<1>7. ASSUME AllAlive' PROVE LiveInv'
  <2>1. AllAlive /\ LiveInv
    BY <1>1, <1>2, <1>3, <1>7 DEF AllAlive, Alive, ControlStep
  <2> QED
    BY <1>1, <1>2, <1>3, <2>1 DEF ControlStep, PathInv, LiveInv, HolderInv, ProbeInv, StealInv, UnlockInv, Linked
<1> QED
  BY <1>4, <1>5, <1>6, <1>7


\* A process disappears.
LEMMA CrashStep ==
    ASSUME IInv, NEW p \in Procs, Crash(p)
    PROVE  IInv'
<1> USE LockfileAssumption DEF IInv, TypeOK, Regular
<1>1. UNCHANGED <<link, files, op, mine, target, seen, held>>
  BY DEF Crash
<1>2. ControlStep(p) /\ pc'[p] = "dead" /\ holds'[p] = FALSE
  BY BasicControl DEF Crash, Exit
<1>3. TypeOK'
  BY <1>1, <1>2 DEF ControlStep
<1>4. PidfileInv'
  BY <1>1, <1>2 DEF ControlStep, PidfileInv, InLock, PathInv
<1>5. PathInv'
  BY <1>1, <1>2 DEF ControlStep, PathInv
<1>6. ASSUME AllAlive' PROVE LiveInv'
  <2>1. AllAlive /\ LiveInv
    BY <1>1, <1>2, <1>6 DEF AllAlive, Alive, ControlStep
  <2> QED
    BY <1>1, <1>2, <2>1 DEF AllAlive, Alive, ControlStep, PathInv, LiveInv, HolderInv, ProbeInv, StealInv, UnlockInv, Linked
<1> QED
  BY <1>3, <1>4, <1>5, <1>6

-----------------------------------------------------------------------------
(***************************************************************************)
(* The theorems.                                                           *)
(***************************************************************************)

\* The invariant holds initially.
LEMMA InitIInv == ASSUME Init PROVE IInv
<1> USE LockfileAssumption DEF Init
<1>1. TypeOK
  BY DEF TypeOK, Points, Results
<1>2. PidfileInv /\ PathInv
  BY DEF PidfileInv, PathInv, InLock
<1>3. LiveInv
  BY DEF LiveInv, HolderInv, ProbeInv, StealInv, UnlockInv
<1> QED
  BY <1>1, <1>2, <1>3 DEF IInv

\* Every step keeps it.
LEMMA NextIInv == ASSUME IInv, [Next]_vars PROVE IInv'
<1>1. ASSUME NEW p \in Procs, NEW m \in {"TryLock", "Lock"}, CallLock(p, m) \/ CallLockFails(p, m)
      PROVE IInv'
  BY <1>1, CallLockStep, CallLockFailsStep
<1>2. ASSUME NEW p \in Procs, CallUnlock(p) PROVE IInv'
  BY <1>2, CallUnlockStep
<1>3. ASSUME NEW p \in Procs, Step(p) PROVE IInv'
  BY <1>3, SymlinkStep, ReadLockfileStep, ProbeStep, ReadlinkStep, NukeStep,
     RemoveTargetStep, RemoveLinkStep, CleanupStep DEF Step
<1>4. ASSUME NEW p \in Procs, Crash(p) PROVE IInv'
  BY <1>4, CrashStep
<1>5. CASE UNCHANGED vars
  BY <1>5 DEF vars, procVars, IInv, TypeOK, PidfileInv, PathInv, InLock, AllAlive, Alive,
     LiveInv, HolderInv, ProbeInv, StealInv, UnlockInv, Linked
<1> QED
  BY <1>1, <1>2, <1>3, <1>4, <1>5 DEF Next

\* IInv is an invariant of the file lock.
THEOREM Invariance == Spec => []IInv
<1>1. Init => IInv
  BY InitIInv
<1>2. IInv /\ [Next]_vars => IInv'
  BY NextIInv
<1> QED
  BY <1>1, <1>2, PTL DEF Spec

\* The variables of the file lock keep their types (Lockfile and its methods).
THEOREM TypeCorrect == Spec => []TypeOK
<1>1. IInv => TypeOK
  BY DEF IInv
<1> QED
  BY <1>1, Invariance, PTL

\* TryLock, Lock and Unlock give the lock to one client at a time, for any number
\* of processes and any failing system calls, until a process disappears.
THEOREM MutualExclusionUntilCrash == Spec => []MutexUntilCrash
<1>1. IInv => MutexUntilCrash
  BY LockfileAssumption DEF IInv, TypeOK, Regular, MutexUntilCrash, MutualExclusion, AllAlive,
     LiveInv, HolderInv, Linked
<1> QED
  BY <1>1, Invariance, PTL

\* The pid file that TryLock and Lock clean up is always there, crashes included.
THEOREM PidfileStays == Spec => []PidfileStaysUntilLinked
<1>1. IInv => PidfileStaysUntilLinked
  BY DEF IInv, PidfileStaysUntilLinked, PidfileInv, PathInv, InLock
<1> QED
  BY <1>1, Invariance, PTL

\* Unlock returns ErrRogueDeletion to no holder, until a process disappears.
THEOREM RogueDeletionIsReal == Spec => []RogueMeansNotHeld
<1>1. IInv => RogueMeansNotHeld
  BY DEF IInv, RogueMeansNotHeld, AllAlive, LiveInv, UnlockInv
<1> QED
  BY <1>1, Invariance, PTL

-----------------------------------------------------------------------------
(***************************************************************************)
(* A file that is not ours.                                                *)
(***************************************************************************)

\* Nobody is about to remove what is at the lock path when it is not a link, except
\* the process whose pid it holds.
ForeignInv ==
    link \in Regular =>
        \A p \in Procs :
            /\ pc[p] \notin {"rmtarget", "rmlink"}
            /\ pc[p] = "probe" => seen[p] = link
            /\ pc[p] \in {"readlink", "nuke"} /\ op[p] = "Unlock" => link = p

\* Every step keeps it, and leaves the file alone.
LEMMA ForeignStep ==
    ASSUME IInv, ForeignInv, [Next]_vars
    PROVE  ForeignInv' /\ (link \in Regular => LeftAlone)
<1> USE LockfileAssumption DEF IInv, TypeOK, Regular, ForeignInv, LeftAlone
<1>1. ASSUME NEW p \in Procs, NEW m \in {"TryLock", "Lock"}, CallLock(p, m) \/ CallLockFails(p, m)
      PROVE ForeignInv' /\ UNCHANGED link
  BY <1>1 DEF CallLock, CallLockFails, Exit
<1>2. ASSUME NEW p \in Procs, CallUnlock(p) PROVE ForeignInv' /\ UNCHANGED link
  BY <1>2 DEF CallUnlock
<1>3. ASSUME NEW p \in Procs, Symlink(p) PROVE ForeignInv' /\ (link \in Regular => LeftAlone)
  <2>1. mine[p] \notin Regular /\ UNCHANGED <<op, seen>>
    BY <1>3 DEF Symlink, PidfileInv, PathInv, InLock
  <2>2. /\ ControlStep(p)
        /\ pc'[p] \in {"idle", "symlink", "cleanup", "check"}
        /\ (link = NoLink /\ link' = mine[p]) \/ link' = link
    BY <1>3, LockWithControl, BasicControl DEF Symlink, Goto, Points, Results
  <2> QED
    BY <2>1, <2>2 DEF ControlStep
<1>4. ASSUME NEW p \in Procs, ReadLockfile(p) PROVE ForeignInv' /\ UNCHANGED link
  <2>1. /\ ControlStep(p) /\ UNCHANGED <<link, op>>
        /\ seen' \in [Procs -> Procs] /\ \A q \in Procs \ {p} : seen'[q] = seen[q]
    BY <1>4, ReadLockfileCases
  <2>2. link \in Regular => /\ pc'[p] = "probe" => seen'[p] = link
                            /\ pc'[p] \in {"probe", "idle", "symlink", "cleanup", "readlink"}
                            /\ pc'[p] = "readlink" => op[p] # "Unlock"
    BY <1>4, ReadLockfileCases DEF LockOwner
  <2> QED
    BY <2>1, <2>2 DEF ControlStep
<1>5. ASSUME NEW p \in Procs, Probe(p) PROVE ForeignInv' /\ UNCHANGED link
  <2>1. ControlStep(p) /\ UNCHANGED <<link, op, seen>> /\ pc[p] = "probe"
    BY <1>5, CheckControlLock, CheckControlUnlock DEF Probe
  <2>2. /\ pc'[p] \in {"idle", "symlink", "cleanup", "readlink"}
        /\ pc'[p] = "readlink" /\ op[p] = "Unlock" => seen[p] = p
    BY <1>5, CheckControlLock, CheckControlUnlock DEF Probe
  <2> QED
    BY <2>1, <2>2 DEF ControlStep
<1>6. ASSUME NEW p \in Procs, Readlink(p) PROVE ForeignInv' /\ UNCHANGED link
  <2>1. ControlStep(p) /\ UNCHANGED <<link, op, seen>> /\ pc[p] = "readlink"
    BY <1>6, LockWithControl, BasicControl DEF Readlink, Goto, Return, Points, Results
  <2>2. link \in Regular => /\ pc'[p] \in {"idle", "symlink", "cleanup", "nuke"}
                            /\ pc'[p] = "nuke" => op[p] = "Unlock"
    BY <1>6, LockWithControl DEF Readlink, Goto, Return, Results
  <2> QED
    BY <2>1, <2>2 DEF ControlStep
<1>7. ASSUME NEW p \in Procs, RemoveLink(p) \/ RemoveTarget(p)
      PROVE ForeignInv' /\ (link \in Regular => LeftAlone)
  BY <1>7 DEF RemoveLink, RemoveTarget
<1>8. ASSUME NEW p \in Procs, Nuke(p) PROVE ForeignInv' /\ (link \in Regular => LeftAlone)
  <2>1. /\ ControlStep(p) /\ pc'[p] \in {"idle", "dead"} /\ UNCHANGED <<op, seen>>
        /\ link' = link \/ link' = NoLink
        /\ pc[p] = "nuke" /\ op[p] = "Unlock"
    BY <1>8, BasicControl DEF Nuke, Return, Exit, Points, Results, PathInv
  <2> QED
    BY <2>1 DEF ControlStep
<1>9. ASSUME NEW p \in Procs, Cleanup(p) \/ Crash(p) PROVE ForeignInv' /\ UNCHANGED link
  <2>1. ControlStep(p) /\ pc'[p] \in {"idle", "dead"} /\ UNCHANGED <<link, op, seen>>
    BY <1>9, BasicControl DEF Cleanup, Crash, Goto, Exit, Points
  <2> QED
    BY <2>1 DEF ControlStep
<1>10. CASE UNCHANGED vars
  BY <1>10 DEF vars, procVars
<1> QED
  BY <1>1, <1>2, <1>3, <1>4, <1>5, <1>6, <1>7, <1>8, <1>9, <1>10 DEF Next, Step

\* "Leave it alone, in case it's someone's legitimate file" (lockWith): what is at the
\* lock path and is no link is never replaced, and only one call ever removes it,
\* Unlock of the process whose pid it holds, which takes it for its own lock.  A file
\* that holds no pid of a process is there for ever; whatever crashes and fails.
THEOREM ForeignFileIsSafe == Spec => ForeignLeftAlone
<1>1. Init => ForeignInv
  BY DEF Init, ForeignInv
<1>2. IInv /\ ForeignInv /\ [Next]_vars => ForeignInv' /\ [(link \in Regular) => LeftAlone]_vars
  BY ForeignStep
<1> QED
  BY <1>1, <1>2, Invariance, PTL DEF Spec, ForeignLeftAlone

-----------------------------------------------------------------------------
(***************************************************************************)
(* Mutual exclusion when processes do disappear.                           *)
(*                                                                         *)
(* lockWith cleans up after a dead owner by three system calls that name   *)
(* the lock by its path.  Two things can go wrong between the probe and    *)
(* the removal: the link is no longer the one whose owner was found dead,  *)
(* or a second process cleans up at the same time.  Nothing else can.      *)
(***************************************************************************)

\* The lock path names a process that has disappeared: in a link to a pid file of it,
\* or in a file that is no link.
DeadLink ==
    \/ link \in PidFiles /\ ~Alive(Owner(link))
    \/ link \in Procs /\ ~Alive(link)

\* lockWith of p has found the owner dead and has not removed the link yet; it does not
\* get past Readlink when there is no link.
Cleaning(p) ==
    op[p] # "Unlock" /\ pc[p] \in {"readlink", "rmtarget", "rmlink"} /\ link \notin Regular

\* Nobody cleans up while somebody else does.
SoleCleaner == \A p, q \in Procs : Cleaning(p) /\ Cleaning(q) => p = q

\* When lockWith starts to clean up, the lock still is a dead process's.
StaleAtProbe == \A p \in Procs : ~Cleaning(p) /\ Cleaning(p)' => DeadLink

\* Then the lock stays a dead process's until it is removed.
CleanerInv(p) ==
    op[p] # "Unlock" =>
        /\ pc[p] = "readlink" => link = Foreign \/ DeadLink
        /\ pc[p] = "rmtarget" => DeadLink /\ target[p] = link
        /\ pc[p] = "rmlink" => DeadLink /\ link \in PidFiles

\* LiveInv, with the dead in it.
RecoveryInv ==
    \A p \in Procs :
        /\ HolderInv(p) /\ ProbeInv(p) /\ UnlockInv(p)
        /\ CleanerInv(p)
        /\ pc[p] = "dead" => ~holds[p]

\* A step of p that leaves the link and the pid files alone, puts p nowhere that
\* promises anything, and does not make it a holder.
LEMMA QuietStep ==
    ASSUME IInv, RecoveryInv, NEW p \in Procs, ControlStep(p),
           UNCHANGED <<link, files, op, mine, target, seen, held>>,
           pc[p] # "dead",
           pc'[p] \in {"idle", "symlink", "cleanup", "dead"},
           holds'[p] => holds[p] /\ pc'[p] # "dead",
           op[p] = "Unlock" /\ held[p] /\ pc'[p] = "idle" => res'[p] # "rogue"
    PROVE  RecoveryInv'
<1> USE LockfileAssumption DEF IInv, TypeOK, Regular
<1>1. ASSUME NEW q \in Procs \ {p}
      PROVE  /\ HolderInv(q)' /\ ProbeInv(q)' /\ UnlockInv(q)' /\ CleanerInv(q)'
             /\ pc'[q] = "dead" => ~holds'[q]
  <2>1. DeadLink => DeadLink'
    BY DEF DeadLink, Alive, ControlStep, PidFiles, Owner
  <2> QED
    BY <2>1 DEF ControlStep, RecoveryInv, HolderInv, ProbeInv, UnlockInv, CleanerInv, Linked
<1>2. /\ HolderInv(p)' /\ ProbeInv(p)' /\ UnlockInv(p)' /\ CleanerInv(p)'
      /\ pc'[p] = "dead" => ~holds'[p]
  BY DEF ControlStep, RecoveryInv, HolderInv, ProbeInv, UnlockInv, CleanerInv, Linked
<1> QED
  BY <1>1, <1>2 DEF RecoveryInv

\* A live process owns the link: nobody is cleaning up.
LEMMA NoCleanerOfALiveLink ==
    ASSUME IInv, RecoveryInv, link \in PidFiles, Alive(Owner(link)), NEW q \in Procs
    PROVE  ~Cleaning(q)
  BY LockfileAssumption DEF RecoveryInv, CleanerInv, Cleaning, DeadLink, Regular

\* A client calls TryLock, Lock or Unlock.
LEMMA CallsRecover ==
    ASSUME IInv, RecoveryInv, NEW p \in Procs,
           \/ \E m \in {"TryLock", "Lock"} : CallLock(p, m) \/ CallLockFails(p, m)
           \/ CallUnlock(p)
    PROVE  RecoveryInv'
<1> USE LockfileAssumption DEF IInv, TypeOK, Regular
<1>1. /\ pc[p] = "idle" /\ link' = link /\ seen' = seen
      /\ files \subseteq files'
      /\ \A q \in Procs \ {p} : /\ pc'[q] = pc[q] /\ op'[q] = op[q] /\ res'[q] = res[q]
                                /\ holds'[q] = holds[q] /\ held'[q] = held[q]
                                /\ target'[q] = target[q]
  <2>1. CASE \E m \in {"TryLock", "Lock"} : CallLock(p, m)
    BY <2>1 DEF CallLock
  <2>2. CASE \E m \in {"TryLock", "Lock"} : CallLockFails(p, m)
    BY <2>2 DEF CallLockFails, Exit
  <2>3. CASE CallUnlock(p)
    BY <2>3 DEF CallUnlock
  <2> QED
    BY <2>1, <2>2, <2>3
<1>2. \/ op'[p] # "Unlock" /\ pc'[p] \in {"symlink", "idle"} /\ holds'[p] = holds[p]
      \/ op'[p] # "Unlock" /\ pc'[p] = "dead" /\ ~holds'[p]
      \/ op'[p] = "Unlock" /\ pc'[p] = "check" /\ ~holds'[p] /\ held'[p] = holds[p]
  <2>1. ASSUME NEW m \in {"TryLock", "Lock"}, CallLock(p, m)
        PROVE  op'[p] # "Unlock" /\ pc'[p] = "symlink" /\ holds'[p] = holds[p]
    BY <2>1 DEF CallLock
  <2>2. ASSUME NEW m \in {"TryLock", "Lock"}, CallLockFails(p, m)
        PROVE  /\ op'[p] # "Unlock"
               /\ \/ pc'[p] = "idle" /\ holds'[p] = holds[p]
                  \/ pc'[p] = "dead" /\ ~holds'[p]
    BY <1>1, <2>2 DEF CallLockFails, Exit
  <2>3. ASSUME CallUnlock(p)
        PROVE  op'[p] = "Unlock" /\ pc'[p] = "check" /\ ~holds'[p] /\ held'[p] = holds[p]
    BY <2>3 DEF CallUnlock
  <2> QED
    BY <2>1, <2>2, <2>3
<1>3. DeadLink => DeadLink'
  BY <1>1, <1>2 DEF DeadLink, Alive, PidFiles, Owner
<1>4. ASSUME NEW q \in Procs \ {p}
      PROVE  /\ HolderInv(q)' /\ ProbeInv(q)' /\ UnlockInv(q)' /\ CleanerInv(q)'
             /\ pc'[q] = "dead" => ~holds'[q]
  BY <1>1, <1>3 DEF RecoveryInv, HolderInv, ProbeInv, UnlockInv, CleanerInv, Linked
<1>5. /\ HolderInv(p)' /\ ProbeInv(p)' /\ UnlockInv(p)' /\ CleanerInv(p)'
      /\ pc'[p] = "dead" => ~holds'[p]
  BY <1>1, <1>2 DEF RecoveryInv, HolderInv, ProbeInv, UnlockInv, CleanerInv, Linked
<1> QED
  BY <1>4, <1>5 DEF RecoveryInv

\* lockWith creates the link: nobody held the lock and nobody was cleaning up.
LEMMA SymlinkRecovers ==
    ASSUME IInv, RecoveryInv, NEW p \in Procs, Symlink(p)
    PROVE  RecoveryInv'
<1> USE LockfileAssumption DEF IInv, TypeOK, Regular
<1>1. pc[p] = "symlink" /\ op[p] # "Unlock" /\ UNCHANGED <<files, op, mine, target, seen, held>>
  BY DEF Symlink, PathInv
<1>2. mine[p] \in files /\ Owner(mine[p]) = p
  BY <1>1 DEF PidfileInv, InLock
<1>3. CASE link = NoLink /\ link' = mine[p] /\ LockWithReturns(p, "nil")
  <2>1. ControlStep(p) /\ pc'[p] = "idle"
    BY <1>3, LockWithControl DEF Results
  <2>2. ~DeadLink
    BY <1>3 DEF DeadLink
  <2> QED
    BY <1>1, <1>2, <1>3, <2>1, <2>2
       DEF ControlStep, RecoveryInv, HolderInv, ProbeInv, UnlockInv, CleanerInv, Linked
<1>4. CASE link # NoLink /\ Goto(p, "check") /\ UNCHANGED link
  <2>1. ControlStep(p) /\ pc'[p] = "check" /\ holds' = holds
    BY <1>4, BasicControl DEF Goto, Points
  <2>2. DeadLink => DeadLink'
    BY <1>1, <1>4, <2>1 DEF DeadLink, Alive, ControlStep, PidFiles, Owner
  <2> QED
    BY <1>1, <1>4, <2>1, <2>2
       DEF ControlStep, RecoveryInv, HolderInv, ProbeInv, UnlockInv, CleanerInv, Linked
<1>5. CASE LockWithReturns(p, "error") /\ UNCHANGED link
  <2>1. ControlStep(p) /\ pc'[p] \in {"idle", "symlink", "cleanup"} /\ holds' = holds
    BY <1>5, LockWithControl DEF Results
  <2> QED
    BY <1>1, <1>5, <2>1, QuietStep
<1> QED
  BY <1>3, <1>4, <1>5 DEF Symlink

\* checkLockfile reads the file at the lock path, or the one that the link leads to.
LEMMA ReadLockfileRecovers ==
    ASSUME IInv, RecoveryInv, NEW p \in Procs, ReadLockfile(p)
    PROVE  RecoveryInv'
<1> USE LockfileAssumption DEF IInv, TypeOK, Regular
<1>1. /\ pc[p] = "check" /\ UNCHANGED <<link, files, op, mine, target, held>>
      /\ ControlStep(p) /\ holds' = holds
  BY ReadLockfileCases
<1>2. DeadLink => DeadLink'
  BY <1>1, ReadLockfileCases DEF DeadLink, Alive, ControlStep, PidFiles, Owner
<1>3. CASE /\ link \in files \cup Procs /\ LockOwner \in Procs
           /\ seen' = [seen EXCEPT ![p] = LockOwner] /\ Linked(LockOwner)
           /\ pc'[p] = "probe"
  BY <1>1, <1>2, <1>3
     DEF ControlStep, RecoveryInv, HolderInv, ProbeInv, UnlockInv, CleanerInv, Linked
<1>4. CASE /\ link \notin files \cup Procs /\ seen' = seen
           /\ op[p] = "Unlock" => pc'[p] = "idle"
           /\ op[p] # "Unlock" => /\ pc'[p] \in {"idle", "symlink", "cleanup", "readlink"}
                                  /\ pc'[p] = "readlink" => link = Foreign
  <2>1. op[p] = "Unlock" => ~held[p]
    BY <1>1, <1>4 DEF RecoveryInv, UnlockInv, Linked
  <2>2. CASE pc'[p] # "readlink"
    BY <1>1, <1>4, <2>1, <2>2, QuietStep DEF RecoveryInv
  <2>3. CASE pc'[p] = "readlink"
    BY <1>1, <1>2, <1>4, <2>3
       DEF ControlStep, RecoveryInv, HolderInv, ProbeInv, UnlockInv, CleanerInv, Linked
  <2> QED
    BY <2>2, <2>3
<1>5. CASE /\ seen' = seen
           /\ op[p] = "Unlock" => pc'[p] = "idle" /\ res'[p] = "error"
           /\ op[p] # "Unlock" => pc'[p] \in {"idle", "symlink", "cleanup"}
  BY <1>1, <1>5, QuietStep DEF RecoveryInv
<1> QED
  BY <1>3, <1>4, <1>5, ReadLockfileCases

\* checkLockfile probes the pid that it read; a process that goes on to clean up
\* does so on a link whose owner is dead.
LEMMA ProbeRecovers ==
    ASSUME IInv, RecoveryInv, ForeignInv, StaleAtProbe, NEW p \in Procs, Probe(p)
    PROVE  RecoveryInv'
<1> USE LockfileAssumption DEF IInv, TypeOK, Regular
<1>1. pc[p] = "probe" /\ UNCHANGED <<link, files, op, mine, target, seen, held>>
  BY DEF Probe
<1>2. ControlStep(p)
  BY CheckControlLock, CheckControlUnlock DEF Probe
<1>3. DeadLink => DeadLink'
  BY <1>1, <1>2 DEF DeadLink, Alive, ControlStep, PidFiles, Owner
<1>4. ASSUME NEW q \in Procs \ {p}
      PROVE  /\ HolderInv(q)' /\ ProbeInv(q)' /\ UnlockInv(q)' /\ CleanerInv(q)'
             /\ pc'[q] = "dead" => ~holds'[q]
  BY <1>1, <1>2, <1>3 DEF ControlStep, RecoveryInv, HolderInv, ProbeInv, UnlockInv, CleanerInv, Linked
<1>5. CASE op[p] = "Unlock"
  <2>1. /\ holds' = holds
        /\ \/ pc'[p] = "readlink" /\ seen[p] = p
           \/ pc'[p] = "idle" /\ seen[p] # p
    <3>1. seen[p] = p => Alive(seen[p])
      BY <1>1 DEF Alive
    <3> QED
      BY <1>5, <3>1, CheckControlUnlock DEF Probe
  <2>2. seen[p] = p => Linked(p)
    BY <1>1 DEF RecoveryInv, ProbeInv
  <2>3. held[p] => seen[p] = p
    BY <1>1, <1>5 DEF RecoveryInv, UnlockInv
  <2>4. /\ HolderInv(p)' /\ ProbeInv(p)' /\ UnlockInv(p)' /\ CleanerInv(p)'
        /\ pc'[p] = "dead" => ~holds'[p]
    BY <1>1, <1>2, <1>5, <2>1, <2>2, <2>3
       DEF ControlStep, RecoveryInv, HolderInv, ProbeInv, UnlockInv, CleanerInv, Linked
  <2> QED
    BY <1>4, <2>4 DEF RecoveryInv
<1>6. CASE op[p] # "Unlock"
  <2>1. CASE Alive(seen[p])
    <3>1. /\ pc'[p] \in {"idle", "symlink", "cleanup"}
          /\ seen[p] # p => holds' = holds
      BY <1>6, <2>1, CheckControlLock DEF Probe
    <3>2. seen[p] = p => Linked(p)
      BY <1>1 DEF RecoveryInv, ProbeInv
    <3>3. /\ HolderInv(p)' /\ ProbeInv(p)' /\ UnlockInv(p)' /\ CleanerInv(p)'
          /\ pc'[p] = "dead" => ~holds'[p]
      BY <1>1, <1>2, <1>6, <3>1, <3>2
         DEF ControlStep, RecoveryInv, HolderInv, ProbeInv, UnlockInv, CleanerInv, Linked
    <3> QED
      BY <1>4, <3>3 DEF RecoveryInv
  <2>2. CASE ~Alive(seen[p])
    <3>1. pc'[p] = "readlink" /\ holds' = holds
      BY <1>6, <2>2 DEF Probe, CheckReturns, Goto
    <3>2. link = Foreign \/ DeadLink
      BY <1>1, <1>6, <2>2, <3>1 DEF StaleAtProbe, Cleaning, ForeignInv, DeadLink
    <3>3. /\ HolderInv(p)' /\ ProbeInv(p)' /\ UnlockInv(p)' /\ CleanerInv(p)'
          /\ pc'[p] = "dead" => ~holds'[p]
      BY <1>1, <1>2, <1>3, <1>6, <3>1, <3>2
         DEF ControlStep, RecoveryInv, HolderInv, ProbeInv, UnlockInv, CleanerInv, Linked
    <3> QED
      BY <1>4, <3>3 DEF RecoveryInv
  <2> QED
    BY <2>1, <2>2
<1> QED
  BY <1>5, <1>6

\* os.Readlink: nobody but p could have removed the link.
LEMMA ReadlinkRecovers ==
    ASSUME IInv, RecoveryInv, NEW p \in Procs, Readlink(p)
    PROVE  RecoveryInv'
<1> USE LockfileAssumption DEF IInv, TypeOK, Regular
<1>1. pc[p] = "readlink" /\ UNCHANGED <<link, files, op, mine, seen, held>>
  BY DEF Readlink
<1>2. /\ op[p] = "Unlock" => Linked(p)
      /\ op[p] # "Unlock" => link = Foreign \/ DeadLink
      /\ link # NoLink
  BY <1>1 DEF RecoveryInv, UnlockInv, CleanerInv, Linked, DeadLink
<1>3. CASE link \in PidFiles /\ target' = [target EXCEPT ![p] = link] /\ Goto(p, "rmtarget")
  <2>1. ControlStep(p) /\ pc'[p] = "rmtarget" /\ holds' = holds
    BY <1>3, BasicControl DEF Goto, Points
  <2>2. DeadLink => DeadLink'
    BY <1>1, <2>1 DEF DeadLink, Alive, ControlStep, PidFiles, Owner
  <2> QED
    BY <1>1, <1>2, <1>3, <2>1, <2>2
       DEF ControlStep, RecoveryInv, HolderInv, ProbeInv, UnlockInv, CleanerInv, Linked
<1>4. CASE op[p] = "Unlock" /\ Goto(p, "nuke") /\ UNCHANGED target
  <2>1. ControlStep(p) /\ pc'[p] = "nuke" /\ holds' = holds
    BY <1>4, BasicControl DEF Goto, Points
  <2>2. DeadLink => DeadLink'
    BY <1>1, <2>1 DEF DeadLink, Alive, ControlStep, PidFiles, Owner
  <2> QED
    BY <1>1, <1>2, <1>4, <2>1, <2>2
       DEF ControlStep, RecoveryInv, HolderInv, ProbeInv, UnlockInv, CleanerInv, Linked
<1>5. CASE op[p] # "Unlock" /\ LockWithReturns(p, "error") /\ UNCHANGED target
  <2>1. ControlStep(p) /\ pc'[p] \in {"idle", "symlink", "cleanup"} /\ holds' = holds
    BY <1>5, LockWithControl DEF Results
  <2> QED
    BY <1>1, <1>5, <2>1, QuietStep
<1> QED
  BY <1>2, <1>3, <1>4, <1>5 DEF Readlink

\* The link goes: its owner was p, which is giving it back, or is dead, and p is
\* the only one to clean up.
LEMMA LinkRemoved ==
    ASSUME IInv, RecoveryInv, SoleCleaner, NEW p \in Procs, ControlStep(p),
           UNCHANGED <<files, op, mine, target, seen, held>>, link' = NoLink,
           ~holds'[p], pc'[p] \in {"idle", "symlink"},
           \/ /\ op[p] = "Unlock" /\ Alive(p) /\ res'[p] # "rogue"
              /\ link = p \/ (link \in PidFiles /\ Owner(link) = p)
           \/ Cleaning(p) /\ DeadLink
    PROVE  RecoveryInv'
<1> USE LockfileAssumption DEF IInv, TypeOK, Regular
<1>1. \A q \in Procs \ {p} : ~Cleaning(q)
  BY NoCleanerOfALiveLink DEF SoleCleaner, Cleaning
<1>2. \A q \in Procs \ {p} : pc[q] # "dead" => ~Linked(q)
  BY DEF Linked, DeadLink, Alive
<1>3. link \in PidFiles \/ (link = p /\ Alive(p) /\ ~DeadLink)
  BY DEF DeadLink, Cleaning
<1>4. ASSUME NEW q \in Procs \ {p}
      PROVE  /\ HolderInv(q)' /\ ProbeInv(q)' /\ UnlockInv(q)' /\ CleanerInv(q)'
             /\ pc'[q] = "dead" => ~holds'[q]
  <2>1. op[q] # "Unlock" => pc[q] \notin {"readlink", "rmtarget", "rmlink"}
    BY <1>1, <1>3 DEF Cleaning, RecoveryInv, CleanerInv
  <2>2. pc[q] # "dead" /\ link \in PidFiles => Owner(link) # q
    BY DEF DeadLink, Alive
  <2>3. ~holds[q]
    BY <1>2 DEF RecoveryInv, HolderInv
  <2>4. op[q] = "Unlock" =>
           /\ pc[q] \notin {"readlink", "rmtarget", "rmlink", "nuke"}
           /\ ~(held[q] /\ pc[q] = "check")
    BY <1>2, <1>3, <2>2 DEF RecoveryInv, UnlockInv
  <2>5. pc[q] = "probe" => seen[q] # q
    BY <1>2 DEF RecoveryInv, ProbeInv
  <2> QED
    BY <2>1, <2>3, <2>4, <2>5
       DEF ControlStep, RecoveryInv, HolderInv, ProbeInv, UnlockInv, CleanerInv
<1>5. /\ HolderInv(p)' /\ ProbeInv(p)' /\ UnlockInv(p)' /\ CleanerInv(p)'
      /\ pc'[p] = "dead" => ~holds'[p]
  BY DEF ControlStep, HolderInv, ProbeInv, UnlockInv, CleanerInv, Cleaning
<1> QED
  BY <1>4, <1>5 DEF RecoveryInv

\* Unlock removes what it could not read: its own link.
LEMMA NukeRecovers ==
    ASSUME IInv, RecoveryInv, SoleCleaner, NEW p \in Procs, Nuke(p)
    PROVE  RecoveryInv'
<1> USE LockfileAssumption DEF IInv, TypeOK, Regular
<1>1. pc[p] = "nuke" /\ op[p] = "Unlock" /\ UNCHANGED <<files, op, mine, target, seen, held>>
  BY DEF Nuke, PathInv
<1>2. Alive(p) /\ (link = p \/ (link \in PidFiles /\ Owner(link) = p))
  BY <1>1 DEF RecoveryInv, UnlockInv, Linked, Alive
<1>3. CASE link' = NoLink /\ Return(p, "error")
  <2>1. ControlStep(p) /\ pc'[p] = "idle" /\ res'[p] = "error" /\ ~holds'[p]
    BY <1>1, <1>3, BasicControl DEF Return, Results, PathInv
  <2> QED
    BY <1>1, <1>2, <1>3, <2>1, LinkRemoved
<1>4. CASE Exit(p) /\ UNCHANGED link
  <2>1. ControlStep(p) /\ pc'[p] = "dead" /\ ~holds'[p]
    BY <1>4, BasicControl DEF Exit
  <2> QED
    BY <1>1, <1>4, <2>1, QuietStep
<1> QED
  BY <1>3, <1>4 DEF Nuke

\* The pid file that the link leads to goes; nobody but p counts on it.
LEMMA RemoveTargetRecovers ==
    ASSUME IInv, RecoveryInv, NEW p \in Procs, RemoveTarget(p)
    PROVE  RecoveryInv'
<1> USE LockfileAssumption DEF IInv, TypeOK, Regular
<1>1. pc[p] = "rmtarget" /\ UNCHANGED <<link, op, mine, target, seen, held>>
  BY DEF RemoveTarget
<1>2. /\ target[p] = link /\ link \in PidFiles
      /\ op[p] = "Unlock" => Linked(p) /\ ~holds[p]
      /\ op[p] # "Unlock" => DeadLink
  BY <1>1 DEF RecoveryInv, UnlockInv, CleanerInv, PathInv, Linked, DeadLink
<1>3. CASE files' = files \ {target[p]} /\ Goto(p, "rmlink")
  <2>1. ControlStep(p) /\ pc'[p] = "rmlink" /\ holds' = holds
    BY <1>3, BasicControl DEF Goto, Points
  <2>2. DeadLink => DeadLink'
    BY <1>1, <2>1 DEF DeadLink, Alive, ControlStep, PidFiles, Owner
  <2>3. \A q \in Procs \ {p} : pc[q] # "dead" => ~Linked(q)
    BY <1>2 DEF Linked, DeadLink, Alive
  <2>4. ~holds[p]
    BY <1>1, <1>2 DEF RecoveryInv, HolderInv, Linked, DeadLink, Alive
  <2>5. ASSUME NEW q \in Procs \ {p}
        PROVE  /\ HolderInv(q)' /\ ProbeInv(q)' /\ UnlockInv(q)' /\ CleanerInv(q)'
               /\ pc'[q] = "dead" => ~holds'[q]
    <3>1. pc[q] # "dead" => Owner(link) # q
      BY <1>2 DEF Linked, DeadLink, Alive
    <3> QED
      BY <1>1, <2>1, <2>2, <2>3, <3>1
         DEF ControlStep, RecoveryInv, HolderInv, ProbeInv, UnlockInv, CleanerInv
  <2>6. /\ HolderInv(p)' /\ ProbeInv(p)' /\ UnlockInv(p)' /\ CleanerInv(p)'
        /\ pc'[p] = "dead" => ~holds'[p]
    BY <1>1, <1>2, <2>1, <2>2, <2>4
       DEF ControlStep, HolderInv, ProbeInv, UnlockInv, CleanerInv, Linked
  <2> QED
    BY <2>5, <2>6 DEF RecoveryInv
<1>4. CASE target[p] \in files /\ Fails(p) /\ UNCHANGED files
  <2>1. /\ ControlStep(p) /\ pc'[p] \in {"idle", "symlink", "cleanup"} /\ holds' = holds
        /\ op[p] = "Unlock" => res'[p] = "error"
    BY <1>4, FailsControl
  <2> QED
    BY <1>1, <1>4, <2>1, QuietStep
<1> QED
  BY <1>2, <1>3, <1>4 DEF RemoveTarget, Linked

\* os.Remove(l.path), in lockWith and in Unlock.
LEMMA RemoveLinkRecovers ==
    ASSUME IInv, RecoveryInv, SoleCleaner, NEW p \in Procs, RemoveLink(p)
    PROVE  RecoveryInv'
<1> USE LockfileAssumption DEF IInv, TypeOK, Regular
<1>1. pc[p] = "rmlink" /\ UNCHANGED <<files, op, mine, target, seen, held>>
  BY DEF RemoveLink
<1>2. /\ link \in PidFiles
      /\ op[p] = "Unlock" => Owner(link) = p /\ Alive(p) /\ ~holds[p]
      /\ op[p] # "Unlock" => DeadLink /\ Cleaning(p)
  BY <1>1 DEF RecoveryInv, UnlockInv, CleanerInv, PathInv, DeadLink, Alive, Cleaning
<1>3. ~holds[p]
  BY <1>1, <1>2 DEF RecoveryInv, HolderInv, Linked, DeadLink, Alive
<1>4. CASE /\ link' = NoLink
           /\ IF op[p] = "Unlock" THEN Return(p, "nil") ELSE Goto(p, "symlink")
  <2>1. /\ ControlStep(p) /\ pc'[p] \in {"idle", "symlink"} /\ holds' = holds
        /\ op[p] = "Unlock" => res'[p] # "rogue"
    <3>1. CASE op[p] = "Unlock"
      BY <1>4, <3>1, BasicControl DEF Return, Results
    <3>2. CASE op[p] # "Unlock"
      BY <1>4, <3>2, BasicControl DEF Goto, Points
    <3> QED
      BY <3>1, <3>2
  <2> QED
    BY <1>1, <1>2, <1>3, <1>4, <2>1, LinkRemoved
<1>5. CASE Fails(p) /\ UNCHANGED link
  <2>1. /\ ControlStep(p) /\ pc'[p] \in {"idle", "symlink", "cleanup"} /\ holds' = holds
        /\ op[p] = "Unlock" => res'[p] = "error"
    BY <1>5, FailsControl
  <2> QED
    BY <1>1, <1>5, <2>1, QuietStep
<1> QED
  BY <1>2, <1>4, <1>5 DEF RemoveLink

\* TryLock or Lock removes its own pid file, which nothing leads to.
LEMMA CleanupRecovers ==
    ASSUME IInv, RecoveryInv, NEW p \in Procs, Cleanup(p)
    PROVE  RecoveryInv'
<1> USE LockfileAssumption DEF IInv, TypeOK, Regular
<1>1. pc[p] = "cleanup" /\ op[p] # "Unlock" /\ UNCHANGED <<link, op, mine, target, seen, held>>
  BY DEF Cleanup, PathInv
<1>2. CASE Exit(p) /\ UNCHANGED files
  <2>1. ControlStep(p) /\ pc'[p] = "dead" /\ ~holds'[p]
    BY <1>2, BasicControl DEF Exit
  <2> QED
    BY <1>1, <1>2, <2>1, QuietStep
<1>3. CASE files' = files \ {mine[p]} /\ Goto(p, "idle")
  <2>1. ControlStep(p) /\ pc'[p] = "idle" /\ holds' = holds
    BY <1>3, BasicControl DEF Goto, Points
  <2>2. DeadLink => DeadLink'
    BY <1>1, <2>1 DEF DeadLink, Alive, ControlStep, PidFiles, Owner
  <2>3. mine[p] # link
    BY <1>1 DEF PidfileInv, InLock
  <2> QED
    BY <1>1, <1>3, <2>1, <2>2, <2>3
       DEF ControlStep, RecoveryInv, HolderInv, ProbeInv, UnlockInv, CleanerInv, Linked
<1> QED
  BY <1>2, <1>3 DEF Cleanup

\* A process disappears, at any point.
LEMMA CrashRecovers ==
    ASSUME IInv, RecoveryInv, NEW p \in Procs, Crash(p)
    PROVE  RecoveryInv'
<1> USE DEF IInv, TypeOK
<1>1. /\ UNCHANGED <<link, files, op, mine, target, seen, held>>
      /\ ControlStep(p) /\ pc[p] # "dead" /\ pc'[p] = "dead" /\ ~holds'[p]
  BY BasicControl DEF Crash, Exit
<1> QED
  BY <1>1, QuietStep

\* Every step keeps RecoveryInv, as long as one process cleans up at a time and
\* starts to on a stale lock.
LEMMA NextRecovers ==
    ASSUME IInv, RecoveryInv, ForeignInv, SoleCleaner, [Next /\ StaleAtProbe]_vars
    PROVE  RecoveryInv'
<1>1. CASE UNCHANGED vars
  BY <1>1 DEF vars, procVars, RecoveryInv, HolderInv, ProbeInv, UnlockInv, CleanerInv,
     Linked, DeadLink, Alive
<1>2. ASSUME StaleAtProbe, NEW p \in Procs, Step(p) PROVE RecoveryInv'
  BY <1>2, SymlinkRecovers, ReadLockfileRecovers, ProbeRecovers, ReadlinkRecovers,
     NukeRecovers, RemoveTargetRecovers, RemoveLinkRecovers, CleanupRecovers DEF Step
<1> QED
  BY <1>1, <1>2, CallsRecover, CrashRecovers DEF Next

\* Processes may disappear anywhere, as many as there are, and the lock still has
\* one holder at a time, and Unlock still gives ErrRogueDeletion to no holder, as
\* long as the cleaning up in lockWith is serialized: one process at a time, and
\* each starts while the link is the dead process's.  Each of the two conditions
\* is needed (lockWith, checkLockfile and Unlock).
THEOREM SerializedCleanersExclude ==
    Spec /\ [][StaleAtProbe]_vars /\ []SoleCleaner =>
        []( /\ MutualExclusion
            /\ \A p \in Procs :
                 pc[p] = "idle" /\ op[p] = "Unlock" /\ res[p] = "rogue" => ~held[p] )
<1> DEFINE Kept ==
       /\ MutualExclusion
       /\ \A p \in Procs :
            pc[p] = "idle" /\ op[p] = "Unlock" /\ res[p] = "rogue" => ~held[p]
<1>1. Init => RecoveryInv
  BY DEF Init, RecoveryInv, HolderInv, ProbeInv, UnlockInv, CleanerInv
<1>2. IInv /\ RecoveryInv /\ ForeignInv /\ SoleCleaner /\ [Next]_vars /\ [StaleAtProbe]_vars
        => RecoveryInv'
  BY NextRecovers
<1>3. Init => ForeignInv
  BY DEF Init, ForeignInv
<1>4. IInv /\ ForeignInv /\ [Next]_vars => ForeignInv'
  BY ForeignStep
<1>5. IInv /\ RecoveryInv => Kept
  BY LockfileAssumption DEF IInv, TypeOK, Regular, RecoveryInv, HolderInv, UnlockInv, Linked,
     MutualExclusion
<1> HIDE DEF Kept
<1>6. Spec /\ [][StaleAtProbe]_vars /\ []SoleCleaner => []Kept
  BY <1>1, <1>2, <1>3, <1>4, <1>5, Invariance, PTL DEF Spec
<1> QED
  BY <1>6 DEF Kept

\* A process that disappeared holds nothing.
DeadInv == \A p \in Procs : pc[p] = "dead" => ~holds[p]

\* Every step keeps it.
LEMMA DeadStep == ASSUME IInv, IInv', DeadInv, [Next]_vars PROVE DeadInv'
<1> USE DEF IInv, TypeOK, DeadInv
<1>1. CASE UNCHANGED vars
  BY <1>1 DEF vars, procVars
<1>2. ASSUME NEW p \in Procs,
             /\ pc' \in [Procs -> Points] /\ holds' \in [Procs -> BOOLEAN]
             /\ \A q \in Procs \ {p} : pc'[q] = pc[q] /\ holds'[q] = holds[q]
             /\ pc'[p] = "dead" => ~holds'[p]
      PROVE DeadInv'
  BY <1>2
<1>3. ASSUME NEW p \in Procs, NEW m \in {"TryLock", "Lock"}, CallLock(p, m) \/ CallLockFails(p, m)
      PROVE DeadInv'
  <2>1. CASE CallLock(p, m)
    BY <2>1, <1>2 DEF CallLock
  <2>2. CASE CallLockFails(p, m)
    BY <2>2, <1>2 DEF CallLockFails, Exit
  <2> QED
    BY <1>3, <2>1, <2>2
<1>4. ASSUME NEW p \in Procs, CallUnlock(p) PROVE DeadInv'
  BY <1>4, <1>2 DEF CallUnlock
<1>5. ASSUME NEW p \in Procs, Symlink(p) \/ ReadLockfile(p) \/ Probe(p) PROVE DeadInv'
  <2>1. ControlStep(p) /\ pc'[p] # "dead"
    <3>1. CASE Symlink(p)
      BY <3>1, LockWithControl, BasicControl DEF Symlink, Goto, Points, Results
    <3>2. CASE ReadLockfile(p)
      BY <3>2, CheckControlLock, CheckControlUnlock, BasicControl DEF ReadLockfile, Goto, Points
    <3>3. CASE Probe(p)
      BY <3>3, CheckControlLock, CheckControlUnlock DEF Probe
    <3> QED
      BY <1>5, <3>1, <3>2, <3>3
  <2> QED
    BY <2>1, <1>2 DEF ControlStep
<1>6. ASSUME NEW p \in Procs, Readlink(p) PROVE DeadInv'
  <2>1. ControlStep(p) /\ pc'[p] # "dead"
    BY <1>6, LockWithControl, BasicControl DEF Readlink, Goto, Return, Points, Results
  <2> QED
    BY <2>1, <1>2 DEF ControlStep
<1>7. ASSUME NEW p \in Procs, RemoveTarget(p) \/ RemoveLink(p) PROVE DeadInv'
  <2>1. ControlStep(p) /\ pc'[p] # "dead"
    BY <1>7, FailsControl, BasicControl DEF RemoveTarget, RemoveLink, Goto, Return, Points, Results
  <2> QED
    BY <2>1, <1>2 DEF ControlStep
<1>8. ASSUME NEW p \in Procs, Nuke(p) \/ Cleanup(p) \/ Crash(p) PROVE DeadInv'
  <2>1. ControlStep(p) /\ (pc'[p] = "dead" => ~holds'[p])
    BY <1>8, BasicControl DEF Nuke, Cleanup, Crash, Goto, Return, Exit, Points, Results
  <2> QED
    BY <2>1, <1>2 DEF ControlStep
<1> QED
  BY <1>1, <1>3, <1>4, <1>5, <1>6, <1>7, <1>8 DEF Next, Step

\* With two processes ("Two concurrent invocations of this program", package
\* comment) the lock has one holder at a time whatever happens: if one disappears,
\* the other has nobody to share the lock with, however it cleans up.
THEOREM TwoProcessesExclude ==
    ASSUME NEW a, NEW b, Procs = {a, b}
    PROVE  Spec => []MutualExclusion
<1>1. Init => DeadInv
  BY DEF Init, DeadInv
<1>2. IInv /\ IInv' /\ DeadInv /\ [Next]_vars => DeadInv'
  BY DeadStep
<1>3. IInv /\ DeadInv => MutualExclusion
  <2> SUFFICES ASSUME IInv, DeadInv, NEW p \in Procs, NEW q \in Procs, holds[p], holds[q]
               PROVE  p = q
    BY DEF MutualExclusion
  <2>1. CASE AllAlive
    BY <2>1, LockfileAssumption DEF IInv, TypeOK, Regular, LiveInv, HolderInv, Linked
  <2>2. CASE ~AllAlive
    BY <2>2 DEF DeadInv, AllAlive, Alive
  <2> QED
    BY <2>1, <2>2
<1> QED
  BY <1>1, <1>2, <1>3, Invariance, PTL DEF Spec

-----------------------------------------------------------------------------
(***************************************************************************)
(* The file lock implements AbstractLock.                                  *)
(***************************************************************************)

Clients == [p \in Procs |-> Phase(p)]

\* A step of p, as far as clients can see it.
StepOf(p) ==
    /\ pc[p] # "dead"
    /\ pc' \in [Procs -> Points] /\ holds' \in [Procs -> BOOLEAN]
    /\ \A q \in Procs \ {p} : pc'[q] = pc[q] /\ holds'[q] = holds[q] /\ op'[q] = op[q]

\* It moves p and no other client.
LEMMA MovesOne ==
    ASSUME TypeOK, NEW p \in Procs, StepOf(p)
    PROVE  /\ Clients' = [Clients EXCEPT ![p] = Phase(p)']
           /\ Clients[p] = Phase(p)
<1>1. \A q \in Procs \ {p} : Phase(q)' = Phase(q)
  BY DEF StepOf, Phase
<1> QED
  BY <1>1 DEF Clients

\* The phase of a client and what it stands for.
LEMMA PhaseCases ==
    ASSUME TypeOK, NEW p \in Procs
    PROVE  /\ Phase(p) \in Abs!Phases
           /\ Phase(p) = "dead" <=> pc[p] = "dead"
           /\ pc[p] # "dead" /\ holds[p] => Phase(p) = "in"
           /\ pc[p] = "idle" /\ ~holds[p] => Phase(p) = "out"
           /\ pc[p] \notin {"dead", "idle"} /\ ~holds[p] =>
                Phase(p) = IF op[p] = "Unlock" THEN "leaving" ELSE "trying"
  BY DEF Phase, Abs!Phases, TypeOK

\* Who owns the lock.
LEMMA OwnerCases ==
    /\ link \in PidFiles => LockOwner = Owner(link)
    /\ link = NoLink => LockOwner = NoLink
    /\ link \in Regular => LockOwner = link
  BY LockfileAssumption DEF LockOwner

\* The same after a step.
LEMMA PhaseCasesNext ==
    ASSUME TypeOK', NEW p \in Procs
    PROVE  /\ Phase(p)' \in Abs!Phases
           /\ Phase(p)' = "dead" <=> pc'[p] = "dead"
           /\ pc'[p] # "dead" /\ holds'[p] => Phase(p)' = "in"
           /\ pc'[p] = "idle" /\ ~holds'[p] => Phase(p)' = "out"
           /\ pc'[p] \notin {"dead", "idle"} /\ ~holds'[p] =>
                Phase(p)' = IF op'[p] = "Unlock" THEN "leaving" ELSE "trying"
  BY DEF Phase, Abs!Phases, TypeOK

LEMMA OwnerCasesNext ==
    /\ link' \in PidFiles => LockOwner' = Owner(link')
    /\ link' = NoLink => LockOwner' = NoLink
    /\ link' \in Regular => LockOwner' = link'
    /\ link' = link => LockOwner' = LockOwner
  BY LockfileAssumption DEF LockOwner

\* Once somebody is dead, every step of p that leaves the lock as it is, removes
\* it or makes it p's own is a step of Recover.
LEMMA RecoverStep ==
    ASSUME TypeOK, TypeOK', ~AllAlive, NEW p \in Procs, StepOf(p),
           link' = link \/ link' = NoLink \/ (link' \in PidFiles /\ Owner(link') = p),
           link = Foreign => link' = Foreign
    PROVE  Abs!Next
<1>1. /\ Clients' = [Clients EXCEPT ![p] = Phase(p)']
      /\ Clients[p] # "dead" /\ Phase(p)' \in Abs!Phases
  BY MovesOne, PhaseCases, PhaseCasesNext DEF StepOf
<1>2. \E q \in Procs : Clients[q] = "dead"
  BY PhaseCases DEF AllAlive, Alive, Clients
<1>3. LockOwner' \in {LockOwner, NoLink, p}
  BY OwnerCasesNext
<1>4. LockOwner = Foreign => LockOwner' = Foreign
  <2>1. LockOwner = Foreign => link = Foreign
    BY LockfileAssumption DEF LockOwner, TypeOK, Regular, PidFiles, Owner
  <2> QED
    BY <2>1, OwnerCasesNext DEF Regular
<1>5. Abs!Recover(p)
  BY <1>1, <1>2, <1>3, <1>4 DEF Abs!Recover, Abs!Move, Clients
<1> QED
  BY <1>5 DEF Abs!Next

\* While all are alive, a step of a call in progress does one of four things to
\* the lock, and each is a step of AbstractLock or none.
LEMMA CallStep ==
    ASSUME TypeOK, TypeOK', NEW p \in Procs, StepOf(p), op' = op, pc[p] # "idle",
           op[p] = "Unlock" => ~holds[p],
           \/ /\ op[p] # "Unlock" /\ pc'[p] = "idle" /\ holds'[p] /\ LockOwner' = p
              /\ LockOwner = p \/ (LockOwner = NoLink /\ ~holds[p])
           \/ LockOwner' = LockOwner /\ pc'[p] # "dead" /\ holds'[p] = holds[p]
           \/ LockOwner' = LockOwner /\ pc'[p] = "dead"
           \/ /\ op[p] = "Unlock" /\ pc'[p] = "idle" /\ ~holds'[p]
              /\ LockOwner = p /\ LockOwner' = NoLink
    PROVE  [Abs!Next]_Abs!vars
<1>1. /\ Clients' = [Clients EXCEPT ![p] = Phase(p)'] /\ Clients[p] = Phase(p)
      /\ pc[p] # "dead" /\ Clients \in [Procs -> Abs!Phases]
  BY MovesOne, PhaseCases DEF StepOf, Clients
<1>2. ASSUME Phase(p)' = Phase(p) PROVE Clients' = Clients
  BY <1>1, <1>2
<1> USE DEF Abs!Next, Abs!vars, Abs!Move, Clients
<1>3. CASE /\ op[p] # "Unlock" /\ pc'[p] = "idle" /\ holds'[p] /\ LockOwner' = p
           /\ LockOwner = p \/ (LockOwner = NoLink /\ ~holds[p])
  <2>1. CASE holds[p]
    BY <1>1, <1>2, <1>3, <2>1, PhaseCases, PhaseCasesNext
  <2>2. CASE ~holds[p]
    BY <1>1, <1>3, <2>2, PhaseCases, PhaseCasesNext DEF Abs!Take
  <2> QED
    BY <2>1, <2>2
<1>4. CASE LockOwner' = LockOwner /\ pc'[p] # "dead" /\ holds'[p] = holds[p]
  <2>1. CASE holds[p] \/ pc'[p] # "idle"
    BY <1>1, <1>2, <1>4, <2>1, PhaseCases, PhaseCasesNext
  <2>2. CASE ~holds[p] /\ pc'[p] = "idle" /\ op[p] = "Unlock"
    BY <1>1, <1>4, <2>2, PhaseCases, PhaseCasesNext DEF Abs!Stay
  <2>3. CASE ~holds[p] /\ pc'[p] = "idle" /\ op[p] # "Unlock"
    BY <1>1, <1>4, <2>3, PhaseCases, PhaseCasesNext DEF Abs!GiveUp
  <2> QED
    BY <2>1, <2>2, <2>3
<1>5. CASE LockOwner' = LockOwner /\ pc'[p] = "dead"
  BY <1>1, <1>5, PhaseCases, PhaseCasesNext DEF Abs!Die
<1>6. CASE /\ op[p] = "Unlock" /\ pc'[p] = "idle" /\ ~holds'[p]
           /\ LockOwner = p /\ LockOwner' = NoLink
  BY <1>1, <1>6, PhaseCases, PhaseCasesNext DEF Abs!Free
<1> QED
  BY <1>3, <1>4, <1>5, <1>6

\* lockWith returned nil: the client holds the lock.
LEMMA LockWithNil ==
    ASSUME TypeOK, NEW p \in Procs, op[p] # "Unlock", LockWithReturns(p, "nil")
    PROVE  pc'[p] = "idle" /\ holds'[p]
  BY DEF LockWithReturns, CallerNoCleanup, Return, TypeOK

\* What the steps of p have in common, whoever is alive.
LEMMA Footprint ==
    ASSUME IInv, IInv', NEW p \in Procs,
           \/ \E m \in {"TryLock", "Lock"} : CallLock(p, m) \/ CallLockFails(p, m)
           \/ CallUnlock(p) \/ Step(p) \/ Crash(p)
    PROVE  /\ StepOf(p)
           /\ link' = link \/ link' = NoLink \/ (link' \in PidFiles /\ Owner(link') = p)
<1> USE DEF IInv, TypeOK, StepOf
<1>1. CASE \E m \in {"TryLock", "Lock"} : CallLock(p, m) \/ CallLockFails(p, m)
  BY <1>1 DEF CallLock, CallLockFails, Exit
<1>2. CASE CallUnlock(p)
  BY <1>2 DEF CallUnlock
<1>3. CASE Symlink(p)
  <2>1. mine[p] \in PidFiles /\ Owner(mine[p]) = p
    BY <1>3 DEF Symlink, PidfileInv, PathInv, InLock
  <2> QED
    BY <1>3, <2>1, LockWithControl, BasicControl DEF Symlink, ControlStep, Points, Results
<1>4. CASE ReadLockfile(p)
  BY <1>4, CheckControlLock, CheckControlUnlock, BasicControl DEF ReadLockfile, ControlStep, Points
<1>5. CASE Probe(p)
  BY <1>5, CheckControlLock, CheckControlUnlock DEF Probe, ControlStep
<1>6. CASE Readlink(p)
  BY <1>6, LockWithControl, BasicControl DEF Readlink, ControlStep, Points, Results
<1>7. CASE Nuke(p)
  BY <1>7, BasicControl DEF Nuke, ControlStep, Results
<1>8. CASE RemoveTarget(p)
  BY <1>8, FailsControl, BasicControl DEF RemoveTarget, ControlStep, Points, Results
<1>9. CASE RemoveLink(p)
  BY <1>9, FailsControl, BasicControl DEF RemoveLink, ControlStep, Points, Results
<1>10. CASE Cleanup(p) \/ Crash(p)
  BY <1>10, BasicControl DEF Cleanup, Crash, ControlStep, Points
<1> QED
  BY <1>1, <1>2, <1>3, <1>4, <1>5, <1>6, <1>7, <1>8, <1>9, <1>10 DEF Step

\* While all are alive, a call or a crash is a step of AbstractLock or none.
LEMMA ClientRefines ==
    ASSUME IInv, IInv', NEW p \in Procs,
           \/ \E m \in {"TryLock", "Lock"} : CallLock(p, m) \/ CallLockFails(p, m)
           \/ CallUnlock(p) \/ Crash(p)
    PROVE  [Abs!Next]_Abs!vars
<1>1. /\ Clients' = [Clients EXCEPT ![p] = Phase(p)'] /\ Clients[p] = Phase(p)
      /\ LockOwner' = LockOwner /\ pc[p] # "dead" /\ Clients \in [Procs -> Abs!Phases]
  BY Footprint, MovesOne, PhaseCases, OwnerCasesNext
     DEF IInv, StepOf, Clients, CallLock, CallLockFails, CallUnlock, Crash
<1>2. ASSUME Phase(p)' = Phase(p) PROVE Clients' = Clients
  BY <1>1, <1>2
<1> USE DEF Abs!Next, Abs!vars, Abs!Move, Clients, IInv
<1>3. CASE pc'[p] = "dead"
  BY <1>1, <1>3, PhaseCases, PhaseCasesNext DEF Abs!Die
<1>4. CASE CallUnlock(p)
  <2>1. Phase(p) \in {"in", "out"} /\ Phase(p)' = "leaving"
    BY <1>4, PhaseCases, PhaseCasesNext DEF CallUnlock, TypeOK
  <2> QED
    BY <1>1, <2>1 DEF Abs!Leave
<1>5. ASSUME NEW m \in {"TryLock", "Lock"}, CallLock(p, m) PROVE [Abs!Next]_Abs!vars
  <2>1. \/ holds[p] /\ Phase(p) = "in" /\ Phase(p)' = "in"
        \/ ~holds[p] /\ Phase(p) = "out" /\ Phase(p)' = "trying"
    BY <1>5, PhaseCases, PhaseCasesNext DEF CallLock, TypeOK
  <2> QED
    BY <1>1, <1>2, <2>1 DEF Abs!Try
<1>6. ASSUME NEW m \in {"TryLock", "Lock"}, CallLockFails(p, m), pc'[p] # "dead"
      PROVE [Abs!Next]_Abs!vars
  <2>1. Phase(p)' = Phase(p)
    BY <1>6, PhaseCases, PhaseCasesNext DEF CallLockFails, Exit, TypeOK
  <2> QED
    BY <1>1, <1>2, <2>1
<1> QED
  BY <1>3, <1>4, <1>5, <1>6 DEF Crash, Exit, TypeOK

\* While all are alive, a system call is a step of AbstractLock or none.
LEMMA SystemCallRefines ==
    ASSUME IInv, IInv', AllAlive, NEW p \in Procs, Step(p)
    PROVE  [Abs!Next]_Abs!vars
<1> USE DEF IInv, TypeOK, Regular
<1>1. StepOf(p) /\ (op[p] = "Unlock" => ~holds[p]) /\ LiveInv
  BY Footprint DEF PathInv
<1>2. holds[p] => LockOwner = p
  BY <1>1, OwnerCases DEF LiveInv, HolderInv, Linked
<1>3. CASE Symlink(p)
  <2>1. pc[p] = "symlink" /\ op[p] # "Unlock" /\ op' = op /\ mine[p] \in PidFiles /\ Owner(mine[p]) = p
    BY <1>3 DEF Symlink, PidfileInv, PathInv, InLock
  <2>2. CASE link = NoLink /\ link' = mine[p] /\ LockWithReturns(p, "nil")
    BY <1>1, <1>2, <2>1, <2>2, LockWithNil, OwnerCases, OwnerCasesNext, CallStep, LockfileAssumption
  <2>3. CASE link' = link /\ holds' = holds /\ pc'[p] # "dead"
    BY <1>1, <2>1, <2>3, OwnerCasesNext, CallStep
  <2> QED
    BY <1>3, <2>2, <2>3, LockWithControl DEF Symlink, Goto, Results
<1>4. CASE ReadLockfile(p)
  <2>1. pc[p] = "check" /\ op' = op /\ link' = link /\ holds' = holds /\ pc'[p] # "dead"
    BY <1>4, CheckControlLock, CheckControlUnlock DEF ReadLockfile, Goto
  <2> QED
    BY <1>1, <2>1, OwnerCasesNext, CallStep
<1>5. CASE Probe(p)
  <2>1. pc[p] = "probe" /\ op' = op /\ link' = link /\ pc'[p] # "dead"
    BY <1>5, CheckControlLock, CheckControlUnlock DEF Probe
  <2>2. CASE op[p] # "Unlock" /\ seen[p] = p
    <3>1. LockWithReturns(p, "nil")
      BY <1>5, <2>2 DEF Probe, AllAlive, CheckReturns
    <3>2. LockOwner = p
      BY <1>1, <2>1, <2>2, OwnerCases DEF LiveInv, ProbeInv, Linked
    <3> QED
      BY <1>1, <2>1, <2>2, <3>1, <3>2, LockWithNil, OwnerCasesNext, CallStep
  <2>3. CASE op[p] = "Unlock" \/ seen[p] # p
    <3>1. holds' = holds
      BY <1>5, <2>3, CheckControlLock, CheckControlUnlock DEF Probe, AllAlive
    <3> QED
      BY <1>1, <2>1, <3>1, OwnerCasesNext, CallStep
  <2> QED
    BY <2>2, <2>3
<1>6. CASE Readlink(p)
  <2>1. pc[p] = "readlink" /\ op' = op /\ link' = link /\ holds' = holds /\ pc'[p] # "dead"
    BY <1>6, LockWithControl DEF Readlink, Goto, Return, Results
  <2> QED
    BY <1>1, <2>1, OwnerCasesNext, CallStep
<1>7. CASE Nuke(p)
  <2>1. pc[p] = "nuke" /\ op[p] = "Unlock" /\ op' = op /\ LockOwner = p
    BY <1>1, <1>7, OwnerCases DEF Nuke, PathInv, LiveInv, UnlockInv, Linked
  <2>2. \/ link' = NoLink /\ pc'[p] = "idle" /\ ~holds'[p]
        \/ link' = link /\ pc'[p] = "dead"
    BY <1>1, <1>7, <2>1 DEF Nuke, Return, Exit
  <2> QED
    BY <1>1, <2>1, <2>2, OwnerCasesNext, CallStep
<1>8. CASE RemoveTarget(p)
  <2>1. pc[p] = "rmtarget" /\ op' = op /\ link' = link /\ holds' = holds /\ pc'[p] # "dead"
    BY <1>8, FailsControl DEF RemoveTarget, Goto, Return
  <2> QED
    BY <1>1, <2>1, OwnerCasesNext, CallStep
<1>9. CASE RemoveLink(p)
  <2>1. pc[p] = "rmlink" /\ op[p] = "Unlock" /\ op' = op /\ LockOwner = p /\ link \in PidFiles
    BY <1>1, <1>9, OwnerCases DEF RemoveLink, LiveInv, StealInv, UnlockInv
  <2>2. /\ pc'[p] = "idle" /\ holds' = holds
        /\ link' = link \/ link' = NoLink
    BY <1>9, <2>1, FailsControl DEF RemoveLink, Return
  <2> QED
    BY <1>1, <2>1, <2>2, OwnerCasesNext, CallStep
<1>10. CASE Cleanup(p)
  <2>1. /\ pc[p] = "cleanup" /\ op' = op /\ link' = link
        /\ pc'[p] = "dead" \/ (pc'[p] # "dead" /\ holds' = holds)
    BY <1>10 DEF Cleanup, Goto, Exit
  <2> QED
    BY <1>1, <2>1, OwnerCasesNext, CallStep
<1> QED
  BY <1>3, <1>4, <1>5, <1>6, <1>7, <1>8, <1>9, <1>10 DEF Step

\* Every step of the file lock is a step of AbstractLock or none.
LEMMA StepRefines ==
    ASSUME IInv, IInv', ForeignInv, [Next]_vars
    PROVE  [Abs!Next]_Abs!vars
<1>1. CASE UNCHANGED vars
  BY <1>1 DEF vars, procVars, Abs!vars, LockOwner, Phase
<1>2. CASE Next
  <2>1. PICK p \in Procs :
           \/ \E m \in {"TryLock", "Lock"} : CallLock(p, m) \/ CallLockFails(p, m)
           \/ CallUnlock(p) \/ Step(p) \/ Crash(p)
    BY <1>2 DEF Next
  <2>2. CASE AllAlive
    BY <2>1, <2>2, ClientRefines, SystemCallRefines
  <2>3. CASE ~AllAlive
    <3>1. link = Foreign => link' = Foreign
      BY <1>2, ForeignStep, LockfileAssumption DEF Regular, LeftAlone
    <3> QED
      BY <2>1, <2>3, <3>1, Footprint, RecoverStep DEF IInv
  <2> QED
    BY <2>2, <2>3
<1> QED
  BY <1>1, <1>2

\* The system calls of TryLock, Lock and Unlock implement a lock that is taken
\* and given back in one step, for any number of processes, whatever fails.
THEOREM FileLockRefinesAbstractLock == Spec => ImplementsLock
<1>1. Init => Abs!Init
  <2> SUFFICES ASSUME Init PROVE Abs!Init
    OBVIOUS
  <2>1. LockOwner \in Procs \cup {NoLink, Foreign}
    BY OwnerCases DEF Init, Regular
  <2>2. [p \in Procs |-> Phase(p)] = [p \in Procs |-> "out"]
    BY DEF Init, Phase
  <2> QED
    BY <2>1, <2>2 DEF Abs!Init
<1>2. Init => ForeignInv
  BY DEF Init, ForeignInv
<1>3. IInv /\ ForeignInv /\ [Next]_vars => ForeignInv'
  BY ForeignStep
<1>4. IInv /\ IInv' /\ ForeignInv /\ [Next]_vars => [Abs!Next]_Abs!vars
  BY StepRefines
<1> QED
  BY <1>1, <1>2, <1>3, <1>4, Invariance, PTL DEF Spec, ImplementsLock, Abs!Spec

=============================================================================
