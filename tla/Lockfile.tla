------------------------------ MODULE Lockfile ------------------------------
(***************************************************************************)
(* The process-based file lock of u-root, pkg/lockfile/lockfile.go.        *)
(*                                                                         *)
(* The lock is a symbolic link at a well-known path; the link points to a  *)
(* pid file that its creator wrote beforehand.  Every system call is one   *)
(* atomic step here and everything between two system calls belongs to     *)
(* the step of the first one, so that the steps of several processes       *)
(* interleave exactly at the system calls, as they do on the file system.  *)
(*                                                                         *)
(* A pid file is named <<p, k>>: written by process p under its k-th       *)
(* random name.  os.CreateTemp never returns a name that exists, and its   *)
(* random names do not repeat, so that a name is used again only when      *)
(* nothing in the system refers to it any more (operator Fresh).           *)
(*                                                                         *)
(* Something else than a link may be at the path from the start, and what  *)
(* it holds is never written again: the pid of a process, which the code   *)
(* takes for a lock of that process, or anything else.                     *)
(***************************************************************************)
EXTENDS Integers, FiniteSets

CONSTANTS
    Procs,        \* the processes (their pids)
    Slots,        \* bound: how many of its pid files can exist at once, per process
    NoLink,       \* nothing exists at the path of the lock
    Foreign,      \* a file that is no link and holds no pid of Procs exists at that path
    SysErrors,    \* the system calls that may fail for a reason of their own
    CrashPoints,  \* program points at which a process may be killed
    MaxCrashes    \* bound: how many processes may be killed

PidFiles == Procs \X Slots
Owner(f) == f[1]
NoFile == <<>>

\* What is at the path and is no link: a process stands for a file with its pid.
Regular == Procs \cup {Foreign}

ASSUME LockfileAssumption ==
    /\ NoLink # Foreign /\ NoLink \notin Procs /\ Foreign \notin Procs
    /\ NoLink \notin PidFiles /\ Regular \cap PidFiles = {} /\ NoFile \notin PidFiles
    /\ SysErrors \subseteq {"create", "symlink", "read", "readlink", "remove"}
    /\ MaxCrashes \in Nat

VARIABLES
    link,     \* what is at the path of the lock
    files,    \* the pid files in its directory
    pc,       \* where each process is
    op,       \* the method it called
    again,    \* Lock only: lockWith is being called for the second time
    mine,     \* pidpath: the pid file written for this call
    target,   \* the target that os.Readlink returned
    seen,     \* the pid that checkLockfile read and has not probed yet
    res,      \* what the last completed call returned
    holds,    \* a lock call returned nil and Unlock was not called since
    held      \* holds, at the time of the last call

procVars == <<pc, op, again, mine, target, seen, res, holds, held>>
vars == <<link, files, procVars>>

Points == {"idle", "symlink", "check", "probe", "readlink", "rmtarget",
           "rmlink", "nuke", "cleanup", "dead"}
Results == {"none", "nil", "busy", "error", "rogue"}

TypeOK ==
    /\ link \in PidFiles \cup Regular \cup {NoLink}
    /\ files \subseteq PidFiles
    /\ pc \in [Procs -> Points]
    /\ op \in [Procs -> {"TryLock", "Lock", "Unlock"}]
    /\ again \in [Procs -> BOOLEAN]
    /\ mine \in [Procs -> PidFiles \cup {NoFile}]
    /\ target \in [Procs -> PidFiles \cup {NoFile}]
    /\ seen \in [Procs -> Procs]
    /\ res \in [Procs -> Results]
    /\ holds \in [Procs -> BOOLEAN]
    /\ held \in [Procs -> BOOLEAN]

Init ==
    /\ link \in Regular \cup {NoLink}
    /\ files = {}
    /\ pc = [p \in Procs |-> "idle"]
    /\ op = [p \in Procs |-> "TryLock"]
    /\ again = [p \in Procs |-> FALSE]
    /\ mine = [p \in Procs |-> NoFile]
    /\ target = [p \in Procs |-> NoFile]
    /\ seen = [p \in Procs |-> p]
    /\ res = [p \in Procs |-> "none"]
    /\ holds = [p \in Procs |-> FALSE]
    /\ held = [p \in Procs |-> FALSE]

-----------------------------------------------------------------------------
(***************************************************************************)
(* Control flow between the system calls.                                  *)
(***************************************************************************)

Alive(p) == pc[p] # "dead"

MayFail(call) == call \in SysErrors

\* The link exists and its target does not: os.Symlink reports that it exists,
\* os.ReadFile, which follows it, that it does not.
Dangling == link \in PidFiles \ files

Fresh(f) == f \notin files /\ f # link /\ \A q \in Procs : f # target[q]

Goto(p, point) ==
    /\ pc' = [pc EXCEPT ![p] = point]
    /\ UNCHANGED <<again, res, holds>>

\* The call in progress returns r to the client.
Return(p, r) ==
    /\ pc' = [pc EXCEPT ![p] = "idle"]
    /\ res' = [res EXCEPT ![p] = r]
    /\ holds' = [holds EXCEPT ![p] = IF op[p] # "Unlock" /\ r = "nil" THEN TRUE ELSE @]
    /\ UNCHANGED again

\* The process is gone: killed, or log.Fatalf.
Exit(p) ==
    /\ pc' = [pc EXCEPT ![p] = "dead"]
    /\ holds' = [holds EXCEPT ![p] = FALSE]
    /\ UNCHANGED <<again, res>>

\* lockWith returns r to TryLock or Lock.  The second call of lockWith in Lock
\* is a tail call: its result goes to the client and nothing is cleaned up.
CallerNoCleanup(p, r) == r = "nil" \/ again[p]

LockWithReturns(p, r) ==
    \/ CallerNoCleanup(p, r) /\ Return(p, r)
    \/ /\ ~CallerNoCleanup(p, r) /\ op[p] = "Lock" /\ r = "busy"
       /\ pc' = [pc EXCEPT ![p] = "symlink"]
       /\ again' = [again EXCEPT ![p] = TRUE]
       /\ UNCHANGED <<res, holds>>
    \/ /\ ~CallerNoCleanup(p, r) /\ ~(op[p] = "Lock" /\ r = "busy")
       /\ pc' = [pc EXCEPT ![p] = "cleanup"]
       /\ res' = [res EXCEPT ![p] = r]
       /\ UNCHANGED <<again, holds>>

\* Mutant: Unlock does not care whose lock it is.
CheckReturns_UnlockAnyone(p, c) ==
    \/ op[p] = "Unlock" /\ c \in {"nil", "busy"} /\ Goto(p, "readlink")
    \/ op[p] = "Unlock" /\ c \in {"unlocked", "invalid", "dead"} /\ Return(p, "rogue")
    \/ op[p] = "Unlock" /\ c = "error" /\ Return(p, "error")
    \/ op[p] # "Unlock" /\ c = "unlocked" /\ Goto(p, "symlink")
    \/ op[p] # "Unlock" /\ c \in {"invalid", "dead"} /\ Goto(p, "readlink")
    \/ op[p] # "Unlock" /\ c \in {"nil", "busy", "error"} /\ LockWithReturns(p, c)

\* Mutant: a dead owner makes lockWith retry without removing the lock.
CheckReturns_DeadRetries(p, c) ==
    \/ op[p] = "Unlock" /\ c = "nil" /\ Goto(p, "readlink")
    \/ op[p] = "Unlock" /\ c \in {"unlocked", "invalid", "dead", "busy"} /\ Return(p, "rogue")
    \/ op[p] = "Unlock" /\ c = "error" /\ Return(p, "error")
    \/ op[p] # "Unlock" /\ c \in {"unlocked", "dead"} /\ Goto(p, "symlink")
    \/ op[p] # "Unlock" /\ c = "invalid" /\ Goto(p, "readlink")
    \/ op[p] # "Unlock" /\ c \in {"nil", "busy", "error"} /\ LockWithReturns(p, c)

\* checkLockfile returns c to lockWith or Unlock.
CheckReturns(p, c) ==
    \/ op[p] = "Unlock" /\ c = "nil" /\ Goto(p, "readlink")
    \/ op[p] = "Unlock" /\ c \in {"unlocked", "invalid", "dead", "busy"} /\ Return(p, "rogue")
    \/ op[p] = "Unlock" /\ c = "error" /\ Return(p, "error")
    \/ op[p] # "Unlock" /\ c = "unlocked" /\ Goto(p, "symlink")
    \/ op[p] # "Unlock" /\ c \in {"invalid", "dead"} /\ Goto(p, "readlink")
    \/ op[p] # "Unlock" /\ c \in {"nil", "busy", "error"} /\ LockWithReturns(p, c)

-----------------------------------------------------------------------------
(***************************************************************************)
(* The client's calls.                                                     *)
(***************************************************************************)

\* TryLock and Lock: pidfile() writes our pid to a file of its own.
CallLock(p, m) ==
    /\ pc[p] = "idle"
    /\ \E k \in Slots :
         /\ Fresh(<<p, k>>)
         /\ files' = files \cup {<<p, k>>}
         /\ mine' = [mine EXCEPT ![p] = <<p, k>>]
    /\ pc' = [pc EXCEPT ![p] = "symlink"]
    /\ op' = [op EXCEPT ![p] = m]
    /\ again' = [again EXCEPT ![p] = FALSE]
    /\ target' = [target EXCEPT ![p] = NoFile]
    /\ held' = [held EXCEPT ![p] = holds[p]]
    /\ UNCHANGED <<link, seen, res, holds>>

\* pidfile() fails: the call returns its error, or log.Fatalf ends the process
\* because the file that could not be written cannot be removed either.
CallLockFails(p, m) ==
    /\ pc[p] = "idle"
    /\ MayFail("create")
    /\ op' = [op EXCEPT ![p] = m]
    /\ held' = [held EXCEPT ![p] = holds[p]]
    /\ \/ res' = [res EXCEPT ![p] = "error"] /\ UNCHANGED <<pc, again, holds>>
       \/ MayFail("remove") /\ Exit(p)
    /\ UNCHANGED <<link, files, mine, target, seen>>

\* From here on the client no longer counts on the lock.
CallUnlock(p) ==
    /\ pc[p] = "idle"
    /\ pc' = [pc EXCEPT ![p] = "check"]
    /\ op' = [op EXCEPT ![p] = "Unlock"]
    /\ holds' = [holds EXCEPT ![p] = FALSE]
    /\ held' = [held EXCEPT ![p] = holds[p]]
    /\ mine' = [mine EXCEPT ![p] = NoFile]
    /\ target' = [target EXCEPT ![p] = NoFile]
    /\ UNCHANGED <<link, files, again, seen, res>>

-----------------------------------------------------------------------------
(***************************************************************************)
(* The system calls.                                                       *)
(***************************************************************************)

\* Mutant: the link is made to point to the wrong path.
Symlink_WrongTarget(p) ==
    /\ pc[p] = "symlink"
    /\ \/ /\ link = NoLink
          /\ link' = target[p]
          /\ LockWithReturns(p, "nil")
       \/ link # NoLink /\ Goto(p, "check") /\ UNCHANGED link
       \/ MayFail("symlink") /\ LockWithReturns(p, "error") /\ UNCHANGED link
    /\ UNCHANGED <<files, op, mine, target, seen, held>>

\* lockWith: os.Symlink(pidpath, l.path)
Symlink(p) ==
    /\ pc[p] = "symlink"
    /\ \/ /\ link = NoLink
          /\ link' = mine[p]
          /\ LockWithReturns(p, "nil")
       \/ link # NoLink /\ Goto(p, "check") /\ UNCHANGED link
       \/ MayFail("symlink") /\ LockWithReturns(p, "error") /\ UNCHANGED link
    /\ UNCHANGED <<files, op, mine, target, seen, held>>

\* Whose pid is at the path, in a pid file or in a file that is no link.
LockOwner == IF link \in PidFiles THEN Owner(link) ELSE link

\* checkLockfile: os.ReadFile(l.path).  It fails on a directory, too.
ReadLockfile(p) ==
    /\ pc[p] = "check"
    /\ \/ /\ link = NoLink \/ Dangling
          /\ CheckReturns(p, "unlocked")
          /\ UNCHANGED seen
       \/ link = Foreign /\ CheckReturns(p, "invalid") /\ UNCHANGED seen
       \/ /\ link \in files \cup Procs
          /\ seen' = [seen EXCEPT ![p] = LockOwner]
          /\ Goto(p, "probe")
       \/ MayFail("read") /\ CheckReturns(p, "error") /\ UNCHANGED seen
    /\ UNCHANGED <<link, files, op, mine, target, held>>

\* Mutant: only our own pid counts as alive.
Probe_OthersDead(p) ==
    /\ pc[p] = "probe"
    /\ \/ seen[p] # p /\ CheckReturns(p, "dead")
       \/ seen[p] = p /\ CheckReturns(p, "nil")
    /\ UNCHANGED <<link, files, op, mine, target, seen, held>>

\* checkLockfile: p.Signal(syscall.Signal(0))
Probe(p) ==
    /\ pc[p] = "probe"
    /\ \/ ~Alive(seen[p]) /\ CheckReturns(p, "dead")
       \/ Alive(seen[p]) /\ seen[p] = p /\ CheckReturns(p, "nil")
       \/ Alive(seen[p]) /\ seen[p] # p /\ CheckReturns(p, "busy")
    /\ UNCHANGED <<link, files, op, mine, target, seen, held>>

\* os.Readlink(l.path), in lockWith and in Unlock.  It fails on what is no link.
ReadlinkFails == link \in Regular \/ (link # NoLink /\ MayFail("readlink"))

Readlink(p) ==
    /\ pc[p] = "readlink"
    /\ \/ /\ link = NoLink
          /\ IF op[p] = "Unlock" THEN Return(p, "rogue") ELSE Goto(p, "symlink")
          /\ UNCHANGED target
       \/ /\ link \in PidFiles
          /\ target' = [target EXCEPT ![p] = link]
          /\ Goto(p, "rmtarget")
       \/ /\ ReadlinkFails
          /\ IF op[p] = "Unlock" THEN Goto(p, "nuke") ELSE LockWithReturns(p, "error")
          /\ UNCHANGED target
    /\ UNCHANGED <<link, files, op, mine, seen, held>>

\* Unlock, "The symlink is somehow screwed up. Just nuke it.": os.Remove(l.path)
Nuke(p) ==
    /\ pc[p] = "nuke"
    /\ \/ link # NoLink /\ link' = NoLink /\ Return(p, "error")
       \/ (link = NoLink \/ MayFail("remove")) /\ Exit(p) /\ UNCHANGED link
    /\ UNCHANGED <<files, op, mine, target, seen, held>>

\* A system call of lockWith or of Unlock fails for a reason of its own.
Fails(p) == IF op[p] = "Unlock" THEN Return(p, "error") ELSE LockWithReturns(p, "error")

\* Mutant: our own pid file is removed in place of the dead process's.
RemoveTarget_Pidpath(p) ==
    /\ pc[p] = "rmtarget"
    /\ files' = files \ {mine[p]}
    /\ Goto(p, "rmlink")
    /\ UNCHANGED <<link, op, mine, target, seen, held>>

\* os.Remove(absTarget): lockWith does not mind that it is gone, Unlock does.
RemoveTarget(p) ==
    /\ pc[p] = "rmtarget"
    /\ \/ /\ target[p] \in files \/ op[p] # "Unlock"
          /\ files' = files \ {target[p]}
          /\ Goto(p, "rmlink")
       \/ /\ target[p] \notin files /\ op[p] = "Unlock"
          /\ Return(p, "rogue")
          /\ UNCHANGED files
       \/ target[p] \in files /\ MayFail("remove") /\ Fails(p) /\ UNCHANGED files
    /\ UNCHANGED <<link, op, mine, target, seen, held>>

\* os.Remove(l.path): it removes whatever is at the path by now.
RemoveLink(p) ==
    /\ pc[p] = "rmlink"
    /\ \/ /\ link # NoLink
          /\ link' = NoLink
          /\ IF op[p] = "Unlock" THEN Return(p, "nil") ELSE Goto(p, "symlink")
       \/ /\ link = NoLink
          /\ IF op[p] = "Unlock" THEN Return(p, "rogue") ELSE Goto(p, "symlink")
          /\ UNCHANGED link
       \/ link # NoLink /\ MayFail("remove") /\ Fails(p) /\ UNCHANGED link
    /\ UNCHANGED <<files, op, mine, target, seen, held>>

\* TryLock and Lock: os.Remove(pidpath) after an error, log.Fatalf if that fails.
Cleanup(p) ==
    /\ pc[p] = "cleanup"
    /\ \/ mine[p] \in files /\ files' = files \ {mine[p]} /\ Goto(p, "idle")
       \/ (mine[p] \notin files \/ MayFail("remove")) /\ Exit(p) /\ UNCHANGED files
    /\ UNCHANGED <<link, op, mine, target, seen, held>>

\* The process disappears and leaves everything as it is.
Crash(p) ==
    /\ pc[p] \in CrashPoints \ {"dead"}
    /\ Cardinality({q \in Procs : ~Alive(q)}) < MaxCrashes
    /\ Exit(p)
    /\ UNCHANGED <<link, files, op, mine, target, seen, held>>

\* A step of a call in progress.
Step(p) ==
    \/ Symlink(p) \/ ReadLockfile(p) \/ Probe(p) \/ Readlink(p) \/ Nuke(p)
    \/ RemoveTarget(p) \/ RemoveLink(p) \/ Cleanup(p)

Next ==
    \E p \in Procs :
        \/ \E m \in {"TryLock", "Lock"} : CallLock(p, m) \/ CallLockFails(p, m)
        \/ CallUnlock(p)
        \/ Step(p)
        \/ Crash(p)

Spec == Init /\ [][Next]_vars

\* The scheduler runs every process that has not been killed; whether and when
\* a client calls the lock is its own business.
Fairness == \A p \in Procs : WF_vars(Step(p))
FairSpec == Spec /\ Fairness

-----------------------------------------------------------------------------
(***************************************************************************)
(* Properties.                                                             *)
(***************************************************************************)

\* At most one client holds the lock ("make the other wait", package comment).
MutualExclusion == \A p, q \in Procs : holds[p] /\ holds[q] => p = q

\* While no process has disappeared, at most one client holds the lock,
\* whatever calls overlap, whichever system calls fail and whoever calls
\* Unlock without holding it (TryLock, Lock, Unlock and lockWith).
MutexUntilCrash == (\A p \in Procs : Alive(p)) => MutualExclusion

\* Fatalf of the cleanup in TryLock and Lock never fires because the pid file
\* is gone: nobody removes a pid file that was not linked, not even the
\* processes that clean up after a dead one.
PidfileStaysUntilLinked == \A p \in Procs : pc[p] = "cleanup" => mine[p] \in files

\* ErrRogueDeletion is not a false alarm: as long as no process has disappeared,
\* Unlock reports it only to a client that did not hold the lock when it called
\* Unlock, whichever system calls failed on the way (Unlock, checkLockfile).
RogueMeansNotHeld ==
    (\A p \in Procs : Alive(p)) =>
        \A p \in Procs : pc[p] = "idle" /\ op[p] = "Unlock" /\ res[p] = "rogue" => ~held[p]

\* lockWith, "Leave it alone, in case it's someone's legitimate file": what is at the
\* lock path and is no link is neither replaced nor removed, except by Unlock of the
\* process whose pid it holds.
LeftAlone ==
    \/ link' = link
    \/ link' = NoLink /\ \E p \in Procs : link = p /\ op[p] = "Unlock" /\ pc[p] = "nuke"
ForeignLeftAlone == [][(link \in Regular) => LeftAlone]_vars

\* Where a client is, seen from outside.
Phase(p) ==
    CASE pc[p] = "dead" -> "dead"
      [] pc[p] # "dead" /\ holds[p] -> "in"
      [] pc[p] = "idle" /\ ~holds[p] -> "out"
      [] pc[p] \notin {"dead", "idle"} /\ ~holds[p] /\ op[p] = "Unlock" -> "leaving"
      [] pc[p] \notin {"dead", "idle"} /\ ~holds[p] /\ op[p] # "Unlock" -> "trying"

Abs == INSTANCE AbstractLock WITH
    None <- NoLink, owner <- LockOwner, client <- [p \in Procs |-> Phase(p)]

\* The system calls of TryLock, Lock and Unlock, interleaved and failing as they
\* may, amount to the lock of AbstractLock: each call takes the lock in one
\* indivisible step, and gives it back in one.
ImplementsLock == Abs!Spec

Busy(p) == pc[p] \notin {"idle", "dead"}

\* A call returns, unless other clients keep acquiring and releasing the lock
\* (each retry of lockWith needs somebody else to have removed the link).
CallsReturn ==
    \A p \in Procs :
        \/ []<>~Busy(p)
        \/ \E q \in Procs \ {p} : []<>holds[q] /\ []<>~holds[q]

=============================================================================
