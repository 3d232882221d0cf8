----------------------------- MODULE Watchdogd ------------------------------
(***************************************************************************)
(* The watchdog daemon of u-root: pkg/watchdogd/watchdogd.go over          *)
(* pkg/watchdog/watchdog.go and the watchdog device of the kernel.         *)
(*                                                                         *)
(* Goroutines: "main" runs Run, "srv" runs StartServing and handles one    *)
(* request at a time, every call of StartPetting leaves a petting          *)
(* goroutine behind, and the timer of StopPetting may start erredOut.      *)
(* d.CurrentWd and d.PettingOn are shared without synchronisation; every   *)
(* access that another goroutine can observe is a step of its own.         *)
(*                                                                         *)
(* The device can be open once.  fd says who has the descriptor: an arm    *)
(* that has not finished ("main", "srv"), d.CurrentWd ("current"), or      *)
(* nobody because a failed arm dropped it ("leaked").                      *)
(***************************************************************************)
EXTENDS Integers

CONSTANTS
    Petters,       \* bound: the petting goroutines that can exist at once
    MaxOps,        \* bound: the requests that clients make
    NoWayOut,      \* the kernel is built with CONFIG_WATCHDOG_NOWAYOUT
    OpenMayFail,   \* opening the device may fail although it is not open
    IoctlMayFail,  \* a timeout is configured and setting it may fail
    WriteMayFail,  \* writing the magic character may fail, and so may the close after it
    MonitorMayFail \* a monitor may object to a keepalive

ASSUME WatchdogdAssumption ==
    /\ MaxOps \in Nat
    /\ {NoWayOut, OpenMayFail, IoctlMayFail, WriteMayFail, MonitorMayFail} \subseteq BOOLEAN

VARIABLES
    pc,         \* where main and srv are
    cur,        \* d.CurrentWd: "nil", or "set" (closed unless fd = "current")
    fd,         \* who has the open descriptor of the device
    active,     \* kernel: the device counts down
    release,    \* kernel: the last write was the magic character
    fed,        \* a keepalive reached the device since the last Tick
    PettingOn,  \* d.PettingOn
    petter,     \* the petting goroutines
    timer,      \* the timer of the StopPetting in progress
    orphans,    \* erredOut goroutines of earlier calls that still receive
    answer,     \* the last request and what it was answered
    ops         \* requests so far

device == <<fd, active, release, fed>>
stopping == <<timer, orphans>>
vars == <<pc, cur, device, PettingOn, petter, stopping, answer, ops>>

Threads == {"main", "srv"}
Requests == {"arm", "disarm", "continue", "stop", "invalid"}

TypeOK ==
    /\ pc \in [Threads -> {"arm", "armset", "continue", "disarm", "close", "closeonly",
                           "stop", "send", "invalid", "loop", "exit"}]
    /\ cur \in {"nil", "set"}
    /\ fd \in {"none", "main", "srv", "current", "leaked"}
    /\ active \in BOOLEAN /\ release \in BOOLEAN /\ fed \in BOOLEAN
    /\ PettingOn \in BOOLEAN
    /\ petter \in [Petters -> {"none", "spawned", "select", "pet", "exiting"}]
    /\ timer \in {"off", "armed", "fired"}
    /\ orphans \in Nat
    /\ answer \in [op : Requests \cup {"none"}, res : {"none", "Ok", "Error", "Invalid"}]
    /\ ops \in 0..MaxOps

\* Run after setupListener: srv accepts requests while main starts to arm.
Init ==
    /\ pc = [main |-> "arm", srv |-> "loop"]
    /\ cur = "nil"
    /\ fd = "none" /\ active = FALSE /\ release = FALSE /\ fed = FALSE
    /\ PettingOn = FALSE
    /\ petter = [g \in Petters |-> "none"]
    /\ timer = "off" /\ orphans = 0
    /\ answer = [op |-> "none", res |-> "none"]
    /\ ops = 0

Running == pc["main"] # "exit"

-----------------------------------------------------------------------------
(***************************************************************************)
(* The device, as the kernel's watchdog core implements it.                *)
(***************************************************************************)

\* The last close stops the device only right after the magic character.
ActiveAfterClose == active /\ (NoWayOut \/ ~release)

\* Run returns an error, or a goroutine panics: the process and its
\* descriptor are gone.
ProcessExits ==
    /\ pc' = [t \in Threads |-> "exit"]
    /\ petter' = [g \in Petters |-> "none"]
    /\ timer' = "off" /\ orphans' = 0
    /\ fd' = "none"
    /\ active' = IF fd = "none" THEN active ELSE ActiveAfterClose
    /\ UNCHANGED <<cur, release, fed, PettingOn, answer, ops>>

Goto(t, point) == pc' = [pc EXCEPT ![t] = point]

-----------------------------------------------------------------------------
(***************************************************************************)
(* Requests and answers.                                                   *)
(***************************************************************************)

\* StartServing: accept, and read the operation.
Accept(request) ==
    /\ pc["srv"] = "loop"
    /\ ops < MaxOps
    /\ ops' = ops + 1
    /\ answer' = [op |-> request, res |-> "none"]
    /\ Goto("srv", request)
    /\ UNCHANGED <<cur, device, PettingOn, petter, stopping>>

\* An operation called by thread t ends well: srv answers the client, main
\* goes on with the next step of Run.
Succeeds(t) ==
    /\ Goto(t, IF t = "main" /\ pc[t] # "continue" THEN "continue" ELSE "loop")
    /\ answer' = IF t = "srv" THEN [answer EXCEPT !.res = "Ok"] ELSE answer

\* It fails: srv says so to the client, main gives up (FailsInMain).
FailsInServer(r) ==
    /\ Goto("srv", "loop")
    /\ answer' = [answer EXCEPT !.res = r]

\* The answer to an operation that nobody knows.
Invalid ==
    /\ pc["srv"] = "invalid"
    /\ FailsInServer("Invalid")
    /\ UNCHANGED <<cur, device, PettingOn, petter, stopping, ops>>

-----------------------------------------------------------------------------
(***************************************************************************)
(* ArmWatchdog, called by main and by srv.                                 *)
(***************************************************************************)

\* watchdog.Open: the kernel starts the device, once it is free.
ArmOpen(t) ==
    /\ pc[t] = "arm"
    /\ \/ /\ fd = "none"
          /\ fd' = t /\ active' = TRUE /\ release' = FALSE
          /\ Goto(t, "armset")
          /\ UNCHANGED <<cur, fed, PettingOn, petter, stopping, answer, ops>>
       \/ /\ fd # "none" \/ OpenMayFail
          /\ t = "srv"
          /\ FailsInServer("Error")
          /\ UNCHANGED <<cur, device, PettingOn, petter, stopping, ops>>
       \/ (fd # "none" \/ OpenMayFail) /\ t = "main" /\ ProcessExits

\* SetTimeout and SetPreTimeout, then d.CurrentWd = wd.  After an error the code
\* closes d.CurrentWd, not wd: a panic if it is nil, otherwise a handle that is
\* closed already, and the new descriptor is dropped.
ArmSet(t) ==
    /\ pc[t] = "armset"
    /\ \/ /\ fd' = "current"
          /\ cur' = "set"
          /\ Succeeds(t)
          /\ UNCHANGED <<active, release, fed, PettingOn, petter, stopping, ops>>
       \/ /\ IoctlMayFail
          /\ t = "srv" /\ cur # "nil"
          /\ fd' = "leaked"
          /\ FailsInServer("Error")
          /\ UNCHANGED <<cur, active, release, fed, PettingOn, petter, stopping, ops>>
       \/ IoctlMayFail /\ (t = "main" \/ cur = "nil") /\ ProcessExits

\* The garbage collector closes a descriptor that nothing refers to.
Finalize ==
    /\ fd = "leaked"
    /\ fd' = "none" /\ active' = ActiveAfterClose
    /\ UNCHANGED <<pc, cur, release, fed, PettingOn, petter, stopping, answer, ops>>

-----------------------------------------------------------------------------
(***************************************************************************)
(* DisarmWatchdog.  d.CurrentWd stays set after it.                        *)
(***************************************************************************)

\* Mutant: the descriptor is closed without the magic character.
DisarmWatchdog_NoMagic ==
    /\ pc["srv"] = "disarm"
    /\ \/ cur = "nil" /\ Succeeds("srv")
       \/ cur = "set" /\ fd = "current" /\ Goto("srv", "close") /\ UNCHANGED answer
       \/ cur = "set" /\ fd # "current" /\ FailsInServer("Error")
    /\ UNCHANGED <<cur, device, PettingOn, petter, stopping, ops>>

\* The nil check, and the write of the magic character by MagicClose.  A write that
\* fails has fed nothing, and may have left the permission to stop behind.
DisarmWatchdog ==
    /\ pc["srv"] = "disarm"
    /\ \/ cur = "nil" /\ Succeeds("srv") /\ UNCHANGED device
       \/ /\ cur = "set" /\ fd = "current"
          /\ release' = TRUE /\ fed' = TRUE
          /\ Goto("srv", "close")
          /\ UNCHANGED <<fd, active, answer>>
       \/ /\ cur = "set" /\ fd = "current" /\ WriteMayFail
          /\ release' \in BOOLEAN
          /\ Goto("srv", "closeonly")
          /\ UNCHANGED <<fd, active, fed, answer>>
       \/ cur = "set" /\ fd # "current" /\ FailsInServer("Error") /\ UNCHANGED device
    /\ UNCHANGED <<cur, PettingOn, petter, stopping, ops>>

\* The close of MagicClose, which frees the descriptor even if it fails.  Its error
\* goes to the client; that of a write that failed goes first.
DisarmClose ==
    /\ pc["srv"] \in {"close", "closeonly"}
    /\ fd' = "none" /\ active' = ActiveAfterClose
    /\ \/ pc["srv"] = "close" /\ Succeeds("srv")
       \/ WriteMayFail /\ FailsInServer("Error")
    /\ UNCHANGED <<cur, release, fed, PettingOn, petter, stopping, ops>>

-----------------------------------------------------------------------------
(***************************************************************************)
(* StartPetting, and the goroutine that it starts.                         *)
(***************************************************************************)

StartPetting(t) ==
    /\ pc[t] = "continue"
    /\ \/ /\ ~PettingOn
          /\ \E g \in Petters :
               petter[g] = "none" /\ petter' = [petter EXCEPT ![g] = "spawned"]
          /\ Succeeds(t)
          /\ UNCHANGED <<cur, device, PettingOn, stopping, ops>>
       \/ /\ PettingOn /\ t = "srv"
          /\ FailsInServer("Error")
          /\ UNCHANGED <<cur, device, PettingOn, petter, stopping, ops>>
       \/ PettingOn /\ t = "main" /\ ProcessExits

\* d.PettingOn = true
PetterStarts(g) ==
    /\ petter[g] = "spawned"
    /\ petter' = [petter EXCEPT ![g] = "select"]
    /\ PettingOn' = TRUE
    /\ UNCHANGED <<pc, cur, device, stopping, answer, ops>>

\* time.After: DoPetting, which does nothing as long as d.CurrentWd is nil.
DoPetting(g) ==
    /\ petter[g] = "select"
    /\ cur # "nil"
    /\ petter' = [petter EXCEPT ![g] = "pet"]
    /\ UNCHANGED <<pc, cur, device, PettingOn, stopping, answer, ops>>

\* Mutant: a failed keepalive ends the petting goroutine.
KeepAlive_GivesUp(g) ==
    /\ petter[g] = "pet"
    /\ \/ /\ fd = "current" /\ fed' = TRUE /\ release' = FALSE
          /\ petter' = [petter EXCEPT ![g] = "select"]
       \/ /\ fd # "current" \/ MonitorMayFail
          /\ petter' = [petter EXCEPT ![g] = "exiting"]
          /\ UNCHANGED <<fed, release>>
    /\ UNCHANGED <<pc, cur, fd, active, PettingOn, stopping, answer, ops>>

\* doMonitors and KeepAlive, which takes back the magic character; the loop goes
\* on whether they fail or not.
KeepAlive(g) ==
    /\ petter[g] = "pet"
    /\ petter' = [petter EXCEPT ![g] = "select"]
    /\ \/ fd = "current" /\ fed' = TRUE /\ release' = FALSE
       \/ (fd # "current" \/ MonitorMayFail) /\ UNCHANGED <<fed, release>>
    /\ UNCHANGED <<pc, cur, fd, active, PettingOn, stopping, answer, ops>>

\* Mutant: the flag is not reset.
PetterExits_KeepsFlag(g) ==
    /\ petter[g] = "exiting"
    /\ petter' = [petter EXCEPT ![g] = "none"]
    /\ UNCHANGED <<pc, cur, device, PettingOn, stopping, answer, ops>>

\* The deferred d.PettingOn = false
PetterExits(g) ==
    /\ petter[g] = "exiting"
    /\ petter' = [petter EXCEPT ![g] = "none"]
    /\ PettingOn' = FALSE
    /\ UNCHANGED <<pc, cur, device, stopping, answer, ops>>

-----------------------------------------------------------------------------
(***************************************************************************)
(* StopPetting: a send on the unbuffered d.PettingOp, which whoever        *)
(* receives first takes.                                                   *)
(***************************************************************************)

\* Mutant: there is no time-out.
StopPetting_NoTimer ==
    /\ pc["srv"] = "stop"
    /\ \/ ~PettingOn /\ Succeeds("srv")
       \/ PettingOn /\ Goto("srv", "send") /\ UNCHANGED answer
    /\ UNCHANGED <<cur, device, PettingOn, petter, stopping, ops>>

StopPetting ==
    /\ pc["srv"] = "stop"
    /\ \/ ~PettingOn /\ Succeeds("srv") /\ UNCHANGED timer
       \/ PettingOn /\ timer' = "armed" /\ Goto("srv", "send") /\ UNCHANGED answer
    /\ UNCHANGED <<cur, device, PettingOn, petter, orphans, ops>>

Sending == pc["srv"] = "send"

\* Ten seconds pass; they do only when no receiver is ready.
TimerFires ==
    /\ Sending /\ timer = "armed" /\ orphans = 0
    /\ \A g \in Petters : petter[g] # "select"
    /\ timer' = "fired"
    /\ UNCHANGED <<pc, cur, device, PettingOn, petter, orphans, answer, ops>>

\* The deferred t.Stop() comes too late for an erredOut that has started.
StopTimer(o) ==
    /\ timer' = "off"
    /\ orphans' = IF timer = "fired" THEN o + 1 ELSE o

\* The petting goroutine receives OpStop.
PetterReceives(g) ==
    /\ Sending
    /\ petter[g] = "select"
    /\ petter' = [petter EXCEPT ![g] = "exiting"]
    /\ Succeeds("srv")
    /\ StopTimer(orphans)
    /\ UNCHANGED <<cur, device, PettingOn, ops>>

\* Mutant: a call that timed out is thought to have left a receiver behind.
OrphanReceives_Any ==
    /\ Sending
    /\ orphans > 0 \/ timer = "fired"
    /\ Succeeds("srv")
    /\ timer' = "off" /\ orphans' = orphans - 1
    /\ UNCHANGED <<cur, device, PettingOn, petter, ops>>

\* erredOut of an earlier call receives it.
OrphanReceives ==
    /\ Sending
    /\ orphans > 0
    /\ Succeeds("srv")
    /\ StopTimer(orphans - 1)
    /\ UNCHANGED <<cur, device, PettingOn, petter, ops>>

\* erredOut of this call receives it; its r = OpResultError races with return r.
ErredOutReceives ==
    /\ Sending
    /\ timer = "fired" /\ timer' = "off"
    /\ Succeeds("srv") \/ FailsInServer("Error")
    /\ UNCHANGED <<cur, device, PettingOn, petter, orphans, ops>>

-----------------------------------------------------------------------------

\* The device's countdown starts over: without another keepalive it expires.
Tick ==
    /\ fed /\ fed' = FALSE
    /\ UNCHANGED <<pc, cur, fd, active, release, PettingOn, petter, stopping, answer, ops>>

\* Bound: a request to continue is made while there is room for two more
\* goroutines, its own and the one that main starts.
RoomForPetters == \E g, h \in Petters : g # h /\ petter[g] = "none" /\ petter[h] = "none"

Operation(t) == ArmOpen(t) \/ ArmSet(t) \/ StartPetting(t)
Handler == DisarmWatchdog \/ DisarmClose \/ StopPetting \/ Invalid
Received == OrphanReceives \/ ErredOutReceives \/ \E g \in Petters : PetterReceives(g)
Petting(g) == PetterStarts(g) \/ DoPetting(g) \/ KeepAlive(g) \/ PetterExits(g)

Next ==
    \/ \E request \in Requests : (request = "continue" => RoomForPetters) /\ Accept(request)
    \/ \E t \in Threads : Operation(t)
    \/ Handler \/ Received \/ TimerFires
    \/ \E g \in Petters : Petting(g)
    \/ Finalize
    \/ Tick

Spec == Init /\ [][Next]_vars

\* Goroutines that can run are run and timers fire; clients and the garbage
\* collector owe nothing.  The sender of OpStop is queued on the channel, so that
\* a petting goroutine that keeps coming back to its select finds it there, and
\* select chooses fairly between a send and a timer that are both ready: this is
\* strong fairness of the reception.
Fairness ==
    /\ \A t \in Threads : WF_vars(Operation(t))
    /\ WF_vars(Handler) /\ SF_vars(Received) /\ WF_vars(TimerFires)
    /\ \A g \in Petters : WF_vars(Petting(g))
FairSpec == Spec /\ Fairness

-----------------------------------------------------------------------------
(***************************************************************************)
(* Properties.                                                             *)
(***************************************************************************)

Live(g) == petter[g] \in {"select", "pet"}

\* d.PettingOn is never left set behind the last petting goroutine: StopPetting
\* blocks on d.PettingOp only if a goroutine that may take it, or that is on its
\* way out after an earlier stop, is still there.
PettingOnHasPetter == Running /\ PettingOn => \E g \in Petters : Live(g) \/ petter[g] = "exiting"

\* A disarm that was answered Ok has stopped the device, if nobody was petting
\* it meanwhile and nobody armed it again (DisarmWatchdog, MagicClose).
DisarmedUnlessPetted ==
    (Running /\ answer = [op |-> "disarm", res |-> "Ok"] /\ fd = "none"
             /\ \A g \in Petters : ~Live(g))
        => (NoWayOut \/ ~active)

\* Every request is answered, stop included: either a petting goroutine takes
\* OpStop or the timer of StopPetting does (StartServing).
RequestsAnswered == (pc["srv"] # "loop") ~> (pc["srv"] \in {"loop", "exit"})

\* "watchdogd is actively keeping machine alive": once Run is under way and the
\* device stays armed, it is fed again and again unless a client asked to stop,
\* through disarms and arms and failed keepalives in between.
KeepsMachineAlive ==
    ([](answer.op # "stop") /\ <>[](fd = "current" /\ pc["main"] = "loop")) => []<>fed

=============================================================================
