-------------------------- MODULE WatchdogdProofs ---------------------------
(***************************************************************************)
(* Safety of the watchdog daemon for every number of petting goroutines    *)
(* and requests.                                                           *)
(***************************************************************************)
EXTENDS Watchdogd, TLAPS

\* main and srv stop together, and the point at which srv is says which request
\* it handles; no answer has been given yet.
HandlerInv ==
    /\ pc["main"] = "exit" <=> pc["srv"] = "exit"
    /\ pc["main"] \in {"arm", "armset", "continue", "loop", "exit"}
    /\ pc["srv"] \in {"arm", "armset"} => answer.op = "arm"
    /\ pc["srv"] \in {"disarm", "close", "closeonly"} => answer.op = "disarm"
    /\ pc["srv"] = "continue" => answer.op = "continue"
    /\ pc["srv"] \in {"stop", "send"} => answer.op = "stop"
    /\ pc["srv"] \notin {"loop", "exit"} => answer.res = "none"

NobodyPets == \A g \in Petters : ~Live(g)

\* Who has the descriptor, and what the device makes of it.
DeviceInv ==
    Running =>
        /\ \A t \in Threads : pc[t] = "armset" <=> fd = t
        /\ fd \in {"current", "leaked"} => cur = "set"
        /\ cur = "nil" /\ fd = "none" => ~active
        /\ pc["srv"] \in {"close", "closeonly"} => fd = "current"
        /\ pc["srv"] = "close" /\ NobodyPets => release
        /\ fd = "leaked" => answer # [op |-> "disarm", res |-> "Ok"]

IInv == TypeOK /\ PettingOnHasPetter /\ HandlerInv /\ DeviceInv /\ DisarmedUnlessPetted

-----------------------------------------------------------------------------
(***************************************************************************)
(* One lemma per action.                                                   *)
(***************************************************************************)

\* A request is accepted.
LEMMA AcceptStep ==
    ASSUME IInv, NEW request \in Requests, Accept(request)
    PROVE  IInv'
<1> USE WatchdogdAssumption DEF IInv, TypeOK, Threads, device, stopping, Accept, Requests, Goto
<1>1. TypeOK'
  BY DEF Requests, ActiveAfterClose
<1>2. PettingOnHasPetter'
  BY DEF PettingOnHasPetter, Live, Running
<1>3. HandlerInv'
  BY DEF HandlerInv, Requests
<1>4. DeviceInv'
  BY DEF DeviceInv, HandlerInv, NobodyPets, Live, Running, ActiveAfterClose
<1>5. DisarmedUnlessPetted'
  BY DEF DisarmedUnlessPetted, DeviceInv, HandlerInv, NobodyPets, Live, Running, ActiveAfterClose
<1> QED
  BY <1>1, <1>2, <1>3, <1>4, <1>5

\* A request that nobody knows is answered.
LEMMA InvalidStep ==
    ASSUME IInv, Invalid
    PROVE  IInv'
<1> USE WatchdogdAssumption DEF IInv, TypeOK, Threads, device, stopping, Invalid, FailsInServer, Goto
<1>1. TypeOK'
  BY DEF Requests, ActiveAfterClose
<1>2. PettingOnHasPetter'
  BY DEF PettingOnHasPetter, Live, Running
<1>3. HandlerInv'
  BY DEF HandlerInv, Requests
<1>4. DeviceInv'
  BY DEF DeviceInv, HandlerInv, NobodyPets, Live, Running, ActiveAfterClose
<1>5. DisarmedUnlessPetted'
  BY DEF DisarmedUnlessPetted, DeviceInv, HandlerInv, NobodyPets, Live, Running, ActiveAfterClose
<1> QED
  BY <1>1, <1>2, <1>3, <1>4, <1>5

\* The device is opened.
LEMMA ArmOpenStep ==
    ASSUME IInv, NEW t \in Threads, ArmOpen(t)
    PROVE  IInv'
<1> USE WatchdogdAssumption DEF IInv, TypeOK, Threads, device, stopping, ArmOpen, FailsInServer, ProcessExits, Goto
<1>1. TypeOK'
  <2>1. active' \in BOOLEAN /\ release' \in BOOLEAN
    BY DEF ActiveAfterClose
  <2>2. fed' \in BOOLEAN /\ PettingOn' \in BOOLEAN
    OBVIOUS
  <2> QED
    BY <2>1, <2>2 DEF Requests
<1>2. PettingOnHasPetter'
  BY DEF PettingOnHasPetter, Live, Running
<1>3. HandlerInv'
  BY DEF HandlerInv, Requests
<1>4. DeviceInv'
  BY DEF DeviceInv, HandlerInv, NobodyPets, Live, Running, ActiveAfterClose
<1>5. DisarmedUnlessPetted'
  BY DEF DisarmedUnlessPetted, DeviceInv, HandlerInv, NobodyPets, Live, Running, ActiveAfterClose
<1> QED
  BY <1>1, <1>2, <1>3, <1>4, <1>5

\* An arm is completed.
LEMMA ArmSetStep ==
    ASSUME IInv, NEW t \in Threads, ArmSet(t)
    PROVE  IInv'
<1> USE WatchdogdAssumption DEF IInv, TypeOK, Threads, device, stopping, ArmSet, FailsInServer, ProcessExits, Succeeds, Goto
<1>1. TypeOK'
  BY DEF Requests, ActiveAfterClose
<1>2. PettingOnHasPetter'
  BY DEF PettingOnHasPetter, Live, Running
<1>3. HandlerInv'
  BY DEF HandlerInv, Requests
<1>4. DeviceInv'
  BY DEF DeviceInv, HandlerInv, NobodyPets, Live, Running, ActiveAfterClose
<1>5. DisarmedUnlessPetted'
  BY DEF DisarmedUnlessPetted, DeviceInv, HandlerInv, NobodyPets, Live, Running, ActiveAfterClose
<1> QED
  BY <1>1, <1>2, <1>3, <1>4, <1>5

\* A dropped descriptor is closed.
LEMMA FinalizeStep ==
    ASSUME IInv, Finalize
    PROVE  IInv'
<1> USE WatchdogdAssumption DEF IInv, TypeOK, Threads, device, stopping, Finalize
<1>1. TypeOK'
  BY DEF Requests, ActiveAfterClose
<1>2. PettingOnHasPetter'
  BY DEF PettingOnHasPetter, Live, Running
<1>3. HandlerInv'
  BY DEF HandlerInv, Requests
<1>4. DeviceInv'
  BY DEF DeviceInv, HandlerInv, NobodyPets, Live, Running, ActiveAfterClose
<1>5. DisarmedUnlessPetted'
  BY DEF DisarmedUnlessPetted, DeviceInv, HandlerInv, NobodyPets, Live, Running, ActiveAfterClose
<1> QED
  BY <1>1, <1>2, <1>3, <1>4, <1>5

\* The magic character is written.
LEMMA DisarmWatchdogStep ==
    ASSUME IInv, DisarmWatchdog
    PROVE  IInv'
<1> USE WatchdogdAssumption DEF IInv, TypeOK, Threads, device, stopping, DisarmWatchdog, FailsInServer, Succeeds, Goto
<1>1. TypeOK'
  <2>1. active' \in BOOLEAN /\ release' \in BOOLEAN
    BY DEF ActiveAfterClose
  <2>2. fed' \in BOOLEAN /\ PettingOn' \in BOOLEAN
    OBVIOUS
  <2> QED
    BY <2>1, <2>2 DEF Requests
<1>2. PettingOnHasPetter'
  BY DEF PettingOnHasPetter, Live, Running
<1>3. HandlerInv'
  BY DEF HandlerInv, Requests
<1>4. DeviceInv'
  BY DEF DeviceInv, HandlerInv, NobodyPets, Live, Running, ActiveAfterClose
<1>5. DisarmedUnlessPetted'
  BY DEF DisarmedUnlessPetted, DeviceInv, HandlerInv, NobodyPets, Live, Running, ActiveAfterClose
<1> QED
  BY <1>1, <1>2, <1>3, <1>4, <1>5

\* The descriptor is closed after it.
LEMMA DisarmCloseStep ==
    ASSUME IInv, DisarmClose
    PROVE  IInv'
<1> USE WatchdogdAssumption DEF IInv, TypeOK, Threads, device, stopping, DisarmClose, FailsInServer, Succeeds, Goto
<1>1. TypeOK'
  BY DEF Requests, ActiveAfterClose
<1>2. PettingOnHasPetter'
  BY DEF PettingOnHasPetter, Live, Running
<1>3. HandlerInv'
  BY DEF HandlerInv, Requests
<1>4. DeviceInv'
  BY DEF DeviceInv, HandlerInv, NobodyPets, Live, Running, ActiveAfterClose
<1>5. DisarmedUnlessPetted'
  BY DEF DisarmedUnlessPetted, DeviceInv, HandlerInv, NobodyPets, Live, Running, ActiveAfterClose
<1> QED
  BY <1>1, <1>2, <1>3, <1>4, <1>5

\* A petting goroutine is started.
LEMMA StartPettingStep ==
    ASSUME IInv, NEW t \in Threads, StartPetting(t)
    PROVE  IInv'
<1> USE WatchdogdAssumption DEF IInv, TypeOK, Threads, device, stopping, StartPetting, FailsInServer, ProcessExits, Succeeds, Goto
<1>1. TypeOK'
  BY DEF Requests, ActiveAfterClose
<1>2. PettingOnHasPetter'
  BY DEF PettingOnHasPetter, Live, Running
<1>3. HandlerInv'
  BY DEF HandlerInv, Requests
<1>4. DeviceInv'
  BY DEF DeviceInv, HandlerInv, NobodyPets, Live, Running, ActiveAfterClose
<1>5. DisarmedUnlessPetted'
  BY DEF DisarmedUnlessPetted, DeviceInv, HandlerInv, NobodyPets, Live, Running, ActiveAfterClose
<1> QED
  BY <1>1, <1>2, <1>3, <1>4, <1>5

\* It sets the flag.
LEMMA PetterStartsStep ==
    ASSUME IInv, NEW g \in Petters, PetterStarts(g)
    PROVE  IInv'
<1> USE WatchdogdAssumption DEF IInv, TypeOK, Threads, device, stopping, PetterStarts
<1>1. TypeOK'
  BY DEF Requests, ActiveAfterClose
<1>2. PettingOnHasPetter'
  BY DEF PettingOnHasPetter, Live, Running
<1>3. HandlerInv'
  BY DEF HandlerInv, Requests
<1>4. DeviceInv'
  BY DEF DeviceInv, HandlerInv, NobodyPets, Live, Running, ActiveAfterClose
<1>5. DisarmedUnlessPetted'
  BY DEF DisarmedUnlessPetted, DeviceInv, HandlerInv, NobodyPets, Live, Running, ActiveAfterClose
<1> QED
  BY <1>1, <1>2, <1>3, <1>4, <1>5

\* It is about to pet.
LEMMA DoPettingStep ==
    ASSUME IInv, NEW g \in Petters, DoPetting(g)
    PROVE  IInv'
<1> USE WatchdogdAssumption DEF IInv, TypeOK, Threads, device, stopping, DoPetting
<1>1. TypeOK'
  BY DEF Requests, ActiveAfterClose
<1>2. PettingOnHasPetter'
  BY DEF PettingOnHasPetter, Live, Running
<1>3. HandlerInv'
  BY DEF HandlerInv, Requests
<1>4. DeviceInv'
  BY DEF DeviceInv, HandlerInv, NobodyPets, Live, Running, ActiveAfterClose
<1>5. DisarmedUnlessPetted'
  BY DEF DisarmedUnlessPetted, DeviceInv, HandlerInv, NobodyPets, Live, Running, ActiveAfterClose
<1> QED
  BY <1>1, <1>2, <1>3, <1>4, <1>5

\* It pets.
LEMMA KeepAliveStep ==
    ASSUME IInv, NEW g \in Petters, KeepAlive(g)
    PROVE  IInv'
<1> USE WatchdogdAssumption DEF IInv, TypeOK, Threads, device, stopping, KeepAlive
<1>1. TypeOK'
  <2>1. active' \in BOOLEAN /\ release' \in BOOLEAN
    BY DEF ActiveAfterClose
  <2>2. fed' \in BOOLEAN /\ PettingOn' \in BOOLEAN
    OBVIOUS
  <2> QED
    BY <2>1, <2>2 DEF Requests
<1>2. PettingOnHasPetter'
  BY DEF PettingOnHasPetter, Live, Running
<1>3. HandlerInv'
  BY DEF HandlerInv, Requests
<1>4. DeviceInv'
  BY DEF DeviceInv, HandlerInv, NobodyPets, Live, Running, ActiveAfterClose
<1>5. DisarmedUnlessPetted'
  BY DEF DisarmedUnlessPetted, DeviceInv, HandlerInv, NobodyPets, Live, Running, ActiveAfterClose
<1> QED
  BY <1>1, <1>2, <1>3, <1>4, <1>5

\* It clears the flag and ends.
LEMMA PetterExitsStep ==
    ASSUME IInv, NEW g \in Petters, PetterExits(g)
    PROVE  IInv'
<1> USE WatchdogdAssumption DEF IInv, TypeOK, Threads, device, stopping, PetterExits
<1>1. TypeOK'
  <2>1. active' \in BOOLEAN /\ release' \in BOOLEAN
    BY DEF ActiveAfterClose
  <2>2. fed' \in BOOLEAN /\ PettingOn' \in BOOLEAN
    OBVIOUS
  <2> QED
    BY <2>1, <2>2 DEF Requests
<1>2. PettingOnHasPetter'
  BY DEF PettingOnHasPetter, Live, Running
<1>3. HandlerInv'
  BY DEF HandlerInv, Requests
<1>4. DeviceInv'
  BY DEF DeviceInv, HandlerInv, NobodyPets, Live, Running, ActiveAfterClose
<1>5. DisarmedUnlessPetted'
  BY DEF DisarmedUnlessPetted, DeviceInv, HandlerInv, NobodyPets, Live, Running, ActiveAfterClose
<1> QED
  BY <1>1, <1>2, <1>3, <1>4, <1>5

\* A stop finds the flag set or not.
LEMMA StopPettingStep ==
    ASSUME IInv, StopPetting
    PROVE  IInv'
<1> USE WatchdogdAssumption DEF IInv, TypeOK, Threads, device, stopping, StopPetting, Succeeds, Goto
<1>1. TypeOK'
  BY DEF Requests, ActiveAfterClose
<1>2. PettingOnHasPetter'
  BY DEF PettingOnHasPetter, Live, Running
<1>3. HandlerInv'
  BY DEF HandlerInv, Requests
<1>4. DeviceInv'
  BY DEF DeviceInv, HandlerInv, NobodyPets, Live, Running, ActiveAfterClose
<1>5. DisarmedUnlessPetted'
  BY DEF DisarmedUnlessPetted, DeviceInv, HandlerInv, NobodyPets, Live, Running, ActiveAfterClose
<1> QED
  BY <1>1, <1>2, <1>3, <1>4, <1>5

\* A stop times out.
LEMMA TimerFiresStep ==
    ASSUME IInv, TimerFires
    PROVE  IInv'
<1> USE WatchdogdAssumption DEF IInv, TypeOK, Threads, device, stopping, TimerFires
<1>1. TypeOK'
  BY DEF Requests, ActiveAfterClose
<1>2. PettingOnHasPetter'
  BY DEF PettingOnHasPetter, Live, Running
<1>3. HandlerInv'
  BY DEF HandlerInv, Requests
<1>4. DeviceInv'
  BY DEF DeviceInv, HandlerInv, NobodyPets, Live, Running, ActiveAfterClose
<1>5. DisarmedUnlessPetted'
  BY DEF DisarmedUnlessPetted, DeviceInv, HandlerInv, NobodyPets, Live, Running, ActiveAfterClose
<1> QED
  BY <1>1, <1>2, <1>3, <1>4, <1>5

\* A petting goroutine takes the stop.
LEMMA PetterReceivesStep ==
    ASSUME IInv, NEW g \in Petters, PetterReceives(g)
    PROVE  IInv'
<1> USE WatchdogdAssumption DEF IInv, TypeOK, Threads, device, stopping, PetterReceives, Succeeds, Sending, StopTimer, Goto
<1>1. TypeOK'
  BY DEF Requests, ActiveAfterClose
<1>2. PettingOnHasPetter'
  BY DEF PettingOnHasPetter, Live, Running
<1>3. HandlerInv'
  BY DEF HandlerInv, Requests
<1>4. DeviceInv'
  BY DEF DeviceInv, HandlerInv, NobodyPets, Live, Running, ActiveAfterClose
<1>5. DisarmedUnlessPetted'
  BY DEF DisarmedUnlessPetted, DeviceInv, HandlerInv, NobodyPets, Live, Running, ActiveAfterClose
<1> QED
  BY <1>1, <1>2, <1>3, <1>4, <1>5

\* An old time-out takes the stop.
LEMMA OrphanReceivesStep ==
    ASSUME IInv, OrphanReceives
    PROVE  IInv'
<1> USE WatchdogdAssumption DEF IInv, TypeOK, Threads, device, stopping, OrphanReceives, Succeeds, Sending, StopTimer, Goto
<1>1. TypeOK'
  BY DEF Requests, ActiveAfterClose
<1>2. PettingOnHasPetter'
  BY DEF PettingOnHasPetter, Live, Running
<1>3. HandlerInv'
  BY DEF HandlerInv, Requests
<1>4. DeviceInv'
  BY DEF DeviceInv, HandlerInv, NobodyPets, Live, Running, ActiveAfterClose
<1>5. DisarmedUnlessPetted'
  BY DEF DisarmedUnlessPetted, DeviceInv, HandlerInv, NobodyPets, Live, Running, ActiveAfterClose
<1> QED
  BY <1>1, <1>2, <1>3, <1>4, <1>5

\* The time-out takes its own stop.
LEMMA ErredOutReceivesStep ==
    ASSUME IInv, ErredOutReceives
    PROVE  IInv'
<1> USE WatchdogdAssumption DEF IInv, TypeOK, Threads, device, stopping, ErredOutReceives, Succeeds, FailsInServer, Sending, Goto
<1>1. TypeOK'
  BY DEF Requests, ActiveAfterClose
<1>2. PettingOnHasPetter'
  BY DEF PettingOnHasPetter, Live, Running
<1>3. HandlerInv'
  BY DEF HandlerInv, Requests
<1>4. DeviceInv'
  BY DEF DeviceInv, HandlerInv, NobodyPets, Live, Running, ActiveAfterClose
<1>5. DisarmedUnlessPetted'
  BY DEF DisarmedUnlessPetted, DeviceInv, HandlerInv, NobodyPets, Live, Running, ActiveAfterClose
<1> QED
  BY <1>1, <1>2, <1>3, <1>4, <1>5

\* Time passes.
LEMMA TickStep ==
    ASSUME IInv, Tick
    PROVE  IInv'
<1> USE WatchdogdAssumption DEF IInv, TypeOK, Threads, device, stopping, Tick
<1>1. TypeOK'
  <2>1. active' \in BOOLEAN /\ release' \in BOOLEAN
    BY DEF ActiveAfterClose
  <2>2. fed' \in BOOLEAN /\ PettingOn' \in BOOLEAN
    OBVIOUS
  <2> QED
    BY <2>1, <2>2 DEF Requests
<1>2. PettingOnHasPetter'
  BY DEF PettingOnHasPetter, Live, Running
<1>3. HandlerInv'
  BY DEF HandlerInv, Requests
<1>4. DeviceInv'
  BY DEF DeviceInv, HandlerInv, NobodyPets, Live, Running, ActiveAfterClose
<1>5. DisarmedUnlessPetted'
  BY DEF DisarmedUnlessPetted, DeviceInv, HandlerInv, NobodyPets, Live, Running, ActiveAfterClose
<1> QED
  BY <1>1, <1>2, <1>3, <1>4, <1>5

-----------------------------------------------------------------------------

\* The invariant holds when Run starts.
LEMMA InitIInv == ASSUME Init PROVE IInv
<1> USE WatchdogdAssumption DEF Init, Threads
<1>1. TypeOK
  <2>1. {active, release, fed, PettingOn} \subseteq BOOLEAN
    BY Zenon
  <2>2. answer \in [op : Requests \cup {"none"}, res : {"none", "Ok", "Error", "Invalid"}]
    OBVIOUS
  <2> QED
    BY <2>1, <2>2 DEF TypeOK, Requests
<1>2. PettingOnHasPetter /\ HandlerInv /\ DeviceInv /\ DisarmedUnlessPetted
  BY DEF PettingOnHasPetter, HandlerInv, DeviceInv, DisarmedUnlessPetted, Running
<1> QED
  BY <1>1, <1>2 DEF IInv

\* Every step keeps it.
LEMMA NextIInv == ASSUME IInv, [Next]_vars PROVE IInv'
<1>1. ASSUME NEW request \in Requests, Accept(request) PROVE IInv'
  BY <1>1, AcceptStep
<1>2. ASSUME NEW t \in Threads, Operation(t) PROVE IInv'
  BY <1>2, ArmOpenStep, ArmSetStep, StartPettingStep DEF Operation
<1>3. ASSUME Handler PROVE IInv'
  BY <1>3, DisarmWatchdogStep, DisarmCloseStep, StopPettingStep, InvalidStep DEF Handler
<1>4. ASSUME Received PROVE IInv'
  BY <1>4, OrphanReceivesStep, ErredOutReceivesStep, PetterReceivesStep DEF Received
<1>5. ASSUME NEW g \in Petters, Petting(g) PROVE IInv'
  BY <1>5, PetterStartsStep, DoPettingStep, KeepAliveStep, PetterExitsStep DEF Petting
<1>6. ASSUME TimerFires \/ Finalize \/ Tick PROVE IInv'
  BY <1>6, TimerFiresStep, FinalizeStep, TickStep
<1>7. CASE UNCHANGED vars
  BY <1>7 DEF vars, device, stopping, IInv, TypeOK, PettingOnHasPetter, HandlerInv, DeviceInv,
     DisarmedUnlessPetted, NobodyPets, Live, Running
<1> QED
  BY <1>1, <1>2, <1>3, <1>4, <1>5, <1>6, <1>7 DEF Next

\* IInv is an invariant of the daemon.
THEOREM Invariance == Spec => []IInv
<1>1. Init => IInv
  BY InitIInv
<1>2. IInv /\ [Next]_vars => IInv'
  BY NextIInv
<1> QED
  BY <1>1, <1>2, PTL DEF Spec

\* The state of the daemon and of its device keeps its type (Daemon, Run).
THEOREM TypeCorrect == Spec => []TypeOK
<1>1. IInv => TypeOK
  BY DEF IInv
<1> QED
  BY <1>1, Invariance, PTL

\* d.PettingOn is never left set without a petting goroutine that has it still to
\* reset, however many were started (StartPetting, StopPetting).
THEOREM FlagHasPetter == Spec => []PettingOnHasPetter
<1>1. IInv => PettingOnHasPetter
  BY DEF IInv
<1> QED
  BY <1>1, Invariance, PTL

\* DisarmWatchdog answers Ok only after the device has stopped, provided that
\* nobody pets it and nobody has armed it again.
THEOREM DisarmIsReal == Spec => []DisarmedUnlessPetted
<1>1. IInv => DisarmedUnlessPetted
  BY DEF IInv
<1> QED
  BY <1>1, Invariance, PTL

=============================================================================
