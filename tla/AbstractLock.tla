---------------------------- MODULE AbstractLock ----------------------------
(***************************************************************************)
(* What pkg/lockfile promises to its clients, without the file system: an  *)
(* owner, and for each client where it is between asking for the lock and  *)
(* giving it back.  As long as every process is alive, a client enters     *)
(* only if the lock is free or its own already, and only the owner frees   *)
(* it.  Once a process has disappeared the others may take the lock from   *)
(* it, and the promise that is left is weaker: a step of one client moves  *)
(* no other client, gives the lock to nobody but itself, and never touches *)
(* a file of somebody else.                                                *)
(***************************************************************************)

CONSTANTS Procs, None, Foreign

VARIABLES
    owner,   \* whose lock it is: a process, None, or Foreign if it is no lock at all
    client   \* where each client is

vars == <<owner, client>>

Phases == {"out", "trying", "in", "leaving", "dead"}

Init ==
    /\ owner \in Procs \cup {None, Foreign}
    /\ client = [p \in Procs |-> "out"]

Move(p, phase) == client' = [client EXCEPT ![p] = phase]

\* TryLock or Lock is called, gets the lock, or gives up.
Try(p) == client[p] = "out" /\ Move(p, "trying") /\ UNCHANGED owner
Take(p) == client[p] = "trying" /\ owner \in {None, p} /\ owner' = p /\ Move(p, "in")
GiveUp(p) == client[p] = "trying" /\ Move(p, "out") /\ UNCHANGED owner

\* Unlock is called, by a client that has the lock or by one that does not.
\* The lock is free again, or it is as it was.
Leave(p) == client[p] \in {"in", "out"} /\ Move(p, "leaving") /\ UNCHANGED owner
Free(p) == client[p] = "leaving" /\ owner = p /\ owner' = None /\ Move(p, "out")
Stay(p) == client[p] = "leaving" /\ Move(p, "out") /\ UNCHANGED owner

Die(p) == client[p] # "dead" /\ Move(p, "dead") /\ UNCHANGED owner

\* A client at work after somebody has died.
Recover(p) ==
    /\ client[p] # "dead"
    /\ \E q \in Procs : client[q] = "dead"
    /\ \E phase \in Phases : Move(p, phase)
    /\ owner' \in {owner, None, p}
    /\ owner = Foreign => owner' = Foreign

Next ==
    \E p \in Procs :
        Try(p) \/ Take(p) \/ GiveUp(p) \/ Leave(p) \/ Free(p) \/ Stay(p) \/ Die(p) \/ Recover(p)

Spec == Init /\ [][Next]_vars

=============================================================================
