-------------------------------- MODULE MCDd --------------------------------
(* Instances of Dd for TLC: channels of depth 2 (block sizes 1 and 2), 1 (block *)
(* size 3) and 0 (block size 5).                                               *)
EXTENDS Dd

All == [named : BOOLEAN, ibs : {0, 1, 2, 3, 5}, skip : {0, 1}, count : {0, 2, MaxInt},
        progress : BOOLEAN, readFails : BOOLEAN, writeFails : BOOLEAN]
\* Without combinations that only repeat what others show.
Copies == {o \in All : /\ o.progress => o.named /\ o.ibs \in {1, 3} /\ ~o.readFails /\ ~o.writeFails
                       /\ o.skip = 1 => o.ibs \in {2, 5}}
Failing == {[named |-> TRUE, ibs |-> 3, skip |-> 0, count |-> MaxInt, progress |-> FALSE,
             readFails |-> FALSE, writeFails |-> TRUE]}
UpTo5 == 0..5
Long == {9}
=============================================================================
