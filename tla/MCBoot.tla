------------------------------- MODULE MCBoot -------------------------------
(***************************************************************************)
(* An instance of Boot for TLC: a disk with two ESXi partitions, the       *)
(* second one being newer, and a Linux disk whose second kernel is on a    *)
(* partition of the first disk and has the highest rank.  The Linux disk   *)
(* has a partition with a boot.cfg of ESXi, too, but without an image; the *)
(* kernel may refuse to unmount that one and the second ESXi partition.    *)
(***************************************************************************)
EXTENDS Boot, TLC

CONSTANTS sda, sda5, sda6, sdb, sdb6, esx5, esx6, linux1, linux2

MCDevs == {sda, sda5, sda6, sdb, sdb6}
MCStubborn == {sda6, sdb6}
MCImages == {esx5, esx6, linux1, linux2}
MCParts ==
    [d \in Devs |-> CASE d = sda -> (5 :> sda5) @@ (6 :> sda6) [] d = sdb -> 6 :> sdb6 [] OTHER -> <<>>]
MCReadable == {sda5, sda6, sdb6}
MCBootCfg == [d \in Devs |-> CASE d = sda5 -> esx5 [] d = sda6 -> esx6 [] OTHER -> NoImage]
MCUpdated == [i \in Images |-> IF i = esx6 THEN 1 ELSE 0]
MCCdrom == [d \in Devs |-> NoImage]
MCConfig == [d \in Devs |-> IF d = sdb THEN <<linux1, linux2>> ELSE <<>>]
MCKernel == [i \in Images |-> CASE i = esx6 -> sda6 [] i = linux1 -> sdb [] OTHER -> sda5]
MCRank == [i \in Images |-> IF i = linux2 THEN 1 ELSE 0]
MCLinux == {linux1, linux2}
MCInitrdLen == [i \in Images |-> IF i = linux1 THEN 3 ELSE 0]
=============================================================================
