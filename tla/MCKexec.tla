------------------------------ MODULE MCKexec -------------------------------
(* Instances of Kexec for TLC: 32 addresses, pages of two bytes, M1 at 8. *)
EXTENDS Kexec

R(start, size) == [start |-> start, size |-> size]
T(start, size, type) == [start |-> start, size |-> size, type |-> type]

\* The second map has RAM that begins within a page, and RAM up to the very last
\* address, the end of which is 0.
LowIsRAM ==
    {{T(0, 7, "RAM"), T(7, 1, "Reserved"), T(8, 14, "RAM"), T(22, 1, "ACPI"), T(23, 5, "RAM")},
     {T(0, 6, "RAM"), T(9, 9, "RAM"), T(18, 7, "RAM"), T(30, 2, "RAM")}}

\* Program headers: with less, as much and more data than memory.
Headers == {InsertAt(start, size, len) : start \in 8..11, size \in 1..3, len \in 0..4}
Elfs == {<<h>> : h \in Headers} \cup
        {<<h, k>> : h \in Headers, k \in {h2 \in Headers : h2.start >= 10 /\ h2.size = 2}} \cup
        {<<InsertAt(8, 1, 1), InsertAt(9, 2, len), InsertAt(11, 2, 2)>> : len \in 0..3}
FewElfs == {<<InsertAt(8, 1, 1), InsertAt(9, 2, 2)>>, <<InsertAt(8, 3, 2)>>}

Arm64Programs ==
    {Arm64(reserved, len, 4, text, ramfs, dtb) :
        reserved \in {<<>>, <<R(11, 2)>>, <<R(10, 1), R(0, 9)>>},
        len \in {3, 4}, text \in {0, 1, 2}, ramfs \in {EmptyFile, 0, 3}, dtb \in {1, 2}}
Amd64Programs ==
    {Amd64(elf, ramfs, cmdline, 1, R(2, 1)) : elf \in FewElfs, ramfs \in {EmptyFile, 0, 3}, cmdline \in {0, 1}}
MultibootPrograms ==
    {Multiboot(elf, ibft, 2, modules, 1) : elf \in Elfs, ibft \in {0, 1}, modules \in {0, 3}}
EsxPrograms == {EsxBootInfo(elf, ibft, modules, 3) : elf \in FewElfs, ibft \in {0, 1}, modules \in {0, 3}}
UefiPrograms == {Uefi(base, 3, entry, config) : base \in {2, 10, 11}, entry \in 0..3, config \in {1, 4, 5}}

AllPrograms == Arm64Programs \cup Amd64Programs \cup MultibootPrograms \cup EsxPrograms \cup UefiPrograms
MCIbft == R(4, 4)
=============================================================================
