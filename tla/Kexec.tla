------------------------------- MODULE Kexec --------------------------------
(***************************************************************************)
(* Loading a kernel with kexec_load: the loaders of pkg/boot (linux,       *)
(* multiboot, uefi, purgatory) put their segments into physical memory     *)
(* with the help of kexec.Memory, and kexec.Load aligns and merges the     *)
(* segments and hands them to the kernel.                                  *)
(*                                                                         *)
(* A loader is the list of the calls that it makes on kexec.Memory.  The   *)
(* loops over segments, in AvailableRAM and in AlignAndMerge, take one     *)
(* step per segment.  A byte of a buffer is known by where it comes from.  *)
(***************************************************************************)
EXTENDS MemRange, Sequences, FiniteSets

CONSTANTS
    M1,          \* FindSpace does not use memory below this address
    KernelAlign, \* kernelAlignSize of the arm64 loader
    SetupAddr,   \* 0x90000: where the amd64 loader wants the boot parameters
    IbftRange,   \* the addresses at which an operating system looks for an iBFT
    ConfigSize,  \* uefiPayloadConfigSize
    Firmware,    \* Firmware: the memory maps that the firmware may report
    Programs     \* the loaders with their inputs: sequences of calls

\* Calls on kexec.Memory.
Calls ==
    [op : {"parse", "tell", "empty"}]
        \cup [op : {"carve"}, start : Addr, size : Addr]
        \cup [op : {"insert"}, start : Addr, size : Addr, len : Addr]
        \cup [op : {"add"}, len : Addr, sz : Addr, off : Addr, align : Addr]
        \cup [op : {"phys"}, len : Addr, limit : Ranges]
        \cup [op : {"load"}, entry : Addr \cup {-1}]

ASSUME KexecAssumption ==
    /\ M1 \in Addr /\ KernelAlign \in Addr \ {0} /\ SetupAddr \in Addr
    /\ IbftRange \in Ranges /\ ConfigSize \in Addr
    /\ Firmware \subseteq SUBSET TypedRanges
    /\ Programs \subseteq Seq(Calls)

VARIABLES
    pc,       \* where the loader is
    prog,     \* the calls that are left
    phys,     \* m.Phys
    segs,     \* m.Segments
    ram,      \* AvailableRAM: what is left of RAM
    todo,     \* the segments that a loop has not come to
    found,    \* the range that FindSpace or ReservePhys has found
    told,     \* the memory map that was handed to the operating system
    newSegs,  \* AlignAndMerge: the segments that are finished
    cur       \* AlignAndMerge: the last segment, which the next one may join

vars == <<pc, prog, phys, segs, ram, todo, found, told, newSegs, cur>>

-----------------------------------------------------------------------------
(***************************************************************************)
(* The loaders.                                                            *)
(***************************************************************************)

Parse == [op |-> "parse"]
Tell == [op |-> "tell"]
Carve(r) == [op |-> "carve", start |-> r.start, size |-> r.size]
InsertAt(start, size, len) == [op |-> "insert", start |-> start, size |-> size, len |-> len]
Explicit(len, sz, off, align) == [op |-> "add", len |-> len, sz |-> sz, off |-> off, align |-> align]
Add(len) == Explicit(len, len, 0, Page)
AddPhys(len, limit) == [op |-> "phys", len |-> len, limit |-> limit]
Load(entry) == [op |-> "load", entry |-> entry]
LastAdded == -1

\* An initramfs of n bytes.  The buffer of an empty file is empty, but not nil.
EmptyFile == -1
AddFile(n) == IF n = EmptyFile THEN [op |-> "empty"] ELSE Add(n)

\* arm64: the memory map is that of the device tree, with its reserved regions
\* carved out.  Without an initramfs an empty segment is added.
Arm64(reserved, len, image, text, ramfs, dtb) ==
    <<Parse>> \o [k \in DOMAIN reserved |-> Carve(reserved[k])]
      \o <<Explicit(len, Wrap(image + text), text, KernelAlign),
           AddFile(ramfs), Add(dtb), Add(1), Load(LastAdded)>>

\* amd64: the program headers of the bzImage, then initramfs and command line if
\* there are any, the boot parameters and the purgatory (purgatory.Load).
Amd64(elf, ramfs, cmdline, param, purgatory) ==
    <<Parse>> \o elf
      \o (IF ramfs = 0 THEN <<>> ELSE <<AddFile(ramfs)>>)
      \o (IF cmdline = 0 THEN <<>> ELSE <<Add(cmdline)>>)
      \o <<AddPhys(param, RangeFromInterval(SetupAddr, param)),
           AddPhys(UpPage(purgatory.size), RangeFromInterval(purgatory.start, Wrap(purgatory.start + UpPage(purgatory.size)))),
           Load(purgatory.start)>>

\* Mutant: the iBFT is put into memory after the memory map has been written.
Multiboot_IbftLast(elf, ibft, mmap, modules, info) ==
    elf \o <<Parse>>
      \o <<Tell, Add(mmap)>>
      \o (IF modules = 0 THEN <<>> ELSE <<Add(modules), Add(1)>>)
      \o <<Add(info)>>
      \o (IF ibft = 0 THEN <<>> ELSE <<AddPhys(ibft, IbftRange)>>)
      \o <<Add(1), Load(LastAdded)>>

\* A multiboot kernel: its program headers, the iBFT if there is one, the memory
\* map, modules and their list, the info and the trampoline.
Multiboot(elf, ibft, mmap, modules, info) ==
    elf \o <<Parse>>
      \o (IF ibft = 0 THEN <<>> ELSE <<AddPhys(ibft, IbftRange)>>)
      \o <<Tell, Add(mmap)>>
      \o (IF modules = 0 THEN <<>> ELSE <<Add(modules), Add(1)>>)
      \o <<Add(info), Add(1), Load(LastAdded)>>

\* The same with an esxBootInfo header: the memory map is part of the info.
EsxBootInfo(elf, ibft, modules, info) ==
    elf \o <<Parse>>
      \o (IF ibft = 0 THEN <<>> ELSE <<AddPhys(ibft, IbftRange)>>)
      \o <<Tell, Add(modules), Add(info), Add(1), Load(LastAdded)>>

\* A UEFI payload at its base, and its configuration below it.
Uefi(base, len, entry, config) ==
    <<InsertAt(base, len, len), Parse, Tell>>
      \o (IF config > ConfigSize THEN <<>>
          ELSE <<InsertAt(Wrap(base - ConfigSize), config, config), Load(Wrap(base + entry))>>)

-----------------------------------------------------------------------------

Zero == [from |-> "zero"]
Junk == [from |-> "junk"]
Byte(id, k) == [from |-> "data", id |-> id, off |-> k]
Zeros(n) == [k \in 1..n |-> Zero]
Fill(n) == [k \in 1..n |-> Junk]

\* NewSegment: the buffer holds len bytes of data, and is nil if there are none.
NewSegment(id, len, r, placed) ==
    [id |-> id, start |-> r.start, size |-> r.size, placed |-> placed,
     buf |-> [k \in 1..len |-> Byte(id, k)]]

NoSegment == [id |-> 0, start |-> 0, size |-> 0, placed |-> FALSE, buf |-> <<>>]
NoRange == [start |-> 0, size |-> 0]

Init ==
    /\ pc = "call" /\ prog \in Programs
    /\ phys = {} /\ segs = {} /\ ram = {} /\ todo = {}
    /\ found = NoRange /\ told = {}
    /\ newSegs = {} /\ cur = NoSegment

Call == Head(prog)
Calling(op) == pc = "call" /\ prog # <<>> /\ Call.op = op

\* A file cannot be read or parsed, or the program gives up by itself: the loader
\* returns an error.
Fail ==
    /\ pc = "call"
    /\ pc' = "failed"
    /\ UNCHANGED <<prog, phys, segs, ram, todo, found, told, newSegs, cur>>

\* ParseMemoryMap, and the memory nodes of ParseMemoryMapFromFDT.
ParseMemoryMap ==
    /\ Calling("parse")
    /\ phys' \in Firmware
    /\ prog' = Tail(prog)
    /\ UNCHANGED <<pc, segs, ram, todo, found, told, newSegs, cur>>

\* ParseMemoryMapFromFDT: a reserved region.
ReserveMemory ==
    /\ Calling("carve")
    /\ phys' = Insert(phys, Call, "Reserved")
    /\ prog' = Tail(prog)
    /\ UNCHANGED <<pc, segs, ram, todo, found, told, newSegs, cur>>

\* The memory map is written for the operating system.
MemoryMapForOS ==
    /\ Calling("tell")
    /\ told' = phys
    /\ prog' = Tail(prog)
    /\ UNCHANGED <<pc, phys, segs, ram, todo, found, newSegs, cur>>

\* LoadElfSegments: a PT_LOAD header; a segment at a fixed address.
InsertSegment ==
    /\ Calling("insert")
    /\ segs' = segs \cup {NewSegment(Len(prog), Call.len, Call, FALSE)}
    /\ prog' = Tail(prog)
    /\ UNCHANGED <<pc, phys, ram, todo, found, told, newSegs, cur>>

-----------------------------------------------------------------------------
(***************************************************************************)
(* kexec.Memory: finding space.                                            *)
(***************************************************************************)

\* AddKexecSegmentExplicit checks its arguments.
BadArguments == Call.op = "add" /\ (Call.sz < Call.len \/ Call.off > Call.sz)

\* FindSpace or ReservePhys calls AvailableRAM.
StartFind ==
    /\ pc = "call" /\ prog # <<>> /\ Call.op \in {"add", "phys"}
    /\ ~BadArguments
    /\ ram' = FilterByType(phys, "RAM") /\ todo' = segs
    /\ pc' = "avail"
    /\ UNCHANGED <<prog, phys, segs, found, told, newSegs, cur>>

\* AddKexecSegment with an empty buffer that is not nil: NewSegment panics over its
\* first byte.
EmptyBuffer ==
    /\ Calling("empty")
    /\ pc' = "panic"
    /\ UNCHANGED <<prog, phys, segs, ram, todo, found, told, newSegs, cur>>

\* The order of the segments: by their start addresses, otherwise as inserted.
Before(s, t) == s.start < t.start \/ (s.start = t.start /\ s.id >= t.id)

\* Mutant: the loop ends with the first segment that takes nothing away.
SubtractSegment_StopsEarly ==
    /\ pc = "avail"
    /\ \E s \in todo :
         /\ \A t \in todo : Before(s, t)
         /\ ram' = RangesMinus(ram, s)
         /\ todo' = IF ram' = ram THEN {} ELSE todo \ {s}
    /\ UNCHANGED <<pc, prog, phys, segs, found, told, newSegs, cur>>

\* AvailableRAM: one round of the loop.
SubtractSegment ==
    /\ pc = "avail"
    /\ \E s \in todo :
         /\ \A t \in todo : Before(s, t)
         /\ ram' = RangesMinus(ram, s)
         /\ todo' = todo \ {s}
    /\ UNCHANGED <<pc, prog, phys, segs, found, told, newSegs, cur>>

\* ReservePhys aligns the size by pages, FindSpace as it is told, or by pages.
Size ==
    IF Call.op = "phys" \/ Call.align = 0
    THEN UpPage(IF Call.op = "phys" THEN Call.len ELSE Call.sz)
    ELSE Up(Call.sz, Call.align)
Limit == IF Call.op = "phys" THEN Call.limit ELSE RangeFromInterval(M1, Word - 1)

\* Insert sorts the memory map, and so does ParseMemoryMap.  A map that has nothing
\* but RAM may be that of a device tree, in the order of its nodes.
Sorted == \E q \in phys : q.type # "RAM"

\* The end of AvailableRAM, and FindSpaceAbove or FindSpaceIn.
FindSpace ==
    /\ pc = "avail" /\ todo = {}
    /\ LET spaces == FindSpaceIn(AlignStarts(ram), Size, Limit)
       IN  \/ spaces = {} /\ pc' = "failed" /\ UNCHANGED found
           \/ /\ found' \in spaces /\ pc' = "place"
              /\ Sorted => \A x \in spaces : found'.start <= x.start
    /\ UNCHANGED <<prog, phys, segs, ram, todo, told, newSegs, cur>>

\* AddKexecSegmentExplicit moves the start of what it has found; ReservePhys
\* marks it in the memory map.
Shifted == [start |-> Wrap(found.start + Call.off), size |-> found.size]

PlaceSegment ==
    /\ pc = "place"
    /\ \/ /\ Call.op = "add"
          /\ segs' = segs \cup {NewSegment(Len(prog), Call.len, Shifted, TRUE)}
          /\ UNCHANGED phys
       \/ /\ Call.op = "phys"
          /\ segs' = segs \cup {NewSegment(Len(prog), Call.len, found, TRUE)}
          /\ phys' = Insert(phys, found, "Reserved")
    /\ pc' = "call" /\ prog' = Tail(prog)
    /\ UNCHANGED <<ram, todo, found, told, newSegs, cur>>

-----------------------------------------------------------------------------
(***************************************************************************)
(* kexec.Load and AlignAndMerge.                                           *)
(***************************************************************************)

\* The order in which AlignAndMerge goes through the segments.
MergeBefore(s, t) ==
    \/ s.start < t.start
    \/ s.start = t.start /\ s.size > t.size
    \/ s.start = t.start /\ s.size = t.size /\ s.id >= t.id

Follows(s, t) ==
    /\ s # t /\ MergeBefore(s, t)
    /\ \A u \in segs \ {s, t} : MergeBefore(u, s) \/ MergeBefore(t, u)

\* AlignPhysStart moves the start to a page boundary and the start of the buffer
\* by as much, over whatever precedes the data.  It panics without a buffer.
Gap(s) == s.start % Page
AlignPanics(s) == s.buf = <<>> /\ Gap(s) > 0
AlignPhysStart(s) ==
    [s EXCEPT !.start = @ - Gap(s), !.size = Wrap(@ + Gap(s)), !.buf = Fill(Gap(s)) \o @]

\* Load: the segments are sorted, and neighbours must not overlap.
StartLoad ==
    /\ Calling("load")
    /\ \/ (\E s, t \in segs : Follows(s, t) /\ Overlaps(s, t)) /\ pc' = "failed"
          /\ UNCHANGED todo
       \/ (\A s, t \in segs : Follows(s, t) => ~Overlaps(s, t)) /\ pc' = "first"
          /\ todo' = segs
    /\ UNCHANGED <<prog, phys, segs, ram, found, told, newSegs, cur>>

\* The first segment.
MergeFirst ==
    /\ pc = "first"
    /\ \/ todo = {} /\ pc' = "sizes" /\ UNCHANGED <<todo, cur>>
       \/ \E s \in todo :
            /\ \A t \in todo : MergeBefore(s, t)
            /\ cur' = AlignPhysStart(s) /\ todo' = todo \ {s}
            /\ pc' = IF AlignPanics(s) THEN "panic" ELSE "merge"
    /\ UNCHANGED <<prog, phys, segs, ram, found, told, newSegs>>

\* realBufPad and realBufTruncate
Truncated(s) == SubSeq(s.buf, 1, IF Len(s.buf) < s.size THEN Len(s.buf) ELSE s.size)
Padded(s) == Truncated(s) \o Zeros(s.size - Len(Truncated(s)))

\* Mutant: the first buffer is not padded.
MergeDisjoint_NoPadding(s, s2) ==
    LET gap == Wrap(s2.start - End(s))
    IN  [s EXCEPT !.size = Wrap(@ + gap + s2.size), !.buf = Truncated(s) \o Zeros(gap) \o Truncated(s2)]

\* mergeDisjoint, when it succeeds.
MergeDisjoint(s, s2) ==
    LET gap == Wrap(s2.start - End(s))
    IN  [s EXCEPT !.size = Wrap(@ + gap + s2.size), !.buf = Padded(s) \o Zeros(gap) \o Truncated(s2)]

\* Mutant: the segment is compared before it is aligned.
MergeNext_Unaligned ==
    /\ pc = "merge"
    /\ \E s \in todo :
         /\ \A t \in todo : MergeBefore(s, t)
         /\ todo' = todo \ {s}
         /\ \/ Overlaps(s, cur) /\ cur' = MergeDisjoint(cur, s) /\ UNCHANGED <<pc, newSegs>>
            \/ ~Overlaps(s, cur) /\ newSegs' = newSegs \cup {cur} /\ cur' = AlignPhysStart(s) /\ UNCHANGED pc
    /\ UNCHANGED <<prog, phys, segs, ram, found, told>>

\* The loop over the other segments: one that begins in the last page of the
\* previous one joins it.
MergeNext ==
    /\ pc = "merge"
    /\ \E s \in todo :
         /\ \A t \in todo : MergeBefore(s, t)
         /\ todo' = todo \ {s}
         /\ \/ AlignPanics(s) /\ pc' = "panic" /\ UNCHANGED <<newSegs, cur>>
            \/ /\ ~AlignPanics(s) /\ Overlaps(AlignPhysStart(s), cur)
               /\ \/ ~Overlaps(cur, s) /\ cur.start <= s.start
                     /\ cur' = MergeDisjoint(cur, s) /\ UNCHANGED pc
                  \/ (Overlaps(cur, s) \/ cur.start > s.start)
                     /\ pc' = "failed" /\ UNCHANGED cur
               /\ UNCHANGED newSegs
            \/ /\ ~AlignPanics(s) /\ ~Overlaps(AlignPhysStart(s), cur)
               /\ newSegs' = newSegs \cup {cur} /\ cur' = AlignPhysStart(s)
               /\ UNCHANGED pc
    /\ UNCHANGED <<prog, phys, segs, ram, found, told>>

\* The last loop of AlignAndMerge: full pages.
AlignSize(s) == [s EXCEPT !.buf = Truncated(s), !.size = UpPage(@)]

AlignSizes ==
    /\ pc \in {"merge", "sizes"} /\ todo = {}
    /\ newSegs' = {AlignSize(s) : s \in newSegs \cup (IF pc = "merge" THEN {cur} ELSE {})}
    /\ pc' = "check"
    /\ UNCHANGED <<prog, phys, segs, ram, todo, found, told, cur>>

\* Load: the entry point must be in a segment; then rawLoad, which may fail.
Entry == IF Call.entry = LastAdded THEN found.start ELSE Call.entry

CheckEntry ==
    /\ pc = "check"
    /\ \/ pc' = "failed"
       \/ (\E s \in newSegs : Contains(s, Entry)) /\ pc' = "loaded"
    /\ UNCHANGED <<prog, phys, segs, ram, todo, found, told, newSegs, cur>>

Stopped == pc \in {"failed", "loaded", "panic"} /\ UNCHANGED vars

Next ==
    \/ Fail \/ ParseMemoryMap \/ ReserveMemory \/ MemoryMapForOS \/ InsertSegment
    \/ StartFind \/ EmptyBuffer \/ SubtractSegment \/ FindSpace \/ PlaceSegment
    \/ StartLoad \/ MergeFirst \/ MergeNext \/ AlignSizes \/ CheckEntry
    \/ Stopped

Spec == Init /\ [][Next]_vars

-----------------------------------------------------------------------------
(***************************************************************************)
(* Properties.                                                             *)
(***************************************************************************)

\* The addresses of a range, none if it wraps around.
Points(r) == {a \in Addr : r.start <= a /\ a < r.start + r.size}

\* FindSpaceIn: "a contiguous piece of sz points within Ranges".  What FindSpace
\* and ReservePhys find is RAM that nobody has reserved and no segment uses.
FoundIsFree ==
    pc = "place" =>
        /\ \E q \in phys : q.type = "RAM" /\ Points(found) \subseteq Points(q)
        /\ \A s \in segs : Points(found) \cap Points(s) = {}

\* No segment that was placed by kexec.Memory shares an address with another one,
\* also not once the memory map has been changed behind the loader's back.
PlacedApart ==
    \A s, t \in segs : s.placed /\ s # t => Points(s) \cap Points(t) = {}

\* The preconditions of rawLoad: "segments must not overlap", "segments must be
\* full pages".
KernelAccepts ==
    pc \in {"check", "loaded"} =>
        /\ \A s \in newSegs : s.start % Page = 0 /\ s.size % Page = 0 /\ Len(s.buf) <= s.size
        /\ \A s, t \in newSegs : s # t => Points(s) \cap Points(t) = {}

\* What the next kernel finds at address a: segments are filled up with zeros.
Loaded(a) == {IF a - s.start < Len(s.buf) THEN s.buf[a - s.start + 1] ELSE Zero :
                 s \in {s \in newSegs : a \in Points(s)}}

\* Merging and aligning changes no byte: every segment arrives at its physical
\* address, its data first and zeros up to its size (AlignAndMerge).
BytesArrive ==
    pc \in {"check", "loaded"} =>
        \A s \in segs : \A a \in Points(s) :
            Loaded(a) = {IF a - s.start < Len(s.buf) THEN Byte(s.id, a - s.start + 1) ELSE Zero}

\* The loaded system is not told that memory which ReservePhys has reserved for
\* the iBFT is free (multiboot load: the iBFT comes first).
ReservedIsTold ==
    pc = "loaded" /\ told # {} =>
        \A q \in told : q.type = "RAM" => \E q2 \in phys : q2.type = "RAM" /\ Points(q) \subseteq Points(q2)

=============================================================================
