------------------------------ MODULE MemRange ------------------------------
(***************************************************************************)
(* Ranges of physical memory and the memory map: the arithmetic of         *)
(* pkg/boot/kexec/memory_linux.go and pkg/align.                           *)
(*                                                                         *)
(* Addresses and sizes are unsigned machine words.  A list of ranges is a  *)
(* set: it has the order of the start addresses, where the order matters.  *)
(***************************************************************************)
EXTENDS Integers

CONSTANTS
    Word,   \* 2^64, the number of addresses
    Page    \* os.Getpagesize()

ASSUME WordAssumption == Word \in Nat /\ Page \in Nat \ {0} /\ Page < Word

Addr == 0..Word - 1
Ranges == [start : Addr, size : Addr]
Types == {"RAM", "Reserved", "ACPI"}
TypedRanges == [start : Addr, size : Addr, type : Types]

\* The result of one addition or subtraction of words.
Wrap(x) == IF x >= Word THEN x - Word ELSE IF x < 0 THEN x + Word ELSE x

\* align.Up and align.UpPage; a is a power of two.
Up(v, a) == LET w == Wrap(v + (a - 1)) IN w - (w % a)
UpPage(v) == Up(v, Page)

End(r) == Wrap(r.start + r.size)

RangeFromInterval(start, end) == [start |-> start, size |-> Wrap(end - start)]

Contains(r, p) == r.start <= p /\ p < End(r)

Overlaps(r, r2) == r.start < End(r2) /\ r2.start < End(r)

Intersect(r, r2) ==
    RangeFromInterval(IF r.start > r2.start THEN r.start ELSE r2.start,
                      IF End(r) < End(r2) THEN End(r) ELSE End(r2))

\* The two parts of Minus: what is left of r below and above r2.
Below(r, r2) ==
    IF Contains(r, r2.start) /\ r.start # r2.start
    THEN {RangeFromInterval(r.start, r2.start)} ELSE {}

\* Mutant: the end of a range is taken for its last address.
Above_Inclusive(r, r2) ==
    LET last == Wrap(End(r2) - 1)
    IN  IF Contains(r, last) /\ End(r) # last THEN {RangeFromInterval(last, End(r))} ELSE {}

Above(r, r2) ==
    IF Contains(r, End(r2)) /\ End(r) # End(r2)
    THEN {RangeFromInterval(End(r2), End(r))} ELSE {}

Minus(r, r2) ==
    LET parts == Below(r, r2) \cup Above(r, r2)
    IN  IF parts = {} /\ ~Overlaps(r, r2) THEN {[start |-> r.start, size |-> r.size]} ELSE parts

\* Ranges.Minus
RangesMinus(rs, r) == UNION {Minus(q, r) : q \in rs}

\* MemoryMap.FilterByType
FilterByType(m, type) == {[start |-> q.start, size |-> q.size] : q \in {q \in m : q.type = type}}

Typed(r, type) == [start |-> r.start, size |-> r.size, type |-> type]

\* MemoryMap.Insert: what is left of the old ranges, and the new one.
Pieces(q, r) == {Typed(x, q.type) : x \in Minus(q, r)}
Insert(m, r, type) == (UNION {Pieces(q, r) : q \in m}) \cup {Typed(r, type)}

\* The end of AvailableRAM: the ranges from their first page boundary on.
AlignStarts(rs) ==
    {[start |-> UpPage(r.start), size |-> Wrap(r.size - Wrap(UpPage(r.start) - r.start))] :
        r \in {r \in rs : UpPage(r.start) < End(r)}}

\* Where Ranges.FindSpaceIn may put sz bytes: at the start of a range that has room
\* for them within limit.  It takes the first one of its list.
Room(rs, sz, limit) == {r \in rs : Overlaps(r, limit) /\ Intersect(r, limit).size >= sz}

FindSpaceIn(rs, sz, limit) ==
    {[start |-> Intersect(r, limit).start, size |-> sz] : r \in Room(rs, sz, limit)}

=============================================================================
