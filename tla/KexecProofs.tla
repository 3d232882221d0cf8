---------------------------- MODULE KexecProofs -----------------------------
(***************************************************************************)
(* For every size of words and pages: what kexec.Memory finds is free,     *)
(* the segments that it places are apart, the operating system is told     *)
(* what was reserved, the kernel accepts what AlignAndMerge makes of the   *)
(* segments, and every byte arrives.                                       *)
(***************************************************************************)
EXTENDS Kexec, TLAPS

\* A range that does not reach the last address, and one that ends with it: its
\* end is 0, and the code takes it for empty.
Proper(r) == r.start + r.size < Word
Void(r) == r.start + r.size = Word

\* One ends before the other begins, also if one of them is empty.
Apart(r, s) == r.start + r.size <= s.start \/ s.start + s.size <= r.start

\* The same for an x that does not begin where s begins, unless s is empty.
Clear(x, s) == (x.start < s.start /\ x.start + x.size <= s.start) \/ s.start + s.size <= x.start

Inside(x, r) == r.start <= x.start /\ x.start + x.size <= r.start + r.size

\* Aligning an address moves it up, by less than the alignment.
LEMMA UpBounds ==
    ASSUME NEW v \in Nat, NEW a \in Nat \ {0}, v + (a - 1) < Word
    PROVE  Up(v, a) \in Nat /\ Up(v, a) >= v /\ Up(v, a) < v + a
<1> DEFINE w == v + (a - 1)
<1>1. w \in Nat /\ Wrap(w) = w
  BY WordAssumption DEF Wrap
<1>2. w % a \in 0..a - 1
  BY <1>1
<1>3. Up(v, a) = w - (w % a)
  BY <1>1 DEF Up
<1> QED
  BY <1>1, <1>2, <1>3

\* An aligned size is a word.
LEMMA UpType ==
    ASSUME NEW v \in Addr, NEW a \in Addr \ {0}
    PROVE  Up(v, a) \in Addr
<1> DEFINE w == Wrap(v + (a - 1))
<1>1. w \in Addr
  BY WordAssumption DEF Wrap, Addr
<1>2. w % a \in 0..a - 1 /\ w % a <= w
  BY <1>1, WordAssumption DEF Addr
<1>3. Up(v, a) = w - (w % a)
  BY DEF Up
<1> HIDE DEF w
<1> QED
  BY <1>1, <1>2, <1>3, WordAssumption DEF Addr

-----------------------------------------------------------------------------
(***************************************************************************)
(* Multiples of a page.                                                    *)
(***************************************************************************)

\* Division with remainder.
LEMMA DivMod ==
    ASSUME NEW P \in Nat \ {0}, NEW x \in Nat
    PROVE  x % P \in 0..P - 1 /\ x % P <= x /\ x = P * (x \div P) + (x % P) /\ x \div P \in Nat
  OBVIOUS

\* A multiple has no remainder.
LEMMA Multiple ==
    ASSUME NEW P \in Nat \ {0}, NEW k \in Nat
    PROVE  (P * k) % P = 0
  OBVIOUS

\* The greatest multiple up to x (Gap, AlignPhysStart).
LEMMA RoundDown ==
    ASSUME NEW P \in Nat \ {0}, NEW x \in Nat
    PROVE  /\ (x - (x % P)) % P = 0
           /\ \A c \in Nat : c % P = 0 /\ c <= x => c <= x - (x % P)
<1>1. x - (x % P) = P * (x \div P) /\ x \div P \in Nat
  BY DivMod
<1>2. (x - (x % P)) % P = 0
  BY <1>1, Multiple
<1>3. ASSUME NEW c \in Nat, c % P = 0, c <= x PROVE c <= x - (x % P)
  <2>1. c = P * (c \div P) /\ c \div P \in Nat
    BY <1>3, DivMod
  <2>2. c \div P <= x \div P
    BY <1>3
  <2>3. \A a, b \in Nat : a <= b => P * a <= P * b
    OBVIOUS
  <2> QED
    BY <1>1, <2>1, <2>2, <2>3
<1> QED
  BY <1>2, <1>3

\* The difference and the sum of two multiples.
LEMMA AlignedDifference ==
    ASSUME NEW P \in Nat \ {0}, NEW x \in Nat, NEW c \in Nat, c % P = 0, x % P = 0, c <= x
    PROVE  (x - c) % P = 0
<1>1. PICK a \in Nat : a = c \div P
  BY DivMod
<1>2. PICK b \in Nat : b = x \div P
  BY DivMod
<1>3. c = P * a /\ x = P * b
  BY <1>1, <1>2, DivMod
<1>4. \A u, v \in Nat : u < v => P * u < P * v
  OBVIOUS
<1>5. a <= b
  BY <1>3, <1>4
<1>6. PICK d \in Nat : d = b - a
  BY <1>5
<1>7. x - c = P * d
  BY <1>3, <1>6
<1>8. (P * d) % P = 0
  BY Multiple
<1> QED
  BY <1>7, <1>8

\* A multiple of a multiple.
LEMMA MultipleOfMultiple ==
    ASSUME NEW P \in Nat \ {0}, NEW a \in Nat \ {0}, a % P = 0, NEW w \in Nat
    PROVE  (w - (w % a)) % P = 0
<1>1. PICK m \in Nat : m = a \div P
  BY DivMod
<1>2. a = P * m
  BY <1>1, DivMod
<1>3. PICK d \in Nat : d = w \div a
  BY DivMod
<1>4. w - (w % a) = a * d
  BY <1>3, DivMod
<1>5. PICK k \in Nat : k = m * d
  OBVIOUS
<1>6. w - (w % a) = P * k
  BY <1>2, <1>4, <1>5
<1>7. (P * k) % P = 0
  BY Multiple
<1> QED
  BY <1>6, <1>7

\* align.Up gives whole pages, if it aligns by pages.
LEMMA UpAligned ==
    ASSUME NEW v \in Addr, NEW a \in Addr \ {0}, a % Page = 0
    PROVE  Up(v, a) % Page = 0
<1> DEFINE w == Wrap(v + (a - 1))
<1>1. w \in Nat
  BY WordAssumption DEF Wrap, Addr
<1>2. Up(v, a) = w - (w % a)
  BY DEF Up
<1> HIDE DEF w
<1>3. a \in Nat \ {0} /\ Page \in Nat \ {0}
  BY WordAssumption DEF Addr
<1>4. (w - (w % a)) % Page = 0
  BY <1>1, <1>3, MultipleOfMultiple
<1> QED
  BY <1>2, <1>4

\* align.UpPage: the least multiple of a page.
LEMMA UpPageFacts ==
    ASSUME NEW v \in Nat, v + Page <= Word
    PROVE  /\ UpPage(v) \in Nat /\ v <= UpPage(v) /\ UpPage(v) < v + Page /\ UpPage(v) % Page = 0
           /\ \A c \in Nat : c % Page = 0 /\ v <= c => UpPage(v) <= c
           /\ v % Page = 0 => UpPage(v) = v
<1>0. Page \in Nat \ {0} /\ Page \in Addr \ {0} /\ v \in Addr /\ Page % Page = 0
  BY WordAssumption DEF Addr
<1>1. UpPage(v) \in Nat /\ v <= UpPage(v) /\ UpPage(v) < v + Page
  BY <1>0, UpBounds, WordAssumption DEF UpPage
<1>2. UpPage(v) % Page = 0
  BY <1>0, UpAligned DEF UpPage
<1> DEFINE u == UpPage(v)
<1> HIDE DEF u
<1>3. ASSUME NEW c \in Nat, c % Page = 0, v <= c PROVE u <= c
  <2> SUFFICES ASSUME c < u PROVE FALSE
    BY <1>0, <1>1, <1>3 DEF u
  <2>1. u \in Nat /\ u % Page = 0 /\ u < v + Page /\ c <= u
    BY <1>1, <1>2 DEF u
  <2>2. (u - c) % Page = 0
    BY <1>0, <1>3, <2>1, AlignedDifference
  <2>3. u - c \in 1..Page - 1
    BY <1>0, <1>3, <2>1
  <2>4. (u - c) % Page = u - c
    BY <1>0, <2>3
  <2> QED
    BY <2>2, <2>3, <2>4
<1>4. v % Page = 0 => u = v
  BY <1>1, <1>3 DEF u
<1> QED
  BY <1>1, <1>2, <1>3, <1>4 DEF u

-----------------------------------------------------------------------------
(***************************************************************************)
(* Ranges.                                                                 *)
(***************************************************************************)

\* Minus: what is left of r is in r, and shares nothing with s.
LEMMA MinusProper ==
    ASSUME NEW r, r.start \in Addr, r.size \in Addr, Proper(r),
           NEW s, s.start \in Addr, s.size \in Addr,
           NEW x \in Minus(r, s)
    PROVE  x \in Ranges /\ Proper(x) /\ Inside(x, r) /\ (Proper(s) => Apart(x, s))
<1> USE WordAssumption DEF Addr, Proper, Inside, Apart
<1>1. End(r) = r.start + r.size
  BY DEF End, Wrap
<1>2. End(s) \in Addr /\ (Proper(s) => End(s) = s.start + s.size)
  BY DEF End, Wrap
<1>3. CASE x \in Below(r, s)
  <2>1. x = RangeFromInterval(r.start, s.start) /\ r.start < s.start /\ s.start < End(r)
    BY <1>1, <1>3 DEF Below, Contains
  <2>2. x = [start |-> r.start, size |-> s.start - r.start]
    BY <1>1, <2>1 DEF RangeFromInterval, Wrap
  <2> QED
    BY <1>1, <2>1, <2>2 DEF Ranges
<1>4. CASE x \in Above(r, s)
  <2>1. x = RangeFromInterval(End(s), End(r)) /\ r.start <= End(s) /\ End(s) < End(r)
    BY <1>1, <1>2, <1>4 DEF Above, Contains
  <2>2. x = [start |-> End(s), size |-> End(r) - End(s)]
    BY <1>1, <1>2, <2>1 DEF RangeFromInterval, Wrap
  <2> QED
    BY <1>1, <1>2, <2>1, <2>2 DEF Ranges
<1>5. CASE x = [start |-> r.start, size |-> r.size] /\ ~Overlaps(r, s)
  BY <1>1, <1>2, <1>5 DEF Overlaps, Ranges
<1> QED
  BY <1>3, <1>4, <1>5 DEF Minus

\* What is left of r ends where r ends, or where s begins.
LEMMA MinusEnds ==
    ASSUME NEW r, r.start \in Addr, r.size \in Addr, Proper(r),
           NEW s, s.start \in Addr, s.size \in Addr,
           NEW x \in Minus(r, s)
    PROVE  x.start + x.size \in {r.start + r.size, s.start}
<1> USE WordAssumption DEF Addr, Proper
<1>1. End(r) = r.start + r.size
  BY DEF End, Wrap
<1>2. CASE x \in Below(r, s)
  <2>1. x = RangeFromInterval(r.start, s.start) /\ r.start < s.start
    BY <1>2 DEF Below, Contains
  <2> QED
    BY <2>1 DEF RangeFromInterval, Wrap
<1>3. CASE x \in Above(r, s)
  <2>1. x = RangeFromInterval(End(s), End(r)) /\ End(s) < End(r) /\ End(s) \in Addr
    BY <1>1, <1>3 DEF Above, Contains, End, Wrap
  <2> QED
    BY <1>1, <2>1 DEF RangeFromInterval, Wrap
<1>4. CASE x = [start |-> r.start, size |-> r.size]
  BY <1>4
<1> QED
  BY <1>2, <1>3, <1>4 DEF Minus

\* Minus leaves a range alone that ends with the last address.
LEMMA MinusVoid ==
    ASSUME NEW r, r.start \in Addr, r.size \in Addr, Void(r),
           NEW s, s.start \in Addr, s.size \in Addr
    PROVE  Minus(r, s) = {[start |-> r.start, size |-> r.size]}
<1> USE WordAssumption DEF Addr, Void
<1>1. End(r) = 0 /\ End(s) \in Addr
  BY DEF End, Wrap
<1>2. \A p \in Addr : ~Contains(r, p)
  BY <1>1 DEF Contains
<1>3. Below(r, s) = {} /\ Above(r, s) = {} /\ ~Overlaps(r, s)
  BY <1>1, <1>2 DEF Below, Above, Overlaps
<1> QED
  BY <1>3 DEF Minus

\* AvailableRAM: moving the start of a range to a page boundary stays inside it,
\* and does not move its end.
LEMMA AlignStartsInside ==
    ASSUME NEW rs \in SUBSET Ranges, NEW x \in AlignStarts(rs),
           \A r \in rs : Void(r) \/ r.start + r.size + Page < Word
    PROVE  /\ x \in Ranges /\ x.size > 0 /\ Proper(x) /\ x.start % Page = 0
           /\ \E r \in rs : ~Void(r) /\ Inside(x, r) /\ x.start + x.size = r.start + r.size
<1> USE WordAssumption DEF Addr, Proper, Void
<1>1. PICK r \in rs : /\ UpPage(r.start) < End(r)
                      /\ x = [start |-> UpPage(r.start),
                              size |-> Wrap(r.size - Wrap(UpPage(r.start) - r.start))]
  BY DEF AlignStarts
<1>2. r \in Ranges /\ r.start \in Nat /\ r.size \in Nat
  BY DEF Ranges
<1>3. CASE Void(r)
  <2>1. UpPage(r.start) \in Addr
    BY <1>2, UpType DEF UpPage, Ranges
  <2> QED
    BY <1>1, <1>2, <1>3, <2>1 DEF End, Wrap
<1>4. CASE r.start + r.size + Page < Word
  <2>1. UpPage(r.start) \in Nat /\ UpPage(r.start) >= r.start /\ UpPage(r.start) % Page = 0
    BY <1>2, <1>4, UpPageFacts
  <2>2. End(r) = r.start + r.size
    BY <1>2, <1>4 DEF End, Wrap
  <2>3. x = [start |-> UpPage(r.start), size |-> r.start + r.size - UpPage(r.start)]
    BY <1>1, <1>2, <1>4, <2>1, <2>2 DEF Wrap
  <2> HIDE DEF UpPage
  <2>4. /\ x \in Ranges /\ x.size > 0 /\ Proper(x) /\ Inside(x, r) /\ ~Void(r)
        /\ x.start + x.size = r.start + r.size
    <3>1. \A u \in Nat : u >= r.start /\ u < r.start + r.size =>
             LET y == [start |-> u, size |-> r.start + r.size - u]
             IN  y \in Ranges /\ y.size > 0 /\ Proper(y) /\ Inside(y, r) /\ y.start + y.size = r.start + r.size
      BY <1>2, <1>4 DEF Ranges, Inside
    <3> QED
      BY <1>1, <1>2, <1>4, <2>1, <2>2, <2>3, <3>1
  <2>5. x.start % Page = 0
    BY <2>1, <2>3
  <2> QED
    BY <2>4, <2>5
<1> QED
  BY <1>2, <1>3, <1>4

\* FindSpaceIn with a limit that does not wrap around stays inside a range.
LEMMA FindSpaceInside ==
    ASSUME NEW rs \in SUBSET Ranges, \A r \in rs : r.size > 0 /\ Proper(r),
           NEW limit \in Ranges, Proper(limit), NEW sz \in Addr,
           NEW x \in FindSpaceIn(rs, sz, limit)
    PROVE  x \in Ranges /\ x.size = sz /\ \E r \in rs : Inside(x, r) /\ x.start < r.start + r.size
<1> USE WordAssumption DEF Addr, Proper, Ranges
<1>1. PICK r \in rs : /\ Overlaps(r, limit) /\ Intersect(r, limit).size >= sz
                      /\ x = [start |-> Intersect(r, limit).start, size |-> sz]
  BY DEF FindSpaceIn, Room
<1>2. End(r) = r.start + r.size /\ End(limit) = limit.start + limit.size
  BY DEF End, Wrap
<1> DEFINE lo == IF r.start > limit.start THEN r.start ELSE limit.start
           hi == IF End(r) < End(limit) THEN End(r) ELSE End(limit)
<1>3. lo \in Addr /\ hi \in Addr /\ lo <= hi /\ r.start <= lo /\ hi <= r.start + r.size /\ lo < r.start + r.size
  BY <1>1, <1>2 DEF Overlaps
<1>4. Intersect(r, limit).start = lo /\ Intersect(r, limit).size = hi - lo
  <2>1. Intersect(r, limit) = [start |-> lo, size |-> Wrap(hi - lo)]
    BY DEF Intersect, RangeFromInterval
  <2> HIDE DEF lo, hi
  <2> QED
    BY <1>3, <2>1 DEF Wrap
<1> HIDE DEF lo, hi
<1> QED
  BY <1>1, <1>3, <1>4 DEF Inside

-----------------------------------------------------------------------------
(***************************************************************************)
(* The inductive invariant.  top is the end of RAM.                        *)
(***************************************************************************)

\* The amd64 loader passes the length of the boot parameters for the end of their
\* interval.  The limit that it gives to AddPhysSegment wraps around, and its end is
\* below its start.
SetupCall(c) == c.op = "phys" /\ c.len <= Page /\ c.limit = RangeFromInterval(SetupAddr, c.len)

\* Some loader does that.
AsksForSetup == \E p \in Programs : \E k \in DOMAIN p : SetupCall(p[k]) /\ ~Proper(p[k].limit)

\* Within the page at SetupAddr, and not at its start.
InSetup(a) == SetupAddr < a /\ a < SetupAddr + Page

\* Calls that make sense on a machine whose RAM ends at top: no segment and no
\* limit wraps around, but the limit for the boot parameters.  If a loader asks for
\* these, nothing is put or reserved from within their page on.
ProperCalls(top) ==
    {c \in Calls : /\ c.op = "insert" => c.start + c.size < Word
                   /\ c.op = "add" => top + c.off < Word
                   /\ c.op = "phys" => Proper(c.limit) \/ (AsksForSetup /\ SetupCall(c))
                   /\ AsksForSetup =>
                        /\ c.op \in {"insert", "carve"} => ~InSetup(c.start)
                        /\ c.op = "phys" => ~InSetup(c.limit.start)}

BelowTop(r, top) == Void(r) \/ r.start + r.size <= top

PhysInv(top) == phys \subseteq TypedRanges /\ \A q \in phys : q.type = "RAM" => BelowTop(q, top)

SegInv == \A s \in segs : s.start \in Addr /\ s.size \in Addr /\ Proper(s)

\* What is left of RAM is RAM, and out of the way of the segments seen so far.
RamInv(top) ==
    pc = "avail" =>
        /\ prog # <<>> /\ Call.op \in {"add", "phys"}
        /\ todo \subseteq segs /\ ram \subseteq Ranges
        /\ \A r \in ram :
             \/ Void(r)
             \/ /\ r.start + r.size <= top
                /\ \E q \in phys : q.type = "RAM" /\ Inside(r, q)
                /\ \A s \in segs \ todo : Apart(r, s)

FoundInv(top) ==
    pc = "place" =>
        /\ prog # <<>> /\ Call.op \in {"add", "phys"}
        /\ found \in Ranges /\ found.start + found.size <= top
        /\ \E q \in phys : q.type = "RAM" /\ Inside(found, q)
        /\ \A s \in segs : Clear(found, s)

\* If a loader asks for the page at SetupAddr, nothing ends or begins within it.
SetupInv ==
    AsksForSetup =>
        /\ \A q \in phys : q.type = "RAM" => ~InSetup(q.start + q.size)
        /\ \A s \in segs : ~InSetup(s.start)
        /\ pc = "avail" => \A r \in ram : ~InSetup(r.start + r.size)
        /\ pc = "place" => ~InSetup(found.start) /\ (Call.op = "add" => M1 <= found.start)

KInv(top) ==
    /\ prog \in Seq(ProperCalls(top))
    /\ PhysInv(top) /\ SegInv /\ RamInv(top) /\ FoundInv(top) /\ SetupInv

\* The page for the boot parameters is below the memory that FindSpace uses, and no
\* RAM of the firmware's maps ends within it.
SetupPage ==
    /\ SetupAddr % Page = 0 /\ Page <= SetupAddr /\ SetupAddr + Page <= M1
    /\ \A m \in Firmware : \A q \in m : q.type = "RAM" => ~InSetup(q.start + q.size)

\* The machine and the loaders that the theorem is about: RAM ends at top, one
\* page or more before the last address, or exactly there.
Machine(top) ==
    /\ top \in Addr /\ top + Page < Word
    /\ \A m \in Firmware : \A q \in m : q.type = "RAM" => BelowTop(q, top)
    /\ AsksForSetup => SetupPage
    /\ Programs \subseteq Seq(ProperCalls(top))

\* What begins at a page boundary does not begin within the page at SetupAddr.
LEMMA AlignedOutside ==
    ASSUME SetupPage, NEW a \in Nat, a % Page = 0
    PROVE  ~InSetup(a)
<1> SUFFICES ASSUME SetupAddr < a, a < SetupAddr + Page PROVE FALSE
  BY DEF InSetup
<1>1. SetupAddr \in Nat /\ Page \in Nat \ {0}
  BY WordAssumption, KexecAssumption DEF Addr
<1>2. PICK d \in Nat : d = a - SetupAddr
  BY <1>1
<1>3. d % Page = 0
  <2>1. SetupAddr % Page = 0 /\ SetupAddr <= a
    BY <1>1 DEF SetupPage
  <2> QED
    BY <1>1, <1>2, <2>1, AlignedDifference
<1>4. d \in 1..Page - 1
  BY <1>1, <1>2
<1>5. d % Page = d
  BY <1>1, <1>4
<1> QED
  BY <1>3, <1>4, <1>5

\* FindSpaceIn with the limit for the boot parameters: a range that overlaps it
\* begins below the page at SetupAddr and ends above it.
LEMMA SetupSpace ==
    ASSUME SetupPage, NEW len \in Addr, len <= Page,
           NEW a \in Ranges, Proper(a), ~InSetup(a.start + a.size),
           Overlaps(a, RangeFromInterval(SetupAddr, len))
    PROVE  /\ Intersect(a, RangeFromInterval(SetupAddr, len)).start = SetupAddr
           /\ a.start <= SetupAddr /\ SetupAddr + Page <= a.start + a.size
           /\ UpPage(len) \in Nat /\ UpPage(len) <= Page
<1> DEFINE limit == RangeFromInterval(SetupAddr, len)
<1>1. /\ SetupAddr \in Nat /\ Page \in Nat /\ M1 \in Nat /\ Word \in Nat /\ len \in Nat
      /\ 0 < Page /\ Page <= SetupAddr /\ SetupAddr + Page <= M1 /\ M1 < Word
      /\ a.start \in Nat /\ a.size \in Nat /\ a.start + a.size < Word
  BY WordAssumption, KexecAssumption DEF Addr, SetupPage, Ranges, Proper
<1>2. limit.start = SetupAddr /\ End(limit) = len
  BY <1>1 DEF RangeFromInterval, End, Wrap
<1>3. End(a) = a.start + a.size
  BY <1>1 DEF End, Wrap
<1>4. a.start < len /\ SetupAddr < a.start + a.size
  BY <1>2, <1>3 DEF Overlaps
<1>5. Intersect(a, limit).start = SetupAddr
  <2>1. Intersect(a, limit).start = IF a.start > limit.start THEN a.start ELSE limit.start
    BY DEF Intersect, RangeFromInterval
  <2> HIDE DEF limit
  <2> QED
    BY <1>1, <1>2, <1>4, <2>1
<1>6. UpPage(len) \in Nat /\ UpPage(len) <= Page
  <2>1. len + Page <= Word /\ Page % Page = 0
    BY <1>1
  <2> QED
    BY <1>1, <2>1, UpPageFacts
<1> HIDE DEF limit
<1>7. a.start <= SetupAddr /\ SetupAddr + Page <= a.start + a.size
  BY <1>1, <1>4 DEF InSetup
<1> QED
  BY <1>5, <1>6, <1>7 DEF limit

\* What is in a range is apart from what the range is apart from.
LEMMA InsideApart ==
    ASSUME NEW x \in Ranges, NEW r \in Ranges, NEW s, s.start \in Addr, s.size \in Addr,
           Inside(x, r), Apart(r, s)
    PROVE  Apart(x, s)
  BY WordAssumption DEF Inside, Apart, Ranges, Addr

\* MemoryMap.Insert: a range of the new map is the new one or a piece of an old one.
LEMMA InsertCases ==
    ASSUME NEW m, NEW r, NEW type, NEW y \in Insert(m, r, type)
    PROVE  y = Typed(r, type) \/ \E q \in m : \E x \in Minus(q, r) : y = Typed(x, q.type)
<1>1. y = Typed(r, type) \/ \E q \in m : y \in Pieces(q, r)
  BY DEF Insert
<1>2. ASSUME NEW q \in m, y \in Pieces(q, r)
      PROVE  \E x \in Minus(q, r) : y = Typed(x, q.type)
  BY <1>2 DEF Pieces
<1> QED
  BY <1>1, <1>2

\* MemoryMap.Insert leaves no RAM where there was none, for a range r that is
\* not RAM itself.
LEMMA InsertKeepsRAM ==
    ASSUME NEW top \in Addr, top < Word, PhysInv(top),
           NEW r, r.start \in Addr, r.size \in Addr
    PROVE  /\ Insert(phys, r, "Reserved") \subseteq TypedRanges
           /\ \A q \in Insert(phys, r, "Reserved") : q.type = "RAM" => BelowTop(q, top)
<1> SUFFICES ASSUME NEW y \in Insert(phys, r, "Reserved")
             PROVE  y \in TypedRanges /\ (y.type = "RAM" => BelowTop(y, top))
  OBVIOUS
<1>1. CASE y = Typed(r, "Reserved")
  BY <1>1 DEF Typed, TypedRanges, Types
<1>2. ASSUME NEW q \in phys, NEW x \in Minus(q, r), y = Typed(x, q.type)
      PROVE  y \in TypedRanges /\ (y.type = "RAM" => BelowTop(y, top))
  <2>1. q \in TypedRanges /\ q.start \in Addr /\ q.size \in Addr /\ q.type \in Types
    BY DEF PhysInv, TypedRanges
  <2>2. CASE Proper(q)
    <3>1. x \in Ranges /\ Inside(x, q)
      BY <2>1, <2>2, MinusProper
    <3> QED
      BY <1>2, <2>1, <2>2, <3>1, WordAssumption
         DEF Typed, TypedRanges, Ranges, Inside, PhysInv, BelowTop, Void, Proper, Addr
  <2>3. CASE Void(q)
    <3>1. x = [start |-> q.start, size |-> q.size]
      BY <2>1, <2>3, MinusVoid
    <3> QED
      BY <1>2, <2>1, <2>3, <3>1 DEF Typed, TypedRanges, BelowTop, Void
  <2>4. CASE ~Proper(q) /\ ~Void(q)
    <3>1. q.type # "RAM"
      BY <2>1, <2>4, WordAssumption DEF PhysInv, BelowTop, Proper, Void, Addr
    <3>2. x \in Ranges
      <4>1. /\ \A a, b \in Addr : RangeFromInterval(a, b) \in Ranges
            /\ End(q) \in Addr /\ End(r) \in Addr
        BY <2>1, WordAssumption DEF RangeFromInterval, Wrap, Ranges, Addr, End
      <4>2. Below(q, r) \subseteq Ranges /\ Above(q, r) \subseteq Ranges
        BY <2>1, <4>1 DEF Below, Above
      <4>3. [start |-> q.start, size |-> q.size] \in Ranges
        BY <2>1 DEF Ranges
      <4> QED
        BY <4>2, <4>3 DEF Minus
    <3> QED
      BY <1>2, <2>1, <3>1, <3>2 DEF Typed, TypedRanges, Ranges
  <2> QED
    BY <2>2, <2>3, <2>4
<1> QED
  BY <1>1, <1>2, InsertCases

\* Nor does it let RAM end within the page at SetupAddr, for a range r that does
\* not begin there.
LEMMA InsertKeepsSetup ==
    ASSUME NEW top \in Addr, PhysInv(top), \A q \in phys : q.type = "RAM" => ~InSetup(q.start + q.size),
           NEW r, r.start \in Addr, r.size \in Addr, ~InSetup(r.start)
    PROVE  \A q \in Insert(phys, r, "Reserved") : q.type = "RAM" => ~InSetup(q.start + q.size)
<1> SUFFICES ASSUME NEW y \in Insert(phys, r, "Reserved"), y.type = "RAM"
             PROVE  ~InSetup(y.start + y.size)
  OBVIOUS
<1>1. y # Typed(r, "Reserved")
  BY DEF Typed
<1>2. PICK q \in phys : \E x \in Minus(q, r) : y = Typed(x, q.type)
  BY <1>1, InsertCases
<1>3. PICK x \in Minus(q, r) : y = Typed(x, q.type)
  BY <1>2
<1>4. q.type = "RAM" /\ y.start = x.start /\ y.size = x.size
  BY <1>3 DEF Typed
<1>5. q.start \in Addr /\ q.size \in Addr /\ BelowTop(q, top)
  BY <1>4 DEF PhysInv, TypedRanges
<1>6. CASE Void(q)
  <2>1. x = [start |-> q.start, size |-> q.size]
    BY <1>5, <1>6, MinusVoid
  <2> QED
    BY <1>4, <2>1
<1>7. CASE ~Void(q)
  <2>1. Proper(q)
    BY <1>5, <1>7, WordAssumption DEF BelowTop, Proper, Addr
  <2>2. x.start + x.size \in {q.start + q.size, r.start}
    BY <1>5, <2>1, MinusEnds
  <2> QED
    BY <1>4, <2>2
<1> QED
  BY <1>6, <1>7

\* The first call that is left is a proper one, and so are the others.
LEMMA ProgStep ==
    ASSUME NEW top, prog \in Seq(ProperCalls(top)), prog # <<>>
    PROVE  Call \in ProperCalls(top) /\ Call \in Calls /\ Tail(prog) \in Seq(ProperCalls(top))
  BY DEF Call, ProperCalls

\* FindSpace and ReservePhys: the end of the loop and the search.
LEMMA FindSpaceStep ==
    ASSUME NEW top, Machine(top), KInv(top), FindSpace
    PROVE  KInv(top)'
<1> USE DEF KInv
<1>1. /\ pc = "avail" /\ todo = {} /\ UNCHANGED <<prog, phys, segs>>
      /\ Call \in ProperCalls(top) /\ Call \in Calls /\ Call.op \in {"add", "phys"}
  BY ProgStep DEF FindSpace, RamInv
<1>2. /\ Limit \in Ranges
      /\ Proper(Limit) \/ (AsksForSetup /\ SetupCall(Call))
      /\ AsksForSetup => ~InSetup(Limit.start)
      /\ Call.op = "add" => Limit.start = M1
  <2>1. CASE Call.op = "phys"
    BY <1>1, <2>1 DEF Limit, ProperCalls, Calls
  <2>2. CASE Call.op # "phys"
    <3>1. Limit \in Ranges /\ Proper(Limit) /\ Limit.start = M1
      BY <1>1, <2>2, WordAssumption, KexecAssumption
         DEF Limit, RangeFromInterval, Wrap, Ranges, Proper, Addr
    <3>2. AsksForSetup => ~InSetup(M1)
      <4> SUFFICES ASSUME AsksForSetup PROVE ~InSetup(M1)
        OBVIOUS
      <4>1. SetupAddr + Page <= M1
        BY DEF Machine, SetupPage
      <4>2. SetupAddr \in Nat /\ M1 \in Nat /\ Page \in Nat
        BY WordAssumption, KexecAssumption DEF Addr
      <4> QED
        BY <4>1, <4>2 DEF InSetup
    <3> QED
      BY <3>1, <3>2
  <2> QED
    BY <2>1, <2>2
<1>3. Size \in Addr
  <2>1. Page \in Addr \ {0}
    BY WordAssumption DEF Addr
  <2>2. CASE Call.op = "phys"
    <3>1. Call.len \in Addr
      BY <1>1, <2>2 DEF Calls
    <3> QED
      BY <2>1, <2>2, <3>1, UpType DEF Size, UpPage
  <2>3. CASE Call.op = "add"
    <3>1. Call.sz \in Addr /\ Call.align \in Addr
      BY <1>1, <2>3 DEF Calls
    <3> QED
      BY <2>1, <2>3, <3>1, UpType DEF Size, UpPage
  <2> QED
    BY <1>1, <2>2, <2>3
<1>4. CASE pc' = "failed"
  BY <1>1, <1>4 DEF PhysInv, SegInv, RamInv, FoundInv, SetupInv
<1>5. CASE found' \in FindSpaceIn(AlignStarts(ram), Size, Limit) /\ pc' = "place"
  <2>1. ram \subseteq Ranges /\ \A r \in ram : Void(r) \/ r.start + r.size + Page < Word
    BY <1>1, WordAssumption DEF RamInv, Machine, Ranges, Addr
  <2>2. /\ AlignStarts(ram) \subseteq Ranges
        /\ \A x \in AlignStarts(ram) : x.size > 0 /\ Proper(x) /\ x.start % Page = 0
    BY <2>1, AlignStartsInside
  <2>3. ASSUME AsksForSetup, NEW x \in AlignStarts(ram)
         PROVE  ~InSetup(x.start) /\ ~InSetup(x.start + x.size)
    <3>1. PICK r \in ram : x.start + x.size = r.start + r.size
      BY <2>1, AlignStartsInside
    <3>2. x.start \in Nat /\ x.start % Page = 0 /\ SetupPage
      BY <2>2, <2>3 DEF Ranges, Addr, Machine
    <3> QED
      BY <1>1, <2>3, <3>1, <3>2, AlignedOutside DEF SetupInv
  <2>4. /\ \E a \in AlignStarts(ram) :
              found' \in Ranges /\ Inside(found', a) /\ found'.start < a.start + a.size
        /\ AsksForSetup => ~InSetup(found'.start)
        /\ Call.op = "add" => M1 <= found'.start
    <3>1. CASE ~Proper(Limit)
      <4>1. /\ AsksForSetup /\ SetupPage /\ Call.op = "phys" /\ Call.len \in Addr /\ Call.len <= Page
            /\ Limit = RangeFromInterval(SetupAddr, Call.len) /\ Size = UpPage(Call.len)
        BY <1>1, <1>2, <3>1 DEF SetupCall, Machine, Limit, Size, Calls
      <4>2. PICK a \in AlignStarts(ram) : /\ Overlaps(a, Limit)
                                          /\ found' = [start |-> Intersect(a, Limit).start, size |-> Size]
        BY <1>5 DEF FindSpaceIn, Room
      <4>3. a \in Ranges /\ Proper(a) /\ ~InSetup(a.start + a.size)
        BY <2>2, <2>3, <4>1
      <4>4. /\ Intersect(a, Limit).start = SetupAddr
            /\ a.start <= SetupAddr /\ SetupAddr + Page <= a.start + a.size
            /\ Size \in Nat /\ Size <= Page
        BY <4>1, <4>2, <4>3, SetupSpace
      <4>5. found'.start = SetupAddr /\ found'.size = Size
        BY <4>2, <4>4
      <4>6. found' \in Ranges
        BY <1>3, <4>2, <4>5, KexecAssumption DEF Ranges
      <4>7. /\ SetupAddr \in Nat /\ Page \in Nat \ {0} /\ a.start \in Nat /\ a.size \in Nat
        BY <4>3, WordAssumption, KexecAssumption DEF Addr, Ranges
      <4>8. Inside(found', a) /\ found'.start < a.start + a.size
        BY <4>4, <4>5, <4>7 DEF Inside
      <4>9. ~InSetup(found'.start)
        BY <4>5, <4>7 DEF InSetup
      <4> QED
        BY <4>1, <4>6, <4>8, <4>9
    <3>2. CASE Proper(Limit)
      <4>1. PICK a \in AlignStarts(ram) : found' = [start |-> Intersect(a, Limit).start, size |-> Size]
        BY <1>5 DEF FindSpaceIn, Room
      <4>2. a.start \in Nat /\ Limit.start \in Nat
        BY <1>2, <2>2, WordAssumption DEF Ranges, Addr
      <4>3. /\ found'.start \in {a.start, Limit.start} /\ Limit.start <= found'.start
        <5>1. Intersect(a, Limit).start = IF a.start > Limit.start THEN a.start ELSE Limit.start
          BY DEF Intersect, RangeFromInterval
        <5> QED
          BY <4>1, <4>2, <5>1
      <4>4. AsksForSetup => ~InSetup(found'.start)
        BY <1>2, <2>3, <4>3
      <4>5. Call.op = "add" => M1 <= found'.start
        BY <1>2, <4>3
      <4>6. \E b \in AlignStarts(ram) : found' \in Ranges /\ Inside(found', b) /\ found'.start < b.start + b.size
        BY <1>2, <1>3, <1>5, <2>2, <3>2, FindSpaceInside
      <4> QED
        BY <4>4, <4>5, <4>6
    <3> QED
      BY <3>1, <3>2
  <2>5. PICK a \in AlignStarts(ram) : found' \in Ranges /\ Inside(found', a) /\ found'.start < a.start + a.size
    BY <2>4
  <2>6. PICK r \in ram : ~Void(r) /\ Inside(a, r)
    BY <2>1, AlignStartsInside
  <2>7. /\ a \in Ranges /\ r \in Ranges /\ a.size > 0 /\ Inside(found', r) /\ found'.start < r.start + r.size
    BY <2>1, <2>2, <2>5, <2>6, WordAssumption DEF Inside, Ranges, Addr
  <2>8. /\ r.start + r.size <= top
        /\ \E q \in phys : q.type = "RAM" /\ Inside(r, q)
        /\ \A s \in segs : Apart(r, s)
    BY <1>1, <2>6 DEF RamInv
  <2>9. PICK q \in phys : q.type = "RAM" /\ Inside(r, q)
    BY <2>8
  <2>10. q.start \in Addr /\ q.size \in Addr
    BY DEF PhysInv, TypedRanges
  <2>11. Inside(found', q) /\ found'.start + found'.size <= top
    BY <2>5, <2>7, <2>8, <2>9, <2>10, WordAssumption DEF Inside, Ranges, Addr, Machine
  <2>12. \A s \in segs : Clear(found', s)
    BY <2>5, <2>7, <2>8, WordAssumption DEF SegInv, Inside, Apart, Clear, Ranges, Addr
  <2>13. FoundInv(top)'
    BY <1>1, <1>5, <2>5, <2>9, <2>11, <2>12 DEF FoundInv, Call, RamInv
  <2>14. SetupInv'
    <3>1. AsksForSetup => ~InSetup(found'.start) /\ (Call.op = "add" => M1 <= found'.start)
      BY <2>4
    <3> QED
      BY <1>1, <1>5, <3>1 DEF SetupInv, AsksForSetup, InSetup, Call
  <2> QED
    BY <1>1, <1>5, <2>13, <2>14 DEF PhysInv, SegInv, RamInv
<1> QED
  BY <1>4, <1>5 DEF FindSpace

\* AvailableRAM: one segment is subtracted.
LEMMA SubtractStep ==
    ASSUME NEW top, Machine(top), KInv(top), SubtractSegment
    PROVE  KInv(top)'
<1> USE DEF KInv
<1>1. PICK s \in todo : ram' = RangesMinus(ram, s) /\ todo' = todo \ {s}
  BY DEF SubtractSegment
<1>2. pc = "avail" /\ UNCHANGED <<pc, prog, phys, segs, found>> /\ s \in segs /\ todo \subseteq segs
  BY DEF SubtractSegment, RamInv
<1>3. s.start \in Addr /\ s.size \in Addr /\ Proper(s)
  BY <1>2 DEF SegInv
<1>4. ASSUME NEW x \in ram'
      PROVE  /\ x \in Ranges
             /\ \/ Void(x)
                \/ /\ x.start + x.size <= top
                   /\ \E q \in phys : q.type = "RAM" /\ Inside(x, q)
                   /\ \A t \in segs \ todo' : Apart(x, t)
  <2>1. PICK r \in ram : x \in Minus(r, s)
    BY <1>1 DEF RangesMinus
  <2>2. r \in Ranges /\ r.start \in Addr /\ r.size \in Addr
    BY <1>2 DEF RamInv, Ranges
  <2>3. CASE Void(r)
    BY <1>3, <2>1, <2>2, <2>3, MinusVoid DEF Ranges, Void
  <2>4. CASE ~Void(r)
    <3>1. /\ r.start + r.size <= top /\ top \in Addr
          /\ \E q \in phys : q.type = "RAM" /\ Inside(r, q)
          /\ \A t \in segs \ todo : Apart(r, t)
      BY <1>2, <2>4 DEF RamInv, Machine
    <3>2. Proper(r)
      BY <2>2, <3>1, WordAssumption DEF Proper, Addr
    <3>3. x \in Ranges /\ Inside(x, r) /\ Apart(x, s)
      BY <1>3, <2>1, <2>2, <3>2, MinusProper
    <3>4. PICK q \in phys : q.type = "RAM" /\ Inside(r, q)
      BY <3>1
    <3>5. q.start \in Addr /\ q.size \in Addr
      BY DEF PhysInv, TypedRanges
    <3>6. Inside(x, q) /\ x.start + x.size <= top
      BY <2>2, <3>1, <3>3, <3>4, <3>5, WordAssumption DEF Inside, Ranges, Addr
    <3>7. \A t \in segs \ todo : Apart(x, t)
      BY <2>2, <3>1, <3>3, InsideApart DEF SegInv
    <3> QED
      BY <1>1, <3>3, <3>4, <3>6, <3>7
  <2> QED
    BY <2>3, <2>4
<1>5. RamInv(top)'
  BY <1>1, <1>2, <1>4 DEF RamInv, Call
<1>6. ASSUME AsksForSetup, NEW x \in ram'
      PROVE  ~InSetup(x.start + x.size)
  <2>1. PICK r \in ram : x \in Minus(r, s)
    BY <1>1, <1>6 DEF RangesMinus
  <2>2. r.start \in Addr /\ r.size \in Addr /\ ~InSetup(r.start + r.size) /\ ~InSetup(s.start)
    BY <1>2, <1>6 DEF RamInv, Ranges, SetupInv
  <2>3. CASE Void(r)
    <3>1. x = [start |-> r.start, size |-> r.size]
      BY <1>3, <2>1, <2>2, <2>3, MinusVoid
    <3> QED
      BY <2>2, <3>1
  <2>4. CASE ~Void(r)
    <3>1. Proper(r)
      BY <1>2, <2>2, <2>4, WordAssumption DEF RamInv, Machine, Proper, Addr
    <3>2. x.start + x.size \in {r.start + r.size, s.start}
      BY <1>3, <2>1, <2>2, <3>1, MinusEnds
    <3> QED
      BY <2>2, <3>2
  <2> QED
    BY <2>3, <2>4
<1>7. SetupInv'
  BY <1>2, <1>6 DEF SetupInv, AsksForSetup, InSetup
<1> QED
  BY <1>2, <1>5, <1>7 DEF PhysInv, SegInv, FoundInv

\* A segment is put where space was found.
LEMMA PlaceStep ==
    ASSUME NEW top, Machine(top), KInv(top), PlaceSegment
    PROVE  KInv(top)'
<1> USE DEF KInv
<1>1. /\ pc = "place" /\ pc' = "call" /\ prog' = Tail(prog) /\ prog # <<>>
      /\ found \in Ranges /\ found.start + found.size <= top /\ top \in Addr
      /\ Call \in ProperCalls(top) /\ Tail(prog) \in Seq(ProperCalls(top))
  BY ProgStep DEF PlaceSegment, FoundInv, Machine
<1>2. found.start \in Addr /\ found.size \in Addr /\ Proper(found)
  BY <1>1, WordAssumption DEF Ranges, Addr, Proper
<1>3. PhysInv(top)'
  <2>1. CASE UNCHANGED phys
    BY <2>1 DEF PhysInv
  <2>2. CASE phys' = Insert(phys, found, "Reserved")
    BY <1>1, <1>2, <2>2, InsertKeepsRAM, WordAssumption DEF PhysInv, Addr
  <2> QED
    BY <2>1, <2>2 DEF PlaceSegment
<1>4. SegInv'
  <2>1. CASE Call.op = "add" /\ segs' = segs \cup {NewSegment(Len(prog), Call.len, Shifted, TRUE)}
    <3>1. Call.off \in Nat /\ top + Call.off < Word
      BY <1>1, <2>1, WordAssumption DEF ProperCalls, Calls, Addr
    <3>2. Shifted.start = found.start + Call.off /\ Shifted.size = found.size
      BY <1>1, <1>2, <3>1, WordAssumption DEF Shifted, Wrap, Addr
    <3>3. Shifted.start \in Addr /\ Shifted.size \in Addr /\ Shifted.start + Shifted.size < Word
      BY <1>1, <1>2, <3>1, <3>2, WordAssumption DEF Addr
    <3> QED
      BY <2>1, <3>3 DEF SegInv, NewSegment, Proper
  <2>2. CASE segs' = segs \cup {NewSegment(Len(prog), Call.len, found, TRUE)}
    BY <1>2, <2>2 DEF SegInv, NewSegment, Proper
  <2> QED
    BY <2>1, <2>2 DEF PlaceSegment
<1>5. ASSUME AsksForSetup
      PROVE  /\ \A q \in phys' : q.type = "RAM" => ~InSetup(q.start + q.size)
             /\ \A s \in segs' : ~InSetup(s.start)
  <2>0. /\ ~InSetup(found.start) /\ SetupPage
        /\ \A q \in phys : q.type = "RAM" => ~InSetup(q.start + q.size)
        /\ \A s \in segs : ~InSetup(s.start)
    BY <1>1, <1>5 DEF SetupInv, Machine
  <2>1. CASE Call.op = "add" /\ segs' = segs \cup {NewSegment(Len(prog), Call.len, Shifted, TRUE)}
    <3>1. Call.off \in Nat /\ top + Call.off < Word /\ M1 <= found.start
      BY <1>1, <1>5, <2>1, WordAssumption DEF ProperCalls, Calls, Addr, SetupInv
    <3>2. Shifted.start = found.start + Call.off
      BY <1>1, <1>2, <3>1, WordAssumption DEF Shifted, Wrap, Addr
    <3>3. /\ SetupAddr + Page <= M1 /\ SetupAddr \in Nat /\ Page \in Nat /\ M1 \in Nat /\ found.start \in Nat
      BY <1>2, <2>0, WordAssumption, KexecAssumption DEF SetupPage, Addr
    <3>4. ~InSetup(Shifted.start)
      BY <3>1, <3>2, <3>3 DEF InSetup
    <3>5. phys' = phys
      BY <2>1 DEF PlaceSegment
    <3> QED
      BY <2>0, <2>1, <3>4, <3>5 DEF NewSegment
  <2>2. CASE /\ segs' = segs \cup {NewSegment(Len(prog), Call.len, found, TRUE)}
             /\ phys' = Insert(phys, found, "Reserved")
    <3>1. \A q \in phys' : q.type = "RAM" => ~InSetup(q.start + q.size)
      BY <1>1, <1>2, <2>0, <2>2, InsertKeepsSetup
    <3> QED
      BY <2>0, <2>2, <3>1 DEF NewSegment
  <2> QED
    BY <2>1, <2>2 DEF PlaceSegment
<1>6. SetupInv'
  BY <1>1, <1>5 DEF SetupInv, AsksForSetup, InSetup
<1> QED
  BY <1>1, <1>3, <1>4, <1>6 DEF RamInv, FoundInv

\* The calls that need no space.
LEMMA CallStep ==
    ASSUME NEW top, Machine(top), KInv(top),
           ParseMemoryMap \/ ReserveMemory \/ MemoryMapForOS \/ InsertSegment \/ StartFind
    PROVE  KInv(top)'
<1> USE DEF KInv
<1>1. /\ pc = "call" /\ prog # <<>>
      /\ Call \in ProperCalls(top) /\ Call \in Calls /\ Tail(prog) \in Seq(ProperCalls(top))
  BY ProgStep DEF ParseMemoryMap, ReserveMemory, MemoryMapForOS, InsertSegment, StartFind, Calling
<1>2. CASE ParseMemoryMap
  <2>1. PhysInv(top)'
    BY <1>2, KexecAssumption DEF ParseMemoryMap, PhysInv, Machine
  <2>2. SetupInv'
    BY <1>1, <1>2 DEF ParseMemoryMap, SetupInv, Machine, SetupPage, AsksForSetup, InSetup
  <2> QED
    BY <1>1, <1>2, <2>1, <2>2 DEF ParseMemoryMap, SegInv, RamInv, FoundInv
<1>3. CASE ReserveMemory
  <2>1. Call.start \in Addr /\ Call.size \in Addr
    BY <1>1, <1>3 DEF ReserveMemory, Calling, Calls
  <2>2. PhysInv(top)'
    BY <1>3, <2>1, InsertKeepsRAM, WordAssumption DEF ReserveMemory, PhysInv, Machine, Addr
  <2>3. ASSUME AsksForSetup
        PROVE  \A q \in phys' : q.type = "RAM" => ~InSetup(q.start + q.size)
    <3>1. ~InSetup(Call.start) /\ phys' = Insert(phys, Call, "Reserved") /\ top \in Addr
      BY <1>1, <1>3, <2>3 DEF ReserveMemory, Calling, ProperCalls, Machine
    <3>2. \A q \in phys : q.type = "RAM" => ~InSetup(q.start + q.size)
      BY <2>3 DEF SetupInv
    <3>3. \A q \in Insert(phys, Call, "Reserved") : q.type = "RAM" => ~InSetup(q.start + q.size)
      BY <2>1, <3>1, <3>2, InsertKeepsSetup
    <3> QED
      BY <3>1, <3>3
  <2>4. SetupInv'
    BY <1>1, <1>3, <2>3 DEF ReserveMemory, SetupInv, AsksForSetup, InSetup
  <2> QED
    BY <1>1, <1>3, <2>2, <2>4 DEF ReserveMemory, SegInv, RamInv, FoundInv
<1>4. CASE MemoryMapForOS
  BY <1>1, <1>4 DEF MemoryMapForOS, PhysInv, SegInv, RamInv, FoundInv, SetupInv
<1>5. CASE InsertSegment
  <2>1. Call.start \in Addr /\ Call.size \in Addr /\ Call.start + Call.size < Word
    BY <1>1, <1>5 DEF InsertSegment, Calling, Calls, ProperCalls
  <2>2. SegInv'
    BY <1>5, <2>1 DEF InsertSegment, SegInv, NewSegment, Proper
  <2>3. SetupInv'
    <3>1. AsksForSetup => ~InSetup(Call.start)
      BY <1>1, <1>5 DEF InsertSegment, Calling, ProperCalls
    <3> QED
      BY <1>1, <1>5, <3>1 DEF InsertSegment, SetupInv, NewSegment, AsksForSetup, InSetup
  <2> QED
    BY <1>1, <1>5, <2>2, <2>3 DEF InsertSegment, PhysInv, RamInv, FoundInv
<1>6. CASE StartFind
  <2>1. /\ ram' = FilterByType(phys, "RAM") /\ todo' = segs /\ pc' = "avail"
        /\ Call.op \in {"add", "phys"} /\ UNCHANGED <<prog, phys, segs>>
    BY <1>6 DEF StartFind
  <2>2. ASSUME NEW r \in ram'
        PROVE  /\ r \in Ranges
               /\ Void(r) \/ (r.start + r.size <= top /\ \E q \in phys : q.type = "RAM" /\ Inside(r, q))
    <3>1. PICK q \in phys : q.type = "RAM" /\ r = [start |-> q.start, size |-> q.size]
      BY <2>1, <2>2 DEF FilterByType
    <3>2. q.start \in Addr /\ q.size \in Addr /\ BelowTop(q, top)
      BY <3>1 DEF PhysInv, TypedRanges
    <3> QED
      BY <3>1, <3>2, WordAssumption DEF Ranges, BelowTop, Void, Inside, Addr
  <2>3. RamInv(top)'
    BY <1>1, <2>1, <2>2 DEF RamInv, Call
  <2>4. ASSUME AsksForSetup, NEW r \in ram'
        PROVE  ~InSetup(r.start + r.size)
    <3>1. PICK q \in phys : q.type = "RAM" /\ r = [start |-> q.start, size |-> q.size]
      BY <2>1, <2>4 DEF FilterByType
    <3> QED
      BY <2>4, <3>1 DEF SetupInv
  <2>5. SetupInv'
    BY <2>1, <2>4 DEF SetupInv, AsksForSetup, InSetup
  <2> QED
    BY <2>1, <2>3, <2>5 DEF PhysInv, SegInv, FoundInv
<1> QED
  BY <1>2, <1>3, <1>4, <1>5, <1>6

\* Every step keeps the invariant.
LEMMA NextKInv ==
    ASSUME NEW top, Machine(top), KInv(top), [Next]_vars
    PROVE  KInv(top)'
<1>1. CASE UNCHANGED vars \/ Stopped
  BY <1>1 DEF vars, Stopped, KInv, PhysInv, SegInv, RamInv, FoundInv, SetupInv, Call
<1>2. CASE Fail \/ EmptyBuffer \/ StartLoad \/ MergeFirst \/ MergeNext \/ AlignSizes \/ CheckEntry
  <2>1. UNCHANGED <<prog, phys, segs, found>> /\ pc' \notin {"avail", "place"}
    BY <1>2 DEF Fail, EmptyBuffer, StartLoad, MergeFirst, MergeNext, AlignSizes, CheckEntry
  <2> QED
    BY <2>1 DEF KInv, PhysInv, SegInv, RamInv, FoundInv, SetupInv
<1> QED
  BY <1>1, <1>2, CallStep, FindSpaceStep, SubtractStep, PlaceStep DEF Next

\* What is found is a piece of RAM that no segment uses.
LEMMA KInvFree ==
    ASSUME NEW top, KInv(top)
    PROVE  FoundIsFree
<1> SUFFICES ASSUME pc = "place" PROVE FoundIsFree
  BY DEF FoundIsFree
<1>1. PICK q \in phys : q.type = "RAM" /\ Inside(found, q)
  BY DEF KInv, FoundInv
<1>2. q.start \in Addr /\ q.size \in Addr /\ found.start \in Addr /\ found.size \in Addr
  BY DEF KInv, FoundInv, PhysInv, TypedRanges, Ranges
<1>3. Points(found) \subseteq Points(q)
  BY <1>1, <1>2, WordAssumption DEF Points, Inside, Addr
<1>4. ASSUME NEW s \in segs PROVE Points(found) \cap Points(s) = {}
  <2>1. s.start \in Addr /\ s.size \in Addr /\ Clear(found, s)
    BY DEF KInv, SegInv, FoundInv
  <2> QED
    BY <1>2, <2>1, WordAssumption DEF Points, Clear, Addr
<1> QED
  BY <1>1, <1>3, <1>4 DEF FoundIsFree

\* FindSpace and ReservePhys hand out RAM that nobody has reserved and no segment
\* uses, for every memory map, every sequence of calls and every size of pages and
\* words, if RAM keeps one page clear of the last address and no limit wraps around;
\* the limit of the amd64 loader for the boot parameters, which does, is harmless if
\* no RAM, segment or reservation begins or ends within the page at SetupAddr.
THEOREM FoundSpaceIsFree ==
    ASSUME NEW top, Machine(top)
    PROVE  Spec => []FoundIsFree
<1>1. Init => KInv(top)
  BY DEF Init, KInv, PhysInv, SegInv, RamInv, FoundInv, SetupInv, Machine
<1>2. KInv(top) /\ [Next]_vars => KInv(top)'
  BY NextKInv
<1>3. KInv(top) => FoundIsFree
  BY KInvFree
<1> QED
  BY <1>1, <1>2, <1>3, PTL DEF Spec

-----------------------------------------------------------------------------
(***************************************************************************)
(* What the loaders keep to.                                               *)
(***************************************************************************)

\* The order of the calls: the segments at fixed addresses come before those that
\* kexec.Memory places, only the very first segment has an offset, and the memory
\* map does not change once the operating system has been told.
InOrder(p) ==
    \A j, k \in DOMAIN p : j < k =>
        /\ p[j].op \in {"add", "phys"} => p[k].op # "insert"
        /\ p[j].op \in {"insert", "add", "phys"} /\ p[k].op = "add" => p[k].off = 0
        /\ p[j].op = "tell" => p[k].op \notin {"parse", "carve", "phys"}

\* What is left of the program fits to what has been done.
OrderInv ==
    /\ InOrder(prog)
    /\ segs # {} => \A k \in DOMAIN prog : prog[k].op = "add" => prog[k].off = 0
    /\ (\E s \in segs : s.placed) => \A k \in DOMAIN prog : prog[k].op # "insert"
    /\ told # {} => told = phys /\ \A k \in DOMAIN prog : prog[k].op \notin {"parse", "carve", "phys"}

\* A segment is known by its id, later ones have lower ids.  Each segment that was
\* placed is out of the way of all earlier ones.
ClearInv ==
    /\ \A s \in segs : s.id \in Nat /\ s.id > Len(prog)
    /\ \A s, t \in segs : s.id = t.id => s = t
    /\ \A s, t \in segs : s.id < t.id /\ s.placed => Clear(s, t)
    /\ \A s, t \in segs : s.id < t.id /\ t.placed => s.placed

\* The rest of a program.
LEMMA TailOfProgram ==
    ASSUME NEW S, NEW p \in Seq(S), p # <<>>, InOrder(p)
    PROVE  /\ Len(p) \in Nat /\ Len(p) > 0 /\ Len(Tail(p)) = Len(p) - 1
           /\ \A k \in DOMAIN Tail(p) : k \in Nat /\ k + 1 \in DOMAIN p /\ 1 < k + 1 /\ Tail(p)[k] = p[k + 1]
           /\ 1 \in DOMAIN p /\ p[1] = Head(p)
           /\ InOrder(Tail(p))
<1>1. /\ Len(p) \in Nat /\ Len(p) > 0 /\ Len(Tail(p)) = Len(p) - 1 /\ DOMAIN p = 1..Len(p)
      /\ DOMAIN Tail(p) = 1..Len(p) - 1 /\ \A k \in 1..Len(p) - 1 : Tail(p)[k] = p[k + 1]
      /\ p[1] = Head(p)
  OBVIOUS
<1>2. \A k \in DOMAIN Tail(p) : k \in Nat /\ k + 1 \in DOMAIN p /\ 1 < k + 1 /\ Tail(p)[k] = p[k + 1]
  BY <1>1
<1>3. InOrder(Tail(p))
  <2> SUFFICES ASSUME NEW j \in DOMAIN Tail(p), NEW k \in DOMAIN Tail(p), j < k
               PROVE  /\ Tail(p)[j].op \in {"add", "phys"} => Tail(p)[k].op # "insert"
                      /\ Tail(p)[j].op \in {"insert", "add", "phys"} /\ Tail(p)[k].op = "add" => Tail(p)[k].off = 0
                      /\ Tail(p)[j].op = "tell" => Tail(p)[k].op \notin {"parse", "carve", "phys"}
    BY DEF InOrder
  <2>1. PICK a \in DOMAIN p : a = j + 1
    BY <1>2
  <2>2. PICK b \in DOMAIN p : b = k + 1
    BY <1>2
  <2>3. a < b /\ Tail(p)[j] = p[a] /\ Tail(p)[k] = p[b]
    BY <1>2, <2>1, <2>2
  <2> QED
    BY <2>3 DEF InOrder
<1> QED
  BY <1>1, <1>2, <1>3

\* A call is over, and what it asks of the later ones holds for them.
LEMMA CallIsOver ==
    ASSUME prog \in Seq(Calls), prog # <<>>, OrderInv
    PROVE  /\ InOrder(Tail(prog))
           /\ segs # {} \/ Call.op \in {"insert", "add", "phys"} =>
                \A k \in DOMAIN Tail(prog) : Tail(prog)[k].op = "add" => Tail(prog)[k].off = 0
           /\ (\E s \in segs : s.placed) \/ Call.op \in {"add", "phys"} =>
                \A k \in DOMAIN Tail(prog) : Tail(prog)[k].op # "insert"
           /\ told # {} \/ Call.op = "tell" =>
                \A k \in DOMAIN Tail(prog) : Tail(prog)[k].op \notin {"parse", "carve", "phys"}
<1>1. InOrder(prog)
  BY DEF OrderInv
<1>2. /\ \A k \in DOMAIN Tail(prog) : k \in Nat /\ k + 1 \in DOMAIN prog /\ 1 < k + 1 /\ Tail(prog)[k] = prog[k + 1]
      /\ 1 \in DOMAIN prog /\ prog[1] = Call
      /\ InOrder(Tail(prog))
  BY <1>1, TailOfProgram DEF Call
<1>3. ASSUME NEW k \in DOMAIN Tail(prog)
      PROVE  /\ segs # {} \/ Call.op \in {"insert", "add", "phys"} => (Tail(prog)[k].op = "add" => Tail(prog)[k].off = 0)
             /\ (\E s \in segs : s.placed) \/ Call.op \in {"add", "phys"} => Tail(prog)[k].op # "insert"
             /\ told # {} \/ Call.op = "tell" => Tail(prog)[k].op \notin {"parse", "carve", "phys"}
  <2>1. PICK b \in DOMAIN prog : 1 < b /\ Tail(prog)[k] = prog[b]
    BY <1>2
  <2>2. /\ Call.op \in {"add", "phys"} => prog[b].op # "insert"
        /\ Call.op \in {"insert", "add", "phys"} /\ prog[b].op = "add" => prog[b].off = 0
        /\ Call.op = "tell" => prog[b].op \notin {"parse", "carve", "phys"}
    BY <1>1, <1>2, <2>1 DEF InOrder
  <2> QED
    BY <2>1, <2>2 DEF OrderInv
<1> QED
  BY <1>2, <1>3

\* A program is a list of calls, and space is looked for on behalf of one.
CallsInv ==
    /\ prog \in Seq(Calls)
    /\ pc \in {"avail", "place"} => prog # <<>> /\ Call.op \in {"add", "phys"}

\* Every step keeps the order.
LEMMA NextOrder ==
    ASSUME CallsInv, OrderInv, [Next]_vars
    PROVE  CallsInv' /\ OrderInv'
<1>1. CASE UNCHANGED vars \/ Stopped
  BY <1>1 DEF vars, Stopped, CallsInv, OrderInv, Call
<1>2. CASE Fail \/ EmptyBuffer \/ StartLoad \/ MergeFirst \/ MergeNext \/ AlignSizes \/ CheckEntry
  <2>1. UNCHANGED <<prog, phys, segs, told>> /\ pc' \notin {"avail", "place"}
    BY <1>2 DEF Fail, EmptyBuffer, StartLoad, MergeFirst, MergeNext, AlignSizes, CheckEntry
  <2> QED
    BY <2>1 DEF CallsInv, OrderInv
<1>3. CASE StartFind \/ SubtractSegment \/ FindSpace
  <2>1. UNCHANGED <<prog, phys, segs, told>> /\ prog # <<>> /\ Call.op \in {"add", "phys"}
    BY <1>3 DEF StartFind, SubtractSegment, FindSpace, CallsInv
  <2> QED
    BY <2>1 DEF CallsInv, OrderInv, Call
<1>4. CASE ParseMemoryMap \/ ReserveMemory \/ MemoryMapForOS \/ InsertSegment \/ PlaceSegment
  <2>1. prog \in Seq(Calls) /\ prog # <<>> /\ prog' = Tail(prog) /\ pc' = "call"
    BY <1>4 DEF ParseMemoryMap, ReserveMemory, MemoryMapForOS, InsertSegment, PlaceSegment, Calling, CallsInv
  <2>2. CallsInv'
    BY <2>1 DEF CallsInv
  <2>3. /\ InOrder(prog')
        /\ segs # {} \/ Call.op \in {"insert", "add", "phys"} =>
             \A k \in DOMAIN prog' : prog'[k].op = "add" => prog'[k].off = 0
        /\ (\E s \in segs : s.placed) \/ Call.op \in {"add", "phys"} =>
             \A k \in DOMAIN prog' : prog'[k].op # "insert"
        /\ told # {} \/ Call.op = "tell" =>
             \A k \in DOMAIN prog' : prog'[k].op \notin {"parse", "carve", "phys"}
    BY <2>1, CallIsOver
  <2>4. told # {} => told = phys /\ Call.op \notin {"parse", "carve", "phys"}
    <3>1. told # {} => told = phys /\ \A k \in DOMAIN prog : prog[k].op \notin {"parse", "carve", "phys"}
      BY DEF OrderInv
    <3>2. 1 \in DOMAIN prog /\ prog[1] = Call
      BY <2>1 DEF Call
    <3> QED
      BY <3>1, <3>2
  <2>5. segs' # {} => segs # {} \/ Call.op \in {"insert", "add", "phys"}
    BY <1>4 DEF ParseMemoryMap, ReserveMemory, MemoryMapForOS, InsertSegment, PlaceSegment, Calling
  <2>6. (\E s \in segs' : s.placed) => (\E s \in segs : s.placed) \/ Call.op \in {"add", "phys"}
    <3>1. CASE segs' = segs
      BY <3>1
    <3>2. CASE InsertSegment
      <4>1. segs' = segs \cup {NewSegment(Len(prog), Call.len, Call, FALSE)}
        BY <3>2 DEF InsertSegment
      <4>2. NewSegment(Len(prog), Call.len, Call, FALSE).placed = FALSE
        BY DEF NewSegment
      <4> QED
        BY <4>1, <4>2
    <3>3. CASE PlaceSegment
      BY <3>3 DEF PlaceSegment
    <3> QED
      BY <1>4, <3>1, <3>2, <3>3 DEF ParseMemoryMap, ReserveMemory, MemoryMapForOS
  <2>7. told' # {} => told' = phys' /\ (told # {} \/ Call.op = "tell")
    <3>1. CASE MemoryMapForOS
      BY <3>1 DEF MemoryMapForOS, Calling
    <3>2. CASE ParseMemoryMap \/ ReserveMemory
      BY <2>4, <3>2 DEF ParseMemoryMap, ReserveMemory, Calling
    <3>3. CASE InsertSegment
      BY <2>4, <3>3 DEF InsertSegment
    <3>4. CASE PlaceSegment
      BY <2>4, <3>4 DEF PlaceSegment
    <3> QED
      BY <1>4, <3>1, <3>2, <3>3, <3>4
  <2>8. OrderInv'
    <3>1. segs' # {} => \A k \in DOMAIN prog' : prog'[k].op = "add" => prog'[k].off = 0
      BY <2>3, <2>5
    <3>2. (\E s \in segs' : s.placed) => \A k \in DOMAIN prog' : prog'[k].op # "insert"
      BY <2>3, <2>6
    <3>3. told' # {} => told' = phys' /\ \A k \in DOMAIN prog' : prog'[k].op \notin {"parse", "carve", "phys"}
      BY <2>3, <2>7
    <3> QED
      BY <2>3, <3>1, <3>2, <3>3 DEF OrderInv
  <2> QED
    BY <2>2, <2>8
<1> QED
  BY <1>1, <1>2, <1>3, <1>4 DEF Next

\* The loaders that make their calls in order do so from the start.
LEMMA InitOrder ==
    ASSUME Init, \A p \in Programs : InOrder(p)
    PROVE  CallsInv /\ OrderInv
  BY KexecAssumption DEF Init, CallsInv, OrderInv

\* The operating system is told of no RAM that has been reserved since: for every
\* loader that writes its memory map after its last change.
THEOREM ReservationsAreTold ==
    ASSUME \A p \in Programs : InOrder(p)
    PROVE  Spec => []ReservedIsTold
<1>1. CallsInv /\ OrderInv => ReservedIsTold
  <2> SUFFICES ASSUME OrderInv, told # {} PROVE \A q \in told : q.type = "RAM" => \E q2 \in phys : q2.type = "RAM" /\ Points(q) \subseteq Points(q2)
    BY DEF ReservedIsTold
  <2>1. told = phys
    BY DEF OrderInv
  <2> QED
    BY <2>1
<1>2. Init => CallsInv /\ OrderInv
  BY InitOrder
<1>3. CallsInv /\ OrderInv /\ [Next]_vars => CallsInv' /\ OrderInv'
  BY NextOrder
<1> QED
  BY <1>1, <1>2, <1>3, PTL DEF Spec

-----------------------------------------------------------------------------
(***************************************************************************)
(* Placed segments are apart.                                              *)
(***************************************************************************)

\* Every step keeps the segments apart.
LEMMA NextClear ==
    ASSUME NEW top, Machine(top), KInv(top), CallsInv, OrderInv, ClearInv, [Next]_vars
    PROVE  ClearInv'
<1>1. CASE UNCHANGED <<prog, segs>>
  BY <1>1 DEF ClearInv
<1>2. CASE ParseMemoryMap \/ ReserveMemory \/ MemoryMapForOS
  <2>1. segs' = segs /\ prog' = Tail(prog) /\ prog # <<>> /\ prog \in Seq(Calls)
    BY <1>2 DEF ParseMemoryMap, ReserveMemory, MemoryMapForOS, Calling, CallsInv
  <2>2. Len(prog) \in Nat /\ Len(prog') = Len(prog) - 1
    BY <2>1
  <2> QED
    BY <2>1, <2>2 DEF ClearInv
<1>3. CASE InsertSegment
  <2> DEFINE new == NewSegment(Len(prog), Call.len, Call, FALSE)
  <2>1. /\ segs' = segs \cup {new} /\ prog' = Tail(prog) /\ prog # <<>> /\ prog \in Seq(Calls)
        /\ Call.op = "insert"
    BY <1>3 DEF InsertSegment, Calling, CallsInv
  <2>2. Len(prog) \in Nat /\ Len(prog') = Len(prog) - 1 /\ 1 \in DOMAIN prog /\ prog[1] = Call
    BY <2>1 DEF Call
  <2>3. new.id = Len(prog) /\ new.placed = FALSE
    BY DEF NewSegment
  <2>4. \A s \in segs : ~s.placed
    BY <2>1, <2>2 DEF OrderInv
  <2> HIDE DEF new
  <2>5. \A s \in segs' : ~s.placed
    BY <2>1, <2>3, <2>4
  <2>6. \A s \in segs' : s.id \in Nat /\ s.id > Len(prog')
    BY <2>1, <2>2, <2>3 DEF ClearInv
  <2>7. \A s, t \in segs' : s.id = t.id => s = t
    BY <2>1, <2>2, <2>3 DEF ClearInv
  <2> QED
    BY <2>5, <2>6, <2>7 DEF ClearInv
<1>4. CASE PlaceSegment
  <2>1. PICK new : /\ segs' = segs \cup {new} /\ new.id = Len(prog) /\ new.placed = TRUE
                   /\ segs # {} => new.start = found.start /\ new.size = found.size
    <3>1. CASE Call.op = "add"
      <4>1. segs' = segs \cup {NewSegment(Len(prog), Call.len, Shifted, TRUE)}
        BY <1>4, <3>1 DEF PlaceSegment
      <4>2. segs # {} => Shifted.start = found.start /\ Shifted.size = found.size
        <5>1. 1 \in DOMAIN prog /\ prog[1] = Call
          BY <1>4 DEF CallsInv, PlaceSegment, Call
        <5>2. segs # {} => Call.off = 0
          BY <3>1, <5>1 DEF OrderInv
        <5>3. found \in Ranges
          BY <1>4 DEF KInv, FoundInv, PlaceSegment
        <5> QED
          BY <5>2, <5>3, WordAssumption DEF Shifted, Wrap, Ranges, Addr
      <4>3. /\ NewSegment(Len(prog), Call.len, Shifted, TRUE).id = Len(prog)
            /\ NewSegment(Len(prog), Call.len, Shifted, TRUE).placed = TRUE
            /\ NewSegment(Len(prog), Call.len, Shifted, TRUE).start = Shifted.start
            /\ NewSegment(Len(prog), Call.len, Shifted, TRUE).size = Shifted.size
        BY DEF NewSegment
      <4> QED
        BY <4>1, <4>2, <4>3
    <3>2. CASE Call.op = "phys"
      <4>1. segs' = segs \cup {NewSegment(Len(prog), Call.len, found, TRUE)}
        BY <1>4, <3>2 DEF PlaceSegment
      <4>2. /\ NewSegment(Len(prog), Call.len, found, TRUE).id = Len(prog)
            /\ NewSegment(Len(prog), Call.len, found, TRUE).placed = TRUE
            /\ NewSegment(Len(prog), Call.len, found, TRUE).start = found.start
            /\ NewSegment(Len(prog), Call.len, found, TRUE).size = found.size
        BY DEF NewSegment
      <4> QED
        BY <4>1, <4>2
    <3> QED
      BY <1>4, <3>1, <3>2 DEF PlaceSegment
  <2>2. Len(prog) \in Nat /\ Len(prog') = Len(prog) - 1
    BY <1>4 DEF PlaceSegment, CallsInv
  <2>3. \A t \in segs : Clear(new, t)
    <3>1. \A t \in segs : Clear(found, t)
      BY <1>4 DEF KInv, FoundInv, PlaceSegment
    <3> QED
      BY <2>1, <3>1 DEF Clear
  <2>4. \A s \in segs : s.id \in Nat /\ s.id > Len(prog)
    BY DEF ClearInv
  <2>5. \A s \in segs' : s.id \in Nat /\ s.id > Len(prog')
    BY <2>1, <2>2, <2>4
  <2>6. \A s, t \in segs' : s.id = t.id => s = t
    BY <2>1, <2>2, <2>4 DEF ClearInv
  <2>7. \A s, t \in segs' : s.id < t.id /\ s.placed => Clear(s, t)
    <3> SUFFICES ASSUME NEW s \in segs', NEW t \in segs', s.id < t.id, s.placed PROVE Clear(s, t)
      OBVIOUS
    <3>1. t # new
      BY <2>1, <2>2, <2>4
    <3>2. CASE s = new
      BY <2>1, <2>3, <3>1, <3>2
    <3>3. CASE s # new
      BY <2>1, <3>1, <3>3 DEF ClearInv
    <3> QED
      BY <3>2, <3>3
  <2>8. \A s, t \in segs' : s.id < t.id /\ t.placed => s.placed
    <3> SUFFICES ASSUME NEW s \in segs', NEW t \in segs', s.id < t.id, t.placed PROVE s.placed
      OBVIOUS
    <3>1. t # new
      BY <2>1, <2>2, <2>4
    <3>2. CASE s = new
      BY <2>1, <3>2
    <3>3. CASE s # new
      BY <2>1, <3>1, <3>3 DEF ClearInv
    <3> QED
      BY <3>2, <3>3
  <2> QED
    BY <2>5, <2>6, <2>7, <2>8 DEF ClearInv
<1>5. CASE Fail \/ EmptyBuffer \/ StartFind \/ SubtractSegment \/ FindSpace \/ StartLoad \/ MergeFirst \/ MergeNext \/ AlignSizes \/ CheckEntry
  BY <1>1, <1>5 DEF Fail, EmptyBuffer, StartFind, SubtractSegment, FindSpace, StartLoad, MergeFirst, MergeNext, AlignSizes, CheckEntry
<1> QED
  BY <1>1, <1>2, <1>3, <1>4, <1>5 DEF Next, vars, Stopped

\* Of two segments, the later one is out of the way of the other, if it was placed.
LEMMA ApartFromPlaced ==
    ASSUME SegInv, ClearInv, NEW s \in segs, NEW t \in segs, s # t, s.placed
    PROVE  Apart(s, t)
<1>1. s.id \in Nat /\ t.id \in Nat /\ s.id # t.id
  BY DEF ClearInv
<1>2. s.start \in Addr /\ s.size \in Addr /\ t.start \in Addr /\ t.size \in Addr
  BY DEF SegInv
<1>3. CASE s.id < t.id
  <2>1. Clear(s, t)
    BY <1>3 DEF ClearInv
  <2> QED
    BY <1>2, <2>1, WordAssumption DEF Clear, Apart, Addr
<1>4. CASE t.id < s.id
  <2>1. Clear(t, s)
    BY <1>4 DEF ClearInv
  <2> QED
    BY <1>2, <2>1, WordAssumption DEF Clear, Apart, Addr
<1> QED
  BY <1>1, <1>3, <1>4

\* No segment that kexec.Memory has placed shares an address with another one, for
\* every memory map and every loader that makes its calls in order.
THEOREM PlacedSegmentsApart ==
    ASSUME NEW top, Machine(top), \A p \in Programs : InOrder(p)
    PROVE  Spec => []PlacedApart
<1> DEFINE Inv == KInv(top) /\ CallsInv /\ OrderInv /\ ClearInv
<1>1. Init => Inv
  <2>1. Init => KInv(top)
    BY DEF Init, KInv, PhysInv, SegInv, RamInv, FoundInv, SetupInv, Machine
  <2>2. Init => ClearInv
    BY DEF Init, ClearInv
  <2> QED
    BY <2>1, <2>2, InitOrder
<1>2. Inv /\ [Next]_vars => Inv'
  BY NextKInv, NextOrder, NextClear
<1>3. Inv => PlacedApart
  <2> SUFFICES ASSUME SegInv, ClearInv, NEW s \in segs, NEW t \in segs, s.placed, s # t
               PROVE  Points(s) \cap Points(t) = {}
    BY DEF PlacedApart, KInv
  <2>1. s.start \in Addr /\ s.size \in Addr /\ t.start \in Addr /\ t.size \in Addr /\ Apart(s, t)
    BY ApartFromPlaced DEF SegInv
  <2> QED
    BY <2>1, WordAssumption DEF Points, Apart, Addr
<1> QED
  BY <1>1, <1>2, <1>3, PTL DEF Spec

-----------------------------------------------------------------------------

\* Pages: no segment is rounded beyond the last address, and nothing but whole pages
\* is looked for.
PagedCalls(top) ==
    {c \in ProperCalls(top) :
        /\ c.op = "insert" => c.size > 0 /\ c.start + c.size + Page <= Word
        /\ c.op = "add" => c.align % Page = 0 /\ c.sz + c.align + Page < Word /\ top + c.off + Page <= Word
        /\ c.op = "phys" => c.limit.start % Page = 0}

Bytes == {Zero, Junk} \cup {Byte(id, k) : id, k \in Nat}
Segment == [id : Nat, start : Addr, size : Addr, placed : BOOLEAN, buf : Seq(Bytes)]

PageInv(top) ==
    /\ prog \in Seq(PagedCalls(top))
    /\ pc \in {"avail", "place"} => ~BadArguments
    /\ pc = "place" => found.start % Page = 0 /\ found.size = Size
    /\ \A s \in segs :
         /\ s \in Segment /\ s.start + s.size + Page <= Word
         /\ s.placed => s.size % Page = 0
         /\ s.size = 0 => s.placed /\ s.start % Page = 0
         /\ \A k \in 1..Len(s.buf) : s.buf[k] = Byte(s.id, k)

\* A segment of AlignAndMerge: it begins with a page.
Merged(n) == n \in Segment /\ n.start % Page = 0 /\ n.start + n.size + Page <= Word

PageEnd(n) == n.start + UpPage(n.size)

\* The pages of n come before those of m.
PagesBefore(n, m) == n.size = 0 \/ m.size = 0 \/ PageEnd(n) <= m.start

\* AlignAndMerge goes from lower to higher addresses.
MergeInv ==
    /\ pc \in {"call", "avail", "place", "first", "sizes"} => newSegs = {}
    /\ pc = "first" => todo = segs
    /\ pc = "sizes" => todo = {} /\ segs = {}
    /\ pc = "merge" =>
          /\ todo \subseteq segs /\ Merged(cur) /\ \A n \in newSegs : Merged(n)
          /\ \A n, m \in newSegs : n # m => PagesBefore(n, m) \/ PagesBefore(m, n)
          /\ \A n \in newSegs : PagesBefore(n, cur) /\ \A t \in todo : PagesBefore(n, t)
          /\ \A t \in todo : cur.start <= t.start /\ \A v \in segs \ todo : MergeBefore(v, t)
          /\ cur.size > 0 => \E v \in segs \ todo : v.size > 0 /\ v.start >= cur.start
                                                     /\ v.start + v.size = cur.start + cur.size

\* The byte at offset i of a segment.
ByteAt(n, i) == IF i < Len(n.buf) THEN n.buf[i + 1] ELSE Zero

\* n holds segment v.
Holds(n, v) ==
    /\ n.start <= v.start /\ v.start + v.size <= n.start + n.size
    /\ \A i \in 0..v.size - 1 : ByteAt(n, v.start - n.start + i) = ByteAt(v, i)

\* Every segment that AlignAndMerge has come to is in one that it has made.
HoldsInv ==
    /\ pc = "merge" => \A v \in segs \ todo : v.size > 0 => \E n \in newSegs \cup {cur} : Holds(n, v)
    /\ pc \in {"check", "loaded"} => \A v \in segs : v.size > 0 => \E n \in newSegs : Holds(n, v)

AcceptInv ==
    pc \in {"check", "loaded"} =>
        /\ \A n \in newSegs : /\ n.start \in Nat /\ n.size \in Nat /\ n.buf \in Seq(Bytes)
                              /\ n.start % Page = 0 /\ n.size % Page = 0 /\ Len(n.buf) <= n.size
        /\ \A n, m \in newSegs : n # m => n.size = 0 \/ m.size = 0 \/ Apart(n, m)

-----------------------------------------------------------------------------
(***************************************************************************)
(* Segments and pages.                                                     *)
(***************************************************************************)

\* A machine on which everything that is looked for comes in pages.
PagedMachine(top) == Machine(top) /\ M1 % Page = 0 /\ Programs \subseteq Seq(PagedCalls(top))

\* The next call is one in pages, and so are the later ones.
LEMMA PagedStep ==
    ASSUME NEW top, prog \in Seq(PagedCalls(top)), prog # <<>>
    PROVE  Call \in PagedCalls(top) /\ Call \in Calls /\ Len(prog) \in Nat /\ Tail(prog) \in Seq(PagedCalls(top))
  BY DEF Call, PagedCalls, ProperCalls

\* NewSegment: the buffer holds the data, byte by byte.
LEMMA NewSegmentFacts ==
    ASSUME NEW id \in Nat, NEW len \in Nat, NEW r, r.start \in Addr, r.size \in Addr, NEW b \in BOOLEAN
    PROVE  LET s == NewSegment(id, len, r, b)
           IN  /\ s \in Segment /\ s.id = id /\ s.start = r.start /\ s.size = r.size /\ s.placed = b
               /\ \A k \in 1..Len(s.buf) : s.buf[k] = Byte(id, k)
<1> DEFINE f == [k \in 1..len |-> Byte(id, k)]
<1>1. \A k \in 1..len : f[k] \in Bytes /\ f[k] = Byte(id, k)
  BY DEF Bytes
<1>2. f \in Seq(Bytes) /\ Len(f) = len
  BY <1>1
<1>3. NewSegment(id, len, r, b) = [id |-> id, start |-> r.start, size |-> r.size, placed |-> b, buf |-> f]
  BY DEF NewSegment
<1> HIDE DEF f
<1> QED
  BY <1>1, <1>2, <1>3 DEF Segment

\* What is looked for are whole pages, and they are empty only if nothing is asked for.
LEMMA SizeFacts ==
    ASSUME NEW top, Call \in PagedCalls(top), Call \in Calls, Call.op \in {"add", "phys"}
    PROVE  /\ Size \in Addr /\ Size % Page = 0
           /\ Call.op = "add" => Call.sz \in Nat /\ Call.sz <= Size
<1>1. Page \in Addr \ {0} /\ Page % Page = 0
  BY WordAssumption DEF Addr
<1>2. CASE Call.op = "phys"
  <2>1. Call.len \in Addr /\ Size = Up(Call.len, Page)
    BY <1>2 DEF Calls, Size, UpPage
  <2> QED
    BY <1>1, <1>2, <2>1, UpType, UpAligned
<1>3. CASE Call.op = "add"
  <2>1. Call.sz \in Addr /\ Call.align \in Addr /\ Call.align % Page = 0 /\ Call.sz + Call.align + Page < Word
    BY <1>3 DEF Calls, PagedCalls
  <2>2. PICK a \in Addr \ {0} : a % Page = 0 /\ Size = Up(Call.sz, a) /\ a <= Call.align + Page
    BY <1>1, <1>3, <2>1, WordAssumption DEF Size, UpPage, Addr
  <2>3. Size \in Addr /\ Size % Page = 0
    BY <2>1, <2>2, UpType, UpAligned
  <2>4. Call.sz \in Nat /\ a \in Nat \ {0} /\ Call.sz + (a - 1) < Word
    BY <2>1, <2>2, WordAssumption DEF Addr
  <2>5. Call.sz <= Size
    BY <2>2, <2>4, UpBounds
  <2> QED
    BY <2>3, <2>4, <2>5
<1> QED
  BY <1>2, <1>3

\* FindSpace and ReservePhys find whole pages.
LEMMA FoundPages ==
    ASSUME NEW top, PagedMachine(top), KInv(top), PageInv(top), FindSpace, pc' = "place"
    PROVE  found'.start % Page = 0 /\ found'.size = Size
<1>1. found' \in FindSpaceIn(AlignStarts(ram), Size, Limit)
  BY DEF FindSpace
<1>2. PICK r \in AlignStarts(ram) : found' = [start |-> Intersect(r, Limit).start, size |-> Size]
  BY <1>1 DEF FindSpaceIn, Room
<1>3. PICK q \in ram : r = [start |-> UpPage(q.start), size |-> Wrap(q.size - Wrap(UpPage(q.start) - q.start))]
  BY DEF AlignStarts
<1>4. q.start \in Addr
  BY DEF KInv, RamInv, FindSpace, Ranges
<1>5. r.start % Page = 0
  <2>1. Page \in Addr \ {0} /\ Page % Page = 0
    BY WordAssumption DEF Addr
  <2>2. UpPage(q.start) % Page = 0
    BY <1>4, <2>1, UpAligned DEF UpPage
  <2> QED
    BY <1>3, <2>2
<1>6. Limit.start % Page = 0
  <2>1. Call \in PagedCalls(top) /\ Call \in Calls
    BY PagedStep DEF KInv, RamInv, FindSpace, PageInv
  <2>2. CASE Call.op = "phys"
    BY <2>1, <2>2 DEF Limit, PagedCalls
  <2>3. CASE Call.op # "phys"
    BY <2>3 DEF Limit, RangeFromInterval, PagedMachine
  <2> QED
    BY <2>2, <2>3
<1>7. Intersect(r, Limit).start = r.start \/ Intersect(r, Limit).start = Limit.start
  BY DEF Intersect, RangeFromInterval
<1> QED
  BY <1>2, <1>5, <1>6, <1>7

\* Every step keeps the segments in pages.
LEMMA NextPage ==
    ASSUME NEW top, PagedMachine(top), KInv(top), PageInv(top), [Next]_vars
    PROVE  PageInv(top)'
<1>1. CASE UNCHANGED <<prog, segs>> /\ pc' \notin {"avail", "place"}
  BY <1>1 DEF PageInv
<1>2. CASE UNCHANGED vars
  BY <1>2 DEF vars, PageInv, BadArguments, Size, Call
<1>3. CASE StartFind
  BY <1>3 DEF StartFind, PageInv, BadArguments, Call
<1>4. CASE SubtractSegment
  BY <1>4 DEF SubtractSegment, PageInv, BadArguments, Call
<1>5. CASE FindSpace
  <2>1. CASE pc' = "place"
    <3>1. found'.start % Page = 0 /\ found'.size = Size /\ UNCHANGED <<prog, segs>> /\ pc = "avail"
      BY <1>5, <2>1, FoundPages DEF FindSpace
    <3> QED
      BY <2>1, <3>1 DEF PageInv, BadArguments, Size, Call
  <2>2. CASE pc' # "place"
    BY <1>1, <1>5, <2>2 DEF FindSpace
  <2> QED
    BY <2>1, <2>2
<1>6. CASE ParseMemoryMap \/ ReserveMemory \/ MemoryMapForOS
  <2>1. UNCHANGED segs /\ prog' = Tail(prog) /\ prog # <<>> /\ pc' = "call"
    BY <1>6 DEF ParseMemoryMap, ReserveMemory, MemoryMapForOS, Calling
  <2>2. prog' \in Seq(PagedCalls(top))
    BY <2>1, PagedStep DEF PageInv
  <2> QED
    BY <2>1, <2>2 DEF PageInv
<1>7. ASSUME NEW id \in Nat, NEW len \in Nat, NEW r, r.start \in Addr, r.size \in Addr, NEW b \in BOOLEAN,
             segs' = segs \cup {NewSegment(id, len, r, b)}, pc' = "call", prog' = Tail(prog), prog # <<>>,
             r.start + r.size + Page <= Word, b => r.size % Page = 0, r.size = 0 => b /\ r.start % Page = 0
      PROVE  PageInv(top)'
  <2> DEFINE s == NewSegment(id, len, r, b)
  <2>1. /\ s \in Segment /\ s.id = id /\ s.start = r.start /\ s.size = r.size /\ s.placed = b
        /\ \A k \in 1..Len(s.buf) : s.buf[k] = Byte(id, k)
    BY <1>7, NewSegmentFacts
  <2> HIDE DEF s
  <2>2. prog' \in Seq(PagedCalls(top))
    BY <1>7, PagedStep DEF PageInv
  <2>3. segs' = segs \cup {s}
    BY <1>7 DEF s
  <2>4. /\ s \in Segment /\ s.start + s.size + Page <= Word
        /\ s.placed => s.size % Page = 0
        /\ s.size = 0 => s.placed /\ s.start % Page = 0
        /\ \A k \in 1..Len(s.buf) : s.buf[k] = Byte(s.id, k)
    BY <1>7, <2>1
  <2> QED
    BY <1>7, <2>2, <2>3, <2>4 DEF PageInv
<1>8. CASE InsertSegment
  <2>1. /\ segs' = segs \cup {NewSegment(Len(prog), Call.len, Call, FALSE)} /\ pc' = "call"
        /\ prog' = Tail(prog) /\ prog # <<>> /\ Call.op = "insert"
    BY <1>8 DEF InsertSegment, Calling
  <2>2. Call \in PagedCalls(top) /\ Call \in Calls /\ Len(prog) \in Nat
    BY <2>1, PagedStep DEF PageInv
  <2>3. /\ Call.start \in Addr /\ Call.size \in Addr /\ Call.len \in Nat /\ Call.size > 0
        /\ Call.start + Call.size + Page <= Word
    BY <2>1, <2>2, WordAssumption DEF PagedCalls, Calls, Addr
  <2>4. Call.size # 0
    BY <2>3
  <2> QED
    BY <1>7, <2>1, <2>2, <2>3, <2>4
<1>9. CASE PlaceSegment
  <2>1. /\ pc = "place" /\ pc' = "call" /\ prog' = Tail(prog) /\ prog # <<>> /\ Call.op \in {"add", "phys"}
        /\ found.start % Page = 0 /\ found.size = Size /\ ~BadArguments
        /\ found \in Ranges /\ found.start + found.size <= top
        /\ top + Page < Word /\ top \in Addr
    BY <1>9 DEF PlaceSegment, KInv, FoundInv, PageInv, PagedMachine, Machine
  <2>2. Call \in PagedCalls(top) /\ Call \in Calls /\ Len(prog) \in Nat
    BY <2>1, PagedStep DEF PageInv
  <2>3. Size \in Addr /\ Size % Page = 0 /\ (Call.op = "add" => Call.sz \in Nat /\ Call.sz <= Size)
    BY <2>1, <2>2, SizeFacts
  <2>4. CASE Call.op = "add"
    <3>1. segs' = segs \cup {NewSegment(Len(prog), Call.len, Shifted, TRUE)}
      BY <1>9, <2>4 DEF PlaceSegment
    <3>2. Call.off \in Nat /\ Call.len \in Nat /\ Call.off <= Call.sz /\ top + Call.off + Page <= Word
      BY <2>1, <2>2, <2>4, WordAssumption DEF Calls, PagedCalls, BadArguments, Addr
    <3>3. Shifted.start = found.start + Call.off /\ Shifted.size = found.size
      BY <2>1, <3>2, WordAssumption DEF Shifted, Wrap, Ranges, Addr
    <3>4. /\ Shifted.start \in Addr /\ Shifted.size \in Addr /\ Shifted.start + Shifted.size + Page <= Word
          /\ Shifted.size % Page = 0
      <4>1. found.start \in Addr /\ found.size \in Addr /\ Shifted.size % Page = 0
        BY <2>1, <2>3, <3>3 DEF Ranges
      <4>2. found.start + Call.off + found.size + Page <= Word
        BY <2>1, <3>2, <4>1, WordAssumption DEF Addr
      <4> QED
        BY <3>2, <3>3, <4>1, <4>2, WordAssumption DEF Addr
    <3>5. Shifted.size = 0 => Shifted.start % Page = 0
      <4> SUFFICES ASSUME Shifted.size = 0 PROVE Shifted.start % Page = 0
        OBVIOUS
      <4>1. Call.off = 0
        BY <2>1, <2>3, <2>4, <3>2, <3>3
      <4>2. Shifted.start = found.start
        BY <2>1, <3>3, <4>1, WordAssumption DEF Ranges, Addr
      <4> QED
        BY <2>1, <4>2
    <3> QED
      BY <1>7, <2>1, <2>2, <3>1, <3>2, <3>4, <3>5
  <2>5. CASE Call.op = "phys"
    <3>1. segs' = segs \cup {NewSegment(Len(prog), Call.len, found, TRUE)}
      BY <1>9, <2>5 DEF PlaceSegment
    <3>2. /\ Call.len \in Nat /\ found.start \in Addr /\ found.size \in Addr
          /\ found.start + found.size + Page <= Word /\ found.size % Page = 0
      BY <2>1, <2>2, <2>3, <2>5, WordAssumption DEF Calls, Ranges, Addr
    <3> QED
      BY <1>7, <2>1, <2>2, <3>1, <3>2
  <2> QED
    BY <2>1, <2>4, <2>5
<1>10. CASE Fail \/ EmptyBuffer \/ StartLoad \/ MergeFirst \/ MergeNext \/ AlignSizes \/ CheckEntry \/ Stopped
  BY <1>1, <1>2, <1>10 DEF Fail, EmptyBuffer, Calling, StartLoad, MergeFirst, MergeNext, AlignSizes, CheckEntry, Stopped
<1> QED
  BY <1>2, <1>3, <1>4, <1>5, <1>6, <1>8, <1>9, <1>10 DEF Next

-----------------------------------------------------------------------------
(***************************************************************************)
(* Buffers.                                                                *)
(***************************************************************************)

\* One buffer after another.
LEMMA ConcatBytes ==
    ASSUME NEW f \in Seq(Bytes), NEW g \in Seq(Bytes)
    PROVE  /\ f \o g \in Seq(Bytes) /\ Len(f) \in Nat /\ Len(g) \in Nat /\ Len(f \o g) = Len(f) + Len(g)
           /\ \A k \in 1..Len(f) : (f \o g)[k] = f[k]
           /\ \A k \in 1..Len(g) : (f \o g)[Len(f) + k] = g[k]
  OBVIOUS

\* Whatever precedes the data, and the bytes between two segments.
LEMMA FillBytes ==
    ASSUME NEW n \in Nat
    PROVE  /\ Fill(n) \in Seq(Bytes) /\ Len(Fill(n)) = n
           /\ Zeros(n) \in Seq(Bytes) /\ Len(Zeros(n)) = n /\ \A k \in 1..n : Zeros(n)[k] = Zero
<1>1. Zero \in Bytes /\ Junk \in Bytes
  BY DEF Bytes
<1> QED
  BY <1>1 DEF Fill, Zeros

\* realBufTruncate: no byte of the segment is lost.
LEMMA TruncatedBytes ==
    ASSUME NEW s \in Segment
    PROVE  /\ Truncated(s) \in Seq(Bytes) /\ Len(Truncated(s)) \in 0..s.size /\ Len(Truncated(s)) <= Len(s.buf)
           /\ \A i \in 0..s.size - 1 :
                 ByteAt(s, i) = IF i < Len(Truncated(s)) THEN Truncated(s)[i + 1] ELSE Zero
<1>1. s.buf \in Seq(Bytes) /\ s.size \in Nat /\ Len(s.buf) \in Nat
  BY WordAssumption DEF Segment, Addr
<1> DEFINE m == IF Len(s.buf) < s.size THEN Len(s.buf) ELSE s.size
           b == s.buf
<1>2. m \in 0..Len(b) /\ m <= s.size
  BY <1>1
<1>3. Truncated(s) = SubSeq(b, 1, m)
  BY DEF Truncated
<1>4. b \in Seq(Bytes) /\ Len(b) \in Nat
  BY <1>1
<1>5. \A i \in 0..s.size - 1 : i < m <=> i < Len(b)
  BY <1>1
<1>6. \A i \in 0..s.size - 1 : ByteAt(s, i) = IF i < Len(b) THEN b[i + 1] ELSE Zero
  BY DEF ByteAt
<1> HIDE DEF m, b
<1>7. SubSeq(b, 1, m) \in Seq(Bytes) /\ Len(SubSeq(b, 1, m)) = m /\ \A k \in 1..m : SubSeq(b, 1, m)[k] = b[k]
  BY <1>2, <1>4
<1>8. \A i \in 0..s.size - 1 : i < m => i + 1 \in 1..m
  BY <1>1, <1>2, <1>4
<1>9. ASSUME NEW i \in 0..s.size - 1
      PROVE  ByteAt(s, i) = IF i < Len(Truncated(s)) THEN Truncated(s)[i + 1] ELSE Zero
  BY <1>3, <1>5, <1>6, <1>7, <1>8
<1> QED
  BY <1>1, <1>2, <1>3, <1>4, <1>7, <1>9 DEF b

\* realBufPad: the buffer is as long as the segment.
LEMMA PaddedBytes ==
    ASSUME NEW s \in Segment
    PROVE  /\ Padded(s) \in Seq(Bytes) /\ Len(Padded(s)) = s.size
           /\ \A i \in 0..s.size - 1 : Padded(s)[i + 1] = ByteAt(s, i)
<1> DEFINE f == Truncated(s)
           g == Zeros(s.size - Len(f))
<1>1. s.size \in Nat
  BY WordAssumption DEF Segment, Addr
<1>2. /\ f \in Seq(Bytes) /\ Len(f) \in 0..s.size
      /\ \A i \in 0..s.size - 1 : ByteAt(s, i) = IF i < Len(f) THEN f[i + 1] ELSE Zero
  BY TruncatedBytes
<1>3. s.size - Len(f) \in Nat
  BY <1>1, <1>2
<1>4. g \in Seq(Bytes) /\ Len(g) = s.size - Len(f) /\ \A k \in 1..s.size - Len(f) : g[k] = Zero
  BY <1>3, FillBytes
<1>5. Padded(s) = f \o g
  BY DEF Padded
<1> HIDE DEF f, g
<1>6. /\ f \o g \in Seq(Bytes) /\ Len(f \o g) = Len(f) + Len(g)
      /\ \A k \in 1..Len(f) : (f \o g)[k] = f[k]
      /\ \A k \in 1..Len(g) : (f \o g)[Len(f) + k] = g[k]
  BY <1>2, <1>4, ConcatBytes
<1>7. ASSUME NEW i \in 0..s.size - 1 PROVE (f \o g)[i + 1] = ByteAt(s, i)
  <2>1. CASE i < Len(f)
    BY <1>1, <1>2, <1>6, <2>1
  <2>2. CASE ~(i < Len(f))
    <3>1. PICK k \in 1..Len(g) : Len(f) + k = i + 1
      <4>1. (i + 1) - Len(f) \in 1..Len(g) /\ Len(f) + ((i + 1) - Len(f)) = i + 1
        BY <1>1, <1>2, <1>3, <1>4, <2>2
      <4> QED
        BY <4>1
    <3>2. (f \o g)[i + 1] = Zero
      BY <1>4, <1>6, <3>1
    <3> QED
      BY <1>2, <2>2, <3>2
  <2> QED
    BY <2>1, <2>2
<1> QED
  BY <1>1, <1>2, <1>4, <1>5, <1>6, <1>7

\* AlignPhysStart: the segment begins with its page, ends where it ended and holds what
\* it held.
LEMMA AlignFacts ==
    ASSUME NEW s \in Segment, s.start + s.size + Page <= Word
    PROVE  /\ Merged(AlignPhysStart(s)) /\ Holds(AlignPhysStart(s), s)
           /\ AlignPhysStart(s).start <= s.start
           /\ AlignPhysStart(s).start + AlignPhysStart(s).size = s.start + s.size
           /\ \A c \in Nat : c % Page = 0 /\ c <= s.start => c <= AlignPhysStart(s).start
           /\ s.start % Page = 0 => AlignPhysStart(s).start = s.start
<1> DEFINE g == Gap(s)
           A == AlignPhysStart(s)
<1>1. /\ s.start \in Nat /\ s.size \in Nat /\ s.buf \in Seq(Bytes) /\ Page \in Nat \ {0}
      /\ s.start \in Addr /\ s.size \in Addr
  BY WordAssumption DEF Segment, Addr
<1>2. g \in Nat /\ g < Page /\ g <= s.start
  <2>1. g \in 0..Page - 1 /\ g <= s.start
    BY <1>1, DivMod DEF Gap
  <2> HIDE DEF g
  <2> QED
    BY <1>1, <2>1
<1>a. (s.start - g) % Page = 0 /\ \A c \in Nat : c % Page = 0 /\ c <= s.start => c <= s.start - g
  BY <1>1, RoundDown DEF Gap
<1>3. s.start % Page = 0 => g = 0
  BY DEF Gap
<1>4. A = [s EXCEPT !.start = s.start - g, !.size = Wrap(s.size + g), !.buf = Fill(g) \o s.buf]
  BY DEF AlignPhysStart
<1> HIDE DEF g
<1>5. Wrap(s.size + g) = s.size + g /\ s.size + g \in Addr /\ s.start - g \in Addr
  BY <1>1, <1>2, WordAssumption DEF Wrap, Addr
<1>6. /\ Fill(g) \o s.buf \in Seq(Bytes) /\ Len(s.buf) \in Nat /\ Len(Fill(g) \o s.buf) = g + Len(s.buf)
      /\ \A k \in 1..Len(s.buf) : (Fill(g) \o s.buf)[g + k] = s.buf[k]
  <2>1. Fill(g) \in Seq(Bytes) /\ Len(Fill(g)) = g
    BY <1>2, FillBytes
  <2> DEFINE f == Fill(g)
             b == s.buf
  <2>2. f \in Seq(Bytes) /\ b \in Seq(Bytes) /\ Len(f) = g
    BY <1>1, <2>1
  <2> HIDE DEF f, b
  <2>3. /\ f \o b \in Seq(Bytes) /\ Len(b) \in Nat /\ Len(f \o b) = Len(f) + Len(b)
        /\ \A k \in 1..Len(b) : (f \o b)[Len(f) + k] = b[k]
    BY <2>2, ConcatBytes
  <2> QED
    BY <2>2, <2>3 DEF f, b
<1>7. /\ A \in Segment /\ A.start = s.start - g /\ A.size = s.size + g
      /\ A.buf = Fill(g) \o s.buf
  BY <1>4, <1>5, <1>6 DEF Segment
<1> HIDE DEF A
<1>8. Merged(A)
  BY <1>1, <1>2, <1>a, <1>7 DEF Merged
<1>9. ASSUME NEW i \in 0..s.size - 1
      PROVE  ByteAt(A, s.start - A.start + i) = ByteAt(s, i)
  <2>1. s.start - A.start + i = g + i /\ i \in Nat /\ g \in Nat
    BY <1>1, <1>2, <1>7
  <2>2. CASE i < Len(s.buf)
    <3>1. PICK k \in 1..Len(s.buf) : k = i + 1
      BY <1>6, <2>1, <2>2
    <3>2. g + i < Len(A.buf) /\ (g + i) + 1 = g + k
      BY <1>6, <1>7, <2>1, <2>2, <3>1
    <3>3. A.buf[g + k] = s.buf[k]
      BY <1>6, <1>7
    <3> QED
      BY <2>1, <2>2, <3>1, <3>2, <3>3 DEF ByteAt
  <2>3. CASE ~(i < Len(s.buf))
    <3>1. ~(g + i < Len(A.buf))
      BY <1>6, <1>7, <2>1, <2>3
    <3> QED
      BY <2>1, <2>3, <3>1 DEF ByteAt
  <2> QED
    BY <2>2, <2>3
<1>10. Holds(A, s)
  BY <1>1, <1>2, <1>7, <1>9 DEF Holds
<1>11. A.start <= s.start /\ A.start + A.size = s.start + s.size
  BY <1>1, <1>2, <1>7
<1> QED
  BY <1>1, <1>a, <1>3, <1>7, <1>8, <1>10, <1>11 DEF A

\* mergeDisjoint: the result begins where the first segment begins, ends where the
\* second one ends and holds what both of them held.
LEMMA MergeFacts ==
    ASSUME NEW c \in Segment, Merged(c), NEW s \in Segment,
           c.start + c.size <= s.start, s.start + s.size + Page <= Word
    PROVE  LET M == MergeDisjoint(c, s)
           IN  /\ Merged(M) /\ M.start = c.start /\ M.start + M.size = s.start + s.size
               /\ \A i \in 0..c.size - 1 : ByteAt(M, i) = ByteAt(c, i)
               /\ \A i \in 0..s.size - 1 : ByteAt(M, s.start - c.start + i) = ByteAt(s, i)
<1> DEFINE M == MergeDisjoint(c, s)
           d == s.start - (c.start + c.size)
           f == Padded(c)
           z == Zeros(d)
           g == Truncated(s)
<1>1. /\ c.start \in Nat /\ c.size \in Nat /\ s.start \in Nat /\ s.size \in Nat
      /\ Page \in Nat \ {0} /\ Word \in Nat
  BY WordAssumption DEF Segment, Addr
<1>2. End(c) = c.start + c.size
  BY <1>1 DEF End, Wrap
<1>3. d \in Nat /\ d + c.size = s.start - c.start /\ d < Word
  BY <1>1
<1>a. Wrap(s.start - End(c)) = d
  <2>1. Wrap(s.start - End(c)) = Wrap(d)
    BY <1>2
  <2> HIDE DEF d
  <2> QED
    BY <1>1, <1>3, <2>1 DEF Wrap
<1>4. M = [c EXCEPT !.size = Wrap(c.size + d + s.size), !.buf = (f \o z) \o g]
  BY <1>a DEF MergeDisjoint
<1>5. /\ f \in Seq(Bytes) /\ Len(f) = c.size
      /\ \A i \in 0..c.size - 1 : f[i + 1] = ByteAt(c, i)
  BY PaddedBytes
<1>6. z \in Seq(Bytes) /\ Len(z) = d
  BY <1>3, FillBytes
<1>7. /\ g \in Seq(Bytes) /\ Len(g) \in 0..s.size
      /\ \A i \in 0..s.size - 1 : ByteAt(s, i) = IF i < Len(g) THEN g[i + 1] ELSE Zero
  BY TruncatedBytes
<1> HIDE DEF f, z, g, d
<1>8. Wrap(c.size + d + s.size) = c.size + d + s.size /\ c.size + d + s.size \in Addr
  <2>1. c.size + d + s.size \in Nat /\ c.size + d + s.size < Word
    BY <1>1, <1>3
  <2> DEFINE n == c.size + d + s.size
  <2>2. n \in Nat /\ n < Word
    BY <2>1
  <2> HIDE DEF n
  <2>3. Wrap(n) = n /\ n \in Addr
    BY <1>1, <2>2 DEF Wrap, Addr
  <2> QED
    BY <2>3 DEF n
<1>9. /\ f \o z \in Seq(Bytes) /\ Len(f \o z) = c.size + d
      /\ \A k \in 1..c.size : (f \o z)[k] = f[k]
  <2>1. f \o z \in Seq(Bytes) /\ Len(f \o z) = Len(f) + Len(z) /\ \A k \in 1..Len(f) : (f \o z)[k] = f[k]
    BY <1>5, <1>6, ConcatBytes
  <2> QED
    BY <1>5, <1>6, <2>1
<1> DEFINE h == f \o z
<1>10. /\ h \in Seq(Bytes) /\ Len(h) = c.size + d
       /\ \A k \in 1..c.size : h[k] = f[k]
  BY <1>9
<1>11. M = [c EXCEPT !.size = c.size + d + s.size, !.buf = h \o g]
  BY <1>4, <1>8
<1> HIDE DEF h
<1>12. /\ h \o g \in Seq(Bytes) /\ Len(h \o g) = (c.size + d) + Len(g)
       /\ \A k \in 1..(c.size + d) : (h \o g)[k] = h[k]
       /\ \A k \in 1..Len(g) : (h \o g)[(c.size + d) + k] = g[k]
  <2>1. /\ h \o g \in Seq(Bytes) /\ Len(h \o g) = Len(h) + Len(g)
        /\ \A k \in 1..Len(h) : (h \o g)[k] = h[k]
        /\ \A k \in 1..Len(g) : (h \o g)[Len(h) + k] = g[k]
    BY <1>7, <1>10, ConcatBytes
  <2> QED
    BY <1>10, <2>1
<1>13. /\ M \in Segment /\ M.start = c.start /\ M.size = c.size + d + s.size
       /\ M.buf = h \o g
  BY <1>8, <1>11, <1>12 DEF Segment
<1> HIDE DEF M
<1>b. M.start = c.start /\ M.size = c.size + d + s.size
  BY <1>13
<1>14. M.start + M.size = s.start + s.size
  BY <1>1, <1>3, <1>b
<1>15. Merged(M)
  BY <1>13, <1>14 DEF Merged
<1>16. Len(M.buf) = (c.size + d) + Len(g) /\ Len(g) \in Nat
  BY <1>7, <1>12, <1>13
<1>c. d \in Nat /\ c.size \in Nat /\ s.size \in Nat
  BY <1>1, <1>3
<1>17. ASSUME NEW i \in 0..c.size - 1
       PROVE  ByteAt(M, i) = ByteAt(c, i)
  <2>1. i \in Nat /\ i < Len(M.buf) /\ i + 1 \in 1..c.size /\ i + 1 \in 1..(c.size + d)
    <3>1. i \in Nat /\ i < c.size
      BY <1>c
    <3>2. i + 1 \in 1..c.size /\ i + 1 \in 1..(c.size + d)
      BY <1>c, <3>1
    <3> QED
      BY <1>c, <1>16, <3>1, <3>2
  <2>2. M.buf[i + 1] = h[i + 1]
    BY <1>12, <1>13, <2>1
  <2>3. h[i + 1] = f[i + 1]
    BY <1>10, <2>1
  <2>4. f[i + 1] = ByteAt(c, i)
    BY <1>5
  <2> QED
    BY <2>1, <2>2, <2>3, <2>4 DEF ByteAt
<1>18. ASSUME NEW i \in 0..s.size - 1
       PROVE  ByteAt(M, s.start - c.start + i) = ByteAt(s, i)
  <2>1. s.start - c.start + i = (c.size + d) + i /\ i \in Nat
    BY <1>1, <1>3
  <2>2. CASE i < Len(g)
    <3>1. i + 1 \in 1..Len(g) /\ (c.size + d) + i < Len(M.buf) /\ ((c.size + d) + i) + 1 = (c.size + d) + (i + 1)
      <4>1. i + 1 \in 1..Len(g)
        BY <1>16, <2>1, <2>2
      <4>2. (c.size + d) + i < (c.size + d) + Len(g) /\ ((c.size + d) + i) + 1 = (c.size + d) + (i + 1)
        BY <1>c, <1>16, <2>1, <2>2
      <4> QED
        BY <1>16, <4>1, <4>2
    <3>2. M.buf[(c.size + d) + (i + 1)] = g[i + 1]
      BY <1>12, <1>13, <3>1
    <3>3. ByteAt(s, i) = g[i + 1]
      BY <1>7, <2>2
    <3> QED
      BY <2>1, <3>1, <3>2, <3>3 DEF ByteAt
  <2>3. CASE ~(i < Len(g))
    <3>1. ~((c.size + d) + i < Len(M.buf))
      BY <1>1, <1>3, <1>16, <2>1, <2>3
    <3>2. ByteAt(s, i) = Zero
      BY <1>7, <2>3
    <3> QED
      BY <2>1, <3>1, <3>2 DEF ByteAt
  <2> QED
    BY <2>2, <2>3
<1> QED
  BY <1>13, <1>14, <1>15, <1>17, <1>18 DEF M

-----------------------------------------------------------------------------
(***************************************************************************)
(* AlignAndMerge.                                                          *)
(***************************************************************************)

\* The sum of two multiples.
LEMMA AlignedSum ==
    ASSUME NEW P \in Nat \ {0}, NEW x \in Nat, NEW c \in Nat, c % P = 0, x % P = 0
    PROVE  (c + x) % P = 0
<1>1. PICK a \in Nat : a = c \div P
  BY DivMod
<1>2. PICK b \in Nat : b = x \div P
  BY DivMod
<1>3. c = P * a /\ x = P * b
  BY <1>1, <1>2, DivMod
<1>4. PICK d \in Nat : d = a + b
  OBVIOUS
<1>5. c + x = P * d
  BY <1>3, <1>4
<1>6. (P * d) % P = 0
  BY Multiple
<1> QED
  BY <1>5, <1>6

\* The end of the last page of a merged segment.
LEMMA PageEndFacts ==
    ASSUME NEW n, Merged(n)
    PROVE  /\ n.start \in Nat /\ n.size \in Nat /\ End(n) = n.start + n.size
           /\ PageEnd(n) \in Nat /\ PageEnd(n) % Page = 0 /\ n.start + n.size <= PageEnd(n)
           /\ \A c \in Nat : c % Page = 0 /\ n.start + n.size <= c => PageEnd(n) <= c
<1>1. n.start \in Nat /\ n.size \in Nat /\ n.start + n.size + Page <= Word /\ n.start % Page = 0 /\ Page \in Nat \ {0}
  BY WordAssumption DEF Merged, Segment, Addr
<1>2. End(n) = n.start + n.size
  BY <1>1, WordAssumption DEF End, Wrap
<1> DEFINE u == UpPage(n.size)
<1>3. n.size + Page <= Word
  BY <1>1, WordAssumption
<1>4. /\ u \in Nat /\ n.size <= u /\ u % Page = 0
      /\ \A c \in Nat : c % Page = 0 /\ n.size <= c => u <= c
  BY <1>1, <1>3, UpPageFacts
<1>5. PageEnd(n) = n.start + u
  BY DEF PageEnd
<1> HIDE DEF u
<1>6. (n.start + u) % Page = 0
  BY <1>1, <1>4, AlignedSum
<1>7. ASSUME NEW c \in Nat, c % Page = 0, n.start + n.size <= c PROVE n.start + u <= c
  <2>1. n.start <= c /\ c - n.start \in Nat /\ n.size <= c - n.start
    BY <1>1, <1>7
  <2>2. (c - n.start) % Page = 0
    BY <1>1, <1>7, <2>1, AlignedDifference
  <2>3. u <= c - n.start
    BY <1>4, <2>1, <2>2
  <2> QED
    BY <1>1, <1>4, <2>3
<1>8. n.start + u \in Nat /\ n.start + n.size <= n.start + u
  BY <1>1, <1>4
<1> QED
  BY <1>1, <1>2, <1>5, <1>6, <1>7, <1>8

\* A segment of the loader once its start is aligned: an empty one stays as it is.
LEMMA AlignedSegment ==
    ASSUME NEW top, PageInv(top), NEW s \in segs
    PROVE  LET A == AlignPhysStart(s)
           IN  /\ s.start \in Nat /\ s.size \in Nat /\ s.start + s.size + Page <= Word /\ s \in Segment
               /\ Merged(A) /\ Holds(A, s) /\ A.start \in Nat /\ A.size \in Nat
               /\ A.start <= s.start /\ A.start + A.size = s.start + s.size
               /\ End(s) = s.start + s.size /\ End(A) = s.start + s.size
               /\ s.size = 0 => A.start = s.start /\ A.size = 0 /\ s.start % Page = 0
<1> DEFINE A == AlignPhysStart(s)
<1>1. s \in Segment /\ s.start + s.size + Page <= Word /\ (s.size = 0 => s.start % Page = 0)
  BY DEF PageInv
<1>2. s.start \in Nat /\ s.size \in Nat /\ Page \in Nat \ {0} /\ Word \in Nat
  BY <1>1, WordAssumption DEF Segment, Addr
<1>3. /\ Merged(A) /\ Holds(A, s) /\ A.start <= s.start /\ A.start + A.size = s.start + s.size
      /\ (s.start % Page = 0 => A.start = s.start)
  BY <1>1, AlignFacts
<1> HIDE DEF A
<1>4. A.start \in Nat /\ A.size \in Nat /\ End(A) = A.start + A.size
  BY <1>3, PageEndFacts
<1>5. End(s) = s.start + s.size
  BY <1>1, <1>2 DEF End, Wrap
<1>6. s.size = 0 => A.start = s.start /\ A.size = 0 /\ s.start % Page = 0
  <2> SUFFICES ASSUME s.size = 0 PROVE A.start = s.start /\ A.size = 0 /\ s.start % Page = 0
    OBVIOUS
  <2>1. A.start = s.start /\ s.start % Page = 0
    BY <1>1, <1>3
  <2>2. s.start + A.size = s.start
    BY <1>2, <1>3, <2>1
  <2>3. A.size \in Nat
    BY <1>4
  <2>4. A.size = 0
    BY <1>2, <2>2, <2>3
  <2> QED
    BY <2>1, <2>4
<1> QED
  BY <1>1, <1>2, <1>3, <1>4, <1>5, <1>6 DEF A

\* No segment at a fixed address begins where an empty one has been placed.
LEMMA EmptyStart ==
    ASSUME NEW top, PageInv(top), ClearInv, NEW v \in segs, NEW s \in segs,
           v.size > 0, s.size = 0, v.start = s.start
    PROVE  v.placed /\ v.size % Page = 0
<1>1. s.placed /\ v.start \in Nat /\ s.start \in Nat /\ v.size \in Nat /\ (v.placed => v.size % Page = 0)
  BY WordAssumption DEF PageInv, Segment, Addr
<1>2. v.id \in Nat /\ s.id \in Nat /\ v.id # s.id
  BY DEF ClearInv
<1>3. CASE s.id < v.id
  <2>1. Clear(s, v)
    BY <1>1, <1>3 DEF ClearInv
  <2> QED
    BY <1>1, <2>1 DEF Clear
<1>4. CASE v.id < s.id
  BY <1>1, <1>4 DEF ClearInv
<1> QED
  BY <1>2, <1>3, <1>4

\* The loop joins only what comes after the last segment, and never an empty segment.
LEMMA JoinFacts ==
    ASSUME NEW top, PageInv(top), MergeInv, pc = "merge", NEW s \in todo,
           Overlaps(AlignPhysStart(s), cur), ~Overlaps(cur, s)
    PROVE  s.size > 0 /\ cur.size > 0 /\ cur.start + cur.size <= s.start
<1> DEFINE A == AlignPhysStart(s)
<1>1. s \in segs /\ Merged(cur) /\ cur.start <= s.start
  BY DEF MergeInv
<1>2. /\ s.start \in Nat /\ s.size \in Nat /\ A.start \in Nat /\ A.start <= s.start
      /\ End(s) = s.start + s.size /\ End(A) = s.start + s.size
      /\ (s.size = 0 => A.start = s.start)
  BY <1>1, AlignedSegment
<1>3. cur.start \in Nat /\ cur.size \in Nat /\ End(cur) = cur.start + cur.size /\ cur.start % Page = 0
  BY <1>1, PageEndFacts DEF Merged
<1>4. cur.start <= A.start
  BY <1>1, <1>3, AlignFacts DEF PageInv
<1>5. A.start < cur.start + cur.size /\ cur.start < s.start + s.size
  BY <1>2, <1>3 DEF Overlaps
<1>6. ~(cur.start < s.start + s.size /\ s.start < cur.start + cur.size)
  BY <1>2, <1>3 DEF Overlaps
<1> HIDE DEF A
<1> QED
  BY <1>2, <1>3, <1>4, <1>5, <1>6

\* The loop leaves the last segment behind only if the next one begins beyond its
\* pages, and so do all that follow.
LEMMA PushFacts ==
    ASSUME NEW top, PageInv(top), SegInv, ClearInv, MergeInv, pc = "merge", NEW s \in todo,
           \A t \in todo : MergeBefore(s, t), ~Overlaps(AlignPhysStart(s), cur)
    PROVE  /\ PagesBefore(cur, AlignPhysStart(s))
           /\ \A t \in todo \ {s} : PagesBefore(cur, t)
           /\ \A n \in newSegs : PagesBefore(n, AlignPhysStart(s))
<1> DEFINE A == AlignPhysStart(s)
<1>1. s \in segs /\ todo \subseteq segs /\ Merged(cur) /\ cur.start <= s.start
  BY DEF MergeInv
<1>2. /\ s.start \in Nat /\ s.size \in Nat /\ A.start \in Nat /\ A.size \in Nat /\ A.start <= s.start
      /\ A.start + A.size = s.start + s.size /\ End(A) = s.start + s.size
      /\ (s.size = 0 => A.start = s.start /\ A.size = 0 /\ s.start % Page = 0)
  BY <1>1, AlignedSegment
<1>3. cur.start \in Nat /\ cur.size \in Nat /\ End(cur) = cur.start + cur.size /\ cur.start % Page = 0
  BY <1>1, PageEndFacts DEF Merged
<1>4. \A c \in Nat : c % Page = 0 /\ c <= s.start => c <= A.start
  BY <1>1, AlignFacts DEF PageInv
<1>5. cur.start <= A.start
  BY <1>1, <1>3, <1>4
<1>6. A.start % Page = 0
  BY <1>1, AlignedSegment DEF Merged
<1>7. PageEnd(cur) \in Nat /\ \A c \in Nat : c % Page = 0 /\ cur.start + cur.size <= c => PageEnd(cur) <= c
  BY <1>1, PageEndFacts
<1>8. A.start >= cur.start + cur.size \/ cur.start >= s.start + s.size
  BY <1>2, <1>3 DEF Overlaps
<1>9. \A t \in todo : t.start \in Nat /\ t.size \in Nat /\ s.start <= t.start
  <2> SUFFICES ASSUME NEW t \in todo PROVE t.start \in Nat /\ t.size \in Nat /\ s.start <= t.start
    OBVIOUS
  <2>1. t.start \in Nat /\ t.size \in Nat
    BY <1>1, WordAssumption DEF SegInv, Addr
  <2> QED
    BY <1>2, <2>1 DEF MergeBefore
<1> HIDE DEF A
<1>10. cur.start + cur.size <= A.start => PageEnd(cur) <= A.start
  BY <1>2, <1>6, <1>7
<1>11. PagesBefore(cur, A)
  <2> SUFFICES ASSUME cur.size > 0, A.size > 0 PROVE PageEnd(cur) <= A.start
    BY <1>2, <1>3 DEF PagesBefore
  <2>1. ~(cur.start >= s.start + s.size)
    BY <1>2, <1>3, <1>5
  <2> QED
    BY <1>2, <1>3, <1>8, <1>10, <2>1
<1>12. ASSUME NEW t \in todo \ {s} PROVE PagesBefore(cur, t)
  <2> SUFFICES ASSUME cur.size > 0, t.size > 0 PROVE PageEnd(cur) <= t.start
    BY <1>3, <1>9 DEF PagesBefore
  <2>1. CASE cur.start + cur.size <= A.start
    BY <1>2, <1>7, <1>9, <1>10, <2>1
  <2>2. CASE ~(cur.start + cur.size <= A.start)
    <3>1. s.size = 0 /\ cur.start = s.start
      BY <1>1, <1>2, <1>3, <1>5, <1>8, <2>2
    <3>2. PICK v \in segs \ todo : v.size > 0 /\ v.start >= cur.start /\ v.start + v.size = cur.start + cur.size
      BY DEF MergeInv
    <3>3. MergeBefore(v, s) /\ MergeBefore(v, t)
      BY DEF MergeInv
    <3>4. v.start \in Nat /\ v.size \in Nat
      BY WordAssumption DEF SegInv, Addr
    <3>5. v.start = s.start
      BY <1>2, <1>3, <3>1, <3>2, <3>3, <3>4 DEF MergeBefore
    <3>6. v.size = cur.size
      BY <1>3, <3>1, <3>2, <3>4, <3>5
    <3>7. v.placed /\ cur.size % Page = 0
      BY <1>1, <3>1, <3>2, <3>5, <3>6, EmptyStart
    <3>8. Apart(v, t)
      BY <1>1, <3>7, ApartFromPlaced
    <3>9. cur.start + cur.size <= t.start
      BY <1>2, <1>3, <1>9, <3>2, <3>4, <3>5, <3>6, <3>8 DEF Apart
    <3>10. (cur.start + cur.size) % Page = 0 /\ Page \in Nat \ {0}
      BY <1>3, <3>7, AlignedSum, WordAssumption
    <3>11. PageEnd(cur) <= cur.start + cur.size
      BY <1>3, <1>7, <3>10
    <3> QED
      BY <1>3, <1>7, <1>9, <3>9, <3>11
  <2> QED
    BY <2>1, <2>2
<1>13. ASSUME NEW n \in newSegs PROVE PagesBefore(n, A)
  <2>1. Merged(n) /\ PagesBefore(n, s)
    BY DEF MergeInv
  <2>2. PageEnd(n) \in Nat /\ PageEnd(n) % Page = 0
    BY <2>1, PageEndFacts
  <2>3. CASE PageEnd(n) <= s.start
    BY <1>4, <2>2, <2>3 DEF PagesBefore
  <2>4. CASE n.size = 0 \/ s.size = 0
    BY <1>2, <2>4 DEF PagesBefore
  <2> QED
    BY <2>1, <2>3, <2>4 DEF PagesBefore
<1> QED
  BY <1>11, <1>12, <1>13 DEF A

\* AlignAndMerge takes the segments in their order and keeps their pages apart.
LEMMA NextMerge ==
    ASSUME NEW top, PageInv(top), SegInv, ClearInv, MergeInv, [Next]_vars
    PROVE  MergeInv'
<1>1. CASE UNCHANGED vars
  BY <1>1 DEF vars, MergeInv, Merged, PagesBefore, MergeBefore, PageEnd
<1>2. CASE \/ Fail \/ EmptyBuffer \/ ParseMemoryMap \/ ReserveMemory \/ MemoryMapForOS \/ InsertSegment
           \/ StartFind \/ SubtractSegment \/ FindSpace \/ PlaceSegment
  <2>1. /\ pc \in {"call", "avail", "place"} /\ pc' \in {"call", "avail", "place", "failed", "panic"}
        /\ newSegs' = newSegs
    BY <1>2 DEF Fail, EmptyBuffer, ParseMemoryMap, ReserveMemory, MemoryMapForOS, InsertSegment,
                StartFind, SubtractSegment, FindSpace, PlaceSegment, Calling
  <2> QED
    BY <2>1 DEF MergeInv
<1>3. CASE StartLoad
  BY <1>3 DEF StartLoad, Calling, MergeInv
<1>4. CASE MergeFirst
  <2>1. pc = "first" /\ todo = segs /\ newSegs = {} /\ segs' = segs /\ newSegs' = newSegs
    BY <1>4 DEF MergeFirst, MergeInv
  <2>2. CASE todo = {} /\ pc' = "sizes" /\ UNCHANGED <<todo, cur>>
    BY <2>1, <2>2 DEF MergeInv
  <2>3. ASSUME NEW s \in todo, \A t \in todo : MergeBefore(s, t), cur' = AlignPhysStart(s),
               todo' = todo \ {s}, pc' \in {"panic", "merge"}
        PROVE  MergeInv'
    <3> DEFINE A == AlignPhysStart(s)
    <3>1. /\ s \in segs /\ s.start \in Nat /\ s.size \in Nat /\ A.start \in Nat /\ A.size \in Nat /\ Merged(A)
          /\ A.start <= s.start /\ A.start + A.size = s.start + s.size
          /\ (s.size = 0 => A.size = 0)
      BY <2>1, AlignedSegment
    <3>2. \A t \in todo : A.start <= t.start
      <4> SUFFICES ASSUME NEW t \in todo PROVE A.start <= t.start
        OBVIOUS
      <4>1. t.start \in Nat
        BY <2>1, WordAssumption DEF SegInv, Addr
      <4> HIDE DEF A
      <4> QED
        BY <2>3, <3>1, <4>1 DEF MergeBefore
    <3>3. A.size > 0 => s.size > 0
      BY <3>1
    <3>4. segs' \ todo' = {s}
      BY <2>1, <2>3
    <3>5. cur' = A
      BY <2>3
    <3> HIDE DEF A
    <3>6. cur'.size > 0 => \E v \in segs' \ todo' : v.size > 0 /\ v.start >= cur'.start
                                                     /\ v.start + v.size = cur'.start + cur'.size
      BY <3>1, <3>3, <3>4, <3>5
    <3>7. \A t \in todo' : cur'.start <= t.start /\ \A v \in segs' \ todo' : MergeBefore(v, t)
      BY <2>3, <3>2, <3>4, <3>5
    <3>8. Merged(cur)' /\ todo' \subseteq segs' /\ newSegs' = {}
      BY <2>1, <2>3, <3>1, <3>5 DEF Merged
    <3> QED
      BY <2>3, <3>6, <3>7, <3>8 DEF MergeInv, MergeBefore
  <2> QED
    BY <1>4, <2>2, <2>3 DEF MergeFirst
<1>5. CASE MergeNext
  <2>1. PICK s \in todo :
           /\ \A t \in todo : MergeBefore(s, t)
           /\ todo' = todo \ {s}
           /\ \/ pc' \in {"panic", "failed"} /\ newSegs' = newSegs
              \/ /\ Overlaps(AlignPhysStart(s), cur) /\ ~Overlaps(cur, s)
                 /\ cur' = MergeDisjoint(cur, s) /\ newSegs' = newSegs
              \/ /\ ~Overlaps(AlignPhysStart(s), cur)
                 /\ newSegs' = newSegs \cup {cur} /\ cur' = AlignPhysStart(s)
    BY <1>5 DEF MergeNext
  <2>2. pc = "merge" /\ segs' = segs /\ pc' \in {"merge", "panic", "failed"}
    BY <1>5 DEF MergeNext
  <2>3. CASE pc' # "merge"
    BY <2>2, <2>3 DEF MergeInv
  <2> SUFFICES ASSUME pc' = "merge" PROVE MergeInv'
    BY <2>3
  <2>4. /\ todo \subseteq segs /\ s \in segs /\ Merged(cur) /\ \A n \in newSegs : Merged(n)
        /\ \A n, m \in newSegs : n # m => PagesBefore(n, m) \/ PagesBefore(m, n)
        /\ \A n \in newSegs : PagesBefore(n, cur) /\ \A t \in todo : PagesBefore(n, t)
        /\ \A t \in todo : cur.start <= t.start /\ \A v \in segs \ todo : MergeBefore(v, t)
    BY <2>2 DEF MergeInv
  <2>5. \A t \in todo' : \A v \in segs' \ todo' : MergeBefore(v, t)
    BY <2>1, <2>2, <2>4
  <2>6. todo' \subseteq segs' /\ s \in segs' \ todo'
    BY <2>1, <2>2, <2>4
  <2> DEFINE A == AlignPhysStart(s)
             M == MergeDisjoint(cur, s)
  <2>7. /\ s.start \in Nat /\ s.size \in Nat /\ A.start \in Nat /\ A.size \in Nat /\ Merged(A)
        /\ s \in Segment /\ s.start + s.size + Page <= Word
        /\ A.start <= s.start /\ A.start + A.size = s.start + s.size
        /\ (s.size = 0 => A.size = 0)
    BY <2>4, AlignedSegment
  <2>8. CASE /\ Overlaps(AlignPhysStart(s), cur) /\ ~Overlaps(cur, s)
             /\ cur' = MergeDisjoint(cur, s) /\ newSegs' = newSegs
    <3>1. s.size > 0 /\ cur.size > 0 /\ cur.start + cur.size <= s.start /\ cur.start <= s.start
      BY <2>2, <2>4, <2>8, JoinFacts
    <3>2. cur \in Segment
      BY <2>4 DEF Merged
    <3>3. Merged(M) /\ M.start = cur.start /\ M.start + M.size = s.start + s.size
      BY <2>4, <2>7, <3>1, <3>2, MergeFacts
    <3>4. cur' = M
      BY <2>8
    <3> HIDE DEF M
    <3>5. \A n \in newSegs : PagesBefore(n, M)
      BY <2>4, <3>1, <3>3, PageEndFacts DEF PagesBefore
    <3>6. /\ Merged(cur') /\ cur'.start = cur.start
          /\ s.size > 0 /\ s.start >= cur'.start /\ s.start + s.size = cur'.start + cur'.size
      BY <3>1, <3>3, <3>4
    <3>7. \A t \in todo' : cur'.start <= t.start
      BY <2>1, <2>4, <3>6
    <3>8. \A n \in newSegs' : Merged(n) /\ PagesBefore(n, cur') /\ \A t \in todo' : PagesBefore(n, t)
      BY <2>1, <2>4, <2>8, <3>4, <3>5
    <3>9. \A n, m \in newSegs' : n # m => PagesBefore(n, m) \/ PagesBefore(m, n)
      BY <2>4, <2>8
    <3> QED
      BY <2>5, <2>6, <3>6, <3>7, <3>8, <3>9 DEF MergeInv, Merged, PagesBefore, PageEnd, MergeBefore
  <2>9. CASE /\ ~Overlaps(AlignPhysStart(s), cur)
             /\ newSegs' = newSegs \cup {cur} /\ cur' = AlignPhysStart(s)
    <3>1. /\ PagesBefore(cur, A)
          /\ \A t \in todo \ {s} : PagesBefore(cur, t)
          /\ \A n \in newSegs : PagesBefore(n, A)
      BY <2>1, <2>2, <2>9, PushFacts
    <3>2. cur' = A
      BY <2>9
    <3>3. \A t \in todo : A.start <= t.start
      <4> SUFFICES ASSUME NEW t \in todo PROVE A.start <= t.start
        OBVIOUS
      <4>1. t.start \in Nat /\ MergeBefore(s, t)
        BY <2>1, <2>4, WordAssumption DEF SegInv, Addr
      <4> HIDE DEF A
      <4> QED
        BY <2>7, <4>1 DEF MergeBefore
    <3> HIDE DEF A
    <3>4. \A n \in newSegs' : Merged(n) /\ PagesBefore(n, cur') /\ \A t \in todo' : PagesBefore(n, t)
      BY <2>1, <2>4, <2>9, <3>1, <3>2
    <3>5. \A n, m \in newSegs' : n # m => PagesBefore(n, m) \/ PagesBefore(m, n)
      BY <2>4, <2>9
    <3>6. Merged(cur') /\ \A t \in todo' : cur'.start <= t.start
      BY <2>1, <2>7, <3>2, <3>3
    <3>7. cur'.size > 0 => s.size > 0 /\ s.start >= cur'.start /\ s.start + s.size = cur'.start + cur'.size
      BY <2>7, <3>2
    <3> QED
      BY <2>5, <2>6, <3>4, <3>5, <3>6, <3>7 DEF MergeInv, Merged, PagesBefore, PageEnd, MergeBefore
  <2> QED
    BY <2>1, <2>8, <2>9
<1>6. CASE AlignSizes \/ CheckEntry \/ Stopped
  BY <1>1, <1>6 DEF AlignSizes, CheckEntry, Stopped, MergeInv
<1> QED
  BY <1>1, <1>2, <1>3, <1>4, <1>5, <1>6 DEF Next

\* The last loop of AlignAndMerge: full pages, and no byte of the segment is lost.
LEMMA AlignSizeFacts ==
    ASSUME NEW n, Merged(n)
    PROVE  LET a == AlignSize(n)
           IN  /\ a.start = n.start /\ a.start \in Nat /\ a.size \in Nat /\ a.start + a.size = PageEnd(n)
               /\ a.size >= n.size /\ (n.size = 0 => a.size = 0)
               /\ a.start % Page = 0 /\ a.size % Page = 0 /\ a.buf \in Seq(Bytes) /\ Len(a.buf) <= a.size
               /\ \A i \in 0..n.size - 1 : ByteAt(a, i) = ByteAt(n, i)
<1> DEFINE a == AlignSize(n)
           u == UpPage(n.size)
           b == Truncated(n)
<1>1. /\ n \in Segment /\ n.start \in Nat /\ n.size \in Nat /\ n.start % Page = 0
      /\ n.size + Page <= Word /\ Page \in Nat \ {0}
  <2>1. /\ n \in Segment /\ n.start \in Nat /\ n.size \in Nat /\ n.start % Page = 0
        /\ n.start + n.size + Page <= Word
    BY WordAssumption DEF Merged, Segment, Addr
  <2> QED
    BY <2>1, WordAssumption
<1>2. u \in Nat /\ n.size <= u /\ u % Page = 0 /\ (n.size % Page = 0 => u = n.size)
  BY <1>1, UpPageFacts
<1>3. /\ b \in Seq(Bytes) /\ Len(b) \in 0..n.size
      /\ \A i \in 0..n.size - 1 : ByteAt(n, i) = IF i < Len(b) THEN b[i + 1] ELSE Zero
  BY <1>1, TruncatedBytes
<1>4. a = [n EXCEPT !.buf = b, !.size = u]
  BY DEF AlignSize
<1>5. PageEnd(n) = n.start + u
  BY DEF PageEnd
<1> HIDE DEF u, b
<1>6. a.start = n.start /\ a.size = u /\ a.buf = b
  BY <1>1, <1>4 DEF Segment
<1> HIDE DEF a
<1>7. n.size = 0 => u = 0
  BY <1>1, <1>2
<1>8. Len(b) <= u
  BY <1>1, <1>2, <1>3
<1>9. \A i \in 0..n.size - 1 : ByteAt(a, i) = ByteAt(n, i)
  BY <1>3, <1>6 DEF ByteAt
<1> QED
  BY <1>1, <1>2, <1>3, <1>5, <1>6, <1>7, <1>8, <1>9 DEF a

\* What AlignAndMerge hands to the kernel.
LEMMA NextAccept ==
    ASSUME MergeInv, AcceptInv, [Next]_vars
    PROVE  AcceptInv'
<1>1. CASE pc' \notin {"check", "loaded"}
  BY <1>1 DEF AcceptInv
<1>2. CASE pc \in {"check", "loaded"} /\ newSegs' = newSegs
  BY <1>2 DEF AcceptInv, Apart
<1>3. CASE AlignSizes
  <2> DEFINE all == newSegs \cup (IF pc = "merge" THEN {cur} ELSE {})
  <2>1. newSegs' = {AlignSize(s) : s \in all}
    BY <1>3 DEF AlignSizes
  <2>2. /\ \A n \in all : Merged(n)
        /\ \A n, m \in all : n # m => PagesBefore(n, m) \/ PagesBefore(m, n)
    BY <1>3 DEF AlignSizes, MergeInv
  <2> HIDE DEF all
  <2>3. ASSUME NEW a \in newSegs'
        PROVE  /\ a.start \in Nat /\ a.size \in Nat /\ a.buf \in Seq(Bytes)
               /\ a.start % Page = 0 /\ a.size % Page = 0 /\ Len(a.buf) <= a.size
    BY <2>1, <2>2, AlignSizeFacts
  <2>4. ASSUME NEW a \in newSegs', NEW b \in newSegs', a # b
        PROVE  a.size = 0 \/ b.size = 0 \/ Apart(a, b)
    <3>1. PICK n \in all : a = AlignSize(n)
      BY <2>1
    <3>2. PICK m \in all : b = AlignSize(m)
      BY <2>1
    <3>3. Merged(n) /\ Merged(m) /\ (PagesBefore(n, m) \/ PagesBefore(m, n))
      BY <2>2, <2>4, <3>1, <3>2
    <3>4. a.start = n.start /\ a.start + a.size = PageEnd(n) /\ (n.size = 0 => a.size = 0)
      BY <3>1, <3>3, AlignSizeFacts
    <3>5. b.start = m.start /\ b.start + b.size = PageEnd(m) /\ (m.size = 0 => b.size = 0)
      BY <3>2, <3>3, AlignSizeFacts
    <3> QED
      BY <3>3, <3>4, <3>5 DEF PagesBefore, Apart
  <2> QED
    BY <2>3, <2>4 DEF AcceptInv, Apart
<1> QED
  BY <1>1, <1>2, <1>3 DEF Next, vars, Fail, EmptyBuffer, ParseMemoryMap, ReserveMemory, MemoryMapForOS, InsertSegment,
     StartFind, SubtractSegment, FindSpace, PlaceSegment, StartLoad, MergeFirst, MergeNext, CheckEntry,
     Stopped, Calling

\* What a segment holds is kept by one that begins with it, is as long or longer and
\* has the same bytes.
LEMMA HoldsFurther ==
    ASSUME NEW n, NEW m, NEW v, n.start \in Nat, n.size \in Nat, m.size \in Nat, v.start \in Nat, v.size \in Nat,
           Holds(n, v), m.start = n.start, n.size <= m.size,
           \A i \in 0..n.size - 1 : ByteAt(m, i) = ByteAt(n, i)
    PROVE  Holds(m, v)
<1>1. /\ n.start <= v.start /\ v.start + v.size <= n.start + n.size
      /\ \A i \in 0..v.size - 1 : ByteAt(n, v.start - n.start + i) = ByteAt(v, i)
  BY DEF Holds
<1>2. v.start + v.size <= m.start + m.size
  BY <1>1
<1>3. ASSUME NEW i \in 0..v.size - 1
      PROVE  ByteAt(m, v.start - m.start + i) = ByteAt(v, i)
  <2>1. v.start - n.start + i \in 0..n.size - 1
    BY <1>1
  <2>2. ByteAt(m, v.start - n.start + i) = ByteAt(n, v.start - n.start + i)
    BY <2>1
  <2>3. ByteAt(n, v.start - n.start + i) = ByteAt(v, i)
    BY <1>1
  <2> QED
    BY <2>2, <2>3
<1> QED
  BY <1>1, <1>2, <1>3 DEF Holds

\* AlignAndMerge loses no byte of any segment.
LEMMA NextHolds ==
    ASSUME NEW top, PageInv(top), MergeInv, HoldsInv, [Next]_vars
    PROVE  HoldsInv'
<1>0. \A v \in segs : v.start \in Nat /\ v.size \in Nat
  BY WordAssumption DEF PageInv, Segment, Addr
<1>1. CASE pc' \notin {"merge", "check", "loaded"}
  BY <1>1 DEF HoldsInv
<1>2. CASE pc \in {"check", "loaded"} /\ pc' # "merge" /\ newSegs' = newSegs /\ segs' = segs
  BY <1>2 DEF HoldsInv, Holds, ByteAt
<1>3. CASE UNCHANGED vars
  BY <1>3 DEF vars, HoldsInv, Holds, ByteAt
<1>4. CASE MergeFirst /\ pc' = "merge"
  <2>1. PICK s \in todo : cur' = AlignPhysStart(s) /\ todo' = todo \ {s}
    BY <1>4 DEF MergeFirst
  <2>2. todo = segs /\ segs' = segs
    BY <1>4 DEF MergeFirst, MergeInv
  <2>3. Holds(AlignPhysStart(s), s)
    BY <2>2, AlignedSegment
  <2>4. \A v \in segs' \ todo' : \E n \in newSegs' \cup {cur'} : Holds(n, v)
    BY <2>1, <2>2, <2>3
  <2> QED
    BY <1>4, <2>4 DEF HoldsInv, Holds, ByteAt
<1>5. CASE MergeNext /\ pc' = "merge"
  <2>1. PICK s \in todo :
           /\ todo' = todo \ {s}
           /\ \/ /\ Overlaps(AlignPhysStart(s), cur) /\ ~Overlaps(cur, s)
                 /\ cur' = MergeDisjoint(cur, s) /\ newSegs' = newSegs
              \/ newSegs' = newSegs \cup {cur} /\ cur' = AlignPhysStart(s)
    BY <1>5 DEF MergeNext
  <2>2. pc = "merge" /\ segs' = segs /\ todo \subseteq segs /\ Merged(cur)
    BY <1>5 DEF MergeNext, MergeInv
  <2>3. \A v \in segs \ todo : v.size > 0 => \E n \in newSegs \cup {cur} : Holds(n, v)
    BY <2>2 DEF HoldsInv
  <2>4. s \in Segment /\ s.start + s.size + Page <= Word /\ Holds(AlignPhysStart(s), s) /\ s.start \in Nat /\ s.size \in Nat
    BY <2>2, AlignedSegment
  <2>5. CASE newSegs' = newSegs \cup {cur} /\ cur' = AlignPhysStart(s)
    <3>1. \A v \in segs' \ todo' : v.size > 0 => \E n \in newSegs' \cup {cur'} : Holds(n, v)
      BY <2>1, <2>2, <2>3, <2>4, <2>5
    <3> QED
      BY <1>5, <3>1 DEF HoldsInv, Holds, ByteAt
  <2>6. CASE /\ Overlaps(AlignPhysStart(s), cur) /\ ~Overlaps(cur, s)
             /\ cur' = MergeDisjoint(cur, s) /\ newSegs' = newSegs
    <3> DEFINE M == MergeDisjoint(cur, s)
    <3>1. s.size > 0 /\ cur.size > 0 /\ cur.start + cur.size <= s.start
      BY <2>2, <2>6, JoinFacts
    <3>2. cur \in Segment /\ cur.start \in Nat /\ cur.size \in Nat
      BY <2>2, PageEndFacts DEF Merged
    <3>3. /\ Merged(M) /\ M.start = cur.start /\ M.start + M.size = s.start + s.size
          /\ \A i \in 0..cur.size - 1 : ByteAt(M, i) = ByteAt(cur, i)
          /\ \A i \in 0..s.size - 1 : ByteAt(M, s.start - cur.start + i) = ByteAt(s, i)
      BY <2>2, <2>4, <3>1, <3>2, MergeFacts
    <3>4. M.size \in Nat
      BY <3>3, PageEndFacts
    <3>5. cur' = M
      BY <2>6
    <3> HIDE DEF M
    <3>6. cur.size <= M.size /\ M.start <= s.start
      <4>1. M.start + M.size = s.start + s.size /\ M.start = cur.start
        BY <3>3
      <4> QED
        BY <2>4, <3>1, <3>2, <3>4, <4>1
    <3>7. Holds(M, s)
      BY <3>3, <3>6, <2>4, <3>2, <3>4 DEF Holds
    <3>8. ASSUME NEW v \in segs, Holds(cur, v) PROVE Holds(M, v)
      BY <1>0, <3>2, <3>3, <3>4, <3>6, <3>8, HoldsFurther
    <3>9. \A v \in segs' \ todo' : v.size > 0 => \E n \in newSegs' \cup {cur'} : Holds(n, v)
      BY <2>1, <2>2, <2>3, <2>6, <3>5, <3>7, <3>8
    <3> QED
      BY <1>5, <3>9 DEF HoldsInv, Holds, ByteAt
  <2> QED
    BY <2>1, <2>5, <2>6
<1>6. CASE AlignSizes
  <2> DEFINE all == newSegs \cup (IF pc = "merge" THEN {cur} ELSE {})
  <2>1. newSegs' = {AlignSize(n) : n \in all} /\ pc' = "check" /\ segs' = segs
    BY <1>6 DEF AlignSizes
  <2>2. \A n \in all : Merged(n)
    BY <1>6 DEF AlignSizes, MergeInv
  <2>3. \A v \in segs : v.size > 0 => \E n \in all : Holds(n, v)
    BY <1>6 DEF AlignSizes, MergeInv, HoldsInv
  <2> HIDE DEF all
  <2>4. ASSUME NEW v \in segs, NEW n \in all, Holds(n, v) PROVE Holds(AlignSize(n), v)
    <3> DEFINE a == AlignSize(n)
    <3>1. Merged(n) /\ n.start \in Nat /\ n.size \in Nat
      BY <2>2, PageEndFacts
    <3>2. /\ a.start = n.start /\ a.size \in Nat /\ n.size <= a.size
          /\ \A i \in 0..n.size - 1 : ByteAt(a, i) = ByteAt(n, i)
      BY <3>1, AlignSizeFacts
    <3> HIDE DEF a
    <3>3. Holds(a, v)
      BY <1>0, <2>4, <3>1, <3>2, HoldsFurther
    <3> QED
      BY <3>3 DEF a
  <2>5. \A v \in segs' : v.size > 0 => \E n \in newSegs' : Holds(n, v)
    BY <2>1, <2>3, <2>4
  <2> QED
    BY <2>1, <2>5 DEF HoldsInv, Holds, ByteAt
<1> QED
  BY <1>1, <1>2, <1>3, <1>4, <1>5, <1>6 DEF Next, Fail, EmptyBuffer, ParseMemoryMap, ReserveMemory, MemoryMapForOS, InsertSegment,
     StartFind, SubtractSegment, FindSpace, PlaceSegment, StartLoad, MergeFirst, MergeNext, CheckEntry,
     Stopped, Calling

LoadInv(top) ==
    /\ KInv(top) /\ CallsInv /\ OrderInv /\ ClearInv
    /\ PageInv(top) /\ MergeInv /\ AcceptInv /\ HoldsInv

\* Placing, aligning and merging keep all of it.
LEMMA LoadInvariance ==
    ASSUME NEW top, PagedMachine(top), \A p \in Programs : InOrder(p)
    PROVE  Spec => []LoadInv(top)
<1>0. Machine(top)
  BY DEF PagedMachine
<1>1. Init => LoadInv(top)
  <2> SUFFICES ASSUME Init PROVE LoadInv(top)
    OBVIOUS
  <2>1. KInv(top)
    BY <1>0 DEF Init, KInv, PhysInv, SegInv, RamInv, FoundInv, SetupInv, Machine
  <2>2. ClearInv
    BY DEF Init, ClearInv
  <2>3. PageInv(top)
    BY DEF Init, PageInv, PagedMachine
  <2>4. MergeInv /\ AcceptInv /\ HoldsInv
    BY DEF Init, MergeInv, AcceptInv, HoldsInv
  <2> QED
    BY <2>1, <2>2, <2>3, <2>4, InitOrder DEF LoadInv
<1>2. LoadInv(top) /\ [Next]_vars => LoadInv(top)'
  <2> SUFFICES ASSUME LoadInv(top), [Next]_vars PROVE LoadInv(top)'
    OBVIOUS
  <2>0. /\ KInv(top) /\ CallsInv /\ OrderInv /\ ClearInv /\ SegInv
        /\ PageInv(top) /\ MergeInv /\ AcceptInv /\ HoldsInv
    BY DEF LoadInv, KInv
  <2>1. KInv(top)' /\ CallsInv' /\ OrderInv' /\ ClearInv'
    BY <1>0, <2>0, NextKInv, NextOrder, NextClear
  <2>2. PageInv(top)' /\ MergeInv'
    BY <2>0, NextPage, NextMerge
  <2>3. AcceptInv' /\ HoldsInv'
    BY <2>0, NextAccept, NextHolds
  <2> QED
    BY <2>1, <2>2, <2>3 DEF LoadInv
<1> QED
  BY <1>1, <1>2, PTL DEF Spec

\* AlignAndMerge hands the kernel full pages that do not overlap, for every memory
\* map and every loader that asks for whole pages and makes its calls in order.
THEOREM KernelAcceptsSegments ==
    ASSUME NEW top, PagedMachine(top), \A p \in Programs : InOrder(p)
    PROVE  Spec => []KernelAccepts
<1>1. LoadInv(top) => KernelAccepts
  <2> SUFFICES ASSUME AcceptInv, pc \in {"check", "loaded"}
               PROVE  /\ \A s \in newSegs : s.start % Page = 0 /\ s.size % Page = 0 /\ Len(s.buf) <= s.size
                      /\ \A s, t \in newSegs : s # t => Points(s) \cap Points(t) = {}
    BY DEF KernelAccepts, LoadInv
  <2>1. ASSUME NEW s \in newSegs, NEW t \in newSegs, s # t PROVE Points(s) \cap Points(t) = {}
    <3>1. /\ s.start \in Nat /\ s.size \in Nat /\ t.start \in Nat /\ t.size \in Nat
          /\ (s.size = 0 \/ t.size = 0 \/ Apart(s, t))
      BY <2>1 DEF AcceptInv
    <3> QED
      BY <3>1, WordAssumption DEF Points, Apart, Addr
  <2> QED
    BY <2>1 DEF AcceptInv
<1> QED
  BY <1>1, LoadInvariance, PTL

\* Every segment arrives at its physical address, its data first and zeros up to its
\* size, whatever it was merged with, for the same machines and loaders.
THEOREM BytesAreLoaded ==
    ASSUME NEW top, PagedMachine(top), \A p \in Programs : InOrder(p)
    PROVE  Spec => []BytesArrive
<1>1. LoadInv(top) => BytesArrive
  <2> SUFFICES ASSUME PageInv(top), AcceptInv, HoldsInv, pc \in {"check", "loaded"},
                      NEW s \in segs, NEW a \in Points(s)
               PROVE  Loaded(a) = {IF a - s.start < Len(s.buf) THEN Byte(s.id, a - s.start + 1) ELSE Zero}
    BY DEF BytesArrive, LoadInv
  <2>1. s.start \in Nat /\ s.size \in Nat /\ s.buf \in Seq(Bytes) /\ \A k \in 1..Len(s.buf) : s.buf[k] = Byte(s.id, k)
    BY WordAssumption DEF PageInv, Segment, Addr
  <2>2. a \in Nat /\ a \in Addr /\ s.start <= a /\ a < s.start + s.size
    BY WordAssumption DEF Points, Addr
  <2> DEFINE i == a - s.start
  <2>3. i \in 0..s.size - 1 /\ i \in Nat /\ a = s.start + i /\ s.size > 0
    BY <2>1, <2>2
  <2>4. PICK n \in newSegs : Holds(n, s)
    BY <2>3 DEF HoldsInv
  <2>5. \A m \in newSegs : m.start \in Nat /\ m.size \in Nat
    BY DEF AcceptInv
  <2>6. n.start <= s.start /\ s.start + s.size <= n.start + n.size
    BY <2>4 DEF Holds
  <2>7. a \in Points(n)
    BY <2>1, <2>2, <2>5, <2>6 DEF Points
  <2>8. ASSUME NEW m \in newSegs, a \in Points(m) PROVE m = n
    <3>1. m # n => m.size = 0 \/ n.size = 0 \/ Apart(m, n)
      BY DEF AcceptInv
    <3>2. m.start <= a /\ a < m.start + m.size /\ n.start <= a /\ a < n.start + n.size
      BY <2>7, <2>8 DEF Points
    <3> QED
      BY <2>2, <2>5, <3>1, <3>2 DEF Apart
  <2>9. Loaded(a) = {ByteAt(n, a - n.start)}
    BY <2>7, <2>8 DEF Loaded, ByteAt
  <2>10. a - n.start = s.start - n.start + i
    BY <2>1, <2>2, <2>5
  <2>11. ByteAt(n, s.start - n.start + i) = ByteAt(s, i)
    BY <2>3, <2>4 DEF Holds
  <2>12. ByteAt(s, i) = IF i < Len(s.buf) THEN Byte(s.id, i + 1) ELSE Zero
    <3>1. Len(s.buf) \in Nat
      BY <2>1
    <3>2. i < Len(s.buf) => i + 1 \in 1..Len(s.buf)
      BY <2>3, <3>1
    <3> QED
      BY <2>1, <3>2 DEF ByteAt
  <2> QED
    BY <2>9, <2>10, <2>11, <2>12
<1> QED
  BY <1>1, LoadInvariance, PTL

-----------------------------------------------------------------------------
(***************************************************************************)
(* The loaders of pkg/boot make their calls in order.                      *)
(***************************************************************************)

\* The program headers of a kernel.
Elf == {e \in Seq(Calls) : \A k \in DOMAIN e : e[k].op = "insert"}

\* The lengths of an initramfs.
Files == Addr \cup {EmptyFile}

Loaders ==
    {Arm64(reserved, len, image, text, ramfs, dtb) :
        reserved \in Seq(Ranges), len, image, text, dtb \in Addr, ramfs \in Files}
      \cup {Amd64(elf, ramfs, cmdline, param, purgatory) :
               elf \in Elf, ramfs \in Files, cmdline, param \in Addr, purgatory \in Ranges}
      \cup {Multiboot(elf, ibft, mmap, modules, info) : elf \in Elf, ibft, mmap, modules, info \in Addr}
      \cup {EsxBootInfo(elf, ibft, modules, info) : elf \in Elf, ibft, modules, info \in Addr}
      \cup {Uefi(base, len, entry, config) : base, len, entry, config \in Addr}

\* A part of a loader, with the operations that it uses: only the arm64 kernel has
\* an offset.
Part(p, ops) ==
    /\ p \in Seq(Calls) /\ InOrder(p)
    /\ \A k \in DOMAIN p : p[k].op \in ops /\ (p[k].op = "add" => p[k].off = 0)

\* d may come after c.
Fits(c, d) ==
    /\ c.op \in {"add", "phys"} => d.op # "insert"
    /\ c.op \in {"insert", "add", "phys"} /\ d.op = "add" => d.off = 0
    /\ c.op = "tell" => d.op \notin {"parse", "carve", "phys"}

\* Two parts that fit, one after the other.
LEMMA ConcatInOrder ==
    ASSUME NEW p \in Seq(Calls), NEW q \in Seq(Calls), InOrder(p), InOrder(q),
           \A j \in DOMAIN p, k \in DOMAIN q : Fits(p[j], q[k])
    PROVE  /\ p \o q \in Seq(Calls) /\ InOrder(p \o q)
           /\ \A k \in DOMAIN (p \o q) : \/ \E j \in DOMAIN p : (p \o q)[k] = p[j]
                                         \/ \E j \in DOMAIN q : (p \o q)[k] = q[j]
<1> DEFINE r == p \o q
<1>1. /\ r \in Seq(Calls) /\ Len(p) \in Nat /\ Len(q) \in Nat /\ Len(r) = Len(p) + Len(q)
      /\ DOMAIN p = 1..Len(p) /\ DOMAIN q = 1..Len(q) /\ DOMAIN r = 1..(Len(p) + Len(q))
  OBVIOUS
<1>2. /\ \A k \in 1..Len(p) : r[k] = p[k]
      /\ \A k \in 1..Len(q) : r[Len(p) + k] = q[k]
  OBVIOUS
<1> HIDE DEF r
<1>3. ASSUME NEW k \in DOMAIN r
      PROVE  \/ k \in DOMAIN p /\ r[k] = p[k]
             \/ /\ k > Len(p) /\ k - Len(p) \in DOMAIN q
                /\ r[k] = q[k - Len(p)]
  <2>1. CASE k <= Len(p)
    BY <1>1, <1>2, <2>1
  <2>2. CASE k > Len(p)
    <3>1. PICK i \in 1..Len(q) : i = k - Len(p)
      BY <1>1, <2>2
    <3>2. k = Len(p) + i
      BY <1>1, <3>1
    <3> QED
      BY <1>1, <1>2, <2>2, <3>1, <3>2
  <2> QED
    BY <1>1, <2>1, <2>2
<1>4. InOrder(r)
  <2> SUFFICES ASSUME NEW j \in DOMAIN r, NEW k \in DOMAIN r, j < k PROVE Fits(r[j], r[k])
    BY DEF InOrder, Fits
  <2>0. j \in Nat /\ k \in Nat
    BY <1>1
  <2>1. CASE j \in DOMAIN p /\ r[j] = p[j] /\ k \in DOMAIN p /\ r[k] = p[k]
    BY <2>1 DEF InOrder, Fits
  <2>2. CASE j \in DOMAIN p /\ r[j] = p[j] /\ k - Len(p) \in DOMAIN q /\ r[k] = q[k - Len(p)]
    BY <2>2
  <2>3. CASE j > Len(p) /\ j - Len(p) \in DOMAIN q /\ r[j] = q[j - Len(p)]
    <3>1. k - Len(p) \in DOMAIN q /\ r[k] = q[k - Len(p)]
      BY <1>1, <1>3, <2>0, <2>3
    <3>2. j - Len(p) < k - Len(p)
      BY <1>1, <2>0
    <3> QED
      BY <2>3, <3>1, <3>2 DEF InOrder, Fits
  <2> QED
    BY <1>3, <2>1, <2>2, <2>3
<1> QED
  BY <1>1, <1>3, <1>4 DEF r

\* The operations decide whether two parts fit.
LEMMA ConcatParts ==
    ASSUME NEW p, NEW q, NEW P, NEW Q, Part(p, P), Part(q, Q),
           "insert" \in Q => "add" \notin P /\ "phys" \notin P,
           "tell" \in P => "parse" \notin Q /\ "carve" \notin Q /\ "phys" \notin Q
    PROVE  Part(p \o q, P \cup Q)
<1>1. \A j \in DOMAIN p, k \in DOMAIN q : Fits(p[j], q[k])
  BY DEF Part, Fits
<1>2. /\ p \o q \in Seq(Calls) /\ InOrder(p \o q)
      /\ \A k \in DOMAIN (p \o q) : \/ \E j \in DOMAIN p : (p \o q)[k] = p[j]
                                    \/ \E j \in DOMAIN q : (p \o q)[k] = q[j]
  BY <1>1, ConcatInOrder DEF Part
<1> QED
  BY <1>2 DEF Part

\* The calls that the parts are made of.
LEMMA CallFacts ==
    ASSUME NEW len \in Addr, NEW limit \in Ranges, NEW e \in Addr \cup {-1}
    PROVE  /\ Parse \in Calls /\ Tell \in Calls /\ Parse.op = "parse" /\ Tell.op = "tell"
           /\ Add(len) \in Calls /\ Add(len).op = "add" /\ Add(len).off = 0
           /\ AddPhys(len, limit) \in Calls /\ AddPhys(len, limit).op = "phys"
           /\ Load(e) \in Calls /\ Load(e).op = "load"
<1>1. Page \in Addr /\ 0 \in Addr
  BY WordAssumption DEF Addr
<1> QED
  BY <1>1 DEF Parse, Tell, Add, Explicit, AddPhys, Load, Calls

\* The call for an initramfs.
LEMMA FileFacts ==
    ASSUME NEW n \in Files
    PROVE  AddFile(n) \in Calls /\ AddFile(n).op \in {"add", "empty"} /\ (AddFile(n).op = "add" => AddFile(n).off = 0)
<1>1. CASE n = EmptyFile
  BY <1>1 DEF AddFile, Calls
<1>2. CASE n # EmptyFile
  BY <1>2, KexecAssumption, CallFacts DEF AddFile, Files
<1> QED
  BY <1>1, <1>2

\* Lists of up to three calls.
LEMMA ShortParts ==
    ASSUME NEW P
    PROVE  /\ Part(<<>>, P)
           /\ \A a \in Calls : a.op \in P /\ (a.op = "add" => a.off = 0) => Part(<<a>>, P)
           /\ \A a, b \in Calls : /\ a.op \in P /\ (a.op = "add" => a.off = 0)
                                 /\ b.op \in P /\ (b.op = "add" => b.off = 0)
                                 /\ Fits(a, b) => Part(<<a, b>>, P)
           /\ \A a, b, c \in Calls : /\ a.op \in P /\ (a.op = "add" => a.off = 0)
                                    /\ b.op \in P /\ (b.op = "add" => b.off = 0)
                                    /\ c.op \in P /\ (c.op = "add" => c.off = 0)
                                    /\ Fits(a, b) /\ Fits(a, c) /\ Fits(b, c) => Part(<<a, b, c>>, P)
<1>1. Part(<<>>, P)
  BY DEF Part, InOrder
<1>2. ASSUME NEW a \in Calls, a.op \in P, a.op = "add" => a.off = 0 PROVE Part(<<a>>, P)
  BY <1>2 DEF Part, InOrder
<1>3. ASSUME NEW a \in Calls, a.op \in P, a.op = "add" => a.off = 0,
             NEW b \in Calls, b.op \in P, b.op = "add" => b.off = 0, Fits(a, b)
      PROVE  Part(<<a, b>>, P)
  BY <1>3 DEF Part, InOrder, Fits
<1>4. ASSUME NEW a \in Calls, a.op \in P, a.op = "add" => a.off = 0,
             NEW b \in Calls, b.op \in P, b.op = "add" => b.off = 0,
             NEW c \in Calls, c.op \in P, c.op = "add" => c.off = 0, Fits(a, b), Fits(a, c), Fits(b, c)
      PROVE  Part(<<a, b, c>>, P)
  BY <1>4 DEF Part, InOrder, Fits
<1> QED
  BY <1>1, <1>2, <1>3, <1>4

\* A multiboot kernel and one with an esxBootInfo header: the iBFT is reserved before
\* the memory map is written.
LEMMA MultibootInOrder ==
    ASSUME NEW elf \in Elf, NEW ibft \in Addr, NEW mmap \in Addr, NEW modules \in Addr, NEW info \in Addr
    PROVE  InOrder(Multiboot(elf, ibft, mmap, modules, info)) /\ InOrder(EsxBootInfo(elf, ibft, modules, info))
<1> DEFINE head == elf \o <<Parse>>
           opt == IF ibft = 0 THEN <<>> ELSE <<AddPhys(ibft, IbftRange)>>
           map == <<Tell, Add(mmap)>>
           mods == IF modules = 0 THEN <<>> ELSE <<Add(modules), Add(1)>>
           last == <<Add(info), Add(1), Load(LastAdded)>>
           esx == <<Tell, Add(modules), Add(info), Add(1), Load(LastAdded)>>
<1>0. 1 \in Addr /\ LastAdded \in Addr \cup {-1} /\ IbftRange \in Ranges
  BY WordAssumption, KexecAssumption DEF LastAdded, Addr
<1>1. /\ Parse \in Calls /\ Tell \in Calls /\ Parse.op = "parse" /\ Tell.op = "tell"
      /\ \A l \in Addr : Add(l) \in Calls /\ Add(l).op = "add" /\ Add(l).off = 0
      /\ AddPhys(ibft, IbftRange) \in Calls /\ AddPhys(ibft, IbftRange).op = "phys"
      /\ Load(LastAdded) \in Calls /\ Load(LastAdded).op = "load"
  BY <1>0, CallFacts
<1>2. Part(elf, {"insert"}) /\ Part(<<Parse>>, {"parse"})
  <2>1. Part(elf, {"insert"})
    BY DEF Elf, Part, InOrder
  <2> QED
    BY <1>1, <2>1, ShortParts
<1>3. Part(head, {"insert", "parse"})
  <2>1. Part(head, {"insert"} \cup {"parse"})
    BY <1>2, ConcatParts
  <2>2. {"insert"} \cup {"parse"} = {"insert", "parse"}
    OBVIOUS
  <2> QED
    BY <2>1, <2>2
<1>4. Part(opt, {"phys"})
  BY <1>1, ShortParts
<1>5. Part(map, {"tell", "add"})
  <2>1. Fits(Tell, Add(mmap)) /\ Tell.op = "tell" /\ Add(mmap).op = "add" /\ Add(mmap).off = 0 /\ Add(mmap) \in Calls
    BY <1>1 DEF Fits
  <2> QED
    BY <1>1, <2>1, ShortParts
<1>6. Part(mods, {"add"})
  <2>1. /\ Fits(Add(modules), Add(1)) /\ Add(modules).op = "add" /\ Add(modules).off = 0 /\ Add(modules) \in Calls
        /\ Add(1).op = "add" /\ Add(1).off = 0 /\ Add(1) \in Calls
    BY <1>0, <1>1 DEF Fits
  <2>2. Part(<<Add(modules), Add(1)>>, {"add"})
    BY <2>1, ShortParts
  <2> QED
    BY <2>2, ShortParts
<1>7. Part(last, {"add", "load"})
  <2>1. /\ Add(info) \in Calls /\ Add(info).op = "add" /\ Add(info).off = 0
        /\ Add(1) \in Calls /\ Add(1).op = "add" /\ Add(1).off = 0
        /\ Load(LastAdded) \in Calls /\ Load(LastAdded).op = "load"
    BY <1>0, <1>1
  <2>2. Fits(Add(info), Add(1)) /\ Fits(Add(info), Load(LastAdded)) /\ Fits(Add(1), Load(LastAdded))
    BY <2>1 DEF Fits
  <2> QED
    BY <2>1, <2>2, ShortParts
<1>8. Multiboot(elf, ibft, mmap, modules, info) = (((head \o opt) \o map) \o mods) \o last
  BY DEF Multiboot
<1>9. EsxBootInfo(elf, ibft, modules, info) = (head \o opt) \o esx
  BY DEF EsxBootInfo
<1>10. Part(esx, {"tell", "add", "load"})
  <2>1. /\ Add(modules) \in Calls /\ Add(modules).op = "add" /\ Add(modules).off = 0
        /\ Add(info) \in Calls /\ Add(info).op = "add" /\ Add(info).off = 0
        /\ Add(1) \in Calls /\ Add(1).op = "add" /\ Add(1).off = 0
        /\ Tell \in Calls /\ Tell.op = "tell"
        /\ Load(LastAdded) \in Calls /\ Load(LastAdded).op = "load"
    BY <1>0, <1>1
  <2>2. esx \in Seq(Calls) /\ DOMAIN esx = 1..5
    BY <2>1
  <2> QED
    BY <2>1, <2>2 DEF Part, InOrder
<1> HIDE DEF head, opt, map, mods, last, esx
<1>11. Part(head \o opt, {"insert", "parse"} \cup {"phys"})
  BY <1>3, <1>4, ConcatParts
<1> DEFINE one == {"insert", "parse"} \cup {"phys"}
           two == one \cup {"tell", "add"}
           three == two \cup {"add"}
<1>12. Part((head \o opt) \o map, two)
  BY <1>5, <1>11, ConcatParts
<1>13. Part(((head \o opt) \o map) \o mods, three)
  BY <1>6, <1>12, ConcatParts
<1>14. Part((((head \o opt) \o map) \o mods) \o last, three \cup {"add", "load"})
  BY <1>7, <1>13, ConcatParts
<1>15. Part((head \o opt) \o esx, one \cup {"tell", "add", "load"})
  BY <1>10, <1>11, ConcatParts
<1> QED
  BY <1>8, <1>9, <1>14, <1>15 DEF Part

\* arm64: only the kernel has an offset, and it is the first segment.
LEMMA Arm64InOrder ==
    ASSUME NEW reserved \in Seq(Ranges), NEW len \in Addr, NEW image \in Addr, NEW text \in Addr,
           NEW ramfs \in Files, NEW dtb \in Addr
    PROVE  InOrder(Arm64(reserved, len, image, text, ramfs, dtb))
<1> DEFINE carves == [k \in DOMAIN reserved |-> Carve(reserved[k])]
           kernel == Explicit(len, Wrap(image + text), text, KernelAlign)
           rest == <<kernel, AddFile(ramfs), Add(dtb), Add(1), Load(LastAdded)>>
<1>0. 1 \in Addr /\ LastAdded \in Addr \cup {-1} /\ Wrap(image + text) \in Addr /\ KernelAlign \in Addr
  BY WordAssumption, KexecAssumption DEF LastAdded, Addr, Wrap
<1>1. /\ Parse \in Calls /\ Parse.op = "parse"
      /\ \A l \in Addr : Add(l) \in Calls /\ Add(l).op = "add" /\ Add(l).off = 0
      /\ Load(LastAdded) \in Calls /\ Load(LastAdded).op = "load"
  BY <1>0, KexecAssumption, CallFacts
<1>2. Part(<<Parse>>, {"parse"})
  BY <1>1, ShortParts
<1>3. Part(carves, {"carve"})
  <2>1. \A r \in Ranges : Carve(r) \in Calls /\ Carve(r).op = "carve"
    BY DEF Carve, Calls, Ranges
  <2>2. carves \in Seq(Calls) /\ \A k \in DOMAIN carves : carves[k].op = "carve"
    <3>1. Len(reserved) \in Nat /\ DOMAIN reserved = 1..Len(reserved) /\ \A k \in DOMAIN reserved : reserved[k] \in Ranges
      OBVIOUS
    <3> QED
      BY <2>1, <3>1
  <2> QED
    BY <2>2 DEF Part, InOrder
<1>4. rest \in Seq(Calls) /\ InOrder(rest)
  <2>1. kernel \in Calls /\ kernel.op = "add"
    BY <1>0 DEF Explicit, Calls
  <2> HIDE DEF kernel
  <2>2. /\ AddFile(ramfs) \in Calls /\ AddFile(ramfs).op \in {"add", "empty"}
        /\ (AddFile(ramfs).op = "add" => AddFile(ramfs).off = 0)
        /\ Add(dtb) \in Calls /\ Add(dtb).op = "add" /\ Add(dtb).off = 0
        /\ Add(1) \in Calls /\ Add(1).op = "add" /\ Add(1).off = 0
        /\ Load(LastAdded) \in Calls /\ Load(LastAdded).op = "load"
    BY <1>0, <1>1, FileFacts
  <2>3. rest \in Seq(Calls) /\ DOMAIN rest = 1..5
    BY <2>1, <2>2
  <2> QED
    BY <2>1, <2>2, <2>3 DEF InOrder
<1>5. Arm64(reserved, len, image, text, ramfs, dtb) = (<<Parse>> \o carves) \o rest
  BY DEF Arm64
<1> HIDE DEF carves, rest
<1>6. Part(<<Parse>> \o carves, {"parse"} \cup {"carve"})
  BY <1>2, <1>3, ConcatParts
<1> DEFINE head == <<Parse>> \o carves
<1>7. head \in Seq(Calls) /\ InOrder(head) /\ \A j \in DOMAIN head : head[j].op \in {"parse", "carve"}
  BY <1>6 DEF Part
<1> HIDE DEF head
<1>8. \A j \in DOMAIN head, k \in DOMAIN rest : Fits(head[j], rest[k])
  BY <1>7 DEF Fits
<1>9. InOrder(head \o rest)
  BY <1>4, <1>7, <1>8, ConcatInOrder
<1> QED
  BY <1>5, <1>9 DEF head

\* amd64: nothing at a fixed address once the initramfs is placed.
LEMMA Amd64InOrder ==
    ASSUME NEW elf \in Elf, NEW ramfs \in Files, NEW cmdline \in Addr, NEW param \in Addr, NEW purgatory \in Ranges
    PROVE  InOrder(Amd64(elf, ramfs, cmdline, param, purgatory))
<1> DEFINE u == UpPage(purgatory.size)
           initrd == IF ramfs = 0 THEN <<>> ELSE <<AddFile(ramfs)>>
           line == IF cmdline = 0 THEN <<>> ELSE <<Add(cmdline)>>
           l1 == RangeFromInterval(SetupAddr, param)
           l2 == RangeFromInterval(purgatory.start, Wrap(purgatory.start + u))
           last == <<AddPhys(param, l1), AddPhys(u, l2), Load(purgatory.start)>>
<1>0. purgatory.start \in Addr /\ purgatory.size \in Addr /\ SetupAddr \in Addr
  BY KexecAssumption DEF Ranges
<1>1. u \in Addr
  BY <1>0, WordAssumption, UpType DEF UpPage, Addr
<1>2. Amd64(elf, ramfs, cmdline, param, purgatory) = (((<<Parse>> \o elf) \o initrd) \o line) \o last
  BY DEF Amd64
<1> HIDE DEF u
<1>3. \A a, b \in Addr : RangeFromInterval(a, b) \in Ranges /\ Wrap(a + b) \in Addr
  BY WordAssumption DEF RangeFromInterval, Wrap, Ranges, Addr
<1>4. l1 \in Ranges /\ l2 \in Ranges
  BY <1>0, <1>1, <1>3
<1> HIDE DEF l1, l2
<1>5. /\ Parse \in Calls /\ Parse.op = "parse"
      /\ \A l \in Addr : Add(l) \in Calls /\ Add(l).op = "add" /\ Add(l).off = 0
      /\ AddPhys(param, l1) \in Calls /\ AddPhys(param, l1).op = "phys"
      /\ AddPhys(u, l2) \in Calls /\ AddPhys(u, l2).op = "phys"
      /\ Load(purgatory.start) \in Calls /\ Load(purgatory.start).op = "load"
  BY <1>0, <1>1, <1>4, CallFacts
<1>6. Part(<<Parse>>, {"parse"})
  BY <1>5, ShortParts
<1>7. Part(elf, {"insert"})
  BY DEF Elf, Part, InOrder
<1>8. Part(initrd, {"add", "empty"}) /\ Part(line, {"add"})
  BY <1>5, ShortParts, FileFacts
<1>9. Part(last, {"phys", "load"})
  <2>1. /\ Fits(AddPhys(param, l1), AddPhys(u, l2)) /\ Fits(AddPhys(param, l1), Load(purgatory.start))
        /\ Fits(AddPhys(u, l2), Load(purgatory.start))
    BY <1>5 DEF Fits
  <2> QED
    BY <1>5, <2>1, ShortParts
<1> HIDE DEF initrd, line, last
<1> DEFINE one == {"parse"} \cup {"insert"}
           two == one \cup {"add", "empty"}
           three == two \cup {"add"}
<1>10. Part(<<Parse>> \o elf, one)
  BY <1>6, <1>7, ConcatParts
<1>11. Part((<<Parse>> \o elf) \o initrd, two)
  BY <1>8, <1>10, ConcatParts
<1>12. Part(((<<Parse>> \o elf) \o initrd) \o line, three)
  BY <1>8, <1>11, ConcatParts
<1>13. Part((((<<Parse>> \o elf) \o initrd) \o line) \o last, three \cup {"phys", "load"})
  BY <1>9, <1>12, ConcatParts
<1> QED
  BY <1>2, <1>13 DEF Part

\* A UEFI payload: both segments are at fixed addresses.
LEMMA UefiInOrder ==
    ASSUME NEW base \in Addr, NEW len \in Addr, NEW entry \in Addr, NEW config \in Addr
    PROVE  InOrder(Uefi(base, len, entry, config))
<1> DEFINE below == Wrap(base - ConfigSize)
           at == Wrap(base + entry)
           first == <<InsertAt(base, len, len), Parse, Tell>>
           second == <<InsertAt(below, config, config), Load(at)>>
<1>0. below \in Addr /\ at \in Addr
  BY WordAssumption, KexecAssumption DEF Wrap, Addr
<1>1. Uefi(base, len, entry, config) = first \o (IF config > ConfigSize THEN <<>> ELSE second)
  BY DEF Uefi
<1> HIDE DEF below, at
<1>2. /\ Parse \in Calls /\ Tell \in Calls /\ Parse.op = "parse" /\ Tell.op = "tell"
      /\ Load(at) \in Calls /\ Load(at).op = "load"
  BY <1>0, KexecAssumption, CallFacts
<1>3. /\ InsertAt(base, len, len) \in Calls /\ InsertAt(base, len, len).op = "insert"
      /\ InsertAt(below, config, config) \in Calls /\ InsertAt(below, config, config).op = "insert"
  BY <1>0 DEF InsertAt, Calls
<1>4. Part(first, {"insert", "parse", "tell"})
  <2>1. Fits(InsertAt(base, len, len), Parse) /\ Fits(InsertAt(base, len, len), Tell) /\ Fits(Parse, Tell)
    BY <1>2, <1>3 DEF Fits
  <2> QED
    BY <1>2, <1>3, <2>1, ShortParts
<1>5. Part(second, {"insert", "load"})
  <2>1. Fits(InsertAt(below, config, config), Load(at))
    BY <1>2, <1>3 DEF Fits
  <2> QED
    BY <1>2, <1>3, <2>1, ShortParts
<1> HIDE DEF first, second
<1>6. CASE config > ConfigSize
  <2>1. Part(first \o <<>>, {"insert", "parse", "tell"} \cup {"load"})
    BY <1>4, ShortParts, ConcatParts
  <2> QED
    BY <1>1, <1>6, <2>1 DEF Part
<1>7. CASE ~(config > ConfigSize)
  <2>1. Part(first \o second, {"insert", "parse", "tell"} \cup {"insert", "load"})
    BY <1>4, <1>5, ConcatParts
  <2> QED
    BY <1>1, <1>7, <2>1 DEF Part
<1> QED
  BY <1>6, <1>7

\* What the theorems ask of a loader is what the loaders do: fixed addresses come
\* first, only the very first segment has an offset, and the memory map is not
\* changed once it has been written for the operating system.
THEOREM LoadersInOrder == \A p \in Loaders : InOrder(p)
  BY Arm64InOrder, Amd64InOrder, MultibootInOrder, UefiInOrder DEF Loaders

-----------------------------------------------------------------------------
(***************************************************************************)
(* What the loaders have to be given: the same results, in terms of the    *)
(* files that are loaded and of the machine.                               *)
(***************************************************************************)

\* The machine: RAM ends at top, one page or more before the last address, or exactly
\* there, and what the loaders align to and aim at are whole pages.
Platform(top) ==
    /\ top \in Addr /\ top + Page < Word
    /\ \A m \in Firmware : \A q \in m : q.type = "RAM" => BelowTop(q, top)
    /\ AsksForSetup => SetupPage
    /\ M1 % Page = 0 /\ KernelAlign % Page = 0 /\ SetupAddr % Page = 0
    /\ IbftRange.start % Page = 0 /\ Proper(IbftRange)

\* If a loader asks for the page at SetupAddr, it stays in one piece.
Spared(a) == AsksForSetup => ~InSetup(a)

\* What is added can be rounded up to pages.
Addable(size) == size + 2 * Page < Word
AddableFile(n) == n = EmptyFile \/ Addable(n)

\* No program header is empty or in the last page.
PagedElf(elf) == \A k \in DOMAIN elf : elf[k].size > 0 /\ elf[k].start + elf[k].size + Page <= Word /\ Spared(elf[k].start)

\* The inputs that the loaders can cope with.
PagedLoader(top, p) ==
    \/ \E reserved \in Seq(Ranges), len, image, text, dtb \in Addr, ramfs \in Files :
         /\ p = Arm64(reserved, len, image, text, ramfs, dtb)
         /\ \A k \in DOMAIN reserved : Spared(reserved[k].start)
         /\ Wrap(image + text) + KernelAlign + Page < Word /\ top + text + Page <= Word
         /\ AddableFile(ramfs) /\ Addable(dtb) /\ Addable(1)
    \/ \E elf \in Elf, ramfs \in Files, cmdline, param \in Addr, purgatory \in Ranges :
         /\ p = Amd64(elf, ramfs, cmdline, param, purgatory)
         /\ PagedElf(elf) /\ AddableFile(ramfs) /\ Addable(cmdline) /\ param <= Page
         /\ purgatory.start % Page = 0 /\ purgatory.start + UpPage(purgatory.size) < Word
    \/ \E elf \in Elf, ibft, mmap, modules, info \in Addr :
         /\ \/ p = Multiboot(elf, ibft, mmap, modules, info)
            \/ p = EsxBootInfo(elf, ibft, modules, info)
         /\ PagedElf(elf) /\ Addable(mmap) /\ Addable(modules) /\ Addable(info) /\ Addable(1)
    \/ \E base, len, entry, config \in Addr :
         /\ p = Uefi(base, len, entry, config)
         /\ len > 0 /\ base + len + Page <= Word /\ Spared(base)
         /\ config <= ConfigSize =>
              config > 0 /\ ConfigSize <= base /\ base + Page <= Word /\ Spared(base - ConfigSize)

\* Lists of calls, one after the other, and short ones.
LEMMA ShortLists ==
    ASSUME NEW S
    PROVE  /\ \A p, q \in Seq(S) : p \o q \in Seq(S)
           /\ <<>> \in Seq(S)
           /\ \A a \in S : <<a>> \in Seq(S)
           /\ \A a, b \in S : <<a, b>> \in Seq(S)
           /\ \A a, b, c \in S : <<a, b, c>> \in Seq(S)
           /\ \A a, b, c, d \in S : <<a, b, c, d>> \in Seq(S)
           /\ \A a, b, c, d, e \in S : <<a, b, c, d, e>> \in Seq(S)
  OBVIOUS

\* The calls that need nothing but room.
LEMMA PagedCallFacts ==
    ASSUME NEW top, Platform(top)
    PROVE  /\ Parse \in PagedCalls(top) /\ Tell \in PagedCalls(top)
           /\ \A e \in Addr \cup {-1} : Load(e) \in PagedCalls(top)
           /\ \A l \in Addr : Addable(l) => Add(l) \in PagedCalls(top)
           /\ \A n \in Files : AddableFile(n) => AddFile(n) \in PagedCalls(top)
           /\ \A l \in Addr : AddPhys(l, IbftRange) \in PagedCalls(top)
           /\ \A elf \in Elf : PagedElf(elf) => elf \in Seq(PagedCalls(top))
<1>0. /\ Page \in Addr /\ 0 \in Addr /\ Page \in Nat /\ Word \in Nat /\ Page % Page = 0 /\ IbftRange \in Ranges
      /\ top \in Nat /\ top + Page < Word /\ IbftRange.start % Page = 0 /\ Proper(IbftRange) /\ (AsksForSetup => SetupPage)
  BY WordAssumption, KexecAssumption DEF Addr, Platform
<1>1. Parse \in PagedCalls(top) /\ Tell \in PagedCalls(top)
  BY DEF Parse, Tell, Calls, ProperCalls, PagedCalls
<1>2. ASSUME NEW e \in Addr \cup {-1} PROVE Load(e) \in PagedCalls(top)
  BY DEF Load, Calls, ProperCalls, PagedCalls
<1>3. ASSUME NEW l \in Addr, Addable(l) PROVE Add(l) \in PagedCalls(top)
  <2>1. l \in Nat /\ l + Page + Page < Word /\ top + 0 < Word /\ top + 0 + Page <= Word
    BY <1>0, <1>3 DEF Addable, Addr
  <2>2. /\ Add(l) \in Calls /\ Add(l).op = "add" /\ Add(l).off = 0
        /\ Add(l).sz = l /\ Add(l).align = Page
    BY <1>0 DEF Add, Explicit, Calls
  <2> HIDE DEF Add
  <2> QED
    BY <1>0, <2>1, <2>2 DEF ProperCalls, PagedCalls
<1>4. ASSUME NEW l \in Addr PROVE AddPhys(l, IbftRange) \in PagedCalls(top)
  <2>1. AddPhys(l, IbftRange) \in Calls /\ AddPhys(l, IbftRange).op = "phys" /\ AddPhys(l, IbftRange).limit = IbftRange
    BY <1>0 DEF AddPhys, Calls
  <2>2. AsksForSetup => ~InSetup(IbftRange.start)
    <3>1. IbftRange.start \in Nat
      BY <1>0 DEF Ranges, Addr
    <3> QED
      BY <1>0, <3>1, AlignedOutside
  <2> QED
    BY <1>0, <2>1, <2>2 DEF ProperCalls, PagedCalls
<1>5. ASSUME NEW elf \in Elf, PagedElf(elf) PROVE elf \in Seq(PagedCalls(top))
  <2>1. /\ elf \in Seq(Calls) /\ Len(elf) \in Nat /\ DOMAIN elf = 1..Len(elf)
        /\ \A k \in DOMAIN elf : elf[k] \in Calls /\ elf[k].op = "insert"
    BY DEF Elf
  <2>2. ASSUME NEW k \in DOMAIN elf PROVE elf[k] \in PagedCalls(top)
    <3>1. /\ elf[k].size > 0 /\ elf[k].start + elf[k].size + Page <= Word /\ (AsksForSetup => ~InSetup(elf[k].start))
      BY <1>5, <2>2 DEF PagedElf, Spared
    <3>2. elf[k].start \in Nat /\ elf[k].size \in Nat
      BY <2>1, <2>2 DEF Calls, Addr
    <3>3. elf[k].start + elf[k].size < Word
      BY <3>1, <3>2, WordAssumption
    <3> QED
      BY <2>1, <2>2, <3>1, <3>3 DEF ProperCalls, PagedCalls
  <2> QED
    BY <2>1, <2>2
<1>6. ASSUME NEW n \in Files, AddableFile(n) PROVE AddFile(n) \in PagedCalls(top)
  <2>1. CASE n = EmptyFile
    BY <2>1 DEF AddFile, Calls, ProperCalls, PagedCalls
  <2>2. CASE n # EmptyFile
    BY <1>3, <1>6, <2>2 DEF AddFile, Files, AddableFile
  <2> QED
    BY <2>1, <2>2
<1> QED
  BY <1>1, <1>2, <1>3, <1>4, <1>5, <1>6

\* arm64: the kernel asks for room with its offset, the files for their pages.
LEMMA Arm64Paged ==
    ASSUME NEW top, Platform(top), NEW reserved \in Seq(Ranges), \A k \in DOMAIN reserved : Spared(reserved[k].start),
           NEW len \in Addr, NEW image \in Addr, NEW text \in Addr, NEW ramfs \in Files, NEW dtb \in Addr,
           Wrap(image + text) + KernelAlign + Page < Word, top + text + Page <= Word,
           AddableFile(ramfs), Addable(dtb), Addable(1)
    PROVE  Arm64(reserved, len, image, text, ramfs, dtb) \in Seq(PagedCalls(top))
<1> DEFINE S == PagedCalls(top)
           carves == [k \in DOMAIN reserved |-> Carve(reserved[k])]
           kernel == Explicit(len, Wrap(image + text), text, KernelAlign)
           rest == <<kernel, AddFile(ramfs), Add(dtb), Add(1), Load(LastAdded)>>
<1>0. 1 \in Addr /\ LastAdded \in Addr \cup {-1} /\ Wrap(image + text) \in Addr /\ KernelAlign \in Addr
  BY WordAssumption, KexecAssumption DEF LastAdded, Addr, Wrap
<1>1. Parse \in S /\ AddFile(ramfs) \in S /\ Add(dtb) \in S /\ Add(1) \in S /\ Load(LastAdded) \in S
  BY <1>0, PagedCallFacts
<1>2. carves \in Seq(S)
  <2>1. Len(reserved) \in Nat /\ DOMAIN reserved = 1..Len(reserved) /\ \A k \in DOMAIN reserved : reserved[k] \in Ranges
    OBVIOUS
  <2>2. ASSUME NEW k \in DOMAIN reserved PROVE Carve(reserved[k]) \in S
    <3>1. Carve(reserved[k]) \in Calls /\ Carve(reserved[k]).op = "carve" /\ Carve(reserved[k]).start = reserved[k].start
      BY <2>1, <2>2 DEF Carve, Calls, Ranges
    <3>2. AsksForSetup => ~InSetup(reserved[k].start)
      BY <2>2 DEF Spared
    <3> HIDE DEF Carve
    <3> QED
      BY <3>1, <3>2 DEF ProperCalls, PagedCalls
  <2> QED
    BY <2>1, <2>2
<1>3. kernel \in S
  <2>1. /\ kernel \in Calls /\ kernel.op = "add" /\ kernel.off = text
        /\ kernel.sz = Wrap(image + text) /\ kernel.align = KernelAlign
    BY <1>0 DEF Explicit, Calls
  <2>2. top + text < Word /\ KernelAlign % Page = 0
    BY WordAssumption DEF Platform, Addr
  <2> HIDE DEF kernel
  <2> QED
    BY <2>1, <2>2 DEF ProperCalls, PagedCalls
<1>4. Arm64(reserved, len, image, text, ramfs, dtb) = (<<Parse>> \o carves) \o rest
  BY DEF Arm64
<1> HIDE DEF S, carves, kernel
<1>5. <<Parse>> \in Seq(S) /\ rest \in Seq(S)
  BY <1>1, <1>3, ShortLists
<1> HIDE DEF rest
<1>6. (<<Parse>> \o carves) \o rest \in Seq(S)
  BY <1>2, <1>5, ShortLists
<1> QED
  BY <1>4, <1>6 DEF S

\* amd64: the limit for the boot parameters wraps around, and then the page at
\* SetupAddr is asked for; the purgatory is put where it was linked to.
LEMMA Amd64Paged ==
    ASSUME NEW top, Platform(top), NEW elf \in Elf, NEW ramfs \in Files, NEW cmdline \in Addr, NEW param \in Addr,
           NEW purgatory \in Ranges, Amd64(elf, ramfs, cmdline, param, purgatory) \in Programs,
           PagedElf(elf), AddableFile(ramfs), Addable(cmdline), param <= Page,
           purgatory.start % Page = 0, purgatory.start + UpPage(purgatory.size) < Word
    PROVE  Amd64(elf, ramfs, cmdline, param, purgatory) \in Seq(PagedCalls(top))
<1> DEFINE S == PagedCalls(top)
           u == UpPage(purgatory.size)
           initrd == IF ramfs = 0 THEN <<>> ELSE <<AddFile(ramfs)>>
           line == IF cmdline = 0 THEN <<>> ELSE <<Add(cmdline)>>
           l1 == RangeFromInterval(SetupAddr, param)
           l2 == RangeFromInterval(purgatory.start, Wrap(purgatory.start + u))
           c1 == AddPhys(param, l1)
           c2 == AddPhys(u, l2)
           head == ((<<Parse>> \o elf) \o initrd) \o line
           last == <<c1, c2, Load(purgatory.start)>>
           program == Amd64(elf, ramfs, cmdline, param, purgatory)
<1>0. /\ purgatory.start \in Addr /\ purgatory.size \in Addr /\ SetupAddr \in Addr /\ SetupAddr % Page = 0
      /\ (AsksForSetup => SetupPage)
  BY KexecAssumption DEF Ranges, Platform
<1>1. u \in Addr /\ purgatory.start + u < Word
  BY <1>0, WordAssumption, UpType DEF UpPage, Addr
<1>2. program = head \o last
  BY DEF Amd64
<1> HIDE DEF u
<1>3. /\ l1 \in Ranges /\ l1.start = SetupAddr
      /\ l2 \in Ranges /\ l2.start = purgatory.start /\ Proper(l2)
  BY <1>0, <1>1, WordAssumption DEF RangeFromInterval, Wrap, Ranges, Addr, Proper
<1>4. /\ c1 \in Calls /\ c1.op = "phys" /\ c1.len = param /\ c1.limit = l1
      /\ c2 \in Calls /\ c2.op = "phys" /\ c2.limit = l2
  BY <1>1, <1>3 DEF AddPhys, Calls
<1>5. SetupCall(c1)
  BY <1>4 DEF SetupCall
<1> HIDE DEF l1, l2, c1, c2, S
<1>6. Parse \in S /\ Load(purgatory.start) \in S /\ elf \in Seq(S) /\ initrd \in Seq(S) /\ line \in Seq(S)
  <2>1. /\ Parse \in S /\ Load(purgatory.start) \in S /\ elf \in Seq(S) /\ AddFile(ramfs) \in S /\ Add(cmdline) \in S
    BY <1>0, PagedCallFacts DEF S
  <2> QED
    BY <2>1, ShortLists
<1>7. <<Parse>> \in Seq(S)
  BY <1>6, ShortLists
<1> HIDE DEF initrd, line
<1>8. head \in Seq(S)
  BY <1>6, <1>7, ShortLists
<1>9. Proper(l1) \/ AsksForSetup
  <2>1. \E k \in DOMAIN program : program[k] = c1
    <3>1. Len(head) \in Nat /\ head \in Seq(S)
      BY <1>8
    <3> HIDE DEF head
    <3>2. Len(head) + 1 \in DOMAIN (head \o last) /\ (head \o last)[Len(head) + 1] = c1
      BY <3>1
    <3> QED
      BY <1>2, <3>2
  <2> QED
    BY <1>4, <1>5, <2>1 DEF AsksForSetup
<1>10. c1 \in S
  <2>1. ~InSetup(SetupAddr)
    BY WordAssumption, KexecAssumption DEF InSetup, Addr
  <2> QED
    BY <1>0, <1>3, <1>4, <1>5, <1>9, <2>1 DEF S, ProperCalls, PagedCalls
<1>11. c2 \in S
  <2>1. AsksForSetup => ~InSetup(purgatory.start)
    <3>1. purgatory.start \in Nat
      BY <1>0 DEF Addr
    <3> QED
      BY <1>0, <3>1, AlignedOutside
  <2> QED
    BY <1>3, <1>4, <2>1 DEF S, ProperCalls, PagedCalls
<1>12. last \in Seq(S)
  BY <1>6, <1>10, <1>11, ShortLists
<1> HIDE DEF head, last, program
<1>13. head \o last \in Seq(S)
  BY <1>8, <1>12, ShortLists
<1> QED
  BY <1>2, <1>13 DEF program, S

\* A multiboot kernel and one with an esxBootInfo header: the program headers, then
\* nothing but additions and the iBFT.
LEMMA MultibootPaged ==
    ASSUME NEW top, Platform(top), NEW elf \in Elf, NEW ibft \in Addr, NEW mmap \in Addr, NEW modules \in Addr,
           NEW info \in Addr, PagedElf(elf), Addable(mmap), Addable(modules), Addable(info), Addable(1)
    PROVE  /\ Multiboot(elf, ibft, mmap, modules, info) \in Seq(PagedCalls(top))
           /\ EsxBootInfo(elf, ibft, modules, info) \in Seq(PagedCalls(top))
<1> DEFINE S == PagedCalls(top)
           table == IF ibft = 0 THEN <<>> ELSE <<AddPhys(ibft, IbftRange)>>
           map == <<Tell, Add(mmap)>>
           files == IF modules = 0 THEN <<>> ELSE <<Add(modules), Add(1)>>
           rest == <<Add(info), Add(1), Load(LastAdded)>>
           esx == <<Tell, Add(modules), Add(info), Add(1), Load(LastAdded)>>
<1>0. 1 \in Addr /\ LastAdded \in Addr \cup {-1}
  BY WordAssumption DEF LastAdded, Addr
<1>1. /\ Parse \in S /\ Tell \in S /\ Load(LastAdded) \in S /\ Add(mmap) \in S /\ Add(modules) \in S
      /\ Add(info) \in S /\ Add(1) \in S /\ AddPhys(ibft, IbftRange) \in S /\ elf \in Seq(S)
  BY <1>0, PagedCallFacts
<1>2. /\ Multiboot(elf, ibft, mmap, modules, info) = ((((elf \o <<Parse>>) \o table) \o map) \o files) \o rest
      /\ EsxBootInfo(elf, ibft, modules, info) = ((elf \o <<Parse>>) \o table) \o esx
  BY DEF Multiboot, EsxBootInfo
<1> HIDE DEF S
<1>3. /\ <<Parse>> \in Seq(S) /\ table \in Seq(S) /\ map \in Seq(S) /\ files \in Seq(S)
      /\ rest \in Seq(S) /\ esx \in Seq(S)
  BY <1>1, ShortLists
<1> HIDE DEF table, map, files, rest, esx
<1>4. (elf \o <<Parse>>) \o table \in Seq(S)
  BY <1>1, <1>3, ShortLists
<1>5. ((((elf \o <<Parse>>) \o table) \o map) \o files) \o rest \in Seq(S)
  BY <1>3, <1>4, ShortLists
<1>6. ((elf \o <<Parse>>) \o table) \o esx \in Seq(S)
  BY <1>3, <1>4, ShortLists
<1> QED
  BY <1>2, <1>5, <1>6 DEF S

\* A UEFI payload: its configuration fits below its base.
LEMMA UefiPaged ==
    ASSUME NEW top, Platform(top), NEW base \in Addr, NEW len \in Addr, NEW entry \in Addr, NEW config \in Addr,
           len > 0, base + len + Page <= Word, Spared(base),
           config <= ConfigSize => config > 0 /\ ConfigSize <= base /\ base + Page <= Word /\ Spared(base - ConfigSize)
    PROVE  Uefi(base, len, entry, config) \in Seq(PagedCalls(top))
<1> DEFINE S == PagedCalls(top)
           below == Wrap(base - ConfigSize)
           at == Wrap(base + entry)
           payload == InsertAt(base, len, len)
           settings == InsertAt(below, config, config)
           first == <<payload, Parse, Tell>>
           second == <<settings, Load(at)>>
<1>0. /\ below \in Addr /\ at \in Addr /\ base \in Nat /\ len \in Nat /\ config \in Nat /\ ConfigSize \in Nat
      /\ Word \in Nat /\ Page \in Nat \ {0}
  BY WordAssumption, KexecAssumption DEF Wrap, Addr
<1>1. Uefi(base, len, entry, config) = first \o (IF config > ConfigSize THEN <<>> ELSE second)
  BY DEF Uefi
<1>2. Parse \in S /\ Tell \in S /\ Load(at) \in S
  BY <1>0, PagedCallFacts
<1>3. payload \in S
  <2>1. payload \in Calls /\ payload.op = "insert" /\ payload.start = base /\ payload.size = len
    BY DEF InsertAt, Calls
  <2>2. base + len < Word /\ (AsksForSetup => ~InSetup(base))
    BY <1>0 DEF Spared
  <2> HIDE DEF payload
  <2> QED
    BY <2>1, <2>2 DEF ProperCalls, PagedCalls
<1>4. ASSUME config <= ConfigSize PROVE settings \in S
  <2>1. config > 0 /\ ConfigSize <= base /\ base + Page <= Word /\ (AsksForSetup => ~InSetup(base - ConfigSize))
    BY <1>4 DEF Spared
  <2>2. below = base - ConfigSize
    BY <1>0, <2>1 DEF Wrap, Addr
  <2>3. settings \in Calls /\ settings.op = "insert" /\ settings.start = below /\ settings.size = config
    BY <1>0 DEF InsertAt, Calls
  <2>4. below + config < Word /\ below + config + Page <= Word
    BY <1>0, <1>4, <2>1, <2>2
  <2> HIDE DEF settings, below
  <2>5. AsksForSetup => ~InSetup(below)
    BY <2>1, <2>2
  <2> QED
    BY <2>1, <2>3, <2>4, <2>5 DEF ProperCalls, PagedCalls
<1> HIDE DEF S, below, at, payload, settings
<1>5. first \in Seq(S)
  BY <1>2, <1>3, ShortLists
<1>6. CASE config > ConfigSize
  <2> HIDE DEF first, second
  <2>1. first \o <<>> \in Seq(S)
    BY <1>5, ShortLists
  <2> QED
    BY <1>1, <1>6, <2>1 DEF S
<1>7. CASE config <= ConfigSize
  <2>1. second \in Seq(S)
    BY <1>2, <1>4, <1>7, ShortLists
  <2>2. ~(config > ConfigSize)
    BY <1>0, <1>7
  <2> HIDE DEF first, second
  <2>3. first \o second \in Seq(S)
    BY <1>5, <2>1, ShortLists
  <2> QED
    BY <1>1, <2>2, <2>3 DEF S
<1> QED
  BY <1>0, <1>6, <1>7

\* Each of the five loaders makes its calls in order and in pages.
LEMMA LoaderCalls ==
    ASSUME NEW top, Platform(top), NEW p \in Programs, PagedLoader(top, p)
    PROVE  p \in Seq(PagedCalls(top)) /\ InOrder(p)
<1>1. CASE \E reserved \in Seq(Ranges), len, image, text, dtb \in Addr, ramfs \in Files :
             /\ p = Arm64(reserved, len, image, text, ramfs, dtb)
             /\ \A k \in DOMAIN reserved : Spared(reserved[k].start)
             /\ Wrap(image + text) + KernelAlign + Page < Word /\ top + text + Page <= Word
             /\ AddableFile(ramfs) /\ Addable(dtb) /\ Addable(1)
  BY <1>1, Arm64Paged, Arm64InOrder
<1>2. CASE \E elf \in Elf, ramfs \in Files, cmdline, param \in Addr, purgatory \in Ranges :
             /\ p = Amd64(elf, ramfs, cmdline, param, purgatory)
             /\ PagedElf(elf) /\ AddableFile(ramfs) /\ Addable(cmdline) /\ param <= Page
             /\ purgatory.start % Page = 0 /\ purgatory.start + UpPage(purgatory.size) < Word
  BY <1>2, Amd64Paged, Amd64InOrder
<1>3. CASE \E elf \in Elf, ibft, mmap, modules, info \in Addr :
             /\ \/ p = Multiboot(elf, ibft, mmap, modules, info)
                \/ p = EsxBootInfo(elf, ibft, modules, info)
             /\ PagedElf(elf) /\ Addable(mmap) /\ Addable(modules) /\ Addable(info) /\ Addable(1)
  <2>1. PICK elf \in Elf, ibft \in Addr, mmap \in Addr, modules \in Addr, info \in Addr :
             /\ \/ p = Multiboot(elf, ibft, mmap, modules, info)
                \/ p = EsxBootInfo(elf, ibft, modules, info)
             /\ PagedElf(elf) /\ Addable(mmap) /\ Addable(modules) /\ Addable(info) /\ Addable(1)
    BY <1>3
  <2>2. /\ Multiboot(elf, ibft, mmap, modules, info) \in Seq(PagedCalls(top))
        /\ EsxBootInfo(elf, ibft, modules, info) \in Seq(PagedCalls(top))
    BY <2>1, MultibootPaged
  <2>3. InOrder(Multiboot(elf, ibft, mmap, modules, info)) /\ InOrder(EsxBootInfo(elf, ibft, modules, info))
    BY MultibootInOrder
  <2> QED
    BY <2>1, <2>2, <2>3
<1>4. CASE \E base, len, entry, config \in Addr :
             /\ p = Uefi(base, len, entry, config)
             /\ len > 0 /\ base + len + Page <= Word /\ Spared(base)
             /\ config <= ConfigSize =>
                  config > 0 /\ ConfigSize <= base /\ base + Page <= Word /\ Spared(base - ConfigSize)
  BY <1>4, UefiPaged, UefiInOrder
<1> QED
  BY <1>1, <1>2, <1>3, <1>4 DEF PagedLoader

\* What the five loaders may count on.  The machine is a Platform(top): RAM that ends at
\* top, more than a page below the last address, or exactly there; and if some loader asks
\* for the boot parameters as the amd64 loader does, no RAM that ends within their page,
\* on which that loader fails.  The files are those of PagedLoader: no program header or
\* payload is empty, nothing reaches into the last page, the configuration of a UEFI
\* payload fits below it.  Then memory that is handed out is free RAM, no segment that
\* was placed shares an address with another one, what the next system is told stays
\* true, the kernel gets full pages that do not overlap, and every byte arrives.
THEOREM KernelsAreLoaded ==
    ASSUME NEW top, Platform(top), \A p \in Programs : PagedLoader(top, p)
    PROVE  Spec => [](FoundIsFree /\ PlacedApart /\ ReservedIsTold /\ KernelAccepts /\ BytesArrive)
<1>1. \A p \in Programs : p \in Seq(PagedCalls(top)) /\ InOrder(p)
  BY LoaderCalls
<1>2. Programs \subseteq Seq(PagedCalls(top)) /\ Programs \subseteq Seq(ProperCalls(top))
  <2>1. PagedCalls(top) \subseteq ProperCalls(top)
    BY DEF PagedCalls
  <2> QED
    BY <1>1, <2>1
<1>3. PagedMachine(top) /\ Machine(top)
  BY <1>2 DEF PagedMachine, Machine, Platform
<1>4. Spec => []FoundIsFree
  BY <1>3, FoundSpaceIsFree
<1>5. Spec => []PlacedApart
  BY <1>1, <1>3, PlacedSegmentsApart
<1>6. Spec => []ReservedIsTold
  BY <1>1, ReservationsAreTold
<1>7. (Spec => []KernelAccepts) /\ (Spec => []BytesArrive)
  BY <1>1, <1>3, KernelAcceptsSegments, BytesAreLoaded
<1> QED
  BY <1>4, <1>5, <1>6, <1>7, PTL

=============================================================================
